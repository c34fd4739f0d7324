SPECIFICATION FairSpec
CONSTANTS
    Messages = {m1, m2}
    MaxPublications = 4
    MaxFaults = 3
INVARIANTS
    SuccessMeansRouted
PROPERTY
    EveryPublishReturns
CHECK_DEADLOCK FALSE
