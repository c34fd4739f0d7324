SPECIFICATION FairSpec
CONSTANTS
    NumEvents = 3
    Relays = {r1, r2}
    BatchSize = 2
    FaultKinds = {"nack", "unconfirmed", "db_error", "crash", "slow", "disconnect"}
    MaxFaults = 2
INVARIANTS
    PublishedWasRouted
    DuplicatesNeedExpiry
PROPERTIES
    ImplementsAtLeastOnce
    EveryEventIsPublished
CHECK_DEADLOCK FALSE
