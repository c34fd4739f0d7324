SPECIFICATION LimiterFairSpec
CONSTANTS
    Limit = 2
    Window = 3
    MaxLosses = 1
INVARIANTS
    BurstIsBounded
    RejectionIsEarned
PROPERTY
    AdmittedAgain
