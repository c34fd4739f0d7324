SPECIFICATION FairSpec
CONSTANTS
    old = old
    new = new
    migrate = migrate
    Processes = {old, new, migrate}
    Release <- MCRelease
    MaxExits = 3
    Free = Free
    Orphan = Orphan
INVARIANTS
    SchemaInOrder
    RepeatsFollowABreak
    ServingHasItsSchema
PROPERTY
    EveryStartEnds
CHECK_DEADLOCK FALSE
