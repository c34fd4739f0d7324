SPECIFICATION FairSpec
CONSTANTS
    compensate = compensate
    notifications = notifications
    Queues = {compensate, notifications}
    MaxRetries = 1
    FaultKinds = {"record", "refused", "unconfirmed", "record_lost", "release", "crash"}
    MaxFaults = 1
    MaxReplays = 0
INVARIANT
    CopiesAreBounded
PROPERTY
    DeliveryEnds
CHECK_DEADLOCK FALSE
