SPECIFICATION Spec
CONSTANTS
    compensate = compensate
    notifications = notifications
    Queues = {compensate, notifications}
    MaxRetries = 1
    FaultKinds = {"record", "record_lost", "release", "crash", "refused", "unconfirmed",
                  "replay_unconfirmed"}
    MaxFaults = 1
    MaxReplays = 1
SYMMETRY Symmetry
INVARIANTS
    NothingVanishes
    HandledAtMostOnce
CHECK_DEADLOCK FALSE
