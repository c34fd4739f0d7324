SPECIFICATION WebhookSpec
CONSTANTS
    Requests = {r1, r2}
    Events = {e1, e2}
    Tolerance = 1
    ReplayTTL = 4
    MaxStall = 1
    MaxTime = 5
    MaxRestarts = 1
INVARIANTS
    RepeatsAreSpaced
    SignedOnce
SYMMETRY Symmetry
CHECK_DEADLOCK FALSE
