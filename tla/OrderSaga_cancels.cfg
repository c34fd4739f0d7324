SPECIFICATION FairSpec
CONSTANTS
    Orders = {o1}
    MaxRetries = 1
    MaxCancelRequests = 2
    FaultKinds = {"db_error", "replay"}
    MaxFaults = 1
INVARIANTS
    
    OneOutcomePerStep
    PaymentStatusAgrees
    
PROPERTIES
    AgreesWithMemoryStore
    
    
    
CHECK_DEADLOCK FALSE
