CONSTANTS
    Orders = {o1}
    MaxRetries = 1
    MaxCancelRequests = 0
    FaultKinds = {"crash"}
    MaxFaults = 1
SPECIFICATION FairSpec
PROPERTY AcceptedOrdersAdvance
CHECK_DEADLOCK FALSE
