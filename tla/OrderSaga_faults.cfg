CONSTANTS
    Orders = {o1}
    MaxRetries = 1
    MaxCancelRequests = 1
    FaultKinds = {"crash", "db_error", "lost_commit", "replay"}
    MaxFaults = 1
SPECIFICATION Spec
INVARIANTS
    StockFollowsStatus
    AuthorizationFollowsStatus
    ShipmentFollowsStatus
    OutboxMatchesOrders
    CompensationsStick
PROPERTIES
    SettledOrdersAreFrozen
    ImplementsLifecycle
CHECK_DEADLOCK FALSE
