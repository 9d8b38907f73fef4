CONSTANTS
    Capacities = {2}
    InitCapacity = 2
    QueueCap = 2
    Pool = 2
    MaxId = 3
    MaxCalls = 2
    Calls <- HostManages
SPECIFICATION Spec
INVARIANTS
    CancelledByName
CHECK_DEADLOCK FALSE
