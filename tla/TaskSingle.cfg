CONSTANTS
    Capacities = {1, 2}
    InitCapacity = 2
    QueueCap = 1
    Pool = 1
    MaxId = 3
    MaxCalls = 2
    Calls <- HostManages
SPECIFICATION Spec
INVARIANTS
    TypeOK
    NoLostWakeup
PROPERTIES
    FreeReturns
CHECK_DEADLOCK FALSE
