CONSTANTS
    Capacities = {2}
    InitCapacity = 2
    QueueCap = 2
    Pool = 2
    MaxId = 2
    MaxCalls = 2
    Calls <- HostManages
SPECIFICATION Spec
PROPERTIES
    TerminalIsFinal
CHECK_DEADLOCK FALSE
