CONSTANTS
    Capacities = {2}
    InitCapacity = 2
    QueueCap = 2
    Pool = 2
    MaxId = 3
    MaxCalls = 2
    Calls <- HostReleases
SPECIFICATION Spec
INVARIANTS
    SubmissionBorrowsSlot
    ActiveExact
PROPERTIES
    TerminalUnlessRejoined
CHECK_DEADLOCK FALSE
