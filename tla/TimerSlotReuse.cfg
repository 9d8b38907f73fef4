CONSTANTS
    Capacity = 1
    QueueCap = 2
    Pool = 2
    MaxId = 2
    Kinds = {"after"}
    Calls <- HostCancels
SPECIFICATION Spec
INVARIANTS
    SubmissionBorrowsSlot
CHECK_DEADLOCK FALSE
