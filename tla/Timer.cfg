CONSTANTS
    Capacity = 2
    QueueCap = 1
    Pool = 2
    MaxId = 2
    Kinds = {"after", "cron"}
    Calls <- Everything
SPECIFICATION Spec
INVARIANTS
    ActiveExact
    CallbackReleasedOnce
    AfterFiresOnce
    NoLostWakeup
PROPERTIES
    CancelIsFinal
    AfterEnds
CHECK_DEADLOCK FALSE
