CONSTANTS
    HardSteps = 6
    HardLoops = 2
    HardCallbacks = 1
    HardRecursion = 3
    Interval = 3
    Options <- MCOptions
    Limits <- MCLimits
    FrameCosts = {1, 3}
    StepCosts = {1, 2}
    RetainedSizes = {1, 2}
SPECIFICATION Spec
INVARIANTS
    TypeOK
    FrameAccounting
    InterruptLatency
PROPERTIES
    FailureIsFinal
    CallTerminates
