CONSTANTS
  MaxLoops = 16
  MaxNodes = 500
  MaxSteps = 100
  Programs <- MCPrograms
  SetNames = {"x", "i"}
  SetValues = {1, 2}
  MaxRuns = 1
SPECIFICATION Spec
INVARIANTS ValueAgrees TreeAgrees NativeAgrees LimitsReported
CHECK_DEADLOCK FALSE
