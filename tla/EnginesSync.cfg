CONSTANTS
  MaxLoops = 16
  MaxNodes = 500
  MaxSteps = 100
  Programs <- MCPrograms
  SetNames = {"x", "i"}
  SetValues = {1, 2}
  MaxRuns = 1
SPECIFICATION Spec
INVARIANT EnvironmentSynchronized
CHECK_DEADLOCK FALSE
