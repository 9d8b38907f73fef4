SPECIFICATION Spec
CONSTANTS
  Files = {f1}
  Plugins = {}
  MaxPlugins = 1
  MaxScopes = 1
  MaxImports = 2
  MaxRef = 3
  MaxRuns = 1
INVARIANT ExecutedOnce
CHECK_DEADLOCK FALSE
