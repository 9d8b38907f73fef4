SPECIFICATION Spec
CONSTANTS
  Files = {f1}
  Plugins = {}
  MaxPlugins = 1
  MaxScopes = 2
  MaxImports = 1
  MaxRef = 3
  MaxRuns = 2
INVARIANT Reclaimed
CHECK_DEADLOCK FALSE
