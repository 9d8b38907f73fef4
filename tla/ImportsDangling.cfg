SPECIFICATION Spec
CONSTANTS
  Files = {f1, f2}
  Plugins = {}
  MaxPlugins = 1
  MaxScopes = 2
  MaxImports = 2
  MaxRef = 3
  MaxRuns = 2
INVARIANT NamedScopesLive
CHECK_DEADLOCK FALSE
