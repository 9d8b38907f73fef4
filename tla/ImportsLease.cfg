SPECIFICATION Spec
CONSTANTS
  Files = {f1}
  Plugins = {p1}
  MaxPlugins = 1
  MaxScopes = 1
  MaxImports = 1
  MaxRef = 3
  MaxRuns = 1
INVARIANT PluginsLeased
CHECK_DEADLOCK FALSE
