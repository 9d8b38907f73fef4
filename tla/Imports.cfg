SPECIFICATION Spec
CONSTANTS
  Files = {f1, f2}
  Plugins = {p1}
  MaxPlugins = 1
  MaxScopes = 2
  MaxImports = 2
  MaxRef = 3
  MaxRuns = 2
SYMMETRY Symmetry
INVARIANTS ScopesInPlace ChainComplete ExportsAtHome NoDangling ImportedOnce
CHECK_DEADLOCK FALSE
