SPECIFICATION Spec
CONSTANTS
  Modules = {m1, m2}
  Instances = {i1, i2, i3}
  Results = {r1}
  Names = {f1, f2}
  Capacity = 2
  GenMax = 3
  MaxDepth = 3
  None = None
SYMMETRY Symmetry
INVARIANTS TypeOK RefCountsExact BoundEntriesStable CallsConsistent
  HandleNamesIssuer
PROPERTY ImplementsOwnership
CHECK_DEADLOCK FALSE
