SPECIFICATION Spec
CONSTANTS
  N = 3
  Nodes = {n1, n2, n3, n4}
  NULL = NULL
  MaxPushes = 2
  Ops = 2
  MaxRange = 0
  IntSpan = 4
INVARIANTS
  TypeOK
  Accounted
PROPERTIES
  ImplementsStack
SYMMETRY
  Symmetry
VIEW
  View
