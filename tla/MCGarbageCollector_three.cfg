SPECIFICATION Spec
CONSTANTS
  N = 3
  Nodes = {n1, n2}
  NULL = NULL
  MaxPushes = 1
  LimitModulus = 3
  Threshold = 0
  ListSize = 1
INVARIANTS
  Protected
SYMMETRY
  Symmetry
VIEW
  View
CONSTRAINT
  Orderly
