SPECIFICATION Spec
CONSTANTS
  N = 2
  Nodes = {n1, n2, n3}
  NULL = NULL
  MaxPushes = 2
  LimitModulus = 3
  Threshold = 0
  ListSize = 2
INVARIANTS
  NoABA
  NodesConserved
  DirtySorted
  Protected
PROPERTIES
  ImplementsStack
SYMMETRY
  Symmetry
VIEW
  View
CONSTRAINT
  Busy
