SPECIFICATION FairSpec
CONSTANTS
  N = 2
  Nodes = {n1, n2, n3}
  NULL = NULL
  MaxPushes = 2
  LimitModulus = 3
INVARIANTS
  Balanced
  LimitRange
PROPERTIES
  ImplementsStack
  Terminates
