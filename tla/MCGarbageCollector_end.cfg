SPECIFICATION FairSpec
CONSTANTS
  N = 2
  Nodes = {n1, n2}
  NULL = NULL
  MaxPushes = 1
  LimitModulus = 3
  Threshold = 0
  ListSize = 1
INVARIANTS
  TypeOK
  NoLeak
PROPERTIES
  Ends
