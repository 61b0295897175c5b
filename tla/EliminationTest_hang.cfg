SPECIFICATION FairSpec
CONSTANTS
  N = 2
  Nodes = {n1, n2, n3, n4}
  NULL = NULL
  MaxPushes = 2
  Ops = 2
  MaxRange = 1
  IntSpan = 4
PROPERTIES
  OperationsDone
