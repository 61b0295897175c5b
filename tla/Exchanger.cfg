SPECIFICATION FairSpec
CONSTANTS
  Threads = {t1, t2, t3}
  Nodes = {n1, n2}
  NULL = NULL
  MaxRange = 0
  IntBits = 2
INVARIANTS
  TypeOK
  SlotsOwned
PROPERTIES
  ImplementsRendezvous
  VisitEnds
