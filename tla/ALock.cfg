SPECIFICATION FairSpec
CONSTANTS
  N = 3
  Iters = 2
INVARIANTS
  Inv
  CurslotIsHolders
  SlotsDistinct
PROPERTIES
  ImplementsMutex
  FirstComeFirstServed
  NoStarvation
