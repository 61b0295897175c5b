SPECIFICATION FairSpec
CONSTANTS
  N = 3
  Iters = 2
  MinDelay = 1
  MaxDelay = 3
  UIntSpan = 8
INVARIANTS
  TypeOK
  ReportExact
  NoUseAfterDelete
  DelayRange
PROPERTIES
  ImplementsMutex
  TerminatesUnlessBornSet
