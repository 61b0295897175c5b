SPECIFICATION ProgramSpec
CONSTANTS
  NumThreads = 3
  Iterations = 3
  NOBODY = NOBODY
  NumItems = 5
  Capacity = 2
  NONE = NONE
  NumTesters = 2
  NSEC_SEC = 2
  MaxElapsed = 6
  MaxRounds = 1
INVARIANT
  SizeKept
