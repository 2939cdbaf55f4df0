CONSTANTS
  Recs = {r1, r2, r3}
  NULL = NULL
  MaxFd = 1
  InitAlloc = 1
  SIZE_MAX = 15
  NPrio = 1
  USEC = 4
  Timeos <- MCTimeos
  MaxTime = 3
  MSEC = 2
  INT_MAX = 9
SPECIFICATION LoopSpec
SYMMETRY MCSymmetry
INVARIANTS
  LoopConsistent
  RunsOne
  BlocksOnlyWhenIdle
PROPERTIES
  PriorityOrder
  TimeoutMeansExpired
  StopsAfterCurrentEvent
