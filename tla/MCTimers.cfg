CONSTANTS
  Recs = {r1, r2, r3}
  NULL = NULL
  USEC = 3
  Timeos <- MCTimeos
  MaxTime = 7
  Elems = {e1, e2, e3, e4, e5, e6}
  MaxKey = 2
  MaxCreate = 4
SPECIFICATION Spec
SYMMETRY MCSymmetry
INVARIANTS
  TimersConsistent
  WaitEndsAtDeadline
  HeapConsistent
PROPERTIES
  NeverEarlyEarliestFirst
  ResetOnlyIncreases
  KeepsElements
