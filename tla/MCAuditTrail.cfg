SPECIFICATION Spec
CONSTANTS
  Cap = 3
  MaxAge = 0
  MaxPosts = 3
  MaxNow = 0
  Request <- MCRequest
  MaxServed = 3
  ChanCap = 1
  Batch = 2
  PrimeLen = 1
  SubCap = 2
  MaxBreaks = 1
INVARIANT RecordedOnceInBounds Accounted StreamHasNoGap
PROPERTY EmitterDrains
CHECK_DEADLOCK FALSE
