SPECIFICATION Spec
CONSTANTS
  Cap = 3
  MaxAge = 0
  MaxPosts = 5
  MaxNow = 1
  MaxTears = 2
INVARIANT RingAndFile
PROPERTY Implements OnlyOldLinesLeave
