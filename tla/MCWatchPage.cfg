SPECIFICATION Spec
CONSTANTS
  MaxStreams = 2
  MaxBackoff = 1
  MaxOutages = 2
  Prefix = {a, b}
  All = All
  Watched = {All, a}
  EventCap = 2
  MaxRev = 3
INVARIANT StreamsInOrder
PROPERTY OnlyWatched Recovers
CHECK_DEADLOCK FALSE
