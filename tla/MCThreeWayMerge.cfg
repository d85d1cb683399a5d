SPECIFICATION Spec
CONSTANTS
  Line = {"a", "b", "c"}
  MaxLen = 3
CHECK_DEADLOCK FALSE
INVARIANT DiffRebuilds ClearEditsWeave SidesAlike
