SPECIFICATION Spec
CONSTANTS
  Value <- MCValue
  Empty <- MCEmpty
  Draft <- MCDraft
  WeaveLines <- MCWeave
  EditApart <- MCApart
  EditsOfBoth <- MCBoth
  Editor = {e1, e2}
  MaxAttempts = 2
  Faults = {"commit"}
  MaxInflight = 0
  MaxRev = 3
SYMMETRY Symmetry
INVARIANT IInv AnsweredSaveIsStored
PROPERTY Implements ForeignEditsSurvive
CHECK_DEADLOCK FALSE
