SPECIFICATION TabsSpec
CONSTANTS
  Value <- MCValue
  Empty <- MCEmpty
  Draft <- MCTabsDraft
  WeaveLines <- MCWeave
  EditApart <- MCApart
  EditsOfBoth <- MCBoth
  Editor = {t1}
  MaxAttempts = 2
  Faults = {"getLive", "commit"}
  MaxInflight = 1
  MaxRev = 3
CHECK_DEADLOCK FALSE
PROPERTY OnlySeenIsReplaced SaveReturns
