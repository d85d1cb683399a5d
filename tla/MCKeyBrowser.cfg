SPECIFICATION KeyBrowserSpec
CONSTANTS
  KbKey = {"a", "b"}
  KbObject = {"a"}
  KbFirst = {"a"}
  KbMaxRev = 2
  KbMaxRequests = 2
CHECK_DEADLOCK FALSE
INVARIANT KeyBrowserInv
PROPERTY PollsSpareTheEditor
