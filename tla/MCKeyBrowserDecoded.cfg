SPECIFICATION KeyBrowserSpec
CONSTANTS
  KbKey = {"a", "b"}
  KbObject = {"a", "b"}
  KbFirst = {"a", "b"}
  KbMaxRev = 2
  KbMaxRequests = 1
CHECK_DEADLOCK FALSE
INVARIANT EditsStayWithTheirPod
