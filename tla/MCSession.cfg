SPECIFICATION Spec
CONSTANTS
  t1 = t1
  t2 = t2
  r1 = r1
  r2 = r2
  r3 = r3
  Tab = {t1, t2}
  Req = {r1, r2, r3}
  TabOf <- MCTabOf
  MaxEvents = 1
INVARIANT CallsOnce
PROPERTY SentToLoginForCause CallsEnd
CHECK_DEADLOCK FALSE
