SPECIFICATION Spec
CONSTANTS
  r1 = r1  r2 = r2
  t1 = t1  t2 = t2  t3 = t3  t4 = t4
  None = None
  Req = {}
  Caller = {r1, r2}
  Token = {t1, t2, t3}
  Sliding = 2
  Absolute = 3
  Grace = 1
  MaxNow = 1
INVARIANTS
  OneActiveToken
CHECK_DEADLOCK FALSE
