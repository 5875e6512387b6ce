SPECIFICATION MCSpec
CONSTANTS
  None = None
  Req = {q1, q2, q3}
  b1 = b1
  b2 = b2
  Tenant = {b1, b2}
  k1 = k1
  k2 = k2
  k3 = k3
  k4 = k4
  k5 = k5
  KeyId = {k1, k2, k3, k4, k5}
  Conn = {c1, c2}
  FirstKeys <- MCFirstKeys
  FirstData <- MCFirstData
  Calls <- MCCalls
  KeyGrace = 1
  MaxClock = 3
  Caller = {a1, a2}
  Token = {t1, t2, t3}
  Sliding = 1
  Absolute = 1
  Grace = 1
  MaxNow = 2
SYMMETRY Symmetry
INVARIANTS
  TenantIsolation
  LineageCovered
  AuditIsTrue
  ReplacedWithChild
  SharedDeadline
  EndedStaysEnded
PROPERTIES
  NoFalseRefusal
  RevocationIsFinal
CHECK_DEADLOCK FALSE
