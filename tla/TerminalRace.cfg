SPECIFICATION FairSpec
CONSTANTS
  r1 = r1  r2 = r2
  a1 = a1  a2 = a2  a3 = a3  a4 = a4
  s1 = s1  s2 = s2  svc = svc
  None = None
  Req = {r1, r2}
  Appt = {a1, a2}
  Staff = {s1}
  Service = {svc}
  Duration <- MCDuration
  Grid = {1, 2, 3, 5}
  Leads = {}
  ClockSkew = 0
  MaxNow = 0
  MayFail = {}
  Ops <- BookingOps
PROPERTIES
  TerminalIsFinal
CHECK_DEADLOCK FALSE
