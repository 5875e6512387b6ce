SPECIFICATION Spec
CONSTANTS
  r1 = r1  r2 = r2
  a1 = a1  a2 = a2  a3 = a3  a4 = a4
  s1 = s1  s2 = s2  svc = svc
  None = None
  Req = {r1, r2}
  Appt = {a1, a2, a3}
  Staff = {s1}
  Service = {svc}
  Duration <- MCDuration
  Grid = {2, 3, 5}
  Leads = {1, 2}
  ClockSkew = 0
  MaxNow = 1
  MayFail = {r1, r2}
  Ops <- BookingOps
SYMMETRY Symmetry
INVARIANTS
  TypeOK
  NoDoubleBooking
  UniqueSuccessor
  EventsMatch
  CancelledNeverReminded
PROPERTIES
  ImplementsCalendar
CHECK_DEADLOCK FALSE
