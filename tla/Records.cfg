SPECIFICATION MCSpec
CONSTANTS
  Req = {r1, r2}
  Edit = {e1, e2, e3}
  None = None
  Cust = {c1, c2}
  Spelling <- MCSpelling
  Number = {"+52551234", "+529"}
  E164 <- MCE164
  CustOps <- MCCustOps
  Conv = {k1, k2}
  Room = {m1}
  Turn = {0, 1}
  Reason = {completed, dropped}
  ConvOps <- MCConvOps
  s1 = s1
  v1 = v1
  v2 = v2
  d1 = d1
  d2 = d2
  Staff = {s1}
  Service = {v1, v2}
  Date = {d1, d2}
  Day = {"MONDAY"}
  Unique = {"staffService", "staffAvailability", "holiday"}
  Parent = {s1, v2}
  SchedOps <- MCSchedOps
  FirstRows <- MCFirstRows
  RowId = {1, 2, 3}
  Stamp = {1, 2}
  Limits = {1, 2}
SYMMETRY Symmetry
INVARIANTS
  
  CustomersAnnounced
  TurnsAreTrue
  RoomAnswersAgree
  SupersededGone
  OverlapOnlyByRace
  WalkIsExact
PROPERTIES
  DeletedIsFrozen
  ClosedOnlyRaces
CHECK_DEADLOCK FALSE
