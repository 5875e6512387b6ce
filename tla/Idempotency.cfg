SPECIFICATION FairSpec
CONSTANTS
  r1 = r1  r2 = r2  r3 = r3
  k1 = k1  k2 = k2
  live = live  test = test
  b1 = b1  b2 = b2
  None = None
  Req = {r1, r2, r3}
  Key = {k1, k2}
  Scope = {live, test}
  Body = {b1, b2}
  Calls <- MCCalls
  RecordMayFail = TRUE
INVARIANTS
  AppliedOnce
  AnswersAreTrue
  ReservationIsComplete
  ReplayIsOwn
PROPERTIES
  KeyNeverBlocks
CHECK_DEADLOCK FALSE
