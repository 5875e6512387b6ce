SPECIFICATION MCSpec
CONSTANTS
  None = None
  m1 = m1
  m2 = m2
  Member = {m1, m2}
  Date <- MCDate
  WallClock <- MCWallClock
  Utc <- MCUtc
  WeekdayOf <- MCWeekdayOf
  MonthDay <- MCMonthDay
  EndOfDay = 9
  Catalogue <- MCCatalogue
  DefaultStep = 2
  CancelNotice = 1
  Skew = 1
  Weeks <- MCWeeks
  Shifts <- MCShifts
  Blocks <- MCBlocks
  Holidays <- MCHolidays
  Lengths <- MCLengths
  Starts <- MCStarts
  MaxBooked = 1
  Edited = {m1}
  Instants <- MCInstants
  UtcDate <- MCUtcDate
  MaxRangeDays = 1
  Lookahead = 1
  MaxPoint = 4
  MaxLeft = 3
  MaxRight = 2
INVARIANTS
  OffersAreExact
  
  
  AlgebraIsExact
CHECK_DEADLOCK FALSE
