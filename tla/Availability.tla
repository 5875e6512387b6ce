---------------------------- MODULE Availability ----------------------------
(***************************************************************************)
(* GET /availability against the tables it reads: the loader, the engine   *)
(* (computeAvailability, computeDay, computeNextSlots) and the checks      *)
(* POST /appointments makes on the start it is given.  Schedule changes,   *)
(* bookings and the clock move between two queries; each is one step here, *)
(* Appointments and Schedule model them statement by statement.            *)
(*                                                                         *)
(* Times are minutes scaled to small units.  A business-local HH:MM of a   *)
(* date becomes an instant through Utc, None in a DST gap; luxon is        *)
(* external and known by this table.                                       *)
(***************************************************************************)
EXTENDS Intervals, Sequences

CONSTANTS
  Member,        \* staff ids
  Date,          \* calendar dates, consecutive integers
  WallClock,     \* HH:MM values, as offsets from midnight
  Utc,           \* Utc[date][hhmm]: the instant, None in a DST gap
  WeekdayOf,     \* WeekdayOf[date]
  MonthDay,      \* MonthDay[date]: what a recurring holiday matches
  EndOfDay,      \* 23:59
  Catalogue,     \* [duration, bufferBefore, bufferAfter, slotInterval] of the service
  DefaultStep,   \* the 15 the loader falls back to
  CancelNotice,  \* cancellationHours
  Skew,          \* CLOCK_SKEW_TOLERANCE_MS
  Weeks,         \* payloads of PUT /business-hours
  Shifts,        \* payloads of PUT /staff/:id/availability
  Blocks,        \* blocked times the tenant creates
  Holidays,      \* holidays the tenant creates
  Lengths,       \* customDuration values of an assignment, None for none
  Starts,        \* start times clients ask for
  Edited,        \* the staff whose rows the tenant edits
  MaxBooked,     \* bound on simultaneous appointments
  Instants,      \* the times the clock shows
  UtcDate,       \* UtcDate[t]: the date of instant t in UTC
  MaxRangeDays,  \* MAX_RANGE_DAYS
  Lookahead,     \* lookaheadDays of GET /availability/next
  None

\* The columns' types and what the DTOs let through, and what luxon knows of the
\* calendar: a date's times have all come before the first of a later date, and
\* the table reaches back to the first time the clock shows.
ASSUME AvailabilityAssumption ==
  /\ None \notin Int
  /\ Date \subseteq Int /\ IsFiniteSet(Date)
  /\ WallClock \subseteq Int
  /\ Instants \subseteq Int
  /\ Starts \subseteq Int
  /\ Edited \subseteq Member
  /\ Utc \in [Date -> [WallClock -> Int \cup {None}]]
  /\ \A d, e \in Date, v, w \in WallClock :
       d < e /\ Utc[d][v] # None /\ Utc[e][w] # None => Utc[d][v] < Utc[e][w]
  /\ \A t \in Instants : \E d \in Date, w \in WallClock : Utc[d][w] # None /\ Utc[d][w] <= t
  /\ \A t \in Instants : UtcDate[t] \in Int
  /\ Catalogue.duration \in Nat \ {0} /\ Catalogue.slotInterval \in Nat \ {0}
  /\ Catalogue.bufferBefore \in Nat /\ Catalogue.bufferAfter \in Nat
  /\ Lengths \ {None} \subseteq Nat \ {0}
  /\ DefaultStep \in Nat \ {0} /\ Skew \in Nat \ {0}
  /\ CancelNotice \in Nat /\ MaxRangeDays \in Nat /\ Lookahead \in Nat
  /\ \A rows \in Weeks \cup Shifts :
       IsFiniteSet(rows) /\ \A w \in rows : w.start \in WallClock /\ w.end \in WallClock
  /\ \E rows \in Shifts : \E w \in rows : w.isActive
  /\ IsFiniteSet(Blocks) /\ \A b \in Blocks : b.start \in Int /\ b.end \in Int

VARIABLES
  hours,      \* BusinessHour rows: [day, start, end, isOpen]
  shifts,     \* StaffAvailability rows by staff: [day, start, end, isActive]
  assigned,   \* StaffService rows: [staff, custom]
  inactive,   \* staff with isActive = false or deletedAt
  blocked,    \* BlockedTime rows: [staff or None, start, end]
  holidays,   \* Holiday rows: [date, isRecurring]
  booked,     \* Appointment rows neither cancelled nor missed: [staff, start,
              \* end, state], state being active, completed or deleted
  clock

availVars == <<hours, shifts, assigned, inactive, blocked, holidays, booked, clock>>

-----------------------------------------------------------------------------
\* slot-grid.util.

localHHMMToUtcMs(date, hhmm) == Utc[date][hhmm]

\* The instants of a local window: None on a DST gap or when it is empty.
windowToUtcInterval(date, w) ==
  LET s == localHHMMToUtcMs(date, w.start)
      e == localHHMMToUtcMs(date, w.end)
  IN IF s = None \/ e = None THEN None
     ELSE IF e <= s THEN None ELSE [start |-> s, end |-> e]

weekdayOfDate(date) == WeekdayOf[date]

enumerateDates(from, to) == {d \in Date : from <= d /\ d <= to}

WindowsOn(date, rows) == {windowToUtcInterval(date, w) : w \in rows} \ {None}

-----------------------------------------------------------------------------
\* AvailabilityContextLoader.load.

\* Mutated form of LoadedStaff: isActive and deletedAt are not looked at.
LoadedStaffAll == {m \in Member : \E a \in assigned : a.staff = m}

\* Staff that are active and assigned to the service.
LoadedStaff == {m \in Member \ inactive : \E a \in assigned : a.staff = m}

customDuration(m) == (CHOOSE a \in assigned : a.staff = m).custom

effectiveDuration(m) ==
  IF customDuration(m) # None THEN customDuration(m) ELSE Catalogue.duration

\* Appointments the loader selects: PENDING, CONFIRMED or IN_PROGRESS, whether
\* deleted or not.
LoadedAppointments == {a \in booked : a.state # "completed"}

\* The query does not select slotIntervalMin, so the fallback always applies.
slotIntervalMin == DefaultStep

-----------------------------------------------------------------------------
\* availability.engine.

isHoliday(date) ==
  \E h \in holidays :
    h.date = date \/ (h.isRecurring /\ MonthDay[h.date] = MonthDay[date])

isPast(date) ==
  LET t == localHHMMToUtcMs(date, EndOfDay) IN t # None /\ t < clock

businessWindows(date) ==
  merge(WindowsOn(date, {w \in hours : w.isOpen /\ w.day = weekdayOfDate(date)}))

dayStatus(date) ==
  IF isPast(date) THEN "past"
  ELSE IF isHoliday(date) THEN "holiday"
  ELSE IF businessWindows(date) = {} THEN "closed" ELSE "open"

\* The opening span of a date, which filters blocks and appointments.
Reaches(date, i) ==
  LET bw == businessWindows(date) IN i.end > First(bw).start /\ i.start < Last(bw).end

work(date, m) ==
  intersect(businessWindows(date),
            WindowsOn(date, {a \in shifts[m] : a.isActive /\ a.day = weekdayOfDate(date)}))

Span(i) == [start |-> i.start, end |-> i.end]

\* An appointment with the buffers of its service.
Padded(a) == [start |-> a.start - Catalogue.bufferBefore,
              end   |-> a.end + Catalogue.bufferAfter]

\* Mutated form of busy: appointments without their buffers.
busyUnpadded(date, m) ==
  LET blocks == {Span(b) : b \in {x \in blocked : x.staff \in {None, m} /\ Reaches(date, x)}}
      appts  == {Span(a) : a \in {x \in LoadedAppointments : x.staff = m /\ Reaches(date, x)}}
  IN merge(blocks \cup appts)

\* Business-wide blocks, the staff's blocks and the staff's appointments.
busy(date, m) ==
  LET blocks == {Span(b) : b \in {x \in blocked : x.staff \in {None, m} /\ Reaches(date, x)}}
      appts  == {Padded(a) : a \in {x \in LoadedAppointments : x.staff = m /\ Reaches(date, x)}}
  IN merge(blocks \cup appts)

free(date, m) == subtract(work(date, m), busy(date, m))

\* The service at start by staff m, with its buffers.
Candidate(m, start) ==
  [start |-> start - Catalogue.bufferBefore,
   end   |-> start + effectiveDuration(m) + Catalogue.bufferAfter]

\* The starts the loop over one business window visits.
gridOf(bw, step) == {s \in bw.start .. bw.end - step : (s - bw.start) % step = 0}

fits(date, m, bw, start) ==
  /\ start + effectiveDuration(m) <= bw.end
  /\ start >= clock + CancelNotice
  /\ fitsIn(free(date, m), Candidate(m, start))

\* The slots of computeDay, as pairs of start and staff.
computeDay(date, step) ==
  IF dayStatus(date) # "open" THEN {}
  ELSE UNION {{x \in gridOf(bw, step) \X LoadedStaff : fits(date, x[2], bw, x[1])} :
                bw \in businessWindows(date)}

computeAvailability(from, to, step) ==
  UNION {computeDay(d, step) : d \in enumerateDates(from, to)}

\* The slots of a range by day, and the one the two loops visit next.
SlotsOf(from, to) ==
  UNION {{<<d, x[1]>> : x \in computeDay(d, slotIntervalMin)} : d \in enumerateDates(from, to)}

Soonest(slots) ==
  CHOOSE s \in slots : \A r \in slots : s[1] < r[1] \/ (s[1] = r[1] /\ s[2] <= r[2])

pushRound(st) ==
  IF st.rest = {} THEN st
  ELSE [rest |-> st.rest \ {Soonest(st.rest)}, flat |-> Append(st.flat, Soonest(st.rest)[2])]

pushLoop(slots, limit) ==
  LET loop[k \in 0..limit] ==
        IF k = 0 THEN [rest |-> slots, flat |-> <<>>] ELSE pushRound(loop[k - 1])
  IN loop

\* Mutated form of computeNextSlots: one entry per slot and staff.
computeNextSlotsPerStaff(from, to, limit) ==
  LET perStaff == UNION {{<<d, x[1], x[2]>> : x \in computeDay(d, slotIntervalMin)} :
                           d \in enumerateDates(from, to)}
  IN pushLoop(perStaff, limit)[limit].flat

\* computeNextSlots: the days in order, the slots of a day in order, until the
\* limit.
computeNextSlots(from, to, limit) == pushLoop(SlotsOf(from, to), limit)[limit].flat

-----------------------------------------------------------------------------
\* AvailabilityService.  The cache always misses.

\* The date at the business at instant t: the last one a time of which has come.
LocalDate(t) ==
  LET begun == {d \in Date : \E w \in WallClock : Utc[d][w] # None /\ Utc[d][w] <= t}
  IN CHOOSE d \in begun : \A e \in begun : e <= d

validateRange(from, to) == from <= to /\ to - from <= MaxRangeDays

\* get: the service's step unless the query names one, staff m unless None; a
\* range that is reversed or too wide is refused.
get(from, to, m, granularity) ==
  {x \in computeAvailability(from, to, IF granularity = None THEN slotIntervalMin
                                                            ELSE granularity) :
     validateRange(from, to) /\ m \in {None, x[2]}}

\* Without a timezone in the query, today is the date in UTC.
todayIn(tz) == IF tz = None THEN UtcDate[clock] ELSE LocalDate(clock)

getNext(tz, limit) == computeNextSlots(todayIn(tz), todayIn(tz) + Lookahead, limit)

-----------------------------------------------------------------------------
\* POST /appointments: the checks of create on staff and start.

\* The first window, by startTime, that contains t.
Containing(t) ==
  LET rows == {w \in hours : w.isOpen /\ w.day = weekdayOfDate(LocalDate(t))}
      around(w) == LET i == windowToUtcInterval(LocalDate(t), w) IN i # None /\ t \in Points(i)
      hit == {w \in rows : around(w)}
  IN IF hit = {} THEN None
     ELSE windowToUtcInterval(LocalDate(t), CHOOSE w \in hit : \A v \in hit : w.start <= v.start)

\* A tenant without business hours is not checked.
assertOnSlotBoundary(t) ==
  \/ hours = {}
  \/ /\ Containing(t) # None
     /\ (t - Containing(t).start) % Catalogue.slotInterval = 0

Appointment(m, t) ==
  [staff |-> m, start |-> t, end |-> t + effectiveDuration(m), state |-> "active"]

\* The rows in the way of a new one: the predicate of the EXCLUDE constraint
\* keeps the completed and drops the deleted.
Conflicts(m, t) ==
  {b \in booked : b.staff = m /\ b.state # "deleted" /\ overlaps(b, Appointment(m, t))}

\* create accepts staff m at t and the EXCLUDE constraint lets the row in.
Bookable(m, t) ==
  /\ m \in Member \ inactive
  /\ \E a \in assigned : a.staff = m
  /\ t > clock - Skew
  /\ assertOnSlotBoundary(t)
  /\ Conflicts(m, t) = {}

-----------------------------------------------------------------------------
\* The tables move.

\* A tenant that has assigned its staff and their shifts.
AvailInit ==
  /\ hours = {}
  /\ shifts = [m \in Member |-> CHOOSE s \in Shifts : \E a \in s : a.isActive]
  /\ assigned = {[staff |-> m, custom |-> None] : m \in Member}
  /\ inactive = {}
  /\ blocked = {}
  /\ holidays = {}
  /\ booked = {}
  /\ clock \in {t \in Instants : \A u \in Instants : t <= u}

ReplaceHours ==
  /\ hours' \in Weeks
  /\ UNCHANGED <<shifts, assigned, inactive, blocked, holidays, booked, clock>>

ReplaceShifts(m) ==
  /\ \E s \in Shifts : shifts' = [shifts EXCEPT ![m] = s]
  /\ UNCHANGED <<hours, assigned, inactive, blocked, holidays, booked, clock>>

\* replaceServices with or without the service.
Reassign(m) ==
  /\ \E rows \in {{}} \cup {{[staff |-> m, custom |-> c]} : c \in Lengths} :
       assigned' = {a \in assigned : a.staff # m} \cup rows
  /\ UNCHANGED <<hours, shifts, inactive, blocked, holidays, booked, clock>>

SetActive(m) ==
  /\ inactive' \in {inactive \cup {m}, inactive \ {m}}
  /\ UNCHANGED <<hours, shifts, assigned, blocked, holidays, booked, clock>>

SetBlock(b) ==
  /\ blocked' \in {blocked \cup {b}, blocked \ {b}}
  /\ UNCHANGED <<hours, shifts, assigned, inactive, holidays, booked, clock>>

SetHoliday(h) ==
  /\ holidays' \in {holidays \cup {h}, holidays \ {h}}
  /\ UNCHANGED <<hours, shifts, assigned, inactive, blocked, booked, clock>>

Book(m, t) ==
  /\ Cardinality(booked) < MaxBooked
  /\ Bookable(m, t)
  /\ booked' = booked \cup {Appointment(m, t)}
  /\ UNCHANGED <<hours, shifts, assigned, inactive, blocked, holidays, clock>>

\* cancel and noShow, complete, and remove, which sets deletedAt and leaves the
\* status.
Settle(a) ==
  /\ a.state # "deleted"
  /\ booked' \in {booked \ {a}} \cup
       {(booked \ {a}) \cup {[a EXCEPT !.state = s]} :
          s \in IF a.state = "active" THEN {"completed", "deleted"} ELSE {}}
  /\ UNCHANGED <<hours, shifts, assigned, inactive, blocked, holidays, clock>>

Pass ==
  /\ clock' \in {t \in Instants : t > clock}
  /\ UNCHANGED <<hours, shifts, assigned, inactive, blocked, holidays, booked>>

AvailNext ==
  \/ ReplaceHours
  \/ \E m \in Edited : ReplaceShifts(m) \/ Reassign(m) \/ SetActive(m)
  \/ \E m \in Member, t \in Starts : Book(m, t)
  \/ \E b \in Blocks : SetBlock(b)
  \/ \E h \in Holidays : SetHoliday(h)
  \/ \E a \in booked : Settle(a)
  \/ Pass

AvailSpec == AvailInit /\ [][AvailNext]_availVars

-----------------------------------------------------------------------------
\* Properties.

\* The rows' types; an appointment takes time, and no staff is assigned to the
\* service twice: effectiveDuration reads the first row it finds.
AvailTypeOK ==
  /\ hours \in Weeks \cup {{}}
  /\ shifts \in [Member -> Shifts]
  /\ assigned \subseteq [staff: Member, custom: Lengths \cup {None}]
  /\ \A a, b \in assigned : a.staff = b.staff => a = b
  /\ inactive \subseteq Member
  /\ blocked \subseteq Blocks
  /\ holidays \subseteq Holidays
  /\ booked \subseteq [staff: Member, start: Int, end: Int,
                       state: {"active", "completed", "deleted"}]
  /\ \A a \in booked : a.start < a.end
  /\ IsFiniteSet(booked)
  /\ clock \in Instants

OpenPoints(date) ==
  Covered(WindowsOn(date, {w \in hours : w.isOpen /\ w.day = WeekdayOf[date]}))

FreePoints(date, m) ==
  (OpenPoints(date) \cap Covered(WindowsOn(date, {a \in shifts[m] : a.isActive /\ a.day = WeekdayOf[date]})))
    \ ((UNION {Points(b) : b \in {x \in blocked : x.staff \in {None, m}}})
        \cup (UNION {Points(Padded(a)) : a \in {x \in LoadedAppointments : x.staff = m /\ Reaches(date, x)}}))

\* The first instant of the uninterrupted opening that t lies in.
OpeningOf(date, t) ==
  LET back == {u \in OpenPoints(date) : u <= t /\ u..t \subseteq OpenPoints(date)}
  IN CHOOSE u \in back : \A v \in back : u <= v

\* The engine's merges, intersections and subtractions offer exactly the grid
\* points of an opening at which the service with its buffers lies in time the
\* business is open, the staff works and nothing blocks or occupies it, far
\* enough ahead, on days that are neither past nor holidays.
OffersAreExact ==
  \A d \in Date :
    computeDay(d, slotIntervalMin) =
      IF isPast(d) \/ isHoliday(d) THEN {}
      ELSE {x \in OpenPoints(d) \X LoadedStaff :
              /\ (x[1] - OpeningOf(d, x[1])) % slotIntervalMin = 0
              /\ x[1] .. x[1] + slotIntervalMin - 1 \subseteq OpenPoints(d)
              /\ x[1] >= clock + CancelNotice
              /\ Points(Candidate(x[2], x[1])) \subseteq FreePoints(d, x[2])}

AllOffers == UNION {get(from, to, None, None) : from, to \in Date}

\* Every slot GET /availability offers is one POST /appointments accepts, where
\* the two grids agree (the service keeps the default step and the window the
\* booking check anchors on starts on the engine's grid) and no appointment
\* completed early still holds the time in the EXCLUDE constraint.
OfferedIsBookable ==
  \A x \in AllOffers :
    /\ Catalogue.slotInterval = DefaultStep
    /\ (Containing(x[1]).start - OpeningOf(LocalDate(x[1]), x[1])) % DefaultStep = 0
    /\ \A b \in Conflicts(x[2], x[1]) : b.state # "completed"
    => Bookable(x[2], x[1])

\* Every slot GET /availability offers is one POST /appointments accepts: the
\* two share the service's slot grid.
OfferedIsAccepted == \A x \in AllOffers : Bookable(x[2], x[1])

\* GET /availability/next answers with distinct slots in ascending order, each
\* one GET /availability offers, and skips an earlier one only when it lies
\* beyond the days looked ahead, or when the query names no timezone and the
\* slot lies on a local date UTC has already left: late in the evening west of
\* Greenwich the rest of the day is passed over.
NextIsEarliest ==
  \A tz \in {None, "business"}, n \in 1..3 :
    LET next  == getNext(tz, n)
        given == {next[k] : k \in DOMAIN next}
        all   == {x[1] : x \in AllOffers}
    IN /\ given \subseteq all
       /\ \A i, j \in DOMAIN next : i < j => next[i] < next[j]
       /\ \A t \in all \ given :
            \/ Len(next) = n /\ next[n] < t
            \/ LocalDate(t) > todayIn(tz) + Lookahead
            \/ tz = None /\ LocalDate(t) < UtcDate[clock]

=============================================================================
