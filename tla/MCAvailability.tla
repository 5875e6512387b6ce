--------------------------- MODULE MCAvailability ---------------------------
(***************************************************************************)
(* Two dates of one weekday, ten units each, local midnight four units     *)
(* after UTC midnight; on the second date the wall clock 2 does not exist. *)
(* Beside the tables, the interval algebra is exercised on arbitrary lists *)
(* left and right, which grow one interval at a time.                      *)
(***************************************************************************)
EXTENDS Availability

CONSTANTS MaxPoint, MaxLeft, MaxRight, m1, m2

VARIABLES left, right

MCDate == {0, 1}
MCWallClock == 0..9
MCUtc == [d \in MCDate |-> [w \in MCWallClock |->
            IF d = 1 /\ w = 2 THEN None ELSE 10 * d + w + 4]]
MCUtcDate == [t \in {4, 10, 15} |-> t \div 10]
MCWeekdayOf == [d \in MCDate |-> "MONDAY"]
MCMonthDay == [d \in {-1, 0, 1} |-> IF d = 0 THEN "a" ELSE "b"]

Window(s, e, open) == [day |-> "MONDAY", start |-> s, end |-> e, isOpen |-> open]
MCWeeks == {{Window(0, 0, FALSE)},
            {Window(1, 5, TRUE), Window(4, 8, TRUE)},
            {Window(1, 3, TRUE), Window(3, 8, TRUE)},
            {Window(2, 4, TRUE), Window(5, 9, TRUE)}}
Shift(s, e, act) == [day |-> "MONDAY", start |-> s, end |-> e, isActive |-> act]
MCShifts == {{Shift(3, 9, TRUE)}, {Shift(1, 8, FALSE)}}
MCBlocks == {[staff |-> None, start |-> 8, end |-> 10], [staff |-> m1, start |-> 18, end |-> 19]}
MCHolidays == {[date |-> 0, isRecurring |-> FALSE], [date |-> -1, isRecurring |-> TRUE]}
MCLengths == {None, 1}
MCInstants == {4, 10, 15}
MCStarts == {7, 19}
MCCatalogue == [duration |-> 2, bufferBefore |-> 0, bufferAfter |-> 1, slotInterval |-> 2]
DriftCatalogue == [MCCatalogue EXCEPT !.slotInterval = 3]

Lists == <<left, right>>
ListIntervals == {i \in [start: 0..MaxPoint, end: 0..MaxPoint] : i.start < i.end}
            \cup {[start |-> 1, end |-> 1]}

ListsInit == left = {} /\ right = {}
GrowLeft == /\ Cardinality(left) < MaxLeft
            /\ \E i \in ListIntervals \ left : left' = left \cup {i}
            /\ UNCHANGED right
GrowRight == /\ Cardinality(right) < MaxRight
             /\ \E i \in ListIntervals \ right : right' = right \cup {i}
             /\ UNCHANGED left

MCInit == AvailInit /\ ListsInit
MCNext == \/ AvailNext /\ ListsInit /\ UNCHANGED Lists
          \/ (GrowLeft \/ GrowRight) /\ AvailInit /\ UNCHANGED availVars
MCSpec == MCInit /\ [][MCNext]_<<availVars, Lists>>

\* merge, intersect and subtract cover exactly the union, the common points and
\* the remaining points of arbitrary lists (unsorted, touching, empty members)
\* and leave no empty, touching or unsorted interval: fitsIn, which looks for
\* one interval around a candidate, relies on it.
AlgebraIsExact ==
  /\ Covered(merge(left)) = Covered(left) /\ Normal(merge(left))
  /\ LET both == intersect(left, right) IN
       Covered(both) = Covered(left) \cap Covered(right) /\ Normal(both)
  /\ LET rest == subtract(left, right) IN
       Covered(rest) = Covered(left) \ Covered(right) /\ Normal(rest)
=============================================================================
