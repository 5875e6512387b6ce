------------------------------ MODULE Calendar ------------------------------
(***************************************************************************)
(* What the appointment write path promises its clients: a book of slots   *)
(* that requests change one at a time.  Every change is complete, with its *)
(* announcement, and no open, undeleted entry ever overlaps another one of *)
(* the same staff member.  There are no transactions, locks or stale reads *)
(* here; Appointments implements it.                                       *)
(*                                                                         *)
(* Clients are not promised that a closed entry stays closed: a change     *)
(* decided on an old status may reopen it, when its slot is still free.    *)
(***************************************************************************)
EXTENDS Integers

CONSTANTS
  Staff,
  Appt,      \* ids of entries
  Slot,      \* [staff, start, end]
  Holding,   \* statuses in which an entry holds its slot
  Status,
  None

VARIABLES
  slot,       \* the slot of each entry, None where there is none
  open,       \* the entries in a holding status
  withdrawn,  \* the entries that were deleted
  from,       \* the entry each one replaces
  dismissed,  \* the staff that was removed
  announced   \* the events published so far

vars == <<slot, open, withdrawn, from, dismissed, announced>>

Disjoint(x, y) == x.staff = y.staff => x.end <= y.start \/ y.end <= x.start

\* No two entries hold overlapping slots of one staff member.
Consistent ==
  \A a, b \in open \ withdrawn : a # b => Disjoint(slot[a], slot[b])

Announce(events) == announced' = announced \cup events

\* The new entry a has some slot of its own.
Enter(a) ==
  /\ slot[a] = None
  /\ slot'[a] \in Slot
  /\ slot' = [slot EXCEPT ![a] = slot'[a]]

Created(a, to) == [type |-> "created", appt |-> a, to |-> to, old |-> None]

Init ==
  /\ slot = [a \in Appt |-> None]
  /\ open = {} /\ withdrawn = {} /\ dismissed = {} /\ announced = {}
  /\ from = [a \in Appt |-> None]

Book(a) ==
  /\ Enter(a)
  /\ open' = open \cup {a}
  /\ \E to \in Holding : Announce({Created(a, to)})
  /\ UNCHANGED <<withdrawn, from, dismissed>>

\* The old entry is closed and the new one entered in the same step, and an
\* entry is replaced once.
Move(old, a) ==
  /\ slot[old] # None
  /\ \A b \in Appt : from[b] # old
  /\ Enter(a)
  /\ open' = (open \ {old}) \cup {a}
  /\ from' = [from EXCEPT ![a] = old]
  /\ \E to \in Holding :
       Announce({Created(a, to),
                 [type |-> "rescheduled", appt |-> a, to |-> "CANCELLED", old |-> old]})
  /\ UNCHANGED <<withdrawn, dismissed>>

\* A status change of one entry: what it announces is what happens to the slot.
Change(a, to) ==
  /\ slot[a] # None
  /\ Announce({[type |-> "status", appt |-> a, to |-> to, old |-> None]})
  /\ open' = IF to \in Holding THEN open \cup {a} ELSE open \ {a}
  /\ UNCHANGED <<slot, withdrawn, from, dismissed>>

Withdraw(a) ==
  /\ slot[a] # None
  /\ withdrawn' = withdrawn \cup {a}
  /\ UNCHANGED <<slot, open, from, dismissed, announced>>

\* Entries of a staff member are closed without announcement only together
\* with the staff member.
Dismiss(m) ==
  /\ dismissed' = dismissed \cup {m}
  /\ open' \subseteq open
  /\ \A a \in open \ open' : slot[a].staff = m
  /\ UNCHANGED <<slot, withdrawn, from, announced>>

Next ==
  /\ \/ \E a \in Appt :
          \/ Book(a) \/ Withdraw(a)
          \/ \E old \in Appt : Move(old, a)
          \/ \E to \in Status : Change(a, to)
     \/ \E m \in Staff : Dismiss(m)
  /\ Consistent'

Spec == Init /\ [][Next]_vars
=============================================================================
