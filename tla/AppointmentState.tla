-------------------------- MODULE AppointmentState --------------------------
(***************************************************************************)
(* The appointment state machine of appointments/state/appointment-state.ts *)
(* and the predicate of the appointment_no_overlap EXCLUDE constraint.      *)
(***************************************************************************)
EXTENDS Integers

Status == {"PENDING", "CONFIRMED", "IN_PROGRESS",
           "COMPLETED", "CANCELLED", "NO_SHOW"}

\* Mutated form of TRANSITIONS: a cancellation can be taken back.
TransitionsWithUndo ==
  [s \in Status |->
     CASE s = "PENDING"     -> {"CONFIRMED", "CANCELLED", "NO_SHOW"}
       [] s = "CONFIRMED"   -> {"IN_PROGRESS", "CANCELLED", "NO_SHOW"}
       [] s = "IN_PROGRESS" -> {"COMPLETED", "CANCELLED"}
       [] s = "CANCELLED"   -> {"CONFIRMED"}
       [] OTHER             -> {}]

\* The edges of the state machine, listed explicitly as in the code.
TRANSITIONS ==
  [s \in Status |->
     CASE s = "PENDING"     -> {"CONFIRMED", "CANCELLED", "NO_SHOW"}
       [] s = "CONFIRMED"   -> {"IN_PROGRESS", "CANCELLED", "NO_SHOW"}
       [] s = "IN_PROGRESS" -> {"COMPLETED", "CANCELLED"}
       [] OTHER             -> {}]

canTransition(from, to) == to \in TRANSITIONS[from]

isActiveStatus(s) == s \in {"PENDING", "CONFIRMED", "IN_PROGRESS"}

\* Statuses the comment in appointment-state.ts calls terminal.
Terminal == {"COMPLETED", "CANCELLED", "NO_SHOW"}

\* The WHERE clause of the EXCLUDE constraint: rows that hold their slot.
HoldsSlot(row) == ~row.deleted /\ row.status \notin {"CANCELLED", "NO_SHOW"}

\* businessId =, staffId =, timeRange && (half-open ranges; one tenant).
Overlap(x, y) == x.staff = y.staff /\ x.start < y.end /\ y.start < x.end
=============================================================================
