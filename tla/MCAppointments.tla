--------------------------- MODULE MCAppointments ---------------------------
(* Small instances of Appointments for TLC. *)
EXTENDS Appointments, TLC

CONSTANTS r1, r2, a1, a2, a3, a4, s1, s2, svc

\* The service takes two slots with s1 and one with s2.
MCDuration == [p \in Staff \X Service |-> IF p[1] = s1 THEN 2 ELSE 1]

Creates(starts, auto) ==
  [kind: {"create"}, staff: Staff, service: Service, start: starts,
   autoConfirm: auto]
Transitions(to) == [kind: {"transition"}, id: Appt, to: to]
Cancels == [kind: {"cancel"}, id: Appt]
Reschedules(starts) ==
  [kind: {"reschedule"}, id: Appt, staff: Staff, start: starts]
Patches == [kind: {"remove", "update"}, id: Appt]
StaffRemovals == [kind: {"staffRemove"}, staff: Staff, force: BOOLEAN]

\* Bookings of one slot, moves to an overlapping and to a free one, and status
\* changes.  The third appointment is only created: this bounds the run.
BookingOps ==
  {o \in Creates({2}, {TRUE}) \cup Transitions({"IN_PROGRESS"})
           \cup Cancels \cup Reschedules({3, 5}) :
     o.kind # "create" => o.id # a3}

\* Two slots that requests move appointments between.
SwapOps == Creates({1, 3}, {TRUE}) \cup Reschedules({1, 3})

\* Every operation.
AllOps ==
  Creates({1, 2, 4}, BOOLEAN)
    \cup Transitions({"CONFIRMED", "IN_PROGRESS", "COMPLETED", "NO_SHOW"})
    \cup Cancels \cup Reschedules({2}) \cup Patches \cup StaffRemovals

Symmetry == Permutations(Req)
=============================================================================
