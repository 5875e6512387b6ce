----------------------------- MODULE MCRealtime -----------------------------
(* A small instance of Realtime for TLC. *)
EXTENDS Realtime

CONSTANTS kick, cron, notifications, dashboard

\* The first row is an appointment event, the others are customer events.
MCRoute ==
  [e \in Event |-> IF e = 1 THEN {notifications, dashboard} ELSE {dashboard}]

\* Both rows are the client's, or the second is another tenant's.
MCOwners == {o \in [Event -> Tenant] : o[1] = MyTenant}
=============================================================================
