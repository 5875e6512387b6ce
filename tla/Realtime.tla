------------------------------ MODULE Realtime ------------------------------
(***************************************************************************)
(* A dashboard client on the /events gateway, fed by the Dashboard queue   *)
(* of the outbox: live pushes into the room of its tenant, Connection      *)
(* State Recovery after a short disconnect, and events:sync pages replayed *)
(* from the outbox after a long one.  A live push carries no event id, so  *)
(* the client's `since` advances with the pages only.                      *)
(***************************************************************************)
EXTENDS Outbox

CONSTANTS
  Dashboard,   \* the queue of DashboardProcessor
  Tenant,
  MyTenant,    \* the businessId of the client's JWT
  Owners,      \* the tenants the rows may belong to, as functions
  PageLimit,   \* `limit` of its events:sync requests
  MaxTrips     \* bound on disconnects

ASSUME RealtimeAssumption ==
  /\ Dashboard \in Queue /\ MyTenant \in Tenant
  /\ 0 \notin Event
  /\ Owners \subseteq [Event -> Tenant]
  /\ PageLimit \in 1..500 /\ MaxTrips \in Nat

VARIABLES
  tenantOf,    \* businessId of each row
  socket,      \* "online", "away" (within the recovery window) or "gone"
  asking,      \* the client pages through events:sync
  since,       \* the last id a page returned, 0 before the first
  got,         \* rows the client has seen
  buffered,    \* pushes kept for the recovery of its session
  unread,      \* rows that were not PROCESSED when `since` went past them, or
               \* when the last page was read after they had been pushed
  swallowed,   \* the last page was the [] of a failed query
  trips

client == <<socket, asking, since, got, buffered, unread, swallowed, trips>>

RealtimeInit ==
  /\ Init
  /\ tenantOf \in Owners
  /\ socket = "online"
  /\ asking = FALSE
  /\ since = 0
  /\ got = {} /\ buffered = {} /\ unread = {}
  /\ swallowed = FALSE
  /\ trips = 0

-----------------------------------------------------------------------------
\* server.to(`tenant:<businessId>`), a room handleConnection joined.
publishToTenant(rows) == {e \in rows : tenantOf[e] = MyTenant}

\* DashboardProcessor.handle runs within CompleteJob or ReturnJob.
Handled == {p[1] : p \in {x \in delivered' \ delivered : x[2] = Dashboard}}

Push ==
  /\ got' = IF socket = "online" THEN got \cup publishToTenant(Handled) ELSE got
  /\ buffered' = IF socket = "away" THEN buffered \cup publishToTenant(Handled) ELSE buffered
  /\ UNCHANGED <<tenantOf, socket, asking, since, unread, swallowed, trips>>

Disconnect ==
  /\ socket = "online" /\ trips < MaxTrips
  /\ socket' = "away"
  /\ trips' = trips + 1
  /\ UNCHANGED <<asking, since, got, buffered, unread, swallowed>>

\* Back within two minutes: the adapter delivers what it kept.
Recover ==
  /\ socket = "away"
  /\ socket' = "online"
  /\ got' = got \cup buffered
  /\ buffered' = {}
  /\ UNCHANGED <<asking, since, unread, swallowed, trips>>

RecoveryExpires ==
  /\ socket = "away"
  /\ socket' = "gone"
  /\ buffered' = {}
  /\ UNCHANGED <<asking, since, got, unread, swallowed, trips>>

\* Back later: the client joins its rooms again and starts to sync.
Reconnect ==
  /\ socket = "gone"
  /\ socket' = "online"
  /\ asking' = TRUE
  /\ UNCHANGED <<since, got, buffered, unread, swallowed, trips>>

\* Rows are ordered by id (a ULID drawn in enqueue).
fetchSince(from) ==
  LET rows == {e \in Event : /\ tenantOf[e] = MyTenant
                             /\ e > from /\ row[e] = "PROCESSED"} IN
  {e \in rows : Cardinality({d \in rows : d < e}) < PageLimit}

\* Mutated form of Truncated: compared with > as slicePage does, although the
\* query asks for `limit` rows and not one more.
TruncatedOver(page) == Cardinality(page) > PageLimit

Truncated(page) == Cardinality(page) = PageLimit

Newest(ids) == CHOOSE e \in ids : \A d \in ids : d <= e

\* onSync; the client asks again from the last id while `truncated` is set.
Sync ==
  /\ socket = "online" /\ asking
  /\ LET page == fetchSince(since)
         next == IF page = {} THEN since ELSE Newest(page)
         unprocessed == {e \in Event : tenantOf[e] = MyTenant /\ row[e] # "PROCESSED"} IN
       /\ got' = got \cup page
       /\ since' = next
       /\ asking' = Truncated(page)
       /\ unread' = {e \in unread : e <= since}
            \cup {e \in unprocessed : e <= next \/ <<e, Dashboard>> \in delivered}
  /\ swallowed' = FALSE
  /\ UNCHANGED <<socket, buffered, trips>>

\* The query fails: fetchSince logs it and returns [], a last page.
SyncFails ==
  /\ socket = "online" /\ asking
  /\ Fault
  /\ asking' = FALSE
  /\ swallowed' = TRUE
  /\ UNCHANGED <<socket, since, got, buffered, unread, trips>>

ClientStep == Disconnect \/ Recover \/ RecoveryExpires \/ Reconnect \/ Sync

RealtimeNext ==
  \/ Next /\ Push
  \/ ClientStep /\ UNCHANGED <<vars, tenantOf>>
  \/ SyncFails /\ UNCHANGED <<row, kicks, flush, bull, tenantOf>>

\* The flushes and the workers are fair; nothing makes a client come back.
RealtimeSpec ==
  RealtimeInit /\ [][RealtimeNext]_<<vars, tenantOf, client>> /\ Fairness

-----------------------------------------------------------------------------
\* Properties.

\* What a client that is online and has paged to the end holds: every event
\* the dashboard worker has pushed to its tenant, except those whose row was
\* not yet PROCESSED when a page was read (it is marked after the fan-out, so
\* the push may come first, and ids need not become PROCESSED in order), and
\* what a failed replay hid.  Live, recovered or replayed, it sees committed
\* rows of its own tenant only.
SyncIsComplete ==
  /\ socket = "online" /\ ~asking /\ ~swallowed =>
       \A e \in Event :
         <<e, Dashboard>> \in delivered /\ tenantOf[e] = MyTenant
           => e \in got \cup unread
  /\ \A e \in got : tenantOf[e] = MyTenant /\ row[e] # "none"

-----------------------------------------------------------------------------
\* The inductive invariant behind SyncIsComplete, beside Outbox's.

ClientTypeOK ==
  /\ tenantOf \in [Event -> Tenant]
  /\ socket \in {"online", "away", "gone"}
  /\ asking \in BOOLEAN /\ swallowed \in BOOLEAN
  /\ since \in Nat
  /\ got \subseteq Event /\ buffered \subseteq Event /\ unread \subseteq Event

Mine == {e \in Event : tenantOf[e] = MyTenant}

\* Jobs exist for committed rows only, and what was pushed had a job.
JobsAreCommitted == \A p \in Slot : job[p] # "absent" => row[p[1]] # "none"

\* The client sees committed rows of its tenant.
SeenIsMine == got \cup buffered \subseteq {e \in Mine : row[e] # "none"}

\* Paging leaves nothing behind.
BehindSince == \A e \in Mine : e <= since => e \in got \cup unread

\* Away, what it has not got is kept for its recovery.
HoldsPushed ==
  socket # "gone" /\ ~asking /\ ~swallowed =>
    \A e \in Mine :
      <<e, Dashboard>> \in delivered =>
        e \in got \cup unread \cup (IF socket = "away" THEN buffered ELSE {})

ClientInv == ClientTypeOK /\ JobsAreCommitted /\ SeenIsMine /\ BehindSince /\ HoldsPushed

=============================================================================
