# Verification of the appointment API

TLA+ models of this NestJS / PostgreSQL / BullMQ appointment service, the TLC
runs that check them on small instances, and TLAPS proofs of the most important
properties for every instance.  Paths below are relative to the repository's
`src/` directory unless they start with another name.

## 1. The system

An HTTP API lets voice and chat agents (API keys) and a dashboard (JWT) book,
move and cancel appointments of several tenants.

| component | state | operations | talks to |
|---|---|---|---|
| Request transaction (`common/interceptors/tenant-tx.interceptor.ts`, `common/transaction/after-commit.ts`) | one open transaction per request on a pooled connection, after-commit hooks | begin, set_config, commit, roll back, run hooks | wraps every handler |
| Guards, API keys, tenant isolation, audit (`common/guards/`, `api-keys/`, `prisma/`, `audit/`) | `ApiKey` and `AuditEvent` rows, session variables, RLS policies | authenticate, create, rotate, revoke, scope every statement, record | request context, every table |
| Sessions (`auth/`) | `RefreshToken` families | login, refresh, logout, revokeSession | – |
| Appointments (`appointments/appointments.service.ts`, `state/appointment-state.ts`) | `Appointment` rows | create, update, confirm, checkIn, complete, noShow, cancel, reschedule, remove | Outbox (rows), Notifications queue (reminders), EXCLUDE and UNIQUE constraints |
| Idempotency (`appointments/interceptors/idempotency.interceptor.ts`) | `IdempotencyKey` rows | reserve, replay, record | runs inside the request transaction, reads what the guard left in the context |
| Outbox (`appointments/events/outbox.service.ts`) | `OutboxEvent` rows | enqueue, kickFlush, flushPending | queues; cron in `queues/` |
| Queues (`queues/`) | BullMQ jobs in Redis | add, remove, run, expire, drain on shutdown | Notifications and Dashboard processors |
| Realtime (`realtime/`) | socket rooms, recovery buffers | push, recover, events:sync (replay) | Outbox rows, Dashboard processor |
| Customers (`customers/`) | `Customer` rows | CRUD, findOrCreate, purge | called by create, Outbox |
| Conversations (`conversations/`) | `Conversation`, `Message` rows | start, appendMessage, close | Idempotency |
| Schedule and staff (`schedule/`, `staff/`) | business hours, holidays, blocked times, staff, assignments, shifts | replace-all, CRUD, remove with or without force | Availability, slot grid check; staff removal cancels appointments |
| Availability (`availability/`) | none (reads); a cache that is a stub | get, getNext | schedule, staff, appointments |
| Lists (`common/pagination/`) | none | keyset pages | customers, appointments |
| Search, agent context, services, rate limiting, health, error filter | – | mostly reads, formatting, wiring | – |

What is hard here: each request is a Read Committed transaction of many
statements, so every check-then-write may act on a stale row, and a unique
violation aborts everything around it; Redis is changed before the commit it
belongs to; the outbox is drained by several flushes that overlap, fail and
crash; clients retry with lost responses and reconnect to a stream whose order
is not the order of its ids; tenants share primary keys and pooled connections;
token and key rotation race with revocation; two components compute the same
slot grid from different reads.  `PROJECT.json` lists these hazards at their
lines, with the properties about them.

## 2. Modules

| module | models |
|---|---|
| `Calendar` | abstract: what the write path promises, as a book of slots changed one step at a time |
| `AppointmentState`, `Appointments` | the state machine; the write path of appointments and the removal of staff, statement by statement; the refinement mapping to `Calendar` |
| `AppointmentsProofs`, `CalendarProofs` | proofs about `Appointments`; the proof that it implements `Calendar` |
| `Outbox`, `Realtime` | the flushes, the queues and the workers; a dashboard client composed with them |
| `OutboxProofs` | proofs about these two |
| `Idempotency`, `IdempotencyProofs` | the interceptor inside the request transaction; proofs |
| `Access`, `AccessProofs` | guards, tenant session, RLS and the Prisma extension, API keys, audit rows; proofs |
| `RefreshTokens`, `RefreshTokensProofs` | session families, rotation and revocation; proofs |
| `Intervals`, `Availability`, `AvailabilityProofs` | the interval algebra; the slot engine and its service over tables that move, and the checks of POST /appointments; proofs |
| `Customers`, `Conversations`, `Schedule`, `Pagination` | the remaining tenant tables, statement by statement, and walks over them |
| `RecordsProofs` | proofs about these four |
| `RequestSlots` | what the table models share |
| `MC*` | the instances TLC checks |

### Conventions of the request models

Each request slot `r` has its operation, the statement it is about to execute
(`pc`, `custPc`, ...), the rows it read (used after other requests have
committed) and its uncommitted writes.  Every statement is one action with the
handler's guard; a throw, a timeout, a lost connection and a crash roll back.
PostgreSQL is modelled by what the code relies on: a transaction sees committed
rows and its own, a row written by an open transaction is locked, an UPDATE by
id changes the latest committed version, a unique or EXCLUDE check fails on a
committed conflicting row and waits for an uncommitted one, and after a failed
statement a transaction can only roll back.

### Appointments and Calendar

`appt`, `removed` and `outbox` are the committed tables.  `delayed` and
`active` are the reminder jobs in Redis, which no rollback takes back.
`After(kind, s)` is the order in which a handler awaits its statements.  An
INSERT and its constraint check are one step.  In PostgreSQL two conflicting
INSERTs can each meet the other's row and are then resolved by the deadlock
detector, one of them failing: that outcome is a `TxLost`.  `RedisPartlyDone` is
a loss between the Redis calls of `scheduleReminders` or `cancelReminders`.

Abstracted: times are small integers, the slot grid check is the set `Grid` of
start times `assertOnSlotBoundary` accepts (`Availability` models the check),
a tenant's rows stand alone, notes and metadata are dropped, a booking names an
existing customer, and the customer branch of `cancel` is left out because the
controller always passes `'business'`.

`Calendar` knows no transactions, locks, stale reads or Redis.  Its steps book,
move, change and withdraw an entry or dismiss a staff member, each complete with
its announcements, and no step may leave two open entries overlapping.
`Slots`, `Open`, `Withdrawn` and `Links` map the committed tables to it.  It
does not promise that a closed entry stays closed: the code does not keep that
(`TerminalRace`).

### Outbox and Realtime

`row` is the status of each outbox row, `kicks` the after-commit hooks that
have not run, `batch`/`step`/`todo` the progress of each flush, `job` the BullMQ
job `outbox-<queue>-<id>`, `admitted` how many such jobs were created.  The
SELECT's locks end with the statement, so flushes share rows (`Select`), except
rows another flush is updating, which SKIP LOCKED may or may not pass over.
`LongKept` says whether completed jobs outlive the flushes that may add them
again (in the code: an hour or a thousand jobs).

`Realtime` adds one dashboard client: pushes reach its room while it is online,
are kept for two minutes while it is away, and are replayed page by page from
the PROCESSED rows after that.  A push carries no id, so the client's `since`
moves with the pages only.  `unread` and `swallowed` are history: rows a page
could not contain yet, and a failed query answered as an empty page.

### Idempotency

A request goes reserve → (read) → handle → record → commit.  A response body is
known by the request whose handler made it; a scope is a pair of business and
live/test partition, the visibility unit of the RLS policy.  The header check
reads the context under the name the code uses (`authType`) from what the guard
wrote (`authMethod`).  `RecordMayFail` lets the swallowed UPDATE of
`recordResponse` fail, after which `aborted` turns COMMIT into a rollback.

### Access and RefreshTokens

`session` holds the two `set_config` variables of each pooled connection; the
guard looks a key up on some idle connection, before a tenant is known.
`Searched` are the rows a raw statement sees (policies only), `Listed` those of
a statement that goes through the Prisma extension as well.  A key row carries,
as history, the expiry it was `granted` and the `root` of its rotations.
An audit row is a `hook` from the commit or the throw until it is written, or
never.

`tok` are the committed refresh tokens; a request's child and parent UPDATE are
uncommitted until `Commit`.  A family revocation is one `updateMany` in two
steps: it picks the rows it sees, waits for their locks, and writes.  `ended`
is a history variable: the families revoked while no refresh of them was in
flight.

### Intervals and Availability

A list of intervals is the set of its members: `merge` sorts what it is given
and absorbs an interval that comes twice, and no two members of a merged list
start together, so a loop visits them in one order only.  Each loop is the
function from the rounds it has done to its variables (`mergeLoop`, `meetLoop`,
`carveLoop`, `pushLoop`).  `Availability` builds the loader's selection, the
engine and the service from the algebra.  The tables it reads change in single
steps, as `Schedule` and `Appointments` model the statements.  luxon is the
table `Utc` from date and wall clock to instant, with a gap; the local date of
an instant is the last date a time of which has come.
The output timezone and the formats of the response are left out, so is the
cache, a stub that always misses.

### Customers, Conversations, Schedule, Pagination

`Customers`: a phone is a spelling, `E164` its canonical number or none;
`custCreated` and `announced` remember the committed outbox rows.
`Conversations`: `roomAnswers` remembers what `start` answered.  `Schedule`: five
tables share four shapes of request; a DELETE takes its snapshot when it starts,
waits for rows others are deleting and skips those that are gone; `before`
remembers what had been committed when it started.  `Pagination`: a client takes
the first page through the legacy offset path, makes its first cursor from the
last row, and follows `next_cursor`; rows appear and disappear between pages.  A
page is a set of rows that fills its LIMIT and leaves out none that sorts before
one of its own.

The bodies clients send (`CustOp`, `StartConversationDto`, `ReplaceDto`,
`EndpointCall`, ...) are typed sets, so that the proofs range over every request
the DTOs admit; the `MC*` modules pick small subsets of them.

## 3. Runs

| run | expects | shows |
|---|---|---|
| Booking | pass | two racing requests that may be lost anywhere: no double booking, one successor, events and reminder jobs that agree with the tables, every commit one step of `Calendar` |
| Serial | pass | all operations, one request at a time: terminal states, reschedule, staff removal |
| Progress | pass | requests never wait in a circle (liveness) |
| Stream | pass | nothing lost, published once, everything eventually delivered, and what a reconnecting client holds |
| Idempotency | pass | at most once, truthful answers, complete reservations, replays that stay with their owner, no blocked key |
| Auth | pass | tenant and partition isolation, key rotation and revocation, audit rows; atomic token rotation, fixed deadline, final revocation |
| Availability | pass | offers are exact and bookable, next slots the earliest, the algebra correct on arbitrary lists |
| Records | pass | one owner per phone, truthful events, frozen deleted rows; one conversation per room, counted turns, first close wins; replaced schedules; exact list walks |
| TerminalRace | violation | a stale check-in takes a cancelled appointment back to IN_PROGRESS |
| RotationRace | violation | two refreshes of one parent both succeed: the transaction is not Serializable |
| GridDrift | violation | slots are offered on a 15 minute grid the booking endpoint does not use |
| SharedKey | violation | a key used in another scope protects nobody: retries are applied again |

The "findings" of `PROJECT.json` quote the comments the four violation runs
refute.

Several properties state an exception, which is where the code gives less than
one would expect; each was confirmed by TLC without the exception:

* `OfferedIsBookable`: besides the missing `slotIntervalMin`, the engine merges
  touching windows while the booking check lays a grid on each, and an
  appointment completed early is free for the loader and occupied for the
  EXCLUDE constraint.
* `NextIsEarliest`: `/availability/next` passes over what lies beyond its
  lookahead, and without a timezone it starts on UTC's date.
* `SyncIsComplete`: a row is pushed before it is marked PROCESSED, ids become
  PROCESSED out of order, and a failed query is answered with an empty page.
* `WalkIsExact`: a search filter is lost with the first cursor, and the offset
  path orders equal stamps as it likes.
* `ClosedOnlyRaces`, `DeletedIsFrozen`, `OverlapOnlyByRace`: two calls that read
  before either committed both write; an update in flight restores personal data
  in a purged row; two racing `replaceAll` calls leave both weeks.
* `AnswersAreTrue`: when `recordResponse` fails, its error is swallowed
  (`idempotency.interceptor.ts:101`, "best effort — don't kill the response"),
  COMMIT rolls back, and the client is told of a success that is not there.
* `EndedStaysEnded` is stated for revocations that met no refresh in flight.  A
  refresh that has read its token before the family's `updateMany` and commits
  after it leaves a live token behind, against `auth.controller.ts:92`.

### Observations

Disagreements between code and comments that no run is about:

* Two requests break `RemovedStaffHasNoFuture`: a booking that validated the
  staff member before `StaffService.remove` counted commits after it.
* `PublishedOnce` needs `LongKept`.  Otherwise a row whose `markProcessed`
  failed is published again once its completed job has expired, against
  `outbox.service.ts:145` ("replays stay idempotent per consumer").
* `ApiKeyCall` is false for every call: the interceptor reads `authType`, the
  guard writes `authMethod`, so the header that `appointments.controller.ts:41`
  calls REQUIRED for API keys is never demanded.
* The catch block of `findOrCreate` queries a transaction the failed INSERT has
  aborted: the lost race ends in 500, not in the row.  The phone of a
  soft-deleted customer meets the same path on every call.
* A client that retries with a rotated refresh token whose successor was itself
  rotated is treated as a thief, also within the grace window.
* `rotate` calls `create` without a mode: the successor of a test key is live.
* The throttler runs before `AuthGuard` and the request context is new for every
  request, so its per-key tracker (`app.module.ts:115`) is never used.

### Bounds

Two requests are enough for every race of two transactions, three where a
winner, a loser and a later retry are needed (idempotency, schedule edits, keys).
`Appt`, `Token`, `Cust`, `Conv`, `KeyId`, `RowId` and `Event` bound the rows ever
created; `MaxNow`, `MaxClock` and `Instants` bound the clocks, `MaxFaults` and
`MaxTrips` the failures of the stream and the disconnects of its client.

* Booking: slots overlap in pairs (a service takes two grid units with one
  staff member), with free slots to move to, so that exclusion violations,
  waits and link conflicts all occur.  The third appointment is only created, as
  the second successor or a competing booking.
* Serial has one request because two make two of its properties false.
* Stream: `Limit` is 1 so that the oldest row really hides the other, `PageLimit`
  1 so that a page is truncated; the second row is the client's or a stranger's.
* Idempotency: the calls cover a shared key in one scope, in two scopes, and
  with two bodies, a missing and an invalid header.
* Auth: a live, a test and an expiring key of two tenants, two connections for
  three requests, two keys to mint; the clock passes the grace window.
* Availability: two dates of one weekday, one with a gap in its wall clock, the
  local day shifted against UTC; weeks with touching, overlapping and separate
  windows; two staff members, one of them edited; an appointment in each state.
  Times are in units of half a slot, so every bound can be off by one.
* Records: two spellings of one phone, one room, two turns and two reasons, all
  shapes of schedule requests with overlapping payloads, three rows with two
  stamps and pages of one and two.

The components of Auth and of Records share no row; their MC modules let one
move while the others rest, which keeps the suite at a dozen runs.  Booking,
Auth and Records use the symmetry of request slots; the liveness runs use none.

Deadlock is checked in Stream, whose cron never stops.  In the other runs the
model may stop when its bounded supply of ids, requests or time is used up.

### Fairness

`Appointments`: strong fairness of each request's statements, as PostgreSQL
queues lock waiters and the event loop schedules every open request; `Progress`
runs without timeouts, so a circular wait would show.  `Outbox` and `Realtime`:
the 30 s cron fires again and again, a running flush and a worker go on; failures
are bounded but nothing forces a kick to run or a client to come back.
`Idempotency`: weak fairness of open requests; rollback is never forced.

## 4. Proofs

All theorems hold for every value of the constants that satisfies the named
assumptions.

* `AppointmentsProofs`.  `NoDoubleBooking` is not inductive: two open
  transactions could hold conflicting rows.  `IInv` adds that a request is at a
  statement of its handler with the rows it relies on (`PcOK`), a row under
  construction is known to its own request only (`FreshOK`), no row has two
  uncommitted versions (`LocksOK`), and no two rows conflict among the committed
  ones, those one transaction sees, and those two open transactions are about to
  commit (`NoConflict`).  The constraint's check against both committed and
  uncommitted rows preserves the last part; `TypeCorrect`, `NeverDoubleBooked`
  and `RescheduledOnce` follow.
* `CalendarProofs`.  `AppointmentsImplementCalendar`: only COMMIT changes what
  the mapping sees, so every other step is a stutter, and a COMMIT must be one
  step of `Calendar`.  For that the proof needs to know what a transaction at
  "commit" has done, which `WorkOK` says of every statement: the row, the
  announcement, the link and the closed original of a reschedule that this kind
  of operation has written so far (`WorkOf`), that an appointment it read still
  exists (`Found`), and how an uncommitted version differs from the committed row
  (`VersionOK`).  `TransactionInvariant` proves `IInv` and `WorkOK` together.
  `Consistent'` of `Calendar` then is `NoConflict` after the step.
  `RInv` also settles `EventsMatch`: the announcement of a row is committed with
  it.  `CancelledNeverReminded` needs `RemindersGone` besides: from
  `cancelReminders` to COMMIT nobody queues a job of the appointment again.
  `TerminalIsFinal`, `RescheduledIsReplaced` and `RemovedStaffHasNoFuture` are
  false for two racing requests (see Observations and `TerminalRace`), so they are
  proved, as they are checked, for one request at a time, under
  `ASSUME \A q, r \in Req : q = r`; `SerialInv` says that what the handler read
  still holds at its COMMIT.
* `OutboxProofs`.  `IInv` adds what a flush in progress knows: the queues it has
  already been answered for hold the row's job or it was consumed (`FlushOK`),
  and which jobs may be dropped (`JobsOK`).  `NothingLost` needs no assumption,
  `OneJobPerQueue` assumes `LongKept`.
  About `Realtime`, `ClientInv` stands beside the outbox's `IInv`: nothing of the
  tenant lies behind `since` unseen (`BehindSince`), and a client that does not
  page holds what was pushed, or it is kept for its recovery (`HoldsPushed`).
  The two meet in `PageIsComplete`: a page has no gaps and a page that is not
  truncated holds all that is due, which rests on cardinalities of finite sets
  and on the newest row of a page, found by the least cardinality of a
  counterexample.
* `IdempotencyProofs`.  `IInv` ties a reservation to its request, a committed key
  to the applied request that recorded it, and an applied request to its row.
  `AtMostOnce`, `NoFalseSuccess`, `ReplaysStayOwn` and `ReservationsComplete`
  assume nothing; `AtMostOncePerTenant` assumes that a key is used in one scope,
  without which `SharedKey` refutes it.
* `AccessProofs`.  `AccInv`: the context says of the caller what its credential
  stands for (`ContextOK`), a connection carries the tenant of the request that
  holds it and nothing when it is idle (`ConnOK`, `PoolOK`), and every lineage of
  keys has an heir with the expiry its first key was granted, no key living
  longer (`HeirOK`, `LineageOK`).  The heir survives races because a rotation
  either shortens its own key and hands the deadline to a new one or was read
  before somebody else did so (`ReadOK`).  The two action properties
  `RevocationIsFinal` and `NoFalseRefusal` follow from it step by step.
* `RefreshTokensProofs`.  `TokenInv`: the child a refresh is about to insert
  belongs to the family of the row it read and keeps its deadline, ids drawn for
  children are nobody's, and a family whose refresh is in flight has not `ended`.
* `RecordsProofs`.  `CustInv` and `ConvInv` are built like the invariant of
  `Appointments`: an open transaction's rows are one INSERT or one UPDATE of the
  committed version, no row has two uncommitted versions, and versions of two
  rows, committed or not, never share the unique key (`PhoneIndexOK`,
  `RoomIndexOK`).  `SchedInv` follows the snapshot of a DELETE: every row that was
  committed in its scope when it started is in the snapshot, then locked, then
  gone (`SnapshotOK`), and every opening hour comes from one committed payload
  that was checked (`HoursOK`).  `ListInv` says that the cursor parts the rows
  still due from those passed (`CursorParts`).  `DeletedIsFrozen` and
  `ClosedOnlyRaces` are action properties proved from the same invariants.
* `AvailabilityProofs`.  The properties are about operators, so the work lies in
  the loops.  `LoopExists` and `LoopKeeps` say once for all of them that the
  function over rounds exists, that it stays among its states and takes one
  round after the other, by looking at the least round that would not.  Each
  loop then has its invariant (`MergeStates`, `MeetStates`,
  `CarveStates`, `PushStates`): what the output holds of the input visited so far
  and where it lies to what is still to come.  They give `MergeIsExact`,
  `IntersectIsExact` and `SubtractIsExact`, and with them `AlgebraIsExact`.
  `FitsIsCovered` carries this to the engine: in a list without touching members, what is covered throughout lies in one interval
  (`InOneInterval`), which is all `fitsIn` looks for.  `FreeHours` shows that the
  blocks and appointments the loader leaves out cannot matter to a day,
  `WindowAround` and `OpenFor` that the anchor of the grid is the opening of the
  merged window, and `DayIsExact` puts `OffersAreExact` together, a gap in the
  wall clock included.  For `OfferedIsBookable`, `DateOfOpenPoint` says that an
  open instant is on the date the booking check computes for it, `Anchor` and
  `SameGrid` that both grids agree under the property's premise, and
  `NothingInTheWay` that what the subtraction left free meets no row of the
  EXCLUDE constraint.  `NextIsEarliest` follows from the order of slots across
  dates (`SlotsInOrder`) and the invariant of the loop that takes one slot after
  the other (`Soonest`).  `CheckedIsAvailSpec` links the instance TLC
  checks, in which the lists of the algebra move as well, to the specification
  the theorems are about.  The type invariant of the tables, `AvailTypeOK`, adds
  what the engine relies on without checking: no staff member is assigned to the
  service twice, and an appointment takes time.

The inductive invariants of the specifications were checked by TLC on the runs'
instances before they were proved; the loop invariants are about operators, whose
results the runs check.

Several assumptions were found by proving.  Ids of outbox rows are not the value
`since` has before the first page (`RealtimeAssumption`), and a cursor is not
mistaken for none (`PaginationAssumption`).  `AvailabilityAssumption` states the
types of the columns, the ranges the DTOs let through (durations and steps
are positive, buffers and notices not negative), and two facts of the calendar:
the times of a date have all come before the first of a later date, and the
table reaches back to the first instant the clock shows.

Only model-checked: the liveness properties (`RequestsEnd`, `EventuallyDelivered`,
`KeyNeverBlocks`) and with them everything about ENABLED, which the prover does
not cover.  Every invariant and action property of a passing run is proved.
A theorem says no more than its property: the exceptions of section 3 stand in
the proved formulas too.

## 5. Not modelled

* Full-text matching of search, agent context and plain listings only read.
* Registration, password hashing, token signing, listing of sessions and
  cookies; creation and patching of staff and services: single rows
  nobody else's check depends on.
* The service catalogue beyond the soft delete of a service.
* Prisma's built-in cursor (conversations, audit) and the rate limiter's
  counters are library code.
* The error filter, logging, health checks and bootstrap are wiring and
  formatting without state.
* BullMQ, Redis, PostgreSQL, luxon and libphonenumber are external and modelled
  by what the code relies on.
* Notifications, payments, holiday import and staff invitations are stubs in the
  code.
