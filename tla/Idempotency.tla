----------------------------- MODULE Idempotency -----------------------------
(***************************************************************************)
(* IdempotencyInterceptor inside the request transaction: a key is         *)
(* reserved by INSERT ... ON CONFLICT DO NOTHING, the response is recorded *)
(* in the same transaction as the effect, and later requests with the key  *)
(* replay it.                                                              *)
(*                                                                         *)
(* IdempotencyKey.key is a primary key across all tenants, but row level   *)
(* security shows a row only to its scope (businessId and isTest).         *)
(***************************************************************************)
EXTENDS Integers

CONSTANTS
  Req,             \* HTTP requests; a retry of a client is another request
  Key,
  Scope,           \* pairs of businessId and live or test partition
  Body,            \* method, url and body: what requestHash tells apart
  Calls,           \* what clients send
  RecordMayFail,   \* the UPDATE of recordResponse may fail
  None

\* The header is absent, or does not match KEY_FORMAT.
NoKey == "absent"
BadKey == "malformed"

Call == [scope: Scope, key: Key \cup {NoKey, BadKey}, body: Body,
         auth: {"jwt", "apikey"}]

\* A response body is known by the request whose handler made it.
Row == [scope: Scope, body: Body, response: Req \cup {None}]

ASSUME IdempotencyAssumption ==
  /\ Calls \subseteq Call
  /\ NoKey \notin Key /\ BadKey \notin Key
  /\ None \notin Row /\ None \notin Req /\ None \notin Calls
  /\ RecordMayFail \in BOOLEAN
  /\ Req \cap {"rejected", "error"} = {}

VARIABLES
  keys,      \* committed IdempotencyKey rows
  applied,   \* requests whose handler's effect is committed
  call,      \* what a request asks for
  pc,
  txKey,     \* the row it has inserted and not committed
  aborted,   \* a statement failed: COMMIT will roll back
  answer     \* the response the client received, None before or when it is lost

vars == <<keys, applied, call, pc, txKey, aborted, answer>>

-----------------------------------------------------------------------------
\* What AuthGuard stores in the request context, and what the interceptor
\* finds there.
Context(c) == [authMethod |-> c.auth, businessId |-> c.scope]
ClsGet(c, name) ==
  IF name \in DOMAIN Context(c) THEN Context(c)[name] ELSE "undefined"
ApiKeyCall(c) == ClsGet(c, "authType") = "apikey"

Rejected(c) == c.key = BadKey \/ (c.key = NoKey /\ ApiKeyCall(c))

\* The handler has not answered yet and its transaction is open.
Open(r) == pc[r] \in {"reserve", "read", "handle", "record", "commit"}

\* Mutated form of Abandon: the reservation outlives the request.
AbandonKeepsKey(r, a) ==
  /\ pc' = [pc EXCEPT ![r] = "done"]
  /\ answer' = [answer EXCEPT ![r] = a]
  /\ UNCHANGED <<keys, applied, call, txKey, aborted>>

\* ROLLBACK: the reservation is gone.
Abandon(r, a) ==
  /\ pc' = [pc EXCEPT ![r] = "done"]
  /\ answer' = [answer EXCEPT ![r] = a]
  /\ txKey' = [txKey EXCEPT ![r] = None]
  /\ UNCHANGED <<keys, applied, call, aborted>>

\* Mutated form of Goto: the response is not recorded.
GotoUnrecorded(r, s) ==
  pc' = [pc EXCEPT ![r] = IF s = "record" THEN "commit" ELSE s]
Goto(r, s) == pc' = [pc EXCEPT ![r] = s]

Begin(r) ==
  /\ pc[r] = "new"
  /\ \E c \in Calls :
       /\ call' = [call EXCEPT ![r] = c]
       /\ \/ /\ Rejected(c)
             /\ Goto(r, "done")
             /\ answer' = [answer EXCEPT ![r] = "rejected"]
          \/ /\ ~Rejected(c)
             /\ Goto(r, IF c.key = NoKey THEN "handle" ELSE "reserve")
             /\ UNCHANGED answer
  /\ UNCHANGED <<keys, applied, txKey, aborted>>

-----------------------------------------------------------------------------
\* lookupOrReserve.

\* Mutated form of InsertWaits: the key is looked up before it is inserted,
\* outside any transaction.
InsertNeverWaits(r) == FALSE

\* The INSERT waits for an open transaction that inserted the same key.
InsertWaits(r) ==
  \E q \in Req \ {r} : txKey[q] # None /\ call[q].key = call[r].key

Reserve(r) ==
  /\ pc[r] = "reserve"
  /\ ~InsertWaits(r)
  /\ keys[call[r].key] = None
  /\ txKey' = [txKey EXCEPT ![r] =
       [scope |-> call[r].scope, body |-> call[r].body, response |-> None]]
  /\ Goto(r, "handle")
  /\ UNCHANGED <<keys, applied, call, aborted, answer>>

\* ON CONFLICT DO NOTHING.
Conflict(r) ==
  /\ pc[r] = "reserve"
  /\ ~InsertWaits(r)
  /\ keys[call[r].key] # None
  /\ Goto(r, "read")
  /\ UNCHANGED <<keys, applied, call, txKey, aborted, answer>>

Visible(r) == keys[call[r].key].scope = call[r].scope
Replayable(r) ==
  keys[call[r].key].body = call[r].body /\ keys[call[r].key].response # None

\* The row belongs to another scope: the SELECT finds nothing and the outcome
\* is "new" without a reservation.
ReadNothing(r) ==
  /\ pc[r] = "read"
  /\ ~Visible(r)
  /\ Goto(r, "handle")
  /\ UNCHANGED <<keys, applied, call, txKey, aborted, answer>>

\* mismatch, or in_flight.
ReadRefuses(r) ==
  /\ pc[r] = "read"
  /\ Visible(r) /\ ~Replayable(r)
  /\ Abandon(r, "rejected")

\* Mutated form of Replay: the stored body is returned for any request hash.
ReplayAny(r) ==
  /\ pc[r] = "read"
  /\ Visible(r)
  /\ Abandon(r, keys[call[r].key].response)

Replay(r) ==
  /\ pc[r] = "read"
  /\ Visible(r) /\ Replayable(r)
  /\ Abandon(r, keys[call[r].key].response)

-----------------------------------------------------------------------------
\* The handler, recordResponse and the end of the transaction.

Handle(r) ==
  /\ pc[r] = "handle"
  /\ Goto(r, IF call[r].key = NoKey THEN "commit" ELSE "record")
  /\ UNCHANGED <<keys, applied, call, txKey, aborted, answer>>

\* UPDATE ... WHERE key: no row when the key belongs to another scope.
Record(r) ==
  /\ pc[r] = "record"
  /\ txKey' = [txKey EXCEPT ![r] = IF @ = None THEN None ELSE [@ EXCEPT !.response = r]]
  /\ Goto(r, "commit")
  /\ UNCHANGED <<keys, applied, call, aborted, answer>>

\* The error is swallowed, but PostgreSQL has aborted the transaction.
RecordFails(r) ==
  /\ RecordMayFail
  /\ pc[r] = "record"
  /\ aborted' = [aborted EXCEPT ![r] = TRUE]
  /\ Goto(r, "commit")
  /\ UNCHANGED <<keys, applied, call, txKey, answer>>

\* What COMMIT makes visible.
Apply(r) ==
  /\ applied' = applied \cup {r}
  /\ keys' = IF txKey[r] = None THEN keys
             ELSE [keys EXCEPT ![call[r].key] = txKey[r]]

\* COMMIT, and the response reaches the client or is lost on the way.
Commit(r) ==
  /\ pc[r] = "commit" /\ ~aborted[r]
  /\ Apply(r)
  /\ answer' \in {answer, [answer EXCEPT ![r] = r]}
  /\ txKey' = [txKey EXCEPT ![r] = None]
  /\ Goto(r, "done")
  /\ UNCHANGED <<call, aborted>>

\* COMMIT of an aborted transaction rolls back without an error.
CommitAborted(r) ==
  /\ pc[r] = "commit" /\ aborted[r]
  /\ Abandon(r, r)

\* Mutated form of RollBack: the error is swallowed.
RollBackSilently(r) ==
  /\ Open(r)
  /\ Abandon(r, r)

\* The handler throws, or the transaction is lost.
RollBack(r) ==
  /\ Open(r)
  /\ Abandon(r, "error")

-----------------------------------------------------------------------------
Init ==
  /\ keys = [k \in Key |-> None]
  /\ applied = {}
  /\ call = [r \in Req |-> None]
  /\ pc = [r \in Req |-> "new"]
  /\ txKey = [r \in Req |-> None]
  /\ aborted = [r \in Req |-> FALSE]
  /\ answer = [r \in Req |-> None]

Step(r) ==
  \/ Reserve(r) \/ Conflict(r)
  \/ ReadNothing(r) \/ ReadRefuses(r) \/ Replay(r)
  \/ Handle(r) \/ Record(r) \/ Commit(r) \/ CommitAborted(r)

Next == \E r \in Req : Begin(r) \/ Step(r) \/ RecordFails(r) \/ RollBack(r)

Spec == Init /\ [][Next]_vars

\* Open requests are scheduled.
FairSpec == Spec /\ \A r \in Req : WF_vars(Step(r))

-----------------------------------------------------------------------------
\* Properties.

\* Type correctness of every variable.
TypeOK ==
  /\ keys \in [Key -> Row \cup {None}]
  /\ applied \subseteq Req
  /\ call \in [Req -> Calls \cup {None}]
  /\ pc \in [Req -> {"new", "reserve", "read", "handle", "record", "commit", "done"}]
  /\ txKey \in [Req -> Row \cup {None}]
  /\ aborted \in [Req -> BOOLEAN]
  /\ answer \in [Req -> Req \cup {None, "rejected", "error"}]

\* Two requests of one scope that carry the same Idempotency-Key.
SameKey(r, q) ==
  call[r].key \in Key /\ call[r].key = call[q].key /\ call[r].scope = call[q].scope

\* Concurrent requests and retries with one key take effect at most once, also
\* after a response was lost or a transaction rolled back, unless the key is
\* taken by another scope: key is the primary key of all tenants together.
AppliedOnce ==
  \A r, q \in applied :
    SameKey(r, q) /\ keys[call[r].key].scope = call[r].scope => r = q

\* The same without the exception: a key is the caller's own.
KeyIsPerTenant == \A r, q \in applied : SameKey(r, q) => r = q

\* A success the client was told of is committed: its own effect, or the one
\* it is a replay of.  Only a request whose own recordResponse failed, which
\* aborts the transaction behind the swallowed error, is answered falsely.
AnswersAreTrue ==
  \A r \in Req :
    answer[r] \in Req => answer[r] \in applied \/ (answer[r] = r /\ aborted[r])

\* A replayed response was made for the same key, scope and body: never
\* another tenant's, never that of a different request.
ReplayIsOwn ==
  \A r \in Req :
    answer[r] \in Req /\ answer[r] # r =>
      SameKey(r, answer[r]) /\ call[r].body = call[answer[r]].body

\* A committed key always carries its response, so that a later request with
\* the same body replays it and never meets in_flight.
ReservationIsComplete ==
  \A k \in Key : keys[k] # None => keys[k].response \in applied

\* No request waits forever for a key another one has reserved.
KeyNeverBlocks == \A r \in Req : Open(r) ~> pc[r] = "done"

-----------------------------------------------------------------------------
\* The inductive invariant.

\* Past lookupOrReserve a request with a key has reserved it, or another scope
\* owns it.
RequestOK(r) ==
  /\ pc[r] = "new" <=> call[r] = None
  /\ r \in applied => pc[r] = "done"
  /\ pc[r] \in {"reserve", "read", "record"} => call[r].key \in Key
  /\ pc[r] = "handle" => call[r].key # BadKey
  /\ pc[r] = "read" => keys[call[r].key] # None
  /\ pc[r] \in {"handle", "record", "commit"} /\ call[r].key \in Key /\ txKey[r] = None
     => keys[call[r].key] # None /\ keys[call[r].key].scope # call[r].scope
  /\ aborted[r] => RecordMayFail

\* A reservation describes its request, and nobody else has the key.
ReservationOK(r) ==
  txKey[r] # None =>
    /\ pc[r] \in {"handle", "record", "commit"}
    /\ call[r].key \in Key /\ keys[call[r].key] = None
    /\ txKey[r].scope = call[r].scope /\ txKey[r].body = call[r].body
    /\ pc[r] = "commit" /\ ~aborted[r] => txKey[r].response = r
    /\ \A q \in Req \ {r} : txKey[q] # None => call[q].key # call[r].key

\* A committed key describes the applied request that recorded it.
KeyOK(k) ==
  keys[k] # None =>
    /\ keys[k].response \in applied
    /\ call[keys[k].response].key = k
    /\ call[keys[k].response].scope = keys[k].scope
    /\ call[keys[k].response].body = keys[k].body

\* An applied request with a key is the one its scope's row remembers.
AppliedOK(r) ==
  r \in applied /\ call[r].key \in Key =>
    /\ keys[call[r].key] # None
    /\ keys[call[r].key].scope = call[r].scope => keys[call[r].key].response = r

AnswerOK(r) ==
  answer[r] \in Req =>
    /\ pc[r] = "done"
    /\ answer[r] \in applied \/ (answer[r] = r /\ aborted[r])
    /\ answer[r] # r =>
         /\ answer[r] \in applied
         /\ SameKey(r, answer[r]) /\ call[r].body = call[answer[r]].body

IInv ==
  /\ TypeOK
  /\ \A r \in Req : RequestOK(r) /\ ReservationOK(r) /\ AppliedOK(r) /\ AnswerOK(r)
  /\ \A k \in Key : KeyOK(k)

\* Every key is used in one scope only, which the code does not enforce.
KeysOfOneScope ==
  \A c, d \in Calls : c.key \in Key /\ c.key = d.key => c.scope = d.scope
=============================================================================
