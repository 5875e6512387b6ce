-------------------------- MODULE IdempotencyProofs --------------------------
(***************************************************************************)
(* Proofs about Idempotency: types, effects at most once per key, truthful *)
(* answers and replays that stay within their scope.                       *)
(***************************************************************************)
EXTENDS Idempotency, TLAPS

\* What the invariant says of one request.
Part(r) == RequestOK(r) /\ ReservationOK(r) /\ AppliedOK(r) /\ AnswerOK(r)

\* A request that has begun has a call.
LEMMA CallType ==
  ASSUME TypeOK, NEW r \in Req, call[r] # None
  PROVE  /\ call[r] \in Calls
         /\ call[r].scope \in Scope /\ call[r].body \in Body
         /\ call[r].key \in Key \cup {NoKey, BadKey}
BY IdempotencyAssumption DEF TypeOK, Call

\* A request that takes its call changes nothing for the others: none of them
\* has a reservation, an applied effect or an answer that speaks of it.
LEMMA BeginKeepsInv ==
  ASSUME IInv, NEW r \in Req, Begin(r)
  PROVE  IInv'
<1>1. PICK c \in Calls :
        /\ pc[r] = "new"
        /\ call' = [call EXCEPT ![r] = c]
        /\ UNCHANGED <<keys, applied, txKey, aborted>>
        /\ \/ /\ pc' = [pc EXCEPT ![r] = "done"]
              /\ answer' = [answer EXCEPT ![r] = "rejected"]
           \/ /\ pc' = [pc EXCEPT ![r] = IF c.key = NoKey THEN "handle" ELSE "reserve"]
              /\ c.key # BadKey
              /\ UNCHANGED answer
  BY DEF Begin, Goto, Rejected
<1>2. TypeOK'
  BY <1>1 DEF IInv, TypeOK
<1>3. /\ call[r] = None /\ r \notin applied /\ txKey[r] = None
      /\ answer[r] \notin Req
  BY <1>1 DEF IInv, RequestOK, ReservationOK, AnswerOK
<1>4. /\ call'[r] = c /\ c # None /\ c.key \in Key \cup {NoKey, BadKey}
      /\ \A q \in Req \ {r} : call'[q] = call[q] /\ pc'[q] = pc[q] /\ answer'[q] = answer[q]
  BY <1>1, IdempotencyAssumption DEF IInv, TypeOK, Call
<1>5. Part(r)'
  <2>1. pc'[r] # "new" /\ (pc'[r] \in {"reserve", "read", "record"} => c.key \in Key)
        /\ (pc'[r] \in {"handle", "record", "commit", "read"} => c.key = NoKey /\ pc'[r] = "handle")
    BY <1>1, <1>4 DEF IInv, TypeOK
  <2>2. answer'[r] \notin Req
    BY <1>1, <1>3, IdempotencyAssumption DEF IInv, TypeOK
  <2> QED BY <1>1, <1>3, <1>4, <2>1, <2>2, IdempotencyAssumption
          DEF Part, IInv, RequestOK, ReservationOK, AppliedOK, AnswerOK, NoKey, BadKey
<1>6. ASSUME NEW q \in Req \ {r} PROVE Part(q)'
  BY <1>1, <1>3, <1>4 DEF Part, IInv, RequestOK, ReservationOK, AppliedOK, AnswerOK, SameKey
<1>7. ASSUME NEW k \in Key PROVE KeyOK(k)'
  BY <1>1, <1>3, <1>4 DEF IInv, KeyOK
<1> QED BY <1>2, <1>5, <1>6, <1>7 DEF IInv, Part

\* Steps that only move on.
LEMMA MoveKeepsInv ==
  ASSUME IInv, NEW r \in Req, Conflict(r) \/ ReadNothing(r) \/ Handle(r)
  PROVE  IInv'
<1>1. /\ UNCHANGED <<keys, applied, call, txKey, aborted, answer>>
      /\ \A q \in Req \ {r} : pc'[q] = pc[q]
      /\ pc' \in [Req -> {"new", "reserve", "read", "handle", "record", "commit", "done"}]
  BY DEF Conflict, ReadNothing, Handle, Goto, IInv, TypeOK
<1>2. TypeOK'
  BY <1>1 DEF IInv, TypeOK
<1>3. Part(r)'
  <2>1. pc[r] \notin {"new", "done"} /\ call[r] # None
    BY DEF Conflict, ReadNothing, Handle, IInv, RequestOK
  <2>2. CASE Conflict(r)
    <3>1. pc[r] = "reserve" /\ pc'[r] = "read" /\ keys[call[r].key] # None
      BY <2>2 DEF Conflict, Goto, IInv, TypeOK
    <3> QED BY <1>1, <2>1, <3>1
            DEF Part, IInv, RequestOK, ReservationOK, AppliedOK, AnswerOK, SameKey
  <2>3. CASE ReadNothing(r)
    <3>1. pc[r] = "read" /\ pc'[r] = "handle" /\ keys[call[r].key].scope # call[r].scope
      BY <2>3 DEF ReadNothing, Goto, Visible, IInv, TypeOK
    <3> QED BY <1>1, <2>1, <3>1, IdempotencyAssumption
            DEF Part, IInv, RequestOK, ReservationOK, AppliedOK, AnswerOK, SameKey
  <2>4. CASE Handle(r)
    <3>1. /\ pc[r] = "handle"
          /\ pc'[r] = IF call[r].key = NoKey THEN "commit" ELSE "record"
      BY <2>4 DEF Handle, Goto, IInv, TypeOK
    <3>2. call[r].key # BadKey
      BY <3>1 DEF IInv, RequestOK
    <3> QED BY <1>1, <2>1, <3>1, <3>2, CallType, IdempotencyAssumption
            DEF Part, IInv, RequestOK, ReservationOK, AppliedOK, AnswerOK, SameKey
  <2> QED BY <2>2, <2>3, <2>4
<1>4. ASSUME NEW q \in Req \ {r} PROVE Part(q)'
  BY <1>1, <1>3 DEF Part, IInv, RequestOK, ReservationOK, AppliedOK, AnswerOK, SameKey
<1>5. ASSUME NEW k \in Key PROVE KeyOK(k)'
  BY <1>1 DEF IInv, KeyOK
<1> QED BY <1>2, <1>3, <1>4, <1>5 DEF IInv, Part

\* The INSERT succeeds: nobody else has the key, committed or not.
LEMMA ReserveKeepsInv ==
  ASSUME IInv, NEW r \in Req, Reserve(r)
  PROVE  IInv'
<1> DEFINE new == [scope |-> call[r].scope, body |-> call[r].body, response |-> None]
<1>1. /\ pc[r] = "reserve" /\ pc' = [pc EXCEPT ![r] = "handle"]
      /\ txKey' = [txKey EXCEPT ![r] = new]
      /\ keys[call[r].key] = None
      /\ \A q \in Req \ {r} : txKey[q] # None => call[q].key # call[r].key
      /\ UNCHANGED <<keys, applied, call, aborted, answer>>
  BY DEF Reserve, Goto, InsertWaits
<1>2. call[r] # None /\ call[r].key \in Key
  BY <1>1 DEF IInv, RequestOK
<1>3. new \in Row /\ new # None
  BY <1>2, CallType, IdempotencyAssumption DEF IInv, Row
<1>4. TypeOK'
  BY <1>1, <1>3 DEF IInv, TypeOK
<1>5. /\ pc'[r] = "handle" /\ txKey'[r] = new
      /\ \A q \in Req \ {r} : pc'[q] = pc[q] /\ txKey'[q] = txKey[q]
  BY <1>1 DEF IInv, TypeOK
<1>6. Part(r)'
  BY <1>1, <1>2, <1>3, <1>5, IdempotencyAssumption
     DEF Part, IInv, RequestOK, ReservationOK, AppliedOK, AnswerOK, SameKey
<1>7. ASSUME NEW q \in Req \ {r} PROVE Part(q)'
  BY <1>1, <1>5 DEF Part, IInv, RequestOK, ReservationOK, AppliedOK, AnswerOK, SameKey
<1>8. ASSUME NEW k \in Key PROVE KeyOK(k)'
  BY <1>1 DEF IInv, KeyOK
<1> QED BY <1>4, <1>6, <1>7, <1>8 DEF IInv, Part

\* recordResponse fills in the reservation, or aborts the transaction.
LEMMA RecordKeepsInv ==
  ASSUME IInv, NEW r \in Req, Record(r) \/ RecordFails(r)
  PROVE  IInv'
<1>1. /\ pc[r] = "record" /\ pc' = [pc EXCEPT ![r] = "commit"]
      /\ UNCHANGED <<keys, applied, call, answer>>
  BY DEF Record, RecordFails, Goto
<1>2. call[r] # None /\ call[r].key \in Key
  BY <1>1 DEF IInv, RequestOK
<1>3. /\ \A q \in Req \ {r} :
           pc'[q] = pc[q] /\ txKey'[q] = txKey[q] /\ aborted'[q] = aborted[q]
      /\ pc'[r] = "commit"
      /\ aborted' \in [Req -> BOOLEAN]
      /\ aborted'[r] => RecordMayFail
  <2>1. CASE Record(r)
    BY <1>1, <2>1 DEF Record, IInv, TypeOK, RequestOK
  <2>2. CASE RecordFails(r)
    <3>1. aborted' = [aborted EXCEPT ![r] = TRUE] /\ UNCHANGED txKey /\ RecordMayFail
      BY <2>2 DEF RecordFails
    <3>2. aborted' \in [Req -> BOOLEAN]
      BY <3>1 DEF IInv, TypeOK
    <3>3. \A q \in Req \ {r} : aborted'[q] = aborted[q]
      BY <3>1, Zenon DEF IInv, TypeOK
    <3>4. \A q \in Req \ {r} : pc'[q] = pc[q]
      BY <1>1 DEF IInv, TypeOK
    <3>5. pc'[r] = "commit"
      BY <1>1 DEF IInv, TypeOK
    <3> QED BY <3>1, <3>2, <3>3, <3>4, <3>5
  <2> QED BY <2>1, <2>2
<1>4. /\ txKey' \in [Req -> Row \cup {None}]
      /\ txKey[r] = None <=> txKey'[r] = None
      /\ txKey[r] # None =>
           /\ txKey'[r].scope = txKey[r].scope /\ txKey'[r].body = txKey[r].body
           /\ ~aborted'[r] => txKey'[r].response = r
  <2>1. CASE Record(r)
    <3>1. txKey[r] # None =>
            /\ [txKey[r] EXCEPT !.response = r] \in Row
            /\ [txKey[r] EXCEPT !.response = r].scope = txKey[r].scope
            /\ [txKey[r] EXCEPT !.response = r].body = txKey[r].body
            /\ [txKey[r] EXCEPT !.response = r].response = r
      BY DEF IInv, TypeOK, Row
    <3> QED BY <2>1, <3>1, IdempotencyAssumption DEF Record, IInv, TypeOK
  <2>2. CASE RecordFails(r)
    BY <2>2 DEF RecordFails, IInv, TypeOK
  <2> QED BY <2>1, <2>2
<1>5. TypeOK'
  BY <1>1, <1>3, <1>4 DEF IInv, TypeOK
<1>6. Part(r)'
  BY <1>1, <1>2, <1>3, <1>4
     DEF Part, IInv, RequestOK, ReservationOK, AppliedOK, AnswerOK, SameKey
<1>7. ASSUME NEW q \in Req \ {r} PROVE Part(q)'
  BY <1>1, <1>3, <1>4 DEF Part, IInv, RequestOK, ReservationOK, AppliedOK, AnswerOK, SameKey
<1>8. ASSUME NEW k \in Key PROVE KeyOK(k)'
  BY <1>1 DEF IInv, KeyOK
<1> QED BY <1>5, <1>6, <1>7, <1>8 DEF IInv, Part

\* Ends that commit nothing.
LEMMA AbandonKeepsInv ==
  ASSUME IInv, NEW r \in Req,
         ReadRefuses(r) \/ Replay(r) \/ CommitAborted(r) \/ RollBack(r)
  PROVE  IInv'
<1>1. call[r] # None /\ r \notin applied /\ pc[r] # "new" /\ pc[r] # "done"
  BY DEF ReadRefuses, Replay, CommitAborted, RollBack, Open, IInv, RequestOK
<1>2. PICK a \in Req \cup {None, "rejected", "error"} :
        /\ Abandon(r, a)
        /\ a = r => aborted[r] \/ a \in applied
        /\ a \in Req /\ a # r =>
             /\ a \in applied /\ SameKey(r, a) /\ call[r].body = call[a].body
  <2>1. CASE ReadRefuses(r)
    BY <2>1, IdempotencyAssumption DEF ReadRefuses
  <2>2. CASE Replay(r)
    <3>1. /\ call[r].key \in Key /\ keys[call[r].key] # None
          /\ keys[call[r].key].scope = call[r].scope
          /\ keys[call[r].key].body = call[r].body
          /\ Abandon(r, keys[call[r].key].response)
      BY <2>2 DEF Replay, Visible, Replayable, IInv, RequestOK
    <3>2. KeyOK(call[r].key)
      BY <3>1 DEF IInv
    <3>3. keys[call[r].key].response \in Req
      BY <3>1, <3>2 DEF KeyOK, IInv, TypeOK
    <3> QED BY <3>1, <3>2, <3>3 DEF KeyOK, SameKey
  <2>3. CASE CommitAborted(r)
    BY <2>3 DEF CommitAborted, IInv, RequestOK
  <2>4. CASE RollBack(r)
    BY <2>4, IdempotencyAssumption DEF RollBack
  <2> QED BY <2>1, <2>2, <2>3, <2>4
<1>3. /\ UNCHANGED <<keys, applied, call, aborted>>
      /\ pc'[r] = "done" /\ answer'[r] = a /\ txKey'[r] = None
      /\ \A q \in Req \ {r} :
           pc'[q] = pc[q] /\ txKey'[q] = txKey[q] /\ answer'[q] = answer[q]
  BY <1>2 DEF Abandon, IInv, TypeOK
<1>4. TypeOK'
  BY <1>2 DEF Abandon, IInv, TypeOK
<1>5. Part(r)'
  BY <1>1, <1>2, <1>3, IdempotencyAssumption
     DEF Part, IInv, RequestOK, ReservationOK, AppliedOK, AnswerOK, SameKey
<1>6. ASSUME NEW q \in Req \ {r} PROVE Part(q)'
  BY <1>3 DEF Part, IInv, RequestOK, ReservationOK, AppliedOK, AnswerOK, SameKey
<1>7. ASSUME NEW k \in Key PROVE KeyOK(k)'
  BY <1>3 DEF IInv, KeyOK
<1> QED BY <1>4, <1>5, <1>6, <1>7 DEF IInv, Part

\* COMMIT publishes the effect together with the recorded key.
LEMMA CommitKeepsInv ==
  ASSUME IInv, NEW r \in Req, Commit(r)
  PROVE  IInv'
<1> DEFINE k == call[r].key
<1>1. /\ pc[r] = "commit" /\ ~aborted[r]
      /\ applied' = applied \cup {r}
      /\ keys' = IF txKey[r] = None THEN keys ELSE [keys EXCEPT ![k] = txKey[r]]
      /\ answer' \in {answer, [answer EXCEPT ![r] = r]}
      /\ UNCHANGED <<call, aborted>>
      /\ pc' = [pc EXCEPT ![r] = "done"]
      /\ txKey' = [txKey EXCEPT ![r] = None]
  BY DEF Commit, Apply, Goto
<1>2. call[r] # None /\ r \notin applied
  BY <1>1 DEF IInv, RequestOK
<1>3. /\ pc'[r] = "done" /\ txKey'[r] = None /\ answer'[r] \in {answer[r], r}
      /\ \A q \in Req \ {r} :
           pc'[q] = pc[q] /\ txKey'[q] = txKey[q] /\ answer'[q] = answer[q]
  BY <1>1 DEF IInv, TypeOK
<1>4. TypeOK'
  BY <1>1 DEF IInv, TypeOK
<1>5. answer[r] \notin Req
  BY <1>1 DEF IInv, AnswerOK
<1>6. CASE txKey[r] = None
  <2>1. keys' = keys
    BY <1>1, <1>6
  <2>2. k \in Key => keys[k] # None /\ keys[k].scope # call[r].scope
    BY <1>1, <1>6 DEF IInv, RequestOK
  <2>3. Part(r)'
    BY <1>1, <1>2, <1>3, <1>5, <2>1, <2>2
       DEF Part, IInv, RequestOK, ReservationOK, AppliedOK, AnswerOK
  <2>4. ASSUME NEW q \in Req \ {r} PROVE Part(q)'
    BY <1>1, <1>2, <1>3, <2>1
       DEF Part, IInv, RequestOK, ReservationOK, AppliedOK, AnswerOK, SameKey
  <2>5. ASSUME NEW j \in Key PROVE KeyOK(j)'
    BY <1>1, <2>1 DEF IInv, KeyOK
  <2> QED BY <1>4, <2>3, <2>4, <2>5 DEF IInv, Part
<1>7. CASE txKey[r] # None
  <2>1. /\ k \in Key /\ keys[k] = None
        /\ txKey[r].scope = call[r].scope /\ txKey[r].body = call[r].body
        /\ txKey[r].response = r
        /\ \A q \in Req \ {r} : txKey[q] # None => call[q].key # k
    BY <1>1, <1>7 DEF IInv, ReservationOK
  <2>2. /\ keys'[k] = txKey[r]
        /\ \A j \in Key \ {k} : keys'[j] = keys[j]
    BY <1>1, <1>7, <2>1 DEF IInv, TypeOK
  <2>3. Part(r)'
    BY <1>1, <1>2, <1>3, <1>5, <1>7, <2>1, <2>2
       DEF Part, IInv, RequestOK, ReservationOK, AppliedOK, AnswerOK
  <2>4. ASSUME NEW q \in Req \ {r} PROVE Part(q)'
    <3>1. RequestOK(q)'
      <4>1. pc[q] \in {"read"} => call[q].key # k
        BY <2>1 DEF IInv, RequestOK
      <4>2. pc[q] \in {"handle", "record", "commit"} /\ call[q].key \in Key /\ txKey[q] = None
            => call[q].key # k
        BY <2>1 DEF IInv, RequestOK
      <4> QED BY <1>1, <1>3, <2>2, <4>1, <4>2 DEF IInv, RequestOK
    <3>2. ReservationOK(q)'
      BY <1>1, <1>3, <2>1, <2>2 DEF IInv, ReservationOK
    <3>3. AppliedOK(q)'
      <4>1. q \in applied => call[q].key # k
        BY <2>1 DEF IInv, AppliedOK
      <4> QED BY <1>1, <2>2, <4>1 DEF IInv, AppliedOK
    <3>4. AnswerOK(q)'
      BY <1>1, <1>3 DEF IInv, AnswerOK, SameKey
    <3> QED BY <3>1, <3>2, <3>3, <3>4 DEF Part
  <2>5. ASSUME NEW j \in Key PROVE KeyOK(j)'
    BY <1>1, <2>1, <2>2 DEF IInv, KeyOK
  <2> QED BY <1>4, <2>3, <2>4, <2>5 DEF IInv, Part
<1> QED BY <1>6, <1>7

-----------------------------------------------------------------------------
\* The theorems.

\* The inductive invariant holds in every reachable state.
THEOREM IdempotencyInvariant == Spec => []IInv
<1>1. Init => IInv
  BY IdempotencyAssumption
     DEF Init, IInv, TypeOK, RequestOK, ReservationOK, AppliedOK, AnswerOK, KeyOK
<1>2. IInv /\ [Next]_vars => IInv'
  <2> SUFFICES ASSUME IInv, [Next]_vars PROVE IInv'
    OBVIOUS
  <2>1. CASE UNCHANGED vars
    BY <2>1 DEF vars, IInv, TypeOK, RequestOK, ReservationOK, AppliedOK, AnswerOK, KeyOK,
                SameKey
  <2>2. ASSUME NEW r \in Req, Begin(r) \/ Step(r) \/ RecordFails(r) \/ RollBack(r)
        PROVE  IInv'
    BY <2>2, BeginKeepsInv, MoveKeepsInv, ReserveKeepsInv, RecordKeepsInv, AbandonKeepsInv,
       CommitKeepsInv DEF Step
  <2> QED BY <2>1, <2>2 DEF Next
<1> QED BY <1>1, <1>2, PTL DEF Spec

\* Every variable keeps its type.
THEOREM IdempotencyTypes == Spec => []TypeOK
<1>1. IInv => TypeOK
  BY DEF IInv
<1> QED BY <1>1, IdempotencyInvariant, PTL

\* Requests and retries with one key take effect at most once in the scope that
\* owns the key, for any number of concurrent requests, rollbacks, failed
\* UPDATEs and lost responses.
THEOREM AtMostOnce == Spec => []AppliedOnce
<1>1. IInv => AppliedOnce
  <2> SUFFICES ASSUME IInv, NEW r \in applied, NEW q \in applied, SameKey(r, q),
                      keys[call[r].key].scope = call[r].scope
               PROVE  r = q
    BY DEF AppliedOnce
  <2>1. r \in Req /\ q \in Req /\ call[r].key \in Key /\ call[q].key = call[r].key
        /\ call[q].scope = call[r].scope
    BY DEF IInv, TypeOK, SameKey
  <2> QED BY <2>1 DEF IInv, AppliedOK
<1> QED BY <1>1, IdempotencyInvariant, PTL

\* As long as every key is used in one scope only, that is every key.
THEOREM AtMostOncePerTenant == KeysOfOneScope => (Spec => []KeyIsPerTenant)
<1>1. CASE KeysOfOneScope
  <2>1. IInv => KeyIsPerTenant
    <3> SUFFICES ASSUME IInv, NEW r \in applied, NEW q \in applied, SameKey(r, q)
                 PROVE  r = q
      BY DEF KeyIsPerTenant
    <3>1. r \in Req /\ q \in Req /\ call[r].key \in Key /\ call[q].key = call[r].key
          /\ call[q].scope = call[r].scope
      BY DEF IInv, TypeOK, SameKey
    <3>2. keys[call[r].key] # None
      BY <3>1 DEF IInv, AppliedOK
    <3>3. PICK o \in applied :
            /\ o = keys[call[r].key].response
            /\ call[o].key = call[r].key /\ call[o].scope = keys[call[r].key].scope
      BY <3>1, <3>2 DEF IInv, KeyOK
    <3>4. call[o] \in Calls /\ call[r] \in Calls
      BY <3>1 DEF IInv, TypeOK, RequestOK
    <3>5. keys[call[r].key].scope = call[r].scope
      BY <1>1, <3>1, <3>3, <3>4 DEF KeysOfOneScope
    <3> QED BY <3>1, <3>5 DEF IInv, AppliedOK
  <2> QED BY <2>1, IdempotencyInvariant, PTL
<1> QED BY <1>1

\* A replay never crosses scopes, keys or bodies.
THEOREM ReplaysStayOwn == Spec => []ReplayIsOwn
<1>1. IInv => ReplayIsOwn
  BY DEF IInv, AnswerOK, ReplayIsOwn
<1> QED BY <1>1, IdempotencyInvariant, PTL

\* A success the client saw is committed, except after its own failed UPDATE.
THEOREM NoFalseSuccess == Spec => []AnswersAreTrue
<1>1. IInv => AnswersAreTrue
  BY DEF IInv, AnswerOK, AnswersAreTrue
<1> QED BY <1>1, IdempotencyInvariant, PTL

\* The in_flight answer is unreachable: a committed key has its response.
THEOREM ReservationsComplete == Spec => []ReservationIsComplete
<1>1. IInv => ReservationIsComplete
  BY DEF IInv, KeyOK, ReservationIsComplete
<1> QED BY <1>1, IdempotencyInvariant, PTL
=============================================================================
