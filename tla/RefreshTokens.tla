---------------------------- MODULE RefreshTokens ----------------------------
(***************************************************************************)
(* Refresh token rotation of AuthService: login, refresh with its grace    *)
(* window and reuse detection, logout and revokeSession.                   *)
(*                                                                         *)
(* refresh runs its statements in a Read Committed transaction.  A family  *)
(* is revoked by one updateMany outside of it: the statement picks its     *)
(* rows, waits for row locks and then writes.                              *)
(***************************************************************************)
EXTENDS RequestSlots, Integers

CONSTANTS
  Caller,    \* concurrent requests on sessions
  Token,     \* refresh token ids; bounds the number of tokens issued
  Sliding,   \* REFRESH_SLIDING_DAYS
  Absolute,  \* REFRESH_ABSOLUTE_DAYS
  Grace,     \* REFRESH_REUSE_GRACE_MS
  MaxNow     \* bound on the clock

\* A family is known by the token issued at login.
Row == [family: Token, parent: Token \cup {None}, expires: Nat, absolute: Nat,
        revoked: BOOLEAN, replacedAt: Nat \cup {None}]

ASSUME RefreshAssumption ==
  /\ Sliding \in Nat /\ Absolute \in Nat /\ Grace \in Nat /\ MaxNow \in Nat
  /\ None \notin Row /\ None \notin Token /\ None \notin Nat

VARIABLES
  now,
  tok,        \* committed RefreshToken rows
  isActive,   \* User.isActive
  used,       \* token ids generated so far
  pc,
  token,      \* the token the request presents
  seen,       \* the row findUnique returned
  new,        \* the id of the child it mints
  child,      \* its uncommitted child row
  replacedAt, \* its uncommitted UPDATE of the parent, None before it
  targets,    \* the rows its updateMany has picked
  ended       \* families revoked while no refresh of them was in flight

request == <<token, seen, new, child, replacedAt, targets>>
vars    == <<now, tok, isActive, used, pc, request, ended>>

Issued == {t \in Token : tok[t] # None}
Active(t) == tok[t] # None /\ ~tok[t].revoked
Fresh == CHOOSE t \in Token : t \notin used

-----------------------------------------------------------------------------
\* login and register: issueNewSession.
Login ==
  /\ isActive
  /\ Token \ used # {}
  /\ used' = used \cup {Fresh}
  /\ tok' = [tok EXCEPT ![Fresh] =
       [family |-> Fresh, parent |-> None, expires |-> now + Sliding,
        absolute |-> now + Absolute, revoked |-> FALSE, replacedAt |-> None]]
  /\ UNCHANGED <<now, isActive, pc, request, ended>>

\* A request with a token that was issued, for refresh or for logout (and
\* revokeSession, which is told the family).
Begin(r) ==
  /\ pc[r] = "idle"
  /\ \E t \in Issued : token' = [token EXCEPT ![r] = t]
  /\ \E s \in {"find", "revoke"} : pc' = [pc EXCEPT ![r] = s]
  /\ UNCHANGED <<now, tok, isActive, used, seen, new, child, replacedAt, targets, ended>>

Goto(r, s) == pc' = [pc EXCEPT ![r] = s]

\* The response is sent, or the transaction is rolled back.
End(r) ==
  /\ Goto(r, "idle")
  /\ token' = [token EXCEPT ![r] = None]
  /\ seen' = [seen EXCEPT ![r] = None]
  /\ new' = [new EXCEPT ![r] = None]
  /\ child' = [child EXCEPT ![r] = None]
  /\ replacedAt' = [replacedAt EXCEPT ![r] = None]
  /\ targets' = [targets EXCEPT ![r] = {}]

-----------------------------------------------------------------------------
\* refresh, phase 1.

Expired(row) == row.absolute < now \/ row.expires < now

\* Mutated form of Diagnose: revokedAt is not looked at.
DiagnoseLate(row) == IF Expired(row) THEN "refused" ELSE "user"

Diagnose(row) ==
  IF row.revoked THEN "child" ELSE IF Expired(row) THEN "refused" ELSE "user"

Find(r) ==
  /\ pc[r] = "find"
  /\ Diagnose(tok[token[r]]) # "refused"
  /\ seen' = [seen EXCEPT ![r] = tok[token[r]]]
  /\ Goto(r, Diagnose(tok[token[r]]))
  /\ UNCHANGED <<now, tok, isActive, used, token, new, child, replacedAt, targets, ended>>

FindRefused(r) ==
  /\ pc[r] = "find"
  /\ Diagnose(tok[token[r]]) = "refused"
  /\ End(r)
  /\ UNCHANGED <<now, tok, isActive, used, ended>>

\* A token is revoked: is this the loser of a concurrent rotation?
WithinGrace(r) ==
  /\ \E t \in Token : Active(t) /\ tok[t].parent = token[r]
  /\ now - (IF seen[r].replacedAt = None THEN 0 ELSE seen[r].replacedAt) < Grace

InProgress(r) ==
  /\ pc[r] = "child" /\ WithinGrace(r)
  /\ End(r)
  /\ UNCHANGED <<now, tok, isActive, used, ended>>

ReuseDetected(r) ==
  /\ pc[r] = "child" /\ ~WithinGrace(r)
  /\ Goto(r, "revoke")
  /\ UNCHANGED <<now, tok, isActive, used, request, ended>>

UserInactive(r) ==
  /\ pc[r] = "user" /\ ~isActive
  /\ End(r)
  /\ UNCHANGED <<now, tok, isActive, used, ended>>

\* Mutated form of ChildRow: every rotation renews the absolute lifetime.
ChildRenewed(r) ==
  [family |-> seen[r].family, parent |-> token[r], expires |-> now + Sliding,
   absolute |-> now + Absolute, revoked |-> FALSE, replacedAt |-> None]

ChildRow(r) ==
  [family |-> seen[r].family, parent |-> token[r], expires |-> now + Sliding,
   absolute |-> seen[r].absolute, revoked |-> FALSE, replacedAt |-> None]

CheckUser(r) ==
  /\ pc[r] = "user" /\ isActive
  /\ Token \ used # {}
  /\ used' = used \cup {Fresh}
  /\ new' = [new EXCEPT ![r] = Fresh]
  /\ Goto(r, "mint")
  /\ UNCHANGED <<now, tok, isActive, token, seen, child, replacedAt, targets, ended>>

Mint(r) ==
  /\ pc[r] = "mint"
  /\ child' = [child EXCEPT ![r] = ChildRow(r)]
  /\ Goto(r, "replace")
  /\ UNCHANGED <<now, tok, isActive, used, token, seen, new, replacedAt, targets, ended>>

\* Another open transaction has updated row t.
LockedByOther(r, t) ==
  \E q \in Caller \ {r} : replacedAt[q] # None /\ token[q] = t

\* UPDATE of the parent by id, with no condition on revokedAt.
Replace(r) ==
  /\ pc[r] = "replace"
  /\ ~LockedByOther(r, token[r])
  /\ replacedAt' = [replacedAt EXCEPT ![r] = now]
  /\ Goto(r, "commit")
  /\ UNCHANGED <<now, tok, isActive, used, token, seen, new, child, targets, ended>>

\* Mutated form of Rotated: the parent is not revoked.
RotatedChildOnly(r) == [tok EXCEPT ![new[r]] = child[r]]

\* Parent and child as COMMIT leaves them.
Rotated(r) ==
  [tok EXCEPT ![new[r]] = child[r],
              ![token[r]] = [@ EXCEPT !.revoked = TRUE, !.replacedAt = replacedAt[r]]]

Commit(r) ==
  /\ pc[r] = "commit"
  /\ tok' = Rotated(r)
  /\ End(r)
  /\ UNCHANGED <<now, isActive, used, ended>>

-----------------------------------------------------------------------------
\* refresh, phase 2, logout and revokeSession: updateMany on the family.

\* The rows the statement picks.
FamilyRows(f) == {t \in Token : Active(t) /\ tok[t].family = f}

RevokePick(r) ==
  /\ pc[r] = "revoke"
  /\ targets' = [targets EXCEPT ![r] = FamilyRows(tok[token[r]].family)]
  /\ Goto(r, "write")
  /\ UNCHANGED <<now, tok, isActive, used, token, seen, new, child, replacedAt, ended>>

\* A refresh has found a token of the family unrevoked and not yet committed,
\* or has committed since the statement picked its rows.
RefreshInFlight(r, f) ==
  \/ \E q \in Caller : pc[q] \in {"user", "mint", "replace", "commit"} /\ seen[q].family = f
  \/ ~(FamilyRows(f) \subseteq targets[r])

RevokeWrite(r) ==
  /\ pc[r] = "write"
  /\ \A t \in targets[r] : ~LockedByOther(r, t)
  /\ tok' = [t \in Token |->
       IF t \in targets[r] THEN [tok[t] EXCEPT !.revoked = TRUE] ELSE tok[t]]
  /\ LET f == tok[token[r]].family IN
       ended' = ended \cup (IF RefreshInFlight(r, f) THEN {} ELSE {f})
  /\ End(r)
  /\ UNCHANGED <<now, isActive, used>>

-----------------------------------------------------------------------------
\* The transaction or the process is lost before COMMIT.
Lost(r) ==
  /\ pc[r] # "idle"
  /\ End(r)
  /\ UNCHANGED <<now, tok, isActive, used, ended>>

\* StaffService.remove deactivates the linked user.
Deactivate ==
  /\ isActive /\ isActive' = FALSE
  /\ UNCHANGED <<now, tok, used, pc, request, ended>>

Tick ==
  /\ now < MaxNow /\ now' = now + 1
  /\ UNCHANGED <<tok, isActive, used, pc, request, ended>>

Init ==
  /\ now = 0
  /\ tok = [t \in Token |-> None]
  /\ isActive = TRUE
  /\ used = {}
  /\ pc = [r \in Caller |-> "idle"]
  /\ token = [r \in Caller |-> None]
  /\ seen = [r \in Caller |-> None]
  /\ new = [r \in Caller |-> None]
  /\ child = [r \in Caller |-> None]
  /\ replacedAt = [r \in Caller |-> None]
  /\ targets = [r \in Caller |-> {}]
  /\ ended = {}

Refresh(r) ==
  \/ Find(r) \/ FindRefused(r) \/ InProgress(r) \/ ReuseDetected(r)
  \/ UserInactive(r) \/ CheckUser(r) \/ Mint(r) \/ Replace(r) \/ Commit(r)

Next ==
  \/ Login \/ Deactivate \/ Tick
  \/ \E r \in Caller : Begin(r) \/ Refresh(r) \/ RevokePick(r) \/ RevokeWrite(r) \/ Lost(r)

Spec == Init /\ [][Next]_vars

-----------------------------------------------------------------------------
\* Properties.

\* Type correctness of every variable.
TypeOK ==
  /\ now \in Nat
  /\ tok \in [Token -> Row \cup {None}]
  /\ isActive \in BOOLEAN
  /\ used \subseteq Token
  /\ pc \in [Caller -> {"idle", "find", "child", "user", "mint", "replace", "commit",
                     "revoke", "write"}]
  /\ token \in [Caller -> Token \cup {None}]
  /\ seen \in [Caller -> Row \cup {None}]
  /\ new \in [Caller -> Token \cup {None}]
  /\ child \in [Caller -> Row \cup {None}]
  /\ replacedAt \in [Caller -> Nat \cup {None}]
  /\ targets \in [Caller -> SUBSET Token]
  /\ ended \subseteq Token

\* Rotation is atomic: a token with a committed child is itself revoked and
\* marked replaced, also when its family was revoked or the user deactivated
\* in the meantime.
ReplacedWithChild ==
  \A t \in Issued :
    tok[t].parent # None =>
      tok[tok[t].parent].revoked /\ tok[tok[t].parent].replacedAt # None

\* Rotation never prolongs a session: all tokens of a family share the
\* absolute lifetime fixed at login.
SharedDeadline ==
  \A t \in Issued : tok[tok[t].family].absolute = tok[t].absolute

\* Two refresh requests racing on the same parent: the loser does not rotate,
\* so a family has at most one token that can be refreshed.
OneActiveToken ==
  \A t, u \in Token :
    Active(t) /\ Active(u) /\ tok[t].family = tok[u].family => t = u

\* Reuse detection, logout and revokeSession end the session: once a family
\* was revoked while no refresh of it was in flight, none of its tokens is ever
\* live again, whatever is presented later.
EndedStaysEnded == \A t \in Token : Active(t) => tok[t].family \notin ended

-----------------------------------------------------------------------------
\* The inductive invariant behind ReplacedWithChild, SharedDeadline and
\* EndedStaysEnded.

\* The statements at which a refresh has found its token unrevoked.
InFlight == {"user", "mint", "replace", "commit"}

\* What a request relies on at each statement: its token was issued, the row it
\* read agrees with the committed one in what never changes, the child it is
\* about to insert belongs to the same family and keeps its deadline, and a
\* family whose refresh is in flight has not ended.
CallerOK(r) ==
  /\ pc[r] # "idle" => token[r] \in Issued
  /\ pc[r] \in InFlight \cup {"child"} =>
       /\ seen[r] # None
       /\ seen[r].family = tok[token[r]].family
       /\ seen[r].absolute = tok[token[r]].absolute
  /\ pc[r] \in {"mint", "replace", "commit"} => new[r] # None
  /\ pc[r] \in {"replace", "commit"} =>
       /\ child[r] # None
       /\ child[r].family = seen[r].family
       /\ child[r].absolute = seen[r].absolute
       /\ child[r].parent = token[r]
  /\ pc[r] = "commit" => replacedAt[r] # None
  /\ pc[r] \in InFlight => seen[r].family \notin ended
  /\ targets[r] \subseteq Issued

CallersOK == \A r \in Caller : CallerOK(r)

\* An id drawn for a child is no row's and no other request's.
MintedOK ==
  \A r \in Caller : new[r] # None =>
    /\ new[r] \in used \ Issued
    /\ \A q \in Caller \ {r} : new[q] # new[r]

\* Families and parents are tokens that were issued.
FamiliesOK ==
  /\ Issued \subseteq used
  /\ ended \subseteq Issued
  /\ \A t \in Issued : tok[t].family \in Issued /\ tok[t].parent \in Issued \cup {None}

TokenInv ==
  /\ TypeOK /\ CallersOK /\ MintedOK /\ FamiliesOK
  /\ ReplacedWithChild /\ SharedDeadline /\ EndedStaysEnded
=============================================================================
