------------------------- MODULE RefreshTokensProofs -------------------------
(***************************************************************************)
(* Safety of session families, for any number of concurrent refreshes,     *)
(* logouts and revocations, any lifetimes and any grace window.            *)
(***************************************************************************)
EXTENDS RefreshTokens, TLAPS

-----------------------------------------------------------------------------
\* Lemmas about tokens.

\* The id of a new token was never used before.
LEMMA FreshToken ==
  ASSUME Token \ used # {}
  PROVE  Fresh \in Token \ used
BY Zenon DEF Fresh

\* An issued token has a row.
LEMMA IssuedRow ==
  ASSUME TypeOK
  PROVE  Issued \subseteq Token /\ \A t \in Issued : tok[t] \in Row
BY DEF TypeOK, Issued

\* The token a request presents, and the row it read.
LEMMA RequestRows ==
  ASSUME TypeOK, CallersOK, NEW r \in Caller, pc[r] # "idle"
  PROVE  /\ token[r] \in Issued
         /\ tok[token[r]] \in Row
         /\ pc[r] \in InFlight \cup {"child"} => seen[r] \in Row
BY IssuedRow DEF TypeOK, CallersOK, CallerOK

\* The child of a rotation is a row of the parent's family with its deadline.
LEMMA ChildRowType ==
  ASSUME TypeOK, CallersOK, NEW r \in Caller, pc[r] = "mint"
  PROVE  /\ ChildRow(r) \in Row
         /\ ChildRow(r) # None
         /\ ChildRow(r).family = seen[r].family
         /\ ChildRow(r).absolute = seen[r].absolute
         /\ ChildRow(r).parent = token[r]
<1>1. seen[r] \in Row /\ token[r] \in Token
  BY RequestRows, IssuedRow DEF InFlight
<1>2. now + Sliding \in Nat
  BY RefreshAssumption DEF TypeOK
<1>3. ChildRow(r) \in Row
  BY <1>1, <1>2 DEF ChildRow, Row
<1> QED BY <1>3, RefreshAssumption DEF ChildRow

-----------------------------------------------------------------------------
\* How the token table evolves.

\* Tokens are never deleted, never move to another family or deadline, are
\* never unrevoked, and a token that was replaced stays so.
TableGrows ==
  \A t \in Issued :
    /\ tok'[t] # None
    /\ tok'[t].family = tok[t].family
    /\ tok'[t].absolute = tok[t].absolute
    /\ tok'[t].parent = tok[t].parent
    /\ tok[t].revoked => tok'[t].revoked
    /\ tok[t].replacedAt # None => tok'[t].replacedAt # None

\* What the table promises about a request survives the steps of others, as
\* long as none of them ends the family the request is refreshing.
LEMMA OthersOK ==
  ASSUME TypeOK, CallersOK, TableGrows, NEW q \in Caller,
         pc'[q] = pc[q], token'[q] = token[q], seen'[q] = seen[q], new'[q] = new[q],
         child'[q] = child[q], replacedAt'[q] = replacedAt[q], targets'[q] = targets[q],
         pc[q] \in InFlight => seen[q].family \notin ended' \ ended
  PROVE  CallerOK(q)'
<1>1. CallerOK(q) /\ Issued \subseteq Issued'
  BY DEF CallersOK, TableGrows, Issued
<1>2. token[q] \in Issued => /\ tok'[token[q]].family = tok[token[q]].family
                             /\ tok'[token[q]].absolute = tok[token[q]].absolute
  BY DEF TableGrows
<1> QED BY <1>1, <1>2 DEF CallerOK, InFlight

\* A request that ends relies on nothing.
LEMMA EndOK ==
  ASSUME TypeOK, NEW r \in Caller, End(r)
  PROVE  CallerOK(r)'
BY DEF TypeOK, End, Goto, CallerOK, InFlight

\* A request that ends leaves well-typed local state.
LEMMA EndType ==
  ASSUME TypeOK, NEW r \in Caller, End(r)
  PROVE  /\ pc' \in [Caller -> {"idle", "find", "child", "user", "mint", "replace", "commit",
                                "revoke", "write"}]
         /\ token' \in [Caller -> Token \cup {None}]
         /\ seen' \in [Caller -> Row \cup {None}]
         /\ new' \in [Caller -> Token \cup {None}]
         /\ child' \in [Caller -> Row \cup {None}]
         /\ replacedAt' \in [Caller -> Nat \cup {None}]
         /\ targets' \in [Caller -> SUBSET Token]
         /\ \A q \in Caller \ {r} :
              /\ pc'[q] = pc[q] /\ token'[q] = token[q] /\ seen'[q] = seen[q]
              /\ new'[q] = new[q] /\ child'[q] = child[q]
              /\ replacedAt'[q] = replacedAt[q] /\ targets'[q] = targets[q]
         /\ new'[r] = None
BY DEF TypeOK, End, Goto

\* A step that leaves the table and the families alone, and moves one request.
LEMMA RequestStep ==
  ASSUME TokenInv, NEW r \in Caller, UNCHANGED <<tok, used, ended>>,
         TypeOK', CallerOK(r)',
         new'[r] \in {new[r], None},
         \A q \in Caller \ {r} :
           /\ pc'[q] = pc[q] /\ token'[q] = token[q] /\ seen'[q] = seen[q]
           /\ new'[q] = new[q] /\ child'[q] = child[q]
           /\ replacedAt'[q] = replacedAt[q] /\ targets'[q] = targets[q]
  PROVE  TokenInv'
<1> USE DEF TokenInv
<1>1. TableGrows
  BY DEF TableGrows, Issued
<1>2. CallersOK'
  BY <1>1, OthersOK DEF CallersOK
<1>3. MintedOK'
  BY DEF MintedOK, Issued
<1>4. FamiliesOK' /\ ReplacedWithChild' /\ SharedDeadline' /\ EndedStaysEnded'
  BY DEF FamiliesOK, ReplacedWithChild, SharedDeadline, EndedStaysEnded, Issued, Active
<1> QED BY <1>2, <1>3, <1>4

-----------------------------------------------------------------------------
\* One lemma per step.

\* login: a family of its own, with its own deadline.
LEMMA LoginKeepsInv ==
  ASSUME TokenInv, Login
  PROVE  TokenInv'
<1> USE DEF TokenInv
<1> DEFINE row == [family |-> Fresh, parent |-> None, expires |-> now + Sliding,
                   absolute |-> now + Absolute, revoked |-> FALSE, replacedAt |-> None]
<1>1. /\ Fresh \in Token \ used /\ tok[Fresh] = None
      /\ tok' = [tok EXCEPT ![Fresh] = row] /\ used' = used \cup {Fresh}
      /\ UNCHANGED <<now, isActive, pc, token, seen, new, child, replacedAt, targets, ended>>
  BY FreshToken DEF Login, request, FamiliesOK, Issued
<1>2. now + Sliding \in Nat /\ now + Absolute \in Nat
  BY RefreshAssumption DEF TypeOK
<1>3. row \in Row /\ row # None /\ row.family = Fresh /\ row.absolute = now + Absolute
      /\ row.parent = None
  <2>1. Fresh \in Token
    BY <1>1
  <2>2. row \in Row
    BY <1>2, <2>1 DEF Row
  <2> QED BY <2>2, RefreshAssumption
<1> HIDE DEF row
<1>4. /\ tok'[Fresh] = row /\ \A t \in Token \ {Fresh} : tok'[t] = tok[t]
      /\ Issued' = Issued \cup {Fresh} /\ Fresh \notin Issued
  BY <1>1, <1>3 DEF TypeOK, Issued
<1>5. TypeOK'
  BY <1>1, <1>3 DEF TypeOK
<1>6. TableGrows
  BY <1>4 DEF TableGrows, Issued
<1>7. CallersOK'
  BY <1>1, <1>6, OthersOK DEF CallersOK
<1>8. MintedOK'
  BY <1>1, <1>4 DEF MintedOK
<1>9. FamiliesOK'
  BY <1>1, <1>3, <1>4 DEF FamiliesOK, Issued
<1>10. SharedDeadline' /\ ReplacedWithChild'
  <2>1. ASSUME NEW t \in Issued
        PROVE  /\ tok'[t] = tok[t]
               /\ tok'[tok[t].family] = tok[tok[t].family]
               /\ tok[t].parent # None => tok[t].parent \in Token \ {Fresh}
    <3>1. tok[t].family \in Issued /\ (tok[t].parent # None => tok[t].parent \in Issued)
      BY DEF FamiliesOK
    <3> QED BY <1>4, <3>1 DEF Issued
  <2> QED BY <1>3, <1>4, <2>1 DEF SharedDeadline, ReplacedWithChild
<1>11. EndedStaysEnded'
  BY <1>1, <1>3, <1>4 DEF EndedStaysEnded, Active, FamiliesOK, Issued
<1> QED BY <1>5, <1>7, <1>8, <1>9, <1>10, <1>11

\* The request arrives with a token that was issued.
LEMMA BeginKeepsInv ==
  ASSUME TokenInv, NEW r \in Caller, Begin(r)
  PROVE  TokenInv'
<1> USE DEF TokenInv
<1>1. PICK t \in Issued, s \in {"find", "revoke"} :
        /\ token' = [token EXCEPT ![r] = t] /\ pc' = [pc EXCEPT ![r] = s]
        /\ UNCHANGED <<now, tok, isActive, used, seen, new, child, replacedAt, targets, ended>>
  BY DEF Begin
<1>2. t \in Token
  BY IssuedRow
<1>3. TypeOK'
  BY <1>1, <1>2 DEF TypeOK
<1>4. CallerOK(r)'
  BY <1>1 DEF CallerOK, CallersOK, InFlight, TypeOK, Issued
<1> QED BY <1>1, <1>3, <1>4, RequestStep DEF TypeOK

\* A request that is answered or lost without a write.
LEMMA EndKeepsInv ==
  ASSUME TokenInv, NEW r \in Caller, End(r), UNCHANGED <<now, tok, isActive, used, ended>>
  PROVE  TokenInv'
<1>1. TypeOK'
  BY EndType DEF TokenInv, TypeOK
<1> QED BY <1>1, EndType, EndOK, RequestStep DEF TokenInv

\* findUnique: only an unrevoked token goes on to rotate, and its family has
\* not ended.
LEMMA FindKeepsInv ==
  ASSUME TokenInv, NEW r \in Caller, Find(r)
  PROVE  TokenInv'
<1> USE DEF TokenInv
<1> DEFINE row == tok[token[r]]
<1>1. /\ pc[r] = "find" /\ Diagnose(row) # "refused"
      /\ seen' = [seen EXCEPT ![r] = row] /\ pc' = [pc EXCEPT ![r] = Diagnose(row)]
      /\ UNCHANGED <<now, tok, isActive, used, token, new, child, replacedAt, targets, ended>>
  BY DEF Find, Goto
<1>2. token[r] \in Issued /\ row \in Row /\ row # None
  BY <1>1, RequestRows, RefreshAssumption
<1>3. Diagnose(row) \in {"child", "user"}
  BY <1>1 DEF Diagnose
<1>4. Diagnose(row) = "user" => row.family \notin ended
  BY <1>2, IssuedRow DEF Diagnose, EndedStaysEnded, Active
<1> HIDE DEF row
<1>5. TypeOK'
  BY <1>1, <1>2, <1>3 DEF TypeOK
<1>6. CallerOK(r)'
  <2>1. pc'[r] = Diagnose(row) /\ seen'[r] = row
    BY <1>1 DEF TypeOK
  <2>2. tok'[token'[r]] = row /\ Issued' = Issued /\ token'[r] \in Issued
    BY <1>1, <1>2 DEF row, Issued
  <2> QED BY <1>1, <1>2, <1>3, <1>4, <2>1, <2>2 DEF CallerOK, CallersOK, InFlight
<1> QED BY <1>1, <1>5, <1>6, RequestStep DEF TypeOK

\* Reuse is detected: the request goes on to revoke the family.
LEMMA ReuseKeepsInv ==
  ASSUME TokenInv, NEW r \in Caller, ReuseDetected(r)
  PROVE  TokenInv'
<1> USE DEF TokenInv
<1>1. /\ pc[r] = "child" /\ pc' = [pc EXCEPT ![r] = "revoke"]
      /\ UNCHANGED <<now, tok, isActive, used, token, seen, new, child, replacedAt, targets, ended>>
  BY DEF ReuseDetected, Goto, request
<1>2. TypeOK'
  BY <1>1 DEF TypeOK
<1>3. CallerOK(r)'
  BY <1>1 DEF CallerOK, CallersOK, InFlight, TypeOK, Issued
<1> QED BY <1>1, <1>2, <1>3, RequestStep DEF TypeOK

\* The user is active: an id is drawn for the child.
LEMMA CheckUserKeepsInv ==
  ASSUME TokenInv, NEW r \in Caller, CheckUser(r)
  PROVE  TokenInv'
<1> USE DEF TokenInv
<1>1. /\ Fresh \in Token \ used /\ Fresh \notin Issued
      /\ pc[r] = "user" /\ pc' = [pc EXCEPT ![r] = "mint"]
      /\ new' = [new EXCEPT ![r] = Fresh] /\ used' = used \cup {Fresh}
      /\ UNCHANGED <<now, tok, isActive, token, seen, child, replacedAt, targets, ended>>
  BY FreshToken DEF CheckUser, Goto, FamiliesOK
<1>2. TypeOK'
  BY <1>1 DEF TypeOK
<1>3. TableGrows
  BY <1>1 DEF TableGrows, Issued
<1>4. CallersOK'
  <2>1. CallerOK(r)'
    <3>1. new'[r] # None
      BY <1>1, RefreshAssumption DEF TypeOK
    <3> QED BY <1>1, <3>1 DEF CallerOK, CallersOK, InFlight, TypeOK, Issued
  <2>2. ASSUME NEW q \in Caller \ {r} PROVE CallerOK(q)'
    BY <1>1, <1>3, OthersOK DEF TypeOK
  <2> QED BY <2>1, <2>2 DEF CallersOK
<1>5. MintedOK'
  BY <1>1 DEF MintedOK, TypeOK, Issued
<1>6. FamiliesOK' /\ ReplacedWithChild' /\ SharedDeadline' /\ EndedStaysEnded'
  BY <1>1 DEF FamiliesOK, ReplacedWithChild, SharedDeadline, EndedStaysEnded, Issued, Active
<1> QED BY <1>2, <1>4, <1>5, <1>6

\* INSERT of the child.
LEMMA MintKeepsInv ==
  ASSUME TokenInv, NEW r \in Caller, Mint(r)
  PROVE  TokenInv'
<1> USE DEF TokenInv
<1>1. /\ pc[r] = "mint" /\ pc' = [pc EXCEPT ![r] = "replace"]
      /\ child' = [child EXCEPT ![r] = ChildRow(r)]
      /\ UNCHANGED <<now, tok, isActive, used, token, seen, new, replacedAt, targets, ended>>
  BY DEF Mint, Goto
<1>2. TypeOK'
  BY <1>1, ChildRowType DEF TypeOK
<1>3. CallerOK(r)'
  <2>1. child'[r] = ChildRow(r) /\ pc'[r] = "replace"
    BY <1>1 DEF TypeOK
  <2> QED BY <1>1, <2>1, ChildRowType DEF CallerOK, CallersOK, InFlight, Issued
<1> QED BY <1>1, <1>2, <1>3, RequestStep DEF TypeOK

\* UPDATE of the parent.
LEMMA ReplaceKeepsInv ==
  ASSUME TokenInv, NEW r \in Caller, Replace(r)
  PROVE  TokenInv'
<1> USE DEF TokenInv
<1>1. /\ pc[r] = "replace" /\ pc' = [pc EXCEPT ![r] = "commit"]
      /\ replacedAt' = [replacedAt EXCEPT ![r] = now]
      /\ UNCHANGED <<now, tok, isActive, used, token, seen, new, child, targets, ended>>
  BY DEF Replace, Goto
<1>2. TypeOK'
  BY <1>1 DEF TypeOK
<1>3. CallerOK(r)'
  <2>1. replacedAt'[r] # None
    BY <1>1, RefreshAssumption DEF TypeOK
  <2> QED BY <1>1, <2>1 DEF CallerOK, CallersOK, InFlight, TypeOK, Issued
<1> QED BY <1>1, <1>2, <1>3, RequestStep DEF TypeOK

\* COMMIT of a rotation: the child appears and the parent is revoked in one
\* step.
LEMMA CommitKeepsInv ==
  ASSUME TokenInv, NEW r \in Caller, Commit(r)
  PROVE  TokenInv'
<1> USE DEF TokenInv
<1> DEFINE n == new[r]
           p == token[r]
           parent == [tok[p] EXCEPT !.revoked = TRUE, !.replacedAt = replacedAt[r]]
<1>1. /\ pc[r] = "commit" /\ End(r) /\ UNCHANGED <<now, isActive, used, ended>>
      /\ tok' = Rotated(r)
  BY DEF Commit
<1>2. /\ n \in (Token \cap used) \ Issued /\ p \in Issued /\ p \in Token /\ n # p
      /\ tok[p] \in Row /\ child[r] \in Row /\ replacedAt[r] \in Nat
      /\ child[r].family = tok[p].family /\ child[r].absolute = tok[p].absolute
      /\ child[r].parent = p
      /\ child[r].family \notin ended
  <2>1. n # None /\ child[r] # None /\ replacedAt[r] # None
    BY <1>1 DEF CallersOK, CallerOK
  <2>2. n \in (Token \cap used) \ Issued
    BY <2>1 DEF MintedOK, TypeOK
  <2> QED BY <1>1, <2>1, <2>2, RequestRows, IssuedRow
          DEF CallersOK, CallerOK, InFlight, TypeOK
<1>3. /\ tok'[n] = child[r] /\ tok'[p] = parent
      /\ \A t \in Token \ {n, p} : tok'[t] = tok[t]
      /\ tok' \in [Token -> Row \cup {None}]
  <2>1. parent \in Row
    BY <1>2 DEF Row
  <2> QED BY <1>1, <1>2, <2>1 DEF TypeOK, Rotated
<1>4. /\ parent # None /\ parent.family = tok[p].family /\ parent.absolute = tok[p].absolute
      /\ parent.parent = tok[p].parent /\ parent.revoked /\ parent.replacedAt # None
  <2>1. parent \in Row
    BY <1>2 DEF Row
  <2> QED BY <1>2, <2>1, RefreshAssumption DEF Row
<1> HIDE DEF parent, n, p
<1>5. Issued' = Issued \cup {n}
  BY <1>2, <1>3, <1>4, RefreshAssumption DEF Issued
<1>6. TypeOK'
  BY <1>1, <1>3, EndType DEF TypeOK
<1>7. TableGrows
  <2>1. ASSUME NEW t \in Issued, t # p PROVE tok'[t] = tok[t]
    BY <1>2, <1>3, <2>1 DEF Issued
  <2> QED BY <1>3, <1>4, <2>1 DEF TableGrows, Issued
<1>8. CallersOK'
  BY <1>1, <1>7, EndType, EndOK, OthersOK DEF CallersOK
<1>9. MintedOK'
  BY <1>1, <1>5, EndType DEF MintedOK, n
<1>10. FamiliesOK'
  BY <1>1, <1>2, <1>3, <1>5, <1>7 DEF FamiliesOK, TableGrows
<1>11. ReplacedWithChild'
  BY <1>2, <1>3, <1>4, <1>5, <1>7 DEF ReplacedWithChild, FamiliesOK, TableGrows
<1>12. SharedDeadline'
  <2>1. tok[p].family \in Issued /\ tok[tok[p].family].absolute = tok[p].absolute
    BY <1>2 DEF FamiliesOK, SharedDeadline
  <2> QED BY <1>2, <1>3, <1>5, <1>7, <2>1 DEF SharedDeadline, FamiliesOK, TableGrows
<1>13. EndedStaysEnded'
  BY <1>1, <1>2, <1>3, <1>5, <1>7 DEF EndedStaysEnded, Active, TableGrows, Issued
<1> QED BY <1>6, <1>8, <1>9, <1>10, <1>11, <1>12, <1>13

\* updateMany picks the unrevoked rows of the family.
LEMMA RevokePickKeepsInv ==
  ASSUME TokenInv, NEW r \in Caller, RevokePick(r)
  PROVE  TokenInv'
<1> USE DEF TokenInv
<1> DEFINE picked == FamilyRows(tok[token[r]].family)
<1>1. /\ pc[r] = "revoke" /\ pc' = [pc EXCEPT ![r] = "write"]
      /\ targets' = [targets EXCEPT ![r] = picked]
      /\ UNCHANGED <<now, tok, isActive, used, token, seen, new, child, replacedAt, ended>>
  BY DEF RevokePick, Goto
<1>2. picked \subseteq Issued
  BY DEF FamilyRows, Active, Issued
<1> HIDE DEF picked
<1>3. TypeOK'
  BY <1>1, <1>2, IssuedRow DEF TypeOK
<1>4. CallerOK(r)'
  <2>1. targets'[r] = picked /\ pc'[r] = "write"
    BY <1>1 DEF TypeOK
  <2> QED BY <1>1, <1>2, <2>1 DEF CallerOK, CallersOK, InFlight, Issued
<1> QED BY <1>1, <1>3, <1>4, RequestStep DEF TypeOK

\* updateMany writes: no unrevoked token of the family is left when no refresh
\* of it was in flight.
LEMMA RevokeWriteKeepsInv ==
  ASSUME TokenInv, NEW r \in Caller, RevokeWrite(r)
  PROVE  TokenInv'
<1> USE DEF TokenInv
<1> DEFINE f == tok[token[r]].family
<1>1. /\ pc[r] = "write" /\ End(r) /\ UNCHANGED <<now, isActive, used>>
      /\ tok' = [t \in Token |->
           IF t \in targets[r] THEN [tok[t] EXCEPT !.revoked = TRUE] ELSE tok[t]]
      /\ ended' = ended \cup (IF RefreshInFlight(r, f) THEN {} ELSE {f})
  BY DEF RevokeWrite
<1>2. /\ targets[r] \subseteq Issued /\ f \in Issued
  BY <1>1, RequestRows DEF CallersOK, CallerOK, FamiliesOK
<1>3. ASSUME NEW t \in targets[r]
      PROVE  /\ t \in Token /\ tok'[t] \in Row /\ tok'[t] # None
             /\ tok'[t].family = tok[t].family /\ tok'[t].absolute = tok[t].absolute
             /\ tok'[t].parent = tok[t].parent /\ tok'[t].replacedAt = tok[t].replacedAt
             /\ tok'[t].revoked
  <2>1. t \in Token /\ tok[t] \in Row
    BY <1>2, IssuedRow
  <2>2. tok'[t] = [tok[t] EXCEPT !.revoked = TRUE]
    BY <1>1, <2>1
  <2>3. tok'[t] \in Row
    BY <2>1, <2>2 DEF Row
  <2> QED BY <2>1, <2>2, <2>3, RefreshAssumption DEF Row
<1>4. \A t \in Token \ targets[r] : tok'[t] = tok[t]
  BY <1>1
<1>5. Issued' = Issued
  BY <1>2, <1>3, <1>4 DEF Issued
<1>6. TypeOK'
  <2>1. tok' \in [Token -> Row \cup {None}]
    BY <1>1, <1>3, <1>4 DEF TypeOK
  <2>2. ended' \subseteq Token
    BY <1>1, <1>2, IssuedRow DEF TypeOK
  <2> QED BY <1>1, <2>1, <2>2, EndType DEF TypeOK
<1>7. TableGrows
  BY <1>3, <1>4 DEF TableGrows, Issued
<1>8. CallersOK'
  <2>1. ASSUME NEW q \in Caller \ {r}, pc[q] \in InFlight
        PROVE  seen[q].family \notin ended' \ ended
    BY <1>1, <2>1 DEF RefreshInFlight, InFlight
  <2>2. ASSUME NEW q \in Caller \ {r} PROVE CallerOK(q)'
    BY <1>1, <1>7, <2>1, EndType, OthersOK
  <2> QED BY <1>1, <2>2, EndOK DEF CallersOK
<1>9. MintedOK'
  BY <1>1, <1>5, EndType DEF MintedOK
<1>10. FamiliesOK' /\ ReplacedWithChild' /\ SharedDeadline'
  BY <1>1, <1>2, <1>5, <1>7 DEF FamiliesOK, ReplacedWithChild, SharedDeadline, TableGrows
<1>11. EndedStaysEnded'
  <2> SUFFICES ASSUME NEW t \in Token, Active(t)', tok'[t].family \in ended' PROVE FALSE
    BY DEF EndedStaysEnded
  <2>1. t \notin targets[r] /\ tok'[t] = tok[t] /\ Active(t)
    BY <1>3, <1>4 DEF Active
  <2>2. tok[t].family = f /\ FamilyRows(f) \subseteq targets[r]
    BY <1>1, <2>1 DEF EndedStaysEnded, RefreshInFlight
  <2> QED BY <2>1, <2>2 DEF FamilyRows
<1> QED BY <1>6, <1>8, <1>9, <1>10, <1>11

\* The clock, the deactivation of the user and stuttering.
LEMMA EnvironmentKeepsInv ==
  ASSUME TokenInv, Deactivate \/ Tick \/ UNCHANGED vars
  PROVE  TokenInv'
<1> USE DEF TokenInv
<1>1. UNCHANGED <<tok, used, pc, token, seen, new, child, replacedAt, targets, ended>>
  BY DEF Deactivate, Tick, vars, request
<1>2. now' \in Nat /\ isActive' \in BOOLEAN
  <2>1. now \in Nat /\ isActive \in BOOLEAN
    BY DEF TypeOK
  <2>2. now' = now \/ now' = now + 1
    BY DEF Deactivate, Tick, vars
  <2>3. isActive' = isActive \/ isActive' = FALSE
    BY Zenon DEF Deactivate, Tick, vars
  <2>4. now' \in Nat
    BY <2>1, <2>2
  <2>5. isActive' \in BOOLEAN
    BY <2>1, <2>3, Zenon
  <2> QED BY <2>4, <2>5
<1>3. TypeOK'
  BY <1>1, <1>2 DEF TypeOK
<1>4. CallersOK' /\ MintedOK'
  BY <1>1 DEF CallersOK, CallerOK, MintedOK, Issued
<1>5. FamiliesOK' /\ ReplacedWithChild' /\ SharedDeadline' /\ EndedStaysEnded'
  BY <1>1 DEF FamiliesOK, ReplacedWithChild, SharedDeadline, EndedStaysEnded, Issued, Active
<1> QED BY <1>3, <1>4, <1>5

-----------------------------------------------------------------------------
\* The theorems.

\* Every step of login, refresh, logout and revocation, and every loss of one,
\* keeps what open requests rely on.
THEOREM SessionInvariant == Spec => []TokenInv
<1>1. Init => TokenInv
  <2> SUFFICES ASSUME Init PROVE TokenInv
    OBVIOUS
  <2>1. TypeOK /\ Issued = {}
    BY DEF Init, TypeOK, Issued
  <2>2. CallersOK /\ MintedOK
    BY DEF Init, CallersOK, CallerOK, InFlight, MintedOK
  <2>3. FamiliesOK /\ ReplacedWithChild /\ SharedDeadline /\ EndedStaysEnded
    BY <2>1 DEF Init, FamiliesOK, ReplacedWithChild, SharedDeadline, EndedStaysEnded
  <2> QED BY <2>1, <2>2, <2>3 DEF TokenInv
<1>2. TokenInv /\ [Next]_vars => TokenInv'
  <2> SUFFICES ASSUME TokenInv, [Next]_vars PROVE TokenInv'
    OBVIOUS
  <2>1. CASE Login
    BY <2>1, LoginKeepsInv
  <2>2. CASE Deactivate \/ Tick \/ UNCHANGED vars
    BY <2>2, EnvironmentKeepsInv
  <2>3. ASSUME NEW r \in Caller, Begin(r) PROVE TokenInv'
    BY <2>3, BeginKeepsInv
  <2>4. ASSUME NEW r \in Caller, Refresh(r) PROVE TokenInv'
    <3>1. CASE FindRefused(r) \/ InProgress(r) \/ UserInactive(r)
      BY <3>1, EndKeepsInv DEF FindRefused, InProgress, UserInactive
    <3> QED BY <2>4, <3>1, FindKeepsInv, ReuseKeepsInv, CheckUserKeepsInv, MintKeepsInv,
               ReplaceKeepsInv, CommitKeepsInv DEF Refresh
  <2>5. ASSUME NEW r \in Caller, RevokePick(r) \/ RevokeWrite(r) PROVE TokenInv'
    BY <2>5, RevokePickKeepsInv, RevokeWriteKeepsInv
  <2>6. ASSUME NEW r \in Caller, Lost(r) PROVE TokenInv'
    BY <2>6, EndKeepsInv DEF Lost
  <2> QED BY <2>1, <2>2, <2>3, <2>4, <2>5, <2>6 DEF Next
<1> QED BY <1>1, <1>2, PTL DEF Spec

\* Rotation is atomic for any number of racing refreshes: a token that has a
\* committed child is revoked and marked replaced.
THEOREM RotationIsAtomic == Spec => []ReplacedWithChild
<1>1. TokenInv => ReplacedWithChild
  BY DEF TokenInv
<1> QED BY <1>1, SessionInvariant, PTL

\* No sequence of rotations, however long and whatever interleaves with it,
\* moves the absolute deadline fixed at login.
THEOREM DeadlineIsFixed == Spec => []SharedDeadline
<1>1. TokenInv => SharedDeadline
  BY DEF TokenInv
<1> QED BY <1>1, SessionInvariant, PTL

\* A family revoked by logout, revokeSession or reuse detection while no refresh
\* of it was in flight has no live token ever again.
THEOREM RevocationEndsSession == Spec => []EndedStaysEnded
<1>1. TokenInv => EndedStaysEnded
  BY DEF TokenInv
<1> QED BY <1>1, SessionInvariant, PTL
=============================================================================
