-------------------------------- MODULE MCAuth --------------------------------
(***************************************************************************)
(* Authentication: API keys with the guard and the tenant session (two     *)
(* tenants, a live, a test and an expiring key, two connections), and the  *)
(* refresh tokens of user sessions.  They share no row and are explored    *)
(* side by side, one resting in its initial state while the other runs.    *)
(***************************************************************************)
EXTENDS Access, RefreshTokens, TLC

CONSTANTS k1, k2, k3, k4, k5, b1, b2

Key(t, env, exp, id) == [tenant |-> t, env |-> env, revoked |-> FALSE,
                         expires |-> exp, granted |-> exp, root |-> id]
MCFirstKeys == [k \in KeyId |-> CASE k = k1 -> Key(b1, "live", None, k1)
                                  [] k = k2 -> Key(b2, "test", None, k2)
                                  [] k = k3 -> Key(b1, "live", 2, k3)
                                  [] OTHER  -> None]
MCFirstData == {[tenant |-> t, isTest |-> x, id |-> None] : t \in Tenant, x \in BOOLEAN}

Jwt(t, role) == [kind |-> "jwt", tenant |-> t, role |-> role]
ByKey(k) == [kind |-> "key", id |-> k]
Call(cred, op, arg) == [cred |-> cred, op |-> op, arg |-> arg]
Body(mode, exp) == [mode |-> mode, expires |-> exp]
MCCalls ==
  {Call(ByKey(k1), "search", None), Call(ByKey(k2), "list", None),
   Call(ByKey(k2), "search", None), Call(ByKey(k2), "create", None),
   Call(ByKey(k3), "createKey", Body("live", None)),
   Call(Jwt(b1, "OWNER"), "createKey", Body("test", 2)),
   Call(Jwt(b1, "OWNER"), "revoke", k1), Call(Jwt(b1, "OWNER"), "rotate", k1),
   Call(Jwt(b1, "OWNER"), "rotate", k3), Call(Jwt(b2, "OWNER"), "rotate", k1)}

MCInit == AccInit /\ Init
MCNext ==
  \/ Init /\ AccNext /\ UNCHANGED vars
  \/ AccInit /\ Next /\ UNCHANGED accVars
MCSpec == MCInit /\ [][MCNext]_<<accVars, vars>>

Symmetry == Permutations(Req) \cup Permutations(Caller)
=============================================================================
