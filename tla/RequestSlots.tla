---------------------------- MODULE RequestSlots ----------------------------
(***************************************************************************)
(* What the models of the tenant tables share: the request slots of the    *)
(* API process and the absent value.  TenantTxInterceptor gives every      *)
(* request one Read Committed transaction; in these models a statement is  *)
(* one step, it sees the committed tables and what its own transaction     *)
(* wrote, and a row an open transaction wrote is locked until its end.     *)
(***************************************************************************)
CONSTANTS
  Req,    \* concurrent request slots
  None    \* no row, no value
=============================================================================
