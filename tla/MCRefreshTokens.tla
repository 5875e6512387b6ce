-------------------------- MODULE MCRefreshTokens --------------------------
(* Small instances of RefreshTokens for TLC. *)
EXTENDS RefreshTokens, TLC

CONSTANTS r1, r2, t1, t2, t3, t4

Symmetry == Permutations(Caller)
=============================================================================
