--------------------------- MODULE MCIdempotency ---------------------------
(* Small instances of Idempotency for TLC. *)
EXTENDS Idempotency

CONSTANTS r1, r2, r3, k1, k2, live, test, b1, b2

\* The live and the test partition use k1; k2 is a session user's, and some
\* requests come without a usable key.
MCCalls ==
  [scope: {live, test}, key: {k1}, body: {b1, b2}, auth: {"apikey"}]
    \cup [scope: {live}, key: {k2, BadKey, NoKey}, body: {b1}, auth: {"jwt"}]
=============================================================================
