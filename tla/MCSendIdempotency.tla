-------------------------- MODULE MCSendIdempotency --------------------------
(* Small instances of SendIdempotency.                                      *)
EXTENDS SendIdempotency, TLC

CONSTANTS b1, b2, c1, c2, c3

Symmetric == Permutations({b1, b2}) \cup Permutations(Calls)
=============================================================================
