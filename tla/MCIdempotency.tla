---------------------------- MODULE MCIdempotency ----------------------------
(* Small instances of Idempotency for TLC.                                 *)
EXTENDS Idempotency, TLC

CONSTANTS r1, r2, r3, r4, k1, k2

\* The keys differ: one of them is a key of /mcp.
RequestSymmetry == Permutations(Requests)
=============================================================================
