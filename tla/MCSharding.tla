----------------------------- MODULE MCSharding -----------------------------
(***************************************************************************)
(* Three rows and 4-bit keys, which make a span that overflows, one that    *)
(* Concurrency divides with a remainder, one shorter than Concurrency, and  *)
(* the single key.                                                          *)
(***************************************************************************)
EXTENDS Sharding, TLC

CONSTANTS r1, r2, r3

MCRow == {r1, r2, r3}
MCKey == {-8, -2, 0, 3, 4}
Symmetry == Permutations(MCRow)
=============================================================================
