-------------------------- MODULE MCIdempotencyKey --------------------------
(* Three requests over two keys and two bodies, and a clock that passes the *)
(* life of a row.                                                           *)
EXTENDS IdempotencyKey, TLC

CONSTANTS r1, r2, r3, k1, k2, h1, h2

Symmetry == Permutations({r1, r2, r3}) \cup Permutations({k1, k2})
              \cup Permutations({h1, h2})
=============================================================================
