--------------------------- MODULE MCJumperStore ---------------------------
(* Small logbooks for TLC: the constants of the .cfg files. *)
EXTENDS JumperStore, TLC

CONSTANTS j1, j2, a1, a2, k1, c1, c2

MCJumpers  == {j1, j2}
MCAtts     == {a1, a2}
MCCreds    == {k1}
MCContents == {c1, c2}

Symmetric == Permutations({a1, a2})
               \cup Permutations({j1, j2}) \cup Permutations({c1, c2})
=============================================================================
