---------------------------- MODULE MCVerifyScan ----------------------------
(* VerifyScan on a small logbook: the constants of the .cfg files. *)
EXTENDS VerifyScan, TLC

CONSTANTS i1, i2, f1, c1, c2

MCIds      == {i1, i2}
MCNums     == {1, 2}
MCTitles   == {"A"}
MCFiles    == {f1}
MCContents == {c1, c2}

Symmetry == Permutations(MCIds) \cup Permutations(MCContents)
=============================================================================
