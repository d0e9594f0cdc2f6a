---------------------------- MODULE MCFlatStore ----------------------------
(* Small logbooks for TLC: the constants of the .cfg files. *)
EXTENDS FlatStore, TLC

CONSTANTS d1, d2, d3, p1, r1, r2

MCDropzones == {d1, d2, d3}
MCPeople    == {p1}
MCRevs      == {r1, r2}

Symmetric == Permutations({d1, d2, d3}) \cup Permutations({r1, r2})
=============================================================================
