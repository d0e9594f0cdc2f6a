----------------------------- MODULE MCRigFleet -----------------------------
(* Small fleets for TLC: two kinds of component stand for the four. *)
EXTENDS RigFleet

CONSTANTS r1, r2, n1, n2, m1, m2, c1, c2

MCRegistry == <<"main", "container">>
MCParts == (m1 :> "main") @@ (m2 :> "main") @@ (c1 :> "container") @@ (c2 :> "container")

Symmetric == Permutations({r1, r2}) \cup Permutations({n1, n2})
               \cup Permutations({m1, m2}) \cup Permutations({c1, c2})
=============================================================================
