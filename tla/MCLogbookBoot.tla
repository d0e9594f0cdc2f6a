--------------------------- MODULE MCLogbookBoot ---------------------------
(* Three processes of two builds, three jump folders, two of them with the  *)
(* same number.                                                             *)
EXTENDS LogbookBoot, TLC

CONSTANTS old, new, late, j1, j2, j3

MCBuildOf == (old :> 1) @@ (new :> 3) @@ (late :> 3)
MCNumberOf == (j1 :> 1) @@ (j2 :> 1) @@ (j3 :> 2)
=============================================================================
