--------------------------- MODULE MCAtomicWrite ---------------------------
(* Two writers, two documents, and the inodes that can be in use at once.  *)
EXTENDS AtomicWrite

CONSTANTS w1, w2, d1, d2, i1, i2, i3, i4
=============================================================================
