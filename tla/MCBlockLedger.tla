--------------------------- MODULE MCBlockLedger ---------------------------
(* BlockLedger on small instances. *)
EXTENDS BlockLedger, TLC

CONSTANTS b1, b2

\* The pool's blocks are interchangeable (safety runs only).
Symmetry == Permutations(Ours)
=============================================================================
