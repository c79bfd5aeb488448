------------------------------ MODULE MCCreation ------------------------------
(* Instances of Creation for TLC. *)
EXTENDS Creation, TLC

CONSTANTS p1, p2, d1, d2

Symmetry == Permutations(Proc) \cup Permutations(Doc)
=============================================================================
