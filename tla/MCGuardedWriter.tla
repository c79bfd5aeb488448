--------------------------- MODULE MCGuardedWriter ---------------------------
(* Instances of GuardedWriter for TLC. *)
EXTENDS GuardedWriter, TLC

Symmetry == Permutations(Proc)
=============================================================================
