------------------------------ MODULE MCJobStore ------------------------------
(* Instances of JobStore for TLC. *)
EXTENDS JobStore, TLC

JobSymmetry == Permutations(Jobs)
=============================================================================
