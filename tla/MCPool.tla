------------------------------- MODULE MCPool -------------------------------
(* Instances of Pool for TLC. *)
EXTENDS Pool, TLC

RequestSymmetry == Permutations(Requests)
=============================================================================
