----------------------------- MODULE MCJobQueue -----------------------------
(* JobQueue for TLC: job ids and workers are interchangeable. *)
EXTENDS JobQueue, TLC

Symmetry == Permutations(Jobs \ Malformed) \cup Permutations(Workers)
=============================================================================
