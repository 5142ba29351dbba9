-------------------------- MODULE MCProcessingJobs --------------------------
(* Model-checking definitions for ProcessingJobs. *)
EXTENDS ProcessingJobs, TLC

Symmetry == Permutations(Jobs) \cup Permutations(Requests)
=============================================================================
