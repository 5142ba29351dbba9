--------------------------- MODULE MCSnapshotSync ---------------------------
(* Model-checking definitions for SnapshotSync. *)
EXTENDS SnapshotSync

SyncSymmetry == Permutations(Steps)
=============================================================================
