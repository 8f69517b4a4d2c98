-------------------------- MODULE MCCheckpointStore ---------------------------
(* CheckpointStore for TLC. *)
EXTENDS CheckpointStore, TLC

MCSymmetry == Permutations(Process) \cup Permutations(Tree) \cup Permutations(Name)
===============================================================================
