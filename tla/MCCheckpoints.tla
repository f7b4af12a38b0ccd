---------------------------- MODULE MCCheckpoints ----------------------------
(* Checkpoints for TLC: files, changes and calls are interchangeable. *)
EXTENDS Checkpoints, TLC

Symmetry == Permutations(Files) \cup Permutations(Changes) \cup Permutations(Calls)
=============================================================================
