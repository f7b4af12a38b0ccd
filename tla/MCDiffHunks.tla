----------------------------- MODULE MCDiffHunks -----------------------------
(* DiffHunks for TLC: the lines are interchangeable. *)
EXTENDS DiffHunks

Symmetry == Permutations(Lines)
=============================================================================
