--------------------------- MODULE MCRunningGuard ---------------------------
(* Small instances of RunningGuard for TLC. *)
EXTENDS RunningGuard, TLC

Symmetry == Permutations(Agents) \cup Permutations(Tasks)
=============================================================================
