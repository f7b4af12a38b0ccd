----------------------------- MODULE MCScheduler -----------------------------
(* Scheduler for TLC: a task of each kind, and a broken one. *)
EXTENDS Scheduler

Four == << [kind |-> "midnight", from |-> 0], [kind |-> "daily", from |-> 1],
           [kind |-> "interval", from |-> 2], [kind |-> "daily", from |-> 1] >>
=============================================================================
