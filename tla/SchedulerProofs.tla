--------------------------- MODULE SchedulerProofs ---------------------------
(* That a recorded run is a run, for every schedule and number of passes.   *)
EXTENDS Scheduler, TLAPS

\* A table with one entry for each task.
Table(f) == f = [t \in Tasks |-> f[t]]

\* The entries of a table of runs are runs that completed.
Backed(f) == \A t \in Tasks : f[t] \in ran[t] \cup {None}

\* What the file holds may be older than the memory, and is what a restart
\* reads: both are backed, each by itself, or a crash would bring back a run
\* that never was.
IInv ==
    /\ Table(lastRun) /\ Table(saved) /\ Table(ran)
    /\ Backed(lastRun) /\ Backed(saved)

LEMMA InitEstablishes == Init => IInv
BY DEF Init, IInv, Table, Backed

\* A step that keeps the runs and leaves or copies a backed table keeps IInv.
LEMMA TablesKept ==
    ASSUME IInv, UNCHANGED ran,
           lastRun' \in {lastRun, saved}, saved' \in {saved, lastRun'}
    PROVE  IInv'
BY DEF IInv, Table, Backed

\* The end of a run is in the history before it is in the table: the new entry
\* is backed, and no other entry loses its run.
LEMMA RunEndsKeeps ==
    ASSUME IInv, NEW p \in Passes, RunEnds(p)
    PROVE  IInv'
<1> DEFINE t == pass[p].task
           s == pass[p].started
<1>1. ran' = [ran EXCEPT ![t] = @ \cup {s}]
  BY DEF RunEnds
<1>2. lastRun' = [lastRun EXCEPT ![t] = s]
  BY DEF RunEnds
<1>3. saved' \in {saved, lastRun'}
  BY DEF RunEnds, Save
<1> HIDE DEF t, s
<1>4. Table(lastRun)' /\ Table(ran)'
  BY <1>1, <1>2 DEF IInv, Table
<1>5. Table(saved)'
  BY <1>3, <1>4 DEF IInv, Table
<1>6. ASSUME NEW u \in Tasks PROVE ran[u] \subseteq ran'[u]
  <2>1. CASE u = t
    BY <1>1, <2>1 DEF IInv, Table
  <2>2. CASE u # t
    BY <1>1, <2>2 DEF IInv, Table
  <2> QED BY <2>1, <2>2
<1>7. Backed(lastRun)'
  <2> SUFFICES ASSUME NEW u \in Tasks PROVE lastRun'[u] \in ran'[u] \cup {None}
    BY DEF Backed
  <2>1. CASE u = t
    BY <1>1, <1>2, <2>1 DEF IInv, Table
  <2>2. CASE u # t
    BY <1>2, <1>6, <2>2 DEF IInv, Table, Backed
  <2> QED BY <2>1, <2>2
<1>8. Backed(saved)'
  BY <1>3, <1>6, <1>7 DEF IInv, Backed
<1> QED BY <1>4, <1>5, <1>7, <1>8 DEF IInv

LEMMA StepPreserves == IInv /\ [Next]_vars => IInv'
<1> SUFFICES ASSUME IInv, [Next]_vars PROVE IInv'
  OBVIOUS
<1>1. CASE Start
  BY <1>1, TablesKept DEF Start
<1>2. CASE Tick \/ Crash
  BY <1>2, TablesKept DEF Tick, Crash
<1>3. ASSUME NEW p \in Passes, CheckTasks(p) \/ RunFails(p) PROVE IInv'
  BY <1>3, TablesKept DEF CheckTasks, RunFails
<1>4. ASSUME NEW p \in Passes, Skip(p) PROVE IInv'
  <2>1. UNCHANGED <<lastRun, ran>> /\ saved' \in {saved, lastRun'}
    BY <1>4 DEF Skip, Save
  <2> QED BY <2>1, TablesKept
<1>5. ASSUME NEW p \in Passes, Run(p) PROVE IInv'
  BY <1>5, TablesKept DEF Run, Save
<1>6. ASSUME NEW p \in Passes, RunEnds(p) PROVE IInv'
  BY <1>6, RunEndsKeeps
<1>7. CASE UNCHANGED vars
  BY <1>7, TablesKept DEF vars
<1> QED BY <1>1, <1>2, <1>3, <1>4, <1>5, <1>6, <1>7 DEF Next

\* Every reachable state satisfies the inductive invariant.
THEOREM InductiveInvariant == Spec => []IInv
BY InitEstablishes, StepPreserves, PTL DEF Spec

\* A task is recorded, in memory and in the file, only with the beginning of a
\* run of it that completed: whatever passes overlap, whatever write or action
\* fails and however often the editor is closed in between.
THEOREM RecordsAreRuns == Spec => []RecordedMeansRan
<1>1. IInv => RecordedMeansRan
  BY DEF IInv, Backed, RecordedMeansRan
<1> QED BY <1>1, InductiveInvariant, PTL
=============================================================================
