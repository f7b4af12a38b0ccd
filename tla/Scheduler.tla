------------------------------ MODULE Scheduler ------------------------------
(***************************************************************************)
(* The background tasks of SchedulerService                                *)
(* (src/src/services/scheduler.service.ts).  A pass over the tasks starts  *)
(* every minute whether or not the last one is over; a task runs when it   *)
(* has no run of this day, or of the last hours, in the database, and its  *)
(* run is recorded after it.  The database is in memory and written as a   *)
(* whole by every statement; a crash keeps what was written.               *)
(*                                                                         *)
(* Time is counted in hours.  ran is not in the code: it keeps when the    *)
(* completed runs of a task began.                                         *)
(***************************************************************************)
EXTENDS Integers, Sequences

CONSTANTS
    Schedule,     \* the tasks in order: [kind, from] with from an hour or an interval
    HoursPerDay,
    Broken,       \* indices of tasks whose action always fails
    Passes,       \* bound: passes that may overlap
    None,         \* no run, no pass
    MinTime,      \* when the extension is installed
    MaxTime,      \* bound: the last hour
    MaxFaults     \* bound: crashes, failing actions and failing writes

Tasks == DOMAIN Schedule

ASSUME SchedulerAssumption ==
    /\ \A t \in Tasks : /\ Schedule[t].kind \in {"midnight", "daily", "interval"}
                        /\ Schedule[t].from \in Nat
    /\ HoursPerDay \in Nat \ {0} /\ Broken \subseteq Tasks
    /\ MinTime \in Nat /\ MaxTime \in Nat /\ MaxFaults \in Nat

VARIABLES
    now,          \* the clock
    up,           \* the extension runs, and its timer
    lastRun,      \* last_run of each task, in memory
    saved,        \* the same in the file
    lastCleanup,  \* lastCleanupDate
    pass,         \* the running passes
    ran,          \* when completed runs began
    faults        \* faults so far

vars == <<now, up, lastRun, saved, lastCleanup, pass, ran, faults>>

Hour(t) == t % HoursPerDay
Day(t) == t \div HoursPerDay

Init ==
    /\ now = MinTime
    /\ up = FALSE
    /\ lastRun = [t \in Tasks |-> None]
    /\ saved = lastRun
    /\ lastCleanup = None
    /\ pass = [p \in Passes |-> None]
    /\ ran = [t \in Tasks |-> {}]
    /\ faults = 0

Fault == faults < MaxFaults /\ faults' = faults + 1

\* saveToDisk() writes the whole database, or logs that it cannot.
Save ==
    \/ saved' = lastRun' /\ UNCHANGED faults
    \/ Fault /\ UNCHANGED saved

-----------------------------------------------------------------------------
(* The timer *)

\* start(), after a start or a restart of the editor, loads the database.
Start ==
    /\ ~up
    /\ up' = TRUE
    /\ lastRun' = saved
    /\ UNCHANGED <<now, saved, lastCleanup, pass, ran, faults>>

\* checkTasks() begins, at once after start() and every minute: the hour and the
\* day of the whole pass are those of now.
CheckTasks(p) ==
    /\ up
    /\ pass[p] = None
    /\ pass' = [pass EXCEPT ![p] = [task |-> 1, began |-> now, started |-> None]]
    /\ UNCHANGED <<now, up, lastRun, saved, lastCleanup, ran, faults>>

-----------------------------------------------------------------------------
(* One task of a pass *)

\* The checks of checkTasks() before the task.
ItsTime(t, began) ==
    LET task == Schedule[t] IN
    CASE task.kind = "midnight" -> Hour(began) = 0 /\ lastCleanup # Day(began)
      [] task.kind = "daily" -> Hour(began) >= task.from
      [] task.kind = "interval" -> TRUE

\* Mistake: a task that was ever run is not run again.
NeverRan(t) == lastRun[t] = None

\* shouldRun of tryRunTask() and of tryRunTaskInterval()
ShouldRun(t) ==
    lastRun[t] # None =>
        IF Schedule[t].kind = "interval" THEN now - lastRun[t] >= Schedule[t].from
        ELSE Day(lastRun[t]) # Day(now)

\* The next task of the pass, or its end.
NextTask(p) ==
    pass' = [pass EXCEPT ![p] = IF @.task = Len(Schedule) THEN None
                                ELSE [@ EXCEPT !.task = @ + 1, !.started = None]]

\* A task is not due.
Skip(p) ==
    /\ pass[p] # None /\ pass[p].started = None
    /\ LET t == pass[p].task IN
       \/ ~ItsTime(t, pass[p].began) /\ UNCHANGED <<saved, faults>>
       \/ ItsTime(t, pass[p].began) /\ ~ShouldRun(t) /\ UNCHANGED lastRun /\ Save
    /\ NextTask(p)
    /\ UNCHANGED <<now, up, lastRun, lastCleanup, ran>>

\* Mistake: the run is recorded before the action.
RunRecorded(p) ==
    /\ pass[p] # None /\ pass[p].started = None
    /\ ItsTime(pass[p].task, pass[p].began) /\ ShouldRun(pass[p].task)
    /\ pass' = [pass EXCEPT ![p].started = now]
    /\ lastRun' = [lastRun EXCEPT ![pass[p].task] = now]
    /\ Save
    /\ UNCHANGED <<now, up, lastCleanup, ran>>

\* A task is due: its action begins.
Run(p) ==
    /\ pass[p] # None /\ pass[p].started = None
    /\ ItsTime(pass[p].task, pass[p].began) /\ ShouldRun(pass[p].task)
    /\ pass' = [pass EXCEPT ![p].started = now]
    /\ UNCHANGED lastRun
    /\ Save
    /\ UNCHANGED <<now, up, lastCleanup, ran>>

\* The action resolves: the run is recorded with the time it began.
RunEnds(p) ==
    /\ pass[p] # None /\ pass[p].started # None
    /\ LET t == pass[p].task IN
       /\ t \notin Broken
       /\ ran' = [ran EXCEPT ![t] = @ \cup {pass[p].started}]
       /\ lastRun' = [lastRun EXCEPT ![t] = pass[p].started]
       /\ lastCleanup' = IF Schedule[t].kind = "midnight" THEN Day(pass[p].began)
                         ELSE lastCleanup
    /\ Save
    /\ NextTask(p)
    /\ UNCHANGED <<now, up>>

\* The action throws: the rest of the pass is given up.
RunFails(p) ==
    /\ pass[p] # None /\ pass[p].started # None
    /\ IF pass[p].task \in Broken THEN UNCHANGED faults ELSE Fault
    /\ pass' = [pass EXCEPT ![p] = None]
    /\ UNCHANGED <<now, up, lastRun, saved, lastCleanup, ran>>

-----------------------------------------------------------------------------
(* The world *)

Tick ==
    /\ now < MaxTime
    /\ now' = now + 1
    /\ UNCHANGED <<up, lastRun, saved, lastCleanup, pass, ran, faults>>

\* The editor is closed or crashes.
Crash ==
    /\ up
    /\ Fault
    /\ up' = FALSE
    /\ lastCleanup' = None
    /\ pass' = [p \in Passes |-> None]
    /\ UNCHANGED <<now, lastRun, saved, ran>>

Next ==
    \/ Start \/ Tick \/ Crash
    \/ \E p \in Passes : CheckTasks(p) \/ Skip(p) \/ Run(p) \/ RunEnds(p) \/ RunFails(p)

Spec == Init /\ [][Next]_vars

\* The timer fires, the actions end one way or the other, the user comes back
\* and time goes on.
FairSpec ==
    /\ Spec
    /\ WF_vars(Start) /\ WF_vars(Tick)
    /\ \A p \in Passes : /\ WF_vars(CheckTasks(p))
                         /\ WF_vars(Skip(p) \/ Run(p))
                         /\ WF_vars(RunEnds(p) \/ RunFails(p))
-----------------------------------------------------------------------------
\* A task said to have run did run to its end in a run that began just then, in
\* memory and in the file, whatever failed or crashed and whichever overlapping
\* pass wrote last.
RecordedMeansRan ==
    \A t \in Tasks : {lastRun[t], saved[t]} \subseteq ran[t] \cup {None}

\* A daily task whose hour has come is run and recorded for that day in the end,
\* and stays so: neither the runs of other passes that end late, nor crashes,
\* nor writes and actions that fail now and then lose it.  Only a task behind
\* one that always fails may never come to its turn.
DailyTasksRun ==
    \A t \in Tasks :
        Schedule[t].kind = "daily" /\ Schedule[t].from <= Hour(MaxTime)
                /\ (\A b \in Broken : t < b)
            => <>[](lastRun[t] # None /\ Day(lastRun[t]) = Day(MaxTime))
=============================================================================
