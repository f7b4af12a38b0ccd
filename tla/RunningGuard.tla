----------------------------- MODULE RunningGuard -----------------------------
(***************************************************************************)
(* The guard that keeps a VS Code task running while an agent is active,   *)
(* so that closing the window asks first                                   *)
(* (src/src/services/agent-running-guard.service.ts).                      *)
(*                                                                         *)
(* notifyAgentStarted() awaits executeTask(): what follows the await is an *)
(* action of its own, and other agents start and stop in between.  VS Code *)
(* and the user, who may close the task's terminal, are external.          *)
(***************************************************************************)
EXTENDS Integers, FiniteSets

CONSTANTS
    Agents,  \* requests that run an agent, one after another
    Tasks,   \* task executions VS Code can hand out
    NoTask   \* activeTaskExecution is null

ASSUME GuardAssumption == IsFiniteSet(Agents) /\ NoTask \notin Tasks

VARIABLES
    stage,     \* where each agent stands with the guard
    count,     \* activeAgentCount
    handle,    \* activeTaskExecution
    live,      \* the executions that run in VS Code
    disposed   \* dispose() was called: the extension is deactivated

guardVars == <<stage, count, handle, live, disposed>>

GuardInit ==
    /\ stage = [a \in Agents |-> "idle"]
    /\ count = 0
    /\ handle = NoTask
    /\ live = {}
    /\ disposed = FALSE

Active == {a \in Agents : stage[a] # "idle"}

-----------------------------------------------------------------------------
\* notifyAgentStarted() up to its await, or to its early return.
NotifyAgentStarted(a) ==
    /\ stage[a] = "idle"
    /\ count' = count + 1
    /\ stage' = [stage EXCEPT ![a] = IF handle # NoTask THEN "running" ELSE "starting"]
    /\ UNCHANGED <<handle, live, disposed>>

\* executeTask() resolves with a new execution, or with the one that runs
\* already; it is stored over what is there.
TaskStarted(a, t) ==
    /\ stage[a] = "starting"
    /\ t # handle \/ t \in live
    /\ handle' = t
    /\ live' = live \cup {t}
    /\ stage' = [stage EXCEPT ![a] = "running"]
    /\ UNCHANGED <<count, disposed>>

\* Mistake: a failed start takes back its own count, and the stop does again.
FailureUncounts(a) ==
    /\ stage[a] = "starting"
    /\ stage' = [stage EXCEPT ![a] = "running"]
    /\ count' = count - 1
    /\ UNCHANGED <<handle, live, disposed>>

\* executeTask() rejects: logged, and the agent runs on without a task.
TaskFailed(a) ==
    /\ stage[a] = "starting"
    /\ stage' = [stage EXCEPT ![a] = "running"]
    /\ UNCHANGED <<count, handle, live, disposed>>

\* stopGuardTask()
StopGuardTask ==
    /\ handle' = NoTask
    /\ live' = live \ {handle}
    /\ count' = 0

\* Mistake: the first agent to stop ends the guard.
StopEndsGuard(a) ==
    /\ stage[a] = "running"
    /\ stage' = [stage EXCEPT ![a] = "idle"]
    /\ StopGuardTask
    /\ UNCHANGED disposed

\* Mistake: no clamp at 0.
StopUnclamped(a) ==
    /\ stage[a] = "running"
    /\ stage' = [stage EXCEPT ![a] = "idle"]
    /\ IF count = 1
       THEN StopGuardTask
       ELSE count' = count - 1 /\ UNCHANGED <<handle, live>>
    /\ UNCHANGED disposed

\* notifyAgentStopped(), in the finally block of the stream.
NotifyAgentStopped(a) ==
    /\ stage[a] = "running"
    /\ stage' = [stage EXCEPT ![a] = "idle"]
    /\ IF count > 1
       THEN count' = count - 1 /\ UNCHANGED <<handle, live>>
       ELSE StopGuardTask
    /\ UNCHANGED disposed

\* The user closes the terminal of the task; nobody listens for its end.
TerminalClosed(t) ==
    /\ t \in live
    /\ live' = live \ {t}
    /\ UNCHANGED <<stage, count, handle, disposed>>

Dispose ==
    /\ ~disposed
    /\ disposed' = TRUE
    /\ StopGuardTask
    /\ UNCHANGED stage

-----------------------------------------------------------------------------
GuardNext ==
    \/ \E a \in Agents :
          \/ NotifyAgentStarted(a)
          \/ \E t \in Tasks : TaskStarted(a, t)
          \/ TaskFailed(a)
          \/ NotifyAgentStopped(a)
    \/ \E t \in Tasks : TerminalClosed(t)
    \/ Dispose

GuardSpec == GuardInit /\ [][GuardNext]_guardVars

-----------------------------------------------------------------------------
\* The type of every variable.
GuardTypeOK ==
    /\ stage \in [Agents -> {"idle", "starting", "running"}]
    /\ count \in 0 .. Cardinality(Agents)
    /\ handle \in Tasks \cup {NoTask}
    /\ live \subseteq Tasks
    /\ disposed \in BOOLEAN

\* The counter is the number of agents between start and stop, also when starts
\* overlap or executeTask fails; dispose() is the only thing that resets it
\* under active agents.
CountMatchesAgents ==
    ~disposed => count = Cardinality(Active)

\* The guard is given up only when no agent is active, or at deactivation: an
\* agent that stops never takes the close warning from another.
GuardOutlivesOthers ==
    [][handle # NoTask /\ handle' = NoTask =>
          disposed' \/ stage' = [a \in Agents |-> "idle"]]_guardVars

=============================================================================
