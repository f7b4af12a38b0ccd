----------------------------- MODULE AgentStream -----------------------------
(***************************************************************************)
(* A request from its arrival to its end: MessageHandler.handleUserMessage *)
(* consuming the generator streamResponse of the agent service             *)
(* (src/src/agents/services/codebuddy-agent.service.ts), with its retries, *)
(* approvals, safety limits and failover.                                  *)
(*                                                                         *)
(* An action takes the generator from one await to the next.  At a yield   *)
(* the consumer looks whether the request was stopped; if so it leaves the *)
(* loop, which runs the generator's finally blocks.  Yields that follow    *)
(* each other without an await of the service are one.  The slots are      *)
(* those of SlotPool, which the queue implements.  The agent (LangGraph),  *)
(* the user's answers (ConsentManager) and the choice of a fallback        *)
(* (ProviderFailover) are left open.                                       *)
(***************************************************************************)
EXTENDS Integers, FiniteSets

CONSTANTS
    Requests,    \* requests of the user, each handled once
    Threads,     \* conversations
    None,        \* no request, no thread
    Limits,      \* values of maxConcurrentStreams
    QueueDepth,  \* how many may wait before the queue is full
    MaxEvents,   \* limits.maxEventCount
    MaxRetries,  \* maxRetries of the error recovery
    MaxGrants    \* bound: how often the user lifts the limits of a request

ASSUME StreamAssumption ==
    /\ IsFiniteSet(Requests)
    /\ None \notin Requests \cup Threads
    /\ Limits # {} /\ Limits \subseteq Nat \ {0} /\ MaxEvents \in Nat \ {0}
    /\ {QueueDepth, MaxRetries, MaxGrants} \subseteq Nat

VARIABLES
    pc,             \* where the generator of a request stands
    thread,         \* the conversation of a request
    ctx,            \* its stream context
    stopped,        \* requests the user stopped: no longer in activeRequests
    limit,          \* the limit of the queue in force
    waiters,        \* requests that wait for a slot
    holders,        \* requests that hold one
    activeStreams,  \* the stream manager registered for a thread, by request
    agents,         \* activeAgentCount of the running guard
    streaming,      \* stream managers whose flush timer runs
    denied,         \* prompts denied because their thread was cleared
    reported,       \* requests that published an ERROR
    completed,      \* requests that emitted the END of the agent
    lost            \* where an interrupt of the agent was dropped

resources == <<waiters, holders, activeStreams, agents>>
told == <<reported, completed, lost>>
vars == <<pc, thread, ctx, stopped, limit, resources, streaming, denied, told>>

Asking == {"askingLimit", "askingTool"}
Running == {"starting", "creating", "opening", "reading", "backoff", "switching",
            "draining", "rethrowing"} \cup Asking
Stages == {"idle", "queued", "done"} \cup Running

Contexts == [events : 0 .. MaxEvents, errored : BOOLEAN, retries : 0 .. MaxRetries,
             spent : BOOLEAN, grants : 0 .. MaxGrants]
Fresh == [events |-> 0, errored |-> FALSE, retries |-> 0, spent |-> FALSE, grants |-> 0]

Init ==
    /\ pc = [r \in Requests |-> "idle"]
    /\ thread = [r \in Requests |-> None]
    /\ ctx = [r \in Requests |-> Fresh]
    /\ stopped = {}
    /\ limit \in Limits
    /\ waiters = {}
    /\ holders = {}
    /\ activeStreams = [t \in Threads |-> None]
    /\ agents = 0
    /\ streaming = {}
    /\ denied = {}
    /\ reported = {}
    /\ completed = {}
    /\ lost = [r \in Requests |-> "nowhere"]

Pool == INSTANCE SlotPool
    WITH Callers <- Requests, closed <- FALSE

-----------------------------------------------------------------------------
(* Ways to end a step *)

\* Mistake: only the normal end releases the slot, not the finally block.
FinishKeepsSlot(r) ==
    /\ pc' = [pc EXCEPT ![r] = "done"]
    /\ ctx' = [ctx EXCEPT ![r] = Fresh]
    /\ activeStreams' = [activeStreams EXCEPT ![thread[r]] = None]
    /\ agents' = IF agents = 0 THEN 0 ELSE agents - 1
    /\ UNCHANGED <<waiters, holders>>

\* The two finally blocks, on every way out of the generator.
Finish(r) ==
    /\ pc' = [pc EXCEPT ![r] = "done"]
    /\ ctx' = [ctx EXCEPT ![r] = Fresh]
    /\ activeStreams' = [activeStreams EXCEPT ![thread[r]] = None]
    /\ agents' = IF agents = 0 THEN 0 ELSE agents - 1
    /\ Pool!GiveBack(r)

\* No yield on the way: the generator goes on at p with context c.
GoOn(r, p, c) ==
    /\ pc' = [pc EXCEPT ![r] = p]
    /\ ctx' = [ctx EXCEPT ![r] = c]
    /\ UNCHANGED resources

\* A yield: the consumer breaks off a stopped request, else it goes on at p.
YieldTo(r, p, c) == IF r \in stopped THEN Finish(r) ELSE GoOn(r, p, c)

\* An ERROR event reaches the webview unless the request was stopped.
Report(r) ==
    /\ reported' = IF r \in stopped THEN reported ELSE reported \cup {r}
    /\ UNCHANGED <<completed, lost>>

\* The error path: ERROR is yielded, then the error is thrown again.
GiveUp(r) == Report(r) /\ YieldTo(r, "rethrowing", [ctx[r] EXCEPT !.errored = TRUE])

\* The outer catch: switch to a fallback provider if there is one.
Fail(r) ==
    \/ GiveUp(r)
    \/ YieldTo(r, "switching", ctx[r]) /\ UNCHANGED told

\* Mistake: an agent that ended with nothing to show emits no END.
CompleteSilently(r) ==
    /\ streaming' = streaming \ {r}
    /\ completed' = IF ctx[r].errored \/ r \in stopped \/ ctx[r].events = 0
                    THEN completed ELSE completed \cup {r}
    /\ Finish(r)
    /\ UNCHANGED <<reported, lost>>

\* emitCompletion: the stream manager ends; END only without an error.
Complete(r) ==
    /\ streaming' = streaming \ {r}
    /\ completed' = IF ctx[r].errored \/ r \in stopped THEN completed ELSE completed \cup {r}
    /\ Finish(r)
    /\ UNCHANGED <<reported, lost>>

-----------------------------------------------------------------------------
(* Arrival *)

\* The thread has a call in the queue, or the queue is full.
Duplicate(t) == \E s \in waiters \cup holders : thread[s] = t
Full == Cardinality(holders) >= limit /\ Cardinality(waiters) >= QueueDepth

\* The input is blocked, or acquire() throws: ERROR and END.
Refused(r, t) ==
    /\ pc[r] = "idle"
    /\ pc' = [pc EXCEPT ![r] = "done"]
    /\ thread' = [thread EXCEPT ![r] = t]
    /\ Report(r)
    /\ UNCHANGED <<ctx, stopped, limit, resources, streaming, denied>>

\* Mistake: the queue does not look for a call of the same thread.
EnqueueDuplicate(r, t) ==
    /\ pc[r] = "idle"
    /\ ~Full
    /\ Pool!Ask(r)
    /\ pc' = [pc EXCEPT ![r] = "queued"]
    /\ thread' = [thread EXCEPT ![r] = t]
    /\ UNCHANGED <<ctx, stopped, limit, activeStreams, agents, streaming, denied, told>>

\* acquire()
Enqueue(r, t) ==
    /\ pc[r] = "idle"
    /\ ~Duplicate(t) /\ ~Full
    /\ Pool!Ask(r)
    /\ pc' = [pc EXCEPT ![r] = "queued"]
    /\ thread' = [thread EXCEPT ![r] = t]
    /\ UNCHANGED <<ctx, stopped, limit, activeStreams, agents, streaming, denied, told>>

\* The user takes the request off the queue: acquire() rejects.
CancelQueued(r) ==
    /\ pc[r] = "queued"
    /\ waiters' = waiters \ {r} /\ Pool!TurnAway
    /\ pc' = [pc EXCEPT ![r] = "done"]
    /\ Report(r)
    /\ UNCHANGED <<thread, ctx, stopped, limit, activeStreams, agents, streaming, denied>>

\* acquire() resolves: register the stream and notify the guard.
Begin(r) ==
    /\ pc[r] = "queued" /\ r \in holders
    /\ pc' = [pc EXCEPT ![r] = "starting"]
    /\ activeStreams' = [activeStreams EXCEPT ![thread[r]] = r]
    /\ agents' = agents + 1
    /\ UNCHANGED <<thread, ctx, stopped, limit, waiters, holders, streaming, denied, told>>

\* notifyAgentStarted() resolves.
Guarded(r) ==
    /\ pc[r] = "starting"
    /\ GoOn(r, "creating", ctx[r])
    /\ UNCHANGED <<thread, stopped, limit, streaming, denied, told>>

\* getAgent() and startStream(), then the first yield.
StartStream(r) ==
    /\ pc[r] = "creating"
    /\ streaming' = streaming \cup {r}
    /\ YieldTo(r, "opening", ctx[r])
    /\ UNCHANGED <<thread, stopped, limit, denied, told>>

\* The checkpoint, the compaction of the thread and agent.stream().
Open(r) ==
    /\ pc[r] = "opening"
    /\ GoOn(r, "reading", ctx[r])
    /\ UNCHANGED <<thread, stopped, limit, streaming, denied, told>>

\* getAgent() or agent.stream() throws.
OpenFails(r) ==
    /\ pc[r] \in {"creating", "opening", "backoff"}
    /\ Fail(r)
    /\ UNCHANGED <<thread, stopped, limit, streaming, denied>>

-----------------------------------------------------------------------------
(* The stream loop *)

\* An event is taken from the iterator: no error stands, and the iterator has
\* not ended with an interrupt.
Reads(r) == pc[r] = "reading" /\ ~ctx[r].errored /\ ~ctx[r].spent

Counted(r) == [ctx[r] EXCEPT !.events = @ + 1]
WithinLimit(r) == ctx[r].events + 1 < MaxEvents

\* The iterator is done, or its event is ignored because an error stands.
EndOfStream(r) ==
    /\ pc[r] = "reading"
    /\ Complete(r)
    /\ UNCHANGED <<thread, stopped, limit, denied>>

\* A node's update: chunks, tool events and costs, or nothing to yield.
NodeUpdate(r) ==
    /\ Reads(r) /\ WithinLimit(r)
    /\ YieldTo(r, "reading", Counted(r)) \/ GoOn(r, "reading", Counted(r))
    /\ UNCHANGED <<thread, stopped, limit, streaming, denied, told>>

\* The update repeats a tool call or a file edit too often: ERROR.
LoopDetected(r) ==
    /\ Reads(r) /\ WithinLimit(r)
    /\ Report(r)
    /\ YieldTo(r, "reading", [Counted(r) EXCEPT !.errored = TRUE])
    /\ UNCHANGED <<thread, stopped, limit, streaming, denied>>

\* Mistake: interrupts do not count as events.
InterruptUncounted(r) ==
    /\ Reads(r) /\ WithinLimit(r)
    /\ YieldTo(r, "askingTool", [ctx[r] EXCEPT !.spent = TRUE])
    /\ UNCHANGED <<thread, stopped, limit, streaming, denied, told>>

\* The agent is interrupted before a tool call; its iterator then ends.
Interrupt(r) ==
    /\ Reads(r) /\ WithinLimit(r)
    /\ YieldTo(r, "askingTool", [Counted(r) EXCEPT !.spent = TRUE])
    /\ UNCHANGED <<thread, stopped, limit, streaming, denied, told>>

\* A limit is reached, at the latest the one of events; the event at hand may
\* be an interrupt.
LimitReached(r, interrupted) ==
    /\ Reads(r)
    /\ YieldTo(r, "askingLimit", [Counted(r) EXCEPT !.spent = interrupted])
    /\ UNCHANGED <<thread, stopped, limit, streaming, denied, told>>

\* The prompt is settled.
Settled(r, granted) ==
    /\ granted => r \notin denied
    /\ denied' = denied \ {r}
    /\ UNCHANGED <<thread, stopped, limit>>

\* The user lifts the limits: the counters restart with the next event.
LimitLifted(r) ==
    /\ pc[r] = "askingLimit" /\ ctx[r].grants < MaxGrants
    /\ Settled(r, TRUE)
    /\ YieldTo(r, "reading", [ctx[r] EXCEPT !.events = 0, !.grants = @ + 1])
    /\ lost' = IF ctx[r].spent /\ r \notin stopped THEN [lost EXCEPT ![r] = "limit"] ELSE lost
    /\ UNCHANGED <<streaming, reported, completed>>

\* The limits stand: the stream ends with what it has.
LimitUpheld(r) ==
    /\ pc[r] = "askingLimit"
    /\ Settled(r, FALSE)
    /\ Complete(r)

\* handleInterrupt() after the answer: the agent is resumed with the verdict.
Resume(r, granted) ==
    /\ pc[r] = "askingTool"
    /\ Settled(r, granted)
    /\ YieldTo(r, "reading", [ctx[r] EXCEPT !.spent = FALSE])
    /\ UNCHANGED <<streaming, told>>

\* Both ways to resume throw: ERROR, and the loop reads the old iterator on.
ResumeFails(r, granted) ==
    /\ pc[r] = "askingTool"
    /\ Settled(r, granted)
    /\ Report(r)
    /\ YieldTo(r, "reading", [ctx[r] EXCEPT !.errored = TRUE])
    /\ UNCHANGED streaming

\* Mistake: the cap of the retries is off by one.
RetryOnceMore(r) ==
    /\ pc[r] = "reading" /\ ~ctx[r].spent
    /\ ctx[r].retries <= MaxRetries
    /\ YieldTo(r, "backoff", [ctx[r] EXCEPT !.retries = @ + 1])
    /\ UNCHANGED <<thread, stopped, limit, streaming, denied, told>>

\* The iterator throws a transient error: wait and ask the agent to go on.
Retry(r) ==
    /\ pc[r] = "reading" /\ ~ctx[r].spent
    /\ ctx[r].retries < MaxRetries
    /\ YieldTo(r, "backoff", [ctx[r] EXCEPT !.retries = @ + 1])
    /\ UNCHANGED <<thread, stopped, limit, streaming, denied, told>>

\* The back-off is over.
Reopen(r) ==
    /\ pc[r] = "backoff"
    /\ GoOn(r, "reading", [ctx[r] EXCEPT !.errored = FALSE])
    /\ UNCHANGED <<thread, stopped, limit, streaming, denied, told>>

\* The iterator throws for good.
StreamFails(r) ==
    /\ pc[r] = "reading" /\ ~ctx[r].spent
    /\ Fail(r)
    /\ UNCHANGED <<thread, stopped, limit, streaming, denied>>

-----------------------------------------------------------------------------
(* Failover and the error path *)

\* Mistake: the new agent is notified to the guard as well.
SwitchNotifies(r) ==
    /\ pc[r] = "switching"
    /\ pc' = [pc EXCEPT ![r] = "draining"]
    /\ ctx' = [ctx EXCEPT ![r].errored = FALSE]
    /\ agents' = agents + 1
    /\ UNCHANGED <<waiters, holders, activeStreams>>
    /\ UNCHANGED <<thread, stopped, limit, streaming, denied, told>>

\* A new agent streams the message again.
Switch(r) ==
    /\ pc[r] = "switching"
    /\ GoOn(r, "draining", [ctx[r] EXCEPT !.errored = FALSE])
    /\ UNCHANGED <<thread, stopped, limit, streaming, denied, told>>

\* drainAgentStream(): an update, which may be a loop or an interrupt.
DrainUpdate(r) ==
    /\ pc[r] = "draining" /\ ~ctx[r].errored /\ ~ctx[r].spent
    /\ WithinLimit(r)
    /\ \/ YieldTo(r, "draining", Counted(r)) /\ UNCHANGED told
       \/ YieldTo(r, "draining", [Counted(r) EXCEPT !.errored = TRUE]) /\ Report(r)
       \/ /\ GoOn(r, "draining", [Counted(r) EXCEPT !.spent = TRUE])
          /\ lost' = [lost EXCEPT ![r] = "failover"]
          /\ UNCHANGED <<reported, completed>>
    /\ UNCHANGED <<thread, stopped, limit, streaming, denied>>

\* The drained stream ends: the iterator is done, an error stands, or a limit
\* is reached, which is not put to the user.
DrainEnds(r) ==
    /\ pc[r] = "draining"
    /\ Complete(r)
    /\ UNCHANGED <<thread, stopped, limit, denied>>

\* The fallback fails as well: there is no second one.
SwitchFails(r) ==
    /\ pc[r] = "switching" \/ (pc[r] = "draining" /\ ~ctx[r].spent)
    /\ GiveUp(r)
    /\ UNCHANGED <<thread, stopped, limit, streaming, denied>>

\* The error leaves the generator; the handler publishes it once more.
Rethrow(r) ==
    /\ pc[r] = "rethrowing"
    /\ Finish(r)
    /\ reported' = reported \cup {r}
    /\ UNCHANGED <<thread, stopped, limit, streaming, denied, completed, lost>>

-----------------------------------------------------------------------------
(* The stop button *)

\* Mistake: cancelStream() does not look whether the stream manager is active.
StopInactive(r) ==
    /\ pc[r] # "idle"
    /\ stopped' = IF pc[r] = "done" THEN stopped ELSE stopped \cup {r}
    /\ LET s == activeStreams[thread[r]] IN
       IF s # None
       THEN /\ streaming' = streaming \ {s}
            /\ activeStreams' = [activeStreams EXCEPT ![thread[r]] = None]
       ELSE UNCHANGED <<streaming, activeStreams>>
    /\ UNCHANGED <<pc, thread, ctx, limit, waiters, holders, agents, denied, told>>

\* cancelRequest(): the stop of a request that is over reaches the stream its
\* thread runs now.  A prompt is denied if it is open; a stream that has yielded
\* the prompt's event may not have come to waitForConsent() yet.
Stop(r) ==
    /\ pc[r] # "idle"
    /\ stopped' = IF pc[r] = "done" THEN stopped ELSE stopped \cup {r}
    /\ LET s == activeStreams[thread[r]] IN
       IF s \in streaming
       THEN /\ streaming' = streaming \ {s}
            /\ activeStreams' = [activeStreams EXCEPT ![thread[r]] = None]
            /\ \/ pc[s] \in Asking /\ denied' = denied \cup {s}
               \/ denied' = denied
       ELSE UNCHANGED <<streaming, activeStreams, denied>>
    /\ UNCHANGED <<pc, thread, ctx, limit, waiters, holders, agents, told>>

\* The setting maxConcurrentStreams changes.
SetLimit ==
    /\ Pool!Resize /\ limit' # limit
    /\ UNCHANGED <<pc, thread, ctx, stopped, activeStreams, agents, streaming, denied, told>>

-----------------------------------------------------------------------------
\* What the service, the agent and the consent timers do by themselves.
Step(r) ==
    \/ Begin(r) \/ Guarded(r) \/ StartStream(r) \/ Open(r) \/ OpenFails(r)
    \/ EndOfStream(r) \/ NodeUpdate(r) \/ LoopDetected(r) \/ Interrupt(r)
    \/ \E i \in BOOLEAN : LimitReached(r, i)
    \/ LimitLifted(r) \/ LimitUpheld(r)
    \/ \E g \in BOOLEAN : Resume(r, g) \/ ResumeFails(r, g)
    \/ Retry(r) \/ Reopen(r) \/ StreamFails(r)
    \/ Switch(r) \/ DrainUpdate(r) \/ DrainEnds(r) \/ SwitchFails(r) \/ Rethrow(r)

Next ==
    \/ \E r \in Requests :
          \/ \E t \in Threads : Refused(r, t) \/ Enqueue(r, t)
          \/ CancelQueued(r)
          \/ Step(r)
          \/ Stop(r)
    \/ SetLimit

Spec == Init /\ [][Next]_vars

\* The agent answers every call, the timers fire, and an open prompt is settled
\* at the latest by its timeout (WaitsSettle of ConsentManager).
FairSpec == Spec /\ \A r \in Requests : WF_vars(Step(r))
-----------------------------------------------------------------------------
(* Safety *)

\* The type of every variable.
TypeOK ==
    /\ pc \in [Requests -> Stages]
    /\ thread \in [Requests -> Threads \cup {None}]
    /\ ctx \in [Requests -> Contexts]
    /\ stopped \cup waiters \cup holders \cup streaming \cup denied \subseteq Requests
    /\ limit \in Limits
    /\ activeStreams \in [Threads -> Requests \cup {None}]
    /\ agents \in 0 .. Cardinality(Requests)
    /\ reported \cup completed \subseteq Requests
    /\ lost \in [Requests -> {"nowhere", "limit", "failover"}]

\* Two streams never run on one thread: activeStreams, the prompts and the
\* checkpoints of the agent are keyed by it.
OneStreamPerThread ==
    \A r, s \in Requests :
        pc[r] \in Running /\ pc[s] \in Running /\ thread[r] = thread[s] => r = s

\* A request waits or holds a slot from acquire() to its end, and a registered
\* stream is one that runs.
HeldByTheStream ==
    /\ waiters = {r \in Requests : pc[r] = "queued"} \ holders
    /\ holders \subseteq {r \in Requests : pc[r] \in Running \cup {"queued"}}
    /\ \A r \in Requests : pc[r] \in Running => r \in holders
    /\ \A t \in Threads : activeStreams[t] # None =>
          pc[activeStreams[t]] \in Running /\ thread[activeStreams[t]] = t
    /\ OneStreamPerThread

\* The guard counts the streams that run.
StreamsCounted == agents = Cardinality({r \in Requests : pc[r] \in Running})

\* The stop button finds a stream until its stream manager ends.
RegisteredWhileStreamed ==
    \A r \in Requests :
        /\ pc[r] \in Running
        /\ pc[r] \in {"starting", "creating"} \/ r \in streaming
        => activeStreams[thread[r]] = r

\* "Outer finally: unconditionally release the concurrency slot regardless of
\* what threw inside the streaming body.": whatever way a request ends, its
\* slot, its count with the guard and its registration end with it.  Slot and
\* count do not end before.  The registration does when a stop reaches the
\* stream, which ends its stream manager too, and in no other way: while the
\* manager runs, it is what the stop button finds for the thread.
ResourcesFollowTheStream == HeldByTheStream /\ StreamsCounted /\ RegisteredWhileStreamed

\* A request that was not stopped does not end in silence: the user gets the
\* END of the agent or an ERROR.
EveryRequestAnswered ==
    \A r \in Requests :
        pc[r] = "done" /\ r \notin stopped => r \in reported \cup completed

\* Where a stream stands with the guard.
GuardStages ==
    [r \in Requests |-> IF pc[r] = "starting" THEN "starting"
                        ELSE IF pc[r] \in Running THEN "running" ELSE "idle"]

Guard == INSTANCE RunningGuard
    WITH Agents   <- Requests,
         Tasks    <- {},
         NoTask   <- None,
         stage    <- GuardStages,
         count    <- agents,
         handle   <- None,
         live     <- {},
         disposed <- FALSE

\* Every stream starts and stops once with the guard, on every way through the
\* generator.
UsesGuardOnce == Guard!GuardSpec

(* What the code's comments say, and the code does not do *)

\* A destructive operation "pauses execution and asks for explicit approval":
\* an approval the agent asks for is put to the user, also after a failover
\* and when the safety limit is reached by the very event that asks.
InterruptsAreAsked ==
    \A r \in Requests : lost[r] = "nowhere"

(* Liveness *)

\* Every queued request ends: the slots are handed on, retries and failovers
\* are limited, and the limit of events holds the stream however often the
\* agent asks for approval, as long as the user does not lift it for ever.
RequestsEnd ==
    \A r \in Requests : pc[r] = "queued" ~> pc[r] = "done"
=============================================================================
