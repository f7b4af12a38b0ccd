--------------------------- MODULE AgentStreamProofs ---------------------------
(***************************************************************************)
(* Theorems about RunningGuard, for every finite set of agents and every   *)
(* set of task executions, and about AgentStream, for every finite set of  *)
(* requests, every set of threads and every limit, and that each stream    *)
(* uses the guard as RunningGuard says.                                    *)
(***************************************************************************)
EXTENDS AgentStream, RunningGuard, TLAPS, FiniteSetTheorems

(* The running guard *)

\* The inductive invariant: the range of the counter needs that it never exceeds
\* the number of active agents, also when dispose() has reset it under them.
GuardIInv == GuardTypeOK /\ CountMatchesAgents /\ count <= Cardinality(Active)

LEMMA GuardStartsRight == GuardInit => GuardIInv
<1> SUFFICES ASSUME GuardInit PROVE GuardIInv
  OBVIOUS
<1>1. Active = {}
  BY DEF GuardInit, Active
<1>2. Cardinality(Active) = 0 /\ Cardinality(Agents) \in Nat
  BY <1>1, FS_EmptySet, FS_CardinalityType, GuardAssumption
<1>3. GuardTypeOK
  <2>1. stage \in [Agents -> {"idle", "starting", "running"}]
    BY DEF GuardInit
  <2>2. count \in 0 .. Cardinality(Agents)
    BY <1>2 DEF GuardInit
  <2> QED
    BY <2>1, <2>2 DEF GuardInit, GuardTypeOK
<1>4. CountMatchesAgents
  BY <1>2 DEF GuardInit, CountMatchesAgents
<1>5. count <= Cardinality(Active)
  BY <1>2 DEF GuardInit
<1> QED
  BY <1>3, <1>4, <1>5 DEF GuardIInv

\* The active agents are finite in number, and at most all of them.
LEMMA ActiveIsFinite ==
    ASSUME GuardTypeOK
    PROVE  /\ IsFiniteSet(Active) /\ Cardinality(Active) \in Nat
           /\ Cardinality(Agents) \in Nat /\ Cardinality(Active) <= Cardinality(Agents)
<1>1. Active \in SUBSET Agents
  BY DEF Active
<1> QED
  BY <1>1, FS_Subset, FS_CardinalityType, GuardAssumption

\* An agent that starts is one more, one that stops one less.
LEMMA StartAddsOne ==
    ASSUME GuardTypeOK, NEW a \in Agents, NEW x \in {"starting", "running"},
           stage[a] = "idle", stage' = [stage EXCEPT ![a] = x]
    PROVE  /\ Cardinality(Active') = Cardinality(Active) + 1
           /\ Cardinality(Active') <= Cardinality(Agents)
<1>1. Active' = Active \cup {a} /\ a \notin Active
  BY DEF GuardTypeOK, Active
<1>2. Active' \in SUBSET Agents
  BY <1>1 DEF Active
<1>3. Cardinality(Active') <= Cardinality(Agents)
  BY <1>2, FS_Subset, GuardAssumption
<1> QED
  BY <1>1, <1>3, ActiveIsFinite, FS_AddElement

LEMMA StopRemovesOne ==
    ASSUME GuardTypeOK, NEW a \in Agents, stage[a] # "idle",
           stage' = [stage EXCEPT ![a] = "idle"]
    PROVE  Active' = Active \ {a} /\ Cardinality(Active') = Cardinality(Active) - 1
<1>1. Active' = Active \ {a} /\ a \in Active
  BY DEF GuardTypeOK, Active
<1> QED
  BY <1>1, ActiveIsFinite, FS_RemoveElement

\* A step between two stages that are both active changes no count.
LEMMA SameActive ==
    ASSUME GuardTypeOK, NEW a \in Agents, stage[a] # "idle",
           stage' = [stage EXCEPT ![a] = "running"]
    PROVE  Active' = Active
  BY DEF GuardTypeOK, Active

LEMMA GuardStepKeeps == GuardIInv /\ [GuardNext]_guardVars => GuardIInv'
<1> SUFFICES ASSUME GuardIInv, [GuardNext]_guardVars PROVE GuardIInv'
  OBVIOUS
<1> USE DEF GuardIInv
<1>a. /\ IsFiniteSet(Active) /\ Cardinality(Active) \in Nat
      /\ Cardinality(Agents) \in Nat /\ Cardinality(Active) <= Cardinality(Agents)
  BY ActiveIsFinite
<1>1. ASSUME NEW a \in Agents, NotifyAgentStarted(a) PROVE GuardIInv'
  <2>1. /\ Cardinality(Active') = Cardinality(Active) + 1
        /\ Cardinality(Active') <= Cardinality(Agents)
    BY <1>1, StartAddsOne DEF NotifyAgentStarted
  <2>2. count' <= Cardinality(Active') /\ (~disposed' => count' = Cardinality(Active'))
    BY <1>1, <1>a, <2>1 DEF NotifyAgentStarted, GuardTypeOK, CountMatchesAgents
  <2> QED
    BY <1>1, <1>a, <2>1, <2>2 DEF NotifyAgentStarted, GuardTypeOK, CountMatchesAgents
<1>2. ASSUME NEW a \in Agents, NEW t \in Tasks, TaskStarted(a, t) PROVE GuardIInv'
  <2>1. Active' = Active
    BY <1>2, SameActive DEF TaskStarted
  <2> QED
    BY <1>2, <2>1 DEF TaskStarted, GuardTypeOK, CountMatchesAgents
<1>3. ASSUME NEW a \in Agents, TaskFailed(a) PROVE GuardIInv'
  <2>1. Active' = Active
    BY <1>3, SameActive DEF TaskFailed
  <2> QED
    BY <1>3, <2>1 DEF TaskFailed, GuardTypeOK, CountMatchesAgents
<1>4. ASSUME NEW a \in Agents, NotifyAgentStopped(a) PROVE GuardIInv'
  <2>1. Cardinality(Active') = Cardinality(Active) - 1 /\ Cardinality(Active') \in Nat
    <3>1. Cardinality(Active') = Cardinality(Active) - 1 /\ Active' \in SUBSET Active
      BY <1>4, StopRemovesOne DEF NotifyAgentStopped
    <3> QED
      BY <3>1, <1>a, FS_Subset, FS_CardinalityType
  <2>2. CASE count > 1
    BY <1>4, <1>a, <2>1, <2>2 DEF NotifyAgentStopped, GuardTypeOK, CountMatchesAgents
  <2>3. CASE ~(count > 1)
    BY <1>4, <1>a, <2>1, <2>3
    DEF NotifyAgentStopped, StopGuardTask, GuardTypeOK, CountMatchesAgents
  <2> QED
    BY <2>2, <2>3
<1>5. ASSUME NEW t \in Tasks, TerminalClosed(t) PROVE GuardIInv'
  BY <1>5 DEF TerminalClosed, GuardTypeOK, CountMatchesAgents, Active
<1>6. CASE Dispose
  <2>1. Active' = Active
    BY <1>6 DEF Dispose, Active
  <2> QED
    BY <1>6, <1>a, <2>1 DEF Dispose, StopGuardTask, GuardTypeOK, CountMatchesAgents
<1>7. CASE UNCHANGED guardVars
  BY <1>7 DEF guardVars, GuardTypeOK, CountMatchesAgents, Active
<1> QED
  BY <1>1, <1>2, <1>3, <1>4, <1>5, <1>6, <1>7 DEF GuardNext

\* The invariant the theorems below follow from: the type and the exact count of
\* notifyAgentStarted and notifyAgentStopped.
THEOREM GuardInductive == GuardSpec => []GuardIInv
  BY GuardStartsRight, GuardStepKeeps, PTL DEF GuardSpec

\* Every variable of the guard keeps its type; the counter never exceeds the
\* number of agents and never falls below 0.
THEOREM GuardTypeCorrect == GuardSpec => []GuardTypeOK
<1>1. GuardIInv => GuardTypeOK
  BY DEF GuardIInv
<1> QED
  BY <1>1, GuardInductive, PTL

\* Until the extension is deactivated the counter is the number of agents
\* between their start and their stop.
THEOREM CountIsExact == GuardSpec => []CountMatchesAgents
<1>1. GuardIInv => CountMatchesAgents
  BY DEF GuardIInv
<1> QED
  BY <1>1, GuardInductive, PTL

\* The handle is given up by the last agent to stop, or at deactivation.
LEMMA StepKeepsGuard ==
    GuardIInv /\ [GuardNext]_guardVars =>
        [handle # NoTask /\ handle' = NoTask => disposed' \/ stage' = [a \in Agents |-> "idle"]]_guardVars
<1> SUFFICES ASSUME GuardIInv, GuardNext, handle # NoTask, handle' = NoTask, ~disposed'
             PROVE  stage' = [a \in Agents |-> "idle"]
  BY DEF guardVars
<1> USE DEF GuardIInv
<1>1. PICK a \in Agents : NotifyAgentStopped(a)
  BY GuardAssumption DEF GuardNext, NotifyAgentStarted, TaskStarted, TaskFailed, TerminalClosed,
                         Dispose
<1>2. ~disposed /\ ~(count > 1)
  BY <1>1 DEF NotifyAgentStopped
<1>3. /\ Cardinality(Active') = Cardinality(Active) - 1 /\ IsFiniteSet(Active')
      /\ Cardinality(Active') \in Nat
  <2>1. Cardinality(Active') = Cardinality(Active) - 1 /\ Active' \in SUBSET Active
    BY <1>1, StopRemovesOne DEF NotifyAgentStopped
  <2> QED
    BY <2>1, ActiveIsFinite, FS_Subset, FS_CardinalityType
<1>4. Cardinality(Active') = 0
  BY <1>2, <1>3, ActiveIsFinite DEF CountMatchesAgents
<1>5. Active' = {}
  BY <1>3, <1>4, FS_EmptySet
<1>6. stage' \in [Agents -> {"idle", "starting", "running"}]
  BY <1>1 DEF NotifyAgentStopped, GuardTypeOK
<1> QED
  BY <1>5, <1>6 DEF Active

\* An agent that stops never takes the close warning from another.
THEOREM GuardSurvives == GuardSpec => GuardOutlivesOthers
  BY GuardInductive, StepKeepsGuard, PTL DEF GuardSpec, GuardOutlivesOthers

-----------------------------------------------------------------------------
(* The stream: its inductive invariant *)

\* The requests whose generator is between acquire() and its finally blocks.
RunningSet == {r \in Requests : pc[r] \in Running}

\* A request that has arrived has a thread.
ThreadsKnown == \A r \in Requests : pc[r] # "idle" => thread[r] \in Threads

\* The event that reaches the limit is the last one before the user is asked.
CountedWithin == \A r \in Requests : ctx[r].events < MaxEvents \/ pc[r] = "askingLimit"

\* The queue has one call for a thread, waiting or running.
OneCallPerThread ==
    \A r, s \in waiters \cup holders : thread[r] = thread[s] => r = s

\* An error that stands has been published, unless the request was stopped.
ErrorsTold == \A r \in Requests : ctx[r].errored /\ r \notin stopped => r \in reported

IInv ==
    /\ TypeOK
    /\ HeldByTheStream
    /\ EveryRequestAnswered
    /\ ThreadsKnown
    /\ CountedWithin
    /\ OneCallPerThread
    /\ StreamsCounted
    /\ ErrorsTold

LEMMA InitEstablishes == Init => IInv
<1> SUFFICES ASSUME Init PROVE IInv
  OBVIOUS
<1> USE DEF Init
<1>1. RunningSet = {}
  BY DEF RunningSet, Running, Asking
<1>2. Cardinality(RunningSet) = 0 /\ Cardinality(Requests) \in Nat
  BY <1>1, FS_EmptySet, FS_CardinalityType, StreamAssumption
<1>3. Fresh \in Contexts /\ Fresh.events < MaxEvents /\ ~Fresh.errored
  BY StreamAssumption DEF Fresh, Contexts
<1>4. TypeOK
  BY <1>2, <1>3 DEF TypeOK, Stages
<1>5. HeldByTheStream
  BY DEF HeldByTheStream, OneStreamPerThread, Running, Asking
<1>6. EveryRequestAnswered /\ ThreadsKnown
  BY DEF EveryRequestAnswered, ThreadsKnown
<1>7. CountedWithin /\ ErrorsTold
  BY <1>3 DEF CountedWithin, ErrorsTold
<1>8. OneCallPerThread
  BY DEF OneCallPerThread
<1>9. StreamsCounted
  BY <1>2 DEF StreamsCounted, RunningSet
<1> QED
  BY <1>4, <1>5, <1>6, <1>7, <1>8, <1>9 DEF IInv

-----------------------------------------------------------------------------
(* What the pool does to waiters and holders *)

\* The waiters of W that get a slot join the holders H.
HandedOn(W, H) ==
    \E G \in SUBSET W : waiters' = W \ G /\ holders' = H \cup G

LEMMA SlotGivenBack ==
    ASSUME NEW r \in Requests, Pool!GiveBack(r)
    PROVE  r \in holders /\ limit' = limit /\ HandedOn(waiters, holders \ {r})
  BY DEF Pool!GiveBack, Pool!Handover, HandedOn

LEMMA SlotAskedFor ==
    ASSUME NEW r \in Requests, Pool!Ask(r)
    PROVE  /\ r \notin waiters \cup holders /\ limit' = limit
           /\ HandedOn(waiters \cup {r}, holders)
  BY DEF Pool!Ask, Pool!Handover, HandedOn

LEMMA PoolResized ==
    ASSUME Pool!Resize
    PROVE  limit' \in Limits /\ HandedOn(waiters, holders)
  BY DEF Pool!Resize, Pool!Handover, HandedOn

-----------------------------------------------------------------------------
(* The count of the guard *)

LEMMA CountIsFinite ==
    /\ IsFiniteSet(RunningSet) /\ Cardinality(RunningSet) \in Nat
    /\ Cardinality(Requests) \in Nat /\ Cardinality(RunningSet) <= Cardinality(Requests)
<1>1. RunningSet \in SUBSET Requests
  BY DEF RunningSet
<1> QED
  BY <1>1, FS_Subset, FS_CardinalityType, StreamAssumption

\* A request that goes on as it is, running or not, is counted as it was.
LEMMA CountKept ==
    ASSUME TypeOK, StreamsCounted, agents' = agents,
           \A r \in Requests : pc'[r] \in Running <=> pc[r] \in Running
    PROVE  StreamsCounted'
<1>1. RunningSet' = RunningSet
  BY DEF RunningSet
<1> QED
  BY <1>1 DEF StreamsCounted, RunningSet

LEMMA CountRaised ==
    ASSUME TypeOK, StreamsCounted, NEW r \in Requests, pc[r] \notin Running,
           NEW p \in Running, pc' = [pc EXCEPT ![r] = p], agents' = agents + 1
    PROVE  StreamsCounted' /\ agents' \in 0 .. Cardinality(Requests)
<1>1. RunningSet' = RunningSet \cup {r} /\ r \notin RunningSet
  BY DEF RunningSet, TypeOK
<1>2. Cardinality(RunningSet') = Cardinality(RunningSet) + 1
  BY <1>1, CountIsFinite, FS_AddElement
<1>3. RunningSet' \in SUBSET Requests
  BY <1>1 DEF RunningSet
<1>4. Cardinality(RunningSet') <= Cardinality(Requests)
  BY <1>3, FS_Subset, StreamAssumption
<1> QED
  BY <1>2, <1>4, CountIsFinite DEF StreamsCounted, RunningSet

LEMMA CountLowered ==
    ASSUME TypeOK, StreamsCounted, NEW r \in Requests, pc[r] \in Running,
           pc' = [pc EXCEPT ![r] = "done"],
           agents' = IF agents = 0 THEN 0 ELSE agents - 1
    PROVE  /\ StreamsCounted' /\ agents \in Nat \ {0} /\ agents' = agents - 1
           /\ agents' \in 0 .. Cardinality(Requests)
<1>1. RunningSet' = RunningSet \ {r} /\ r \in RunningSet
  BY DEF RunningSet, TypeOK, Running, Asking
<1>2. Cardinality(RunningSet') = Cardinality(RunningSet) - 1
  BY <1>1, CountIsFinite, FS_RemoveElement
<1>3. Cardinality(RunningSet) # 0
  BY <1>1, CountIsFinite, FS_EmptySet
<1> QED
  BY <1>2, <1>3, CountIsFinite DEF StreamsCounted, RunningSet

-----------------------------------------------------------------------------
(* What a step of the service makes of a running request *)

\* What no step of the service changes, and what it may.
Frame ==
    /\ UNCHANGED <<thread, stopped, limit>>
    /\ streaming' \subseteq Requests /\ denied' \subseteq Requests
    /\ reported \subseteq reported' /\ reported' \subseteq Requests
    /\ completed \subseteq completed' /\ completed' \subseteq Requests
    /\ lost' \in [Requests -> {"nowhere", "limit", "failover"}]

\* It goes on at p with context c.
GoesOn(r, p, c) ==
    /\ GoOn(r, p, c)
    /\ p \in Running \ {"starting"} /\ c \in Contexts
    /\ c.events < MaxEvents \/ p = "askingLimit"
    /\ c.errored /\ r \notin stopped => r \in reported'

\* It ends, and the user knows how, or has stopped it.
Ends(r) ==
    /\ Finish(r)
    /\ pc[r] # "starting"
    /\ r \in stopped \/ r \in reported' \cup completed'

Advances(r) ==
    /\ pc[r] \in Running
    /\ Frame
    /\ Ends(r) \/ \E p, c : GoesOn(r, p, c)

\* Going on keeps the invariant.
LEMMA GoingOnKeeps ==
    ASSUME IInv, NEW r \in Requests, pc[r] \in Running, Frame,
           NEW p, NEW c, GoesOn(r, p, c)
    PROVE  IInv'
<1> USE DEF IInv
<1>1. /\ pc' = [pc EXCEPT ![r] = p] /\ ctx' = [ctx EXCEPT ![r] = c]
      /\ waiters' = waiters /\ holders' = holders /\ activeStreams' = activeStreams
      /\ agents' = agents /\ p \in Running /\ c \in Contexts
  BY DEF GoesOn, GoOn, resources
<1>2. /\ thread' = thread /\ stopped' = stopped /\ limit' = limit
      /\ reported \subseteq reported' /\ completed \subseteq completed'
  BY DEF Frame
<1>3. \A s \in Requests : /\ pc'[s] = IF s = r THEN p ELSE pc[s]
                          /\ ctx'[s] = IF s = r THEN c ELSE ctx[s]
  BY <1>1 DEF TypeOK
<1>4. \A s \in Requests : pc'[s] \in Running <=> pc[s] \in Running
  BY <1>1, <1>3
<1>5. "idle" \notin Running /\ "queued" \notin Running /\ "done" \notin Running
  BY DEF Running, Asking
<1>6. TypeOK'
  BY <1>1, <1>2 DEF TypeOK, Stages, Frame
<1>7. HeldByTheStream'
  BY <1>1, <1>2, <1>3, <1>4, <1>5 DEF HeldByTheStream, OneStreamPerThread, TypeOK
<1>8. EveryRequestAnswered'
  BY <1>1, <1>2, <1>3, <1>5 DEF EveryRequestAnswered
<1>9. ThreadsKnown'
  BY <1>2, <1>3, <1>5 DEF ThreadsKnown
<1>10. CountedWithin'
  BY <1>3 DEF CountedWithin, GoesOn
<1>11. OneCallPerThread'
  BY <1>1, <1>2 DEF OneCallPerThread
<1>12. StreamsCounted'
  BY <1>1, <1>4, CountKept
<1>13. ErrorsTold'
  BY <1>2, <1>3 DEF ErrorsTold, GoesOn
<1> QED
  BY <1>6, <1>7, <1>8, <1>9, <1>10, <1>11, <1>12, <1>13

\* Ending keeps it: the slot may go to a waiter at once.
LEMMA EndingKeeps ==
    ASSUME IInv, NEW r \in Requests, pc[r] \in Running, Frame, Ends(r)
    PROVE  IInv'
<1> USE DEF IInv
<1>1. /\ pc' = [pc EXCEPT ![r] = "done"] /\ ctx' = [ctx EXCEPT ![r] = Fresh]
      /\ activeStreams' = [activeStreams EXCEPT ![thread[r]] = None]
      /\ agents' = IF agents = 0 THEN 0 ELSE agents - 1
      /\ Pool!GiveBack(r)
  BY DEF Ends, Finish
<1>2. /\ thread' = thread /\ stopped' = stopped /\ limit' = limit
      /\ reported \subseteq reported' /\ completed \subseteq completed'
  BY DEF Frame
<1>3. \A s \in Requests : /\ pc'[s] = IF s = r THEN "done" ELSE pc[s]
                          /\ ctx'[s] = IF s = r THEN Fresh ELSE ctx[s]
  BY <1>1 DEF TypeOK
<1>4. "idle" \notin Running /\ "queued" \notin Running /\ "done" \notin Running
  BY DEF Running, Asking
<1>5. PICK G \in SUBSET waiters : waiters' = waiters \ G /\ holders' = (holders \ {r}) \cup G
  BY <1>1, SlotGivenBack DEF HandedOn
<1>6. thread[r] \in Threads
  BY <1>4 DEF ThreadsKnown
<1>7. \A t \in Threads : activeStreams'[t] = IF t = thread[r] THEN None ELSE activeStreams[t]
  BY <1>1, <1>6 DEF TypeOK
<1>8. StreamsCounted' /\ agents' \in 0 .. Cardinality(Requests)
  BY <1>1, CountLowered
<1>9. Fresh \in Contexts /\ Fresh.events < MaxEvents /\ ~Fresh.errored
  BY StreamAssumption DEF Fresh, Contexts
<1>10. TypeOK'
  <2>1. waiters' \cup holders' \subseteq Requests
    BY <1>5 DEF TypeOK
  <2>2. pc' \in [Requests -> Stages] /\ ctx' \in [Requests -> Contexts]
    BY <1>1, <1>9 DEF TypeOK, Stages
  <2>3. activeStreams' \in [Threads -> Requests \cup {None}]
    BY <1>1 DEF TypeOK
  <2> QED
    BY <1>2, <1>8, <2>1, <2>2, <2>3 DEF TypeOK, Frame
<1>11. HeldByTheStream'
  <2>1. waiters \subseteq Requests /\ holders \subseteq Requests /\ None \notin Requests
    BY StreamAssumption DEF TypeOK
  <2>2. /\ \A s \in Requests : s \in waiters <=> pc[s] = "queued" /\ s \notin holders
        /\ \A s \in holders : pc[s] \in Running \/ pc[s] = "queued"
        /\ \A s \in Requests : pc[s] \in Running => s \in holders
    BY <2>1 DEF HeldByTheStream
  <2>3. waiters' = {s \in Requests : pc'[s] = "queued"} \ holders'
    BY <1>3, <1>4, <1>5, <2>1, <2>2
  <2>4. holders' \subseteq {s \in Requests : pc'[s] \in Running \cup {"queued"}}
    BY <1>3, <1>4, <1>5, <2>1, <2>2
  <2>5. \A s \in Requests : pc'[s] \in Running => s \in holders'
    BY <1>3, <1>4, <1>5, <2>2
  <2>6. \A t \in Threads : activeStreams'[t] # None =>
           pc'[activeStreams'[t]] \in Running /\ thread'[activeStreams'[t]] = t
    <3> SUFFICES ASSUME NEW t \in Threads, activeStreams'[t] # None
                 PROVE  pc'[activeStreams'[t]] \in Running /\ thread'[activeStreams'[t]] = t
      OBVIOUS
    <3>1. t # thread[r] /\ activeStreams'[t] = activeStreams[t]
      BY <1>7
    <3>2. /\ activeStreams[t] \in Requests /\ pc[activeStreams[t]] \in Running
          /\ thread[activeStreams[t]] = t
      BY <3>1 DEF HeldByTheStream, TypeOK
    <3> QED
      BY <1>2, <1>3, <3>1, <3>2
  <2>7. OneStreamPerThread'
    BY <1>2, <1>3, <1>4 DEF HeldByTheStream, OneStreamPerThread
  <2> QED
    BY <2>3, <2>4, <2>5, <2>6, <2>7 DEF HeldByTheStream
<1>12. EveryRequestAnswered'
  BY <1>2, <1>3 DEF EveryRequestAnswered, Ends
<1>13. ThreadsKnown'
  BY <1>2, <1>3, <1>6 DEF ThreadsKnown
<1>14. CountedWithin'
  <2>1. pc[r] \in Running /\ \A s \in Requests : s # r => pc'[s] = pc[s] /\ ctx'[s] = ctx[s]
    BY <1>3
  <2> QED
    BY <1>3, <1>9, <2>1 DEF CountedWithin
<1>15. OneCallPerThread'
  BY <1>2, <1>5 DEF OneCallPerThread
<1>16. ErrorsTold'
  BY <1>2, <1>3, <1>9 DEF ErrorsTold
<1> QED
  BY <1>8, <1>10, <1>11, <1>12, <1>13, <1>14, <1>15, <1>16

LEMMA AdvanceKeeps ==
    ASSUME IInv, NEW r \in Requests, Advances(r)
    PROVE  IInv'
  BY GoingOnKeeps, EndingKeeps DEF Advances

\* A yield goes on, or its consumer leaves a request that was stopped.
LEMMA YieldAdvances ==
    ASSUME NEW r \in Requests, pc[r] \in Running \ {"starting"}, Frame,
           NEW p \in Running \ {"starting"}, NEW c \in Contexts, YieldTo(r, p, c),
           c.events < MaxEvents \/ p = "askingLimit",
           c.errored /\ r \notin stopped => r \in reported'
    PROVE  Advances(r)
<1>1. CASE r \in stopped
  BY <1>1 DEF YieldTo, Advances, Ends
<1>2. CASE r \notin stopped
  <2>1. GoesOn(r, p, c)
    BY <1>2 DEF YieldTo, GoesOn
  <2> QED
    BY <2>1 DEF Advances
<1> QED
  BY <1>1, <1>2

\* What is known of the context of a request.
LEMMA ContextKnown ==
    ASSUME IInv, NEW r \in Requests
    PROVE  /\ ctx[r] \in Contexts
           /\ pc[r] # "askingLimit" => ctx[r].events < MaxEvents
           /\ ctx[r].errored /\ r \notin stopped => r \in reported
           /\ [ctx[r] EXCEPT !.errored = TRUE] \in Contexts
           /\ [ctx[r] EXCEPT !.errored = FALSE] \in Contexts
           /\ [ctx[r] EXCEPT !.spent = FALSE] \in Contexts
           /\ WithinLimit(r) => Counted(r) \in Contexts
           /\ pc[r] # "askingLimit" => Counted(r) \in Contexts
<1>1. ctx[r] \in Contexts
  BY DEF IInv, TypeOK
<1>2. pc[r] # "askingLimit" => ctx[r].events < MaxEvents
  BY DEF IInv, CountedWithin
<1>3. ctx[r].errored /\ r \notin stopped => r \in reported
  BY DEF IInv, ErrorsTold
<1>4. MaxEvents \in Nat
  BY StreamAssumption
<1>5. /\ [ctx[r] EXCEPT !.errored = TRUE] \in Contexts
      /\ [ctx[r] EXCEPT !.errored = FALSE] \in Contexts
      /\ [ctx[r] EXCEPT !.spent = FALSE] \in Contexts
  BY <1>1 DEF Contexts
<1>6. WithinLimit(r) => Counted(r) \in Contexts
  BY <1>1, <1>4 DEF Contexts, WithinLimit, Counted
<1>7. pc[r] # "askingLimit" => Counted(r) \in Contexts
  BY <1>1, <1>2, <1>4 DEF Contexts, Counted
<1> QED
  BY <1>1, <1>2, <1>3, <1>5, <1>6, <1>7

\* Giving up publishes the error and goes on to throw it again.
LEMMA GiveUpAdvances ==
    ASSUME IInv, NEW r \in Requests, pc[r] \in Running \ {"starting", "askingLimit"},
           UNCHANGED <<thread, stopped, limit, streaming, denied>>, GiveUp(r)
    PROVE  Advances(r)
<1>1. Frame /\ (r \notin stopped => r \in reported')
  BY DEF GiveUp, Report, Frame, IInv, TypeOK
<1> DEFINE c == [ctx[r] EXCEPT !.errored = TRUE]
<1>2. c \in Contexts /\ c.events < MaxEvents
  BY ContextKnown DEF Contexts
<1>3. YieldTo(r, "rethrowing", c) /\ "rethrowing" \in Running \ {"starting"}
  BY DEF GiveUp, Running
<1> HIDE DEF c
<1> QED
  BY <1>1, <1>2, <1>3, YieldAdvances

LEMMA FailAdvances ==
    ASSUME IInv, NEW r \in Requests, pc[r] \in Running \ {"starting", "askingLimit"},
           UNCHANGED <<thread, stopped, limit, streaming, denied>>, Fail(r)
    PROVE  Advances(r)
<1>1. CASE GiveUp(r)
  BY <1>1, GiveUpAdvances
<1>2. CASE YieldTo(r, "switching", ctx[r]) /\ UNCHANGED told
  <2>1. Frame
    BY <1>2 DEF Frame, told, IInv, TypeOK
  <2>2. "switching" \in Running \ {"starting"}
    BY DEF Running
  <2>3. reported' = reported
    BY <1>2 DEF told
  <2> QED
    BY <1>2, <2>1, <2>2, <2>3, ContextKnown, YieldAdvances
<1> QED
  BY <1>1, <1>2 DEF Fail

\* emitCompletion ends the stream, and what it does not tell has been told.
LEMMA CompleteAdvances ==
    ASSUME IInv, NEW r \in Requests, pc[r] \in Running \ {"starting"},
           UNCHANGED <<thread, stopped, limit>>, denied' \subseteq denied, Complete(r)
    PROVE  Advances(r)
<1>1. Frame
  BY DEF Frame, Complete, IInv, TypeOK
<1>2. r \in stopped \/ r \in reported' \cup completed'
  BY ContextKnown DEF Complete
<1> QED
  BY <1>1, <1>2 DEF Advances, Ends, Complete

\* Every step of the service after acquire() has resolved lets the request
\* advance, whatever the agent sends and wherever it throws.
LEMMA StepAdvances ==
    ASSUME IInv, NEW r \in Requests, Step(r), ~Begin(r)
    PROVE  Advances(r)
<1> DEFINE d == ctx[r]
<1>c. /\ d \in Contexts
      /\ pc[r] # "askingLimit" => d.events < MaxEvents
      /\ d.errored /\ r \notin stopped => r \in reported
      /\ [d EXCEPT !.errored = TRUE] \in Contexts
      /\ [d EXCEPT !.errored = FALSE] \in Contexts
      /\ [d EXCEPT !.spent = FALSE] \in Contexts
      /\ WithinLimit(r) => Counted(r) \in Contexts
      /\ pc[r] # "askingLimit" => Counted(r) \in Contexts
  BY ContextKnown
<1>n. 0 < MaxEvents /\ MaxEvents \in Nat /\ MaxRetries \in Nat /\ MaxGrants \in Nat
  BY StreamAssumption
<1>p. /\ Running = {"starting", "creating", "opening", "reading", "backoff", "switching",
                    "draining", "rethrowing", "askingLimit", "askingTool"}
  BY DEF Running, Asking
<1>f. UNCHANGED <<thread, stopped, limit, streaming, denied, told>> =>
         Frame /\ reported' = reported
  BY DEF Frame, told, IInv, TypeOK
<1>s. UNCHANGED <<thread, stopped, limit, denied, told>> /\ streaming' = streaming \cup {r} =>
         Frame /\ reported' = reported
  BY DEF Frame, told, IInv, TypeOK
<1>e. UNCHANGED <<thread, stopped, limit, streaming, denied>> /\ Report(r) =>
         Frame /\ (r \notin stopped => r \in reported')
  BY DEF Frame, Report, IInv, TypeOK
<1>w. WithinLimit(r) => Counted(r).events < MaxEvents /\ Counted(r).errored = d.errored
  BY <1>c, <1>n DEF Contexts, WithinLimit, Counted
<1>1. ASSUME Guarded(r) PROVE Advances(r)
  <2>1. GoesOn(r, "creating", d) /\ Frame
    BY <1>1, <1>c, <1>f, <1>p DEF Guarded, GoesOn
  <2> QED
    BY <2>1, <1>1, <1>p DEF Guarded, Advances
<1>2. ASSUME StartStream(r) PROVE Advances(r)
  BY <1>2, <1>c, <1>s, <1>p, YieldAdvances DEF StartStream
<1>3. ASSUME Open(r) PROVE Advances(r)
  <2>1. GoesOn(r, "reading", d) /\ Frame
    BY <1>3, <1>c, <1>f, <1>p DEF Open, GoesOn
  <2> QED
    BY <2>1, <1>3, <1>p DEF Open, Advances
<1>4. ASSUME OpenFails(r) PROVE Advances(r)
  BY <1>4, <1>p, FailAdvances DEF OpenFails
<1>5. ASSUME EndOfStream(r) PROVE Advances(r)
  BY <1>5, <1>p, CompleteAdvances DEF EndOfStream
<1>6. ASSUME NodeUpdate(r) PROVE Advances(r)
  <2>1. /\ Frame /\ reported' = reported /\ pc[r] = "reading" /\ Counted(r) \in Contexts
        /\ Counted(r).events < MaxEvents /\ Counted(r).errored = d.errored
    BY <1>6, <1>c, <1>f, <1>w DEF NodeUpdate, Reads
  <2>2. CASE YieldTo(r, "reading", Counted(r))
    BY <2>1, <2>2, <1>c, <1>p, YieldAdvances
  <2>3. CASE GoOn(r, "reading", Counted(r))
    <3>1. GoesOn(r, "reading", Counted(r))
      BY <2>1, <2>3, <1>c, <1>p DEF GoesOn
    <3> QED
      BY <3>1, <2>1, <1>p DEF Advances
  <2> QED
    BY <1>6, <2>2, <2>3 DEF NodeUpdate
<1>7. ASSUME LoopDetected(r) PROVE Advances(r)
  <2> DEFINE c == [Counted(r) EXCEPT !.errored = TRUE]
  <2>1. pc[r] = "reading" /\ Frame /\ (r \notin stopped => r \in reported')
    BY <1>7, <1>e DEF LoopDetected, Reads
  <2>2. c \in Contexts /\ c.events < MaxEvents
    BY <1>7, <1>c, <1>w DEF LoopDetected, Contexts
  <2>3. YieldTo(r, "reading", c)
    BY <1>7 DEF LoopDetected
  <2> HIDE DEF c
  <2> QED
    BY <2>1, <2>2, <2>3, <1>p, YieldAdvances
<1>8. ASSUME Interrupt(r) PROVE Advances(r)
  <2> DEFINE c == [Counted(r) EXCEPT !.spent = TRUE]
  <2>1. pc[r] = "reading" /\ Frame /\ reported' = reported
    BY <1>8, <1>f DEF Interrupt, Reads
  <2>2. c \in Contexts /\ c.events < MaxEvents /\ c.errored = d.errored
    BY <1>8, <1>c, <1>w DEF Interrupt, Contexts
  <2>3. YieldTo(r, "askingTool", c)
    BY <1>8 DEF Interrupt
  <2> HIDE DEF c
  <2> QED
    BY <2>1, <2>2, <2>3, <1>c, <1>p, YieldAdvances
<1>9. ASSUME NEW i \in BOOLEAN, LimitReached(r, i) PROVE Advances(r)
  <2> DEFINE c == [Counted(r) EXCEPT !.spent = i]
  <2>1. pc[r] = "reading" /\ Frame /\ reported' = reported
    BY <1>9, <1>f DEF LimitReached, Reads
  <2>2. c \in Contexts /\ c.errored = d.errored
    BY <2>1, <1>c DEF Contexts, Counted
  <2>3. YieldTo(r, "askingLimit", c)
    BY <1>9 DEF LimitReached
  <2> HIDE DEF c
  <2> QED
    BY <2>1, <2>2, <2>3, <1>c, <1>p, YieldAdvances
<1>10. ASSUME LimitLifted(r) PROVE Advances(r)
  <2> DEFINE c == [d EXCEPT !.events = 0, !.grants = @ + 1]
  <2>1. pc[r] = "askingLimit" /\ d.grants < MaxGrants
    BY <1>10 DEF LimitLifted
  <2>2. /\ UNCHANGED <<thread, stopped, limit, streaming, reported, completed>>
        /\ denied' = denied \ {r}
    BY <1>10 DEF LimitLifted, Settled
  <2>3. lost' \in [Requests -> {"nowhere", "limit", "failover"}]
    BY <1>10 DEF LimitLifted, IInv, TypeOK
  <2>4. Frame
    BY <2>2, <2>3 DEF Frame, IInv, TypeOK
  <2>5. c \in Contexts /\ c.events < MaxEvents /\ c.errored = d.errored
    <3>1. d.grants + 1 \in 0 .. MaxGrants /\ 0 \in 0 .. MaxEvents
      BY <2>1, <1>c, <1>n DEF Contexts
    <3>2. c.events = 0 /\ c.errored = d.errored
      BY <1>c DEF Contexts
    <3> QED
      BY <3>1, <3>2, <1>c, <1>n DEF Contexts
  <2>6. YieldTo(r, "reading", c)
    BY <1>10 DEF LimitLifted
  <2> HIDE DEF c
  <2> QED
    BY <2>1, <2>2, <2>4, <2>5, <2>6, <1>c, <1>p, YieldAdvances
<1>11. ASSUME LimitUpheld(r) PROVE Advances(r)
  <2>1. UNCHANGED <<thread, stopped, limit>> /\ denied' \subseteq denied
    BY <1>11 DEF LimitUpheld, Settled
  <2> QED
    BY <1>11, <2>1, <1>p, CompleteAdvances DEF LimitUpheld
<1>12. ASSUME NEW g \in BOOLEAN, Resume(r, g) PROVE Advances(r)
  <2> DEFINE c == [d EXCEPT !.spent = FALSE]
  <2>1. /\ pc[r] = "askingTool" /\ denied' = denied \ {r}
        /\ UNCHANGED <<thread, stopped, limit, streaming, reported, completed, lost>>
    BY <1>12 DEF Resume, Settled, told
  <2>2. Frame
    BY <2>1 DEF Frame, IInv, TypeOK
  <2>3. c \in Contexts /\ c.events < MaxEvents /\ c.errored = d.errored
    BY <2>1, <1>c DEF Contexts
  <2>4. YieldTo(r, "reading", c)
    BY <1>12 DEF Resume
  <2> HIDE DEF c
  <2> QED
    BY <2>1, <2>2, <2>3, <2>4, <1>c, <1>p, YieldAdvances
<1>13. ASSUME NEW g \in BOOLEAN, ResumeFails(r, g) PROVE Advances(r)
  <2> DEFINE c == [d EXCEPT !.errored = TRUE]
  <2>1. /\ pc[r] = "askingTool" /\ denied' = denied \ {r} /\ Report(r)
        /\ UNCHANGED <<thread, stopped, limit, streaming>>
    BY <1>13 DEF ResumeFails, Settled
  <2>2. Frame /\ (r \notin stopped => r \in reported')
    BY <2>1 DEF Frame, Report, IInv, TypeOK
  <2>3. c \in Contexts /\ c.events < MaxEvents
    BY <2>1, <1>c DEF Contexts
  <2>4. YieldTo(r, "reading", c)
    BY <1>13 DEF ResumeFails
  <2> HIDE DEF c
  <2> QED
    BY <2>1, <2>2, <2>3, <2>4, <1>p, YieldAdvances
<1>14. ASSUME Retry(r) PROVE Advances(r)
  <2> DEFINE c == [d EXCEPT !.retries = @ + 1]
  <2>1. pc[r] = "reading" /\ Frame /\ reported' = reported /\ d.retries < MaxRetries
    BY <1>14, <1>f DEF Retry
  <2>2. c \in Contexts /\ c.events < MaxEvents /\ c.errored = d.errored
    BY <2>1, <1>c, <1>n DEF Contexts
  <2>3. YieldTo(r, "backoff", c)
    BY <1>14 DEF Retry
  <2> HIDE DEF c
  <2> QED
    BY <2>1, <2>2, <2>3, <1>c, <1>p, YieldAdvances
<1>15. ASSUME Reopen(r) PROVE Advances(r)
  <2> DEFINE c == [d EXCEPT !.errored = FALSE]
  <2>1. pc[r] = "backoff" /\ Frame /\ GoOn(r, "reading", c)
    BY <1>15, <1>f DEF Reopen
  <2>2. c \in Contexts /\ c.events < MaxEvents /\ ~c.errored
    BY <2>1, <1>c DEF Contexts
  <2> HIDE DEF c
  <2>3. GoesOn(r, "reading", c)
    BY <2>1, <2>2, <1>p DEF GoesOn
  <2> QED
    BY <2>1, <2>3, <1>p DEF Advances
<1>16. ASSUME StreamFails(r) PROVE Advances(r)
  BY <1>16, <1>p, FailAdvances DEF StreamFails
<1>17. ASSUME Switch(r) PROVE Advances(r)
  <2> DEFINE c == [d EXCEPT !.errored = FALSE]
  <2>1. pc[r] = "switching" /\ Frame /\ GoOn(r, "draining", c)
    BY <1>17, <1>f DEF Switch
  <2>2. c \in Contexts /\ c.events < MaxEvents /\ ~c.errored
    BY <2>1, <1>c DEF Contexts
  <2> HIDE DEF c
  <2>3. GoesOn(r, "draining", c)
    BY <2>1, <2>2, <1>p DEF GoesOn
  <2> QED
    BY <2>1, <2>3, <1>p DEF Advances
<1>18. ASSUME DrainUpdate(r) PROVE Advances(r)
  <2>1. /\ pc[r] = "draining" /\ Counted(r) \in Contexts
        /\ UNCHANGED <<thread, stopped, limit, streaming, denied>>
        /\ Counted(r).events < MaxEvents /\ Counted(r).errored = d.errored
    BY <1>18, <1>c, <1>w DEF DrainUpdate
  <2>2. CASE YieldTo(r, "draining", Counted(r)) /\ UNCHANGED told
    <3>1. Frame /\ reported' = reported
      BY <2>1, <2>2, <1>f
    <3> QED
      BY <2>1, <2>2, <3>1, <1>c, <1>p, YieldAdvances
  <2>3. CASE YieldTo(r, "draining", [Counted(r) EXCEPT !.errored = TRUE]) /\ Report(r)
    <3> DEFINE c == [Counted(r) EXCEPT !.errored = TRUE]
    <3>1. Frame /\ (r \notin stopped => r \in reported')
      BY <2>1, <2>3, <1>e
    <3>2. c \in Contexts /\ c.events < MaxEvents /\ YieldTo(r, "draining", c)
      BY <2>1, <2>3 DEF Contexts
    <3> HIDE DEF c
    <3> QED
      BY <2>1, <3>1, <3>2, <1>p, YieldAdvances
  <2>4. CASE /\ GoOn(r, "draining", [Counted(r) EXCEPT !.spent = TRUE])
             /\ lost' = [lost EXCEPT ![r] = "failover"]
             /\ UNCHANGED <<reported, completed>>
    <3> DEFINE c == [Counted(r) EXCEPT !.spent = TRUE]
    <3>1. Frame
      BY <2>1, <2>4 DEF Frame, IInv, TypeOK
    <3>2. /\ c \in Contexts /\ c.events < MaxEvents /\ c.errored = d.errored
          /\ GoOn(r, "draining", c) /\ reported' = reported
      BY <2>1, <2>4 DEF Contexts
    <3> HIDE DEF c
    <3>3. GoesOn(r, "draining", c)
      BY <3>2, <1>c, <1>p DEF GoesOn
    <3> QED
      BY <2>1, <3>1, <3>3, <1>p DEF Advances
  <2> QED
    BY <1>18, <2>2, <2>3, <2>4 DEF DrainUpdate
<1>19. ASSUME DrainEnds(r) PROVE Advances(r)
  BY <1>19, <1>p, CompleteAdvances DEF DrainEnds
<1>20. ASSUME SwitchFails(r) PROVE Advances(r)
  BY <1>20, <1>p, GiveUpAdvances DEF SwitchFails
<1>21. ASSUME Rethrow(r) PROVE Advances(r)
  <2>1. Frame /\ Ends(r)
    BY <1>21 DEF Rethrow, Frame, Ends, IInv, TypeOK
  <2> QED
    BY <1>21, <2>1, <1>p DEF Rethrow, Advances
<1> QED
  BY <1>1, <1>2, <1>3, <1>4, <1>5, <1>6, <1>7, <1>8, <1>9, <1>10, <1>11, <1>12, <1>13,
     <1>14, <1>15, <1>16, <1>17, <1>18, <1>19, <1>20, <1>21 DEF Step

-----------------------------------------------------------------------------
(* Arrivals, the stop button and the setting *)

\* What the slots of the requests amount to, request by request.
LEMMA SlotsKnown ==
    ASSUME IInv
    PROVE  /\ waiters \subseteq Requests /\ holders \subseteq Requests
           /\ \A s \in Requests : s \in waiters <=> pc[s] = "queued" /\ s \notin holders
           /\ \A s \in holders : pc[s] \in Running \/ pc[s] = "queued"
           /\ \A s \in Requests : pc[s] \in Running => s \in holders
           /\ "idle" \notin Running /\ "queued" \notin Running /\ "done" \notin Running
<1>1. waiters \subseteq Requests /\ holders \subseteq Requests
  BY DEF IInv, TypeOK
<1>2. "idle" \notin Running /\ "queued" \notin Running /\ "done" \notin Running
  BY DEF Running, Asking
<1> QED
  BY <1>1, <1>2 DEF IInv, HeldByTheStream

\* A registration outlives a step that neither registers nor ends a stream.
LEMMA RegistrationsKept ==
    ASSUME IInv, \A s \in Requests : pc[s] \in Running => pc'[s] = pc[s] /\ thread'[s] = thread[s],
           \A t \in Threads : activeStreams'[t] \in {activeStreams[t], None}
    PROVE  \A t \in Threads : activeStreams'[t] # None =>
              pc'[activeStreams'[t]] \in Running /\ thread'[activeStreams'[t]] = t
<1> SUFFICES ASSUME NEW t \in Threads, activeStreams'[t] # None
             PROVE  pc'[activeStreams'[t]] \in Running /\ thread'[activeStreams'[t]] = t
  OBVIOUS
<1>1. activeStreams'[t] = activeStreams[t] /\ activeStreams[t] \in Requests
  BY DEF IInv, TypeOK
<1>2. pc[activeStreams[t]] \in Running /\ thread[activeStreams[t]] = t
  BY <1>1 DEF IInv, HeldByTheStream
<1> QED
  BY <1>1, <1>2

LEMMA RefusedKeeps ==
    ASSUME IInv, NEW r \in Requests, NEW t \in Threads, Refused(r, t)
    PROVE  IInv'
<1> USE DEF IInv
<1>1. /\ pc[r] = "idle" /\ pc' = [pc EXCEPT ![r] = "done"]
      /\ thread' = [thread EXCEPT ![r] = t] /\ Report(r)
      /\ UNCHANGED <<ctx, stopped, limit, streaming, denied>>
      /\ waiters' = waiters /\ holders' = holders /\ activeStreams' = activeStreams
      /\ agents' = agents
  BY DEF Refused, resources
<1>2. \A s \in Requests : /\ pc'[s] = IF s = r THEN "done" ELSE pc[s]
                          /\ thread'[s] = IF s = r THEN t ELSE thread[s]
  BY <1>1 DEF TypeOK
<1>3. /\ waiters \subseteq Requests /\ holders \subseteq Requests
      /\ \A s \in Requests : s \in waiters <=> pc[s] = "queued" /\ s \notin holders
      /\ \A s \in holders : pc[s] \in Running \/ pc[s] = "queued"
      /\ \A s \in Requests : pc[s] \in Running => s \in holders
      /\ "idle" \notin Running /\ "queued" \notin Running /\ "done" \notin Running
  BY SlotsKnown
<1>4. r \notin waiters /\ r \notin holders
  BY <1>1, <1>3
<1>5. TypeOK'
  BY <1>1 DEF TypeOK, Stages, Report
<1>6. HeldByTheStream'
  <2>1. \A s \in Requests : pc[s] \in Running => pc'[s] = pc[s] /\ thread'[s] = thread[s]
    BY <1>1, <1>2, <1>3
  <2>2. \A u \in Threads : activeStreams'[u] # None =>
           pc'[activeStreams'[u]] \in Running /\ thread'[activeStreams'[u]] = u
    BY <1>1, <2>1, RegistrationsKept
  <2>3. waiters' = {s \in Requests : pc'[s] = "queued"} \ holders'
    BY <1>1, <1>2, <1>3
  <2>4. /\ holders' \subseteq {s \in Requests : pc'[s] \in Running \cup {"queued"}}
        /\ \A s \in Requests : pc'[s] \in Running => s \in holders'
    BY <1>1, <1>2, <1>3, <1>4
  <2>5. OneStreamPerThread'
    BY <1>2, <1>3 DEF HeldByTheStream, OneStreamPerThread
  <2> QED
    BY <2>2, <2>3, <2>4, <2>5 DEF HeldByTheStream
<1>7. EveryRequestAnswered'
  BY <1>1, <1>2 DEF EveryRequestAnswered, Report
<1>8. ThreadsKnown'
  BY <1>2 DEF ThreadsKnown
<1>9. CountedWithin'
  BY <1>1, <1>2 DEF CountedWithin
<1>10. OneCallPerThread'
  BY <1>1, <1>2, <1>3, <1>4 DEF OneCallPerThread
<1>11. StreamsCounted'
  BY <1>1, <1>2, <1>3, CountKept
<1>12. ErrorsTold'
  BY <1>1 DEF ErrorsTold, Report
<1> QED
  BY <1>5, <1>6, <1>7, <1>8, <1>9, <1>10, <1>11, <1>12

\* acquire() lets no second call of a thread in.
LEMMA EnqueueKeeps ==
    ASSUME IInv, NEW r \in Requests, NEW t \in Threads, Enqueue(r, t)
    PROVE  IInv'
<1> USE DEF IInv
<1>1. /\ pc[r] = "idle" /\ pc' = [pc EXCEPT ![r] = "queued"] /\ ~Duplicate(t)
      /\ thread' = [thread EXCEPT ![r] = t] /\ Pool!Ask(r)
      /\ UNCHANGED <<ctx, stopped, streaming, denied, activeStreams, agents>>
      /\ reported' = reported /\ completed' = completed /\ lost' = lost /\ limit' = limit
  BY DEF Enqueue, told
<1>2. \A s \in Requests : /\ pc'[s] = IF s = r THEN "queued" ELSE pc[s]
                          /\ thread'[s] = IF s = r THEN t ELSE thread[s]
  BY <1>1 DEF TypeOK
<1>3. /\ waiters \subseteq Requests /\ holders \subseteq Requests
      /\ \A s \in Requests : s \in waiters <=> pc[s] = "queued" /\ s \notin holders
      /\ \A s \in holders : pc[s] \in Running \/ pc[s] = "queued"
      /\ \A s \in Requests : pc[s] \in Running => s \in holders
      /\ "idle" \notin Running /\ "queued" \notin Running /\ "done" \notin Running
  BY SlotsKnown
<1>4. PICK G \in SUBSET (waiters \cup {r}) :
         waiters' = (waiters \cup {r}) \ G /\ holders' = holders \cup G
  BY <1>1, SlotAskedFor DEF HandedOn
<1>5. r \notin waiters /\ r \notin holders
  BY <1>1, <1>3
<1>6. TypeOK'
  <2>1. waiters' \cup holders' \subseteq Requests
    BY <1>3, <1>4
  <2>2. pc' \in [Requests -> Stages] /\ thread' \in [Requests -> Threads \cup {None}]
    BY <1>1 DEF TypeOK, Stages
  <2> QED
    BY <1>1, <2>1, <2>2 DEF TypeOK
<1>7. HeldByTheStream'
  <2>1. \A s \in Requests : pc[s] \in Running => pc'[s] = pc[s] /\ thread'[s] = thread[s]
    BY <1>1, <1>2, <1>3
  <2>2. \A u \in Threads : activeStreams'[u] # None =>
           pc'[activeStreams'[u]] \in Running /\ thread'[activeStreams'[u]] = u
    BY <1>1, <2>1, RegistrationsKept
  <2>3. waiters' = {s \in Requests : pc'[s] = "queued"} \ holders'
    BY <1>2, <1>3, <1>4, <1>5
  <2>4. holders' \subseteq {s \in Requests : pc'[s] \in Running \cup {"queued"}}
    BY <1>2, <1>3, <1>4, <1>5
  <2>5. \A s \in Requests : pc'[s] \in Running => s \in holders'
    BY <1>2, <1>3, <1>4
  <2>6. OneStreamPerThread'
    BY <1>2, <1>3 DEF HeldByTheStream, OneStreamPerThread
  <2> QED
    BY <2>2, <2>3, <2>4, <2>5, <2>6 DEF HeldByTheStream
<1>8. EveryRequestAnswered'
  BY <1>1, <1>2 DEF EveryRequestAnswered
<1>9. ThreadsKnown'
  BY <1>2 DEF ThreadsKnown
<1>10. CountedWithin'
  BY <1>1, <1>2 DEF CountedWithin
<1>11. OneCallPerThread'
  <2>1. \A s \in waiters' \cup holders' : s = r \/ s \in waiters \cup holders
    BY <1>4
  <2>2. \A s \in waiters \cup holders : s \in Requests /\ s # r /\ thread'[s] # t
    BY <1>1, <1>2, <1>3, <1>5 DEF Duplicate
  <2> QED
    BY <1>2, <2>1, <2>2 DEF OneCallPerThread
<1>12. StreamsCounted'
  BY <1>1, <1>2, <1>3, CountKept
<1>13. ErrorsTold'
  BY <1>1 DEF ErrorsTold
<1> QED
  BY <1>6, <1>7, <1>8, <1>9, <1>10, <1>11, <1>12, <1>13

LEMMA CancelQueuedKeeps ==
    ASSUME IInv, NEW r \in Requests, CancelQueued(r)
    PROVE  IInv'
<1> USE DEF IInv
<1>0. waiters' = waiters \ {r} /\ (\E G \in SUBSET waiters : G # {} /\ waiters' = waiters \ G)
      /\ limit' = limit /\ holders' = holders
  BY DEF CancelQueued, Pool!TurnAway
<1>1. /\ pc[r] = "queued" /\ pc' = [pc EXCEPT ![r] = "done"] /\ Report(r)
      /\ UNCHANGED <<thread, ctx, stopped, streaming, denied, activeStreams, agents>>
  BY DEF CancelQueued
<1>2. \A s \in Requests : pc'[s] = IF s = r THEN "done" ELSE pc[s]
  BY <1>1 DEF TypeOK
<1>3. /\ waiters \subseteq Requests /\ holders \subseteq Requests
      /\ \A s \in Requests : s \in waiters <=> pc[s] = "queued" /\ s \notin holders
      /\ \A s \in holders : pc[s] \in Running \/ pc[s] = "queued"
      /\ \A s \in Requests : pc[s] \in Running => s \in holders
      /\ "idle" \notin Running /\ "queued" \notin Running /\ "done" \notin Running
  BY SlotsKnown
<1>4. r \in waiters /\ r \notin holders
  BY <1>0, <1>1, <1>3
<1>5. TypeOK'
  BY <1>0, <1>1 DEF TypeOK, Stages, Report
<1>6. HeldByTheStream'
  <2>1. \A s \in Requests : pc[s] \in Running => pc'[s] = pc[s] /\ thread'[s] = thread[s]
    BY <1>1, <1>2, <1>3
  <2>2. \A u \in Threads : activeStreams'[u] # None =>
           pc'[activeStreams'[u]] \in Running /\ thread'[activeStreams'[u]] = u
    BY <1>1, <2>1, RegistrationsKept
  <2>3. waiters' = {s \in Requests : pc'[s] = "queued"} \ holders'
    BY <1>0, <1>2, <1>3
  <2>4. /\ holders' \subseteq {s \in Requests : pc'[s] \in Running \cup {"queued"}}
        /\ \A s \in Requests : pc'[s] \in Running => s \in holders'
    BY <1>0, <1>2, <1>3, <1>4
  <2>5. OneStreamPerThread'
    BY <1>1, <1>2, <1>3 DEF HeldByTheStream, OneStreamPerThread
  <2> QED
    BY <2>2, <2>3, <2>4, <2>5 DEF HeldByTheStream
<1>7. EveryRequestAnswered'
  BY <1>1, <1>2 DEF EveryRequestAnswered, Report
<1>8. ThreadsKnown'
  BY <1>1, <1>2 DEF ThreadsKnown
<1>9. CountedWithin'
  BY <1>1, <1>2 DEF CountedWithin
<1>10. OneCallPerThread'
  BY <1>0, <1>1 DEF OneCallPerThread
<1>11. StreamsCounted'
  BY <1>1, <1>2, <1>3, CountKept
<1>12. ErrorsTold'
  BY <1>1 DEF ErrorsTold, Report
<1> QED
  BY <1>5, <1>6, <1>7, <1>8, <1>9, <1>10, <1>11, <1>12

\* acquire() has resolved: the stream is registered and counted.
LEMMA BeginKeeps ==
    ASSUME IInv, NEW r \in Requests, Begin(r)
    PROVE  IInv'
<1> USE DEF IInv
<1>1. /\ pc[r] = "queued" /\ r \in holders /\ pc' = [pc EXCEPT ![r] = "starting"]
      /\ activeStreams' = [activeStreams EXCEPT ![thread[r]] = r] /\ agents' = agents + 1
      /\ UNCHANGED <<thread, ctx, stopped, limit, waiters, holders, streaming, denied>>
      /\ reported' = reported /\ completed' = completed /\ lost' = lost
  BY DEF Begin, told
<1>2. \A s \in Requests : pc'[s] = IF s = r THEN "starting" ELSE pc[s]
  BY <1>1 DEF TypeOK
<1>3. /\ waiters \subseteq Requests /\ holders \subseteq Requests
      /\ \A s \in Requests : s \in waiters <=> pc[s] = "queued" /\ s \notin holders
      /\ \A s \in holders : pc[s] \in Running \/ pc[s] = "queued"
      /\ \A s \in Requests : pc[s] \in Running => s \in holders
      /\ "idle" \notin Running /\ "queued" \notin Running /\ "done" \notin Running
  BY SlotsKnown
<1>4. "starting" \in Running /\ thread[r] \in Threads
  BY <1>1 DEF Running, ThreadsKnown
<1>5. \A t \in Threads : activeStreams'[t] = IF t = thread[r] THEN r ELSE activeStreams[t]
  BY <1>1, <1>4 DEF TypeOK
<1>6. StreamsCounted' /\ agents' \in 0 .. Cardinality(Requests)
  BY <1>1, <1>3, <1>4, CountRaised
<1>7. TypeOK'
  BY <1>1, <1>6 DEF TypeOK, Stages, Running
<1>8. HeldByTheStream'
  <2>1. \A t \in Threads : activeStreams'[t] # None =>
           pc'[activeStreams'[t]] \in Running /\ thread'[activeStreams'[t]] = t
    <3> SUFFICES ASSUME NEW t \in Threads, activeStreams'[t] # None
                 PROVE  pc'[activeStreams'[t]] \in Running /\ thread'[activeStreams'[t]] = t
      OBVIOUS
    <3>1. CASE t = thread[r]
      BY <3>1, <1>1, <1>2, <1>4, <1>5
    <3>2. CASE t # thread[r]
      <4>1. activeStreams'[t] = activeStreams[t] /\ activeStreams[t] \in Requests
        BY <3>2, <1>5 DEF TypeOK
      <4>2. pc[activeStreams[t]] \in Running /\ thread[activeStreams[t]] = t
        BY <4>1 DEF HeldByTheStream
      <4> QED
        BY <4>1, <4>2, <1>1, <1>2, <1>4
    <3> QED
      BY <3>1, <3>2
  <2>2. waiters' = {s \in Requests : pc'[s] = "queued"} \ holders'
    BY <1>1, <1>2, <1>3
  <2>3. /\ holders' \subseteq {s \in Requests : pc'[s] \in Running \cup {"queued"}}
        /\ \A s \in Requests : pc'[s] \in Running => s \in holders'
    BY <1>1, <1>2, <1>3, <1>4
  <2>4. OneStreamPerThread'
    BY <1>1, <2>3 DEF OneStreamPerThread, OneCallPerThread
  <2> QED
    BY <2>1, <2>2, <2>3, <2>4 DEF HeldByTheStream
<1>9. EveryRequestAnswered'
  BY <1>1, <1>2 DEF EveryRequestAnswered
<1>10. ThreadsKnown'
  BY <1>1, <1>2, <1>4 DEF ThreadsKnown
<1>11. CountedWithin'
  BY <1>1, <1>2 DEF CountedWithin
<1>12. OneCallPerThread'
  BY <1>1 DEF OneCallPerThread
<1>13. ErrorsTold'
  BY <1>1 DEF ErrorsTold
<1> QED
  BY <1>6, <1>7, <1>8, <1>9, <1>10, <1>11, <1>12, <1>13

\* A stop may take the registration of another request's stream, never more.
LEMMA StopKeeps ==
    ASSUME IInv, NEW r \in Requests, Stop(r)
    PROVE  IInv'
<1> USE DEF IInv
<1>1. /\ UNCHANGED <<pc, thread, ctx, limit, waiters, holders, agents>>
      /\ reported' = reported /\ completed' = completed /\ lost' = lost
      /\ stopped \subseteq stopped' /\ stopped' \subseteq Requests
  BY DEF Stop, told, TypeOK
<1>2. /\ streaming' \subseteq streaming
      /\ denied' \subseteq denied \cup {activeStreams[thread[r]]}
      /\ activeStreams' = activeStreams \/
            /\ activeStreams' = [activeStreams EXCEPT ![thread[r]] = None]
            /\ activeStreams[thread[r]] \in streaming
      /\ denied' = denied \/ activeStreams[thread[r]] \in streaming
  BY DEF Stop
<1>3. TypeOK'
  BY <1>1, <1>2 DEF TypeOK
<1>4. HeldByTheStream'
  <2>1. \A t \in Threads : activeStreams'[t] \in {activeStreams[t], None}
    BY <1>2 DEF TypeOK
  <2>2. \A t \in Threads : activeStreams'[t] # None =>
           pc'[activeStreams'[t]] \in Running /\ thread'[activeStreams'[t]] = t
    BY <1>1, <2>1, RegistrationsKept
  <2> QED
    BY <1>1, <2>2 DEF HeldByTheStream, OneStreamPerThread
<1>5. EveryRequestAnswered' /\ ThreadsKnown' /\ CountedWithin' /\ ErrorsTold'
  BY <1>1 DEF EveryRequestAnswered, ThreadsKnown, CountedWithin, ErrorsTold
<1>6. OneCallPerThread'
  BY <1>1 DEF OneCallPerThread
<1>7. StreamsCounted'
  BY <1>1, CountKept
<1> QED
  BY <1>3, <1>4, <1>5, <1>6, <1>7

LEMMA SetLimitKeeps ==
    ASSUME IInv, SetLimit
    PROVE  IInv'
<1> USE DEF IInv
<1>1. /\ UNCHANGED <<pc, thread, ctx, stopped, activeStreams, agents, streaming, denied>>
      /\ reported' = reported /\ completed' = completed /\ lost' = lost
  BY DEF SetLimit, told
<1>2. limit' \in Limits /\ HandedOn(waiters, holders)
  BY PoolResized DEF SetLimit
<1>3. PICK G \in SUBSET waiters : waiters' = waiters \ G /\ holders' = holders \cup G
  BY <1>2 DEF HandedOn
<1>4. TypeOK'
  BY <1>1, <1>2, <1>3 DEF TypeOK
<1>5. HeldByTheStream'
  BY <1>1, <1>3 DEF HeldByTheStream, OneStreamPerThread
<1>6. EveryRequestAnswered' /\ ThreadsKnown' /\ CountedWithin' /\ ErrorsTold'
  BY <1>1 DEF EveryRequestAnswered, ThreadsKnown, CountedWithin, ErrorsTold
<1>7. OneCallPerThread'
  BY <1>1, <1>3 DEF OneCallPerThread
<1>8. StreamsCounted'
  BY <1>1, CountKept
<1> QED
  BY <1>4, <1>5, <1>6, <1>7, <1>8

LEMMA NextPreserves == IInv /\ [Next]_vars => IInv'
<1> SUFFICES ASSUME IInv, [Next]_vars PROVE IInv'
  OBVIOUS
<1>1. CASE \E r \in Requests, t \in Threads : Refused(r, t) \/ Enqueue(r, t)
  BY <1>1, RefusedKeeps, EnqueueKeeps
<1>2. CASE \E r \in Requests : CancelQueued(r)
  BY <1>2, CancelQueuedKeeps
<1>3. CASE \E r \in Requests : Step(r)
  BY <1>3, BeginKeeps, StepAdvances, AdvanceKeeps
<1>4. CASE \E r \in Requests : Stop(r)
  BY <1>4, StopKeeps
<1>5. CASE SetLimit
  BY <1>5, SetLimitKeeps
<1>6. CASE UNCHANGED vars
  BY <1>6 DEF vars, resources, told, IInv, TypeOK, HeldByTheStream, OneStreamPerThread,
              EveryRequestAnswered, ThreadsKnown, CountedWithin, OneCallPerThread,
              StreamsCounted, RunningSet, ErrorsTold
<1> QED
  BY <1>1, <1>2, <1>3, <1>4, <1>5, <1>6 DEF Next

\* The invariant the theorems below follow from: beside what they state, the
\* queue has one call of a thread and an error that stands has been published.
THEOREM InductiveInvariant == Spec => []IInv
  BY InitEstablishes, NextPreserves, PTL DEF Spec

\* Every variable of the stream keeps its type: the events of a stream stay
\* within the limit of the safety guard, its retries within their cap, and the
\* count of the running guard within the number of requests.
THEOREM TypeCorrect == Spec => []TypeOK
<1>1. IInv => TypeOK
  BY DEF IInv
<1> QED
  BY <1>1, InductiveInvariant, PTL

(* Registrations *)

\* A stream manager runs only after startStream().
StreamingBegan ==
    \A r \in streaming : pc[r] \notin {"idle", "queued", "starting", "creating"}

RInv == StreamingBegan /\ RegisteredWhileStreamed

\* What a step of a running request makes of its stream manager.
LEMMA StepStreams ==
    ASSUME NEW r \in Requests, Step(r), ~Begin(r)
    PROVE  /\ thread' = thread
           /\ \/ streaming' \subseteq streaming
              \/ pc[r] = "creating" /\ streaming' = streaming \cup {r}
           /\ \/ pc[r] = "starting" /\ streaming' = streaming /\ GoOn(r, "creating", ctx[r])
              \/ /\ pc[r] \in Running \ {"starting"}
                 /\ \/ Finish(r)
                    \/ \E p \in Running \ {"starting", "creating"} : \E c : GoOn(r, p, c)
<1> DEFINE Others == Running \ {"starting", "creating"}
           Onward == Finish(r) \/ \E p \in Others : \E c : GoOn(r, p, c)
           Still  == streaming' \subseteq streaming /\ thread' = thread
<1>o. /\ {"opening", "reading", "backoff", "switching", "draining", "rethrowing",
          "askingLimit", "askingTool"} = Others
      /\ {"creating"} \cup Others = Running \ {"starting"}
  BY DEF Running, Asking
<1>y. \A p \in Others : \A c : YieldTo(r, p, c) => Onward
  BY DEF YieldTo
<1>g. \A p \in Others : \A c : GoOn(r, p, c) => Onward
  OBVIOUS
<1>f. Fail(r) => Onward
  BY <1>o, <1>y DEF Fail, GiveUp
<1>c. Complete(r) => Onward /\ streaming' \subseteq streaming
  BY DEF Complete
<1> HIDE DEF Onward
<1>1. ASSUME Guarded(r)
      PROVE  thread' = thread /\ pc[r] = "starting" /\ streaming' = streaming /\ GoOn(r, "creating", ctx[r])
  BY <1>1 DEF Guarded
<1>2. ASSUME StartStream(r)
      PROVE  thread' = thread /\ pc[r] = "creating" /\ streaming' = streaming \cup {r} /\ Onward
  BY <1>2, <1>o, <1>y DEF StartStream
<1>3. ASSUME OpenFails(r) \/ StreamFails(r) PROVE Still /\ Onward /\ pc[r] \in {"creating"} \cup Others
  BY <1>3, <1>o, <1>f DEF OpenFails, StreamFails
<1>4. ASSUME \/ EndOfStream(r) \/ DrainEnds(r) \/ LimitUpheld(r)
      PROVE  Still /\ Onward /\ pc[r] \in Others
  BY <1>4, <1>o, <1>c DEF EndOfStream, DrainEnds, LimitUpheld, Settled
<1>5. ASSUME \/ Open(r) \/ NodeUpdate(r) \/ LoopDetected(r) \/ Interrupt(r)
             \/ \E i \in BOOLEAN : LimitReached(r, i)
      PROVE  Still /\ Onward /\ pc[r] \in Others
  BY <1>5, <1>o, <1>y, <1>g DEF Open, NodeUpdate, LoopDetected, Interrupt, LimitReached, Reads
<1>6. ASSUME LimitLifted(r) \/ \E g \in BOOLEAN : Resume(r, g) \/ ResumeFails(r, g)
      PROVE  Still /\ Onward /\ pc[r] \in Others
  BY <1>6, <1>o, <1>y DEF LimitLifted, Resume, ResumeFails, Settled
<1>7. ASSUME Retry(r) \/ Reopen(r) \/ Switch(r) PROVE Still /\ Onward /\ pc[r] \in Others
  BY <1>7, <1>o, <1>y, <1>g DEF Retry, Reopen, Switch
<1>8. ASSUME DrainUpdate(r) PROVE Still /\ Onward /\ pc[r] \in Others
  BY <1>8, <1>o, <1>y, <1>g DEF DrainUpdate
<1>9. ASSUME SwitchFails(r) PROVE Still /\ Onward /\ pc[r] \in Others
  BY <1>9, <1>o, <1>y DEF SwitchFails, GiveUp
<1>10. ASSUME Rethrow(r) PROVE Still /\ Onward /\ pc[r] \in Others
  BY <1>10, <1>o DEF Rethrow, Onward
<1>11. \/ Guarded(r) \/ StartStream(r)
       \/ Still /\ Onward /\ pc[r] \in {"creating"} \cup Others
  BY <1>3, <1>4, <1>5, <1>6, <1>7, <1>8, <1>9, <1>10 DEF Step
<1> QED
  BY <1>1, <1>2, <1>11, <1>o DEF Onward

\* A step that neither starts a stream manager nor lets go of a registration.
LEMMA RegistrationsStand ==
    ASSUME RInv, streaming' \subseteq streaming, activeStreams' = activeStreams,
           \A s \in Requests :
              pc'[s] # pc[s] => pc[s] \in {"idle", "queued"} /\ pc'[s] \in {"queued", "done"},
           \A s \in Requests : pc[s] # "idle" => thread'[s] = thread[s],
           streaming \subseteq Requests
    PROVE  RInv'
<1>0. "idle" \notin Running /\ "queued" \notin Running /\ "done" \notin Running
  BY DEF Running, Asking
<1>1. StreamingBegan'
  BY DEF RInv, StreamingBegan
<1>2. RegisteredWhileStreamed'
  BY <1>0 DEF RInv, RegisteredWhileStreamed
<1> QED
  BY <1>1, <1>2 DEF RInv

LEMMA BeginRegisters ==
    ASSUME IInv, RInv, NEW r \in Requests, Begin(r)
    PROVE  RInv'
<1> USE DEF IInv
<1>1. /\ pc[r] = "queued" /\ r \in holders /\ pc' = [pc EXCEPT ![r] = "starting"]
      /\ activeStreams' = [activeStreams EXCEPT ![thread[r]] = r]
      /\ thread' = thread /\ holders' = holders /\ streaming' = streaming
  BY DEF Begin
<1>2. \A s \in Requests : pc'[s] = IF s = r THEN "starting" ELSE pc[s]
  BY <1>1 DEF TypeOK
<1>3. thread[r] \in Threads /\ r \notin streaming /\ streaming \subseteq Requests
  BY <1>1 DEF ThreadsKnown, RInv, StreamingBegan, TypeOK
<1>4. \A s \in Requests : pc[s] \in Running =>
         thread[s] # thread[r] /\ activeStreams'[thread[s]] = activeStreams[thread[s]]
  <2> SUFFICES ASSUME NEW s \in Requests, pc[s] \in Running
               PROVE  thread[s] # thread[r] /\ activeStreams'[thread[s]] = activeStreams[thread[s]]
    OBVIOUS
  <2>1. s \in holders /\ s # r /\ pc[s] # "idle"
    BY <1>1, SlotsKnown
  <2>2. thread[s] \in Threads /\ thread[s] # thread[r]
    BY <1>1, <2>1 DEF OneCallPerThread, ThreadsKnown
  <2> QED
    BY <1>1, <2>2 DEF TypeOK
<1>5. activeStreams'[thread[r]] = r
  BY <1>1, <1>3 DEF TypeOK
<1>6. StreamingBegan'
  BY <1>1, <1>2, <1>3 DEF RInv, StreamingBegan
<1>7. RegisteredWhileStreamed'
  BY <1>1, <1>2, <1>4, <1>5 DEF RInv, RegisteredWhileStreamed
<1> QED
  BY <1>6, <1>7 DEF RInv

LEMMA StepRegisters ==
    ASSUME IInv, RInv, NEW r \in Requests, Step(r), ~Begin(r)
    PROVE  RInv'
<1> USE DEF IInv
<1>1. /\ thread' = thread
      /\ \/ streaming' \subseteq streaming
         \/ pc[r] = "creating" /\ streaming' = streaming \cup {r}
      /\ \/ pc[r] = "starting" /\ streaming' = streaming /\ GoOn(r, "creating", ctx[r])
         \/ /\ pc[r] \in Running \ {"starting"}
            /\ \/ Finish(r)
               \/ \E p \in Running \ {"starting", "creating"} : \E c : GoOn(r, p, c)
  BY StepStreams
<1>2. /\ streaming \subseteq Requests /\ "starting" \in Running
      /\ "idle" \notin Running /\ "queued" \notin Running /\ "done" \notin Running
  BY DEF TypeOK, Running, Asking
<1>3. CASE pc[r] = "starting" /\ streaming' = streaming /\ GoOn(r, "creating", ctx[r])
  <2>1. /\ activeStreams' = activeStreams
        /\ \A s \in Requests : pc'[s] = IF s = r THEN "creating" ELSE pc[s]
    BY <1>3 DEF GoOn, resources, TypeOK
  <2>2. r \notin streaming
    BY <1>3 DEF RInv, StreamingBegan
  <2>3. StreamingBegan'
    BY <1>2, <1>3, <2>1, <2>2 DEF RInv, StreamingBegan
  <2>4. RegisteredWhileStreamed'
    BY <1>1, <1>2, <1>3, <2>1 DEF RInv, RegisteredWhileStreamed
  <2> QED
    BY <2>3, <2>4 DEF RInv
<1>4. CASE /\ pc[r] \in Running \ {"starting"}
           /\ \E p \in Running \ {"starting", "creating"} : \E c : GoOn(r, p, c)
  <2>1. PICK p \in Running \ {"starting", "creating"} : \E c : GoOn(r, p, c)
    BY <1>4
  <2>2. /\ activeStreams' = activeStreams
        /\ \A s \in Requests : pc'[s] = IF s = r THEN p ELSE pc[s]
    BY <2>1 DEF GoOn, resources, TypeOK
  <2>3. StreamingBegan'
    BY <1>1, <1>2, <1>4, <2>2 DEF RInv, StreamingBegan
  <2>4. RegisteredWhileStreamed'
    BY <1>1, <1>2, <1>4, <2>2 DEF RInv, RegisteredWhileStreamed
  <2> QED
    BY <2>3, <2>4 DEF RInv
<1>5. CASE Finish(r) /\ pc[r] \in Running
  <2>1. /\ activeStreams' = [activeStreams EXCEPT ![thread[r]] = None]
        /\ \A s \in Requests : pc'[s] = IF s = r THEN "done" ELSE pc[s]
    BY <1>5 DEF Finish, TypeOK
  <2>2. \A s \in Requests : s # r /\ pc[s] \in Running =>
           activeStreams'[thread[s]] = activeStreams[thread[s]]
    <3> SUFFICES ASSUME NEW s \in Requests, s # r, pc[s] \in Running
                 PROVE  activeStreams'[thread[s]] = activeStreams[thread[s]]
      OBVIOUS
    <3>1. thread[s] # thread[r] /\ thread[s] \in Threads
      BY <1>2, <1>5 DEF HeldByTheStream, OneStreamPerThread, ThreadsKnown
    <3> QED
      BY <2>1, <3>1 DEF TypeOK
  <2>3. StreamingBegan'
    BY <1>1, <1>2, <2>1 DEF RInv, StreamingBegan
  <2>4. RegisteredWhileStreamed'
    BY <1>1, <1>2, <2>1, <2>2 DEF RInv, RegisteredWhileStreamed
  <2> QED
    BY <2>3, <2>4 DEF RInv
<1> QED
  BY <1>1, <1>2, <1>3, <1>4, <1>5

\* A stop takes the registration away together with the stream manager.
LEMMA StopUnregisters ==
    ASSUME IInv, RInv, NEW r \in Requests, Stop(r)
    PROVE  RInv'
<1> USE DEF IInv
<1> DEFINE s == activeStreams[thread[r]]
<1>1. pc[r] # "idle" /\ pc' = pc /\ thread' = thread
  BY DEF Stop
<1>2. thread[r] \in Threads /\ streaming \subseteq Requests /\ None \notin Requests
  BY <1>1, StreamAssumption DEF ThreadsKnown, TypeOK
<1>3. CASE s \notin streaming
  <2>1. streaming' = streaming /\ activeStreams' = activeStreams
    BY <1>3 DEF Stop
  <2> QED
    BY <1>1, <2>1 DEF RInv, StreamingBegan, RegisteredWhileStreamed
<1>4. CASE s \in streaming
  <2>1. /\ streaming' = streaming \ {s}
        /\ activeStreams' = [activeStreams EXCEPT ![thread[r]] = None]
    BY <1>4 DEF Stop
  <2>2. s \in Requests /\ pc[s] \in Running /\ thread[s] = thread[r]
    <3>1. s # None /\ s \in Requests
      BY <1>2, <1>4
    <3> QED
      BY <1>2, <3>1 DEF HeldByTheStream
  <2>3. pc[s] \notin {"starting", "creating"}
    BY <1>4 DEF RInv, StreamingBegan
  <2>4. \A q \in Requests : q # s /\ pc[q] \in Running =>
           activeStreams'[thread[q]] = activeStreams[thread[q]]
    <3> SUFFICES ASSUME NEW q \in Requests, q # s, pc[q] \in Running
                 PROVE  activeStreams'[thread[q]] = activeStreams[thread[q]]
      OBVIOUS
    <3>1. thread[q] # thread[r]
      BY <2>2 DEF HeldByTheStream, OneStreamPerThread
    <3>2. "idle" \notin Running
      BY DEF Running, Asking
    <3>3. thread[q] \in Threads
      BY <3>2 DEF ThreadsKnown
    <3> QED
      BY <2>1, <3>1, <3>3 DEF TypeOK
  <2>5. StreamingBegan'
    BY <1>1, <2>1 DEF RInv, StreamingBegan
  <2>6. RegisteredWhileStreamed'
    <3> SUFFICES ASSUME NEW q \in Requests, pc[q] \in Running,
                        pc[q] \in {"starting", "creating"} \/ q \in streaming'
                 PROVE  activeStreams'[thread[q]] = q
      BY <1>1 DEF RegisteredWhileStreamed
    <3>1. q # s
      BY <2>1, <2>3
    <3> QED
      BY <2>1, <2>4, <3>1 DEF RInv, RegisteredWhileStreamed
  <2> QED
    BY <2>5, <2>6 DEF RInv
<1> QED
  BY <1>3, <1>4

LEMMA NextRegisters == IInv /\ RInv /\ [Next]_vars => RInv'
<1> SUFFICES ASSUME IInv, RInv, [Next]_vars PROVE RInv'
  OBVIOUS
<1>0. streaming \subseteq Requests
  BY DEF IInv, TypeOK
<1>1. ASSUME NEW r \in Requests, NEW t \in Threads, Refused(r, t) \/ Enqueue(r, t) PROVE RInv'
  <2>1. /\ pc[r] = "idle" /\ thread' = [thread EXCEPT ![r] = t]
        /\ \E p \in {"queued", "done"} : pc' = [pc EXCEPT ![r] = p]
        /\ streaming' = streaming /\ activeStreams' = activeStreams
    BY <1>1 DEF Refused, Enqueue, resources
  <2> QED
    BY <1>0, <2>1, RegistrationsStand DEF IInv, TypeOK
<1>2. ASSUME NEW r \in Requests, CancelQueued(r) PROVE RInv'
  BY <1>0, <1>2, RegistrationsStand DEF CancelQueued, IInv, TypeOK
<1>3. ASSUME NEW r \in Requests, Step(r) PROVE RInv'
  BY <1>3, BeginRegisters, StepRegisters
<1>4. ASSUME NEW r \in Requests, Stop(r) PROVE RInv'
  BY <1>4, StopUnregisters
<1>5. CASE SetLimit
  BY <1>0, <1>5, RegistrationsStand DEF SetLimit
<1>6. CASE UNCHANGED vars
  BY <1>0, <1>6, RegistrationsStand DEF vars, resources
<1> QED
  BY <1>1, <1>2, <1>3, <1>4, <1>5, <1>6 DEF Next

\* Whatever way a request ends, its slot, its count with the guard and its
\* registration end with it; slot and count do not end before, and the
\* registration only when a stop ends the stream manager.  A thread never has
\* two streams.
THEOREM ResourcesAreFreed == Spec => []ResourcesFollowTheStream
<1>1. Init => RInv
  BY DEF Init, RInv, StreamingBegan, RegisteredWhileStreamed, Running, Asking
<1>2. IInv /\ RInv => ResourcesFollowTheStream
  BY DEF IInv, RInv, ResourcesFollowTheStream
<1> QED
  BY <1>1, <1>2, NextRegisters, InductiveInvariant, PTL DEF Spec

\* A request that was not stopped never ends in silence.
THEOREM RequestsAreAnswered == Spec => []EveryRequestAnswered
<1>1. IInv => EveryRequestAnswered
  BY DEF IInv
<1> QED
  BY <1>1, InductiveInvariant, PTL

-----------------------------------------------------------------------------
(* The stream implements the agents of the running guard *)

\* A request that stands with the guard as it stood is no step of the guard.
LEMMA GuardStutters ==
    ASSUME agents' = agents,
           \A r \in Requests : pc'[r] = "starting" <=> pc[r] = "starting",
           \A r \in Requests : pc'[r] \in Running <=> pc[r] \in Running
    PROVE  UNCHANGED Guard!guardVars
<1>1. GuardStages' = GuardStages
  BY DEF GuardStages
<1> QED
  BY <1>1 DEF Guard!guardVars

LEMMA BeginStartsGuard ==
    ASSUME IInv, NEW r \in Requests, Begin(r)
    PROVE  Guard!NotifyAgentStarted(r)
<1>1. pc[r] = "queued" /\ pc' = [pc EXCEPT ![r] = "starting"] /\ agents' = agents + 1
  BY DEF Begin
<1>2. "queued" \notin Running
  BY DEF Running, Asking
<1>3. GuardStages[r] = "idle" /\ GuardStages' = [GuardStages EXCEPT ![r] = "starting"]
  BY <1>1, <1>2 DEF GuardStages, IInv, TypeOK
<1> QED
  BY <1>1, <1>3 DEF Guard!NotifyAgentStarted

\* Going on is the end of the guard's start, or nothing to the guard.
LEMMA GoingOnToGuard ==
    ASSUME IInv, NEW r \in Requests, pc[r] \in Running, NEW p, NEW c, GoesOn(r, p, c)
    PROVE  Guard!TaskFailed(r) \/ UNCHANGED Guard!guardVars
<1>1. pc' = [pc EXCEPT ![r] = p] /\ agents' = agents /\ p \in Running /\ p # "starting"
  BY DEF GoesOn, GoOn, resources
<1>2. \A s \in Requests : pc'[s] = IF s = r THEN p ELSE pc[s]
  BY <1>1 DEF IInv, TypeOK
<1>3. CASE pc[r] = "starting"
  <2>1. GuardStages[r] = "starting" /\ GuardStages' = [GuardStages EXCEPT ![r] = "running"]
    BY <1>1, <1>2, <1>3 DEF GuardStages
  <2> QED
    BY <1>1, <2>1 DEF Guard!TaskFailed
<1>4. CASE pc[r] # "starting"
  BY <1>1, <1>2, <1>4, GuardStutters
<1> QED
  BY <1>3, <1>4

LEMMA EndStopsGuard ==
    ASSUME IInv, NEW r \in Requests, pc[r] \in Running, Ends(r)
    PROVE  Guard!NotifyAgentStopped(r)
<1>1. /\ pc[r] # "starting" /\ pc' = [pc EXCEPT ![r] = "done"]
      /\ agents' = IF agents = 0 THEN 0 ELSE agents - 1
  BY DEF Ends, Finish
<1>2. agents \in Nat \ {0} /\ agents' = agents - 1
  BY <1>1, CountLowered DEF IInv
<1>3. "done" \notin Running
  BY DEF Running, Asking
<1>4. GuardStages[r] = "running" /\ GuardStages' = [GuardStages EXCEPT ![r] = "idle"]
  BY <1>1, <1>3 DEF GuardStages, IInv, TypeOK
<1>5. CASE agents > 1
  BY <1>2, <1>4, <1>5 DEF Guard!NotifyAgentStopped
<1>6. CASE ~(agents > 1)
  BY <1>2, <1>4, <1>6 DEF Guard!NotifyAgentStopped, Guard!StopGuardTask
<1> QED
  BY <1>5, <1>6

LEMMA StepIsGuardStep ==
    IInv /\ [Next]_vars => [Guard!GuardNext]_Guard!guardVars
<1> SUFFICES ASSUME IInv, [Next]_vars
             PROVE  Guard!GuardNext \/ UNCHANGED Guard!guardVars
  OBVIOUS
<1>0. "idle" \notin Running /\ "queued" \notin Running /\ "done" \notin Running
  BY DEF Running, Asking
<1>1. ASSUME NEW r \in Requests, NEW t \in Threads, Refused(r, t) \/ Enqueue(r, t)
      PROVE  UNCHANGED Guard!guardVars
  <2>1. agents' = agents /\ pc[r] = "idle" /\ \E p \in {"done", "queued"} : pc' = [pc EXCEPT ![r] = p]
    BY <1>1 DEF Refused, Enqueue, resources
  <2>2. \A s \in Requests \ {r} : pc'[s] = pc[s]
    BY <2>1 DEF IInv, TypeOK
  <2>3. pc[r] = "idle" /\ pc'[r] \in {"done", "queued"}
    BY <2>1 DEF IInv, TypeOK
  <2> QED
    BY <2>1, <2>2, <2>3, <1>0, GuardStutters
<1>2. ASSUME NEW r \in Requests, CancelQueued(r) PROVE UNCHANGED Guard!guardVars
  <2>1. agents' = agents /\ pc[r] = "queued" /\ pc' = [pc EXCEPT ![r] = "done"]
    BY <1>2 DEF CancelQueued
  <2>2. pc'[r] = "done" /\ \A s \in Requests \ {r} : pc'[s] = pc[s]
    BY <2>1 DEF IInv, TypeOK
  <2> QED
    BY <2>1, <2>2, <1>0, GuardStutters
<1>3. ASSUME NEW r \in Requests, Begin(r) PROVE Guard!GuardNext
  BY <1>3, BeginStartsGuard DEF Guard!GuardNext
<1>4. ASSUME NEW r \in Requests, Advances(r) PROVE Guard!GuardNext \/ UNCHANGED Guard!guardVars
  <2>1. CASE Ends(r)
    BY <1>4, <2>1, EndStopsGuard DEF Advances, Guard!GuardNext
  <2>2. CASE \E p, c : GoesOn(r, p, c)
    BY <1>4, <2>2, GoingOnToGuard DEF Advances, Guard!GuardNext
  <2> QED
    BY <1>4, <2>1, <2>2 DEF Advances
<1>5. ASSUME NEW r \in Requests, Stop(r) PROVE UNCHANGED Guard!guardVars
  BY <1>5, GuardStutters DEF Stop
<1>6. CASE SetLimit
  BY <1>6, GuardStutters DEF SetLimit
<1>7. CASE UNCHANGED vars
  BY <1>7, GuardStutters DEF vars, resources
<1> QED
  BY <1>1, <1>2, <1>3, <1>4, <1>5, <1>6, <1>7, StepAdvances DEF Next

\* Each stream starts and stops exactly once with the guard, on every way
\* through the generator: the streams are agents as RunningGuard has them, so
\* what is proved of the guard holds of them.
THEOREM StreamsUseTheGuard == Spec => UsesGuardOnce
<1>1. Init => Guard!GuardInit
  <2>1. "idle" \notin Running /\ "idle" # "starting"
    BY DEF Running, Asking
  <2> QED
    BY <2>1 DEF Init, Guard!GuardInit, GuardStages
<1> QED
  BY <1>1, StepIsGuardStep, InductiveInvariant, PTL DEF Spec, UsesGuardOnce, Guard!GuardSpec
=============================================================================
