# A verification development for CodeBuddy

CodeBuddy is a VS Code extension: an extension host in TypeScript (`src/src`)
that runs LLM agents on the user's workspace, and a React webview
(`src/webviewUi`) that talks to it by messages. This directory holds TLA+ models
of the host's own coordination logic, the TLC runs that check them on small
instances, and the theorems TLAPS proves about them for every instance.

The host is one JavaScript process. Code between two `await`s runs without
interleaving, so an action of a model is the stretch of code from one await (or
callback, timer, yield) to the next. What is hard happens *between* those
stretches: another handler runs, a timer fires, the user answers late, the
consumer of a generator leaves it at a yield, an awaited call throws.

Paths below are relative to `src/src` unless they start with `webviewUi`.

1. [The system](#1-the-system)
2. [The modules and the code](#2-the-modules-and-the-code)
3. [The runs](#3-the-runs)
4. [Fairness](#4-fairness)
5. [The proofs](#5-the-proofs)
6. [What was found](#6-what-was-found)
7. [What is not modelled](#7-what-is-not-modelled)
8. [Plan](#8-plan)

## 1. The system

A request travels like this:

```
webview ──message──▶ webview provider (base.ts) ──▶ MessageHandler.handleUserMessage
   ▲                                                     │ for await (… of streamResponse)
   │ events (published one by one)                       ▼
   └──────────────────────────────────────── CodeBuddyAgentService.streamResponse
                                              │      │        │         │
                          ConcurrencyQueueService    │   ConsentManager │
                          (acquire / release)        │   (waitForConsent)
                                          AgentRunningGuardService      │
                                          (task that warns on close)    ▼
                                                     ProviderFailoverService
                                                     (health, candidates)
```

The Ask mode (`webview-providers/base.ts`) does not use the agent: it calls an
LLM provider itself and shares only the `ProviderFailoverService` with it.

The agent's tools reach further services, and those the workspace and the outside:

```
agent tools ─┬─ edit, write, compose ─▶ DiffReviewService ◀─ ComposerService ◀─ user
             │                            │ events        │ writes
             │                            ▼               ▼
             │     streamResponse ─▶ CheckpointService ─▶ files ◀─ user: revert
             └─ MCP tools ─▶ MCPService ─▶ MCPClient ─▶ server process
SchedulerService ─ every minute ─▶ background tasks, last_run in the database
```

### Components that coordinate

| component | state | operations | interacts with | hard behaviour | what makes it correct |
|---|---|---|---|---|---|
| Concurrency queue `services/concurrency-queue.service.ts` | running map, waiting array, id index, limit, a promise per call | acquire, release function, cancel, cancelAllWaiting, abort listener, setting change, starvation timer, dispose | called by streamResponse; settings; status picker | aborts and timeouts that fire late; a limit lowered under running streams; priorities that overtake | the index and the array agree; each slot has one holder; nobody waits beside a free slot; slots go out in order and within the limit; nobody starves |
| Consent manager `agents/services/consent-manager.ts` | a queue of waits per thread, a timer and a promise per wait | waitForConsent, respond (one thread or all), clearThread, timeout | handleInterrupt and the safety limits wait; setUserConsent answers; stop clears | an answer racing the timeout; several prompts on a thread; a clear under open prompts | map, timers and promises agree; an answer goes to the oldest prompt; every wait is settled |
| Approval dialog `agents/services/codebuddy-agent.service.ts`, `agents/handlers/message-handler.ts`, `webviewUi/src/hooks/useStreamingChat.ts` | stage of each stream, activeRequests, messages under way, `pendingApproval` | ask, announce, wait, go on, break off; show, click, stop; answer, cancel | webview and host by messages only | a stop or an answer overtaken by the stream; one bar for all conversations | nothing is granted without an approval for its thread; a wait has a stream behind it; a stop denies the open prompt and ends the request |
| Agent service `agents/services/codebuddy-agent.service.ts` (with `error-recovery.service.ts`, `agent-safety-guard.ts`) | activeStreams by thread, a context per stream, stream managers | streamResponse, handleInterrupt, drainAgentStream, emitCompletion, cancelStream | all of the above | dozens of awaits, any of which may throw; a consumer that leaves; retries, limits, failover after one another | every way out gives everything back; the user is told how it ended; it does end |
| Message handler `agents/handlers/message-handler.ts` | activeRequests | handleUserMessage, cancelRequest | consumes streamResponse, publishes its events | a stop that arrives before the slot or during the next request | a stopped request does not reach the agent |
| Agent running guard `services/agent-running-guard.service.ts` | activeAgentCount, the task execution | notifyAgentStarted, notifyAgentStopped, stopGuardTask, dispose | started and stopped by each stream; VS Code tasks | overlapping starts around `await executeTask` | the count is exact; the guard outlives all but the last agent |
| Provider failover `services/provider-failover.service.ts` | health per provider, lastProbeAt, the chain | recordFailure, recordSuccess, getCandidates, resolveProvider, getAllHealth, clearCooldown, setFallbackChain | agent streams and the Ask mode record outcomes and ask for a fallback | streams that interleave record, probe and resolve; cooldowns that end in between | the record is coherent; a fallback is one that can be used; a free fallback is passed over at most for a probe |
| MCP client, service, breaker `MCP/client.ts`, `MCP/service.ts`, `MCP/circuit-breaker.ts` | connection state, reconnect timers, breaker state, probe token, connection mutex | ensureServerConnected, connect, disconnect, callTool, reconnect, idle shutdown, switch, reload | agent tools, the MCP panel, a server process | transport callbacks and timers racing connects; a probe that is taken and must come back | one attempt at a time; the breaker's fields agree and its probe is reported; a client in error is retried |
| Diff review and composer `services/diff-review.service.ts`, `services/diff-hunk.ts`, `services/composer.service.ts` | pending changes, their hunks and status; sessions | addPendingChange, applyChange, removePendingChange, accept and reject a hunk, finalizeHunkReview; createSession, applySession, rejectSession | editing tools, the user, files | a change is applied or rejected while its file is being written; a session whose changes go their own way | a file shows what was applied, or what a write that runs or failed put there; a session that is decided leaves nothing to review; the written file is the old text with the accepted hunks |
| Checkpoints `services/checkpoint.service.ts` | list of snapshots, at most 50; tracked files | createCheckpoint, revertToCheckpoint, deleteCheckpoint, trackFile | streamResponse before each turn, the diff review's events, the panel | taken and restored one file at a time; files that fail or did not exist | an undisturbed revert brings back what the checkpoint saw |
| Stream manager `agents/services/stream-manager.service.ts` | buffer, flush timer, state | start, add, flush, end, cancel | agent service | a timer that reschedules itself; back-pressure | its timer stops |
| Production safeguards `services/production-safeguards.service.ts` | resource figures, a breaker | guarded execution, withTimeout | agent service | work goes on after its timeout | the breaker opens and recovers |
| Scheduler `services/scheduler.service.ts` | last_run of each task in the database, the date of the last cleanup | start, checkTasks, tryRunTask, tryRunTaskInterval | background tasks, database | passes that overlap, cross midnight, fail half way; crashes; writes that fail in silence | what is recorded did run; a daily task runs and stays recorded |
| Compaction, checkpoint saver, chat history | token budget; checkpoint rows; messages and summaries | compact; put, putWrites; append, prune | agent service, database | debounced persistence, pruning under writes | what was saved can be read back |

The remaining components (cost tracking, credential proxy, permission scope,
access control, terminals, inline completion, embeddings and search, indexing,
persistence wrappers, team graph, skills and connectors, news and meetings,
notifications, orchestrator, webview providers, LLM providers, the developer
agent, observability, the React UI, the entry point) keep no protocol of their
own that TLC would find out more about than a unit test; `PROJECT.json`
lists each with its reason.

## 2. The modules and the code

| module | what it is | composes or refines |
|---|---|---|
| `SlotPool` | abstract: a work-conserving pool of slots | |
| `ConcurrencyQueue` | the queue service, one action per entry point | implements `SlotPool` (`ImplementsSlotPool`) |
| `ConsentManager` | the consent manager | |
| `ApprovalDialog` | prompts, webview, host, stop button | extends `ConsentManager`: each of its steps is one of the dialog |
| `RunningGuard`, `MCRunningGuard` | the guard task | |
| `AgentStream` | streamResponse and its consumer | takes its slots from `SlotPool` (`Pool`), implements `RunningGuard` (`UsesGuardOnce`) |
| `ProviderFailover`, `MCProviderFailover` | health records and both callers | its choice is left open in `AgentStream` |
| `CircuitBreaker` | the breaker as a value and what each method makes of it | |
| `McpConnection` | connecting to one MCP server | extends `CircuitBreaker` |
| `ChangeReview` | pending changes and composer sessions | |
| `Checkpoints`, `MCCheckpoints` | the same workspace with its checkpoints | extends `ChangeReview`, disturbs it with reverts |
| `DiffHunks`, `MCDiffHunks` | the line diff, its hunks and what is written of them | `ChangeReview` leaves open which part of a change is accepted |
| `Scheduler`, `MCScheduler` | the background tasks | |
| `ConcurrencyQueueProofs`, `ApprovalDialogProofs`, `AgentStreamProofs`, `ProviderFailoverProofs`, `McpConnectionProofs`, `CheckpointsProofs`, `DiffHunksProofs`, `SchedulerProofs` | theorems about the module of that name; `ApprovalDialogProofs` also about `ConsentManager`, `AgentStreamProofs` about `RunningGuard` and `CheckpointsProofs` about `ChangeReview` | |

So `AgentStream` does not repeat the queue, the consent manager and the failover:
it uses the abstract pool the queue is shown to implement, relies on
`WaitsSettle` of the consent manager for the progress of a prompt, and allows
every outcome `ProviderFailover` can produce (a fallback or none).

Operators whose comment starts with `Mistake:` are not part of any
specification. Each is a plausible bug in the definition below it;
`PROJECT.json` ("mutants") says which property catches it.

**ConcurrencyQueue.** A *call* is one invocation of `acquire()` and what outlives
it: its promise, its abort listener, its release function. Calls are recycled
once nothing refers to them, so the runs have no bound on the number of calls.
`running`, `waiting`, `waitingIds`, `maxConcurrent`, `disposed` are the fields of
the class; `armed` are the calls whose listener (signal or `timeoutMs`) can
still fire. `Drain` is `drain()`, which is part of `Release` and
`SetMaxConcurrent` exactly where the code calls it. `enqueuedAt` is kept as an
age, so that the clock is not a counter. The status bar and events are left out.

**ConsentManager.** A *wait* is a call of `waitForConsent()`. `waiters` is the
map with its keys, since the code deletes empty queues; `timers` the timeouts
set; `verdict` the promises. A first `resolve` wins (`Resolve`). What the module
shares with the dialog that extends it carries its name (`ConsentInit`, `ConsentNext`,
`ConsentTypeOK`); `RunningGuard` is named likewise (`GuardInit`, `GuardSpec`).

**ApprovalDialog.** One stream per thread at most. A request posts its start
(`starting`), then its stream manager starts and posts it once more (`StartStream`);
from then on the thread is in `streaming`, and only then `CancelStream` denies its
prompt, as `cancelStream()` asks `isActive()`. The generator yields twice
before it waits: `Ask` ("interrupt_waiting", `asking`), `Announce` (the text,
`announced`), then `StartWaiting`. The consumer looks at `activeRequests` at each
yield (`BreakOff`), but nobody looks between the last yield and the wait.
`toPanel` and `toHost` are the two message channels, in order. The approval bar
(`panel`) is one for all conversations, as in the webview; `Shown` is what an
event leaves in it. The `prompt` in a click is history only: the message itself
carries the thread.

**RunningGuard.** `starting` is an agent between the call of
`executeTask()` and what follows its await. VS Code (which execution is handed
out, whether it fails) and the user (who may close the terminal) are open. An agent
that starts after `dispose()` is counted all the same, as in the code.

**AgentStream.** `pc` is the await or yield at which the generator of a request
stands: `queued` (acquire), `starting` (guard), `creating` (getAgent),
`opening` (checkpoint, compaction, agent.stream), `reading` (iterator.next),
`askingLimit`, `askingTool` (consent), `backoff` (retry delay), `switching`,
`draining` (failover), `rethrowing`. `YieldTo` is a yield: a stopped request is
left there by its consumer, which runs both finally blocks (`Finish`). `ctx`
keeps what control depends on: the number of events, `hasErrored`, retries,
whether the iterator has ended with an interrupt (`spent`) and how often the
user lifted the limits. What the agent sends and where it throws is open.
`reported`, `completed` and `lost` record what the user was told or never told.

**ProviderFailover.** Time is counted in ticks of 30 s, of which all cooldowns, the
probe margin and the probe interval are multiples; a cooldown is kept as what
is left of it, 0 being a cooldown that has run out and is still recorded.
Stages `saving` and `savingFallback` are the Ask mode's `persistChatExchange`,
which is inside the same `try` as the call. `calls` is the provider that is
really called, which for an agent is not the one resolved (section 6). The list
`getCandidates()` builds is not kept: `Resolves` says which of its members
`resolveProvider()` returns, that is the first with credentials among the primary, when it leads
(`PrimaryFirst`), the members of the chain that are offered (`Fallback`) in their
order, and the primary as last resort.

**CircuitBreaker, McpConnection.** A breaker is a record; time is one bit, whether
`resetTimeoutMs` have passed since the last failure. One server stands for each,
since every map of the service is keyed by server. Each call of
`ensureServerConnected` has a stage: `waiting` (for the attempt of another),
`connecting` (`await client.connect()`), `backoff` (the delay between two of the
`MaxRetries` attempts). A client is known by its place: the `Service` place is the
entry of `clients`, the place of a call the client it is connecting. `tries`,
`handle` and `timers` are `reconnectAttempts`, `reconnectTimer` and the timers
that will fire, of which the code keeps the last only; `redials` counts later
calls of `connect()`. A reload starts a new generation of breakers, while a call
goes on reporting to the breaker object it took at its start.

**ChangeReview.** What a file holds is the set of the changes it shows, so an
overwrite holds one change and a replacement adds one. A change passes through
`reading` (the awaited read of `addPendingChange`) to `pending`; a `call` is one
running `applyChange`, `finalizeHunkReview` or `applySession`. A write has three
moments: it begins (`Begin`), the file shows the new text (`FileWritten`), and
`writeFile()` resolves (`Written`) or rejects, before the file has changed or after
(`WriteFails`); between any two of them everything else may happen. `leftBehind` is
history: the changes that are not applied though a failed write put them in their file.
A file changes all at once: one that is half written is not modelled.
`NextOfSession` is the loop of `applySession` up to its next awaited write.

**Checkpoints.** Extends the review: every step of it is a step here (`Review`).
`taking` and `reverting` are the checkpoint being taken and the revert under way,
one of each, file by file. `before` is history: what the files held when the
checkpoint was asked for, forgotten as soon as something else writes.

**DiffHunks.** Pure operators for `computeEditOps` (`Table` fills the table cell by
cell, `Back` is one step of the walk back), `simpleDiff` (`Onward` is one round of its
loop), `groupIntoHunks` and `applySelectedHunks` (`AddHunk` is one hunk of it), and a
small state machine of the user's decisions around `finalizeHunkReview`. The loops
are recursive functions over how far they have got. `Merged`, `Firsts`, `Lasts` and
`Regions` state with quantifiers what the code does with two loops: changes at most
`2 * CONTEXT_LINES` unchanged lines apart are one hunk. `Nth` and `Picked` list a set
of places in order. `old` keeps the role of `change.originalContent` throughout.

**Scheduler.** Time in hours. `lastRun` is the table in the in-memory database,
`saved` the same in its file: each statement, a `SELECT` too, ends with
`saveToDisk()`, which may fail and only log (`Save`). A save that fails, or that a
crash interrupts, leaves the old file whole here; the code writes the file in place
(`sqlite-database.service.ts:412`), so that it may really be left truncated. `pass` are the running
`checkTasks()`: the hour is taken once, at the start of a pass, the time of a run
when its turn comes. `ran` is history: when completed runs began.

## 3. The runs

| run | instance | distinct states | shows |
|---|---|---|---|
| `queue` | 3 recycled calls, 3 ids, limit 1 or 2 | 82 212 | the queue's array, index, promises and slots agree; order; the pool it implements; no starvation; deadlines |
| `consent` | 4 recycled waits, 2 threads | 3 125 | map, timers and promises agree; answers in order; every wait is settled |
| `dialog` | 2 prompts, 2 threads, 2 requests each, 3 in all, 1 click | 1 764 575 | no orphan wait; a stopped request ends |
| `guard_safety` | 3 agents, 4 executions | 408 (with symmetry) | exact count, the guard outlives all but the last |
| `stream` | 2 requests, 1 or 2 threads, 1 or 2 slots | 329 030 | every way out gives everything back, answers the user, and is reached |
| `provider_failover` | 4 providers, 1 agent and 1 Ask stream, 3 reasons | 598 824 | coherent health, fit fallbacks, at most one probe per interval, no cooldown disturbed by others |
| `mcp` | 2 callers, 1 server, threshold 2, 2 attempts, 2 reconnects, 1 reload, 2 faults | 779 683 | coherent breaker, one attempt at a time, errors are retried, a probe reports back |
| `review` | 2 files, 2 changes, 1 session, 2 calls, 2 listed checkpoints | 2 700 998 (with symmetry) | nothing unreviewed stays in a file or a decided session; applied is final; reverts restore |
| `hunks` | all pairs of texts of up to 6 lines of 2 kinds | 71 011 (with symmetry) | the diff is right and shortest; what is written is what was accepted |
| `scheduler` | 4 tasks, 2 overlapping passes, 2 days, 2 faults | 201 708 | what is recorded ran; daily tasks run and stay recorded |

Runs expected to find a violation, one property each (section 6):
`dialog_stale_answer`, `stream_dropped_interrupt`.

### The bounds, and why they are enough

- *queue*: the interesting cases need two waiting items besides a running one
  (order, sorting, overtaking) and a limit that falls below the running map
  (2 to 1 with two running). Three calls give both; since calls are recycled,
  histories are unbounded, so one call can wait while the two others overtake it
  for ever, the case the starvation boost exists for. Three ids for three calls
  leave room for duplicates as well as for none. `StarvationAge` 1 and
  `MaxAge` 2 give an item that is not starved, one that is and one that is older.
- *consent*: four waits over two threads put three in one queue (head,
  middle, tail) while the other thread waits too.
- *dialog*: two conversations share the bar; two requests per thread
  (`MaxRuns` 2) let a stop or an answer arrive in the next one; `MaxRequests` 3 leaves
  the other conversation one to ask in meanwhile. One click
  (`MaxClicks` 1) is enough for a message that is late; two clicks multiply the
  state space, and `dialog_stale_answer` uses them on one thread.
- *guard*: two overlapping starts and a third agent that starts later; four
  executions, so that both starts get their own and one handle is lost.
- *stream*: two requests for each other's slot, thread and guard count;
  `MaxEvents` 2 (one event within the limit and one at it), `MaxRetries` 1,
  `MaxGrants` 1 and `QueueDepth` 1 each allow the step once and refuse it the
  second time.
- *failover*: a primary, a fallback without credentials ahead of two with them;
  cooldowns of 1 tick (within the margin of a probe) and 2 (outside it), a
  reason without failover; `errorCount` is capped at 3, the only value
  compared with. One agent and one Ask stream are the two code paths. With a
  second selectable provider the state space exceeds four million; that
  was tried on two providers in all (232 000 states, no error) and is not kept as a run.
- *mcp*: one caller connects while another waits, reports to the same breaker or
  starts after a reload. `Threshold` 2 gives a failure that does not open
  the circuit and one that does; `MaxRetries` 2 a back-off and a last attempt; two
  faults two timers of which one handle is kept.
- *review*: two changes of one file or of two, so that one overwrites the other,
  two calls, so that a change is applied twice at once. `MaxStarted` bounds the sum
  of the changes proposed and the checkpoints taken: two changes with one
  checkpoint, one change with two, or three checkpoints, one more than
  `MaxCheckpoints`. `MaxBusy` bounds the same sum with the calls and the revert that
  are under way at the time: two calls at once beside two changes or beside a change
  and a checkpoint, one call beside two changes and a checkpoint, and a revert beside
  a call, a change and its checkpoint. One checkpoint is taken and one revert runs at a time.
  Without `MaxBusy` the run exceeds thirty million states.
- *hunks*: with `CONTEXT_LINES` 1 (3 in the code) six lines hold two hunks,
  hunks at either end, and gaps of two and three unchanged lines, one that merges and
  one that does not. `MaxCells` 24 sends pairs with more cells to `simpleDiff`,
  whose look-ahead is 2; the code's numbers, ten million and 50, play the same part.
- *scheduler*: a day of two hours; the last hour of a day and both of the next, so
  that midnight is crossed, also by a running pass. A midnight, a daily
  and an interval task, and a last one that always fails. Two passes overlap; two
  faults are a crash and a failing write, or two of a kind.

Deadlock is checked in `queue`, `consent`, `provider_failover`, `mcp` and
`scheduler`. `dialog` (with `dialog_stale_answer`), `guard_safety`, `stream` (with
`stream_dropped_interrupt`), `review` and `hunks` stop when their requests or changes are
used up, so it is switched off there; in `dialog` and `stream` the
liveness properties say that nothing is stuck before.

## 4. Fairness

Nothing is assumed of the user or of the order of messages.

- *queue*: `FairSpec` only has the abort timers fire (`WF(AbortFires)`), which is
  what `DeadlineHonoured` rests on: a caller with a timeout leaves even if no stream ever ends.
  That streams end and release (a `finally` block), that the starvation
  `setInterval` runs and that time passes is a *hypothesis* of
  `QueuedCallsSettle` (`StreamsEnd => ...`), not of the specification. Weak
  fairness of `Release` is enough: a granted call stays so until it releases.
- *consent*: `WF(Timeout(w))`, a `setTimeout` (`ConsentFairSpec`).
- *dialog*: the timers, and weak fairness of the generator and its consumer per
  thread: a `for await` loop goes on when its promise is settled.
- *stream*: `WF(Step(r))`: what the service, the agent and the timers do. It
  contains no step of the user: an open prompt is settled at the latest by its
  timeout, which `WaitsSettle` shows of the consent manager. That an LLM call
  never hangs is an assumption; the code has no timeout around
  `streamIterator.next()`.
- *mcp*: `WF(CallStep(p))` per caller: an attempt to connect ends, one way or the
  other, and the delay between two attempts passes. That a connect which hangs does
  end is an assumption about the server and the SDK's own request timeout; this code
  sets none. Nothing is assumed of the cooldown, the reconnect timers or the user.
- *scheduler*: the interval fires, actions of tasks end or fail, time goes
  on and the editor is opened again (`FairSpec`). That no action hangs for ever is
  an assumption; the code has no timeout around it.
- *guard*, *failover*, *review*, *hunks*: safety only, no fairness.

## 5. The proofs

Each theorem is of the form `Spec => []Inv`, `Spec => [][A]_vars` or
`Spec => Abstract!Spec`, for every value of the constants that meets the
assumptions of the module, which are named there. Most say no more than that bounds
are naturals and thresholds positive, or that `None` is none of the values it
stands beside (`NoneIsNoRecord` in `Checkpoints`).

**ConcurrencyQueueProofs.** `IInv == TypeOK /\ IndexInSync /\ SlotAccounting /\
NoIdleSlotWhileWaiting /\ QueueSorted` is inductive as a whole and in no
smaller part that would do: `IndexInSync` is needed so that the item found by id is
the item of the call; `SlotAccounting` so that releasing frees one id and no
other's; both so that draining moves each call once. `NoIdleSlotWhileWaiting` is kept because
every step that frees a slot drains, and drains until a guard fails.
`QueueSorted` is the surprising one: `acquire()` inserts by priority only, yet
the array stays sorted by priority *and* age, since a new item has age 0
and a boost re-sorts. Theorems: `TypeCorrect`, `IndexStaysInSync`,
`SlotsAreAccountedFor`, `WorkConserving`, `QueueStaysSorted`, and the two action
properties `LimitRespected` and `GrantedInOrder`, which follow from the invariant and
the definition of `Drain`.

`QueueIsSlotPool` is the refinement, `Spec => ImplementsSlotPool`. The pool counts
callers that hold a slot, the code the ids in `running`: `SlotAccounting` makes the
two a bijection (`HoldersCount`). Every action is then a step of the pool or a
stutter; `drain()` is the one with content (`DrainHandsOver`): the callers it serves are
the ones that stop to wait, they fit, and if somebody is left the limit is reached.
Callers that wait while a slot is free would make the fast path of `acquire()` no
step of the pool, so this needs `NoIdleSlotWhileWaiting` too.

**ApprovalDialogProofs.** First the consent manager by itself: `ConsentIInv ==
ConsentTypeOK /\ WaitersInSync`, theorems `ConsentTypeCorrect`, `WaitersStayInSync`,
`OldestGranted`. The invariant has to carry all of the map's structure: that a wait is
in one queue, once, and under its own thread is what makes removing the head (or
the wait whose timer fired) leave the rest in step.

Then the dialog around it. Its steps are steps of the manager or leave it alone
(`DialogUsesConsent`), so that what is proved of the manager holds in the dialog
without a second proof. That every open wait has its stream (`WaitsHaveStreams`) needs, besides
`ConsentIInv`, that the messages under way name threads and prompts that exist
(`ChannelsSound`), that a stream which asks knows its prompt (`PromptsKnown`) and
belongs to a request with a number (`RequestsNumbered`). Nothing
is needed of the order of messages: an answer or a stop that arrives in the wrong
request may settle the wrong prompt, but never opens one.

**ProviderFailoverProofs.** The inductive invariant is the type of everything with,
for each health record alone, `Coherent`, and for each stream alone, `Sound`: theorems
`TypeCorrect`, `HealthStaysCoherent`. That the health needs nothing of the streams, the chain
or the probes is the point: whichever provider an outcome is charged to, and
section 6 shows that it may be the wrong one, what the health indicator shows does
not contradict itself.

The three action properties rest on `PublishedKeepsRunning`: `getAllHealth()`, which
the event of every outcome calls, writes to all records but changes none whose
cooldown still runs. So an outcome disturbs the cooldown of its own provider at most
(`OthersAlone`), which is `CooldownsDoNotMix`; and a provider that
was free before the failure is free in the health the fallback is resolved
with, which gives `FallbackFits` and, with the fact that every failure calling for
failover has a positive cooldown, `GivesUpToProbe`.

**AgentStreamProofs.** First the guard: `GuardTypeOK`, `CountMatchesAgents` and
`count <= Cardinality(Active)`, which holds after `dispose()` too, are inductive together. Until `dispose()` the count is exact (`CountIsExact`), so that `count > 1`
means another agent is active and the guard falls only with the last one
(`GuardSurvives`); the type of the counter needs the exact count in turn
(`GuardTypeCorrect`), and after `dispose()` the clamp at 0.

Then the stream. Its invariant `IInv` joins the type, `ResourcesFollowTheStream` and
`EveryRequestAnswered` with what they rest on: one call for a thread, waiting or
running (`OneCallPerThread`), the guard's count as the number of running requests
(`StreamsCounted`), an error that stands was published (`ErrorsTold`), and the event that
reaches the limit is the last before the user is asked (`CountedWithin`). That a stream is registered until it ends or is stopped
(`RegisteredWhileStreamed`) has an invariant of its own beside it, `RInv`: a stream
whose manager runs is registered, and only what registers it, ends it or stops it touches
either. The
thirty steps of a request reduce to three cases by `StepAdvances`: it
begins, ends (`Ends`: the finally blocks run, and the user was told or stopped it) or goes on
(`GoesOn`: it keeps what it holds). Theorems: `TypeCorrect`,
`ResourcesAreFreed`, `RequestsAreAnswered`. The same three cases give the refinement
`StreamsUseTheGuard`, `Spec => UsesGuardOnce`: to the guard a request that begins is an
agent that starts, one whose `executeTask()` was answered runs, one that ends stops, and any
other step is a stutter; the count it hands over is the guard's because each
stream starts and stops once.

**McpConnectionProofs.** `IInv == TypeOK /\ UnderWay /\ MutexHeld /\ ErrorIsRetried`. Since
`TypeOK` says of each breaker that its state, its failures and its probe agree,
`MethodsKeepSound` proves that of every method of the breaker first. `UnderWay` says what
a call between two awaits has (a client of its own, an attempt number) and `MutexHeld`
that before a reload any call that connects is the one `connectionPromises` names; an
attempt that ends clears the mutex whoever holds it, so without `MutexHeld` it could
release the mutex of another. `ErrorIsRetried` is inductive for each client alone, once it is said what
`cleanup`, the transport's callbacks and the timers make of one (`CleanupKeeps` and
those after it). Theorems: `TypeCorrect`, `OneAttemptAtATime`, `ErrorsAreRetried`.

**CheckpointsProofs.** Proves the review, the composer sessions and the
checkpoints in one invariant, because a revert writes files between any two steps
of a review. That a file shows accepted changes only (`Accepted`: applied, being written,
or left behind by a write) is far from inductive: what may be
written next must be accepted as well. So `ChangesSound` says it of the old and new
contents of every change, `CallsSound` of what a running call is going to write,
`ListedSound`, `TakingSound` and `RevertingSound` of what checkpoints hold; all of them
survive because a change never stops being accepted (`Onward`): a write that ends
leaves its change applied or left behind (`OneWriteEnds`), and no other step ends one
(`NoWriteEnds`). For sessions,
`Open(s)` are the changes of a session that may still be applied, and `RunsSound` says
that a running `applySession` has all of them before it unless a write failed; so
when it finds none left and none failed, the session may be reported applied
(`StatusSound`). Theorems: `TypeCorrect`, `NothingGoesUnreviewed`, `AppliedStays` and
`RevertsRestore`; for the last, a snapshot equals what the file held when the
checkpoint was asked for as long as nothing else wrote (`Exact`).

**SchedulerProofs.** `IInv` says that memory and file, each by itself, hold only runs
that completed: a restart reads the file, so backing the memory alone would not
do. `RecordsAreRuns` follows; whether a pass ran a task twice plays no part in it.

**DiffHunksProofs.** What the code computes by loops over texts is proved for texts of
any length. The library's induction theorems take an operator as a parameter, which
these provers cannot instantiate; so `Induction` is stated for a *set* of
numbers and `Recursion` for a *function* that maps an argument and what is known
so far to a value, both proved from the well-foundedness of `<` on the naturals. With
them `TableBounds` shows that entry `[i][j]` of the table is the length of a
longest common subsequence of `i` and `j` lines, in both directions: no longer one exists,
and the walk back finds one.

An edit is a *path* (`Path`): each operation starts at the lines where the one before it
ended, stands for lines the texts have, and keeps only what they share. `TableDiffIsEdit` and
`SimpleDiffIsEdit` show that either algorithm returns a path through the whole
of both texts. What a path shows of its operations that are no inserts is
therefore the old text, of those that are no deletes the new one (`PathRuns`,
`EditShowsTexts`), and what it keeps of both is a common subsequence (`RunsShare`), so that
no edit keeps more than the table says (`LongestKept`). This is `ReviewIsMinimal`.

For `ReviewWritesSelection` the invariant `Reviewed` says that the hunks under
review are those of the edit, whatever was decided. `RegionsAreApart` and
`HunksAreApart`: two hunks are more than two contexts apart, so that their lines do not
overlap. Then one hunk of
`applySelectedHunks` at a time (`HunkAdded`): after it, the lines used of the old text are
those before the end of the hunk, and the result is what the path shows up to there when the
changes of the accepted hunks are made. No change is outside all hunks
(`ChangesAreInHunks`).

**The lemmas about sequences** (`DropFront`, `RemoveOne`, `InsertOne`, `DropOne`): what
`SubSeq`, `RemoveAt` and `InsertAt` return, by their definitions and without induction,
stand before the proofs that use them.

Only model-checked: all liveness (fairness is beyond this prover), that is `QueuedCallsSettle`,
`DeadlineHonoured`, `WaitsSettle`, `StoppedRequestsEnd`, `RequestsEnd`,
`ProbeIsReported` and `DailyTasksRun`. Every invariant, action property and
refinement that a passing run checks is also a theorem.

## 6. What was found

With a run (each is in `PROJECT.json` "findings" with the line it contradicts):

1. `dialog_stale_answer`. An answer names the thread only. Allow, clicked for a
   prompt that has just timed out, or clicked twice, approves the next prompt of the
   thread before the user has seen it.
2. `stream_dropped_interrupt`. An approval the agent asks for after a failover, or
   with the very event that reaches a safety limit, is never shown, and the
   stream ends as completed.

Met while modelling, without a run of their own. The models contain the steps; the
first four are disagreements between the code and what a comment or a
document says of it.

Streams, queue and failover:

- `services/concurrency-queue.service.ts:236`: the abort listener of a queued call is
  never removed and cancels *by id*, so after the call was granted and released its
  late abort cancels another call waiting under the same id. The comment at `:238`
  says "nothing to do, the slot was granted". No caller passes a signal or
  a timeout today.
- `agents/services/codebuddy-agent.service.ts:1366`: after a detected tool loop the
  generator reads the agent once more before it looks at `hasErrored`; a transient
  error of that read is retried, although `error-recovery.service.ts:10` says "Never
  retry **intentional** stops". A request stopped during the back-off is called
  again too (`:1606`).
- `services/provider-failover.service.ts:489`: a timeout's cooldown (30 s) equals the
  probe margin (30 s), so the provider that timed out is its own first candidate and
  the request fails although a fallback is free; the class comment (`:142`) says the
  next provider is tried "when the primary LLM provider fails", and the
  repository's `README.md:205` names timeouts.
- `agents/services/codebuddy-agent.service.ts:1704`: the agent built for the failover
  ("Create new agent with the failover provider", `:1703`) reads the settings, so it
  calls the provider that failed; the outcome is charged to the fallback.
- `services/agent-running-guard.service.ts:51`: the handle is not cleared when the
  user closes the task's terminal, so later agents run without a close warning.
  Overlapping starts may overwrite each other's handle (`:86`).
- The flush timer of a stream manager reschedules itself
  (`agents/services/stream-manager.service.ts:76`) and is stopped by `endStream()`,
  which the error path (`codebuddy-agent.service.ts:1824`) does not call.
- An error is published twice, once by the generator and once by its consumer;
  `recordSuccess` (`codebuddy-agent.service.ts:1630`) runs also after `hasErrored`.
- Two streams that miss the agent cache together both create an agent (`:1001`).
- A "probe" only ever happens right after a failure, because `resolveProvider()` is
  only called then, though its comment calls it the main entry point before a model
  is created (`services/provider-failover.service.ts:279`).
- An unknown error makes a provider that is down healthy, and a shorter cooldown
  replaces a longer one (`:373`).
- In the Ask mode a failed save is charged to the provider, and the question may
  be sent again to a fallback (`webview-providers/base.ts:1088`).

- A stop names the thread only (`handlers/message-handler.ts:207`): one that arrives
  when the thread has gone on to its next request cancels that one's stream and
  denies its prompt.
- A stop handled between the last yield of a prompt and its wait finds nothing to deny
  (`codebuddy-agent.service.ts:1939`): the wait opens afterwards and ends with its
  timeout (`StoppedRequestsEnd`). An answer handled there is dropped (`:1055`).
- Of two conversations that ask at once the later hides the earlier's prompt
  (`useStreamingChat.ts:470`), which is denied by its timeout.
- A stop of a request that still waits for its slot leaves it in the queue
  (`handlers/message-handler.ts:202`): it takes a slot in its turn, and the agent is
  fetched for it, before its first yield ends it.

MCP:

- `MCP/service.ts:290`: the probe of a half-open breaker is taken before the checks that
  throw and before the mutex. While one generation of breakers lasts it comes back
  (`ProbeIsReported`). After a reload a call that had waited for an older attempt
  takes the token of the *new* breaker (`:321`) and throws: with three callers that
  breaker stays half open and refuses everybody until the next reload.
- `MCP/service.ts:340`: after a reload the `finally` of an old attempt deletes the
  mutex entry of a new one; and an old attempt that succeeds registers its client,
  even if the server has been disabled since. A client that is replaced in
  `clients` (`:814`) is not disconnected.
- `MCP/client.ts:206`: two transport errors start two reconnect timers, of which
  `cleanup()` knows the second; the first reconnects a client that was disconnected on
  purpose, which the comment at `:374` means to prevent.
- A connection that is *closed* is never reconnected: `onclose` sets DISCONNECTED
  (`:155`) and `attemptReconnect()` takes that for an intentional disconnect (`:184`).
  Nor is a reconnect that fails tried again: `cleanup()` leaves DISCONNECTED.

Review and checkpoints:

- `services/diff-review.service.ts:162`: a change rejected while its file is being
  written ends as applied, is announced as both, and is listed twice; until the write
  is over its file may show it. A write that fails with the text in the file leaves the change
  pending, or rejected.
- `services/composer.service.ts:127` calls `applySession` atomic; writes that fail leave
  the others applied ("partial"). A session that was applied can be set to
  rejected afterwards (`:192`), with its changes in the files.
- Two replacements in one file start from the same content: the second applied
  overwrites the first.
- A file first touched in a turn is not in that turn's checkpoint
  (`codebuddy-agent.service.ts:1219` passes no files), so a revert leaves it as it is.
- A checkpoint deleted while a revert to it runs leaves the later ones listed.
- The repository's `README.md:152` says checkpoints are saved to SQLite; they are in memory.
- After a finalize whose write failed, the undecided hunks stay rejected
  (`diff-review.service.ts:260`), and `applyChange` ignores the decisions. Accepting part of a
  change writes the whole file with `\n` line ends, whatever they were.

Scheduler:

- A pass starts every minute (`services/scheduler.service.ts:49`), so a task that takes
  longer runs several times at once, and `last_run` may go back.
- A task that always fails ends every pass (`:173`): those behind it never run. The
  hour is that of the start of a pass (`:65`), the day that of a task's turn (`:188`), so
  a pass that crosses midnight runs the morning tasks just after it.
- A database that cannot be written is only logged (`sqlite-database.service.ts:414`).
- `DailyTasksRun` looks at the last day of the run, whose last hour does not end.

## 7. What is not modelled

- Every component with status `not_modelled` in `PROJECT.json`, with its reason there.
- Of the agent service: the agent cache, the compaction cache, its `dispose()`,
  session restore. Of the agent itself: which events it sends; LangGraph is external.
- Of MCP: the caches of tools, loading the configuration, the Docker checks. Of the
  checkpoints: two taken or two reverts at a time, `clearAll`. Of the scheduler: the
  tasks themselves, the settings that switch them off, `stop()`. Of the diff:
  characters and line ends.
- Contents: messages, chunks, costs, provider error texts and their
  classification (`classifyFailureReason` is a choice of reason).
- Events, status bars, telemetry, wording.

## 8. Plan

Done: the queue and its abstract pool, consent, the dialog, the guard, the
stream, the failover, MCP connections, the review of changes with composer and checkpoints,
hunks, the scheduler; theorems about all of them, section 5.

Next, in this order:

1. **Proofs.** The safety part of the liveness properties: that what they wait
   for stays possible until it happens, and that nothing takes it back.
2. **Compaction, checkpoint saver and chat history**: token budget and tiers as
   operators; pending writes and debounced persistence; pruning under writes.
3. **Production safeguards** and the agent cache, as far as the number of runs allows.
