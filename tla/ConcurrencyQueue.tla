--------------------------- MODULE ConcurrencyQueue ---------------------------
(***************************************************************************)
(* The queue that bounds how many agent streams run at once                *)
(* (src/src/services/concurrency-queue.service.ts).                        *)
(*                                                                         *)
(* A call is one invocation of acquire(), together with what outlives it:  *)
(* the promise it returned, its abort listener and its release function.   *)
(* A call that is over may be recycled for a later invocation once its     *)
(* abort listener is gone.  Each public method is one action, because      *)
(* JavaScript runs it without interleaving; only the clock, the callers    *)
(* and the abort signals interleave.                                       *)
(***************************************************************************)
EXTENDS Integers, Sequences, FiniteSets, SequencesExt

CONSTANTS
    Calls,            \* invocations of acquire() that can be live at once
    Ids,              \* the ids they pass (conversation ids)
    None,             \* not an id: the call has not been made yet
    Limits,           \* values maxConcurrentStreams takes after the clamp
    DepthMultiplier,  \* QUEUE_DEPTH_MULTIPLIER
    StarvationAge,    \* STARVATION_BOOST_MS, in clock ticks
    MaxAge            \* bound: a waiting item's age stops the clock here

ASSUME CallsAssumption == IsFiniteSet(Calls) /\ IsFiniteSet(Ids) /\ None \notin Ids
ASSUME LimitsAssumption == Limits # {} /\ Limits \subseteq 1 .. 10
ASSUME DepthAssumption == DepthMultiplier \in Nat \ {0}
ASSUME AgeAssumption ==
    StarvationAge \in Nat /\ MaxAge \in Nat /\ StarvationAge <= MaxAge

BACKGROUND == 0
USER == 2
Priorities == BACKGROUND .. USER

\* A QueueItemInternal of the waiting array.  Its enqueuedAt is kept as its
\* age, now - enqueuedAt, so that the clock needs no bound of its own.
Item == [call : Calls, id : Ids, priority : Priorities, age : 0 .. MaxAge]

VARIABLES
    maxConcurrent,  \* _maxConcurrent
    running,        \* the keys of the running map
    waiting,        \* the waiting array
    waitingIds,     \* the lookup index of waiting
    disposed,
    idOf,           \* the id the call was made with
    promise,        \* where the call's promise stands, and its release function
    armed           \* calls whose abort listener is registered and has not fired

vars == <<maxConcurrent, running, waiting, waitingIds, disposed, idOf, promise, armed>>

PromiseStates ==
    {"idle", "pending", "granted", "released", "cancelled", "refused"}

Init ==
    /\ maxConcurrent \in Limits
    /\ running = {}
    /\ waiting = << >>
    /\ waitingIds = {}
    /\ disposed = FALSE
    /\ idOf = [c \in Calls |-> None]
    /\ promise = [c \in Calls |-> "idle"]
    /\ armed = {}

-----------------------------------------------------------------------------
(* Helpers *)

\* Free(r, m): how many more items the loop of drain() can start when r is the
\* running map and m the limit.  None when the limit was lowered below r.
Free(r, m) == IF Cardinality(r) < m THEN m - Cardinality(r) ELSE 0

\* Batch(r, m): how many items drain() takes off the front of the array.
Batch(r, m) == IF Len(waiting) <= Free(r, m) THEN Len(waiting) ELSE Free(r, m)

\* The items drain() serves: the first n of the waiting array.
Served(n) == {waiting[i] : i \in 1 .. n}

\* Drain(r, m, p): drain() run after its caller left r in the running map, m as
\* the limit and p in the promises.  The check for CANCELLED items is omitted:
\* cancel() takes an item out of the array when it marks it.
Drain(r, m, p) ==
    LET n == Batch(r, m) IN
    /\ waiting' = SubSeq(waiting, n + 1, Len(waiting))
    /\ waitingIds' = waitingIds \ {it.id : it \in Served(n)}
    /\ running' = r \cup {it.id : it \in Served(n)}
    /\ promise' = [c \in Calls |-> IF c \in {it.call : it \in Served(n)}
                                   THEN "granted" ELSE p[c]]

\* Mistake: the item is dropped and its promise never rejected.
CancelWithoutReject(id) ==
    \E k \in 1 .. Len(waiting) :
        /\ waiting[k].id = id
        /\ waiting' = RemoveAt(waiting, k)
        /\ waitingIds' = waitingIds \ {id}
        /\ promise' = promise

\* CancelWaiting(id): what cancel(id) does when it finds id.  The branch for an
\* id of the index that is not in the array is unreachable (IndexInSync).
CancelWaiting(id) ==
    \E k \in 1 .. Len(waiting) :
        /\ waiting[k].id = id
        /\ \A j \in 1 .. k - 1 : waiting[j].id # id
        /\ waiting' = RemoveAt(waiting, k)
        /\ waitingIds' = waitingIds \ {id}
        /\ promise' = [promise EXCEPT ![waiting[k].call] = "cancelled"]

\* The order the starvation timer sorts by: priority, then time of enqueueing.
Outranks(a, b) ==
    \/ a.priority > b.priority
    \/ a.priority = b.priority /\ a.age >= b.age

-----------------------------------------------------------------------------
(* acquire() *)

\* A call can be made again when nothing of its last use is left.
Idle(c) == promise[c] \notin {"pending", "granted"} /\ c \notin armed

QueueFull == Len(waiting) >= maxConcurrent * DepthMultiplier

\* acquire() throws: disposed, duplicate id, or back-pressure.
AcquireRefused(c, id) ==
    /\ Idle(c)
    /\ \/ disposed
       \/ id \in running \cup waitingIds
       \/ Cardinality(running) >= maxConcurrent /\ QueueFull
    /\ promise' = [promise EXCEPT ![c] = "refused"]
    /\ UNCHANGED <<maxConcurrent, running, waiting, waitingIds, disposed, idOf, armed>>

\* The fast path: a slot is free; the signal is not looked at.
AcquireSlot(c, id) ==
    /\ Idle(c) /\ ~disposed
    /\ id \notin running \cup waitingIds
    /\ Cardinality(running) < maxConcurrent
    /\ running' = running \cup {id}
    /\ promise' = [promise EXCEPT ![c] = "granted"]
    /\ idOf' = [idOf EXCEPT ![c] = id]
    /\ UNCHANGED <<maxConcurrent, waiting, waitingIds, disposed, armed>>

\* The guards of the slow path.
MustWait(c, id) ==
    /\ Idle(c) /\ ~disposed
    /\ id \notin running \cup waitingIds
    /\ Cardinality(running) >= maxConcurrent
    /\ ~QueueFull

\* Mistake: the scan stops at items of equal priority, newest first.
InsertNewestFirst(item) ==
    /\ waitingIds' = waitingIds \cup {item.id}
    /\ \E k \in 1 .. Len(waiting) + 1 :
        /\ \A j \in 1 .. k - 1 : waiting[j].priority > item.priority
        /\ k <= Len(waiting) => waiting[k].priority <= item.priority
        /\ waiting' = InsertAt(waiting, k, item)

\* Mistake: plain push, priorities ignored.
InsertLast(item) ==
    /\ waitingIds' = waitingIds \cup {item.id}
    /\ waiting' = Append(waiting, item)

\* insertSorted(): before the first item of strictly lower priority.
InsertSorted(item) ==
    /\ waitingIds' = waitingIds \cup {item.id}
    /\ \E k \in 1 .. Len(waiting) + 1 :
        /\ \A j \in 1 .. k - 1 : waiting[j].priority >= item.priority
        /\ k <= Len(waiting) => waiting[k].priority < item.priority
        /\ waiting' = InsertAt(waiting, k, item)

\* The slow path.  watched: a signal or a timeout was given and has not fired.
AcquireQueued(c, id, prio, watched) ==
    /\ MustWait(c, id)
    /\ InsertSorted([call |-> c, id |-> id, priority |-> prio, age |-> 0])
    /\ promise' = [promise EXCEPT ![c] = "pending"]
    /\ idOf' = [idOf EXCEPT ![c] = id]
    /\ armed' = IF watched THEN armed \cup {c} ELSE armed
    /\ UNCHANGED <<maxConcurrent, running, disposed>>

\* The slow path with a signal that is already aborted: the item is inserted
\* and taken out again before acquire() returns.
AcquireAborted(c, id) ==
    /\ MustWait(c, id)
    /\ promise' = [promise EXCEPT ![c] = "cancelled"]
    /\ UNCHANGED <<maxConcurrent, running, waiting, waitingIds, disposed, idOf, armed>>

-----------------------------------------------------------------------------
(* The other entry points *)

\* The release function: it acts once, and after dispose() only deletes.
Release(c) ==
    /\ promise[c] = "granted"
    /\ IF disposed
       THEN /\ running' = running \ {idOf[c]}
            /\ promise' = [promise EXCEPT ![c] = "released"]
            /\ UNCHANGED <<waiting, waitingIds>>
       ELSE Drain(running \ {idOf[c]}, maxConcurrent, [promise EXCEPT ![c] = "released"])
    /\ UNCHANGED <<maxConcurrent, disposed, idOf, armed>>

\* Mistake: no released flag, the second call frees the id again.
ReleaseTwice(c) ==
    /\ promise[c] = "released"
    /\ running' = running \ {idOf[c]}
    /\ UNCHANGED <<maxConcurrent, waiting, waitingIds, disposed, idOf, promise, armed>>

\* A release function called a second time returns at once.
ReleaseAgain(c) ==
    /\ promise[c] = "released"
    /\ UNCHANGED vars

\* cancel(id), from the queue's status picker.
Cancel(id) ==
    /\ id \in waitingIds
    /\ CancelWaiting(id)
    /\ UNCHANGED <<maxConcurrent, running, disposed, idOf, armed>>

\* Mistake: the index is not cleared with the array.
EmptyArrayOnly ==
    /\ waiting' = << >>
    /\ waitingIds' = waitingIds
    /\ promise' = [c \in Calls |->
                      IF \E i \in 1 .. Len(waiting) : waiting[i].call = c
                      THEN "cancelled" ELSE promise[c]]

\* cancelAllWaiting()
EmptyQueue ==
    /\ waiting' = << >>
    /\ waitingIds' = {}
    /\ promise' = [c \in Calls |->
                      IF \E i \in 1 .. Len(waiting) : waiting[i].call = c
                      THEN "cancelled" ELSE promise[c]]

CancelAllWaiting ==
    /\ waiting # << >>
    /\ EmptyQueue
    /\ UNCHANGED <<maxConcurrent, running, disposed, idOf, armed>>

\* Mistake: the listener does not reach cancel().
AbortIgnored(c) ==
    /\ c \in armed
    /\ armed' = armed \ {c}
    /\ UNCHANGED <<maxConcurrent, running, waiting, waitingIds, disposed, idOf, promise>>

\* The abort listener of c fires: it cancels whatever waits under its id.
AbortFires(c) ==
    /\ c \in armed
    /\ armed' = armed \ {c}
    /\ IF idOf[c] \in waitingIds
       THEN CancelWaiting(idOf[c])
       ELSE UNCHANGED <<waiting, waitingIds, promise>>
    /\ UNCHANGED <<maxConcurrent, running, disposed, idOf>>

\* The setting maxConcurrentStreams changes.
SetMaxConcurrent(m) ==
    /\ ~disposed
    /\ maxConcurrent' = m
    /\ Drain(running, m, promise)
    /\ UNCHANGED <<disposed, idOf, armed>>

\* Mistake: no cap at USER.
StarvedUncapped(it) == it.age >= StarvationAge

Starved(it) == it.age >= StarvationAge /\ it.priority < USER

\* Mistake: the boost is computed and thrown away.
NotBoosted(it) == it

Boosted(it) == IF Starved(it) THEN [it EXCEPT !.priority = @ + 1] ELSE it

\* The starvation timer: boost, then sort stably.
BoostStarvedItems ==
    /\ ~disposed
    /\ \E i \in 1 .. Len(waiting) : Starved(waiting[i])
    /\ \E p \in Bijection(1 .. Len(waiting), 1 .. Len(waiting)) :
        LET sorted == [i \in 1 .. Len(waiting) |-> Boosted(waiting[p[i]])] IN
        /\ \A i, j \in 1 .. Len(waiting) : i < j =>
              /\ Outranks(sorted[i], sorted[j])
              /\ Outranks(sorted[j], sorted[i]) => p[i] < p[j]
        /\ waiting' = sorted
    /\ UNCHANGED <<maxConcurrent, running, waitingIds, disposed, idOf, promise, armed>>

\* Time passes for the items that wait.
Tick ==
    /\ waiting # << >>
    /\ \A i \in 1 .. Len(waiting) : waiting[i].age < MaxAge
    /\ waiting' = [i \in 1 .. Len(waiting) |-> [waiting[i] EXCEPT !.age = @ + 1]]
    /\ UNCHANGED <<maxConcurrent, running, waitingIds, disposed, idOf, promise, armed>>

Dispose ==
    /\ ~disposed
    /\ disposed' = TRUE
    /\ EmptyQueue
    /\ running' = {}
    /\ UNCHANGED <<maxConcurrent, idOf, armed>>

-----------------------------------------------------------------------------
Acquire(c) ==
    \E id \in Ids :
        \/ AcquireRefused(c, id)
        \/ AcquireSlot(c, id)
        \/ \E prio \in Priorities, watched \in BOOLEAN : AcquireQueued(c, id, prio, watched)
        \/ AcquireAborted(c, id)

Next ==
    \/ \E c \in Calls : Acquire(c) \/ Release(c) \/ ReleaseAgain(c) \/ AbortFires(c)
    \/ \E id \in Ids : Cancel(id)
    \/ CancelAllWaiting
    \/ \E m \in Limits : SetMaxConcurrent(m)
    \/ BoostStarvedItems
    \/ Tick
    \/ Dispose

Spec == Init /\ [][Next]_vars

\* The abort timers are sure to fire; a stream may hold its slot for good.
FairSpec == Spec /\ \A c \in Calls : WF_vars(AbortFires(c))

\* A stream ends, in a finally block that calls its release function; the
\* starvation timer is a setInterval; time passes.
StreamsEnd ==
    /\ \A c \in Calls : WF_vars(Release(c))
    /\ WF_vars(BoostStarvedItems)
    /\ WF_vars(Tick)

-----------------------------------------------------------------------------
(* Safety *)

TypeOK ==
    /\ maxConcurrent \in Limits
    /\ running \subseteq Ids
    /\ waiting \in Seq(Item)
    /\ waitingIds \subseteq Ids
    /\ disposed \in BOOLEAN
    /\ idOf \in [Calls -> Ids \cup {None}]
    /\ promise \in [Calls -> PromiseStates]
    /\ armed \subseteq Calls

\* "O(1) lookup index for waiting item IDs. Kept in sync with `waiting`": the
\* index holds exactly the ids of the array, no id waits twice or waits while
\* it runs, and a promise is pending exactly while its item is in the array.
IndexInSync ==
    /\ waitingIds = {waiting[i].id : i \in 1 .. Len(waiting)}
    /\ waitingIds \cap running = {}
    /\ \A i, j \in 1 .. Len(waiting) :
          waiting[i].id = waiting[j].id \/ waiting[i].call = waiting[j].call => i = j
    /\ \A i \in 1 .. Len(waiting) :
          /\ promise[waiting[i].call] = "pending"
          /\ idOf[waiting[i].call] = waiting[i].id
    /\ \A c \in Calls : promise[c] = "pending" =>
          \E i \in 1 .. Len(waiting) : waiting[i].call = c

Holders == {c \in Calls : promise[c] = "granted"}

\* Every slot in use is held by exactly one caller who has not released it:
\* no slot leaks and none is freed under its holder.
SlotAccounting ==
    /\ ~disposed =>
          /\ running = {idOf[c] : c \in Holders}
          /\ \A c, d \in Holders : idOf[c] = idOf[d] => c = d
    /\ disposed => running = {} /\ waiting = << >>

\* No caller waits while a slot is free, whatever freed it: a release, a raised
\* limit, or a cancellation.
NoIdleSlotWhileWaiting ==
    waiting # << >> => Cardinality(running) >= maxConcurrent

\* The array is in the order the starvation timer sorts it to, although acquire
\* only inserts by priority.
QueueSorted ==
    \A i, j \in 1 .. Len(waiting) : i < j => Outranks(waiting[i], waiting[j])

(* What a step may never do *)

\* A step that gives out slots does not go over the limit in force.
GrantsWithinLimit ==
    [][running' \ running # {} => Cardinality(running') <= maxConcurrent']_vars

\* A caller who gets a slot outranks every caller still waiting.
GrantsInOrder ==
    [][\A c \in Calls, k \in 1 .. Len(waiting') :
          promise[c] # "granted" /\ promise'[c] = "granted" =>
             \E i \in 1 .. Len(waiting) :
                waiting[i].call = c /\ Outranks(waiting[i], waiting'[k])]_vars

(* Refinement *)

Pool == INSTANCE SlotPool
    WITH Callers <- Calls,
         limit   <- maxConcurrent,
         waiters <- {c \in Calls : promise[c] = "pending"},
         holders <- {c \in Calls : promise[c] = "granted"},
         closed  <- disposed

\* The queue, with its priorities, ids and abort listeners, is a
\* work-conserving pool of slots.
ImplementsSlotPool == Pool!Spec

(* Liveness *)

\* When streams end, every queued caller is granted a slot or cancelled, however
\* many callers of higher priority keep arriving.
QueuedCallsSettle ==
    StreamsEnd => \A c \in Calls : promise[c] = "pending" ~> promise[c] # "pending"

\* "Hard deadline (ms) for waiting in the queue": a caller with a timeout does
\* not depend on any stream ending.
DeadlineHonoured ==
    \A c \in Calls : promise[c] = "pending" /\ c \in armed ~> promise[c] # "pending"
=============================================================================
