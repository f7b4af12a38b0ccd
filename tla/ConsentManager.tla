---------------------------- MODULE ConsentManager ----------------------------
(***************************************************************************)
(* The prompts that wait for the user's consent, keyed by thread           *)
(* (src/src/agents/services/consent-manager.ts).                           *)
(*                                                                         *)
(* A wait is one call of waitForConsent(): the entry it queues, its timer  *)
(* and the promise it returned.  A wait that is over may be recycled for a *)
(* later call once nothing refers to its entry.                            *)
(***************************************************************************)
EXTENDS Integers, Sequences, FiniteSets, SequencesExt, Functions

CONSTANTS
    Waits,     \* calls of waitForConsent() that can be live at once
    Threads,   \* conversations
    None       \* not a thread: the wait has not been used yet

ASSUME NoneAssumption == None \notin Threads

VARIABLES
    waiters,   \* the map waiters: its keys and the queue under each
    timers,    \* waits whose timeout is set and has neither fired nor been cleared
    threadOf,  \* the thread the wait was made for
    verdict    \* where the promise of the wait stands

consentVars == <<waiters, timers, threadOf, verdict>>

Verdicts == {"idle", "pending", "granted", "denied"}

\* The state of a map without keys, for the modules that compose this one.
NoWaits ==
    /\ waiters = [t \in {} |-> << >>]
    /\ timers = {}

ConsentInit ==
    /\ NoWaits
    /\ threadOf = [w \in Waits |-> None]
    /\ verdict = [w \in Waits |-> "idle"]

-----------------------------------------------------------------------------
(* Helpers *)

Keys == DOMAIN waiters

\* The queue of a thread: empty for a thread without a key.
QueueOf(t) == IF t \in Keys THEN waiters[t] ELSE << >>

\* SetQueue(t, q): the map with q under t, and without the key once q is empty.
SetQueue(t, q) ==
    IF q = << >>
    THEN Restrict(waiters, Keys \ {t})
    ELSE [k \in Keys \cup {t} |-> IF k = t THEN q ELSE waiters[k]]

\* resolve(): only the first call settles a promise.
Resolve(S, outcome) ==
    verdict' = [w \in Waits |->
                   IF w \in S /\ verdict[w] = "pending" THEN outcome ELSE verdict[w]]

\* Mistake: the promise is settled with the text of the message.
OutcomeAsSent(granted) == IF granted THEN "granted" ELSE "cancelled"

Outcome(granted) == IF granted THEN "granted" ELSE "denied"

-----------------------------------------------------------------------------
(* Operations *)

\* Nothing is left of the wait's last use.
Unused(w) ==
    /\ verdict[w] # "pending" /\ w \notin timers
    /\ \A t \in Keys : \A i \in 1 .. Len(waiters[t]) : waiters[t][i] # w

WaitForConsent(w, t) ==
    /\ Unused(w)
    /\ waiters' = SetQueue(t, Append(QueueOf(t), w))
    /\ timers' = timers \cup {w}
    /\ threadOf' = [threadOf EXCEPT ![w] = t]
    /\ verdict' = [verdict EXCEPT ![w] = "pending"]

\* removeWaiter()
RemoveWaiter(t, w) ==
    IF \E k \in 1 .. Len(QueueOf(t)) : QueueOf(t)[k] = w
    THEN \E k \in 1 .. Len(QueueOf(t)) :
            /\ QueueOf(t)[k] = w
            /\ \A j \in 1 .. k - 1 : QueueOf(t)[j] # w
            /\ waiters' = SetQueue(t, RemoveAt(QueueOf(t), k))
    ELSE waiters' = waiters

\* Mistake: the promise of a wait that timed out is left pending.
TimeoutForgets(w) ==
    /\ w \in timers
    /\ timers' = timers \ {w}
    /\ RemoveWaiter(threadOf[w], w)
    /\ UNCHANGED <<threadOf, verdict>>

\* The timeout of a wait fires.
Timeout(w) ==
    /\ w \in timers
    /\ timers' = timers \ {w}
    /\ RemoveWaiter(threadOf[w], w)
    /\ Resolve({w}, "denied")
    /\ UNCHANGED threadOf

\* Mistake: the newest prompt is answered, not the oldest.
RespondNewest(t, granted) ==
    /\ t \in Keys
    /\ LET last == waiters[t][Len(waiters[t])] IN
        /\ waiters' = SetQueue(t, Front(waiters[t]))
        /\ timers' = timers \ {last}
        /\ Resolve({last}, Outcome(granted))
    /\ UNCHANGED threadOf

\* respond(granted, threadId)
Respond(t, granted) ==
    /\ t \in Keys
    /\ LET oldest == Head(waiters[t]) IN
        /\ waiters' = SetQueue(t, Tail(waiters[t]))
        /\ timers' = timers \ {oldest}
        /\ Resolve({oldest}, Outcome(granted))
    /\ UNCHANGED threadOf

\* respond(granted): the oldest wait of every thread.
RespondAll(granted) ==
    /\ Keys # {}
    /\ LET oldest == {Head(waiters[t]) : t \in Keys} IN
        /\ waiters' = [t \in {k \in Keys : Len(waiters[k]) > 1} |-> Tail(waiters[t])]
        /\ timers' = timers \ oldest
        /\ Resolve(oldest, Outcome(granted))
    /\ UNCHANGED threadOf

\* Mistake: the timers are not cleared.
ClearKeepsTimers(t) ==
    /\ t \in Keys
    /\ Resolve(Range(waiters[t]), "denied")
    /\ waiters' = Restrict(waiters, Keys \ {t})
    /\ UNCHANGED <<timers, threadOf>>

ClearThread(t) ==
    /\ t \in Keys
    /\ timers' = timers \ Range(waiters[t])
    /\ Resolve(Range(waiters[t]), "denied")
    /\ waiters' = Restrict(waiters, Keys \ {t})
    /\ UNCHANGED threadOf

ConsentNext ==
    \/ \E w \in Waits, t \in Threads : WaitForConsent(w, t)
    \/ \E w \in Waits : Timeout(w)
    \/ \E t \in Threads, granted \in BOOLEAN : Respond(t, granted)
    \/ \E granted \in BOOLEAN : RespondAll(granted)
    \/ \E t \in Threads : ClearThread(t)

ConsentSpec == ConsentInit /\ [][ConsentNext]_consentVars

\* Only the timers are sure to fire: nobody has to answer.
ConsentFairSpec == ConsentSpec /\ \A w \in Waits : WF_consentVars(Timeout(w))

-----------------------------------------------------------------------------
(* Safety *)

ConsentTypeOK ==
    /\ Keys \subseteq Threads
    /\ \A t \in Keys : waiters[t] \in Seq(Waits)
    /\ timers \subseteq Waits
    /\ threadOf \in [Waits -> Threads \cup {None}]
    /\ verdict \in [Waits -> Verdicts]

\* The map, the timers and the promises agree: no queue is kept empty, a wait
\* stands in one place only, under its own thread, and it stands there, with
\* its timer set, exactly as long as its promise is open.
WaitersInSync ==
    /\ \A t \in Keys : waiters[t] # << >>
    /\ \A t \in Keys : \A i \in 1 .. Len(waiters[t]) :
          /\ verdict[waiters[t][i]] = "pending"
          /\ threadOf[waiters[t][i]] = t
          /\ \A j \in 1 .. Len(waiters[t]) : waiters[t][i] = waiters[t][j] => i = j
    /\ \A w \in Waits : verdict[w] = "pending" =>
          /\ threadOf[w] \in Keys
          /\ \E i \in 1 .. Len(waiters[threadOf[w]]) : waiters[threadOf[w]][i] = w
    /\ timers = {w \in Waits : verdict[w] = "pending"}

\* "resolves the oldest waiter for that thread": a prompt is only granted while
\* it is the oldest of its thread, so that one answer grants one prompt.
OldestIsGranted ==
    [][\A w \in Waits : verdict[w] = "pending" /\ verdict'[w] = "granted" =>
          QueueOf(threadOf[w])[1] = w]_consentVars

(* Liveness *)

\* "A timeout auto-denies stale requests": every wait is settled although the
\* user never answers.
WaitsSettle == \A w \in Waits : verdict[w] = "pending" ~> verdict[w] # "pending"
=============================================================================
