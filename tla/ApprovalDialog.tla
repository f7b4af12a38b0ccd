---------------------------- MODULE ApprovalDialog ----------------------------
(***************************************************************************)
(* How a stream asks the user before it runs a tool: the generator of the  *)
(* agent service (handleInterrupt), the consumer of its events             *)
(* (MessageHandler), the consent manager, and the approval bar of the      *)
(* webview, which the extension host talks to by messages only.            *)
(*                                                                         *)
(* A thread carries at most one stream at a time (the concurrency queue    *)
(* refuses a second).  A prompt is one interrupt and the wait it leads to. *)
(***************************************************************************)
EXTENDS ConsentManager

CONSTANTS
    MaxRuns,     \* bound: requests per thread
    MaxRequests, \* bound: requests in all
    MaxClicks    \* bound: answers and stops the user sends in all

ASSUME DialogAssumption == {MaxRuns, MaxClicks} \subseteq Nat /\ None \notin Waits

VARIABLES
    pc,        \* where the stream of each thread stands
    prompt,    \* the prompt a stream asks or asked last
    run,       \* how many requests the thread has made: the requestId
    active,    \* threads whose latest request is in activeRequests
    streaming, \* threads whose registered stream manager is active
    toPanel,   \* events posted to the webview
    panel,     \* pendingApproval: the thread and prompt the user sees, or None
    toHost,    \* messages posted to the extension host
    clicks     \* how many messages the user has sent

vars == <<consentVars, pc, prompt, run, active, streaming, toPanel, panel, toHost, clicks>>

PC == {"idle", "starting", "running", "asking", "announced", "waiting"}

Init ==
    /\ ConsentInit
    /\ pc = [t \in Threads |-> "idle"]
    /\ prompt = [t \in Threads |-> None]
    /\ run = [t \in Threads |-> 0]
    /\ active = {}
    /\ streaming = {}
    /\ toPanel = << >>
    /\ panel = None
    /\ toHost = << >>
    /\ clicks = 0

-----------------------------------------------------------------------------
(* The stream and its consumer *)

Post(kind, t) == toPanel' = Append(toPanel, [kind |-> kind, thread |-> t, prompt |-> prompt'[t]])

\* The requests made so far: thread and number.
Requests == {r \in Threads \X (1 .. MaxRuns) : r[2] <= run[r[1]]}

\* The user sends a message on the thread: the panel is told, and the request
\* waits for its slot.
Start(t) ==
    /\ pc[t] = "idle" /\ run[t] < MaxRuns /\ Cardinality(Requests) < MaxRequests
    /\ pc' = [pc EXCEPT ![t] = "starting"]
    /\ run' = [run EXCEPT ![t] = @ + 1]
    /\ active' = active \cup {t}
    /\ prompt' = prompt
    /\ Post("start", t)
    /\ UNCHANGED <<consentVars, streaming, panel, toHost, clicks>>

\* The request has its slot and its agent: startStream() tells the panel again.
StartStream(t) ==
    /\ pc[t] = "starting"
    /\ pc' = [pc EXCEPT ![t] = "running"]
    /\ streaming' = streaming \cup {t}
    /\ prompt' = prompt
    /\ Post("start", t)
    /\ UNCHANGED <<consentVars, run, active, panel, toHost, clicks>>

\* The generator ends: the consumer broke off, the agent is done, or a step on
\* the way failed.  The finally block lets go of the stream manager and clears
\* the thread; no wait is open at a yield.
End(t) ==
    /\ pc' = [pc EXCEPT ![t] = "idle"]
    /\ active' = active \ {t}
    /\ streaming' = streaming \ {t}
    /\ IF t \in Keys THEN ClearThread(t) ELSE UNCHANGED consentVars
    /\ UNCHANGED <<prompt, run, toPanel, panel, toHost, clicks>>

Finish(t) == pc[t] \in {"starting", "running"} /\ End(t)

\* The agent interrupts: "interrupt_waiting" is yielded and published, unless
\* the consumer finds the request cancelled and breaks off.
Ask(t, w) ==
    /\ pc[t] = "running" /\ t \in active
    /\ verdict[w] = "idle" /\ \A s \in Threads : prompt[s] # w
    /\ pc' = [pc EXCEPT ![t] = "asking"]
    /\ prompt' = [prompt EXCEPT ![t] = w]
    /\ Post("waiting", t)
    /\ UNCHANGED <<consentVars, run, active, streaming, panel, toHost, clicks>>

\* The text "Waiting for your approval..." is yielded.
Announce(t) ==
    /\ pc[t] = "asking" /\ t \in active
    /\ pc' = [pc EXCEPT ![t] = "announced"]
    /\ UNCHANGED <<consentVars, prompt, run, active, streaming, toPanel, panel, toHost, clicks>>

\* The prompt of the thread is settled and the generator can go on.
Settled(t) == pc[t] = "waiting" /\ verdict[prompt[t]] \in {"granted", "denied"}

\* Mistake: the consumer does not look at events that only carry text.
BreakOffWhileRunning(t) == pc[t] = "running" /\ t \notin active /\ End(t)

\* A cancelled request is noticed at the next event the generator yields, which
\* is not published.
BreakOff(t) ==
    /\ pc[t] \in {"running", "asking"} \/ Settled(t)
    /\ t \notin active
    /\ End(t)

\* Mistake: the promise is not awaited.
StartWithoutAwait(t) ==
    /\ pc[t] = "announced"
    /\ pc' = [pc EXCEPT ![t] = "running"]
    /\ WaitForConsent(prompt[t], t)
    /\ UNCHANGED <<prompt, run, active, streaming, toPanel, panel, toHost, clicks>>

\* The generator goes on after its last yield: it waits, whatever has become
\* of the request meanwhile.
StartWaiting(t) ==
    /\ pc[t] = "announced"
    /\ pc' = [pc EXCEPT ![t] = "waiting"]
    /\ WaitForConsent(prompt[t], t)
    /\ UNCHANGED <<prompt, run, active, streaming, toPanel, panel, toHost, clicks>>

\* The promise is settled: "interrupt_approved" or "interrupt_denied".
GoOn(t) ==
    /\ Settled(t) /\ t \in active
    /\ pc' = [pc EXCEPT ![t] = "running"]
    /\ prompt' = prompt
    /\ Post(verdict[prompt[t]], t)
    /\ UNCHANGED <<consentVars, run, active, streaming, panel, toHost, clicks>>

PromptTimesOut(w) ==
    /\ Timeout(w)
    /\ UNCHANGED <<pc, prompt, run, active, streaming, toPanel, panel, toHost, clicks>>

-----------------------------------------------------------------------------
(* The webview *)

\* Mistake: the bar keeps the thread and forgets the prompt.
ShownThread(m) == IF m.kind = "waiting" THEN m.thread ELSE None

\* What an event leaves in the approval bar: "interrupt_denied" clears nothing.
Shown(m) ==
    CASE m.kind = "waiting" -> [thread |-> m.thread, prompt |-> m.prompt]
      [] m.kind \in {"start", "granted"} -> None
      [] OTHER -> panel

PanelReceives ==
    /\ toPanel # << >>
    /\ panel' = Shown(Head(toPanel))
    /\ toPanel' = Tail(toPanel)
    /\ UNCHANGED <<consentVars, pc, prompt, run, active, streaming, toHost, clicks>>

\* Allow and Deny leave the bar as it is.
Click(granted) ==
    /\ panel # None /\ clicks < MaxClicks
    /\ clicks' = clicks + 1
    /\ toHost' = Append(toHost, [kind |-> "consent", thread |-> panel.thread,
                                 prompt |-> panel.prompt, granted |-> granted])
    /\ UNCHANGED <<consentVars, pc, prompt, run, active, streaming, toPanel, panel>>

\* The stop button.
Stop(t) ==
    /\ pc[t] # "idle" /\ clicks < MaxClicks
    /\ clicks' = clicks + 1
    /\ panel' = None
    /\ toHost' = Append(toHost, [kind |-> "cancel", thread |-> t, run |-> run[t]])
    /\ UNCHANGED <<consentVars, pc, prompt, run, active, streaming, toPanel>>

-----------------------------------------------------------------------------
(* The extension host *)

\* setUserConsent(): an answer for a thread that does not wait is dropped.
HostReceivesAnswer ==
    /\ toHost # << >> /\ Head(toHost).kind = "consent"
    /\ LET m == Head(toHost) IN
        IF m.thread \in Keys THEN Respond(m.thread, m.granted)
        ELSE UNCHANGED consentVars
    /\ toHost' = Tail(toHost)
    /\ UNCHANGED <<pc, prompt, run, active, streaming, toPanel, panel, clicks>>

\* cancelStream(): nothing happens unless the thread's stream manager is active.
CancelStream(t) ==
    /\ streaming' = streaming \ {t}
    /\ IF t \in streaming \cap Keys THEN ClearThread(t) ELSE UNCHANGED consentVars

\* cancelRequest(): the request is looked up by its id, the stream by its
\* thread, which may have gone on to its next request.
HostReceivesCancel ==
    /\ toHost # << >> /\ Head(toHost).kind = "cancel"
    /\ LET m == Head(toHost) IN
        /\ active' = IF run[m.thread] = m.run THEN active \ {m.thread} ELSE active
        /\ CancelStream(m.thread)
    /\ toHost' = Tail(toHost)
    /\ UNCHANGED <<pc, prompt, run, toPanel, panel, clicks>>

Next ==
    \/ \E t \in Threads :
        \/ Start(t) \/ StartStream(t) \/ Finish(t) \/ BreakOff(t)
        \/ Announce(t) \/ StartWaiting(t) \/ GoOn(t)
        \/ Stop(t)
        \/ \E w \in Waits : Ask(t, w)
    \/ \E w \in Waits : PromptTimesOut(w)
    \/ PanelReceives
    \/ \E granted \in BOOLEAN : Click(granted)
    \/ HostReceivesAnswer
    \/ HostReceivesCancel

Spec == Init /\ [][Next]_vars

\* The timers fire, a request that waits gets its slot (QueuedCallsSettle of
\* ConcurrencyQueue), and the generator and its consumer keep going.
FairSpec ==
    /\ Spec
    /\ \A w \in Waits : WF_vars(PromptTimesOut(w))
    /\ \A t \in Threads :
          WF_vars(StartStream(t) \/ Announce(t) \/ BreakOff(t) \/ StartWaiting(t) \/ GoOn(t))

-----------------------------------------------------------------------------
(* Safety *)

TypeOK ==
    /\ ConsentTypeOK
    /\ pc \in [Threads -> PC]
    /\ prompt \in [Threads -> Waits \cup {None}]
    /\ run \in [Threads -> 0 .. MaxRuns]
    /\ active \subseteq Threads /\ streaming \subseteq Threads
    /\ \A i \in 1 .. Len(toPanel) :
          toPanel[i] \in [kind : {"start", "waiting", "granted", "denied"},
                         thread : Threads, prompt : Waits \cup {None}]
    /\ panel \in [thread : Threads, prompt : Waits] \cup {None}
    /\ \A i \in 1 .. Len(toHost) :
          toHost[i] \in [kind : {"cancel"}, thread : Threads, run : 1 .. MaxRuns] \cup
                       [kind : {"consent"}, thread : Threads, prompt : Waits, granted : BOOLEAN]
    /\ clicks \in 0 .. MaxClicks

\* Every open wait belongs to a stream that is suspended on it.
WaitHasItsStream ==
    \A w \in Waits : verdict[w] = "pending" =>
        pc[threadOf[w]] = "waiting" /\ prompt[threadOf[w]] = w

(* What a step may never do *)

\* "asks for explicit approval. The user can approve, edit, or reject the
\* proposed action before the agent continues": a prompt is granted by an
\* answer the user gave to that prompt.
AnswersTheirPrompt ==
    [][\A w \in Waits : verdict[w] = "pending" /\ verdict'[w] = "granted" =>
          Head(toHost).prompt = w]_vars

(* Liveness *)

\* A stopped request ends, also when the stop overtakes the prompt and the
\* generator goes on to wait for an answer nobody will give.
StoppedRequestsEnd ==
    \A t \in Threads : pc[t] # "idle" /\ t \notin active ~> pc[t] = "idle"
=============================================================================
