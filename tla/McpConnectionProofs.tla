-------------------------- MODULE McpConnectionProofs --------------------------
(***************************************************************************)
(* Theorems about McpConnection, for any number of callers, attempts,      *)
(* reconnects, reloads and faults.                                         *)
(***************************************************************************)
EXTENDS McpConnection, TLAPS, FiniteSetTheorems

-----------------------------------------------------------------------------
(* The circuit breaker *)

Sound(b) == b \in Breakers /\ Coherent(b)

\* A new breaker, and whatever a method makes of a sound one, is sound.
LEMMA NewIsSound == Sound(NewBreaker)
  BY ThresholdAssumption DEF Sound, Breakers, Coherent, NewBreaker

LEMMA MethodsKeepSound ==
    ASSUME NEW b, Sound(b)
    PROVE  /\ Sound(Attempted(b)) /\ Sound(Succeeded(b))
           /\ Sound(Failed(b)) /\ Sound(CooledDown(b))
<1> USE ThresholdAssumption DEF Sound, Breakers, Coherent
<1>1. Sound(Attempted(b))
  BY DEF Attempted, CanAttempt
<1>2. Sound(Succeeded(b))
  <2>1. 0 \in 0 .. Threshold /\ 0 < Threshold
    OBVIOUS
  <2>2. Succeeded(b) \in Breakers
    BY <2>1 DEF Succeeded
  <2>3. Coherent(Succeeded(b))
    BY <2>1 DEF Succeeded
  <2> QED
    BY <2>2, <2>3
<1>3. Sound(Failed(b))
  BY DEF Failed
<1>4. Sound(CooledDown(b))
  BY DEF CooledDown
<1> QED
  BY <1>1, <1>2, <1>3, <1>4

-----------------------------------------------------------------------------
(* The client *)

\* A client in ERROR has a reconnect ahead or made all its attempts.
Retried(k) ==
    k.state = "error" => k.timers # {} \/ k.redials > 0 \/ k.tries = MaxReconnects

LEMMA Bounds ==
    /\ MaxReconnects \in Nat /\ MaxReloads \in Nat /\ MaxFaults \in Nat /\ MaxRetries \in Nat
    /\ 0 \in 0 .. MaxReconnects /\ 0 \in 0 .. MaxFaults
    /\ 0 \in 0 .. MaxRetries /\ 1 \in 0 .. MaxRetries /\ 0 \in 0 .. MaxReloads
<1>1. MaxReconnects \in Nat /\ MaxReloads \in Nat /\ MaxFaults \in Nat /\ MaxRetries \in Nat \ {0}
  BY McpAssumption
<1> QED
  BY <1>1

\* What a method, a callback or a timer makes of a client is one that is retried.
LEMMA CleanupKeeps ==
    ASSUME NEW k \in ClientStates
    PROVE  Cleanup(k) \in ClientStates /\ Retried(Cleanup(k))
<1>1. k.timers \ {k.handle} \in SUBSET Timers
  BY DEF ClientStates
<1>2. Cleanup(k) \in ClientStates
  BY <1>1, Bounds DEF Cleanup, ClientStates
<1>3. Cleanup(k).state = "disconnected"
  BY DEF Cleanup, ClientStates
<1> QED
  BY <1>2, <1>3 DEF Retried

LEMMA ConnectedKeeps ==
    ASSUME NEW k \in ClientStates
    PROVE  Connected(k) \in ClientStates /\ Retried(Connected(k))
<1>1. Connected(k) \in ClientStates
  BY Bounds DEF Connected, ClientStates
<1>2. Connected(k).state = "connected"
  BY DEF Connected, ClientStates
<1> QED
  BY <1>1, <1>2 DEF Retried

LEMMA ErroredKeeps ==
    ASSUME NEW k \in ClientStates, NEW n \in Timers
    PROVE  Errored(k, n) \in ClientStates /\ Retried(Errored(k, n))
<1>1. k.tries \in 0 .. MaxReconnects /\ k.timers \in SUBSET Timers
  BY DEF ClientStates
<1>2. CASE k.tries >= MaxReconnects
  <2>1. k.tries = MaxReconnects
    BY <1>1, <1>2, Bounds
  <2>2. Errored(k, n) = [k EXCEPT !.state = "error"]
    BY <1>2 DEF Errored
  <2> QED
    BY <2>1, <2>2 DEF ClientStates, Retried
<1>3. CASE ~(k.tries >= MaxReconnects)
  <2>1. k.tries + 1 \in 0 .. MaxReconnects /\ n \in 0 .. MaxFaults
    BY <1>1, <1>3, Bounds DEF Timers
  <2>2. k.timers \cup {n} \in SUBSET Timers
    BY <1>1
  <2>3. Errored(k, n) = [k EXCEPT !.state = "error", !.tries = @ + 1, !.handle = n,
                                  !.timers = @ \cup {n}]
    BY <1>3 DEF Errored
  <2>4. Errored(k, n) \in ClientStates
    BY <2>1, <2>2, <2>3 DEF ClientStates
  <2>5. Errored(k, n).timers # {}
    BY <2>3 DEF ClientStates
  <2> QED
    BY <2>4, <2>5 DEF Retried
<1> QED
  BY <1>2, <1>3

LEMMA ClosedDownKeeps ==
    ASSUME NEW k \in ClientStates
    PROVE  ClosedDown(k) \in ClientStates /\ Retried(ClosedDown(k))
  BY DEF ClosedDown, ClientStates, Retried

LEMMA DisconnectedKeeps ==
    ASSUME NEW k \in ClientStates
    PROVE  Disconnected(k) \in ClientStates /\ Retried(Disconnected(k))
<1>1. CASE k.state = "disconnected"
  BY <1>1 DEF Disconnected, Retried
<1>2. CASE k.state # "disconnected"
  BY <1>2, CleanupKeeps DEF Disconnected
<1> QED
  BY <1>1, <1>2

LEMMA NewClientDials == Dialled(NewClient) \in ClientStates
<1>1. {} \in SUBSET Timers
  OBVIOUS
<1> QED
  BY <1>1, Bounds DEF Dialled, NewClient, ClientStates

\* connect() of an older client leaves it connecting, connected, or as it was.
LEMMA RedialKeeps ==
    ASSUME NEW k \in ClientStates
    PROVE  Redial(k) \in ClientStates /\ Retried(Redial(k))
<1>1. CASE MayDial(k)
  <2>1. k.redials + 1 \in Nat
    BY DEF ClientStates
  <2>2. Redial(k) = [k EXCEPT !.redials = @ + 1, !.state = "connecting"]
    BY <1>1 DEF Redial, Dialled, ClientStates
  <2>3. Redial(k) \in ClientStates
    BY <2>1, <2>2 DEF ClientStates
  <2>4. Redial(k).state = "connecting"
    BY <2>2 DEF ClientStates
  <2> QED
    BY <2>3, <2>4 DEF Retried
<1>2. CASE ~MayDial(k)
  BY <1>2 DEF Redial, MayDial, Retried
<1> QED
  BY <1>1, <1>2

-----------------------------------------------------------------------------
(* The inductive invariant *)

\* A call that connects has the client it connects, and one that waits for its
\* next attempt has one left.
UnderWay ==
    \A p \in Callers : /\ call[p].pc = "connecting" => client[p] \in ClientStates
                       /\ call[p].pc = "backoff" => call[p].attempt < MaxRetries

\* Before a reload the mutex names whichever call is connecting.
MutexHeld == gen = 0 => \A p \in Connecting : inProgress = p

IInv == TypeOK /\ UnderWay /\ MutexHeld /\ ErrorIsRetried

CallStates == [pc : {"idle", "waiting", "connecting", "backoff"}, gen : Gens,
               attempt : 0 .. MaxRetries, on : Callers \cup {None}]

\* The parts of the type that a step can disturb, each by itself.
BreakersOK == breaker \in [Gens -> Breakers] /\ \A g \in Gens : Sound(breaker[g])
CallsOK == call \in [Callers -> CallStates]
ClientsOK == client \in [Places -> ClientStates \cup {None}]
RestOK == gen \in Gens /\ inProgress \in Callers \cup {None} /\ faults \in 0 .. MaxFaults
EnabledOK == enabled \in BOOLEAN

LEMMA TypeParts == TypeOK <=> BreakersOK /\ CallsOK /\ ClientsOK /\ RestOK /\ EnabledOK
  BY DEF TypeOK, BreakerCoherent, BreakersOK, CallsOK, ClientsOK, RestOK, EnabledOK,
         CallStates, Sound

LEMMA Assembled ==
    ASSUME BreakersOK', CallsOK', ClientsOK', RestOK', EnabledOK',
           UnderWay', MutexHeld', ErrorIsRetried'
    PROVE  IInv'
<1>1. TypeOK'
  BY DEF TypeOK, BreakerCoherent, BreakersOK, CallsOK, ClientsOK, RestOK, EnabledOK,
         CallStates, Sound, Gens, Breakers, ClientStates, Timers, Places, Coherent
<1> QED
  BY <1>1 DEF IInv

LEMMA InitEstablishes == Init => IInv
<1> SUFFICES ASSUME Init PROVE IInv
  OBVIOUS
<1> USE McpAssumption
<1>1. BreakersOK
  BY NewIsSound DEF Init, BreakersOK, Sound
<1>2. CallsOK
  BY DEF Init, CallsOK, CallStates, Idle, Gens
<1>3. ClientsOK
  BY DEF Init, ClientsOK
<1>4. RestOK
  BY DEF Init, RestOK, Gens
<1>5. EnabledOK
  BY DEF Init, EnabledOK
<1>6. UnderWay /\ MutexHeld
  BY DEF Init, UnderWay, MutexHeld, Connecting, Idle
<1>7. ErrorIsRetried
  BY DEF Init, ErrorIsRetried
<1> QED
  BY <1>1, <1>2, <1>3, <1>4, <1>5, <1>6, <1>7, TypeParts DEF IInv

-----------------------------------------------------------------------------
(* What a step writes *)

\* One breaker is replaced by a sound one.
LEMMA BreakerWritten ==
    ASSUME BreakersOK, NEW g \in Gens, NEW b, Sound(b), breaker' = [breaker EXCEPT ![g] = b]
    PROVE  BreakersOK'
  BY DEF BreakersOK, Sound, Gens

\* One client is replaced, by none or by one that is retried; a client that a
\* call connects may be in any state.
LEMMA ClientWritten ==
    ASSUME ClientsOK, ErrorIsRetried, NEW p \in Places, NEW k \in ClientStates \cup {None},
           k = None \/ p \in Callers \/ Retried(k),
           client' = [client EXCEPT ![p] = k]
    PROVE  ClientsOK' /\ ErrorIsRetried'
<1>1. ClientsOK'
  BY DEF ClientsOK, Places
<1>2. \A q \in Places : client'[q] = IF q = p THEN k ELSE client[q]
  BY DEF ClientsOK
<1>3. ErrorIsRetried'
  <2> SUFFICES ASSUME NEW q \in Places, client'[q] # None, client'[q].state = "error",
                      q \notin Callers
               PROVE  \/ client'[q].timers # {} \/ client'[q].redials > 0
                      \/ client'[q].tries = MaxReconnects
    BY DEF ErrorIsRetried
  <2>1. CASE q = p
    BY <1>2, <2>1 DEF Retried
  <2>2. CASE q # p
    BY <1>2, <2>2 DEF ErrorIsRetried
  <2> QED
    BY <2>1, <2>2
<1> QED
  BY <1>1, <1>3

\* A step in the life of a client keeps the invariant.
LEMMA ClientStepKeeps ==
    ASSUME IInv, NEW p \in Places, NEW k \in ClientStates, Retried(k), ClientStep(p, k),
           faults' \in 0 .. MaxFaults
    PROVE  IInv'
<1>1. ClientsOK' /\ ErrorIsRetried'
  BY ClientWritten, TypeParts DEF IInv, ClientStep
<1>2. BreakersOK' /\ CallsOK' /\ EnabledOK'
  BY TypeParts DEF IInv, ClientStep, BreakersOK, CallsOK, EnabledOK, Gens, CallStates
<1>3. RestOK'
  BY TypeParts DEF IInv, ClientStep, RestOK, Gens
<1>4. UnderWay'
  BY TypeParts DEF IInv, ClientStep, UnderWay, ClientsOK
<1>5. MutexHeld'
  BY DEF IInv, ClientStep, MutexHeld, Connecting
<1> QED
  BY <1>1, <1>2, <1>3, <1>4, <1>5, Assembled

-----------------------------------------------------------------------------
(* The steps of a call *)

\* A call that is admitted takes the probe or leaves the breaker as it is.
LEMMA AdmittedKeeps ==
    ASSUME IInv, NEW p \in Callers, Admitted(p)
    PROVE  BreakersOK'
<1>1. BreakersOK /\ gen \in Gens
  BY TypeParts DEF IInv, RestOK
<1>2. Sound(Attempted(breaker[gen]))
  BY <1>1, MethodsKeepSound DEF BreakersOK
<1>3. breaker' = [breaker EXCEPT ![gen] = Attempted(breaker[gen])]
  BY DEF Admitted
<1> QED
  BY <1>1, <1>2, <1>3, BreakerWritten

LEMMA EnsureRefusedKeeps ==
    ASSUME IInv, NEW p \in Callers, EnsureRefused(p)
    PROVE  IInv'
<1>1. BreakersOK'
  BY AdmittedKeeps DEF EnsureRefused
<1> USE TypeParts DEF IInv, EnsureRefused
<1>2. CallsOK' /\ ClientsOK' /\ RestOK' /\ EnabledOK'
  BY DEF CallsOK, ClientsOK, RestOK, EnabledOK
<1>3. UnderWay' /\ MutexHeld' /\ ErrorIsRetried'
  BY DEF UnderWay, MutexHeld, Connecting, ErrorIsRetried
<1> QED
  BY <1>1, <1>2, <1>3, Assembled

LEMMA EnsureWaitsKeeps ==
    ASSUME IInv, NEW p \in Callers, EnsureWaits(p)
    PROVE  IInv'
<1>1. BreakersOK'
  BY AdmittedKeeps DEF EnsureWaits
<1>2. CallsOK /\ ClientsOK /\ RestOK /\ EnabledOK /\ UnderWay /\ MutexHeld /\ ErrorIsRetried
  BY TypeParts DEF IInv
<1>3. CallsOK'
  <2>1. [Idle EXCEPT !.pc = "waiting", !.on = inProgress] \in CallStates
    BY <1>2, Bounds DEF Idle, CallStates, RestOK, Gens
  <2> QED
    BY <1>2, <2>1 DEF EnsureWaits, CallsOK
<1>4. ClientsOK' /\ RestOK' /\ EnabledOK' /\ ErrorIsRetried'
  BY <1>2 DEF EnsureWaits, ClientsOK, RestOK, EnabledOK, ErrorIsRetried
<1>5. \A q \in Callers : call'[q].pc \in {"connecting", "backoff"} => call'[q] = call[q]
  BY <1>2 DEF EnsureWaits, CallsOK, Idle
<1>6. UnderWay' /\ MutexHeld'
  BY <1>2, <1>5 DEF EnsureWaits, UnderWay, MutexHeld, Connecting
<1> QED
  BY <1>1, <1>3, <1>4, <1>6, Assembled

LEMMA DialKeeps ==
    ASSUME ClientsOK, ErrorIsRetried, NEW p \in Callers, Dial(p)
    PROVE  /\ ClientsOK' /\ ErrorIsRetried' /\ client'[p] \in ClientStates
           /\ \A q \in Callers \ {p} : client'[q] = client[q]
<1>1. p \in Places
  BY DEF Places
<1>2. client' = [client EXCEPT ![p] = Dialled(NewClient)]
  BY DEF Dial
<1>3. client'[p] \in ClientStates /\ \A q \in Callers \ {p} : client'[q] = client[q]
  BY <1>1, <1>2, NewClientDials DEF ClientsOK
<1> QED
  BY <1>1, <1>2, <1>3, NewClientDials, ClientWritten

LEMMA EnsureStartsKeeps ==
    ASSUME IInv, NEW p \in Callers, EnsureStarts(p)
    PROVE  IInv'
<1>1. BreakersOK'
  BY AdmittedKeeps DEF EnsureStarts
<1>2. CallsOK /\ ClientsOK /\ RestOK /\ EnabledOK /\ UnderWay /\ MutexHeld /\ ErrorIsRetried
  BY TypeParts DEF IInv
<1>3. CallsOK'
  <2>1. [pc |-> "connecting", gen |-> gen, attempt |-> 1, on |-> None] \in CallStates
    BY <1>2, Bounds DEF CallStates, RestOK
  <2> QED
    BY <1>2, <2>1 DEF EnsureStarts, CallsOK
<1>4. /\ ClientsOK' /\ ErrorIsRetried' /\ client'[p] \in ClientStates
      /\ \A q \in Callers \ {p} : client'[q] = client[q]
  BY <1>2, DialKeeps DEF EnsureStarts
<1>5. RestOK' /\ EnabledOK'
  BY <1>2 DEF EnsureStarts, RestOK, EnabledOK
<1>6. call'[p].pc = "connecting" /\ \A q \in Callers \ {p} : call'[q] = call[q]
  BY <1>2 DEF EnsureStarts, CallsOK
<1>7. UnderWay'
  BY <1>2, <1>4, <1>6 DEF UnderWay
<1>8. MutexHeld'
  <2> SUFFICES ASSUME gen = 0, NEW q \in Connecting' PROVE q = p
    BY DEF MutexHeld, EnsureStarts
  <2>1. CASE q # p
    <3>1. q \in Connecting
      BY <1>6, <2>1 DEF Connecting
    <3> QED
      BY <1>2, <3>1, McpAssumption DEF MutexHeld, EnsureStarts, Connecting
  <2> QED
    BY <2>1
<1> QED
  BY <1>1, <1>3, <1>4, <1>5, <1>7, <1>8, Assembled

\* The call that settles was the only one to connect, until a reload.
LEMMA SettleKeeps ==
    ASSUME IInv, NEW p \in Callers, call[p].pc = "connecting", Settle(p),
           UNCHANGED <<gen, enabled, faults>>
    PROVE  /\ CallsOK' /\ RestOK' /\ EnabledOK' /\ MutexHeld'
           /\ \A q \in Callers : call'[q].pc # "idle" => q # p /\ call'[q] = call[q]
<1>1. CallsOK /\ RestOK /\ EnabledOK /\ MutexHeld
  BY TypeParts DEF IInv
<1>2. CallsOK'
  <2>1. Idle \in CallStates
    BY Bounds DEF Idle, CallStates, Gens
  <2> QED
    BY <1>1, <2>1 DEF Settle, CallsOK
<1>3. RestOK' /\ EnabledOK'
  BY <1>1 DEF Settle, RestOK, EnabledOK
<1>4. \A q \in Callers : call'[q].pc # "idle" => q # p /\ call'[q] = call[q]
  <2> TAKE q \in Callers
  <2>1. call'[q] = IF q = p \/ q \in Waiters(p) THEN Idle ELSE call[q]
    BY DEF Settle
  <2>2. Idle.pc = "idle"
    BY DEF Idle
  <2> QED
    BY <2>1, <2>2
<1>5. MutexHeld'
  <2> SUFFICES ASSUME gen = 0, NEW q \in Connecting' PROVE FALSE
    BY DEF MutexHeld
  <2>1. q # p /\ q \in Connecting /\ p \in Connecting
    BY <1>4 DEF Connecting
  <2> QED
    BY <1>1, <2>1 DEF MutexHeld
<1> QED
  BY <1>2, <1>3, <1>4, <1>5

LEMMA DialSucceedsKeeps ==
    ASSUME IInv, NEW p \in Callers, DialSucceeds(p)
    PROVE  IInv'
<1>1. /\ BreakersOK /\ CallsOK /\ ClientsOK /\ UnderWay /\ ErrorIsRetried
      /\ call[p].pc = "connecting" /\ call[p].gen \in Gens
  BY TypeParts DEF IInv, DialSucceeds, CallsOK, CallStates
<1>2. BreakersOK'
  <2>1. Sound(Succeeded(breaker[call[p].gen]))
    BY <1>1, MethodsKeepSound DEF BreakersOK
  <2> QED
    BY <1>1, <2>1, BreakerWritten DEF DialSucceeds
<1>3. /\ CallsOK' /\ RestOK' /\ EnabledOK' /\ MutexHeld'
      /\ \A q \in Callers : call'[q].pc # "idle" => q # p /\ call'[q] = call[q]
  BY <1>1, SettleKeeps DEF DialSucceeds
<1>4. Connected(client[p]) \in ClientStates /\ Retried(Connected(client[p]))
  BY <1>1, ConnectedKeeps DEF UnderWay
<1>5. p # Service /\ p \in Places /\ Service \in Places
  BY McpAssumption DEF Places
<1>6. \A q \in Places : client'[q] = IF q = p THEN None
                                     ELSE IF q = Service THEN Connected(client[p]) ELSE client[q]
  BY <1>1, <1>5 DEF DialSucceeds, ClientsOK
<1>7. ClientsOK'
  BY <1>1, <1>4, <1>5 DEF DialSucceeds, ClientsOK
<1>8. ErrorIsRetried'
  BY <1>1, <1>4, <1>6 DEF ErrorIsRetried, Retried
<1>9. UnderWay'
  BY <1>1, <1>3, <1>6, McpAssumption DEF UnderWay, Places
<1> QED
  BY <1>2, <1>3, <1>7, <1>8, <1>9, Assembled

\* The client of a failed attempt is dropped.
LEMMA DropKeeps ==
    ASSUME ClientsOK, ErrorIsRetried, NEW p \in Places, client' = [client EXCEPT ![p] = None]
    PROVE  /\ ClientsOK' /\ ErrorIsRetried'
           /\ \A q \in Places \ {p} : client'[q] = client[q]
<1>1. \A q \in Places \ {p} : client'[q] = client[q]
  BY DEF ClientsOK
<1> QED
  BY <1>1, ClientWritten

LEMMA DialFailsKeeps ==
    ASSUME IInv, NEW p \in Callers, DialFails(p)
    PROVE  IInv'
<1>1. /\ BreakersOK /\ CallsOK /\ ClientsOK /\ RestOK /\ EnabledOK
      /\ UnderWay /\ MutexHeld /\ ErrorIsRetried /\ p \in Places
  BY TypeParts DEF IInv, Places
<1>2. call' = [call EXCEPT ![p] = [call[p] EXCEPT !.pc = "backoff"]]
  BY DEF DialFails
<1>3. CallsOK'
  <2>1. [call[p] EXCEPT !.pc = "backoff"] \in CallStates
    BY <1>1 DEF CallsOK, CallStates
  <2> QED
    BY <1>1, <1>2, <2>1 DEF CallsOK
<1>4. /\ ClientsOK' /\ ErrorIsRetried'
      /\ \A q \in Places \ {p} : client'[q] = client[q]
  BY <1>1, DropKeeps DEF DialFails
<1>5. BreakersOK' /\ RestOK' /\ EnabledOK'
  BY <1>1 DEF DialFails, BreakersOK, RestOK, EnabledOK
<1>6. /\ call'[p].pc = "backoff" /\ call'[p].attempt = call[p].attempt
      /\ \A q \in Callers \ {p} : call'[q] = call[q]
  BY <1>1, <1>2 DEF CallsOK, CallStates
<1>7. UnderWay'
  BY <1>1, <1>4, <1>6 DEF UnderWay, Places, DialFails
<1>8. MutexHeld'
  BY <1>1, <1>6 DEF MutexHeld, Connecting, DialFails
<1> QED
  BY <1>3, <1>4, <1>5, <1>7, <1>8, Assembled

LEMMA BackoffEndsKeeps ==
    ASSUME IInv, NEW p \in Callers, BackoffEnds(p)
    PROVE  IInv'
<1>1. /\ BreakersOK /\ CallsOK /\ ClientsOK /\ RestOK /\ EnabledOK
      /\ UnderWay /\ MutexHeld /\ ErrorIsRetried /\ call[p].pc = "backoff"
  BY TypeParts DEF IInv, BackoffEnds
<1>2. call' = [call EXCEPT ![p] = [call[p] EXCEPT !.pc = "connecting", !.attempt = @ + 1]]
  BY DEF BackoffEnds
<1>3. CallsOK'
  <2>1. call[p] \in CallStates /\ call[p].attempt + 1 \in 0 .. MaxRetries
    BY <1>1, Bounds DEF CallsOK, CallStates, UnderWay
  <2>2. [call[p] EXCEPT !.pc = "connecting", !.attempt = @ + 1] \in CallStates
    BY <2>1 DEF CallStates
  <2> QED
    BY <1>1, <1>2, <2>2 DEF CallsOK
<1>4. /\ ClientsOK' /\ ErrorIsRetried' /\ client'[p] \in ClientStates
      /\ \A q \in Callers \ {p} : client'[q] = client[q]
  BY <1>1, DialKeeps DEF BackoffEnds
<1>5. BreakersOK' /\ RestOK' /\ EnabledOK'
  BY <1>1 DEF BackoffEnds, BreakersOK, RestOK, EnabledOK
<1>6. call'[p].pc = "connecting" /\ \A q \in Callers \ {p} : call'[q] = call[q]
  BY <1>1, <1>2 DEF CallsOK, CallStates
<1>7. UnderWay'
  BY <1>1, <1>4, <1>6 DEF UnderWay
<1>8. MutexHeld'
  <2>1. Connecting' \subseteq Connecting
    BY <1>1, <1>6 DEF Connecting, BackoffEnds
  <2> QED
    BY <1>1, <2>1 DEF MutexHeld, BackoffEnds
<1> QED
  BY <1>3, <1>4, <1>5, <1>7, <1>8, Assembled

LEMMA GivesUpKeeps ==
    ASSUME IInv, NEW p \in Callers, GivesUp(p)
    PROVE  IInv'
<1>1. /\ BreakersOK /\ CallsOK /\ ClientsOK /\ RestOK /\ UnderWay /\ ErrorIsRetried
      /\ call[p].pc = "connecting" /\ call[p].gen \in Gens /\ gen \in Gens /\ p \in Places
  BY TypeParts DEF IInv, GivesUp, CallsOK, CallStates, RestOK, Places
<1>2. BreakersOK'
  <2> DEFINE failed == [breaker EXCEPT ![call[p].gen] = Failed(breaker[call[p].gen])]
  <2>1. \A g \in Gens : breaker[g] \in Breakers /\ Sound(breaker[g]) /\ Sound(Failed(breaker[g]))
    BY <1>1, MethodsKeepSound DEF BreakersOK
  <2>2. failed \in [Gens -> Breakers] /\ \A g \in Gens : Sound(failed[g])
    BY <1>1, <2>1 DEF BreakersOK, Sound
  <2>3. Sound(Attempted(failed[gen]))
    BY <1>1, <2>2, MethodsKeepSound
  <2>4. breaker' = IF Waiters(p) = {} THEN failed
                   ELSE [failed EXCEPT ![gen] = Attempted(failed[gen])]
    BY DEF GivesUp
  <2> HIDE DEF failed
  <2>5. CASE Waiters(p) = {}
    BY <2>2, <2>4, <2>5 DEF BreakersOK, Gens
  <2>6. CASE Waiters(p) # {}
    <3>1. breaker' = [failed EXCEPT ![gen] = Attempted(failed[gen])]
      BY <2>4, <2>6
    <3> QED
      BY <1>1, <2>2, <2>3, <3>1 DEF BreakersOK, Gens, Sound
  <2> QED
    BY <2>5, <2>6
<1>3. /\ CallsOK' /\ RestOK' /\ EnabledOK' /\ MutexHeld'
      /\ \A q \in Callers : call'[q].pc # "idle" => q # p /\ call'[q] = call[q]
  BY <1>1, SettleKeeps DEF GivesUp
<1>4. /\ ClientsOK' /\ ErrorIsRetried'
      /\ \A q \in Places \ {p} : client'[q] = client[q]
  BY <1>1, DropKeeps DEF GivesUp
<1>5. UnderWay'
  BY <1>1, <1>3, <1>4 DEF UnderWay, Places
<1> QED
  BY <1>2, <1>3, <1>4, <1>5, Assembled

LEMMA CooldownKeeps ==
    ASSUME IInv, Cooldown
    PROVE  IInv'
<1>1. BreakersOK /\ CallsOK /\ ClientsOK /\ RestOK /\ EnabledOK /\ gen \in Gens
  BY TypeParts DEF IInv, RestOK
<1>2. BreakersOK'
  BY <1>1, MethodsKeepSound, BreakerWritten DEF Cooldown, BreakersOK
<1>3. CallsOK' /\ ClientsOK' /\ RestOK' /\ EnabledOK'
  BY <1>1 DEF Cooldown, CallsOK, ClientsOK, RestOK, EnabledOK
<1>4. UnderWay' /\ MutexHeld' /\ ErrorIsRetried'
  BY DEF IInv, Cooldown, UnderWay, MutexHeld, Connecting, ErrorIsRetried
<1> QED
  BY <1>2, <1>3, <1>4, Assembled

-----------------------------------------------------------------------------
(* The steps of a client, of the user and of the idle timer *)

\* The number of a fault names its timer.
LEMMA FaultKeeps ==
    ASSUME IInv, NEW p \in Places, Fault(p)
    PROVE  /\ client[p] \in ClientStates /\ faults' \in 0 .. MaxFaults
           /\ faults + 1 \in Timers
<1>1. ClientsOK /\ faults \in 0 .. MaxFaults
  BY TypeParts DEF IInv, RestOK
<1>2. client[p] \in ClientStates
  BY <1>1 DEF Fault, ClientsOK
<1>3. faults' = faults + 1 /\ faults < MaxFaults
  BY DEF Fault
<1> QED
  BY <1>1, <1>2, <1>3, Bounds DEF Timers

LEMMA TransportKeeps ==
    ASSUME IInv, NEW p \in Places, TransportError(p) \/ TransportClosed(p)
    PROVE  IInv'
<1>1. Fault(p)
  BY DEF TransportError, TransportClosed
<1>2. client[p] \in ClientStates /\ faults' \in 0 .. MaxFaults /\ faults + 1 \in Timers
  BY <1>1, FaultKeeps
<1>3. CASE TransportError(p)
  BY <1>2, <1>3, ErroredKeeps, ClientStepKeeps DEF TransportError
<1>4. CASE TransportClosed(p)
  BY <1>2, <1>4, ClosedDownKeeps, ClientStepKeeps DEF TransportClosed
<1> QED
  BY <1>3, <1>4

\* What a step finds in a place that is not empty.
LEMMA ClientFound ==
    ASSUME IInv, NEW p \in Places, client[p] # None
    PROVE  client[p] \in ClientStates /\ faults \in 0 .. MaxFaults
  BY TypeParts DEF IInv, ClientsOK, RestOK

LEMMA TimerFiresKeeps ==
    ASSUME IInv, NEW p \in Places, TimerFires(p)
    PROVE  IInv'
<1>1. client[p] \in ClientStates /\ faults' \in 0 .. MaxFaults
  BY ClientFound DEF TimerFires
<1>2. PICK t \in client[p].timers : ClientStep(p, Redial([client[p] EXCEPT !.timers = @ \ {t}]))
  BY DEF TimerFires
<1> DEFINE k == [client[p] EXCEPT !.timers = @ \ {t}]
<1>3. Redial(k) \in ClientStates /\ Retried(Redial(k))
  <2>1. k \in ClientStates
    BY <1>1 DEF ClientStates
  <2> QED
    BY <2>1, RedialKeeps
<1> QED
  BY <1>1, <1>2, <1>3, ClientStepKeeps

\* A tool call leaves ERROR by connecting again; as it ends it changes nothing
\* that a retry depends on.
LEMMA ToolStepKeeps ==
    ASSUME IInv, CallTool \/ ToolEnds
    PROVE  IInv'
<1>1. Service \in Places
  BY DEF Places
<1>2. client[Service] \in ClientStates /\ faults' \in 0 .. MaxFaults
  BY <1>1, ClientFound DEF CallTool, ToolEnds
<1>3. Retried(client[Service])
  BY <1>1, <1>2, McpAssumption DEF CallTool, ToolEnds, IInv, ErrorIsRetried, Retried
<1>4. \A u \in BOOLEAN : /\ [client[Service] EXCEPT !.using = u] \in ClientStates
                         /\ Retried([client[Service] EXCEPT !.using = u])
  <2> TAKE u \in BOOLEAN
  <2>1. [client[Service] EXCEPT !.using = u] \in ClientStates
    BY <1>2 DEF ClientStates
  <2>2. Retried([client[Service] EXCEPT !.using = u])
    BY <1>2, <1>3 DEF ClientStates, Retried
  <2> QED
    BY <2>1, <2>2
<1>5. CASE CallTool
  <2>1. ClientStep(Service, [client[Service] EXCEPT !.using = TRUE])
    BY <1>5 DEF CallTool
  <2> QED
    BY <1>1, <1>2, <1>4, <2>1, ClientStepKeeps
<1>6. CASE ToolEnds
  <2> DEFINE k == [client[Service] EXCEPT !.using = FALSE]
  <2>1. k \in ClientStates /\ Retried(k)
    BY <1>4
  <2>2. ClientStep(Service, k) \/ ClientStep(Service, Redial(k))
    BY <1>6 DEF ToolEnds
  <2> HIDE DEF k
  <2>3. Redial(k) \in ClientStates /\ Retried(Redial(k))
    BY <2>1, RedialKeeps
  <2> QED
    BY <1>1, <1>2, <2>1, <2>2, <2>3, ClientStepKeeps
<1> QED
  BY <1>5, <1>6

LEMMA RedialEndsKeeps ==
    ASSUME IInv, NEW p \in Places, RedialSucceeds(p) \/ RedialFails(p)
    PROVE  IInv'
<1> DEFINE k == [client[p] EXCEPT !.redials = @ - 1]
<1>1. client[p] \in ClientStates /\ faults' \in 0 .. MaxFaults /\ client[p].redials > 0
  BY ClientFound DEF RedialSucceeds, RedialFails
<1>2. k \in ClientStates
  <2>1. client[p].redials - 1 \in Nat
    BY <1>1 DEF ClientStates
  <2> QED
    BY <1>1, <2>1 DEF ClientStates
<1>3. ClientStep(p, Connected(k)) \/ ClientStep(p, Cleanup(k))
  BY DEF RedialSucceeds, RedialFails
<1> HIDE DEF k
<1> QED
  BY <1>1, <1>2, <1>3, ConnectedKeeps, CleanupKeeps, ClientStepKeeps

LEMMA SwitchOffKeeps ==
    ASSUME IInv, SwitchOff
    PROVE  IInv'
<1>1. Service \in Places
  BY DEF Places
<1>2. client[Service] \in ClientStates /\ faults' \in 0 .. MaxFaults
  BY <1>1, ClientFound DEF SwitchOff
<1> QED
  BY <1>1, <1>2, DisconnectedKeeps, ClientStepKeeps DEF SwitchOff

LEMMA IdleShutdownKeeps ==
    ASSUME IInv, IdleShutdown
    PROVE  IInv'
<1>1. /\ BreakersOK /\ CallsOK /\ ClientsOK /\ RestOK /\ EnabledOK
      /\ UnderWay /\ MutexHeld /\ ErrorIsRetried /\ Service \in Places
  BY TypeParts DEF IInv, Places
<1>2. /\ ClientsOK' /\ ErrorIsRetried'
      /\ \A q \in Places \ {Service} : client'[q] = client[q]
  BY <1>1, DropKeeps DEF IdleShutdown, ClientStep
<1>3. BreakersOK' /\ CallsOK' /\ RestOK' /\ EnabledOK'
  BY <1>1 DEF IdleShutdown, ClientStep, BreakersOK, CallsOK, RestOK, EnabledOK
<1>4. UnderWay' /\ MutexHeld'
  BY <1>1, <1>2, McpAssumption
  DEF IdleShutdown, ClientStep, UnderWay, MutexHeld, Connecting, Places
<1> QED
  BY <1>2, <1>3, <1>4, Assembled

\* After a reload the mutex says nothing any more.
LEMMA ReloadKeeps ==
    ASSUME IInv, Reload
    PROVE  IInv'
<1>1. /\ BreakersOK /\ CallsOK /\ ClientsOK /\ RestOK
      /\ UnderWay /\ ErrorIsRetried /\ Service \in Places
  BY TypeParts DEF IInv, Places
<1>2. gen' \in Gens /\ gen' # 0
  BY <1>1, Bounds DEF Reload, RestOK, Gens
<1>3. /\ ClientsOK' /\ ErrorIsRetried'
      /\ \A q \in Places \ {Service} : client'[q] = client[q]
  BY <1>1, DropKeeps DEF Reload
<1>4. BreakersOK' /\ CallsOK' /\ RestOK' /\ EnabledOK'
  BY <1>1, <1>2 DEF Reload, BreakersOK, CallsOK, RestOK, EnabledOK
<1>5. UnderWay' /\ MutexHeld'
  BY <1>1, <1>2, <1>3, McpAssumption DEF Reload, UnderWay, MutexHeld, Places
<1> QED
  BY <1>3, <1>4, <1>5, Assembled

-----------------------------------------------------------------------------
(* The theorems *)

LEMMA NextPreserves == IInv /\ [Next]_vars => IInv'
<1> SUFFICES ASSUME IInv, [Next]_vars PROVE IInv'
  OBVIOUS
<1>1. ASSUME NEW p \in Callers, EnsureRefused(p) \/ EnsureWaits(p) \/ EnsureStarts(p)
      PROVE  IInv'
  BY <1>1, EnsureRefusedKeeps, EnsureWaitsKeeps, EnsureStartsKeeps
<1>2. ASSUME NEW p \in Callers, CallStep(p)
      PROVE  IInv'
  BY <1>2, DialSucceedsKeeps, DialFailsKeeps, BackoffEndsKeeps, GivesUpKeeps DEF CallStep
<1>3. CASE Cooldown
  BY <1>3, CooldownKeeps
<1>4. ASSUME NEW p \in Places,
             \/ TransportError(p) \/ TransportClosed(p)
             \/ TimerFires(p) \/ RedialSucceeds(p) \/ RedialFails(p)
      PROVE  IInv'
  BY <1>4, TransportKeeps, TimerFiresKeeps, RedialEndsKeeps
<1>5. CASE CallTool \/ ToolEnds
  BY <1>5, ToolStepKeeps
<1>6. CASE SwitchOff \/ IdleShutdown \/ Reload
  BY <1>6, SwitchOffKeeps, IdleShutdownKeeps, ReloadKeeps
<1>7. CASE UNCHANGED vars
  <2>1. BreakersOK' /\ CallsOK' /\ ClientsOK' /\ RestOK' /\ EnabledOK'
    BY <1>7, TypeParts DEF IInv, vars, BreakersOK, CallsOK, ClientsOK, RestOK, EnabledOK
  <2>2. UnderWay' /\ MutexHeld' /\ ErrorIsRetried'
    BY <1>7 DEF IInv, vars, UnderWay, MutexHeld, Connecting, ErrorIsRetried
  <2> QED
    BY <2>1, <2>2, Assembled
<1> QED
  BY <1>1, <1>2, <1>3, <1>4, <1>5, <1>6, <1>7 DEF Next

\* The invariant the theorems below follow from: types, what a call that is
\* under way has, whom the mutex names, and what a client in ERROR waits for.
THEOREM InductiveInvariant == Spec => []IInv
<1>1. Init => IInv
  BY InitEstablishes
<1>2. IInv /\ [Next]_vars => IInv'
  BY NextPreserves
<1> QED
  BY <1>1, <1>2, PTL DEF Spec

\* Every variable keeps its type; each breaker's circuit is closed exactly while
\* fewer failures in a row than the threshold were reported, and its probe is out
\* only while it is half open, whichever generation a call reports to.
THEOREM TypeCorrect == Spec => []TypeOK
<1>1. IInv => TypeOK
  BY DEF IInv
<1> QED
  BY <1>1, InductiveInvariant, PTL

\* connectionPromises: until the configuration is reloaded, at most one call
\* connects to the server, and it is the one the others wait for.
THEOREM OneAttemptAtATime == Spec => []SingleAttempt
<1>1. IInv => SingleAttempt
  <2> SUFFICES ASSUME IInv, gen = 0
               PROVE  Cardinality(Connecting) <= 1 /\ \A p \in Connecting : inProgress = p
    BY DEF SingleAttempt
  <2>1. Connecting \subseteq {inProgress}
    BY DEF IInv, MutexHeld
  <2>2. /\ IsFiniteSet({inProgress}) /\ Cardinality({inProgress}) = 1
    BY FS_Singleton
  <2>3. Cardinality(Connecting) <= 1
    BY <2>1, <2>2, FS_Subset
  <2> QED
    BY <2>3 DEF IInv, MutexHeld
<1> QED
  BY <1>1, InductiveInvariant, PTL

\* transport.onerror and cleanup(): a client that stays in ERROR, once it is known
\* to the service, has a reconnect ahead or has made all its attempts.
THEOREM ErrorsAreRetried == Spec => []ErrorIsRetried
<1>1. IInv => ErrorIsRetried
  BY DEF IInv
<1> QED
  BY <1>1, InductiveInvariant, PTL

=============================================================================
