---------------------------- MODULE McpConnection ----------------------------
(***************************************************************************)
(* How the extension connects to one MCP server: ensureServerConnected and *)
(* connectToServer of MCPService (src/src/MCP/service.ts), one MCPClient   *)
(* per attempt (src/src/MCP/client.ts), and the server's circuit breaker.  *)
(*                                                                         *)
(* The service keeps every map by server name, so one server stands for    *)
(* each.  A client is known by its place: the registered one, and the one  *)
(* each call connects.  A client that was replaced or dropped is left out: *)
(* whatever it goes on doing, the service does not see it any more.  A     *)
(* reload starts a new generation of breakers; a call reports to the       *)
(* breaker of the generation it began in.                                  *)
(***************************************************************************)
EXTENDS CircuitBreaker, FiniteSets

CONSTANTS
    Callers,        \* concurrent calls of ensureServerConnected
    Service,        \* the place of the registered client
    None,           \* no caller, no client
    MaxRetries,     \* attempts of one connectToServer
    MaxReconnects,  \* MAX_RECONNECT_ATTEMPTS of a client
    MaxReloads,     \* bound: reloads of the configuration
    MaxFaults       \* bound: errors and closes of the transports

ASSUME McpAssumption ==
    /\ IsFiniteSet(Callers)
    /\ Service \notin Callers /\ None \notin Callers
    /\ MaxRetries \in Nat \ {0}
    /\ {MaxReconnects, MaxReloads, MaxFaults} \subseteq Nat

VARIABLES
    breaker,     \* the circuit breaker of each generation
    gen,         \* the generation in force
    enabled,     \* the server is enabled in serverConfigs
    inProgress,  \* the call whose connection attempt others wait for
    call,        \* where each call stands
    client,      \* the client in each place
    faults       \* errors and closes so far

vars == <<breaker, gen, enabled, inProgress, call, client, faults>>

Gens == 0 .. MaxReloads
Places == Callers \cup {Service}
Timers == 1 .. MaxFaults

ClientStates == [state   : {"disconnected", "connecting", "connected", "error"},
                 tries   : 0 .. MaxReconnects,  \* reconnectAttempts
                 handle  : 0 .. MaxFaults,      \* reconnectTimer, 0 if null
                 timers  : SUBSET Timers,       \* the timers that will fire
                 redials : Nat,                 \* later calls of connect() under way
                 using   : BOOLEAN]             \* a tool call is under way

NewClient == [state |-> "disconnected", tries |-> 0, handle |-> 0, timers |-> {},
              redials |-> 0, using |-> FALSE]

Idle == [pc |-> "idle", gen |-> 0, attempt |-> 0, on |-> None]

Init ==
    /\ breaker = [g \in Gens |-> NewBreaker]
    /\ gen = 0
    /\ enabled = TRUE
    /\ inProgress = None
    /\ call = [p \in Callers |-> Idle]
    /\ client = [p \in Places |-> None]
    /\ faults = 0

-----------------------------------------------------------------------------
(* What the methods of MCPClient make of a client *)

\* Mistake: a failed connection clears the timer and stays in ERROR.
CleanupKeepsError(k) ==
    [k EXCEPT !.timers = @ \ {k.handle}, !.handle = 0,
              !.state = IF @ = "connecting" THEN "error" ELSE "disconnected"]

\* cleanup(): only the timer started last is known.
Cleanup(k) ==
    [k EXCEPT !.timers = @ \ {k.handle}, !.handle = 0, !.state = "disconnected"]

\* connect() up to its await; it throws while another call connects.
Dialled(k) == [k EXCEPT !.state = "connecting"]
MayDial(k) == k.state \notin {"connected", "connecting"}

\* connect() succeeds.
Connected(k) == [k EXCEPT !.state = "connected", !.tries = 0]

\* transport.onerror: ERROR, and a reconnect in a while, by the timer n.
Errored(k, n) ==
    IF k.tries >= MaxReconnects
    THEN [k EXCEPT !.state = "error"]
    ELSE [k EXCEPT !.state = "error", !.tries = @ + 1, !.handle = n, !.timers = @ \cup {n}]

\* transport.onclose: attemptReconnect() returns at once.
ClosedDown(k) == [k EXCEPT !.state = "disconnected"]

\* disconnect()
Disconnected(k) == IF k.state = "disconnected" THEN k ELSE Cleanup(k)

-----------------------------------------------------------------------------
(* Calls of ensureServerConnected *)

Waiters(p) == {q \in Callers : call[q].pc = "waiting" /\ call[q].on = p}

\* The call goes past the check for a connected client, and the breaker lets it.
Admitted(p) ==
    /\ call[p].pc = "idle"
    /\ client[Service] # None => client[Service].state # "connected"
    /\ CanAttempt(breaker[gen])
    /\ breaker' = [breaker EXCEPT ![gen] = Attempted(@)]

\* The server is disabled.
EnsureRefused(p) ==
    /\ Admitted(p)
    /\ ~enabled
    /\ UNCHANGED <<gen, enabled, inProgress, call, client, faults>>

\* Another call is connecting: wait for it.
EnsureWaits(p) ==
    /\ Admitted(p)
    /\ enabled
    /\ inProgress # None
    /\ call' = [call EXCEPT ![p] = [Idle EXCEPT !.pc = "waiting", !.on = inProgress]]
    /\ UNCHANGED <<gen, enabled, inProgress, client, faults>>

\* A new client for the call, connecting.
Dial(p) == client' = [client EXCEPT ![p] = Dialled(NewClient)]

\* Mistake: the mutex is not looked at.
EnsureAnyway(p) ==
    /\ Admitted(p)
    /\ enabled
    /\ inProgress' = p
    /\ call' = [call EXCEPT ![p] = [pc |-> "connecting", gen |-> gen, attempt |-> 1, on |-> None]]
    /\ Dial(p)
    /\ UNCHANGED <<gen, enabled, faults>>

\* connectToServer() up to its first await.
EnsureStarts(p) ==
    /\ Admitted(p)
    /\ enabled
    /\ inProgress = None
    /\ inProgress' = p
    /\ call' = [call EXCEPT ![p] = [pc |-> "connecting", gen |-> gen, attempt |-> 1, on |-> None]]
    /\ Dial(p)
    /\ UNCHANGED <<gen, enabled, faults>>

\* The promise of p settles: p and whoever waits for it go on.
Settle(p) ==
    /\ call' = [q \in Callers |-> IF q = p \/ q \in Waiters(p) THEN Idle ELSE call[q]]
    /\ inProgress' = None

\* The client is connected: it is registered, whatever was registered before.
DialSucceeds(p) ==
    /\ call[p].pc = "connecting"
    /\ client' = [client EXCEPT ![Service] = Connected(client[p]), ![p] = None]
    /\ breaker' = [breaker EXCEPT ![call[p].gen] = Succeeded(@)]
    /\ Settle(p)
    /\ UNCHANGED <<gen, enabled, faults>>

\* The attempt failed and is not the last.
DialFails(p) ==
    /\ call[p].pc = "connecting"
    /\ call[p].attempt < MaxRetries
    /\ client' = [client EXCEPT ![p] = None]
    /\ call' = [call EXCEPT ![p].pc = "backoff"]
    /\ UNCHANGED <<breaker, gen, enabled, inProgress, faults>>

\* setTimeout between two attempts.
BackoffEnds(p) ==
    /\ call[p].pc = "backoff"
    /\ call' = [call EXCEPT ![p].pc = "connecting", ![p].attempt = @ + 1]
    /\ Dial(p)
    /\ UNCHANGED <<breaker, gen, enabled, inProgress, faults>>

\* Mistake: only a call through a closed circuit reports its failure.
GivesUpUnreported(p) ==
    /\ call[p].pc = "connecting"
    /\ call[p].attempt = MaxRetries
    /\ client' = [client EXCEPT ![p] = None]
    /\ breaker' = [breaker EXCEPT ![call[p].gen] = IF @.state = "closed" THEN Failed(@) ELSE @]
    /\ Settle(p)
    /\ UNCHANGED <<gen, enabled, faults>>

\* The last attempt failed: one failure for the call.  A call that waited asks
\* the breaker in force whether it may try again, and throws in any case.
GivesUp(p) ==
    /\ call[p].pc = "connecting"
    /\ call[p].attempt = MaxRetries
    /\ client' = [client EXCEPT ![p] = None]
    /\ LET failed == [breaker EXCEPT ![call[p].gen] = Failed(@)] IN
           breaker' = IF Waiters(p) = {} THEN failed
                      ELSE [failed EXCEPT ![gen] = Attempted(@)]
    /\ Settle(p)
    /\ UNCHANGED <<gen, enabled, faults>>

\* resetTimeoutMs pass.
Cooldown ==
    /\ breaker[gen].state = "open" /\ ~breaker[gen].cooled
    /\ breaker' = [breaker EXCEPT ![gen] = CooledDown(@)]
    /\ UNCHANGED <<gen, enabled, inProgress, call, client, faults>>

-----------------------------------------------------------------------------
(* The life of a client after its first connect *)

ClientStep(p, k) ==
    /\ client' = [client EXCEPT ![p] = k]
    /\ UNCHANGED <<breaker, gen, enabled, inProgress, call>>

\* A transport that was closed is silent.
Fault(p) ==
    /\ client[p] # None /\ client[p].state # "disconnected"
    /\ faults < MaxFaults
    /\ faults' = faults + 1

\* The timer it starts is known by the number of the fault.
TransportError(p) == Fault(p) /\ ClientStep(p, Errored(client[p], faults + 1))

TransportClosed(p) == Fault(p) /\ ClientStep(p, ClosedDown(client[p]))

\* connect() of a client known for longer: it returns or throws at once if the
\* client is connected or connecting.
Redial(k) == IF MayDial(k) THEN Dialled([k EXCEPT !.redials = @ + 1]) ELSE k

\* A reconnect timer fires.
TimerFires(p) ==
    /\ client[p] # None
    /\ \E t \in client[p].timers :
          ClientStep(p, Redial([client[p] EXCEPT !.timers = @ \ {t}]))
    /\ UNCHANGED faults

\* callTool() of the registered client.
CallTool ==
    /\ client[Service] # None
    /\ client[Service].state = "connected" /\ ~client[Service].using
    /\ ClientStep(Service, [client[Service] EXCEPT !.using = TRUE])
    /\ UNCHANGED faults

\* The tool call ends, or finds its connection closed and connects again.
ToolEnds ==
    /\ client[Service] # None
    /\ client[Service].using
    /\ LET k == [client[Service] EXCEPT !.using = FALSE] IN
           ClientStep(Service, k) \/ ClientStep(Service, Redial(k))
    /\ UNCHANGED faults

RedialSucceeds(p) ==
    /\ client[p] # None /\ client[p].redials > 0
    /\ ClientStep(p, Connected([client[p] EXCEPT !.redials = @ - 1]))
    /\ UNCHANGED faults

RedialFails(p) ==
    /\ client[p] # None /\ client[p].redials > 0
    /\ ClientStep(p, Cleanup([client[p] EXCEPT !.redials = @ - 1]))
    /\ UNCHANGED faults

-----------------------------------------------------------------------------
(* The user and the idle timer *)

\* The server is switched off in the panel: its client disconnects and stays
\* registered, and serverConfigs stays as it was.
SwitchOff ==
    /\ client[Service] # None
    /\ ClientStep(Service, Disconnected(client[Service]))
    /\ UNCHANGED faults

\* shutdownIdleGateway(): disconnected, the client is forgotten.
IdleShutdown ==
    /\ client[Service] # None
    /\ ClientStep(Service, None)
    /\ UNCHANGED faults

\* reload(): dispose(), then initialize() with the configuration of then.
Reload ==
    /\ gen < MaxReloads
    /\ gen' = gen + 1
    /\ enabled' \in BOOLEAN
    /\ client' = [client EXCEPT ![Service] = None]
    /\ inProgress' = None
    /\ UNCHANGED <<breaker, call, faults>>

-----------------------------------------------------------------------------
CallStep(p) == DialSucceeds(p) \/ DialFails(p) \/ BackoffEnds(p) \/ GivesUp(p)

Next ==
    \/ \E p \in Callers :
          EnsureRefused(p) \/ EnsureWaits(p) \/ EnsureStarts(p) \/ CallStep(p)
    \/ Cooldown
    \/ \E p \in Places :
          \/ TransportError(p) \/ TransportClosed(p)
          \/ TimerFires(p) \/ RedialSucceeds(p) \/ RedialFails(p)
    \/ CallTool \/ ToolEnds
    \/ SwitchOff \/ IdleShutdown \/ Reload

Spec == Init /\ [][Next]_vars

\* Every attempt to connect ends, and the timers between attempts fire.
FairSpec == Spec /\ \A p \in Callers : WF_vars(CallStep(p))
-----------------------------------------------------------------------------
(* Safety *)

\* Retry storms are cut off: the circuit of a server is closed exactly as long
\* as fewer calls than the threshold failed in a row, also when calls report to
\* a breaker others use meanwhile, and a token is out only while it is half open.
BreakerCoherent == \A g \in Gens : Coherent(breaker[g])

\* The type of every variable, the relation of a breaker's fields among it.
TypeOK ==
    /\ breaker \in [Gens -> Breakers] /\ BreakerCoherent
    /\ gen \in Gens
    /\ enabled \in BOOLEAN
    /\ inProgress \in Callers \cup {None}
    /\ call \in [Callers -> [pc : {"idle", "waiting", "connecting", "backoff"}, gen : Gens,
                             attempt : 0 .. MaxRetries, on : Callers \cup {None}]]
    /\ client \in [Places -> ClientStates \cup {None}]
    /\ faults \in 0 .. MaxFaults

Connecting == {p \in Callers : call[p].pc \in {"connecting", "backoff"}}

\* "Connection mutex: prevent parallel connection attempts to the same server":
\* two calls connect at a time only if a reload came between them.
SingleAttempt ==
    gen = 0 => /\ Cardinality(Connecting) <= 1
               /\ \A p \in Connecting : inProgress = p

\* A client in ERROR has a reconnect ahead, unless it made all its attempts: a
\* timer, or a connect() that is under way.
ErrorIsRetried ==
    \A p \in Places : client[p] # None /\ client[p].state = "error" =>
        \/ p \in Callers
        \/ client[p].timers # {} \/ client[p].redials > 0
        \/ client[p].tries = MaxReconnects

(* Liveness *)

\* "one probe request is allowed to test recovery": the probe reports back, so
\* that a half-open circuit does not refuse everybody for ever.  (After a reload
\* a call that waited through it may take the token of the new breaker and throw.)
ProbeIsReported ==
    LET out == breaker[0].state = "half_open" /\ breaker[0].probe
    IN  gen = 0 /\ out ~> gen # 0 \/ ~out
=============================================================================
