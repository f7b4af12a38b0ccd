--------------------------- MODULE ProviderFailover ---------------------------
(***************************************************************************)
(* ProviderFailoverService (src/src/services/provider-failover.service.ts) *)
(* and the two callers of it: streamResponse of the agent service, and the *)
(* Ask mode of the webview provider.  A provider's health is what its last *)
(* calls left behind; a stream whose provider failed is handed the first   *)
(* candidate of the chain.                                                 *)
(*                                                                         *)
(* Time is counted in ticks of 30 s, of which every cooldown, the probe    *)
(* margin and the probe interval are multiples; cooldowns are kept as what *)
(* is left of them.  Whether a call succeeds, and with what error it fails *)
(* is open.                                                                *)
(***************************************************************************)
EXTENDS Integers, Sequences

CONSTANTS
    Providers,     \* names of LLM providers
    Selectable,    \* those the user may select
    Keyed,         \* those getAPIKeyAndModel has credentials for
    None,          \* no provider
    Chains,        \* fallback chains the settings or the auto-detection yield
    AgentStreams,  \* streams of the agent
    AskStreams,    \* streams of the Ask mode
    Reasons        \* failure reasons that occur

\* COOLDOWN_BY_REASON in ticks; nothing is ever classified as "format".
CooldownByReason ==
    [auth |-> 20, billing |-> 60, rate_limit |-> 2, timeout |-> 1,
     overloaded |-> 4, model_not_found |-> 120, unknown |-> 1]
ProbeMargin == 1
MinProbeInterval == 1
DownAfter == 3
NonFailoverReasons == {"unknown"}
NoCooldown == -1  \* cooldownUntil = 0; a cooldown of 0 has run out but is recorded

ASSUME FailoverAssumption ==
    /\ Selectable \subseteq Providers /\ Selectable # {} /\ Keyed \subseteq Providers
    /\ None \notin Providers
    /\ Chains \subseteq Seq(Providers)
    /\ AgentStreams \cap AskStreams = {}
    /\ Reasons \subseteq DOMAIN CooldownByReason

VARIABLES
    health,      \* healthMap: status, errorCount (capped at DownAfter), cooldown left
    sinceProbe,  \* ticks since lastProbeAt, capped at MinProbeInterval
    chain,       \* fallbackChain
    enabled,     \* the setting codebuddy.failover.enabled
    selected,    \* the provider selected in the settings
    stream       \* where a stream stands, its provider, its fallback, whom it calls

settings == <<chain, enabled, selected>>
vars == <<health, sinceProbe, settings, stream>>

Streams == AgentStreams \cup AskStreams
Statuses == {"healthy", "degraded", "down"}
Stages == {"idle", "calling", "saving", "switching", "fallback", "savingFallback"}
Healthy == [status |-> "healthy", errorCount |-> 0, cooldown |-> NoCooldown]
Idle == [pc |-> "idle", from |-> None, to |-> None, calls |-> None]

Init ==
    /\ health = [p \in Providers |-> Healthy]
    /\ sinceProbe = [p \in Providers |-> MinProbeInterval]
    /\ enabled \in BOOLEAN
    /\ chain \in IF enabled THEN Chains \cup {<<>>} ELSE {<<>>}
    /\ selected \in Selectable
    /\ stream = [s \in Streams |-> Idle]

-----------------------------------------------------------------------------
(* Health *)

Cooling(h) == h.cooldown > 0

\* Mistake: an elapsed cooldown is cleared and the status left alone.
ExpiredStillDown(h) == IF h.cooldown = 0 THEN [h EXCEPT !.cooldown = NoCooldown] ELSE h

\* Mistake: a cooldown expires as soon as it is within the probe margin.
ExpiredEarly(h) ==
    IF h.cooldown \in 0 .. ProbeMargin
    THEN [h EXCEPT !.cooldown = NoCooldown, !.status = IF @ = "down" THEN "degraded" ELSE @]
    ELSE h

\* expireCooldownIfElapsed
Expired(h) ==
    IF h.cooldown = 0
    THEN [h EXCEPT !.cooldown = NoCooldown, !.status = IF @ = "down" THEN "degraded" ELSE @]
    ELSE h

\* getAllHealth, called by whoever shows or emits the health
AllHealth(hm) == [p \in Providers |-> Expired(hm[p])]

Failed(h, reason) ==
    [status |-> IF reason \in NonFailoverReasons THEN "healthy"
                ELSE IF h.errorCount + 1 >= DownAfter THEN "down" ELSE "degraded",
     errorCount |-> IF h.errorCount = DownAfter THEN DownAfter ELSE h.errorCount + 1,
     cooldown |-> CooldownByReason[reason]]

\* recordFailure: the event it emits carries getAllHealth().
AfterFailure(p, reason) == AllHealth([health EXCEPT ![p] = Failed(@, reason)])

\* recordSuccess: an event only if the provider was not healthy.
AfterSuccess(p) ==
    LET hm == [health EXCEPT ![p] = Healthy]
    IN IF health[p].status = "healthy" THEN hm ELSE AllHealth(hm)

-----------------------------------------------------------------------------
(* Candidates, given the health hm after the failure *)

ShouldProbe(hm, p) ==
    /\ Len(chain) >= 2
    /\ hm[p].cooldown \in 1 .. ProbeMargin
    /\ sinceProbe[p] >= MinProbeInterval

\* getCandidates: the primary leads unless it cools down and is not probed;
\* then it comes last.
PrimaryFirst(hm, p) == ~Cooling(hm[p]) \/ ShouldProbe(hm, p)

\* Mistake: the members of the chain are not asked whether they cool down.
AnyOther(hm, p, q) == q # p

\* getCandidates: the members of the chain that are offered in place of p.
Fallback(hm, p, q) == q # p /\ ~Cooling(hm[q])

\* resolveProvider returns to: the first candidate with credentials, None if it
\* throws.
Resolves(hm, p, to) ==
    LET fit == {i \in 1 .. Len(chain) : chain[i] \in Keyed /\ Fallback(hm, p, chain[i])}
        leads == p \in Keyed /\ PrimaryFirst(hm, p)
    IN \/ leads /\ to = p
       \/ ~leads /\ \E i \in fit : (\A j \in fit : i <= j) /\ to = chain[i]
       \/ ~leads /\ fit = {} /\ to = IF p \in Keyed THEN p ELSE None

\* Mistake: lastProbeAt is never set.
ProbeForgotten(hm, p) == sinceProbe

\* getCandidates counts as a probe each time it puts a cooling primary first.
ProbeNoted(hm, p) == IF ShouldProbe(hm, p) THEN [sinceProbe EXCEPT ![p] = 0] ELSE sinceProbe

-----------------------------------------------------------------------------
(* Streams *)

Becomes(s, rec) == stream' = [stream EXCEPT ![s] = rec]
At(s, pc) == stream[s].pc = pc

\* streamResponse publishes the health first, the Ask mode does not.
Start(s) ==
    /\ At(s, "idle")
    /\ Becomes(s, [pc |-> "calling", from |-> selected, to |-> None, calls |-> selected])
    /\ health' = IF s \in AgentStreams THEN AllHealth(health) ELSE health
    /\ UNCHANGED <<sinceProbe, settings>>

\* The call ended well.  The Ask mode then saves the exchange, in the same try.
Succeed(s) ==
    /\ At(s, "calling")
    /\ health' = AfterSuccess(stream[s].from)
    /\ Becomes(s, IF s \in AskStreams THEN [stream[s] EXCEPT !.pc = "saving"] ELSE Idle)
    /\ UNCHANGED <<sinceProbe, settings>>

Saved(s) ==
    /\ At(s, "saving") \/ At(s, "savingFallback")
    /\ Becomes(s, Idle)
    /\ UNCHANGED <<health, sinceProbe, settings>>

\* The catch block: the call failed, or what was answered could not be saved.
Failing(s) == At(s, "calling") \/ At(s, "saving")

FailWithoutFailover(s) ==
    /\ Failing(s)
    /\ ~enabled
    /\ Becomes(s, Idle)
    /\ UNCHANGED <<health, sinceProbe, settings>>

FailForGood(s, reason) ==
    /\ Failing(s)
    /\ enabled
    /\ reason \in NonFailoverReasons
    /\ health' = AfterFailure(stream[s].from, reason)
    /\ Becomes(s, Idle)
    /\ UNCHANGED <<sinceProbe, settings>>

FailOver(s, reason) ==
    LET p == stream[s].from
        hm == AfterFailure(p, reason)
    IN /\ Failing(s)
       /\ enabled
       /\ reason \notin NonFailoverReasons
       /\ health' = hm
       /\ sinceProbe' = ProbeNoted(hm, p)
       /\ \E to \in Providers \cup {None} :
            /\ Resolves(hm, p, to)
            /\ Becomes(s, IF to \in {None, p} THEN Idle
                          ELSE [stream[s] EXCEPT !.pc = "switching", !.to = to])
       /\ UNCHANGED settings

\* The agent comes from getAgent(), which reads the settings; the Ask mode
\* builds the provider that was resolved.
CallFallback(s) ==
    /\ At(s, "switching")
    /\ Becomes(s, [stream[s] EXCEPT !.pc = "fallback",
                                    !.calls = IF s \in AgentStreams THEN selected
                                               ELSE stream[s].to])
    /\ UNCHANGED <<health, sinceProbe, settings>>

\* Mistake: the request ends and leaves the fallback set.
FallbackLeftSet(s) ==
    /\ At(s, "switching")
    /\ Becomes(s, [stream[s] EXCEPT !.pc = "idle"])
    /\ UNCHANGED <<health, sinceProbe, settings>>

\* The agent or the provider cannot be built: nothing is recorded.
FallbackNotBuilt(s) ==
    /\ At(s, "switching")
    /\ Becomes(s, Idle)
    /\ UNCHANGED <<health, sinceProbe, settings>>

\* recordSuccess for the fallback; the Ask mode saves the exchange.
FallbackSucceeds(s) ==
    /\ At(s, "fallback")
    /\ health' = AfterSuccess(stream[s].to)
    /\ Becomes(s, IF s \in AskStreams THEN [stream[s] EXCEPT !.pc = "savingFallback"] ELSE Idle)
    /\ UNCHANGED <<sinceProbe, settings>>

\* The fallback failed, or its answer could not be saved.  No further failover.
FallbackFails(s, reason) ==
    /\ At(s, "fallback") \/ At(s, "savingFallback")
    /\ health' = AfterFailure(stream[s].to, reason)
    /\ Becomes(s, Idle)
    /\ UNCHANGED <<sinceProbe, settings>>

\* The consumer leaves the agent's generator at a yield: nothing is recorded.
Abandon(s) ==
    /\ s \in AgentStreams
    /\ ~At(s, "idle")
    /\ Becomes(s, Idle)
    /\ UNCHANGED <<health, sinceProbe, settings>>

-----------------------------------------------------------------------------
(* Health on its own, the settings, the clock *)

\* getProviderHealth, on request of the webview
ShowHealth ==
    /\ health' = AllHealth(health)
    /\ UNCHANGED <<sinceProbe, settings, stream>>

ClearCooldown(p) ==
    /\ health' = AllHealth([health EXCEPT ![p] = Healthy])
    /\ UNCHANGED <<sinceProbe, settings, stream>>

\* initFailoverChain after a change: a chain too short, or failover disabled,
\* leaves the old chain in place.
ChangeSettings(e, c, p) ==
    /\ enabled' = e
    /\ chain' = IF e THEN c ELSE chain
    /\ selected' = p
    /\ UNCHANGED <<health, sinceProbe, stream>>

Tick ==
    /\ health' = [p \in Providers |->
                    [health[p] EXCEPT !.cooldown = IF @ > 0 THEN @ - 1 ELSE @]]
    /\ sinceProbe' = [p \in Providers |->
                        IF sinceProbe[p] < MinProbeInterval
                        THEN sinceProbe[p] + 1 ELSE sinceProbe[p]]
    /\ UNCHANGED <<settings, stream>>

Next ==
    \/ \E s \in Streams :
        \/ Start(s) \/ Succeed(s) \/ Saved(s) \/ FailWithoutFailover(s)
        \/ CallFallback(s) \/ FallbackNotBuilt(s) \/ FallbackSucceeds(s) \/ Abandon(s)
        \/ \E reason \in Reasons :
            FailForGood(s, reason) \/ FailOver(s, reason) \/ FallbackFails(s, reason)
    \/ ShowHealth
    \/ \E p \in Providers : ClearCooldown(p)
    \/ \E e \in BOOLEAN, c \in Chains \cup {chain}, p \in Selectable : ChangeSettings(e, c, p)
    \/ Tick

Spec == Init /\ [][Next]_vars
-----------------------------------------------------------------------------
(* Properties *)

\* Every variable keeps its type; a stream has a fallback from the moment one
\* was resolved.
TypeOK ==
    /\ health \in [Providers -> [status : Statuses, errorCount : 0 .. DownAfter, cooldown : Int]]
    /\ \A p \in Providers : health[p].cooldown >= NoCooldown
    /\ sinceProbe \in [Providers -> 0 .. MinProbeInterval]
    /\ chain \in Seq(Providers)
    /\ enabled \in BOOLEAN
    /\ selected \in Selectable
    /\ stream \in [Streams -> [pc : Stages, from : Selectable \cup {None},
                               to : Providers \cup {None}, calls : Providers \cup {None}]]
    /\ \A s \in Streams :
        /\ (stream[s].from = None) <=> At(s, "idle")
        /\ (stream[s].to # None) <=> stream[s].pc \in {"switching", "fallback", "savingFallback"}

\* What the health indicator shows agrees with what the failover does: a
\* provider shown as down has failed at least three times and has a cooldown
\* that will lift it, and no provider cools down without a failure.  The three
\* fields are written by recordFailure, recordSuccess, clearCooldown and the
\* expiry in getAllHealth, each of them in part.
HealthCoherent ==
    \A p \in Providers :
        /\ health[p].status = "down" =>
            health[p].errorCount = DownAfter /\ health[p].cooldown >= 0
        /\ health[p].status = "degraded" \/ health[p].cooldown >= 0 => health[p].errorCount > 0

\* Fallbacks that could take over from p.
FreeFallbacks(p) ==
    {q \in Keyed \ {p} : (\E i \in 1 .. Len(chain) : chain[i] = q) /\ ~Cooling(health[q])}

FailsOver(s) == ~At(s, "switching") /\ stream'[s].pc = "switching"

\* A stream is handed over only to a fallback of the chain that has credentials
\* and does not cool down, whatever other streams recorded in between, and
\* never back to the provider that failed it (getCandidates, resolveProvider).
FallbackIsFit ==
    [][\A s \in Streams :
        FailsOver(s) => stream'[s].to \in FreeFallbacks(stream[s].from)]_vars

\* The calling stream s fails with a reason that calls for failover.
FailsHard(s) ==
    /\ Failing(s) /\ enabled
    /\ \E reason \in Reasons \ NonFailoverReasons : FailOver(s, reason)

\* A stream whose provider failed is left without a fallback that was free only
\* for a probe of that provider, and then the next probe is
\* MIN_PROBE_INTERVAL_MS away: so two streams that fail within that time are
\* not both left alone (shouldProbe, getCandidates).
GivesUpOnlyToProbe ==
    [][\A s \in Streams :
        LET p == stream[s].from
        IN FailsHard(s) /\ ~FailsOver(s) /\ FreeFallbacks(p) # {} =>
            sinceProbe[p] >= MinProbeInterval /\ sinceProbe'[p] = 0]_vars

\* A running cooldown is lifted, shortened or restarted only by the clock, by
\* the user, or by an outcome of a stream that moves and was with the provider:
\* never by what happens to another provider, although the event of every
\* outcome goes through getAllHealth, which writes to all of them ("failures on
\* one provider do not affect others").
CooldownsAreOwn ==
    [][\A p \in Providers :
        \/ ~Cooling(health[p])
        \/ \E s \in Streams : stream'[s] # stream[s] /\ p \in {stream[s].from, stream[s].to}
        \/ health'[p] = health[p]
        \/ Tick \/ ClearCooldown(p)]_vars

=============================================================================
