------------------------ MODULE ProviderFailoverProofs ------------------------
(***************************************************************************)
(* What ProviderFailover promises for every set of providers and streams,  *)
(* every chain and every reason: the health records stay coherent, every   *)
(* variable keeps its type, and of the steps, that a fallback is fit, that *)
(* a free one is passed over only to probe, and that cooldowns do not mix. *)
(*                                                                         *)
(* TypeOK together with the coherence of the records is inductive.  The    *)
(* four ways to write a record keep it coherent one record at a time; the  *)
(* actions write one stream, to a record that is sound on its own.  The    *)
(* action properties rest on one observation: publishing the health        *)
(* (getAllHealth) changes no record whose cooldown still runs.             *)
(***************************************************************************)
EXTENDS ProviderFailover, TLAPS

Record == [status : Statuses, errorCount : 0 .. DownAfter, cooldown : Int]

\* What HealthCoherent says of one record, and its type.
Coherent(h) ==
    /\ h \in Record
    /\ h.cooldown >= NoCooldown
    /\ h.status = "down" => h.errorCount = DownAfter /\ h.cooldown >= 0
    /\ h.status = "degraded" \/ h.cooldown >= 0 => h.errorCount > 0

RecordsCoherent == health \in [Providers -> Record] /\ \A p \in Providers : Coherent(health[p])

LEMMA HealthyIsCoherent == Coherent(Healthy)
  BY DEF Coherent, Healthy, Record, Statuses, NoCooldown, DownAfter

LEMMA ExpiredIsCoherent ==
  ASSUME NEW h, Coherent(h)
  PROVE  Coherent(Expired(h))
<1>1. CASE h.cooldown # 0
  BY <1>1 DEF Expired
<1>2. CASE h.cooldown = 0
  <2> DEFINE e == [status |-> IF h.status = "down" THEN "degraded" ELSE h.status,
                   errorCount |-> h.errorCount,
                   cooldown |-> NoCooldown]
  <2>1. h \in Record /\ h.errorCount > 0
    BY <1>2 DEF Coherent
  <2>2. Expired(h) = e
    BY <1>2, <2>1 DEF Expired, Record
  <2>3. Coherent(e)
    BY <2>1 DEF Coherent, Record, Statuses, NoCooldown, DownAfter
  <2> QED
    BY <2>2, <2>3
<1> QED
  BY <1>1, <1>2

LEMMA FailedIsCoherent ==
  ASSUME NEW h, Coherent(h), NEW reason \in Reasons
  PROVE  Coherent(Failed(h, reason))
<1>1. reason \in DOMAIN CooldownByReason
  BY FailoverAssumption
<1>2. CooldownByReason[reason] \in Int /\ CooldownByReason[reason] >= 0
  BY <1>1 DEF CooldownByReason
<1> QED
  BY <1>2 DEF Coherent, Failed, Record, Statuses, NoCooldown, DownAfter

\* Writing coherent records at one provider, or at all of them, keeps RecordsCoherent.
LEMMA AllHealthKeeps ==
  ASSUME NEW hm \in [Providers -> Record], \A p \in Providers : Coherent(hm[p])
  PROVE  /\ AllHealth(hm) \in [Providers -> Record]
         /\ \A p \in Providers : Coherent(AllHealth(hm)[p])
  BY ExpiredIsCoherent DEF AllHealth, Coherent

LEMMA WriteKeeps ==
  ASSUME RecordsCoherent, NEW p, NEW h, Coherent(h)
  PROVE  LET hm == [health EXCEPT ![p] = h]
         IN hm \in [Providers -> Record] /\ \A q \in Providers : Coherent(hm[q])
  BY DEF RecordsCoherent, Coherent

LEMMA InitCoherent == Init => RecordsCoherent
  BY HealthyIsCoherent DEF Init, RecordsCoherent, Coherent

\* The clock lowers a cooldown that is running by one, to no less than 0.
LEMMA TickKeeps ==
  ASSUME RecordsCoherent, Tick
  PROVE  RecordsCoherent'
<1> DEFINE older(h) == [h EXCEPT !.cooldown = IF @ > 0 THEN @ - 1 ELSE @]
<1>1. ASSUME NEW p \in Providers
      PROVE  Coherent(older(health[p]))
  <2> DEFINE h == health[p]
             c == IF h.cooldown > 0 THEN h.cooldown - 1 ELSE h.cooldown
             o == [status |-> h.status, errorCount |-> h.errorCount, cooldown |-> c]
  <2>1. Coherent(h) /\ h \in Record
    BY DEF RecordsCoherent, Coherent
  <2>2. older(h) = o
    BY <2>1 DEF Record
  <2>3. Coherent(o)
    BY <2>1 DEF Coherent, Record, NoCooldown
  <2> QED
    BY <2>2, <2>3
<1>2. health' = [p \in Providers |-> older(health[p])]
  BY DEF Tick
<1> QED
  BY <1>1, <1>2 DEF RecordsCoherent, Coherent

\* recordSuccess
LEMMA SuccessKeeps ==
  ASSUME RecordsCoherent, NEW p, health' = AfterSuccess(p)
  PROVE  RecordsCoherent'
<1> DEFINE hm == [health EXCEPT ![p] = Healthy]
<1>1. hm \in [Providers -> Record] /\ \A q \in Providers : Coherent(hm[q])
  BY HealthyIsCoherent, WriteKeeps
<1>2. health' = hm \/ health' = AllHealth(hm)
  BY DEF AfterSuccess
<1>3. AllHealth(hm) \in [Providers -> Record] /\ \A q \in Providers : Coherent(AllHealth(hm)[q])
  BY <1>1, AllHealthKeeps
<1> QED
  BY <1>1, <1>2, <1>3 DEF RecordsCoherent, Coherent

\* recordFailure
LEMMA FailureKeeps ==
  ASSUME RecordsCoherent, NEW p, NEW reason \in Reasons, health' = AfterFailure(p, reason)
  PROVE  RecordsCoherent'
<1> DEFINE hm == [health EXCEPT ![p] = Failed(@, reason)]
<1>1. hm \in [Providers -> Record] /\ \A q \in Providers : Coherent(hm[q])
  <2>1. CASE p \in Providers
    <3>1. Coherent(Failed(health[p], reason))
      BY <2>1, FailedIsCoherent DEF RecordsCoherent
    <3> QED
      BY <3>1, WriteKeeps
  <2>2. CASE p \notin Providers
    BY <2>2 DEF RecordsCoherent
  <2> QED
    BY <2>1, <2>2
<1>2. AllHealth(hm) \in [Providers -> Record] /\ \A q \in Providers : Coherent(AllHealth(hm)[q])
  BY <1>1, AllHealthKeeps
<1> QED
  BY <1>2 DEF AfterFailure, RecordsCoherent, Coherent

\* ShowHealth, a start of the agent, and ClearCooldown publish the health.
LEMMA PublishKeeps ==
  ASSUME RecordsCoherent,
         NEW hm \in [Providers -> Record], \A p \in Providers : Coherent(hm[p]),
         health' = AllHealth(hm)
  PROVE  RecordsCoherent'
  BY AllHealthKeeps DEF RecordsCoherent, Coherent

LEMMA StreamKeepsRecords ==
  ASSUME RecordsCoherent, NEW s \in Streams,
         \/ Start(s) \/ Succeed(s) \/ Saved(s) \/ FailWithoutFailover(s)
         \/ CallFallback(s) \/ FallbackNotBuilt(s) \/ FallbackSucceeds(s) \/ Abandon(s)
         \/ \E reason \in Reasons :
              FailForGood(s, reason) \/ FailOver(s, reason) \/ FallbackFails(s, reason)
  PROVE  RecordsCoherent'
<1>1. CASE Start(s)
  <2>1. health' = AllHealth(health) \/ health' = health
    BY <1>1 DEF Start
  <2> QED
    BY <2>1, PublishKeeps DEF RecordsCoherent, Coherent
<1>2. CASE Succeed(s)
  BY <1>2, SuccessKeeps DEF Succeed
<1>3. CASE \/ Saved(s) \/ FailWithoutFailover(s) \/ CallFallback(s)
           \/ FallbackNotBuilt(s) \/ Abandon(s)
  <2>1. health' = health
    BY <1>3 DEF Saved, FailWithoutFailover, CallFallback, FallbackNotBuilt, Abandon
  <2> QED
    BY <2>1 DEF RecordsCoherent, Coherent
<1>4. CASE FallbackSucceeds(s)
  BY <1>4, SuccessKeeps DEF FallbackSucceeds
<1>5. ASSUME NEW reason \in Reasons, FailForGood(s, reason) \/ FailOver(s, reason)
      PROVE  RecordsCoherent'
  <2>1. health' = AfterFailure(stream[s].from, reason)
    BY <1>5 DEF FailForGood, FailOver
  <2> QED
    BY <2>1, FailureKeeps
<1>6. ASSUME NEW reason \in Reasons, FallbackFails(s, reason)
      PROVE  RecordsCoherent'
  <2>1. health' = AfterFailure(stream[s].to, reason)
    BY <1>6 DEF FallbackFails
  <2> QED
    BY <2>1, FailureKeeps
<1> QED
  BY <1>1, <1>2, <1>3, <1>4, <1>5, <1>6

LEMMA NextCoherent == RecordsCoherent /\ [Next]_vars => RecordsCoherent'
<1> SUFFICES ASSUME RecordsCoherent, [Next]_vars
             PROVE  RecordsCoherent'
  OBVIOUS
<1>1. ASSUME NEW p \in Providers, ClearCooldown(p)
      PROVE  RecordsCoherent'
  <2> DEFINE hm == [health EXCEPT ![p] = Healthy]
  <2>1. hm \in [Providers -> Record] /\ \A q \in Providers : Coherent(hm[q])
    BY HealthyIsCoherent, WriteKeeps
  <2>2. health' = AllHealth(hm)
    BY <1>1 DEF ClearCooldown
  <2> QED
    BY <2>1, <2>2, PublishKeeps
<1>2. CASE ShowHealth
  BY <1>2, PublishKeeps DEF ShowHealth, RecordsCoherent
<1>3. CASE \E e \in BOOLEAN, c \in Chains \cup {chain}, p \in Selectable : ChangeSettings(e, c, p)
  BY <1>3 DEF ChangeSettings, RecordsCoherent, Coherent
<1>4. CASE Tick
  BY <1>4, TickKeeps
<1>5. CASE UNCHANGED vars
  BY <1>5 DEF vars, RecordsCoherent, Coherent
<1> QED
  BY <1>1, <1>2, <1>3, <1>4, <1>5, StreamKeepsRecords DEF Next

-----------------------------------------------------------------------------
(* Streams *)

StreamRecord == [pc : Stages, from : Selectable \cup {None},
                 to : Providers \cup {None}, calls : Providers \cup {None}]
HasFallback == {"switching", "fallback", "savingFallback"}

\* What TypeOK says of one stream.
Sound(r) ==
    /\ r \in StreamRecord
    /\ (r.from = None) <=> r.pc = "idle"
    /\ (r.to # None) <=> r.pc \in HasFallback

StreamsSound == stream \in [Streams -> StreamRecord] /\ \A s \in Streams : Sound(stream[s])

\* The settings and the probes.
SettingsTyped ==
    /\ sinceProbe \in [Providers -> 0 .. MinProbeInterval]
    /\ chain \in Seq(Providers)
    /\ enabled \in BOOLEAN
    /\ selected \in Selectable

IInv == RecordsCoherent /\ SettingsTyped /\ StreamsSound

LEMMA IInvTyped == IInv => TypeOK
  BY DEF IInv, RecordsCoherent, SettingsTyped, StreamsSound, TypeOK, Sound, StreamRecord,
         HasFallback, Record, Coherent, At

LEMMA IdleIsSound == Sound(Idle)
  BY DEF Sound, Idle, StreamRecord, Stages, HasFallback

LEMMA BecomesKeeps ==
  ASSUME StreamsSound, NEW s \in Streams, NEW r, Sound(r), Becomes(s, r)
  PROVE  StreamsSound'
  BY DEF StreamsSound, Becomes, Sound

\* A stream that goes on keeps the provider it was started with.
LEMMA GoesOnSound ==
  ASSUME NEW r, Sound(r), r.pc # "idle",
         NEW n \in StreamRecord, n.from = r.from, n.pc # "idle",
         (n.to # None) <=> n.pc \in HasFallback
  PROVE  Sound(n)
  BY DEF Sound

\* Every step of a stream leaves it with a sound record.
LEMMA StreamKeepsStreams ==
  ASSUME IInv, NEW s \in Streams,
         \/ Start(s) \/ Succeed(s) \/ Saved(s) \/ FailWithoutFailover(s)
         \/ CallFallback(s) \/ FallbackNotBuilt(s) \/ FallbackSucceeds(s) \/ Abandon(s)
         \/ \E reason \in Reasons :
              FailForGood(s, reason) \/ FailOver(s, reason) \/ FallbackFails(s, reason)
  PROVE  StreamsSound'
<1> DEFINE r == stream[s]
<1>0. Sound(r) /\ r \in StreamRecord /\ StreamsSound
  BY DEF IInv, StreamsSound, Sound
<1>1. CASE Start(s)
  <2> DEFINE n == [pc |-> "calling", from |-> selected, to |-> None, calls |-> selected]
  <2>1. Sound(n)
    BY FailoverAssumption DEF IInv, SettingsTyped, Sound, StreamRecord, Stages, HasFallback
  <2>2. Becomes(s, n)
    BY <1>1 DEF Start
  <2> HIDE DEF n
  <2> QED
    BY <2>1, <2>2, <1>0, BecomesKeeps
<1>2. CASE Becomes(s, Idle)
  BY <1>2, <1>0, IdleIsSound, BecomesKeeps
<1>3. CASE Succeed(s) /\ s \in AskStreams
  <2> DEFINE n == [r EXCEPT !.pc = "saving"]
  <2>1. r.pc = "calling" /\ Becomes(s, n)
    BY <1>3 DEF Succeed, At
  <2>2. /\ n \in StreamRecord
        /\ n.pc = "saving" /\ n.from = r.from /\ n.to = r.to
    BY <1>0 DEF StreamRecord, Stages
  <2> HIDE DEF n
  <2>3. Sound(n)
    BY <1>0, <2>1, <2>2, GoesOnSound DEF Sound, HasFallback
  <2> QED
    BY <2>1, <2>3, <1>0, BecomesKeeps
<1>4. CASE FallbackSucceeds(s) /\ s \in AskStreams
  <2> DEFINE n == [r EXCEPT !.pc = "savingFallback"]
  <2>1. r.pc = "fallback" /\ Becomes(s, n)
    BY <1>4 DEF FallbackSucceeds, At
  <2>2. /\ n \in StreamRecord
        /\ n.pc = "savingFallback" /\ n.from = r.from /\ n.to = r.to
    BY <1>0 DEF StreamRecord, Stages
  <2> HIDE DEF n
  <2>3. Sound(n)
    BY <1>0, <2>1, <2>2, GoesOnSound DEF Sound, HasFallback
  <2> QED
    BY <2>1, <2>3, <1>0, BecomesKeeps
<1>5. CASE CallFallback(s)
  <2> DEFINE c == IF s \in AgentStreams THEN selected ELSE r.to
             n == [r EXCEPT !.pc = "fallback", !.calls = c]
  <2>1. r.pc = "switching" /\ Becomes(s, n)
    BY <1>5 DEF CallFallback, At
  <2>2. c \in Providers \cup {None}
    BY <1>0, FailoverAssumption DEF IInv, SettingsTyped, StreamRecord
  <2>3. /\ n \in StreamRecord
        /\ n.pc = "fallback" /\ n.from = r.from /\ n.to = r.to
    <3> HIDE DEF c
    <3> QED
      BY <1>0, <2>2 DEF StreamRecord, Stages
  <2> HIDE DEF n
  <2>4. Sound(n)
    BY <1>0, <2>1, <2>3, GoesOnSound DEF Sound, HasFallback
  <2> QED
    BY <2>1, <2>4, <1>0, BecomesKeeps
<1>6. ASSUME NEW to \in Providers, r.pc # "idle",
             Becomes(s, [r EXCEPT !.pc = "switching", !.to = to])
      PROVE  StreamsSound'
  <2> DEFINE n == [r EXCEPT !.pc = "switching", !.to = to]
  <2>1. Becomes(s, n)
    BY <1>6
  <2>2. /\ n \in StreamRecord
        /\ n.pc = "switching" /\ n.from = r.from /\ n.to = to
    BY <1>0 DEF StreamRecord, Stages
  <2> HIDE DEF n
  <2>3. Sound(n)
    BY <1>0, <1>6, <2>2, GoesOnSound, FailoverAssumption DEF HasFallback
  <2> QED
    BY <2>1, <2>3, <1>0, BecomesKeeps
<1>7. ASSUME NEW reason \in Reasons, FailOver(s, reason)
      PROVE  StreamsSound'
  <2>1. r.pc # "idle"
    BY <1>7 DEF FailOver, Failing, At
  <2>2. PICK to \in Providers \cup {None} :
            Becomes(s, IF to \in {None, r.from} THEN Idle
                       ELSE [r EXCEPT !.pc = "switching", !.to = to])
    BY <1>7 DEF FailOver
  <2> QED
    BY <1>2, <1>6, <2>1, <2>2
<1>8. CASE (Succeed(s) \/ FallbackSucceeds(s)) /\ s \notin AskStreams
  BY <1>2, <1>8 DEF Succeed, FallbackSucceeds
<1>9. CASE \/ Saved(s) \/ FailWithoutFailover(s) \/ FallbackNotBuilt(s) \/ Abandon(s)
           \/ \E reason \in Reasons : FailForGood(s, reason) \/ FallbackFails(s, reason)
  BY <1>2, <1>9 DEF Saved, FailWithoutFailover, FallbackNotBuilt, Abandon, FailForGood,
                    FallbackFails
<1> HIDE DEF r
<1> QED
  BY <1>1, <1>3, <1>4, <1>5, <1>7, <1>8, <1>9

LEMMA ResetStaysInRange ==
  ASSUME NEW f \in [Providers -> 0 .. MinProbeInterval], NEW p
  PROVE  [f EXCEPT ![p] = 0] \in [Providers -> 0 .. MinProbeInterval]
<1>1. 0 \in 0 .. MinProbeInterval
  BY DEF MinProbeInterval
<1> QED
  BY <1>1

\* No step of a stream writes the settings; one that fails over may note a probe.
LEMMA StreamKeepsSettings ==
  ASSUME IInv, NEW s \in Streams,
         \/ Start(s) \/ Succeed(s) \/ Saved(s) \/ FailWithoutFailover(s)
         \/ CallFallback(s) \/ FallbackNotBuilt(s) \/ FallbackSucceeds(s) \/ Abandon(s)
         \/ \E reason \in Reasons :
              FailForGood(s, reason) \/ FailOver(s, reason) \/ FallbackFails(s, reason)
  PROVE  SettingsTyped'
<1>1. ASSUME NEW hm, NEW p
      PROVE  ProbeNoted(hm, p) \in [Providers -> 0 .. MinProbeInterval]
  <2>1. sinceProbe \in [Providers -> 0 .. MinProbeInterval]
    BY DEF IInv, SettingsTyped
  <2>2. [sinceProbe EXCEPT ![p] = 0] \in [Providers -> 0 .. MinProbeInterval]
    BY <2>1, ResetStaysInRange
  <2>3. ProbeNoted(hm, p) \in {sinceProbe, [sinceProbe EXCEPT ![p] = 0]}
    BY DEF ProbeNoted
  <2> QED
    BY <2>1, <2>2, <2>3
<1>2. UNCHANGED settings
  BY DEF Start, Succeed, Saved, FailWithoutFailover, CallFallback, FallbackNotBuilt,
         FallbackSucceeds, Abandon, FailForGood, FailOver, FallbackFails
<1>3. sinceProbe' \in [Providers -> 0 .. MinProbeInterval]
  <2>1. ASSUME NEW reason \in Reasons, FailOver(s, reason)
        PROVE  sinceProbe' \in [Providers -> 0 .. MinProbeInterval]
    BY <1>1, <2>1 DEF FailOver
  <2>2. CASE sinceProbe' = sinceProbe
    BY <2>2 DEF IInv, SettingsTyped
  <2> QED
    BY <2>1, <2>2 DEF Start, Succeed, Saved, FailWithoutFailover, CallFallback,
       FallbackNotBuilt, FallbackSucceeds, Abandon, FailForGood, FallbackFails
<1> QED
  <2>1. chain' = chain /\ enabled' = enabled /\ selected' = selected
    BY <1>2 DEF settings
  <2> QED
    BY <2>1, <1>3 DEF IInv, SettingsTyped

LEMMA InitEstablishes == Init => IInv
<1> SUFFICES ASSUME Init
             PROVE  IInv
  OBVIOUS
<1>1. chain \in Seq(Providers)
  <2>1. << >> \in Seq(Providers) /\ Chains \subseteq Seq(Providers)
    BY FailoverAssumption
  <2>2. chain \in Chains \cup {<< >>}
    BY DEF Init
  <2> QED
    BY <2>1, <2>2
<1>2. SettingsTyped
  BY <1>1 DEF Init, SettingsTyped, MinProbeInterval
<1>3. StreamsSound
  BY IdleIsSound DEF Init, StreamsSound, Sound
<1> QED
  BY <1>2, <1>3, InitCoherent DEF IInv

LEMMA NextPreserves == IInv /\ [Next]_vars => IInv'
<1> SUFFICES ASSUME IInv, [Next]_vars
             PROVE  SettingsTyped' /\ StreamsSound'
  BY NextCoherent DEF IInv
<1>1. CASE UNCHANGED <<sinceProbe, settings, stream>>
  BY <1>1 DEF IInv, SettingsTyped, StreamsSound, settings
<1>2. ASSUME NEW e \in BOOLEAN, NEW c \in Chains \cup {chain}, NEW p \in Selectable,
             ChangeSettings(e, c, p)
      PROVE  SettingsTyped' /\ StreamsSound'
  <2>1. c \in Seq(Providers)
    BY FailoverAssumption DEF IInv, SettingsTyped
  <2> QED
    BY <1>2, <2>1 DEF ChangeSettings, IInv, SettingsTyped, StreamsSound
<1>3. CASE Tick
  <2>1. sinceProbe' \in [Providers -> 0 .. MinProbeInterval]
    BY <1>3 DEF Tick, IInv, SettingsTyped, MinProbeInterval
  <2> QED
    BY <1>3, <2>1 DEF Tick, IInv, SettingsTyped, StreamsSound, settings
<1> QED
  BY <1>1, <1>2, <1>3, StreamKeepsStreams, StreamKeepsSettings
     DEF Next, vars, ShowHealth, ClearCooldown

\* In every reachable state the records are coherent and the streams sound.
THEOREM InductiveInvariant == Spec => []IInv
  BY InitEstablishes, NextPreserves, PTL DEF Spec

\* Every variable keeps its type; a stream has a fallback from the moment one
\* was resolved.
THEOREM TypeCorrect == Spec => []TypeOK
  BY InductiveInvariant, IInvTyped, PTL

\* A provider shown as down has failed at least three times in a row and has a
\* cooldown that will lift it; nobody cools down without a failure.
THEOREM HealthStaysCoherent == Spec => []HealthCoherent
<1>1. IInv => HealthCoherent
  BY DEF IInv, RecordsCoherent, Coherent, HealthCoherent
<1> QED
  BY <1>1, InductiveInvariant, PTL
-----------------------------------------------------------------------------
(* What a step does to a cooldown that runs *)

\* getAllHealth writes to every record, but to none whose cooldown still runs.
LEMMA PublishedKeepsRunning ==
  ASSUME NEW hm \in [Providers -> Record], NEW p \in Providers
  PROVE  /\ Cooling(hm[p]) => AllHealth(hm)[p] = hm[p]
         /\ Cooling(AllHealth(hm)[p]) <=> Cooling(hm[p])
<1> DEFINE h == hm[p]
<1>1. h \in Record /\ AllHealth(hm)[p] = Expired(h)
  BY DEF AllHealth
<1>2. Cooling(h) => Expired(h) = h
  BY <1>1 DEF Cooling, Expired, Record
<1>3. ~Cooling(h) => ~Cooling(Expired(h))
  <2>1. CASE h.cooldown = 0
    <3>1. Expired(h).cooldown = NoCooldown
      BY <1>1, <2>1 DEF Expired, Record
    <3> QED
      BY <3>1 DEF Cooling, NoCooldown
  <2>2. CASE h.cooldown # 0
    BY <2>2 DEF Expired
  <2> QED
    BY <2>1, <2>2
<1> QED
  BY <1>1, <1>2, <1>3

\* hm leaves every cooldown of health alone but that of p.
OthersAlone(hm, p) ==
    \A q \in Providers \ {p} :
        /\ Cooling(health[q]) => hm[q] = health[q]
        /\ Cooling(hm[q]) <=> Cooling(health[q])

LEMMA WrittenAlone ==
  ASSUME IInv, NEW p \in Providers, NEW h \in Record
  PROVE  LET hm == [health EXCEPT ![p] = h]
         IN /\ hm \in [Providers -> Record] /\ hm[p] = h
            /\ OthersAlone(hm, p) /\ OthersAlone(AllHealth(hm), p)
<1> DEFINE hm == [health EXCEPT ![p] = h]
<1>1. health \in [Providers -> Record]
  BY DEF IInv, RecordsCoherent
<1>2. hm \in [Providers -> Record] /\ hm[p] = h /\ \A q \in Providers \ {p} : hm[q] = health[q]
  BY <1>1
<1> HIDE DEF hm
<1>3. OthersAlone(hm, p)
  BY <1>2 DEF OthersAlone
<1>4. OthersAlone(AllHealth(hm), p)
  BY <1>2, PublishedKeepsRunning DEF OthersAlone
<1> QED
  BY <1>2, <1>3, <1>4 DEF hm

\* recordSuccess and clearCooldown
LEMMA SuccessAlone ==
  ASSUME IInv, NEW p \in Providers
  PROVE  OthersAlone(AfterSuccess(p), p)
<1>1. Healthy \in Record
  BY HealthyIsCoherent DEF Coherent
<1> QED
  BY <1>1, WrittenAlone DEF AfterSuccess

\* recordFailure
LEMMA FailureAlone ==
  ASSUME IInv, NEW p \in Providers, NEW reason \in Reasons
  PROVE  /\ OthersAlone(AfterFailure(p, reason), p)
         /\ reason \notin NonFailoverReasons => Cooling(AfterFailure(p, reason)[p])
<1> DEFINE f == Failed(health[p], reason)
           hm == [health EXCEPT ![p] = f]
<1>1. f \in Record
  BY FailedIsCoherent DEF IInv, RecordsCoherent, Coherent
<1>2. AfterFailure(p, reason) = AllHealth(hm)
  BY DEF AfterFailure
<1>3. reason \notin NonFailoverReasons => Cooling(f)
  <2>1. reason \in DOMAIN CooldownByReason
    BY FailoverAssumption
  <2>2. CooldownByReason[reason] > 0
    BY <2>1 DEF CooldownByReason
  <2>3. f.cooldown = CooldownByReason[reason]
    BY DEF Failed
  <2> QED
    BY <2>2, <2>3 DEF Cooling
<1> HIDE DEF f
<1>4. hm \in [Providers -> Record] /\ hm[p] = f /\ OthersAlone(AllHealth(hm), p)
  BY <1>1, WrittenAlone
<1> HIDE DEF hm
<1>5. Cooling(AllHealth(hm)[p]) <=> Cooling(hm[p])
  BY <1>4, PublishedKeepsRunning
<1> QED
  BY <1>2, <1>3, <1>4, <1>5

\* The provider of a stream that was called, and of one handed over.
LEMMA ProviderOf ==
  ASSUME IInv, NEW s \in Streams
  PROVE  /\ ~At(s, "idle") => stream[s].from \in Providers
         /\ stream[s].pc \in HasFallback => stream[s].to \in Providers
  BY FailoverAssumption DEF IInv, StreamsSound, Sound, StreamRecord, At

-----------------------------------------------------------------------------
(* How a stream is handed over *)

\* Only FailOver takes a stream to "switching".
LEMMA OnlyFailOver ==
  ASSUME IInv, Next, NEW s \in Streams, FailsOver(s)
  PROVE  \E reason \in Reasons : FailOver(s, reason)
<1>0. ~At(s, "switching") /\ stream'[s].pc = "switching" /\ stream \in [Streams -> StreamRecord]
  BY DEF FailsOver, IInv, StreamsSound
<1>1. ASSUME NEW t \in Streams, NEW r, Becomes(t, r), t # s \/ r.pc # "switching"
      PROVE  FALSE
  BY <1>0, <1>1 DEF Becomes, At
<1>2. CASE UNCHANGED stream
  BY <1>0, <1>2 DEF At
<1>3. ASSUME NEW t \in Streams, Becomes(t, Idle)
      PROVE  FALSE
  BY <1>1, <1>3 DEF Idle
<1>4. ASSUME NEW t \in Streams, NEW pc \in Stages \ {"switching"},
             Becomes(t, [stream[t] EXCEPT !.pc = pc])
      PROVE  FALSE
  <2>1. [stream[t] EXCEPT !.pc = pc].pc = pc
    BY <1>0 DEF StreamRecord
  <2> QED
    BY <1>1, <1>4, <2>1
<1>5. ASSUME NEW t \in Streams, CallFallback(t)
      PROVE  FALSE
  <2> DEFINE c == IF t \in AgentStreams THEN selected ELSE stream[t].to
             r == [stream[t] EXCEPT !.pc = "fallback", !.calls = c]
  <2>1. Becomes(t, r)
    BY <1>5 DEF CallFallback
  <2>2. r.pc = "fallback"
    BY <1>0 DEF StreamRecord
  <2> HIDE DEF r
  <2> QED
    BY <1>1, <2>1, <2>2
<1>6. ASSUME NEW t \in Streams, Start(t)
      PROVE  FALSE
  BY <1>1, <1>6 DEF Start
<1>7. ASSUME NEW t \in Streams, Succeed(t) \/ FallbackSucceeds(t)
      PROVE  FALSE
  BY <1>3, <1>4, <1>7 DEF Succeed, FallbackSucceeds, Stages
<1>8. ASSUME NEW t \in Streams, NEW reason \in Reasons, FailOver(t, reason), t # s
      PROVE  FALSE
  <2>1. PICK r : Becomes(t, r)
    BY <1>8 DEF FailOver
  <2> QED
    BY <1>1, <1>8, <2>1
<1>9. ASSUME NEW t \in Streams,
             \/ Saved(t) \/ FailWithoutFailover(t) \/ FallbackNotBuilt(t) \/ Abandon(t)
             \/ \E reason \in Reasons : FailForGood(t, reason) \/ FallbackFails(t, reason)
      PROVE  FALSE
  BY <1>3, <1>9 DEF Saved, FailWithoutFailover, FallbackNotBuilt, Abandon, FailForGood,
                    FallbackFails
<1> QED
  BY <1>2, <1>5, <1>6, <1>7, <1>8, <1>9 DEF Next, ShowHealth, ClearCooldown, ChangeSettings, Tick

\* What FailOver knows of the health it resolves a fallback with.
LEMMA FailOverHealth ==
  ASSUME IInv, NEW s \in Streams, NEW reason \in Reasons, FailOver(s, reason)
  PROVE  LET p == stream[s].from
             hm == AfterFailure(p, reason)
         IN /\ p \in Providers
            /\ Cooling(hm[p])
            /\ OthersAlone(hm, p)
<1>1. stream[s].from \in Providers
  BY ProviderOf DEF FailOver, Failing, At
<1>2. reason \notin NonFailoverReasons
  BY DEF FailOver
<1> QED
  BY <1>1, <1>2, FailureAlone

\* A stream is handed over only to a fallback of the chain that has credentials
\* and does not cool down, whatever other streams recorded in between.
THEOREM FallbackFits == Spec => FallbackIsFit
<1>1. ASSUME IInv, Next, NEW s \in Streams, FailsOver(s)
      PROVE  stream'[s].to \in FreeFallbacks(stream[s].from)
  <2> DEFINE p == stream[s].from
  <2>1. PICK reason \in Reasons : FailOver(s, reason)
    BY <1>1, OnlyFailOver
  <2> DEFINE hm == AfterFailure(p, reason)
  <2>2. PICK to \in Providers \cup {None} :
            /\ Resolves(hm, p, to)
            /\ Becomes(s, IF to \in {None, p} THEN Idle
                          ELSE [stream[s] EXCEPT !.pc = "switching", !.to = to])
    BY <2>1 DEF FailOver
  <2>3. stream \in [Streams -> StreamRecord]
    BY <1>1 DEF IInv, StreamsSound
  <2>4. to \notin {None, p}
    <3>1. Idle.pc # "switching"
      BY DEF Idle
    <3> QED
      BY <1>1, <2>2, <2>3, <3>1 DEF FailsOver, Becomes
  <2>5. stream'[s].to = to
    <3>1. stream' = [stream EXCEPT ![s] = [stream[s] EXCEPT !.pc = "switching", !.to = to]]
      BY <2>2, <2>4 DEF Becomes
    <3>2. [stream[s] EXCEPT !.pc = "switching", !.to = to].to = to
      BY <2>3 DEF StreamRecord
    <3> QED
      BY <2>3, <3>1, <3>2
  <2>6. p \in Providers /\ OthersAlone(hm, p)
    BY <1>1, <2>1, FailOverHealth
  <2> HIDE DEF p, hm
  <2>7. PICK i \in 1 .. Len(chain) : to = chain[i] /\ to \in Keyed /\ Fallback(hm, p, to)
    BY <2>2, <2>4 DEF Resolves
  <2>8. to \in Providers \ {p} /\ ~Cooling(hm[to])
    BY <2>2, <2>4, <2>7 DEF Fallback
  <2>9. ~Cooling(health[to])
    BY <2>6, <2>8 DEF OthersAlone
  <2> QED
    BY <2>5, <2>7, <2>8, <2>9 DEF FreeFallbacks, p
<1>2. IInv /\ [Next]_vars =>
        [\A s \in Streams : FailsOver(s) => stream'[s].to \in FreeFallbacks(stream[s].from)]_vars
  BY <1>1
<1> QED
  BY <1>2, InductiveInvariant, PTL DEF Spec, FallbackIsFit

\* A stream whose provider failed is left without a fallback that was free only
\* for a probe of that provider, which the next probe then has to wait for.
THEOREM GivesUpToProbe == Spec => GivesUpOnlyToProbe
<1>1. ASSUME IInv, NEW s \in Streams, FailsHard(s), ~FailsOver(s),
             FreeFallbacks(stream[s].from) # {}
      PROVE  /\ sinceProbe[stream[s].from] >= MinProbeInterval
             /\ sinceProbe'[stream[s].from] = 0
  <2> DEFINE p == stream[s].from
  <2>1. PICK reason \in Reasons : FailOver(s, reason)
    BY <1>1 DEF FailsHard
  <2> DEFINE hm == AfterFailure(p, reason)
  <2>2. PICK to \in Providers \cup {None} :
            /\ Resolves(hm, p, to)
            /\ Becomes(s, IF to \in {None, p} THEN Idle
                          ELSE [stream[s] EXCEPT !.pc = "switching", !.to = to])
    BY <2>1 DEF FailOver
  <2>3. stream \in [Streams -> StreamRecord] /\ chain \in Seq(Providers)
    BY <1>1 DEF IInv, StreamsSound, SettingsTyped
  <2>4. to \in {None, p}
    <3>1. SUFFICES ASSUME to \notin {None, p} PROVE FALSE
      OBVIOUS
    <3>2. stream' = [stream EXCEPT ![s] = [stream[s] EXCEPT !.pc = "switching", !.to = to]]
      BY <2>2, <3>1 DEF Becomes
    <3>3. [stream[s] EXCEPT !.pc = "switching", !.to = to].pc = "switching"
      BY <2>3 DEF StreamRecord
    <3>4. stream'[s].pc = "switching"
      BY <2>3, <3>2, <3>3
    <3>5. ~At(s, "switching")
      BY <2>1 DEF FailOver, Failing, At
    <3> QED
      BY <1>1, <3>4, <3>5 DEF FailsOver
  <2>5. p \in Providers /\ Cooling(hm[p]) /\ OthersAlone(hm, p)
    BY <1>1, <2>1, FailOverHealth
  <2>6. sinceProbe' = ProbeNoted(hm, p)
    BY <2>1 DEF FailOver
  <2>7. PICK q \in FreeFallbacks(p) : TRUE
    BY <1>1
  <2> HIDE DEF p, hm
  <2>8. PICK i \in 1 .. Len(chain) : chain[i] = q /\ q \in Keyed \ {p} /\ ~Cooling(health[q])
    BY <2>7 DEF FreeFallbacks
  <2>9. Fallback(hm, p, chain[i])
    <3>1. q \in Providers \ {p}
      BY <2>8, FailoverAssumption
    <3> QED
      BY <2>5, <2>8, <3>1 DEF OthersAlone, Fallback
  <2>10. PrimaryFirst(hm, p)
    <3>1. SUFFICES ASSUME ~PrimaryFirst(hm, p) PROVE FALSE
      OBVIOUS
    <3>2. PICK j \in 1 .. Len(chain) : to = chain[j] /\ Fallback(hm, p, to)
      BY <2>2, <2>8, <2>9, <3>1 DEF Resolves
    <3>3. to \in Providers /\ to # p
      BY <2>3, <3>2 DEF Fallback
    <3> QED
      BY <2>4, <3>3, FailoverAssumption
  <2>11. ShouldProbe(hm, p)
    BY <2>5, <2>10 DEF PrimaryFirst
  <2>12. sinceProbe \in [Providers -> 0 .. MinProbeInterval]
    BY <1>1 DEF IInv, SettingsTyped
  <2>13. sinceProbe' = [sinceProbe EXCEPT ![p] = 0]
    BY <2>6, <2>11 DEF ProbeNoted
  <2> QED
    BY <2>5, <2>11, <2>12, <2>13 DEF ShouldProbe, p
<1>2. IInv /\ [Next]_vars =>
        [\A s \in Streams :
            LET p == stream[s].from
            IN FailsHard(s) /\ ~FailsOver(s) /\ FreeFallbacks(p) # {} =>
                sinceProbe[p] >= MinProbeInterval /\ sinceProbe'[p] = 0]_vars
  BY <1>1
<1> QED
  BY <1>2, InductiveInvariant, PTL DEF Spec, GivesUpOnlyToProbe

-----------------------------------------------------------------------------
(* Whose cooldown a step may touch *)

Own(p) ==
    \/ ~Cooling(health[p])
    \/ \E s \in Streams : stream'[s] # stream[s] /\ p \in {stream[s].from, stream[s].to}
    \/ health'[p] = health[p]
    \/ Tick \/ ClearCooldown(p)

\* Publishing alone, and leaving the health alone, touch no cooldown that runs.
LEMMA PublishedIsOwn ==
  ASSUME IInv, health' = health \/ health' = AllHealth(health), NEW p \in Providers
  PROVE  Own(p)
  BY PublishedKeepsRunning DEF IInv, RecordsCoherent, Own

\* The outcome of a stream that moves on touches its own provider at most.
LEMMA OutcomeIsOwn ==
  ASSUME IInv, NEW s \in Streams, stream'[s].pc # stream[s].pc,
         NEW q \in {stream[s].from, stream[s].to}, OthersAlone(health', q),
         NEW p \in Providers
  PROVE  Own(p)
<1>1. CASE p = q
  BY <1>1 DEF Own
<1>2. CASE p # q
  BY <1>2 DEF OthersAlone, Own
<1> QED
  BY <1>1, <1>2

LEMMA Moves ==
  ASSUME IInv, NEW s \in Streams, ~At(s, "idle"),
         \/ Becomes(s, Idle)
         \/ \E pc \in Stages : ~At(s, pc) /\ Becomes(s, [stream[s] EXCEPT !.pc = pc])
         \/ \E to : ~At(s, "switching")
                 /\ Becomes(s, [stream[s] EXCEPT !.pc = "switching", !.to = to])
  PROVE  stream'[s].pc # stream[s].pc
<1>1. stream \in [Streams -> StreamRecord]
  BY DEF IInv, StreamsSound
<1>2. CASE Becomes(s, Idle)
  BY <1>1, <1>2 DEF Becomes, At, Idle
<1>3. ASSUME NEW pc \in Stages, ~At(s, pc), Becomes(s, [stream[s] EXCEPT !.pc = pc])
      PROVE  stream'[s].pc # stream[s].pc
  <2>1. [stream[s] EXCEPT !.pc = pc].pc = pc
    BY <1>1 DEF StreamRecord
  <2> QED
    BY <1>1, <1>3, <2>1 DEF Becomes, At
<1>4. ASSUME NEW to, ~At(s, "switching"),
             Becomes(s, [stream[s] EXCEPT !.pc = "switching", !.to = to])
      PROVE  stream'[s].pc # stream[s].pc
  <2>1. [stream[s] EXCEPT !.pc = "switching", !.to = to].pc = "switching"
    BY <1>1 DEF StreamRecord
  <2> QED
    BY <1>1, <1>4, <2>1 DEF Becomes, At
<1> QED
  BY <1>2, <1>3, <1>4

LEMMA StreamTouchesOwn ==
  ASSUME IInv, NEW p \in Providers, NEW s \in Streams,
         \/ Start(s) \/ Succeed(s) \/ Saved(s) \/ FailWithoutFailover(s)
         \/ CallFallback(s) \/ FallbackNotBuilt(s) \/ FallbackSucceeds(s) \/ Abandon(s)
         \/ \E reason \in Reasons :
              FailForGood(s, reason) \/ FailOver(s, reason) \/ FallbackFails(s, reason)
  PROVE  Own(p)
<1>1. CASE \/ Start(s) \/ Saved(s) \/ FailWithoutFailover(s) \/ CallFallback(s)
           \/ FallbackNotBuilt(s) \/ Abandon(s)
  <2>1. health' = health \/ health' = AllHealth(health)
    BY <1>1 DEF Start, Saved, FailWithoutFailover, CallFallback, FallbackNotBuilt, Abandon
  <2> QED
    BY <2>1, PublishedIsOwn
<1>2. CASE Succeed(s)
  <2>1. stream[s].from \in Providers /\ ~At(s, "idle") /\ ~At(s, "saving")
    BY <1>2, ProviderOf DEF Succeed, At
  <2>2. stream'[s].pc # stream[s].pc
    BY <1>2, <2>1, Moves DEF Succeed, Stages
  <2>3. OthersAlone(health', stream[s].from)
    BY <1>2, <2>1, SuccessAlone DEF Succeed
  <2> QED
    BY <2>2, <2>3, OutcomeIsOwn
<1>3. CASE FallbackSucceeds(s)
  <2>1. stream[s].to \in Providers /\ ~At(s, "idle") /\ ~At(s, "savingFallback")
    BY <1>3, ProviderOf DEF FallbackSucceeds, At, HasFallback
  <2>2. stream'[s].pc # stream[s].pc
    BY <1>3, <2>1, Moves DEF FallbackSucceeds, Stages
  <2>3. OthersAlone(health', stream[s].to)
    BY <1>3, <2>1, SuccessAlone DEF FallbackSucceeds
  <2> QED
    BY <2>2, <2>3, OutcomeIsOwn
<1>4. ASSUME NEW reason \in Reasons, FailForGood(s, reason) \/ FailOver(s, reason)
      PROVE  Own(p)
  <2>1. stream[s].from \in Providers /\ ~At(s, "idle") /\ ~At(s, "switching")
    BY <1>4, ProviderOf DEF FailForGood, FailOver, Failing, At
  <2>2. stream'[s].pc # stream[s].pc
    BY <1>4, <2>1, Moves DEF FailForGood, FailOver
  <2>3. health' = AfterFailure(stream[s].from, reason)
    BY <1>4 DEF FailForGood, FailOver
  <2>4. OthersAlone(health', stream[s].from)
    BY <2>1, <2>3, FailureAlone
  <2> QED
    BY <2>2, <2>4, OutcomeIsOwn
<1>5. ASSUME NEW reason \in Reasons, FallbackFails(s, reason)
      PROVE  Own(p)
  <2>1. stream[s].to \in Providers /\ ~At(s, "idle")
    BY <1>5, ProviderOf DEF FallbackFails, At, HasFallback
  <2>2. stream'[s].pc # stream[s].pc
    BY <1>5, <2>1, Moves DEF FallbackFails
  <2>3. health' = AfterFailure(stream[s].to, reason)
    BY <1>5 DEF FallbackFails
  <2>4. OthersAlone(health', stream[s].to)
    BY <2>1, <2>3, FailureAlone
  <2> QED
    BY <2>2, <2>4, OutcomeIsOwn
<1> QED
  BY <1>1, <1>2, <1>3, <1>4, <1>5

\* A running cooldown is lifted, shortened or restarted only by the clock, by
\* the user, or by an outcome of a stream that was with the provider.
THEOREM CooldownsDoNotMix == Spec => CooldownsAreOwn
<1>1. ASSUME IInv, Next, NEW p \in Providers
      PROVE  Own(p)
  <2>1. ASSUME NEW q \in Providers, ClearCooldown(q)
        PROVE  Own(p)
    <3>1. CASE p = q
      BY <2>1, <3>1 DEF Own
    <3>2. CASE p # q
      <4>1. Healthy \in Record
        BY HealthyIsCoherent DEF Coherent
      <4>2. OthersAlone(health', q)
        BY <1>1, <2>1, <4>1, WrittenAlone DEF ClearCooldown
      <4> QED
        BY <3>2, <4>2 DEF OthersAlone, Own
    <3> QED
      BY <3>1, <3>2
  <2>2. CASE ShowHealth
    BY <1>1, <2>2, PublishedIsOwn DEF ShowHealth
  <2>3. CASE \E e \in BOOLEAN, c \in Chains \cup {chain}, q \in Selectable :
                ChangeSettings(e, c, q)
    BY <1>1, <2>3, PublishedIsOwn DEF ChangeSettings
  <2>4. CASE Tick
    BY <2>4 DEF Own
  <2> QED
    BY <1>1, <2>1, <2>2, <2>3, <2>4, StreamTouchesOwn DEF Next
<1>2. IInv /\ [Next]_vars => [\A p \in Providers : Own(p)]_vars
  BY <1>1
<1> QED
  BY <1>2, InductiveInvariant, PTL DEF Spec, CooldownsAreOwn, Own
=============================================================================
