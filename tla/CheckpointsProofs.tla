-------------------------- MODULE CheckpointsProofs --------------------------
(***************************************************************************)
(* Theorems about Checkpoints and the ChangeReview it runs with, for any   *)
(* number of files, changes, sessions, calls and checkpoints.              *)
(***************************************************************************)
EXTENDS Checkpoints, TLAPS, FiniteSetTheorems, SequenceTheorems

-----------------------------------------------------------------------------
(* Taking a prefix or one entry off the list of checkpoints *)

\* Taking the first n elements off leaves the others in their order.
LEMMA DropFront ==
    ASSUME NEW S, NEW w \in Seq(S), NEW n \in 0 .. Len(w)
    PROVE  /\ SubSeq(w, n + 1, Len(w)) \in Seq(S)
           /\ Len(SubSeq(w, n + 1, Len(w))) = Len(w) - n
           /\ \A i \in 1 .. Len(w) - n : SubSeq(w, n + 1, Len(w))[i] = w[i + n]
<1>1. \A i \in n + 1 .. Len(w) : w[i] \in S
  BY ElementOfSeq
<1>2. /\ SubSeq(w, n + 1, Len(w)) \in Seq(S)
      /\ Len(SubSeq(w, n + 1, Len(w))) = IF n + 1 <= Len(w) THEN Len(w) - (n + 1) + 1 ELSE 0
      /\ \A i \in 1 .. Len(w) - (n + 1) + 1 :
            SubSeq(w, n + 1, Len(w))[i] = w[n + 1 + i - 1]
  BY <1>1, SubSeqProperties, LenProperties
<1> QED
  BY <1>2, LenProperties

\* RemoveAt closes the gap the element leaves.
LEMMA RemoveOne ==
    ASSUME NEW S, NEW w \in Seq(S), NEW k \in 1 .. Len(w)
    PROVE  /\ RemoveAt(w, k) \in Seq(S)
           /\ Len(RemoveAt(w, k)) = Len(w) - 1
           /\ \A i \in 1 .. Len(w) - 1 :
                 RemoveAt(w, k)[i] = IF i < k THEN w[i] ELSE w[i + 1]
<1> DEFINE u == SubSeq(w, 1, k - 1)
           v == SubSeq(w, k + 1, Len(w))
<1>1. /\ u \in Seq(S) /\ Len(u) = k - 1
      /\ \A i \in 1 .. k - 1 : u[i] = w[i]
  BY SubSeqProperties, LenProperties, ElementOfSeq
<1>2. /\ v \in Seq(S) /\ Len(v) = Len(w) - k
      /\ \A i \in 1 .. Len(w) - k : v[i] = w[i + k]
  BY DropFront, LenProperties
<1>3. /\ u \o v \in Seq(S)
      /\ Len(u \o v) = Len(u) + Len(v)
      /\ \A i \in 1 .. Len(u) + Len(v) :
            (u \o v)[i] = IF i <= Len(u) THEN u[i] ELSE v[i - Len(u)]
  BY <1>1, <1>2, ConcatProperties
<1>4. RemoveAt(w, k) = u \o v
  BY DEF RemoveAt
<1> HIDE DEF u, v
<1>5. Len(w) \in Nat /\ Len(u) + Len(v) = Len(w) - 1
  BY <1>1, <1>2, LenProperties
<1>6. ASSUME NEW i \in 1 .. Len(w) - 1
      PROVE  RemoveAt(w, k)[i] = IF i < k THEN w[i] ELSE w[i + 1]
  <2>1. CASE i < k
    BY <2>1, <1>1, <1>3, <1>4, <1>5
  <2>2. CASE i >= k
    <3>1. i - (k - 1) \in 1 .. Len(w) - k
      BY <2>2, <1>5
    <3>2. (u \o v)[i] = v[i - (k - 1)]
      BY <2>2, <1>1, <1>3, <1>5
    <3>3. v[i - (k - 1)] = w[i - (k - 1) + k]
      BY <3>1, <1>2
    <3> QED
      BY <2>2, <3>2, <3>3, <1>4, <1>5
  <2> QED
    BY <2>1, <2>2, <1>5
<1> QED
  BY <1>3, <1>4, <1>5, <1>6

-----------------------------------------------------------------------------
(* The inductive invariant of the review *)

Applied(d) == change[d].status = "applied"

\* A content that shows accepted changes only.
Reviewed(x) == x # None => \A d \in x : Accepted(d)

\* What a change would write are accepted changes and itself.
ChangesSound ==
    \A c \in Changes : change[c].status # "unknown" =>
        /\ change[c].file \in Files
        /\ Reviewed(change[c].old)
        /\ \A d \in change[c].new : d = c \/ Accepted(d)

\* A change that was added, and perhaps decided.
Settled(d) == change[d].status \notin {"unknown", "reading"}

\* So is what a call writes, and its change was added.
CallsSound ==
    \A k \in Calls : call[k].change # None =>
        /\ Settled(call[k].change)
        /\ \A d \in call[k].content : d = call[k].change \/ Accepted(d)

\* A session lists its own changes once they are read, and reads only while it is
\* being created.
ListsSound ==
    /\ \A c \in Changes : change[c].status = "reading" /\ change[c].session # None =>
          session[change[c].session].status = "creating"
    /\ \A s \in Sessions : \A i \in 1 .. Len(session[s].changes) :
          change[session[s].changes[i]].session = s /\ Settled(session[s].changes[i])

\* The changes of a session that may still be applied.
Open(s) == {c \in Changes : /\ change[c].status = "pending"
                            /\ \E i \in 1 .. Len(session[s].changes) : session[s].changes[i] = c}

\* A running applySession has every open change before it, unless one has failed.
RunsSound ==
    \A k \in Calls : call[k].session # None =>
        /\ Registered(call[k].session)
        /\ ~call[k].failed => \A c \in Open(call[k].session) :
              c = call[k].change \/ \E j \in 1 .. Len(call[k].rest) : call[k].rest[j] = c

\* SessionStatusTrue in these terms.
StatusSound ==
    \A s \in Sessions : session[s].status \in {"applied", "rejected"} => Open(s) = {}

ReviewInv ==
    /\ ReviewTypeOK /\ DiskIsReviewed /\ ChangesSound /\ CallsSound
    /\ ListsSound /\ RunsSound /\ StatusSound

ChangeRecords == [file : Files \cup {None}, old : Contents, new : SUBSET Changes,
                  status : Statuses, session : Sessions \cup {None}]
SessionRecords == [status  : {"unknown", "creating", "active", "applied", "partial", "rejected"},
                   changes : Seq(Changes)]
CallRecords == [change : Changes \cup {None}, content : SUBSET Changes, written : BOOLEAN,
                rest : Seq(Changes), session : Sessions \cup {None}, failed : BOOLEAN]

\* The types, each by itself.
DiskOK == disk \in [Files -> Contents]
ChangeOK == change \in [Changes -> ChangeRecords]
WaitingOK == waiting = {c \in Changes : change[c].status = "pending"}
SessionOK == session \in [Sessions -> SessionRecords]
CallOK == call \in [Calls -> CallRecords]
TrackedOK == tracked \subseteq Files /\ leftBehind \subseteq Changes

LEMMA ReviewParts ==
    ReviewInv <=> /\ DiskOK /\ ChangeOK /\ WaitingOK /\ SessionOK /\ CallOK /\ TrackedOK
                  /\ DiskIsReviewed /\ ChangesSound /\ CallsSound
                  /\ ListsSound /\ RunsSound /\ StatusSound
  BY DEF ReviewInv, ReviewTypeOK, DiskOK, ChangeOK, WaitingOK, SessionOK, CallOK, TrackedOK,
         ChangeRecords, SessionRecords, CallRecords

\* The same of the next state.
LEMMA ReviewAssembled ==
    ASSUME DiskOK', ChangeOK', WaitingOK', SessionOK', CallOK', TrackedOK',
           DiskIsReviewed', ChangesSound', CallsSound', ListsSound', RunsSound', StatusSound'
    PROVE  ReviewInv'
<1>1. ReviewTypeOK'
  BY DEF ReviewTypeOK, DiskOK, ChangeOK, WaitingOK, SessionOK, CallOK, TrackedOK,
         ChangeRecords, SessionRecords, CallRecords, Contents, Statuses
<1> QED
  BY <1>1 DEF ReviewInv

LEMMA NoCallIsCall ==
    /\ NoCall \in CallRecords /\ NoCall.change = None /\ NoCall.session = None
    /\ ~NoCall.written
<1>1. << >> \in Seq(Changes) /\ {} \in SUBSET Changes
  OBVIOUS
<1> QED
  BY <1>1 DEF NoCall, CallRecords

LEMMA ReviewInitEstablishes == ReviewInit => ReviewInv
<1> SUFFICES ASSUME ReviewInit PROVE ReviewInv
  OBVIOUS
<1>1. DiskOK /\ DiskIsReviewed
  BY DEF ReviewInit, DiskOK, Contents, DiskIsReviewed
<1>2. ChangeOK
  BY DEF ReviewInit, ChangeOK, ChangeRecords, NoChange, Contents, Statuses
<1>3. WaitingOK /\ TrackedOK /\ ChangesSound
  <2>1. \A c \in Changes : change[c].status = "unknown"
    BY DEF ReviewInit, NoChange
  <2> QED
    BY <2>1 DEF ReviewInit, WaitingOK, TrackedOK, ChangesSound
<1>4. SessionOK /\ \A s \in Sessions : session[s].changes = << >> /\ session[s].status = "unknown"
  <2>1. << >> \in Seq(Changes)
    OBVIOUS
  <2> QED
    BY <2>1 DEF ReviewInit, SessionOK, SessionRecords
<1>5. CallOK /\ CallsSound /\ RunsSound
  BY NoCallIsCall DEF ReviewInit, CallOK, CallsSound, RunsSound
<1>6. ListsSound
  BY <1>4 DEF ReviewInit, ListsSound, NoChange
<1>7. StatusSound
  BY <1>4 DEF StatusSound
<1> QED
  BY <1>1, <1>2, <1>3, <1>4, <1>5, <1>6, <1>7, ReviewParts

-----------------------------------------------------------------------------
(* What the steps of the review write *)

\* No step takes back that a change was added or applied, or puts a change that a
\* file may show out of the accepted ones.
DecisionsStay == \A d \in Changes : (Settled(d) => Settled(d)') /\ (Applied(d) => Applied(d)')
Onward == DecisionsStay /\ \A d \in Changes : Accepted(d) => Accepted(d)'

\* A step that ends no write.
LEMMA NoWriteEnds ==
    ASSUME DecisionsStay, leftBehind' = leftBehind,
           \A k \in Calls : call[k].written => call'[k].written /\ call'[k].change = call[k].change
    PROVE  Onward
  BY DEF Onward, DecisionsStay, Accepted, Applied

\* A step in which k ends its write, with its change applied or left behind.
LEMMA OneWriteEnds ==
    ASSUME DecisionsStay, NEW k \in Calls, \A j \in Calls \ {k} : call'[j] = call[j],
           \A d \in leftBehind : change'[d].status = "applied" \/ d \in leftBehind',
           call[k].written => \/ change'[call[k].change].status = "applied"
                              \/ call[k].change \in leftBehind'
    PROVE  Onward
  BY DEF Onward, DecisionsStay, Accepted, Applied

\* What was reviewed stays reviewed.
LEMMA ReviewedStays ==
    ASSUME NEW x \in Contents, Reviewed(x), Onward
    PROVE  Reviewed(x)'
  BY DEF Reviewed, Contents, Onward

\* Some changes get the status st, rejected or applied, and keep everything else.
Decides(D, st) ==
    /\ D \subseteq Changes
    /\ \/ st = "applied" /\ \A c \in D : change[c].status \notin {"unknown", "reading"}
       \/ st = "rejected" /\ \A c \in D : change[c].status = "pending"
    /\ change' = [c \in Changes |-> IF c \in D THEN [change[c] EXCEPT !.status = st] ELSE change[c]]

LEMMA DecidesFacts ==
    ASSUME ChangeOK, NEW D, NEW st, Decides(D, st)
    PROVE  /\ ChangeOK'
           /\ \A c \in Changes :
                 /\ change'[c].file = change[c].file /\ change'[c].old = change[c].old
                 /\ change'[c].new = change[c].new /\ change'[c].session = change[c].session
                 /\ change'[c].status = IF c \in D THEN st ELSE change[c].status
           /\ DecisionsStay
<1>1. st \in Statuses
  BY DEF Decides, Statuses
<1>2. \A c \in Changes : change[c] \in ChangeRecords
  BY DEF ChangeOK
<1>3. \A c \in Changes : [change[c] EXCEPT !.status = st] \in ChangeRecords
  BY <1>1, <1>2 DEF ChangeRecords
<1>4. ChangeOK'
  BY <1>2, <1>3 DEF Decides, ChangeOK, ChangeRecords, Contents, Statuses
<1>5. \A c \in Changes :
         /\ change'[c].file = change[c].file /\ change'[c].old = change[c].old
         /\ change'[c].new = change[c].new /\ change'[c].session = change[c].session
         /\ change'[c].status = IF c \in D THEN st ELSE change[c].status
  BY <1>2 DEF Decides, ChangeRecords
<1>6. DecisionsStay
  BY <1>5 DEF Decides, Applied, Settled, DecisionsStay
<1> QED
  BY <1>4, <1>5, <1>6

\* What a decision keeps of the invariant while the sessions stay as they are, or
\* change their status between registered ones.
LEMMA DecidesKeeps ==
    ASSUME ReviewInv, NEW D, NEW st, Decides(D, st), Onward, \A s \in Sessions :
              /\ session'[s].changes = session[s].changes
              /\ session'[s].status = session[s].status \/ (Registered(s) /\ Registered(s)')
    PROVE  /\ ChangeOK' /\ ChangesSound' /\ ListsSound'
           /\ \A s \in Sessions : Open(s)' = Open(s) \ D
<1>1. /\ ChangeOK /\ ChangesSound /\ ListsSound /\ SessionOK
  BY ReviewParts
<1>2. /\ ChangeOK'
      /\ \A c \in Changes :
            /\ change'[c].file = change[c].file /\ change'[c].old = change[c].old
            /\ change'[c].new = change[c].new /\ change'[c].session = change[c].session
            /\ change'[c].status = IF c \in D THEN st ELSE change[c].status
  BY <1>1, DecidesFacts
<1>3. \A c \in Changes : /\ change[c].old \in Contents /\ change[c].new \in SUBSET Changes
                         /\ change[c].session \in Sessions \cup {None}
  BY <1>1 DEF ChangeOK, ChangeRecords
<1>4. ASSUME NEW c \in Changes, change'[c].status # "unknown"
      PROVE  /\ change'[c].file \in Files
             /\ Reviewed(change[c].old)'
             /\ \A d \in change'[c].new : d = c \/ Accepted(d)'
  <2>1. change[c].status # "unknown"
    BY <1>2, <1>4 DEF Decides
  <2>2. /\ change[c].file \in Files /\ Reviewed(change[c].old)
        /\ \A d \in change[c].new : d = c \/ Accepted(d)
    BY <1>1, <2>1 DEF ChangesSound
  <2>3. Reviewed(change[c].old)'
    BY <1>2, <1>3, <2>2, ReviewedStays
  <2>4. \A d \in change'[c].new : d = c \/ Accepted(d)'
    BY <1>2, <1>3, <2>2 DEF Onward
  <2> QED
    BY <1>2, <2>2, <2>3, <2>4
<1>5. ChangesSound'
  BY <1>4 DEF ChangesSound
<1>6. ListsSound'
  <2>1. \A s \in Sessions : session[s].changes \in Seq(Changes)
    BY <1>1 DEF SessionOK, SessionRecords
  <2>2. \A s \in Sessions : \A i \in 1 .. Len(session[s].changes) : session[s].changes[i] \in Changes
    BY <2>1, ElementOfSeq
  <2>3. ASSUME NEW c \in Changes, change'[c].status = "reading", change'[c].session # None
        PROVE  session'[change'[c].session].status = "creating"
    <3>1. change[c].status = "reading" /\ change[c].session # None
      BY <1>2, <2>3 DEF Decides
    <3>2. session[change[c].session].status = "creating" /\ change[c].session \in Sessions
      BY <1>1, <1>3, <3>1 DEF ListsSound
    <3> QED
      BY <1>2, <3>2 DEF Registered
  <2>4. \A s \in Sessions : \A i \in 1 .. Len(session'[s].changes) :
           /\ change'[session'[s].changes[i]].session = s
           /\ Settled(session[s].changes[i])'
    <3> TAKE s \in Sessions
    <3>1. session'[s].changes = session[s].changes
      OBVIOUS
    <3> TAKE i \in 1 .. Len(session'[s].changes)
    <3> DEFINE c == session[s].changes[i]
    <3>2. c \in Changes /\ change[c].session = s /\ Settled(c)
      BY <1>1, <2>2, <3>1 DEF ListsSound
    <3> HIDE DEF c
    <3>3. change'[c].session = s /\ change'[c].status \notin {"unknown", "reading"}
      BY <1>2, <3>2 DEF Settled, Decides
    <3> QED
      BY <3>1, <3>3 DEF c, Settled
  <2> QED
    BY <2>3, <2>4 DEF ListsSound
<1>7. \A s \in Sessions : Open(s)' = Open(s) \ D
  <2>1. \A c \in Changes : change'[c].status = "pending" <=> change[c].status = "pending" /\ c \notin D
    BY <1>2 DEF Decides
  <2> QED
    BY <2>1 DEF Open
<1> QED
  BY <1>2, <1>5, <1>6, <1>7

\* What the disk shows stays reviewed where it is not written.
LEMMA DiskStays ==
    ASSUME DiskOK, DiskIsReviewed, Onward, disk' = disk
    PROVE  DiskOK' /\ DiskIsReviewed'
  BY DEF DiskOK, DiskIsReviewed, Onward, Applied, Contents

\* The other calls stay as they are, and k does not write or is sound.
LEMMA OtherCallsStay ==
    ASSUME CallOK, CallsSound, Onward, NEW k \in Calls, \A j \in Calls \ {k} : call'[j] = call[j],
           call'[k].change # None =>
              /\ Settled(call[k].change)'
              /\ \A d \in call'[k].content : d = call'[k].change \/ Accepted(d)'
    PROVE  CallsSound'
<1>1. \A j \in Calls : call[j].change \in Changes \cup {None} /\ call[j].content \in SUBSET Changes
  BY DEF CallOK, CallRecords
<1>2. ASSUME NEW j \in Calls \ {k}, call[j].change # None
      PROVE  /\ change'[call[j].change].status \notin {"unknown", "reading"}
             /\ \A d \in call[j].content : d = call[j].change \/ Accepted(d)'
  <2>1. /\ Settled(call[j].change) /\ call[j].change \in Changes
        /\ \A d \in call[j].content : d = call[j].change \/ Accepted(d)
    BY <1>1, <1>2 DEF CallsSound
  <2> QED
    BY <1>1, <2>1 DEF Onward, DecisionsStay, Settled
<1> QED
  BY <1>2 DEF CallsSound, Settled

LEMMA CallsStay ==
    ASSUME CallOK, CallsSound, Onward, call' = call
    PROVE  CallOK' /\ CallsSound'
<1>1. CallOK'
  BY DEF CallOK
<1>2. \A k \in Calls : call[k].change \in Changes \cup {None} /\ call[k].content \in SUBSET Changes
  BY DEF CallOK, CallRecords
<1>3. ASSUME NEW k \in Calls, call[k].change # None
      PROVE  /\ change'[call[k].change].status \notin {"unknown", "reading"}
             /\ \A d \in call[k].content : d = call[k].change \/ Accepted(d)'
  <2>1. /\ Settled(call[k].change) /\ call[k].change \in Changes
        /\ \A d \in call[k].content : d = call[k].change \/ Accepted(d)
    BY <1>2, <1>3 DEF CallsSound
  <2> QED
    BY <1>2, <2>1 DEF Onward, DecisionsStay, Settled
<1>4. CallsSound'
  BY <1>3 DEF CallsSound, Settled
<1> QED
  BY <1>1, <1>4

\* A session that was registered stays so, and nothing opens in it any more.
NothingOpens == \A s \in Sessions : Registered(s) => Registered(s)' /\ Open(s)' \subseteq Open(s)

LEMMA RunsStay ==
    ASSUME CallOK, RunsSound, NothingOpens,
           \A k \in Calls : call'[k].session # None => call'[k] = call[k]
    PROVE  RunsSound'
<1> SUFFICES ASSUME NEW k \in Calls, call'[k].session # None
             PROVE  /\ Registered(call[k].session)'
                    /\ ~call[k].failed => \A c \in Open(call[k].session)' :
                          c = call[k].change \/ \E j \in 1 .. Len(call[k].rest) : call[k].rest[j] = c
  BY DEF RunsSound
<1>1. call[k].session # None /\ call[k].session \in Sessions
  BY DEF CallOK, CallRecords
<1> QED
  BY <1>1 DEF RunsSound, NothingOpens

LEMMA StatusStays ==
    ASSUME StatusSound, NothingOpens,
           \A s \in Sessions : session'[s].status \in {"applied", "rejected"} =>
                                   session'[s].status = session[s].status
    PROVE  StatusSound'
<1> SUFFICES ASSUME NEW s \in Sessions, session'[s].status \in {"applied", "rejected"}
             PROVE  Open(s)' = {}
  BY DEF StatusSound
<1>1. session[s].status \in {"applied", "rejected"} /\ Registered(s)
  BY DEF Registered
<1> QED
  BY <1>1 DEF StatusSound, NothingOpens

-----------------------------------------------------------------------------
(* A session goes on *)

\* Whoever goes on with a session, it was registered and keeps its changes.
SessionsAlike ==
    \A s \in Sessions :
        /\ session'[s].changes = session[s].changes
        /\ session'[s].status = session[s].status \/ (Registered(s) /\ Registered(s)')

LEMMA NextOfSessionAlike ==
    ASSUME SessionOK, NEW k, NEW s \in Sessions, NEW rest, NEW failed \in BOOLEAN, NEW mayApply,
           Registered(s), NextOfSession(k, s, rest, failed, mayApply)
    PROVE  SessionOK' /\ SessionsAlike
<1>1. CASE session' = session
  <2>1. SessionOK'
    BY <1>1 DEF SessionOK
  <2> QED
    BY <1>1, <2>1 DEF SessionsAlike
<1>2. CASE SessionApplied(s, failed)
  <2> DEFINE st == IF failed THEN "partial" ELSE "applied"
  <2>1. session' = [session EXCEPT ![s] = [session[s] EXCEPT !.status = st]]
    BY <1>2 DEF SessionApplied
  <2>2. st \in {"partial", "applied"}
    OBVIOUS
  <2> HIDE DEF st
  <2>3. [session[s] EXCEPT !.status = st] \in SessionRecords
    BY <2>2 DEF SessionOK, SessionRecords
  <2>4. SessionOK'
    BY <2>1, <2>3 DEF SessionOK, SessionRecords
  <2>5. \A t \in Sessions : /\ session'[t].changes = session[t].changes
                            /\ session'[t].status = IF t = s THEN st ELSE session[t].status
    BY <2>1 DEF SessionOK, SessionRecords
  <2>6. SessionsAlike
    <3> SUFFICES ASSUME NEW t \in Sessions
                 PROVE  session'[t].status = session[t].status \/ (Registered(t) /\ Registered(t)')
      BY <2>5 DEF SessionsAlike
    <3> QED
      BY <2>2, <2>5 DEF Registered
  <2> QED
    BY <2>4, <2>6
<1> QED
  BY <1>1, <1>2 DEF NextOfSession

\* applySession goes on after its call decided the changes D: if nothing failed it
\* is reported applied only with no change left to review.
LEMMA NextOfSessionKeeps ==
    ASSUME ReviewInv, NEW k \in Calls, NEW s \in Sessions, NEW rest \in Seq(Changes),
           NEW failed \in BOOLEAN, NEW D, NEW mayApply, Registered(s),
           NextOfSession(k, s, rest, failed, mayApply),
           mayApply = {c \in Changes : change[c].status = "pending"} \ D,
           Onward, \A t \in Sessions : Open(t)' = Open(t) \ D,
           ~failed => \A c \in Open(s) \ D : \E j \in 1 .. Len(rest) : rest[j] = c
    PROVE  CallOK' /\ CallsSound' /\ RunsSound' /\ StatusSound'
<1>1. /\ CallOK /\ CallsSound /\ RunsSound /\ StatusSound /\ SessionOK /\ ChangesSound /\ ChangeOK
  BY ReviewParts
<1>2. SessionOK' /\ SessionsAlike
  BY <1>1, NextOfSessionAlike
<1>3. \A c \in Open(s) \ D : c \in mayApply
  BY DEF Open
<1>4. NothingOpens
  BY <1>2 DEF NothingOpens, SessionsAlike, Registered
<1>5. \A t \in Sessions : t # s => session'[t].status = session[t].status
  BY <1>1 DEF NextOfSession, SessionApplied, SessionOK, SessionRecords
<1>6. CASE /\ \A i \in 1 .. Len(rest) : rest[i] \notin mayApply
           /\ call' = [call EXCEPT ![k] = NoCall]
           /\ SessionApplied(s, failed)
  <2>1. CallOK' /\ call'[k] = NoCall /\ \A j \in Calls \ {k} : call'[j] = call[j]
    BY <1>1, <1>6, NoCallIsCall DEF CallOK
  <2>2. CallsSound'
    BY <1>1, <2>1, NoCallIsCall, OtherCallsStay
  <2>3. RunsSound'
    BY <1>1, <1>4, <2>1, NoCallIsCall, RunsStay
  <2>4. StatusSound'
    <3> SUFFICES ASSUME NEW t \in Sessions, session'[t].status \in {"applied", "rejected"}
                 PROVE  Open(t)' = {}
      BY DEF StatusSound
    <3>1. CASE t # s
      BY <1>1, <1>5, <3>1 DEF StatusSound
    <3>2. CASE t = s
      <4>1. ~failed
        BY <1>1, <1>6, <3>2 DEF SessionApplied, SessionOK, SessionRecords
      <4> QED
        BY <1>3, <1>6, <3>2, <4>1
    <3> QED
      BY <3>1, <3>2
  <2> QED
    BY <2>1, <2>2, <2>3, <2>4
<1>7. ASSUME NEW i \in 1 .. Len(rest),
             rest[i] \in mayApply, \A j \in 1 .. i - 1 : rest[j] \notin mayApply,
             call' = [call EXCEPT ![k] = [change |-> rest[i], content |-> change[rest[i]].new,
                                          written |-> FALSE, rest |-> SubSeq(rest, i + 1, Len(rest)),
                                          session |-> s, failed |-> failed]],
             session' = session
      PROVE  CallOK' /\ CallsSound' /\ RunsSound' /\ StatusSound'
  <2> DEFINE c == rest[i]
             left == SubSeq(rest, i + 1, Len(rest))
             next == [change |-> c, content |-> change[c].new, written |-> FALSE, rest |-> left,
                      session |-> s, failed |-> failed]
  <2>1. c \in Changes /\ change[c].status = "pending" /\ Settled(c)
    BY <1>7 DEF Settled
  <2>2. /\ left \in Seq(Changes) /\ Len(left) = Len(rest) - i
        /\ \A j \in 1 .. Len(rest) - i : left[j] = rest[j + i]
    <3>1. i \in 0 .. Len(rest)
      BY LenProperties
    <3> QED
      BY <3>1, DropFront
  <2>3. next \in CallRecords
    BY <1>1, <2>1, <2>2 DEF CallRecords, ChangeOK, ChangeRecords
  <2>4. call' = [call EXCEPT ![k] = next]
    BY <1>7
  <2>5. next.change = c /\ next.content = change[c].new /\ next.rest = left
        /\ next.session = s /\ next.failed = failed
    OBVIOUS
  <2> HIDE DEF next, left
  <2>6. CallOK' /\ call'[k] = next /\ \A j \in Calls \ {k} : call'[j] = call[j]
    BY <1>1, <2>3, <2>4 DEF CallOK
  <2>7. CallsSound'
    <3>1. \A d \in change[c].new : d = c \/ Accepted(d)
      BY <1>1, <2>1 DEF ChangesSound
    <3>2. change[c].new \in SUBSET Changes
      BY <1>1, <2>1 DEF ChangeOK, ChangeRecords
    <3>3. Settled(c)' /\ \A d \in change[c].new : d = c \/ Accepted(d)'
      BY <2>1, <3>1, <3>2 DEF Onward, DecisionsStay
    <3> QED
      BY <1>1, <2>5, <2>6, <3>3, OtherCallsStay
  <2>8. RunsSound'
    <3>1. ASSUME NEW j \in Calls \ {k}, call'[j].session # None
          PROVE  /\ Registered(call[j].session)'
                 /\ ~call[j].failed => \A d \in Open(call[j].session)' :
                      d = call[j].change \/ \E n \in 1 .. Len(call[j].rest) : call[j].rest[n] = d
      <4>1. call[j].session # None /\ call[j].session \in Sessions
        BY <1>1, <2>6, <3>1 DEF CallOK, CallRecords
      <4>2. /\ Registered(call[j].session)
            /\ ~call[j].failed => \A d \in Open(call[j].session) :
                 d = call[j].change \/ \E n \in 1 .. Len(call[j].rest) : call[j].rest[n] = d
        BY <1>1, <4>1 DEF RunsSound
      <4>3. \A t \in Sessions : Registered(t) => Registered(t)' /\ Open(t)' \subseteq Open(t)
        BY <1>4 DEF NothingOpens
      <4> QED
        BY <2>6, <4>1, <4>2, <4>3
    <3>2. Registered(s)'
      BY <1>7 DEF Registered
    <3>3. ASSUME ~failed, NEW d \in Open(s)'
          PROVE  d = c \/ \E n \in 1 .. Len(left) : left[n] = d
      <4>1. d \in Open(s) \ D /\ d \in mayApply
        BY <1>3, <3>3
      <4>2. PICK j \in 1 .. Len(rest) : rest[j] = d
        BY <3>3, <4>1
      <4>3. j >= i
        BY <1>7, <4>1, <4>2, LenProperties
      <4>4. CASE j = i
        BY <4>2, <4>4
      <4>5. CASE j > i
        <5>1. j - i \in 1 .. Len(left) /\ (j - i) + i = j /\ j - i \in 1 .. Len(rest) - i
          BY <2>2, <4>2, <4>5, LenProperties
        <5> QED
          BY <2>2, <4>2, <5>1
      <4> QED
        BY <4>3, <4>4, <4>5, LenProperties
    <3>4. /\ call'[k].session = s /\ call'[k].failed = failed
          /\ call'[k].change = c /\ call'[k].rest = left
      BY <2>5, <2>6
    <3>5. ASSUME NEW j \in Calls, call'[j].session # None
          PROVE  /\ Registered(call[j].session)'
                 /\ ~call'[j].failed => \A d \in Open(call[j].session)' :
                      d = call'[j].change \/ \E n \in 1 .. Len(call'[j].rest) : call'[j].rest[n] = d
      <4>1. CASE j # k
        BY <2>6, <3>1, <3>5, <4>1
      <4>2. CASE j = k
        BY <3>2, <3>3, <3>4, <4>2
      <4> QED
        BY <4>1, <4>2
    <3> QED
      BY <3>5 DEF RunsSound
  <2>9. StatusSound'
    BY <1>1, <1>4, <1>7, StatusStays
  <2> QED
    BY <2>6, <2>7, <2>8, <2>9
<1> QED
  BY <1>6, <1>7 DEF NextOfSession

LEMMA GoOnAlike ==
    ASSUME ReviewInv, NEW k \in Calls, NEW failed \in BOOLEAN, NEW mayApply, GoOn(k, failed, mayApply)
    PROVE  SessionOK' /\ SessionsAlike
<1>1. SessionOK /\ CallOK /\ RunsSound
  BY ReviewParts
<1>2. CASE call[k].session = None
  <2>1. session' = session
    BY <1>2 DEF GoOn
  <2>2. SessionOK'
    BY <1>1, <2>1 DEF SessionOK
  <2> QED
    BY <2>1, <2>2 DEF SessionsAlike
<1>3. CASE call[k].session # None
  <2>1. call[k].session \in Sessions /\ Registered(call[k].session)
    BY <1>1, <1>3 DEF CallOK, CallRecords, RunsSound
  <2>2. (call[k].failed \/ failed) \in BOOLEAN
    OBVIOUS
  <2>3. NextOfSession(k, call[k].session, call[k].rest, call[k].failed \/ failed, mayApply)
    BY <1>3 DEF GoOn
  <2> QED
    BY <1>1, <2>1, <2>2, <2>3, NextOfSessionAlike
<1> QED
  BY <1>2, <1>3

\* Only the call itself goes on.
LEMMA GoOnTouches ==
    ASSUME CallOK, NEW k \in Calls, NEW failed, NEW mayApply, GoOn(k, failed, mayApply)
    PROVE  \A j \in Calls \ {k} : call'[j] = call[j]
  BY DEF GoOn, NextOfSession, CallOK

LEMMA GoOnKeeps ==
    ASSUME ReviewInv, NEW k \in Calls, NEW failed \in BOOLEAN, NEW D, NEW mayApply,
           call[k].change # None, GoOn(k, failed, mayApply),
           mayApply = {c \in Changes : change[c].status = "pending"} \ D,
           Onward, \A t \in Sessions : Open(t)' = Open(t) \ D,
           ~failed => call[k].change \in D
    PROVE  CallOK' /\ CallsSound' /\ RunsSound' /\ StatusSound'
<1>1. CallOK /\ CallsSound /\ RunsSound /\ StatusSound
  BY ReviewParts
<1>2. CASE call[k].session = None
  <2>1. session' = session /\ call' = [call EXCEPT ![k] = NoCall]
    BY <1>2 DEF GoOn
  <2>2. CallOK' /\ call'[k] = NoCall /\ \A j \in Calls \ {k} : call'[j] = call[j]
    BY <1>1, <2>1, NoCallIsCall DEF CallOK
  <2>3. CallsSound'
    BY <1>1, <2>2, NoCallIsCall, OtherCallsStay
  <2>4. NothingOpens
    BY <2>1 DEF NothingOpens, Registered
  <2>5. RunsSound' /\ StatusSound'
    BY <1>1, <2>1, <2>2, <2>4, NoCallIsCall, RunsStay, StatusStays
  <2> QED
    BY <2>2, <2>3, <2>5
<1>3. CASE call[k].session # None
  <2> DEFINE s == call[k].session
             rest == call[k].rest
             f == call[k].failed \/ failed
  <2>1. s \in Sessions /\ rest \in Seq(Changes) /\ f \in BOOLEAN /\ Registered(s)
    BY <1>1, <1>3 DEF CallOK, CallRecords, RunsSound
  <2>2. NextOfSession(k, s, rest, f, mayApply)
    BY <1>3 DEF GoOn
  <2>3. ~f => \A c \in Open(s) \ D : \E j \in 1 .. Len(rest) : rest[j] = c
    BY <1>1, <1>3 DEF RunsSound
  <2> HIDE DEF s, rest, f
  <2> QED
    BY <2>1, <2>2, <2>3, NextOfSessionKeeps
<1> QED
  BY <1>2, <1>3

\* A call begins its first write.
LEMMA BeginKeeps ==
    ASSUME CallOK, CallsSound, Onward, NEW k \in Calls, NEW c \in Changes, NEW content \in SUBSET Changes,
           Begin(k, c, content), Settled(c)', \A d \in content : d = c \/ Accepted(d)'
    PROVE  /\ CallOK' /\ CallsSound'
           /\ \A j \in Calls : call'[j].session # None => call'[j] = call[j]
<1> DEFINE next == [NoCall EXCEPT !.change = c, !.content = content]
<1>1. next \in CallRecords
  BY NoCallIsCall DEF CallRecords
<1>2. next.change = c /\ next.content = content /\ next.session = None
  BY DEF NoCall
<1>3. call' = [call EXCEPT ![k] = next]
  BY DEF Begin
<1> HIDE DEF next
<1>4. CallOK' /\ call'[k] = next /\ \A j \in Calls \ {k} : call'[j] = call[j]
  BY <1>1, <1>3 DEF CallOK
<1>5. CallsSound'
  BY <1>2, <1>4, OtherCallsStay
<1> QED
  BY <1>2, <1>4, <1>5

-----------------------------------------------------------------------------
(* The steps of the review *)

\* Steps that change nothing of the changes and of the sessions' lists.
LEMMA ChangesStay ==
    ASSUME ReviewInv, change' = change, SessionsAlike, Onward
    PROVE  /\ ChangeOK' /\ ChangesSound' /\ ListsSound'
           /\ \A t \in Sessions : Open(t)' = Open(t)
<1>1. Decides({}, "applied")
  BY ReviewParts DEF Decides, ChangeOK
<1>2. /\ ChangeOK' /\ ChangesSound' /\ ListsSound'
      /\ \A t \in Sessions : Open(t)' = Open(t) \ {}
  BY <1>1, DecidesKeeps DEF SessionsAlike
<1> QED
  BY <1>2

LEMMA FileWrittenKeeps ==
    ASSUME ReviewInv, NEW k \in Calls, FileWritten(k)
    PROVE  ReviewInv' /\ Onward
<1> DEFINE f == change[call[k].change].file
             next == [call[k] EXCEPT !.written = TRUE, !.content = {}]
<1>1. /\ DiskOK /\ ChangeOK /\ WaitingOK /\ SessionOK /\ CallOK /\ TrackedOK
      /\ DiskIsReviewed /\ ChangesSound /\ CallsSound /\ RunsSound /\ StatusSound
  BY ReviewParts
<1>2. PICK c \in Changes :
         /\ c = call[k].change /\ c # None /\ Settled(c)
         /\ call[k].content \in SUBSET Changes /\ \A d \in call[k].content : d = c \/ Accepted(d)
  BY <1>1 DEF FileWritten, CallOK, CallRecords, CallsSound
<1>3. /\ disk' = [disk EXCEPT ![f] = call[k].content]
      /\ call' = [call EXCEPT ![k] = next]
      /\ change' = change /\ waiting' = waiting /\ session' = session
      /\ tracked' = tracked /\ leftBehind' = leftBehind
  BY DEF FileWritten
<1>4. /\ next \in CallRecords /\ next.change = c /\ next.written /\ next.content = {}
      /\ next.session = call[k].session /\ next.rest = call[k].rest /\ next.failed = call[k].failed
  BY <1>1, <1>2 DEF CallOK, CallRecords
<1> HIDE DEF f, next
<1>5. CallOK' /\ call'[k] = next /\ \A j \in Calls \ {k} : call'[j] = call[j]
  BY <1>1, <1>3, <1>4 DEF CallOK
<1>6. Onward
  <2>1. DecisionsStay
    BY <1>3 DEF DecisionsStay, Settled, Applied
  <2>2. \A j \in Calls : call[j].written => call'[j].written /\ call'[j].change = call[j].change
    BY <1>2, <1>4, <1>5
  <2> QED
    BY <1>3, <2>1, <2>2, NoWriteEnds
<1>7. SessionOK' /\ SessionsAlike
  BY <1>1, <1>3 DEF SessionOK, SessionsAlike
<1>8. /\ ChangeOK' /\ ChangesSound' /\ ListsSound'
      /\ \A t \in Sessions : Open(t)' = Open(t)
  BY <1>3, <1>6, <1>7, ChangesStay
<1>9. CallsSound'
  <2>1. Settled(call[k].change)'
    BY <1>2, <1>3, <1>4, <1>5 DEF Settled
  <2> QED
    BY <1>1, <1>4, <1>5, <1>6, <2>1, OtherCallsStay
<1>10. NothingOpens
  BY <1>3, <1>8 DEF NothingOpens, Registered
<1>11. RunsSound'
  <2> SUFFICES ASSUME NEW j \in Calls, call'[j].session # None
               PROVE  /\ Registered(call[j].session)'
                      /\ ~call'[j].failed => \A d \in Open(call[j].session)' :
                            d = call'[j].change \/ \E n \in 1 .. Len(call'[j].rest) : call'[j].rest[n] = d
    BY DEF RunsSound
  <2>1. /\ call'[j].session = call[j].session /\ call'[j].change = call[j].change
        /\ call'[j].rest = call[j].rest /\ call'[j].failed = call[j].failed
    BY <1>2, <1>4, <1>5
  <2>2. call[j].session \in Sessions
    BY <1>1, <2>1 DEF CallOK, CallRecords
  <2>3. /\ Registered(call[j].session)
        /\ ~call[j].failed => \A d \in Open(call[j].session) :
              d = call[j].change \/ \E n \in 1 .. Len(call[j].rest) : call[j].rest[n] = d
    BY <1>1, <2>1 DEF RunsSound
  <2> QED
    BY <1>10, <2>1, <2>2, <2>3 DEF NothingOpens
<1>12. StatusSound'
  BY <1>1, <1>3, <1>10, StatusStays
<1>13. DiskOK' /\ DiskIsReviewed'
  <2>1. DiskOK'
    BY <1>1, <1>2, <1>3 DEF DiskOK, Contents
  <2>2. Accepted(c)'
    BY <1>4, <1>5 DEF Accepted
  <2>3. \A d \in Changes : Accepted(d) => Accepted(d)'
    BY <1>6 DEF Onward
  <2>4. \A d \in call[k].content : Accepted(d)'
    BY <1>2, <2>2, <2>3
  <2>5. \A h \in Files : disk'[h] = call[k].content \/ disk'[h] = disk[h]
    BY <1>1, <1>3 DEF DiskOK
  <2>6. ASSUME NEW h \in Files, disk[h] # None, NEW d \in disk[h]
        PROVE  Accepted(d)'
    BY <1>1, <2>3, <2>6 DEF DiskOK, Contents, DiskIsReviewed
  <2> QED
    BY <2>1, <2>4, <2>5, <2>6 DEF DiskIsReviewed
<1>14. WaitingOK' /\ TrackedOK'
  BY <1>1, <1>3 DEF WaitingOK, TrackedOK
<1> QED
  BY <1>5, <1>6, <1>7, <1>8, <1>9, <1>11, <1>12, <1>13, <1>14, ReviewAssembled

LEMMA WrittenKeeps ==
    ASSUME ReviewInv, NEW k \in Calls, Written(k)
    PROVE  ReviewInv' /\ Onward
<1> DEFINE c == call[k].change
<1>1. /\ DiskOK /\ ChangeOK /\ WaitingOK /\ SessionOK /\ CallOK /\ TrackedOK
      /\ DiskIsReviewed /\ CallsSound
  BY ReviewParts
<1>2. c # None /\ c \in Changes /\ Settled(c)
  BY <1>1 DEF Written, CallOK, CallRecords, CallsSound
<1>3. /\ disk' = disk /\ tracked' = tracked
      /\ change' = [change EXCEPT ![c].status = "applied"]
      /\ waiting' = waiting \ {c} /\ leftBehind' = leftBehind \ {c}
      /\ GoOn(k, FALSE, Reviewable \ {c})
  BY DEF Written
<1> HIDE DEF c
<1>4. Decides({c}, "applied")
  BY <1>1, <1>2, <1>3 DEF Decides, ChangeOK, Settled
<1>5. \A d \in Changes : change'[d].status = IF d = c THEN "applied" ELSE change[d].status
  BY <1>1, <1>2, <1>3 DEF ChangeOK, ChangeRecords
<1>6. Onward
  <2>1. DecisionsStay
    BY <1>1, <1>4, DecidesFacts
  <2>2. \A j \in Calls \ {k} : call'[j] = call[j]
    BY <1>1, <1>3, GoOnTouches
  <2>3. change'[call[k].change].status = "applied"
    BY <1>2, <1>5 DEF c
  <2>4. \A d \in leftBehind : change'[d].status = "applied" \/ d \in leftBehind'
    BY <1>2, <1>3, <1>5
  <2> QED
    BY <2>1, <2>2, <2>3, <2>4, OneWriteEnds
<1>7. SessionOK' /\ SessionsAlike
  BY <1>3, GoOnAlike
<1>8. /\ ChangeOK' /\ ChangesSound' /\ ListsSound'
      /\ \A t \in Sessions : Open(t)' = Open(t) \ {c}
  BY <1>4, <1>6, <1>7, DecidesKeeps DEF SessionsAlike
<1>9. Reviewable \ {c} = {d \in Changes : change[d].status = "pending"} \ {c}
  BY <1>1 DEF Reviewable, WaitingOK
<1>10. CallOK' /\ CallsSound' /\ RunsSound' /\ StatusSound'
  BY <1>2, <1>3, <1>6, <1>8, <1>9, GoOnKeeps DEF c
<1>11. WaitingOK'
  BY <1>1, <1>3, <1>5 DEF WaitingOK
<1>12. DiskOK' /\ DiskIsReviewed'
  BY <1>1, <1>3, <1>6, DiskStays
<1>13. TrackedOK'
  BY <1>1, <1>3 DEF TrackedOK
<1> QED
  BY <1>6, <1>7, <1>8, <1>10, <1>11, <1>12, <1>13, ReviewAssembled

LEMMA WriteFailsKeeps ==
    ASSUME ReviewInv, NEW k \in Calls, WriteFails(k)
    PROVE  ReviewInv' /\ Onward
<1>1. DiskOK /\ WaitingOK /\ TrackedOK /\ DiskIsReviewed /\ CallOK
  BY ReviewParts
<1>2. /\ call[k].change # None /\ GoOn(k, TRUE, Reviewable)
      /\ disk' = disk /\ change' = change /\ waiting' = waiting /\ tracked' = tracked
      /\ leftBehind' = IF call[k].written /\ change[call[k].change].status # "applied"
                       THEN leftBehind \cup {call[k].change} ELSE leftBehind
  BY DEF WriteFails
<1>3. SessionOK' /\ SessionsAlike
  BY <1>2, GoOnAlike
<1>4. Onward
  <2>1. DecisionsStay
    BY <1>2 DEF DecisionsStay, Settled, Applied
  <2>2. \A j \in Calls \ {k} : call'[j] = call[j]
    BY <1>1, <1>2, GoOnTouches
  <2>3. \A d \in leftBehind : d \in leftBehind'
    BY <1>2
  <2>4. call[k].written => \/ change'[call[k].change].status = "applied"
                           \/ call[k].change \in leftBehind'
    BY <1>2
  <2> QED
    BY <2>1, <2>2, <2>3, <2>4, OneWriteEnds
<1>5. /\ ChangeOK' /\ ChangesSound' /\ ListsSound'
      /\ \A t \in Sessions : Open(t)' = Open(t)
  BY <1>2, <1>3, <1>4, ChangesStay
<1>6. Reviewable = {d \in Changes : change[d].status = "pending"} \ {}
  BY <1>1 DEF Reviewable, WaitingOK
<1>7. \A t \in Sessions : Open(t)' = Open(t) \ {}
  BY <1>5
<1>8. CallOK' /\ CallsSound' /\ RunsSound' /\ StatusSound'
  BY <1>2, <1>4, <1>6, <1>7, GoOnKeeps
<1>9. DiskOK' /\ DiskIsReviewed' /\ WaitingOK'
  BY <1>1, <1>2, <1>4, DiskStays DEF WaitingOK
<1>10. TrackedOK'
  BY <1>1, <1>2 DEF TrackedOK, CallOK, CallRecords
<1> QED
  BY <1>3, <1>4, <1>5, <1>8, <1>9, <1>10, ReviewAssembled

LEMMA ListedIsChange ==
    ASSUME SessionOK, NEW s \in Sessions, NEW i \in 1 .. Len(session[s].changes)
    PROVE  session[s].changes[i] \in Changes
<1>1. session[s].changes \in Seq(Changes)
  BY DEF SessionOK, SessionRecords
<1> QED
  BY <1>1, ElementOfSeq

LEMMA ProposeKeeps ==
    ASSUME ReviewInv, NEW c \in Changes, NEW f \in Files, NEW s \in Sessions \cup {None},
           Propose(c, f, s)
    PROVE  ReviewInv' /\ Onward
<1>1. /\ DiskOK /\ ChangeOK /\ WaitingOK /\ SessionOK /\ CallOK /\ TrackedOK
      /\ DiskIsReviewed /\ ChangesSound /\ CallsSound /\ ListsSound /\ RunsSound /\ StatusSound
  BY ReviewParts
<1>2. PICK new \in {{c}} \cup (IF disk[f] = None THEN {} ELSE {disk[f] \cup {c}}) :
         change' = [change EXCEPT ![c] = [file |-> f, old |-> None, new |-> new,
                                          status |-> "reading", session |-> s]]
  BY DEF Propose
<1>3. /\ change[c].status = "unknown"
      /\ s # None => session[s].status \in {"unknown", "creating"}
      /\ session' = IF s = None THEN session ELSE [session EXCEPT ![s].status = "creating"]
      /\ disk' = disk /\ waiting' = waiting /\ call' = call
      /\ tracked' = tracked /\ leftBehind' = leftBehind
  BY DEF Propose
<1>4. new \in SUBSET Changes /\ \A d \in new : d = c \/ Accepted(d)
  BY <1>1, <1>2 DEF DiskOK, Contents, DiskIsReviewed, Applied
<1> DEFINE r == [file |-> f, old |-> None, new |-> new, status |-> "reading", session |-> s]
<1>5. /\ r \in ChangeRecords /\ r.file = f /\ r.old = None /\ r.new = new
      /\ r.status = "reading" /\ r.session = s
  BY <1>4 DEF ChangeRecords, Contents, Statuses
<1>6. change' = [change EXCEPT ![c] = r]
  BY <1>2
<1> HIDE DEF r
<1>7. ChangeOK' /\ change'[c] = r /\ \A d \in Changes \ {c} : change'[d] = change[d]
  BY <1>1, <1>5, <1>6 DEF ChangeOK
<1>8. Onward
  <2>1. DecisionsStay
    BY <1>3, <1>7 DEF DecisionsStay, Settled, Applied
  <2> QED
    BY <1>3, <2>1, NoWriteEnds
<1>9. \A d \in Changes : change[d].new \in SUBSET Changes /\ change[d].old \in Contents
  BY <1>1 DEF ChangeOK, ChangeRecords
<1>10. ChangesSound'
  <2>1. ASSUME NEW d \in Changes \ {c}, change[d].status # "unknown"
        PROVE  /\ change[d].file \in Files /\ Reviewed(change[d].old)'
               /\ \A e \in change[d].new : e = d \/ Accepted(e)'
    <3>1. /\ change[d].file \in Files /\ Reviewed(change[d].old)
          /\ \A e \in change[d].new : e = d \/ Accepted(e)
      BY <1>1, <2>1 DEF ChangesSound
    <3>2. Reviewed(change[d].old)'
      BY <1>7, <1>8, <1>9, <3>1 DEF Reviewed, Contents, Onward
    <3> QED
      BY <1>8, <1>9, <3>1, <3>2 DEF Onward
  <2>2. \A d \in new : d = c \/ Accepted(d)'
    BY <1>4, <1>8 DEF Onward
  <2> QED
    BY <1>5, <1>7, <2>1, <2>2 DEF ChangesSound, Reviewed
<1>11. SessionOK' /\ \A t \in Sessions :
          /\ session'[t].changes = session[t].changes
          /\ session'[t].status = IF t = s THEN "creating" ELSE session[t].status
  <2>1. CASE s = None
    BY <1>1, <1>3, <2>1, ReviewAssumption DEF SessionOK
  <2>2. CASE s # None
    <3>1. s \in Sessions /\ session' = [session EXCEPT ![s] = [session[s] EXCEPT !.status = "creating"]]
      BY <1>3, <2>2
    <3>2. [session[s] EXCEPT !.status = "creating"] \in SessionRecords
      BY <1>1, <3>1 DEF SessionOK, SessionRecords
    <3>3. SessionOK'
      BY <1>1, <3>1, <3>2 DEF SessionOK
    <3> QED
      BY <1>1, <3>1, <3>3 DEF SessionOK, SessionRecords
  <2> QED
    BY <2>1, <2>2
<1>12. ListsSound'
  <2>1. ASSUME NEW d \in Changes, change'[d].status = "reading", change'[d].session # None
        PROVE  session'[change'[d].session].status = "creating"
    <3>1. CASE d = c
      BY <1>5, <1>7, <1>11, <2>1, <3>1
    <3>2. CASE d # c
      <4>1. change[d].session \in Sessions /\ session[change[d].session].status = "creating"
        BY <1>1, <1>7, <2>1, <3>2 DEF ListsSound, ChangeOK, ChangeRecords
      <4> QED
        BY <1>7, <1>11, <3>2, <4>1
    <3> QED
      BY <3>1, <3>2
  <2>2. ASSUME NEW t \in Sessions, NEW i \in 1 .. Len(session[t].changes)
        PROVE  change'[session[t].changes[i]] = change[session[t].changes[i]]
    <3>1. session[t].changes[i] \in Changes /\ Settled(session[t].changes[i])
      BY <1>1, ListedIsChange DEF ListsSound
    <3> QED
      BY <1>3, <1>7, <3>1 DEF Settled
  <2>3. \A t \in Sessions : \A i \in 1 .. Len(session[t].changes) :
           /\ change'[session[t].changes[i]].session = t
           /\ change'[session[t].changes[i]].status \notin {"unknown", "reading"}
    BY <1>1, <2>2 DEF ListsSound, Settled
  <2> QED
    BY <1>11, <2>1, <2>3 DEF ListsSound, Settled
<1>13. NothingOpens
  <2>1. \A t \in Sessions : Registered(t) => Registered(t)'
    BY <1>3, <1>11 DEF Registered
  <2>2. \A d \in Changes : change'[d].status = "pending" => change[d].status = "pending"
    BY <1>5, <1>7
  <2>3. \A t \in Sessions : Open(t)' \subseteq Open(t)
    BY <1>11, <2>2 DEF Open
  <2> QED
    BY <2>1, <2>3 DEF NothingOpens
<1>14. CallOK' /\ CallsSound' /\ RunsSound' /\ StatusSound'
  BY <1>1, <1>3, <1>8, <1>11, <1>13, CallsStay, RunsStay, StatusStays
<1>15. WaitingOK'
  BY <1>1, <1>3, <1>5, <1>7 DEF WaitingOK
<1>16. DiskOK' /\ DiskIsReviewed' /\ TrackedOK'
  BY <1>1, <1>3, <1>8, DiskStays DEF TrackedOK
<1> QED
  BY <1>7, <1>8, <1>10, <1>11, <1>12, <1>14, <1>15, <1>16, ReviewAssembled

LEMMA SessionCreatedKeeps ==
    ASSUME ReviewInv, NEW s \in Sessions, SessionCreated(s)
    PROVE  ReviewInv' /\ Onward
<1>1. /\ DiskOK /\ ChangeOK /\ WaitingOK /\ SessionOK /\ CallOK /\ TrackedOK
      /\ DiskIsReviewed /\ ChangesSound /\ CallsSound /\ ListsSound /\ RunsSound /\ StatusSound
  BY ReviewParts
<1>2. /\ session[s].status = "creating"
      /\ \A c \in Changes : change[c].session = s => change[c].status # "reading"
      /\ session' = [session EXCEPT ![s] = [session[s] EXCEPT !.status = "active"]]
      /\ disk' = disk /\ change' = change /\ waiting' = waiting /\ call' = call
      /\ tracked' = tracked /\ leftBehind' = leftBehind
  BY DEF SessionCreated
<1>3. SessionOK' /\ \A t \in Sessions :
         /\ session'[t].changes = session[t].changes
         /\ session'[t].status = IF t = s THEN "active" ELSE session[t].status
  <2>1. [session[s] EXCEPT !.status = "active"] \in SessionRecords
    BY <1>1 DEF SessionOK, SessionRecords
  <2>2. SessionOK'
    BY <1>1, <1>2, <2>1 DEF SessionOK
  <2> QED
    BY <1>1, <1>2, <2>2 DEF SessionOK, SessionRecords
<1>4. Onward
  <2>1. DecisionsStay
    BY <1>2 DEF DecisionsStay, Settled, Applied
  <2> QED
    BY <1>2, <2>1, NoWriteEnds
<1>5. ChangeOK' /\ WaitingOK' /\ TrackedOK'
  BY <1>1, <1>2 DEF ChangeOK, WaitingOK, TrackedOK
<1>6. ChangesSound'
  <2>1. \A c \in Changes : change[c].new \in SUBSET Changes /\ change[c].old \in Contents
    BY <1>1 DEF ChangeOK, ChangeRecords
  <2>2. \A c \in Changes : Reviewed(change[c].old) => Reviewed(change[c].old)'
    BY <1>2, <1>4, <2>1 DEF Reviewed, Contents, Onward
  <2> QED
    BY <1>1, <1>2, <1>4, <2>1, <2>2 DEF ChangesSound, Onward
<1>7. ListsSound'
  <2>1. \A c \in Changes : change[c].session \in Sessions \cup {None}
    BY <1>1 DEF ChangeOK, ChangeRecords
  <2>2. \A c \in Changes : change[c].status = "reading" /\ change[c].session # None =>
           session'[change[c].session].status = "creating"
    BY <1>1, <1>2, <1>3, <2>1 DEF ListsSound
  <2> QED
    BY <1>1, <1>2, <1>3, <2>2 DEF ListsSound, Settled
<1>8. NothingOpens
  BY <1>2, <1>3 DEF NothingOpens, Registered, Open
<1>9. CallOK' /\ CallsSound' /\ RunsSound' /\ StatusSound'
  BY <1>1, <1>2, <1>3, <1>4, <1>8, CallsStay, RunsStay, StatusStays
<1>10. DiskOK' /\ DiskIsReviewed'
  BY <1>1, <1>2, <1>4, DiskStays
<1> QED
  BY <1>3, <1>4, <1>5, <1>6, <1>7, <1>9, <1>10, ReviewAssembled

\* Applying a change, whole or by its hunks, only begins a call.
LEMMA ApplyKeeps ==
    ASSUME ReviewInv, NEW k \in Calls, NEW c \in Changes, Apply(k, c) \/ ApplyHunks(k, c)
    PROVE  ReviewInv' /\ Onward
<1>1. /\ DiskOK /\ ChangeOK /\ WaitingOK /\ SessionOK /\ CallOK /\ TrackedOK
      /\ DiskIsReviewed /\ ChangesSound /\ CallsSound /\ RunsSound /\ StatusSound
  BY ReviewParts
<1>2. /\ c \in waiting /\ session' = session
      /\ disk' = disk /\ change' = change /\ waiting' = waiting
      /\ tracked' = tracked /\ leftBehind' = leftBehind
  BY DEF Apply, ApplyHunks
<1>3. PICK content : /\ Begin(k, c, content)
                     /\ \/ content = change[c].new
                        \/ change[c].old # None /\ content = change[c].old \cup {c}
  BY DEF Apply, ApplyHunks
<1>4. /\ change[c].status = "pending"
      /\ change[c].new \in SUBSET Changes /\ change[c].old \in Contents
      /\ Reviewed(change[c].old) /\ \A d \in change[c].new : d = c \/ Accepted(d)
  BY <1>1, <1>2 DEF WaitingOK, ChangeOK, ChangeRecords, ChangesSound
<1>5. content \in SUBSET Changes /\ \A d \in content : d = c \/ Accepted(d)
  BY <1>3, <1>4 DEF Contents, Reviewed
<1>6. SessionOK' /\ SessionsAlike
  BY <1>1, <1>2 DEF SessionOK, SessionsAlike
<1>7. Onward
  <2>1. DecisionsStay
    BY <1>2 DEF DecisionsStay, Settled, Applied
  <2>2. ~call[k].written /\ \A j \in Calls \ {k} : call'[j] = call[j]
    BY <1>1, <1>3, NoCallIsCall DEF Begin, CallOK
  <2> QED
    BY <1>2, <2>1, <2>2, NoWriteEnds
<1>8. /\ ChangeOK' /\ ChangesSound' /\ ListsSound'
      /\ \A t \in Sessions : Open(t)' = Open(t)
  BY <1>2, <1>6, <1>7, ChangesStay
<1>9. /\ CallOK' /\ CallsSound'
      /\ \A j \in Calls : call'[j].session # None => call'[j] = call[j]
  <2>1. Settled(c)' /\ \A d \in content : d = c \/ Accepted(d)'
    BY <1>2, <1>4, <1>5, <1>7 DEF Settled, Onward
  <2> QED
    BY <1>1, <1>3, <1>5, <1>7, <2>1, BeginKeeps
<1>10. NothingOpens
  BY <1>2, <1>8 DEF NothingOpens, Registered
<1>11. RunsSound' /\ StatusSound'
  BY <1>1, <1>2, <1>9, <1>10, RunsStay, StatusStays
<1>12. DiskOK' /\ DiskIsReviewed' /\ WaitingOK' /\ TrackedOK'
  BY <1>1, <1>2, <1>7, DiskStays DEF WaitingOK, TrackedOK
<1> QED
  BY <1>6, <1>7, <1>8, <1>9, <1>11, <1>12, ReviewAssembled

LEMMA RejectKeeps ==
    ASSUME ReviewInv, NEW c \in Changes, Reject(c)
    PROVE  ReviewInv' /\ Onward
<1>1. /\ DiskOK /\ ChangeOK /\ WaitingOK /\ SessionOK /\ CallOK /\ TrackedOK
      /\ DiskIsReviewed /\ CallsSound /\ RunsSound /\ StatusSound
  BY ReviewParts
<1>2. /\ c \in waiting /\ waiting' = waiting \ {c} /\ session' = session
      /\ change' = [change EXCEPT ![c].status = "rejected"]
      /\ disk' = disk /\ call' = call /\ tracked' = tracked /\ leftBehind' = leftBehind
  BY DEF Reject
<1>3. Decides({c}, "rejected")
  BY <1>1, <1>2 DEF Decides, WaitingOK, ChangeOK
<1>4. SessionOK' /\ SessionsAlike
  BY <1>1, <1>2 DEF SessionOK, SessionsAlike
<1>5. /\ Onward /\ ChangeOK' /\ ChangesSound' /\ ListsSound'
      /\ \A t \in Sessions : Open(t)' = Open(t) \ {c}
  <2>1. DecisionsStay
    BY <1>1, <1>3, DecidesFacts
  <2>2. Onward
    BY <1>2, <2>1, NoWriteEnds
  <2> QED
    BY <1>3, <1>4, <2>2, DecidesKeeps DEF SessionsAlike
<1>6. NothingOpens
  BY <1>2, <1>5 DEF NothingOpens, Registered
<1>7. CallOK' /\ CallsSound' /\ RunsSound' /\ StatusSound'
  BY <1>1, <1>2, <1>5, <1>6, CallsStay, RunsStay, StatusStays
<1>8. WaitingOK'
  <2>1. \A d \in Changes : change'[d].status = IF d = c THEN "rejected" ELSE change[d].status
    BY <1>1, <1>2 DEF ChangeOK, ChangeRecords
  <2> QED
    BY <1>1, <1>2, <2>1 DEF WaitingOK
<1>9. DiskOK' /\ DiskIsReviewed' /\ TrackedOK'
  BY <1>1, <1>2, <1>5, DiskStays DEF TrackedOK
<1> QED
  BY <1>4, <1>5, <1>7, <1>8, <1>9, ReviewAssembled

LEMMA ApplySessionKeeps ==
    ASSUME ReviewInv, NEW k \in Calls, NEW s \in Sessions, ApplySession(k, s)
    PROVE  ReviewInv' /\ Onward
<1>1. DiskOK /\ WaitingOK /\ TrackedOK /\ DiskIsReviewed /\ SessionOK /\ CallOK
  BY ReviewParts
<1>2. /\ Registered(s) /\ NextOfSession(k, s, session[s].changes, FALSE, Reviewable)
      /\ disk' = disk /\ change' = change /\ waiting' = waiting
      /\ tracked' = tracked /\ leftBehind' = leftBehind /\ call[k] = NoCall
  BY DEF ApplySession
<1>3. session[s].changes \in Seq(Changes)
  BY <1>1 DEF SessionOK, SessionRecords
<1>4. SessionOK' /\ SessionsAlike
  BY <1>1, <1>2, NextOfSessionAlike
<1>5. /\ Onward /\ ChangeOK' /\ ChangesSound' /\ ListsSound'
      /\ \A t \in Sessions : Open(t)' = Open(t) \ {}
  <2>1. DecisionsStay
    BY <1>2 DEF DecisionsStay, Settled, Applied
  <2>2. ~call[k].written /\ \A j \in Calls \ {k} : call'[j] = call[j]
    BY <1>1, <1>2, NoCallIsCall DEF NextOfSession, CallOK
  <2>3. Onward
    BY <1>2, <2>1, <2>2, NoWriteEnds
  <2> QED
    BY <1>2, <1>4, <2>3, ChangesStay
<1>6. Reviewable = {d \in Changes : change[d].status = "pending"} \ {}
  BY <1>1 DEF Reviewable, WaitingOK
<1>7. \A c \in Open(s) \ {} : \E j \in 1 .. Len(session[s].changes) : session[s].changes[j] = c
  BY DEF Open
<1>8. CallOK' /\ CallsSound' /\ RunsSound' /\ StatusSound'
  BY <1>2, <1>3, <1>5, <1>6, <1>7, NextOfSessionKeeps
<1>9. DiskOK' /\ DiskIsReviewed' /\ WaitingOK' /\ TrackedOK'
  BY <1>1, <1>2, <1>5, DiskStays DEF WaitingOK, TrackedOK
<1> QED
  BY <1>4, <1>5, <1>8, <1>9, ReviewAssembled

LEMMA RejectSessionKeeps ==
    ASSUME ReviewInv, NEW s \in Sessions, RejectSession(s)
    PROVE  ReviewInv' /\ Onward
<1> DEFINE gone == {c \in Changes : change[c].session = s /\ c \in Reviewable}
<1>1. /\ DiskOK /\ ChangeOK /\ WaitingOK /\ SessionOK /\ CallOK /\ TrackedOK
      /\ DiskIsReviewed /\ CallsSound /\ ListsSound /\ RunsSound /\ StatusSound
  BY ReviewParts
<1>2. /\ Registered(s) /\ waiting' = waiting \ gone
      /\ change' = [c \in Changes |-> IF c \in gone THEN [change[c] EXCEPT !.status = "rejected"]
                                                    ELSE change[c]]
      /\ session' = [session EXCEPT ![s] = [session[s] EXCEPT !.status = "rejected"]]
      /\ disk' = disk /\ call' = call /\ tracked' = tracked /\ leftBehind' = leftBehind
  BY DEF RejectSession
<1>3. gone \subseteq Changes /\ \A c \in gone : change[c].status = "pending"
  BY DEF Reviewable
<1>4. Open(s) \subseteq gone
  <2> SUFFICES ASSUME NEW c \in Open(s) PROVE c \in gone
    OBVIOUS
  <2>1. c \in Changes /\ change[c].status = "pending"
    BY DEF Open
  <2>2. PICK i \in 1 .. Len(session[s].changes) : session[s].changes[i] = c
    BY DEF Open
  <2> QED
    BY <1>1, <2>1, <2>2 DEF ListsSound, Reviewable, WaitingOK
<1> HIDE DEF gone
<1>5. Decides(gone, "rejected")
  BY <1>2, <1>3 DEF Decides
<1>6. SessionOK' /\ \A t \in Sessions :
         /\ session'[t].changes = session[t].changes
         /\ session'[t].status = IF t = s THEN "rejected" ELSE session[t].status
  <2>1. [session[s] EXCEPT !.status = "rejected"] \in SessionRecords
    BY <1>1 DEF SessionOK, SessionRecords
  <2>2. SessionOK'
    BY <1>1, <1>2, <2>1 DEF SessionOK
  <2> QED
    BY <1>1, <1>2, <2>2 DEF SessionOK, SessionRecords
<1>7. \A t \in Sessions : Registered(t) => Registered(t)'
  BY <1>6 DEF Registered
<1>8. SessionsAlike
  BY <1>2, <1>6, <1>7 DEF SessionsAlike
<1>9. /\ ChangeOK' /\ ChangesSound' /\ ListsSound' /\ Onward
      /\ \A t \in Sessions : Open(t)' = Open(t) \ gone
  <2>1. DecisionsStay
    BY <1>1, <1>5, DecidesFacts
  <2>2. Onward
    BY <1>2, <2>1, NoWriteEnds
  <2> QED
    BY <1>5, <1>8, <2>2, DecidesKeeps DEF SessionsAlike
<1>10. NothingOpens
  BY <1>7, <1>9 DEF NothingOpens
<1>11. CallOK' /\ CallsSound' /\ RunsSound'
  BY <1>1, <1>2, <1>9, <1>10, CallsStay, RunsStay
<1>12. StatusSound'
  <2> SUFFICES ASSUME NEW t \in Sessions, session'[t].status \in {"applied", "rejected"}
               PROVE  Open(t)' = {}
    BY DEF StatusSound
  <2>1. CASE t = s
    BY <1>4, <1>9, <2>1
  <2>2. CASE t # s
    BY <1>1, <1>6, <1>9, <2>2 DEF StatusSound
  <2> QED
    BY <2>1, <2>2
<1>13. WaitingOK'
  <2>1. \A d \in Changes : change'[d].status = IF d \in gone THEN "rejected" ELSE change[d].status
    BY <1>1, <1>5, DecidesFacts
  <2> QED
    BY <1>1, <1>2, <2>1 DEF WaitingOK
<1>14. DiskOK' /\ DiskIsReviewed' /\ TrackedOK'
  BY <1>1, <1>2, <1>9, DiskStays DEF TrackedOK
<1> QED
  BY <1>6, <1>9, <1>11, <1>12, <1>13, <1>14, ReviewAssembled

\* A change that is added opens in no session that was registered.
LEMMA AddedKeeps ==
    ASSUME ReviewInv, NEW c \in Changes, Added(c)
    PROVE  ReviewInv' /\ Onward
<1> DEFINE f == change[c].file
             s == change[c].session
             r == [change[c] EXCEPT !.old = disk[f], !.status = "pending"]
<1>1. /\ DiskOK /\ ChangeOK /\ WaitingOK /\ SessionOK /\ CallOK /\ TrackedOK
      /\ DiskIsReviewed /\ ChangesSound /\ CallsSound /\ ListsSound /\ RunsSound /\ StatusSound
  BY ReviewParts
<1>2. /\ change[c].status = "reading"
      /\ change' = [change EXCEPT ![c] = r]
      /\ waiting' = waiting \cup {c} /\ tracked' = tracked \cup {f}
      /\ disk' = disk /\ leftBehind' = leftBehind
  BY <1>1 DEF Added, ChangeOK, ChangeRecords
<1>3. /\ s = None => /\ session' = session
                     /\ call' = call \/ \E k \in Calls : Begin(k, c, change[c].new)
      /\ s # None => session' = [session EXCEPT ![s].changes = Append(@, c)] /\ call' = call
  BY DEF Added
<1>4. /\ f \in Files /\ s \in Sessions \cup {None} /\ disk[f] \in Contents /\ Reviewed(disk[f])
      /\ change[c].new \in SUBSET Changes /\ \A d \in change[c].new : d = c \/ Accepted(d)
  BY <1>1, <1>2 DEF ChangesSound, ChangeOK, ChangeRecords, DiskOK, DiskIsReviewed, Reviewed, Applied
<1>5. /\ r \in ChangeRecords /\ r.file = f /\ r.old = disk[f] /\ r.new = change[c].new
      /\ r.status = "pending" /\ r.session = s
  <2>1. change[c] \in ChangeRecords
    BY <1>1 DEF ChangeOK
  <2>2. "pending" \in Statuses
    BY DEF Statuses
  <2> QED
    BY <1>4, <2>1, <2>2 DEF ChangeRecords
<1>6. s # None => s \in Sessions /\ session[s].status = "creating"
  BY <1>1, <1>2, <1>4 DEF ListsSound
<1> HIDE DEF r, s, f
<1>7. ChangeOK' /\ change'[c] = r /\ \A d \in Changes \ {c} : change'[d] = change[d]
  BY <1>1, <1>2, <1>5 DEF ChangeOK
<1>8. Onward
  <2>1. DecisionsStay
    BY <1>2, <1>5, <1>7 DEF DecisionsStay, Settled, Applied
  <2>2. \A k \in Calls : call[k].written => call'[k].written /\ call'[k].change = call[k].change
    BY <1>1, <1>3, NoCallIsCall DEF Begin, CallOK
  <2> QED
    BY <1>2, <2>1, <2>2, NoWriteEnds
<1>9. \A d \in Changes : change[d].new \in SUBSET Changes /\ change[d].old \in Contents
  BY <1>1 DEF ChangeOK, ChangeRecords
<1>10. ChangesSound'
  <2>1. ASSUME NEW d \in Changes \ {c}, change[d].status # "unknown"
        PROVE  /\ change[d].file \in Files /\ Reviewed(change[d].old)'
               /\ \A e \in change[d].new : e = d \/ Accepted(e)'
    <3>1. /\ change[d].file \in Files /\ Reviewed(change[d].old)
          /\ \A e \in change[d].new : e = d \/ Accepted(e)
      BY <1>1, <2>1 DEF ChangesSound
    <3>2. Reviewed(change[d].old)'
      BY <1>7, <1>8, <1>9, <3>1 DEF Reviewed, Contents, Onward
    <3> QED
      BY <1>8, <1>9, <3>1, <3>2 DEF Onward
  <2>2. \A d \in change[c].new : d = c \/ Accepted(d)'
    BY <1>4, <1>8 DEF Onward
  <2>3. disk[f] # None => \A d \in disk[f] : Accepted(d)'
    BY <1>4, <1>8 DEF Onward, Reviewed, Contents
  <2>4. ASSUME NEW d \in Changes, change'[d].status # "unknown"
        PROVE  /\ change'[d].file \in Files /\ Reviewed(change[d].old)'
               /\ \A e \in change'[d].new : e = d \/ Accepted(e)'
    <3>1. CASE d = c
      BY <1>4, <1>5, <1>7, <2>2, <2>3, <3>1 DEF Reviewed
    <3>2. CASE d # c
      BY <1>7, <2>1, <2>4, <3>2
    <3> QED
      BY <3>1, <3>2
  <2> QED
    BY <2>4 DEF ChangesSound
<1>11. /\ SessionOK'
       /\ \A t \in Sessions :
             /\ session'[t].status = session[t].status
             /\ t # s => session'[t].changes = session[t].changes
             /\ t = s => session'[t].changes = Append(session[t].changes, c)
  <2>1. CASE s = None
    BY <1>1, <1>3, <2>1, ReviewAssumption DEF SessionOK
  <2>2. CASE s # None
    <3> DEFINE q == [session[s] EXCEPT !.changes = Append(@, c)]
    <3>1. s \in Sessions /\ session' = [session EXCEPT ![s] = q]
      BY <1>3, <1>6, <2>2
    <3>2. session[s].changes \in Seq(Changes) /\ Append(session[s].changes, c) \in Seq(Changes)
      BY <1>1, <3>1 DEF SessionOK, SessionRecords
    <3>3. q \in SessionRecords /\ q.status = session[s].status /\ q.changes = Append(session[s].changes, c)
      BY <1>1, <3>1, <3>2 DEF SessionOK, SessionRecords
    <3> HIDE DEF q
    <3> QED
      BY <1>1, <3>1, <3>3 DEF SessionOK
  <2> QED
    BY <2>1, <2>2
<1>12. ASSUME NEW t \in Sessions, NEW i \in 1 .. Len(session'[t].changes)
       PROVE  \/ t = s /\ session'[t].changes[i] = c
              \/ /\ session'[t].changes[i] \in Changes \ {c} /\ i \in 1 .. Len(session[t].changes)
                 /\ session'[t].changes[i] = session[t].changes[i]
                 /\ change[session[t].changes[i]].session = t /\ Settled(session[t].changes[i])
  <2>1. session[t].changes \in Seq(Changes)
    BY <1>1 DEF SessionOK, SessionRecords
  <2>2. CASE i \in 1 .. Len(session[t].changes) /\ session'[t].changes[i] = session[t].changes[i]
    <3>1. session[t].changes[i] \in Changes /\ Settled(session[t].changes[i])
      BY <1>1, <2>2, ListedIsChange DEF ListsSound
    <3>2. session[t].changes[i] # c
      BY <1>2, <3>1 DEF Settled
    <3> QED
      BY <1>1, <2>2, <3>1, <3>2 DEF ListsSound
  <2>3. CASE t = s
    <3>1. session'[t].changes = Append(session[t].changes, c)
      BY <1>11, <2>3
    <3>2. \/ i \in 1 .. Len(session[t].changes) /\ session'[t].changes[i] = session[t].changes[i]
          \/ session'[t].changes[i] = c
      BY <2>1, <3>1, AppendProperties, LenProperties
    <3> QED
      BY <2>2, <2>3, <3>2
  <2>4. CASE t # s
    BY <1>11, <2>2, <2>4
  <2> QED
    BY <2>3, <2>4
<1>13. ListsSound'
  <2>1. ASSUME NEW d \in Changes, change'[d].status = "reading", change'[d].session # None
        PROVE  session'[change'[d].session].status = "creating"
    <3>1. d # c
      BY <1>5, <1>7, <2>1
    <3>2. change[d].session \in Sessions /\ session[change[d].session].status = "creating"
      BY <1>1, <1>7, <2>1, <3>1 DEF ListsSound, ChangeOK, ChangeRecords
    <3> QED
      BY <1>7, <1>11, <3>1, <3>2
  <2>2. ASSUME NEW t \in Sessions, NEW i \in 1 .. Len(session'[t].changes)
        PROVE  /\ change'[session'[t].changes[i]].session = t
               /\ change'[session'[t].changes[i]].status \notin {"unknown", "reading"}
    BY <1>5, <1>7, <1>12, <2>2 DEF Settled
  <2> QED
    BY <2>1, <2>2 DEF ListsSound, Settled
<1>14. NothingOpens
  <2> SUFFICES ASSUME NEW t \in Sessions, Registered(t)
               PROVE  Registered(t)' /\ Open(t)' \subseteq Open(t)
    BY DEF NothingOpens
  <2>1. Registered(t)'
    BY <1>11 DEF Registered
  <2>2. t # s
    BY <1>6, ReviewAssumption DEF Registered
  <2>3. ASSUME NEW d \in Open(t)'
        PROVE  d \in Open(t)
    <3>1. d \in Changes /\ change'[d].status = "pending"
      BY <2>3 DEF Open
    <3>2. PICK i \in 1 .. Len(session'[t].changes) : session'[t].changes[i] = d
      BY <2>3 DEF Open
    <3>3. d # c /\ i \in 1 .. Len(session[t].changes) /\ session[t].changes[i] = d
      BY <1>12, <2>2, <3>2
    <3> QED
      BY <1>7, <3>1, <3>3 DEF Open
  <2> QED
    BY <2>1, <2>3
<1>15. StatusSound'
  BY <1>1, <1>11, <1>14, StatusStays
<1>16. CallOK' /\ CallsSound' /\ RunsSound'
  <2>1. CASE call' = call
    BY <1>1, <1>8, <1>14, <2>1, CallsStay, RunsStay
  <2>2. CASE \E k \in Calls : Begin(k, c, change[c].new)
    <3>1. PICK k \in Calls : Begin(k, c, change[c].new)
      BY <2>2
    <3>2. Settled(c)' /\ \A d \in change[c].new : d = c \/ Accepted(d)'
      BY <1>4, <1>5, <1>7, <1>8 DEF Settled, Onward, DecisionsStay
    <3> QED
      BY <1>1, <1>4, <1>8, <1>14, <3>1, <3>2, BeginKeeps, RunsStay
  <2> QED
    BY <1>3, <2>1, <2>2
<1>17. WaitingOK' /\ TrackedOK'
  BY <1>1, <1>2, <1>4, <1>5, <1>7 DEF WaitingOK, TrackedOK
<1>18. DiskOK' /\ DiskIsReviewed'
  BY <1>1, <1>2, <1>8, DiskStays
<1> QED
  BY <1>7, <1>8, <1>10, <1>11, <1>13, <1>15, <1>16, <1>17, <1>18, ReviewAssembled

\* Every step of the review.
LEMMA ReviewNextKeeps ==
    ASSUME ReviewInv, ReviewNext
    PROVE  ReviewInv' /\ Onward
<1>1. ASSUME NEW c \in Changes, NEW f \in Files, NEW s \in Sessions \cup {None}, Propose(c, f, s)
      PROVE  ReviewInv' /\ Onward
  BY <1>1, ProposeKeeps
<1>2. ASSUME NEW c \in Changes, Added(c) \/ Reject(c)
      PROVE  ReviewInv' /\ Onward
  BY <1>2, AddedKeeps, RejectKeeps
<1>3. ASSUME NEW c \in Changes, NEW k \in Calls, Apply(k, c) \/ ApplyHunks(k, c)
      PROVE  ReviewInv' /\ Onward
  BY <1>3, ApplyKeeps
<1>4. ASSUME NEW k \in Calls, FileWritten(k) \/ Written(k) \/ WriteFails(k)
      PROVE  ReviewInv' /\ Onward
  BY <1>4, FileWrittenKeeps, WrittenKeeps, WriteFailsKeeps
<1>5. ASSUME NEW k \in Calls, NEW s \in Sessions, ApplySession(k, s)
      PROVE  ReviewInv' /\ Onward
  BY <1>5, ApplySessionKeeps
<1>6. ASSUME NEW s \in Sessions, SessionCreated(s) \/ RejectSession(s)
      PROVE  ReviewInv' /\ Onward
  BY <1>6, SessionCreatedKeeps, RejectSessionKeeps
<1> QED
  BY <1>1, <1>2, <1>3, <1>4, <1>5, <1>6 DEF ReviewNext

-----------------------------------------------------------------------------
(* The inductive invariant of the checkpoints *)

\* A snapshot shows accepted changes only.
FilesReviewed(g) == \A f \in DOMAIN g : Reviewed(g[f])

\* A snapshot has what the files held when it was asked for.
Exact(files, before) == \A f \in DOMAIN before : f \in DOMAIN files /\ files[f] = before[f]

CheckpointSound(c) == FilesReviewed(c.files) /\ Exact(c.files, c.before)

ListedSound == \A i \in 1 .. Len(checkpoints) : CheckpointSound(checkpoints[i])

\* A file that is not read yet is still what it was.
TakingSound ==
    taking # None =>
        /\ FilesReviewed(taking.files)
        /\ \A f \in DOMAIN taking.before :
              IF f \in taking.left THEN disk[f] = taking.before[f]
              ELSE f \in DOMAIN taking.files /\ taking.files[f] = taking.before[f]

\* A file that is written is again what it was.
RevertingSound ==
    reverting # None =>
        /\ reverting.left \subseteq DOMAIN reverting.files
        /\ FilesReviewed(reverting.files) /\ Exact(reverting.files, reverting.before)
        /\ \A f \in DOMAIN reverting.before : f \notin reverting.left => disk[f] = reverting.before[f]

CheckpointRecords == [id : 1 .. MaxStarted, files : Snapshots, before : Snapshots]
Takings == [id : 1 .. MaxStarted, left : SUBSET Files, files : Snapshots, before : Snapshots]
Revertings == [to : 1 .. MaxStarted, left : SUBSET Files, files : Snapshots, before : Snapshots]

ListedOK == checkpoints \in Seq(CheckpointRecords) /\ Len(checkpoints) <= MaxCheckpoints
TakingOK == taking # None => taking \in Takings
RevertingOK == reverting # None => reverting \in Revertings
TakenOK == taken \in 0 .. MaxStarted

IInv ==
    /\ ReviewInv
    /\ ListedOK /\ TakingOK /\ RevertingOK /\ TakenOK
    /\ ListedSound /\ TakingSound /\ RevertingSound

LEMMA NoFilesFacts == NoFiles \in Snapshots /\ DOMAIN NoFiles = {}
<1>1. NoFiles \in [{} -> Contents] /\ {} \in SUBSET Files
  BY DEF NoFiles
<1> QED
  BY <1>1 DEF Snapshots, NoFiles

\* What a snapshot holds, and how one is made.
LEMMA SnapshotFacts ==
    ASSUME NEW g \in Snapshots
    PROVE  DOMAIN g \subseteq Files /\ \A f \in DOMAIN g : g[f] \in Contents
  BY DEF Snapshots

LEMMA SnapshotMade ==
    ASSUME NEW F \in SUBSET Files, NEW g \in [F -> Contents]
    PROVE  g \in Snapshots
  BY DEF Snapshots

LEMMA FilesStayReviewed ==
    ASSUME NEW g \in Snapshots, FilesReviewed(g), Onward
    PROVE  FilesReviewed(g)'
  BY SnapshotFacts, ReviewedStays DEF FilesReviewed

LEMMA InitEstablishes == Init => IInv
<1> SUFFICES ASSUME Init PROVE IInv
  OBVIOUS
<1>1. ReviewInv
  BY ReviewInitEstablishes DEF Init
<1>2. ListedOK /\ ListedSound /\ TakenOK
  <2>1. << >> \in Seq(CheckpointRecords) /\ Len(<< >>) = 0
    OBVIOUS
  <2>2. MaxStarted \in Nat /\ MaxCheckpoints \in Nat
    BY CheckpointAssumption
  <2> QED
    BY <2>1, <2>2 DEF Init, ListedOK, ListedSound, TakenOK
<1>3. TakingOK /\ RevertingOK /\ TakingSound /\ RevertingSound
  BY DEF Init, TakingOK, RevertingOK, TakingSound, RevertingSound
<1> QED
  BY <1>1, <1>2, <1>3 DEF IInv

-----------------------------------------------------------------------------
(* What the steps keep of it *)

LEMMA SoundStays ==
    ASSUME NEW c \in CheckpointRecords, CheckpointSound(c), Onward
    PROVE  CheckpointSound(c)'
<1>1. c.files \in Snapshots
  BY DEF CheckpointRecords
<1> QED
  BY <1>1, FilesStayReviewed DEF CheckpointSound, Exact

\* Every checkpoint of the list comes from the list before.
LEMMA ListedStays ==
    ASSUME ListedOK, ListedSound, Onward, ListedOK',
           \A i \in 1 .. Len(checkpoints') : \E j \in 1 .. Len(checkpoints) :
               checkpoints'[i] = checkpoints[j]
    PROVE  ListedSound'
<1>1. \A j \in 1 .. Len(checkpoints) : checkpoints[j] \in CheckpointRecords
  BY ElementOfSeq DEF ListedOK
<1>2. ASSUME NEW i \in 1 .. Len(checkpoints')
      PROVE  CheckpointSound(checkpoints[i])'
  <2>1. PICK d \in CheckpointRecords : d = checkpoints'[i] /\ CheckpointSound(d)
    BY <1>1 DEF ListedSound
  <2>2. CheckpointSound(d)'
    BY <2>1, SoundStays
  <2> QED
    BY <2>1, <2>2
<1> QED
  BY <1>2 DEF ListedSound

\* A write that is not its own takes from a snapshot what it says of before.
LEMMA TakingStays ==
    ASSUME TakingOK, TakingSound, Onward,
           taking' = Disturbed(taking) \/ (taking' = taking /\ disk' = disk)
    PROVE  TakingOK' /\ TakingSound'
<1>1. CASE taking = None
  BY <1>1 DEF Disturbed, TakingOK, TakingSound
<1>2. CASE taking # None
  <2>1. taking \in Takings /\ taking.files \in Snapshots
    BY <1>2 DEF TakingOK, Takings
  <2>2. FilesReviewed(taking.files)'
    <3>1. \E g \in Snapshots : g = taking.files /\ FilesReviewed(g)
      BY <1>2, <2>1 DEF TakingSound
    <3>2. PICK g \in Snapshots : g = taking'.files /\ FilesReviewed(g)
      BY <1>2, <2>1, <3>1 DEF Disturbed, Takings
    <3>3. FilesReviewed(g)'
      BY <3>2, FilesStayReviewed
    <3> QED
      BY <3>2, <3>3
  <2>3. CASE taking' = Disturbed(taking)
    <3>1. taking' = [taking EXCEPT !.before = NoFiles]
      BY <1>2, <2>3 DEF Disturbed
    <3>2. taking' \in Takings /\ taking'.before = NoFiles
      BY <2>1, <3>1, NoFilesFacts DEF Takings
    <3> QED
      BY <2>2, <3>2, NoFilesFacts DEF TakingOK, TakingSound
  <2>4. CASE taking' = taking /\ disk' = disk
    BY <1>2, <2>1, <2>2, <2>4 DEF TakingOK, TakingSound
  <2> QED
    BY <2>3, <2>4
<1> QED
  BY <1>1, <1>2

LEMMA RevertingStays ==
    ASSUME RevertingOK, RevertingSound, Onward,
           reverting' = Disturbed(reverting) \/ (reverting' = reverting /\ disk' = disk)
    PROVE  RevertingOK' /\ RevertingSound'
<1>1. CASE reverting = None
  BY <1>1 DEF Disturbed, RevertingOK, RevertingSound
<1>2. CASE reverting # None
  <2>1. reverting \in Revertings /\ reverting.files \in Snapshots
    BY <1>2 DEF RevertingOK, Revertings
  <2>2. FilesReviewed(reverting.files)'
    <3>1. \E g \in Snapshots : g = reverting.files /\ FilesReviewed(g)
      BY <1>2, <2>1 DEF RevertingSound
    <3>2. PICK g \in Snapshots : g = reverting'.files /\ FilesReviewed(g)
      BY <1>2, <2>1, <3>1 DEF Disturbed, Revertings
    <3>3. FilesReviewed(g)'
      BY <3>2, FilesStayReviewed
    <3> QED
      BY <3>2, <3>3
  <2>3. CASE reverting' = Disturbed(reverting)
    <3>1. reverting' = [reverting EXCEPT !.before = NoFiles]
      BY <1>2, <2>3 DEF Disturbed
    <3>2. /\ reverting' \in Revertings /\ reverting'.before = NoFiles
          /\ reverting'.left = reverting.left /\ reverting'.files = reverting.files
      BY <2>1, <3>1, NoFilesFacts DEF Revertings
    <3> QED
      BY <1>2, <2>2, <3>2, NoFilesFacts DEF RevertingOK, RevertingSound, Exact
  <2>4. CASE reverting' = reverting /\ disk' = disk
    BY <1>2, <2>1, <2>2, <2>4 DEF RevertingOK, RevertingSound, Exact
  <2> QED
    BY <2>3, <2>4
<1> QED
  BY <1>1, <1>2

\* Steps that leave the review alone keep all of its invariant.
LEMMA ReviewStays ==
    ASSUME ReviewInv, UNCHANGED reviewVars
    PROVE  ReviewInv' /\ Onward
<1>1. Onward
  <2>1. DecisionsStay
    BY DEF reviewVars, DecisionsStay, Settled, Applied
  <2> QED
    BY <2>1, NoWriteEnds DEF reviewVars
<1>2. /\ DiskOK' /\ ChangeOK' /\ WaitingOK' /\ SessionOK' /\ CallOK' /\ TrackedOK'
  BY ReviewParts DEF reviewVars, DiskOK, ChangeOK, WaitingOK, SessionOK, CallOK, TrackedOK
<1>3. DiskIsReviewed' /\ ChangesSound' /\ CallsSound' /\ ListsSound'
  <2>1. SessionsAlike
    BY DEF reviewVars, SessionsAlike
  <2> QED
    BY <1>1, <2>1, ReviewParts, DiskStays, CallsStay, ChangesStay DEF reviewVars
<1>4. RunsSound' /\ StatusSound'
  BY ReviewParts DEF reviewVars, RunsSound, StatusSound, Open, Registered
<1> QED
  BY <1>1, <1>2, <1>3, <1>4, ReviewAssembled

LEMMA ReviewStep ==
    ASSUME IInv, Review
    PROVE  IInv' /\ Onward
<1>1. ReviewInv' /\ Onward
  BY ReviewNextKeeps DEF IInv, Review
<1>2. ListedOK' /\ ListedSound' /\ TakenOK'
  <2>1. checkpoints' = checkpoints /\ taken' = taken
    BY DEF Review
  <2>2. ListedOK' /\ TakenOK'
    BY <2>1 DEF IInv, ListedOK, TakenOK
  <2> QED
    BY <1>1, <2>1, <2>2, ListedStays DEF IInv
<1>3. /\ taking' = Disturbed(taking) \/ (taking' = taking /\ disk' = disk)
      /\ reverting' = Disturbed(reverting) \/ (reverting' = reverting /\ disk' = disk)
  BY DEF Review
<1>4. TakingOK' /\ TakingSound' /\ RevertingOK' /\ RevertingSound'
  BY <1>1, <1>3, TakingStays, RevertingStays DEF IInv
<1> QED
  BY <1>1, <1>2, <1>4 DEF IInv

\* The list, the checkpoint being taken and the revert where a step leaves them.
LEMMA ListStays ==
    ASSUME IInv, Onward, checkpoints' = checkpoints
    PROVE  ListedOK' /\ ListedSound'
<1>1. ListedOK'
  BY DEF IInv, ListedOK
<1> QED
  BY <1>1, ListedStays DEF IInv

\* With fewer changes started than the bound, one more checkpoint may be.
LEMMA StartedBounds ==
    ASSUME IInv, Started < MaxStarted
    PROVE  taken + 1 \in 1 .. MaxStarted
<1> DEFINE known == {c \in Changes : change[c].status # "unknown"}
<1>1. known \in SUBSET Changes /\ IsFiniteSet(Changes)
  BY ReviewAssumption
<1>2. Cardinality(known) \in Nat
  BY <1>1, FS_Subset, FS_CardinalityType
<1>3. Started = taken + Cardinality(known)
  BY DEF Started
<1> HIDE DEF known
<1> QED
  BY <1>2, <1>3, CheckpointAssumption DEF IInv, TakenOK

LEMMA TakeKeeps ==
    ASSUME IInv, Started < MaxStarted, NEW named \in SUBSET Files, Take(named)
    PROVE  IInv' /\ Onward
<1>1. ReviewInv' /\ Onward
  BY ReviewStays DEF IInv, Take
<1>2. ListedOK' /\ ListedSound' /\ RevertingOK' /\ RevertingSound'
  BY <1>1, ListStays, RevertingStays DEF IInv, Take, reviewVars
<1>3. taken + 1 \in 1 .. MaxStarted /\ taken' \in 0 .. MaxStarted
  BY StartedBounds, CheckpointAssumption DEF Take, IInv, TakenOK
<1> DEFINE at == tracked \cup named
             before == [f \in at |-> disk[f]]
             t == [id |-> taken + 1, left |-> at, files |-> NoFiles, before |-> before]
<1>4. at \in SUBSET Files /\ disk \in [Files -> Contents]
  BY ReviewParts DEF IInv, TrackedOK, DiskOK
<1> HIDE DEF at
<1>5. before \in Snapshots /\ DOMAIN before = at /\ \A f \in at : before[f] = disk[f]
  <2>1. before \in [at -> Contents]
    BY <1>4
  <2> QED
    BY <1>4, <2>1, SnapshotMade
<1> HIDE DEF before
<1>6. /\ t \in Takings /\ t.left = at /\ t.files = NoFiles /\ t.before = before
  BY <1>3, <1>4, <1>5, NoFilesFacts DEF Takings
<1>7. taking' = t /\ disk' = disk
  BY DEF Take, at, before, reviewVars
<1> HIDE DEF t
<1>8. TakingOK' /\ TakingSound'
  BY <1>5, <1>6, <1>7, NoFilesFacts DEF TakingOK, TakingSound, FilesReviewed
<1> QED
  BY <1>1, <1>2, <1>3, <1>8 DEF IInv, TakenOK

LEMMA SnapshotKeeps ==
    ASSUME IInv, NEW f \in Files, Snapshot(f)
    PROVE  IInv' /\ Onward
<1>1. ReviewInv' /\ Onward
  BY ReviewStays DEF IInv, Snapshot
<1>2. ListedOK' /\ ListedSound' /\ RevertingOK' /\ RevertingSound' /\ TakenOK'
  BY <1>1, ListStays, RevertingStays DEF IInv, Snapshot, reviewVars, TakenOK
<1> DEFINE files == With(taking.files, f, disk[f])
<1>3. /\ taking # None /\ taking \in Takings /\ f \in taking.left
      /\ taking' = [taking EXCEPT !.left = taking.left \ {f}, !.files = files]
      /\ disk' = disk /\ change' = change
  BY DEF Snapshot, IInv, TakingOK, reviewVars
<1>4. taking.files \in Snapshots /\ taking.left \in SUBSET Files /\ disk[f] \in Contents /\ Reviewed(disk[f])
  BY <1>3, ReviewParts DEF Takings, IInv, DiskOK, DiskIsReviewed, Reviewed
<1>5. /\ files \in Snapshots /\ DOMAIN files = DOMAIN taking.files \cup {f}
      /\ \A h \in DOMAIN files : files[h] = IF h = f THEN disk[f] ELSE taking.files[h]
  <2>1. DOMAIN taking.files \cup {f} \in SUBSET Files
    BY <1>4, SnapshotFacts
  <2>2. files \in [DOMAIN taking.files \cup {f} -> Contents]
    BY <1>4, SnapshotFacts DEF With
  <2> QED
    BY <2>1, <2>2, SnapshotMade DEF With
<1> HIDE DEF files
<1>6. /\ taking' \in Takings /\ taking'.left = taking.left \ {f}
      /\ taking'.files = files /\ taking'.before = taking.before
  BY <1>3, <1>4, <1>5 DEF Takings
<1>7. FilesReviewed(files)
  BY <1>3, <1>4, <1>5 DEF IInv, TakingSound, FilesReviewed, Reviewed
<1>8. TakingOK' /\ TakingSound'
  <2>1. FilesReviewed(taking.files)'
    <3>1. PICK g \in Snapshots : g = taking'.files /\ FilesReviewed(g)
      BY <1>5, <1>6, <1>7
    <3>2. FilesReviewed(g)'
      BY <1>1, <3>1, FilesStayReviewed
    <3> QED
      BY <3>1, <3>2
  <2>2. ASSUME NEW h \in DOMAIN taking.before
        PROVE  IF h \in taking.left \ {f} THEN disk[h] = taking.before[h]
               ELSE h \in DOMAIN files /\ files[h] = taking.before[h]
    BY <1>3, <1>5 DEF IInv, TakingSound
  <2> QED
    BY <1>3, <1>6, <2>1, <2>2 DEF TakingOK, TakingSound
<1> QED
  BY <1>1, <1>2, <1>8 DEF IInv

LEMMA SnapshotFailsKeeps ==
    ASSUME IInv, NEW f \in Files, SnapshotFails(f)
    PROVE  IInv' /\ Onward
<1>1. ReviewInv' /\ Onward
  BY ReviewStays DEF IInv, SnapshotFails
<1>2. ListedOK' /\ ListedSound' /\ RevertingOK' /\ RevertingSound' /\ TakenOK'
  BY <1>1, ListStays, RevertingStays DEF IInv, SnapshotFails, reviewVars, TakenOK
<1> DEFINE before == [h \in (DOMAIN taking.before) \ {f} |-> taking.before[h]]
<1>3. /\ taking # None /\ taking \in Takings /\ f \in taking.left
      /\ taking' = [taking EXCEPT !.left = taking.left \ {f}, !.before = before]
      /\ disk' = disk
  BY DEF SnapshotFails, IInv, TakingOK, reviewVars
<1>4. taking.files \in Snapshots /\ taking.before \in Snapshots /\ taking.left \in SUBSET Files
  BY <1>3 DEF Takings
<1>5. /\ before \in Snapshots /\ DOMAIN before = (DOMAIN taking.before) \ {f}
      /\ \A h \in DOMAIN before : before[h] = taking.before[h]
  <2>1. (DOMAIN taking.before) \ {f} \in SUBSET Files
    BY <1>4, SnapshotFacts
  <2>2. before \in [(DOMAIN taking.before) \ {f} -> Contents]
    BY <1>4, SnapshotFacts
  <2> QED
    BY <2>1, <2>2, SnapshotMade
<1> HIDE DEF before
<1>6. /\ taking' \in Takings /\ taking'.left = taking.left \ {f}
      /\ taking'.files = taking.files /\ taking'.before = before
  BY <1>3, <1>4, <1>5 DEF Takings
<1>7. FilesReviewed(taking.files)'
  <2>1. FilesReviewed(taking.files)
    BY <1>3 DEF IInv, TakingSound
  <2>2. PICK g \in Snapshots : g = taking'.files /\ FilesReviewed(g)
    BY <1>4, <1>6, <2>1
  <2>3. FilesReviewed(g)'
    BY <1>1, <2>2, FilesStayReviewed
  <2> QED
    BY <2>2, <2>3
<1>8. TakingOK' /\ TakingSound'
  BY <1>3, <1>5, <1>6, <1>7 DEF IInv, TakingOK, TakingSound
<1> QED
  BY <1>1, <1>2, <1>8 DEF IInv

\* The checkpoints of u were in the list.
Shortened(u) ==
    /\ u \in Seq(CheckpointRecords) /\ Len(u) <= MaxCheckpoints
    /\ \A n \in 1 .. Len(u) : \E j \in 1 .. Len(checkpoints) : u[n] = checkpoints[j]

\* Deleting one, and cutting the list after one, shorten it.
LEMMA DeletingShortens ==
    ASSUME ListedOK, NEW i \in 1 .. Len(checkpoints)
    PROVE  Shortened(RemoveAt(checkpoints, i))
<1> DEFINE u == RemoveAt(checkpoints, i)
<1>1. /\ checkpoints \in Seq(CheckpointRecords) /\ Len(checkpoints) \in Nat
      /\ Len(checkpoints) <= MaxCheckpoints /\ MaxCheckpoints \in Nat
  BY LenProperties, CheckpointAssumption DEF ListedOK
<1>2. /\ u \in Seq(CheckpointRecords) /\ Len(u) = Len(checkpoints) - 1
      /\ \A n \in 1 .. Len(checkpoints) - 1 :
            u[n] = IF n < i THEN checkpoints[n] ELSE checkpoints[n + 1]
  BY <1>1, RemoveOne
<1> HIDE DEF u
<1>3. ASSUME NEW n \in 1 .. Len(u)
      PROVE  \E j \in 1 .. Len(checkpoints) : u[n] = checkpoints[j]
  <2>1. n \in 1 .. Len(checkpoints) /\ n + 1 \in 1 .. Len(checkpoints)
    BY <1>1, <1>2
  <2> QED
    BY <1>1, <1>2, <2>1
<1>4. Shortened(u)
  BY <1>1, <1>2, <1>3 DEF Shortened
<1> QED
  BY <1>4 DEF u

LEMMA CuttingShortens ==
    ASSUME ListedOK, NEW i \in 1 .. Len(checkpoints)
    PROVE  Shortened(SubSeq(checkpoints, 1, i))
<1> DEFINE u == SubSeq(checkpoints, 1, i)
<1>1. /\ checkpoints \in Seq(CheckpointRecords) /\ Len(checkpoints) \in Nat
      /\ Len(checkpoints) <= MaxCheckpoints /\ MaxCheckpoints \in Nat
  BY LenProperties, CheckpointAssumption DEF ListedOK
<1>2. \A n \in 1 .. i : checkpoints[n] \in CheckpointRecords
  BY <1>1, ElementOfSeq
<1>3. /\ u \in Seq(CheckpointRecords) /\ Len(u) = i
      /\ \A n \in 1 .. i : u[n] = checkpoints[n]
  BY <1>1, <1>2, SubSeqProperties
<1> HIDE DEF u
<1>4. Shortened(u)
  BY <1>1, <1>3 DEF Shortened
<1> QED
  BY <1>4 DEF u

LEMMA ShortenedKeeps ==
    ASSUME ListedOK, ListedSound, Onward, Shortened(checkpoints')
    PROVE  ListedOK' /\ ListedSound'
<1>1. ListedOK'
  BY DEF ListedOK, Shortened
<1> QED
  BY <1>1, ListedStays DEF Shortened

LEMMA DeleteKeeps ==
    ASSUME IInv, NEW i, Delete(i)
    PROVE  IInv' /\ Onward
<1>1. ReviewInv' /\ Onward
  BY ReviewStays DEF IInv, Delete
<1>2. ListedOK' /\ ListedSound'
  BY <1>1, DeletingShortens, ShortenedKeeps DEF IInv, Delete
<1>3. TakingOK' /\ TakingSound' /\ RevertingOK' /\ RevertingSound' /\ TakenOK'
  BY <1>1, TakingStays, RevertingStays DEF IInv, Delete, reviewVars, TakenOK
<1> QED
  BY <1>1, <1>2, <1>3 DEF IInv

LEMMA RevertedKeeps ==
    ASSUME IInv, Reverted
    PROVE  IInv' /\ Onward
<1>1. ReviewInv' /\ Onward
  BY ReviewStays DEF IInv, Reverted
<1> DEFINE at == {i \in 1 .. Len(checkpoints) : checkpoints[i].id = reverting.to}
<1>2. checkpoints' = IF at = {} THEN checkpoints ELSE SubSeq(checkpoints, 1, CHOOSE i \in at : TRUE)
  BY DEF Reverted
<1>3. ListedOK' /\ ListedSound'
  <2>1. CASE at = {}
    BY <1>1, <1>2, <2>1, ListStays
  <2>2. CASE at # {}
    <3>1. (CHOOSE i \in at : TRUE) \in 1 .. Len(checkpoints)
      BY <2>2
    <3>2. PICK i \in 1 .. Len(checkpoints) : checkpoints' = SubSeq(checkpoints, 1, i)
      BY <1>2, <2>2, <3>1
    <3> QED
      BY <1>1, <3>2, CuttingShortens, ShortenedKeeps DEF IInv
  <2> QED
    BY <2>1, <2>2
<1>4. TakingOK' /\ TakingSound' /\ TakenOK'
  BY <1>1, TakingStays DEF IInv, Reverted, reviewVars, TakenOK
<1>5. RevertingOK' /\ RevertingSound'
  BY DEF Reverted, RevertingOK, RevertingSound
<1> QED
  BY <1>1, <1>3, <1>4, <1>5 DEF IInv

\* The new checkpoint has every file it was to read; the oldest one goes when the
\* list is full.
LEMMA TakenKeeps ==
    ASSUME IInv, Taken
    PROVE  IInv' /\ Onward
<1>1. ReviewInv' /\ Onward
  BY ReviewStays DEF IInv, Taken
<1> DEFINE c == [id |-> taking.id, files |-> taking.files, before |-> taking.before]
             cs == Append(checkpoints, c)
<1>2. /\ taking # None /\ taking \in Takings /\ taking.left = {} /\ TakingSound
      /\ checkpoints' = Capped(cs) /\ taking' = None
  BY DEF Taken, IInv, TakingOK
<1>3. /\ c \in CheckpointRecords /\ c.files = taking.files /\ c.before = taking.before
  BY <1>2 DEF CheckpointRecords, Takings
<1>4. CheckpointSound(c)
  BY <1>2, <1>3 DEF TakingSound, CheckpointSound, Exact
<1> HIDE DEF c
<1>5. /\ checkpoints \in Seq(CheckpointRecords) /\ Len(checkpoints) \in Nat
      /\ Len(checkpoints) <= MaxCheckpoints /\ MaxCheckpoints \in Nat \ {0}
  BY LenProperties, CheckpointAssumption DEF IInv, ListedOK
<1>6. /\ cs \in Seq(CheckpointRecords) /\ Len(cs) = Len(checkpoints) + 1
      /\ \A i \in 1 .. Len(checkpoints) : cs[i] = checkpoints[i]
      /\ cs[Len(checkpoints) + 1] = c
  BY <1>3, <1>5, AppendProperties
<1>7. \A i \in 1 .. Len(cs) : cs[i] \in CheckpointRecords /\ CheckpointSound(cs[i])
  <2> TAKE i \in 1 .. Len(cs)
  <2>1. CASE i \in 1 .. Len(checkpoints)
    BY <1>5, <1>6, <2>1, ElementOfSeq DEF IInv, ListedSound
  <2>2. CASE i = Len(checkpoints) + 1
    BY <1>3, <1>4, <1>6, <2>2
  <2> QED
    BY <1>5, <1>6, <2>1, <2>2
<1> HIDE DEF cs
<1>8. /\ checkpoints' \in Seq(CheckpointRecords) /\ Len(checkpoints') <= MaxCheckpoints
      /\ \A i \in 1 .. Len(checkpoints') : \E j \in 1 .. Len(cs) : checkpoints'[i] = cs[j]
  <2>1. CASE Len(cs) > MaxCheckpoints
    <3>1. checkpoints' = Tail(cs) /\ cs # << >>
      BY <1>2, <1>5, <1>6, <2>1, EmptySeq DEF Capped
    <3>2. /\ Tail(cs) \in Seq(CheckpointRecords) /\ Len(Tail(cs)) = Len(cs) - 1
          /\ \A i \in 1 .. Len(Tail(cs)) : Tail(cs)[i] = cs[i + 1]
      BY <1>6, <3>1, HeadTailProperties
    <3> QED
      BY <1>5, <1>6, <3>1, <3>2
  <2>2. CASE ~(Len(cs) > MaxCheckpoints)
    BY <1>2, <1>5, <1>6, <2>2 DEF Capped
  <2> QED
    BY <2>1, <2>2
<1>9. ListedSound'
  <2>1. ASSUME NEW i \in 1 .. Len(checkpoints')
        PROVE  CheckpointSound(checkpoints[i])'
    <3>1. PICK d \in CheckpointRecords : d = checkpoints'[i] /\ CheckpointSound(d)
      BY <1>7, <1>8
    <3>2. CheckpointSound(d)'
      BY <1>1, <3>1, SoundStays
    <3> QED
      BY <3>1, <3>2
  <2> QED
    BY <2>1 DEF ListedSound
<1>10. TakingOK' /\ TakingSound'
  BY <1>2 DEF TakingOK, TakingSound
<1>11. RevertingOK' /\ RevertingSound' /\ TakenOK'
  BY <1>1, RevertingStays DEF IInv, Taken, reviewVars, TakenOK
<1> QED
  BY <1>1, <1>8, <1>9, <1>10, <1>11 DEF IInv, ListedOK

LEMMA RevertKeeps ==
    ASSUME IInv, NEW i, Revert(i)
    PROVE  IInv' /\ Onward
<1>1. ReviewInv' /\ Onward
  BY ReviewStays DEF IInv, Revert
<1>2. ListedOK' /\ ListedSound' /\ TakingOK' /\ TakingSound' /\ TakenOK'
  BY <1>1, ListStays, TakingStays DEF IInv, Revert, reviewVars, TakenOK
<1>3. PICK c \in CheckpointRecords :
         /\ CheckpointSound(c)
         /\ reverting' = [to |-> c.id, left |-> DOMAIN c.files, files |-> c.files, before |-> c.before]
  <2>1. checkpoints[i] \in CheckpointRecords /\ CheckpointSound(checkpoints[i])
    BY ElementOfSeq DEF IInv, ListedOK, ListedSound, Revert
  <2> QED
    BY <2>1 DEF Revert
<1>4. c.files \in Snapshots /\ c.before \in Snapshots /\ DOMAIN c.files \in SUBSET Files
  BY SnapshotFacts DEF CheckpointRecords
<1>5. /\ reverting' \in Revertings /\ reverting'.left = DOMAIN c.files
      /\ reverting'.files = c.files /\ reverting'.before = c.before
  BY <1>3, <1>4 DEF Revertings, CheckpointRecords
<1>6. FilesReviewed(c.files)' /\ Exact(c.files, c.before)
  BY <1>1, <1>3, <1>4, FilesStayReviewed DEF CheckpointSound
<1>7. RevertingOK' /\ RevertingSound'
  <2>1. FilesReviewed(reverting.files)'
    BY <1>5, <1>6
  <2> QED
    BY <1>5, <1>6, <2>1 DEF RevertingOK, RevertingSound, Exact
<1> QED
  BY <1>1, <1>2, <1>7 DEF IInv

\* The invariant of the review but for the disk.
LEMMA OnlyDiskWritten ==
    ASSUME ReviewInv, UNCHANGED <<change, waiting, session, call, tracked, leftBehind>>, DiskOK', DiskIsReviewed'
    PROVE  ReviewInv' /\ Onward
<1>1. Onward
  <2>1. DecisionsStay
    BY DEF DecisionsStay, Settled, Applied
  <2> QED
    BY <2>1, NoWriteEnds
<1>2. /\ ChangeOK' /\ WaitingOK' /\ SessionOK' /\ CallOK' /\ TrackedOK'
  BY ReviewParts DEF ChangeOK, WaitingOK, SessionOK, CallOK, TrackedOK
<1>3. ChangesSound' /\ CallsSound' /\ ListsSound'
  <2>1. SessionsAlike
    BY DEF SessionsAlike
  <2> QED
    BY <1>1, <2>1, ReviewParts, CallsStay, ChangesStay
<1>4. NothingOpens
  BY DEF NothingOpens, Registered, Open
<1>5. RunsSound' /\ StatusSound'
  BY <1>4, ReviewParts, RunsStay, StatusStays
<1> QED
  BY <1>1, <1>2, <1>3, <1>5, ReviewAssembled

LEMMA RestoreKeeps ==
    ASSUME IInv, NEW f \in Files, Restore(f)
    PROVE  IInv' /\ Onward
<1>1. /\ reverting # None /\ reverting \in Revertings /\ f \in reverting.left
      /\ reverting' = [reverting EXCEPT !.left = reverting.left \ {f}]
      /\ disk' = [disk EXCEPT ![f] = reverting.files[f]]
      /\ taking' = Disturbed(taking)
      /\ UNCHANGED <<change, waiting, session, call, tracked, leftBehind>>
      /\ checkpoints' = checkpoints /\ taken' = taken
  BY DEF Restore, IInv, RevertingOK
<1>2. /\ reverting.files \in Snapshots /\ reverting.left \in SUBSET Files /\ f \in DOMAIN reverting.files
      /\ reverting.files[f] \in Contents /\ Reviewed(reverting.files[f])
      /\ disk \in [Files -> Contents] /\ DiskIsReviewed
  BY <1>1, SnapshotFacts, ReviewParts DEF IInv, Revertings, RevertingSound, FilesReviewed, DiskOK
<1>3. DiskOK' /\ DiskIsReviewed' /\ \A h \in Files : disk'[h] = IF h = f THEN reverting.files[f] ELSE disk[h]
  <2>1. DiskOK' /\ \A h \in Files : disk'[h] = IF h = f THEN reverting.files[f] ELSE disk[h]
    BY <1>1, <1>2 DEF DiskOK
  <2>2. DiskIsReviewed'
    BY <1>1, <1>2, <2>1 DEF DiskIsReviewed, Reviewed, Accepted
  <2> QED
    BY <2>1, <2>2
<1>4. ReviewInv' /\ Onward
  BY <1>1, <1>3, OnlyDiskWritten DEF IInv
<1>5. ListedOK' /\ ListedSound' /\ TakingOK' /\ TakingSound' /\ TakenOK'
  BY <1>1, <1>4, ListStays, TakingStays DEF IInv, TakenOK
<1>6. /\ reverting' \in Revertings /\ reverting'.left = reverting.left \ {f}
      /\ reverting'.files = reverting.files /\ reverting'.before = reverting.before
  BY <1>1, <1>2 DEF Revertings
<1>7. FilesReviewed(reverting.files)'
  <2>1. FilesReviewed(reverting.files)
    BY <1>1 DEF IInv, RevertingSound
  <2>2. PICK g \in Snapshots : g = reverting'.files /\ FilesReviewed(g)
    BY <1>2, <1>6, <2>1
  <2>3. FilesReviewed(g)'
    BY <1>4, <2>2, FilesStayReviewed
  <2> QED
    BY <2>2, <2>3
<1>8. RevertingOK' /\ RevertingSound'
  <2>1. /\ reverting.left \subseteq DOMAIN reverting.files /\ Exact(reverting.files, reverting.before)
        /\ \A h \in DOMAIN reverting.before : h \notin reverting.left => disk[h] = reverting.before[h]
    BY <1>1 DEF IInv, RevertingSound
  <2>2. DOMAIN reverting.before \subseteq Files
    BY <1>1, SnapshotFacts DEF Revertings
  <2>3. \A h \in DOMAIN reverting.before : h \notin reverting.left \ {f} => disk'[h] = reverting.before[h]
    BY <1>3, <2>1, <2>2 DEF Exact
  <2> QED
    BY <1>6, <1>7, <2>1, <2>3 DEF RevertingOK, RevertingSound, Exact
<1> QED
  BY <1>4, <1>5, <1>8 DEF IInv

LEMMA RestoreFailsKeeps ==
    ASSUME IInv, NEW f \in Files, RestoreFails(f)
    PROVE  IInv' /\ Onward
<1>1. ReviewInv' /\ Onward
  BY ReviewStays DEF IInv, RestoreFails
<1>2. ListedOK' /\ ListedSound' /\ TakingOK' /\ TakingSound' /\ TakenOK'
  BY <1>1, ListStays, TakingStays DEF IInv, RestoreFails, reviewVars, TakenOK
<1>3. /\ reverting # None /\ reverting \in Revertings /\ f \in reverting.left
      /\ reverting' = [[reverting EXCEPT !.before = NoFiles] EXCEPT !.left = @ \ {f}]
  BY DEF RestoreFails, Disturbed, IInv, RevertingOK
<1>4. /\ reverting' \in Revertings /\ reverting'.left = reverting.left \ {f}
      /\ reverting'.files = reverting.files /\ reverting'.before = NoFiles
  BY <1>3, NoFilesFacts DEF Revertings
<1>5. FilesReviewed(reverting.files)'
  <2>1. reverting.files \in Snapshots /\ FilesReviewed(reverting.files)
    BY <1>3 DEF IInv, RevertingSound, Revertings
  <2>2. PICK g \in Snapshots : g = reverting'.files /\ FilesReviewed(g)
    BY <1>4, <2>1
  <2>3. FilesReviewed(g)'
    BY <1>1, <2>2, FilesStayReviewed
  <2> QED
    BY <2>2, <2>3
<1>6. RevertingOK' /\ RevertingSound'
  BY <1>3, <1>4, <1>5, NoFilesFacts DEF IInv, RevertingOK, RevertingSound, Exact
<1> QED
  BY <1>1, <1>2, <1>6 DEF IInv

-----------------------------------------------------------------------------
(* The theorems *)

LEMMA NextKeeps ==
    ASSUME IInv, [Next]_vars
    PROVE  IInv' /\ Onward
<1>1. CASE Review
  BY <1>1, ReviewStep
<1>2. ASSUME Started < MaxStarted, NEW named \in SUBSET Files, Take(named)
      PROVE  IInv' /\ Onward
  BY <1>2, TakeKeeps
<1>3. ASSUME NEW f \in Files, Snapshot(f) \/ SnapshotFails(f) \/ Restore(f) \/ RestoreFails(f)
      PROVE  IInv' /\ Onward
  BY <1>3, SnapshotKeeps, SnapshotFailsKeeps, RestoreKeeps, RestoreFailsKeeps
<1>4. CASE Taken \/ Reverted
  BY <1>4, TakenKeeps, RevertedKeeps
<1>5. ASSUME NEW i \in 1 .. MaxCheckpoints, Revert(i) \/ Delete(i)
      PROVE  IInv' /\ Onward
  BY <1>5, RevertKeeps, DeleteKeeps
<1>6. CASE UNCHANGED vars
  <2>1. ReviewInv' /\ Onward
    BY <1>6, ReviewStays DEF IInv, vars
  <2>2. /\ ListedOK' /\ ListedSound' /\ TakingOK' /\ TakingSound'
        /\ RevertingOK' /\ RevertingSound' /\ TakenOK'
    BY <1>6, <2>1, ListStays, TakingStays, RevertingStays
    DEF IInv, vars, reviewVars, checkpointVars, TakenOK
  <2> QED
    BY <2>1, <2>2 DEF IInv
<1> QED
  BY <1>1, <1>2, <1>3, <1>4, <1>5, <1>6 DEF Next

\* A revert under way goes on, unless it ends with every file written.
LEMMA RevertGoesOn ==
    ASSUME IInv, Next, reverting # None
    PROVE  Reverted \/ reverting' \in Revertings
<1>1. reverting \in Revertings
  BY DEF IInv, RevertingOK
<1>2. Disturbed(reverting) \in Revertings
  BY <1>1, NoFilesFacts DEF Disturbed, Revertings
<1>3. CASE Review
  BY <1>1, <1>2, <1>3 DEF Review
<1>4. ASSUME NEW named \in SUBSET Files, Take(named)
      PROVE  reverting' \in Revertings
  BY <1>1, <1>4 DEF Take
<1>5. ASSUME NEW f \in Files, Snapshot(f) \/ SnapshotFails(f)
      PROVE  reverting' \in Revertings
  BY <1>1, <1>5 DEF Snapshot, SnapshotFails
<1>6. ASSUME NEW f \in Files, Restore(f) \/ RestoreFails(f)
      PROVE  reverting' \in Revertings
  <2>1. \A x \in Revertings : [x EXCEPT !.left = @ \ {f}] \in Revertings
    BY DEF Revertings
  <2> QED
    BY <1>1, <1>2, <1>6, <2>1 DEF Restore, RestoreFails
<1>7. CASE Taken
  BY <1>1, <1>7 DEF Taken
<1>8. ASSUME NEW i \in 1 .. MaxCheckpoints, Revert(i) \/ Delete(i)
      PROVE  reverting' \in Revertings
  BY <1>1, <1>8 DEF Revert, Delete
<1> QED
  BY <1>3, <1>4, <1>5, <1>6, <1>7, <1>8 DEF Next

\* The invariant the theorems below follow from: what changes, calls, sessions and
\* snapshots hold.
THEOREM InductiveInvariant == Spec => []IInv
<1>1. Init => IInv
  BY InitEstablishes
<1>2. IInv /\ [Next]_vars => IInv'
  BY NextKeeps
<1> QED
  BY <1>1, <1>2, PTL DEF Spec

\* Every variable keeps its type, the keys of pendingChanges are the changes whose
\* status is pending, and the list of checkpoints never exceeds its limit.
THEOREM TypeCorrect == Spec => []TypeOK
<1>1. IInv => TypeOK
  BY CheckpointAssumption
  DEF IInv, ReviewInv, TypeOK, ListedOK, TakingOK, RevertingOK, TakenOK,
      CheckpointRecords, Takings, Revertings
<1> QED
  BY <1>1, InductiveInvariant, PTL

\* applyChange, finalizeHunkReview, applySession and revertToCheckpoint: whatever
\* is decided during their writes, a file shows a change only if it is applied, a
\* write under way has put it there or a write that did so has failed; and a session
\* reported applied or rejected has nothing left to review.
THEOREM NothingGoesUnreviewed == Spec => []NothingUnreviewed
<1>1. IInv => NothingUnreviewed
  <2> SUFFICES ASSUME IInv PROVE NothingUnreviewed
    OBVIOUS
  <2>1. DiskIsReviewed /\ SessionOK /\ StatusSound
    BY ReviewParts DEF IInv
  <2>2. SessionStatusTrue
    <3> SUFFICES ASSUME NEW s \in Sessions, session[s].status \in {"applied", "rejected"},
                        NEW i \in 1 .. Len(session[s].changes)
                 PROVE  change[session[s].changes[i]].status # "pending"
      BY DEF SessionStatusTrue
    <3>1. session[s].changes[i] \in Changes /\ Open(s) = {}
      BY <2>1, ListedIsChange DEF StatusSound
    <3> QED
      BY <3>1 DEF Open
  <2> QED
    BY <2>1, <2>2 DEF NothingUnreviewed
<1> QED
  BY <1>1, InductiveInvariant, PTL

\* A change that was applied is never reported rejected or offered for review
\* again, by any operation on it, its session or a checkpoint.
THEOREM AppliedStays == Spec => AppliedIsFinal
<1>1. IInv /\ [Next]_vars =>
         [\A c \in Changes : change[c].status = "applied" => change'[c].status = "applied"]_reviewVars
  BY NextKeeps DEF Onward, DecisionsStay, Applied
<1> QED
  BY <1>1, InductiveInvariant, PTL DEF Spec, AppliedIsFinal

\* revertToCheckpoint: a revert that ends without an error and undisturbed has
\* brought back every file the checkpoint was to read, as it was when the
\* checkpoint was asked for.
THEOREM RevertsRestore == Spec => RevertRestores
<1>1. IInv /\ [Next]_vars =>
         [reverting # None /\ reverting' = None =>
             \A f \in DOMAIN reverting.before : disk[f] = reverting.before[f]]_vars
  <2> SUFFICES ASSUME IInv, Next, reverting # None, reverting' = None,
                      NEW f \in DOMAIN reverting.before
               PROVE  disk[f] = reverting.before[f]
    BY DEF vars
  <2>1. reverting' \notin Revertings
    BY NoneIsNoRecord DEF Revertings
  <2>2. Reverted
    BY <2>1, RevertGoesOn
  <2>3. reverting.left = {}
    BY <2>2 DEF Reverted
  <2> QED
    BY <2>3 DEF IInv, RevertingSound
<1> QED
  BY <1>1, InductiveInvariant, PTL DEF Spec, RevertRestores
=============================================================================
