--------------------------- MODULE ApprovalDialogProofs --------------------------
(***************************************************************************)
(* Theorems about ConsentManager, for every set of waits and of threads,   *)
(* and about ApprovalDialog, which contains it, for every number of        *)
(* requests and of messages from the user.                                 *)
(***************************************************************************)
EXTENDS ApprovalDialog, TLAPS, SequenceTheorems

(* Taking an entry out of a queue *)

\* Taking the first n elements off leaves the others in their order.
LEMMA DropFront ==
    ASSUME NEW S, NEW w \in Seq(S), NEW n \in 0 .. Len(w)
    PROVE  /\ SubSeq(w, n + 1, Len(w)) \in Seq(S)
           /\ Len(SubSeq(w, n + 1, Len(w))) = Len(w) - n
           /\ \A i \in 1 .. Len(w) - n : SubSeq(w, n + 1, Len(w))[i] = w[i + n]
<1>1. \A i \in n + 1 .. Len(w) : w[i] \in S
  BY ElementOfSeq
<1>2. /\ SubSeq(w, n + 1, Len(w)) \in Seq(S)
      /\ Len(SubSeq(w, n + 1, Len(w))) = IF n + 1 <= Len(w) THEN Len(w) - (n + 1) + 1 ELSE 0
      /\ \A i \in 1 .. Len(w) - (n + 1) + 1 :
            SubSeq(w, n + 1, Len(w))[i] = w[n + 1 + i - 1]
  BY <1>1, SubSeqProperties, LenProperties
<1> QED
  BY <1>2, LenProperties

\* RemoveAt closes the gap the element leaves.
LEMMA RemoveOne ==
    ASSUME NEW S, NEW w \in Seq(S), NEW k \in 1 .. Len(w)
    PROVE  /\ RemoveAt(w, k) \in Seq(S)
           /\ Len(RemoveAt(w, k)) = Len(w) - 1
           /\ \A i \in 1 .. Len(w) - 1 :
                 RemoveAt(w, k)[i] = IF i < k THEN w[i] ELSE w[i + 1]
<1> DEFINE u == SubSeq(w, 1, k - 1)
           v == SubSeq(w, k + 1, Len(w))
<1>1. /\ u \in Seq(S) /\ Len(u) = k - 1
      /\ \A i \in 1 .. k - 1 : u[i] = w[i]
  BY SubSeqProperties, LenProperties, ElementOfSeq
<1>2. /\ v \in Seq(S) /\ Len(v) = Len(w) - k
      /\ \A i \in 1 .. Len(w) - k : v[i] = w[i + k]
  BY DropFront, LenProperties
<1>3. /\ u \o v \in Seq(S)
      /\ Len(u \o v) = Len(u) + Len(v)
      /\ \A i \in 1 .. Len(u) + Len(v) :
            (u \o v)[i] = IF i <= Len(u) THEN u[i] ELSE v[i - Len(u)]
  BY <1>1, <1>2, ConcatProperties
<1>4. RemoveAt(w, k) = u \o v
  BY DEF RemoveAt
<1> HIDE DEF u, v
<1>5. Len(w) \in Nat /\ Len(u) + Len(v) = Len(w) - 1
  BY <1>1, <1>2, LenProperties
<1>6. ASSUME NEW i \in 1 .. Len(w) - 1
      PROVE  RemoveAt(w, k)[i] = IF i < k THEN w[i] ELSE w[i + 1]
  <2>1. CASE i < k
    BY <2>1, <1>1, <1>3, <1>4, <1>5
  <2>2. CASE i >= k
    <3>1. i - (k - 1) \in 1 .. Len(w) - k
      BY <2>2, <1>5
    <3>2. (u \o v)[i] = v[i - (k - 1)]
      BY <2>2, <1>1, <1>3, <1>5
    <3>3. v[i - (k - 1)] = w[i - (k - 1) + k]
      BY <3>1, <1>2
    <3> QED
      BY <2>2, <3>2, <3>3, <1>4, <1>5
  <2> QED
    BY <2>1, <2>2, <1>5
<1> QED
  BY <1>3, <1>4, <1>5, <1>6

\* u is w without the element at place k.
Dropped(u, w, k) ==
    /\ Len(u) = Len(w) - 1
    /\ \A i \in 1 .. Len(w) - 1 : u[i] = IF i < k THEN w[i] ELSE w[i + 1]

\* RemoveAt and Tail drop one element.
LEMMA DropOne ==
    ASSUME NEW S, NEW w \in Seq(S)
    PROVE  /\ \A k \in 1 .. Len(w) : RemoveAt(w, k) \in Seq(S) /\ Dropped(RemoveAt(w, k), w, k)
           /\ w # << >> => /\ Head(w) = w[1] /\ 1 \in 1 .. Len(w)
                          /\ Tail(w) \in Seq(S) /\ Dropped(Tail(w), w, 1)
<1>1. \A k \in 1 .. Len(w) : RemoveAt(w, k) \in Seq(S) /\ Dropped(RemoveAt(w, k), w, k)
  BY RemoveOne DEF Dropped
<1>2. ASSUME w # << >>
      PROVE  /\ Head(w) = w[1] /\ 1 \in 1 .. Len(w)
             /\ Tail(w) \in Seq(S) /\ Dropped(Tail(w), w, 1)
  <2>1. Len(w) \in Nat /\ Len(w) > 0
    BY <1>2, LenProperties, EmptySeq
  <2>2. /\ Head(w) = w[1] /\ Tail(w) \in Seq(S) /\ Len(Tail(w)) = Len(w) - 1
        /\ \A i \in 1 .. Len(Tail(w)) : Tail(w)[i] = w[i + 1]
    BY <1>2, HeadTailProperties
  <2> QED
    BY <2>1, <2>2 DEF Dropped
<1> QED
  BY <1>1, <1>2

(* The consent manager *)

\* The inductive invariant.
ConsentIInv == ConsentTypeOK /\ WaitersInSync

\* What a step leaves of the map when it takes the waits of S out of it: no
\* queue is empty, the entries are those left over, each once.
TakenOut(S) ==
    /\ Keys' \subseteq Keys
    /\ \A t \in Keys' : waiters'[t] \in Seq(Waits) /\ waiters'[t] # << >>
    /\ \A t \in Keys' : \A i \in 1 .. Len(waiters'[t]) :
          /\ waiters'[t][i] \notin S
          /\ \E j \in 1 .. Len(waiters[t]) : waiters[t][j] = waiters'[t][i]
          /\ \A j \in 1 .. Len(waiters'[t]) : waiters'[t][i] = waiters'[t][j] => i = j
    /\ \A t \in Keys : \A i \in 1 .. Len(waiters[t]) :
          waiters[t][i] \notin S =>
             t \in Keys' /\ \E j \in 1 .. Len(waiters'[t]) : waiters'[t][j] = waiters[t][i]

\* Dropping one entry of one queue takes that entry out of the map.
LEMMA DropTakesOut ==
    ASSUME ConsentIInv, NEW t \in Keys, NEW k \in 1 .. Len(waiters[t]), NEW u \in Seq(Waits),
           Dropped(u, waiters[t], k), waiters' = SetQueue(t, u)
    PROVE  TakenOut({waiters[t][k]})
<1> DEFINE q == waiters[t]
           S == {waiters[t][k]}
<1>0. \A w : w \in S <=> w = q[k]
  OBVIOUS
<1> SUFFICES TakenOut(S)
  OBVIOUS
<1> HIDE DEF S
<1>1. q \in Seq(Waits) /\ Len(q) \in Nat /\ Len(u) \in Nat
  BY LenProperties DEF ConsentIInv, ConsentTypeOK
<1>2. \A i, j \in 1 .. Len(q) : q[i] = q[j] => i = j
  BY DEF ConsentIInv, WaitersInSync
<1>3. \A i \in 1 .. Len(u) :
         /\ u[i] # q[k]
         /\ \E j \in 1 .. Len(q) : q[j] = u[i]
         /\ \A j \in 1 .. Len(u) : u[i] = u[j] => i = j
  <2> SUFFICES ASSUME NEW i \in 1 .. Len(u)
               PROVE  /\ u[i] # q[k]
                      /\ \E j \in 1 .. Len(q) : q[j] = u[i]
                      /\ \A j \in 1 .. Len(u) : u[i] = u[j] => i = j
    OBVIOUS
  <2>1. \A j \in 1 .. Len(u) : j \in 1 .. Len(q) /\ j + 1 \in 1 .. Len(q)
    BY <1>1 DEF Dropped
  <2>2. \A j \in 1 .. Len(u) : u[j] = IF j < k THEN q[j] ELSE q[j + 1]
    BY <1>1 DEF Dropped
  <2>3. k \in 1 .. Len(q) /\ k \in Int /\ \A j \in 1 .. Len(u) : j \in Int
    OBVIOUS
  <2> HIDE DEF q
  <2>4. PICK m \in 1 .. Len(q) : u[i] = q[m] /\ m = (IF i < k THEN i ELSE i + 1)
    BY <2>1, <2>2
  <2>5. u[i] # q[k]
    BY <1>2, <2>3, <2>4
  <2>6. ASSUME NEW j \in 1 .. Len(u), u[i] = u[j] PROVE i = j
    <3>1. PICK n \in 1 .. Len(q) : u[j] = q[n] /\ n = (IF j < k THEN j ELSE j + 1)
      BY <2>1, <2>2
    <3>2. m = n
      BY <1>2, <2>4, <2>6, <3>1
    <3> QED
      BY <2>3, <2>4, <3>1, <3>2
  <2> QED
    BY <2>4, <2>5, <2>6
<1>4. \A i \in 1 .. Len(q) : q[i] # q[k] => \E j \in 1 .. Len(u) : u[j] = q[i]
  <2> SUFFICES ASSUME NEW i \in 1 .. Len(q), q[i] # q[k]
               PROVE  \E j \in 1 .. Len(u) : u[j] = q[i]
    OBVIOUS
  <2>1. i # k
    OBVIOUS
  <2>2. CASE i < k
    <3>1. i \in 1 .. Len(u) /\ u[i] = q[i]
      BY <1>1, <2>2 DEF Dropped
    <3> QED
      BY <3>1
  <2>3. CASE i > k
    <3>1. i - 1 \in 1 .. Len(u) /\ u[i - 1] = q[i]
      BY <1>1, <2>3 DEF Dropped
    <3> QED
      BY <3>1
  <2> QED
    BY <2>1, <2>2, <2>3
<1>5. \A s \in Keys : waiters[s] \in Seq(Waits) /\ waiters[s] # << >>
  BY DEF ConsentIInv, ConsentTypeOK, WaitersInSync
<1>6. \A s \in Keys \ {t} : \A i \in 1 .. Len(waiters[s]) : waiters[s][i] # q[k]
  BY DEF ConsentIInv, WaitersInSync
<1>7. \A s \in Keys : \A i, j \in 1 .. Len(waiters[s]) : waiters[s][i] = waiters[s][j] => i = j
  BY DEF ConsentIInv, WaitersInSync
<1>8. CASE u = << >>
  <2>1. Keys' = Keys \ {t} /\ \A s \in Keys' : waiters'[s] = waiters[s]
    BY <1>8 DEF SetQueue, Restrict, Keys
  <2>2. \A i \in 1 .. Len(q) : q[i] = q[k]
    BY <1>1, <1>4, <1>8, EmptySeq
  <2> HIDE DEF q
  <2>3. \A s \in Keys' : waiters'[s] \in Seq(Waits) /\ waiters'[s] # << >>
    BY <1>5, <2>1
  <2>4. \A s \in Keys' : \A i \in 1 .. Len(waiters'[s]) :
          /\ waiters'[s][i] \notin S
          /\ \E j \in 1 .. Len(waiters[s]) : waiters[s][j] = waiters'[s][i]
          /\ \A j \in 1 .. Len(waiters'[s]) : waiters'[s][i] = waiters'[s][j] => i = j
    BY <1>0, <1>6, <1>7, <2>1
  <2>5. \A s \in Keys : \A i \in 1 .. Len(waiters[s]) :
          waiters[s][i] \notin S =>
             s \in Keys' /\ \E j \in 1 .. Len(waiters'[s]) : waiters'[s][j] = waiters[s][i]
    BY <1>0, <2>1, <2>2 DEF q
  <2> QED
    BY <2>1, <2>3, <2>4, <2>5 DEF TakenOut
<1>9. CASE u # << >>
  <2>1. Keys' = Keys /\ \A s \in Keys' : waiters'[s] = IF s = t THEN u ELSE waiters[s]
    BY <1>9 DEF SetQueue, Keys
  <2> HIDE DEF q
  <2>2. \A s \in Keys' : waiters'[s] \in Seq(Waits) /\ waiters'[s] # << >>
    BY <1>5, <1>9, <2>1
  <2>3. \A s \in Keys' : \A i \in 1 .. Len(waiters'[s]) :
          /\ waiters'[s][i] \notin S
          /\ \E j \in 1 .. Len(waiters[s]) : waiters[s][j] = waiters'[s][i]
          /\ \A j \in 1 .. Len(waiters'[s]) : waiters'[s][i] = waiters'[s][j] => i = j
    <3> SUFFICES ASSUME NEW s \in Keys'
                 PROVE  \A i \in 1 .. Len(waiters'[s]) :
                           /\ waiters'[s][i] \notin S
                           /\ \E j \in 1 .. Len(waiters[s]) : waiters[s][j] = waiters'[s][i]
                           /\ \A j \in 1 .. Len(waiters'[s]) :
                                 waiters'[s][i] = waiters'[s][j] => i = j
      OBVIOUS
    <3>1. CASE s = t
      <4>1. waiters'[s] = u /\ waiters[s] = q
        BY <3>1, <2>1 DEF q
      <4> QED
        BY <1>0, <1>3, <4>1
    <3>2. CASE s # t
      <4>1. waiters'[s] = waiters[s] /\ s \in Keys \ {t}
        BY <3>2, <2>1
      <4> QED
        BY <1>0, <1>6, <1>7, <4>1
    <3> QED
      BY <3>1, <3>2
  <2>4. \A s \in Keys : \A i \in 1 .. Len(waiters[s]) :
          waiters[s][i] \notin S =>
             s \in Keys' /\ \E j \in 1 .. Len(waiters'[s]) : waiters'[s][j] = waiters[s][i]
    BY <1>0, <1>4, <2>1 DEF q
  <2> QED
    BY <2>1, <2>2, <2>3, <2>4 DEF TakenOut
<1> QED
  BY <1>8, <1>9

\* A step that takes open waits out of the map, clears their timers and settles
\* their promises keeps the invariant.
LEMMA SettlingStep ==
    ASSUME ConsentIInv, NEW S, NEW o \in {"granted", "denied"},
           TakenOut(S), timers' = timers \ S, threadOf' = threadOf, Resolve(S, o)
    PROVE  ConsentIInv'
<1>1. \A w \in Waits : verdict[w] \in Verdicts
  BY DEF ConsentIInv, ConsentTypeOK
<1>2. \A w \in Waits :
         verdict'[w] = IF w \in S /\ verdict[w] = "pending" THEN o ELSE verdict[w]
  BY DEF Resolve
<1>3. verdict' \in [Waits -> Verdicts]
  BY <1>1, <1>2 DEF Resolve, Verdicts
<1>4. ConsentTypeOK'
  BY <1>3 DEF ConsentIInv, ConsentTypeOK, TakenOut, Keys
<1>5. \A w \in Waits : verdict'[w] = "pending" <=> verdict[w] = "pending" /\ w \notin S
  BY <1>1, <1>2
<1>6. timers' = {w \in Waits : verdict'[w] = "pending"}
  BY <1>5 DEF ConsentIInv, WaitersInSync
<1>7. \A t \in Keys' : \A i \in 1 .. Len(waiters'[t]) : waiters'[t][i] \in Waits
  BY LenProperties DEF TakenOut
<1>8. \A t \in Keys' : \A i \in 1 .. Len(waiters'[t]) :
         verdict'[waiters'[t][i]] = "pending" /\ threadOf'[waiters'[t][i]] = t
  BY <1>5, <1>7 DEF ConsentIInv, WaitersInSync, TakenOut
<1>9. \A w \in Waits : verdict'[w] = "pending" =>
         /\ threadOf'[w] \in Keys'
         /\ \E i \in 1 .. Len(waiters'[threadOf'[w]]) : waiters'[threadOf'[w]][i] = w
  <2> SUFFICES ASSUME NEW w \in Waits, verdict'[w] = "pending"
               PROVE  /\ threadOf[w] \in Keys'
                      /\ \E i \in 1 .. Len(waiters'[threadOf[w]]) : waiters'[threadOf[w]][i] = w
    OBVIOUS
  <2>1. verdict[w] = "pending" /\ w \notin S
    BY <1>5
  <2>2. PICK i \in 1 .. Len(waiters[threadOf[w]]) :
           threadOf[w] \in Keys /\ waiters[threadOf[w]][i] = w
    BY <2>1 DEF ConsentIInv, WaitersInSync
  <2> DEFINE t == threadOf[w]
  <2>3. t \in Keys /\ waiters[t][i] \notin S /\ i \in 1 .. Len(waiters[t])
    BY <2>1, <2>2
  <2>4. \A s \in Keys : \A k \in 1 .. Len(waiters[s]) :
           waiters[s][k] \notin S =>
              s \in Keys' /\ \E j \in 1 .. Len(waiters'[s]) : waiters'[s][j] = waiters[s][k]
    BY DEF TakenOut
  <2>5. t \in Keys' /\ \E j \in 1 .. Len(waiters'[t]) : waiters'[t][j] = waiters[t][i]
    <3> HIDE DEF t
    <3> QED
      BY <2>3, <2>4
  <2> QED
    BY <2>2, <2>5
<1>10. \A t \in Keys' : /\ waiters'[t] # << >>
                        /\ \A i, j \in 1 .. Len(waiters'[t]) :
                              waiters'[t][i] = waiters'[t][j] => i = j
  BY DEF TakenOut
<1> HIDE DEF Keys
<1>11. WaitersInSync'
  BY <1>6, <1>8, <1>9, <1>10 DEF WaitersInSync, Keys
<1> QED
  BY <1>4, <1>11 DEF ConsentIInv

\* A timeout takes the wait out of the queue of its thread, where it stands.
LEMMA TimeoutSettles ==
    ASSUME ConsentIInv, NEW w \in Waits, Timeout(w)
    PROVE  ConsentIInv'
<1>1. verdict[w] = "pending" /\ threadOf[w] \in Keys
  BY DEF Timeout, ConsentIInv, WaitersInSync
<1> DEFINE t == threadOf[w]
           q == waiters[t]
<1>2. q \in Seq(Waits) /\ QueueOf(t) = q /\ \E k \in 1 .. Len(q) : q[k] = w
  BY <1>1 DEF ConsentIInv, ConsentTypeOK, WaitersInSync, QueueOf
<1>3. PICK k \in 1 .. Len(q) : q[k] = w /\ waiters' = SetQueue(t, RemoveAt(q, k))
  BY <1>2 DEF Timeout, RemoveWaiter
<1>4. RemoveAt(q, k) \in Seq(Waits) /\ Dropped(RemoveAt(q, k), q, k)
  BY <1>2, DropOne
<1>5. TakenOut({w})
  BY <1>1, <1>3, <1>4, DropTakesOut
<1> QED
  BY <1>5, SettlingStep DEF Timeout

\* An answer takes the oldest wait of its thread out.
LEMMA RespondSettles ==
    ASSUME ConsentIInv, NEW t \in Threads, NEW granted \in BOOLEAN, Respond(t, granted)
    PROVE  ConsentIInv'
<1> DEFINE q == waiters[t]
<1>1. t \in Keys /\ q \in Seq(Waits) /\ q # << >>
  BY DEF Respond, ConsentIInv, ConsentTypeOK, WaitersInSync
<1>2. Head(q) = q[1] /\ 1 \in 1 .. Len(q) /\ Tail(q) \in Seq(Waits) /\ Dropped(Tail(q), q, 1)
  BY <1>1, DropOne
<1>3. /\ waiters' = SetQueue(t, Tail(q)) /\ timers' = timers \ {q[1]}
      /\ Resolve({q[1]}, Outcome(granted)) /\ threadOf' = threadOf
  BY <1>2 DEF Respond
<1>4. TakenOut({q[1]})
  BY <1>1, <1>2, <1>3, DropTakesOut
<1>5. Outcome(granted) \in {"granted", "denied"}
  BY DEF Outcome
<1> QED
  BY <1>3, <1>4, <1>5, SettlingStep

\* A broadcast takes the oldest wait of every thread out.
LEMMA RespondAllSettles ==
    ASSUME ConsentIInv, NEW granted \in BOOLEAN, RespondAll(granted)
    PROVE  ConsentIInv'
<1> DEFINE oldest == {Head(waiters[t]) : t \in Keys}
<1>1. \A t \in Keys :
         /\ waiters[t] \in Seq(Waits) /\ waiters[t] # << >> /\ Len(waiters[t]) \in Nat
         /\ \A i, j \in 1 .. Len(waiters[t]) : waiters[t][i] = waiters[t][j] => i = j
         /\ \A i \in 1 .. Len(waiters[t]) : threadOf[waiters[t][i]] = t
  BY LenProperties DEF ConsentIInv, ConsentTypeOK, WaitersInSync
<1>2. \A t \in Keys :
         /\ Head(waiters[t]) = waiters[t][1] /\ 1 \in 1 .. Len(waiters[t])
         /\ Tail(waiters[t]) \in Seq(Waits) /\ Dropped(Tail(waiters[t]), waiters[t], 1)
  BY <1>1, DropOne
<1>3. /\ Keys' = {t \in Keys : Len(waiters[t]) > 1}
      /\ \A t \in Keys' : waiters'[t] = Tail(waiters[t])
  BY DEF RespondAll, Keys
<1>4. \A t \in Keys : \A i \in 1 .. Len(waiters[t]) : waiters[t][i] \in oldest <=> i = 1
  BY <1>1, <1>2
<1> HIDE DEF oldest
<1>5. \A t \in Keys' : /\ Len(waiters'[t]) = Len(waiters[t]) - 1 /\ Len(waiters[t]) > 1
                       /\ \A i \in 1 .. Len(waiters'[t]) : waiters'[t][i] = waiters[t][i + 1]
  <2> SUFFICES ASSUME NEW t \in Keys'
               PROVE  /\ Len(waiters'[t]) = Len(waiters[t]) - 1 /\ Len(waiters[t]) > 1
                      /\ \A i \in 1 .. Len(waiters'[t]) : waiters'[t][i] = waiters[t][i + 1]
    OBVIOUS
  <2>1. t \in Keys /\ waiters'[t] = Tail(waiters[t]) /\ Len(waiters[t]) > 1
    BY <1>3
  <2>2. Len(waiters[t]) \in Nat /\ Dropped(waiters'[t], waiters[t], 1)
    BY <1>1, <1>2, <2>1
  <2> QED
    BY <2>1, <2>2 DEF Dropped
<1>6. \A t \in Keys' : waiters'[t] \in Seq(Waits) /\ waiters'[t] # << >>
  <2>1. \A t \in Keys' : waiters'[t] \in Seq(Waits)
    BY <1>2, <1>3
  <2>2. \A t \in Keys' : Len(waiters'[t]) > 0
    BY <1>1, <1>3, <1>5
  <2> QED
    BY <2>1, <2>2, EmptySeq
<1>7. \A t \in Keys' : \A i \in 1 .. Len(waiters'[t]) :
          /\ waiters'[t][i] \notin oldest
          /\ \E j \in 1 .. Len(waiters[t]) : waiters[t][j] = waiters'[t][i]
          /\ \A j \in 1 .. Len(waiters'[t]) : waiters'[t][i] = waiters'[t][j] => i = j
  <2> SUFFICES ASSUME NEW t \in Keys', NEW i \in 1 .. Len(waiters'[t])
               PROVE  /\ waiters'[t][i] \notin oldest
                      /\ \E j \in 1 .. Len(waiters[t]) : waiters[t][j] = waiters'[t][i]
                      /\ \A j \in 1 .. Len(waiters'[t]) : waiters'[t][i] = waiters'[t][j] => i = j
    OBVIOUS
  <2>1. t \in Keys
    BY <1>3
  <2>2. \A j \in 1 .. Len(waiters'[t]) :
           j + 1 \in 1 .. Len(waiters[t]) /\ waiters'[t][j] = waiters[t][j + 1]
    BY <1>1, <1>5, <2>1
  <2> QED
    BY <1>1, <1>4, <2>1, <2>2
<1>8. \A t \in Keys : \A i \in 1 .. Len(waiters[t]) :
          waiters[t][i] \notin oldest =>
             t \in Keys' /\ \E j \in 1 .. Len(waiters'[t]) : waiters'[t][j] = waiters[t][i]
  <2> SUFFICES ASSUME NEW t \in Keys, NEW i \in 1 .. Len(waiters[t]), waiters[t][i] \notin oldest
               PROVE  t \in Keys' /\ \E j \in 1 .. Len(waiters'[t]) : waiters'[t][j] = waiters[t][i]
    OBVIOUS
  <2>1. i > 1 /\ t \in Keys'
    BY <1>1, <1>2, <1>3, <1>4
  <2>2. i - 1 \in 1 .. Len(waiters'[t]) /\ waiters'[t][i - 1] = waiters[t][i]
    BY <1>1, <1>5, <2>1
  <2> QED
    BY <2>1, <2>2
<1>9. TakenOut(oldest)
  BY <1>3, <1>6, <1>7, <1>8 DEF TakenOut
<1>10. /\ timers' = timers \ oldest /\ threadOf' = threadOf
       /\ Resolve(oldest, Outcome(granted)) /\ Outcome(granted) \in {"granted", "denied"}
  BY DEF RespondAll, Outcome, oldest
<1> QED
  BY <1>9, <1>10, SettlingStep

\* Clearing a thread takes all its waits out.
LEMMA ClearThreadSettles ==
    ASSUME ConsentIInv, NEW t \in Threads, ClearThread(t)
    PROVE  ConsentIInv'
<1> DEFINE S == Range(waiters[t])
<1>1. t \in Keys /\ waiters[t] \in Seq(Waits)
  BY DEF ClearThread, ConsentIInv, ConsentTypeOK
<1>2. \A w : w \in S <=> \E i \in 1 .. Len(waiters[t]) : waiters[t][i] = w
  BY <1>1, LenProperties DEF Range
<1>3. Keys' = Keys \ {t} /\ \A s \in Keys' : waiters'[s] = waiters[s]
  BY DEF ClearThread, Restrict, Keys
<1>4. \A s \in Keys : /\ waiters[s] \in Seq(Waits) /\ waiters[s] # << >>
                      /\ \A i \in 1 .. Len(waiters[s]) : threadOf[waiters[s][i]] = s
                      /\ \A i, j \in 1 .. Len(waiters[s]) : waiters[s][i] = waiters[s][j] => i = j
  BY DEF ConsentIInv, ConsentTypeOK, WaitersInSync
<1> HIDE DEF S
<1>5. TakenOut(S)
  BY <1>1, <1>2, <1>3, <1>4 DEF TakenOut
<1> QED
  BY <1>5, SettlingStep DEF ClearThread, S

\* A new wait goes to the end of the queue of its thread.
LEMMA WaitKeepsInvariant ==
    ASSUME ConsentIInv, NEW w \in Waits, NEW t \in Threads, WaitForConsent(w, t)
    PROVE  ConsentIInv'
<1> DEFINE q == QueueOf(t)
           u == Append(q, w)
<1>1. q \in Seq(Waits)
  BY EmptySeq DEF QueueOf, ConsentIInv, ConsentTypeOK
<1>2. /\ u \in Seq(Waits) /\ u # << >> /\ Len(u) = Len(q) + 1 /\ Len(q) \in Nat
      /\ \A i \in 1 .. Len(q) : u[i] = q[i]
      /\ u[Len(q) + 1] = w
  BY <1>1, AppendProperties, LenProperties
<1>3. t \notin Keys => Len(q) = 0
  BY EmptySeq DEF QueueOf
<1>4. waiters' = SetQueue(t, u) /\ Unused(w)
  BY DEF WaitForConsent
<1> HIDE DEF q, u
<1>5. Keys' = Keys \cup {t} /\ \A s \in Keys' : waiters'[s] = IF s = t THEN u ELSE waiters[s]
  BY <1>2, <1>4 DEF SetQueue, Keys
<1>6. \A s \in Keys : \A i \in 1 .. Len(waiters[s]) : waiters[s][i] # w
  BY <1>4 DEF Unused
<1>7. t \in Keys => q = waiters[t]
  BY DEF q, QueueOf
<1>8. /\ timers' = timers \cup {w}
      /\ threadOf' = [threadOf EXCEPT ![w] = t]
      /\ verdict' = [verdict EXCEPT ![w] = "pending"]
  BY DEF WaitForConsent
<1>9. ConsentTypeOK'
  BY <1>2, <1>5, <1>8 DEF ConsentIInv, ConsentTypeOK, Verdicts, Keys
<1>10. \A v \in Waits : /\ threadOf'[v] = IF v = w THEN t ELSE threadOf[v]
                        /\ verdict'[v] = IF v = w THEN "pending" ELSE verdict[v]
  BY <1>8 DEF ConsentIInv, ConsentTypeOK
<1>11. \A s \in Keys' : \A i \in 1 .. Len(waiters'[s]) :
          /\ verdict'[waiters'[s][i]] = "pending" /\ threadOf'[waiters'[s][i]] = s
          /\ \A j \in 1 .. Len(waiters'[s]) : waiters'[s][i] = waiters'[s][j] => i = j
  <2> SUFFICES ASSUME NEW s \in Keys', NEW i \in 1 .. Len(waiters'[s])
               PROVE  /\ verdict'[waiters'[s][i]] = "pending" /\ threadOf'[waiters'[s][i]] = s
                      /\ \A j \in 1 .. Len(waiters'[s]) : waiters'[s][i] = waiters'[s][j] => i = j
    OBVIOUS
  <2>1. CASE s # t
    <3>1. s \in Keys /\ waiters'[s] = waiters[s]
      BY <2>1, <1>5
    <3>2. waiters[s][i] \in Waits
      BY <3>1, LenProperties DEF ConsentIInv, ConsentTypeOK
    <3> QED
      BY <3>1, <3>2, <1>6, <1>10 DEF ConsentIInv, WaitersInSync
  <2>2. CASE s = t
    <3>1. waiters'[s] = u
      BY <2>2, <1>5
    <3>2. \A j \in 1 .. Len(q) : /\ q[j] \in Waits /\ q[j] # w
                                 /\ verdict[q[j]] = "pending" /\ threadOf[q[j]] = t
                                 /\ \A k \in 1 .. Len(q) : q[j] = q[k] => j = k
      BY <1>1, <1>3, <1>6, <1>7, LenProperties DEF ConsentIInv, WaitersInSync
    <3>3. \A j \in 1 .. Len(u) : j \in 1 .. Len(q) \/ j = Len(q) + 1
      BY <1>2
    <3> QED
      BY <2>2, <3>1, <3>2, <3>3, <1>2, <1>10
  <2> QED
    BY <2>1, <2>2
<1>12. \A v \in Waits : verdict'[v] = "pending" =>
          /\ threadOf'[v] \in Keys'
          /\ \E i \in 1 .. Len(waiters'[threadOf'[v]]) : waiters'[threadOf'[v]][i] = v
  <2> SUFFICES ASSUME NEW v \in Waits, verdict'[v] = "pending"
               PROVE  /\ threadOf'[v] \in Keys'
                      /\ \E i \in 1 .. Len(waiters'[threadOf'[v]]) : waiters'[threadOf'[v]][i] = v
    OBVIOUS
  <2>1. CASE v = w
    <3>1. threadOf'[v] = t /\ t \in Keys' /\ waiters'[t] = u
      BY <2>1, <1>5, <1>10
    <3>2. Len(q) + 1 \in 1 .. Len(u) /\ u[Len(q) + 1] = v
      BY <2>1, <1>2
    <3> QED
      BY <3>1, <3>2
  <2>2. CASE v # w
    <3>1. verdict[v] = "pending" /\ threadOf'[v] = threadOf[v]
      BY <2>2, <1>10
    <3>2. threadOf[v] \in Keys
      BY <3>1 DEF ConsentIInv, WaitersInSync
    <3>3. PICK i \in 1 .. Len(waiters[threadOf[v]]) : waiters[threadOf[v]][i] = v
      BY <3>1 DEF ConsentIInv, WaitersInSync
    <3>4. CASE threadOf[v] = t
      <4>1. waiters'[t] = u /\ q = waiters[t] /\ i \in 1 .. Len(q) /\ q[i] = v
        BY <3>2, <3>3, <3>4, <1>5, <1>7
      <4>2. i \in 1 .. Len(u) /\ u[i] = v
        BY <4>1, <1>2
      <4> QED
        BY <3>1, <3>2, <3>4, <4>1, <4>2, <1>5
    <3>5. CASE threadOf[v] # t
      BY <3>1, <3>2, <3>3, <3>5, <1>5
    <3> QED
      BY <3>4, <3>5
  <2> QED
    BY <2>1, <2>2
<1>13. \A s \in Keys' : waiters'[s] # << >>
  BY <1>2, <1>5 DEF ConsentIInv, WaitersInSync
<1>14. timers' = {v \in Waits : verdict'[v] = "pending"}
  BY <1>8, <1>10 DEF ConsentIInv, WaitersInSync
<1>15. WaitersInSync'
  BY <1>11, <1>12, <1>13, <1>14 DEF WaitersInSync, Keys
<1> QED
  BY <1>9, <1>15 DEF ConsentIInv

-----------------------------------------------------------------------------
LEMMA ConsentStartsRight == ConsentInit => ConsentIInv
  BY NoneAssumption
  DEF ConsentInit, NoWaits, ConsentIInv, ConsentTypeOK, WaitersInSync, Keys, Verdicts

LEMMA ConsentStepKeeps == ConsentIInv /\ [ConsentNext]_consentVars => ConsentIInv'
<1> SUFFICES ASSUME ConsentIInv, [ConsentNext]_consentVars PROVE ConsentIInv'
  OBVIOUS
<1>1. CASE \E w \in Waits, t \in Threads : WaitForConsent(w, t)
  BY <1>1, WaitKeepsInvariant
<1>2. CASE \E w \in Waits : Timeout(w)
  BY <1>2, TimeoutSettles
<1>3. CASE \E t \in Threads, granted \in BOOLEAN : Respond(t, granted)
  BY <1>3, RespondSettles
<1>4. CASE \E granted \in BOOLEAN : RespondAll(granted)
  BY <1>4, RespondAllSettles
<1>5. CASE \E t \in Threads : ClearThread(t)
  BY <1>5, ClearThreadSettles
<1>6. CASE UNCHANGED consentVars
  BY <1>6 DEF consentVars, ConsentIInv, ConsentTypeOK, WaitersInSync, Keys
<1> QED
  BY <1>1, <1>2, <1>3, <1>4, <1>5, <1>6 DEF ConsentNext

\* The map, the timers and the promises stay in step under every operation.
THEOREM ConsentInductive == ConsentSpec => []ConsentIInv
  BY ConsentStartsRight, ConsentStepKeeps, PTL DEF ConsentSpec

\* Every variable of the consent manager keeps its type.
THEOREM ConsentTypeCorrect == ConsentSpec => []ConsentTypeOK
<1>1. ConsentIInv => ConsentTypeOK
  BY DEF ConsentIInv
<1> QED
  BY <1>1, ConsentInductive, PTL

\* A wait stands in the map, with its timer set, exactly while its promise is
\* open, so that no prompt is lost, kept or settled behind the map's back.
THEOREM WaitersStayInSync == ConsentSpec => []WaitersInSync
<1>1. ConsentIInv => WaitersInSync
  BY DEF ConsentIInv
<1> QED
  BY <1>1, ConsentInductive, PTL

\* Only the oldest wait of a thread is ever granted.
THEOREM OldestGranted == ConsentSpec => OldestIsGranted
<1> DEFINE Oldest == \A w \in Waits : verdict[w] = "pending" /\ verdict'[w] = "granted" =>
                        QueueOf(threadOf[w])[1] = w
<1>1. ASSUME ConsentIInv, [ConsentNext]_consentVars PROVE Oldest
  <2> SUFFICES ASSUME NEW w \in Waits, verdict[w] = "pending", verdict'[w] = "granted"
               PROVE  QueueOf(threadOf[w])[1] = w
    OBVIOUS
  <2>f. \A t \in Keys : /\ waiters[t] # << >> /\ waiters[t] \in Seq(Waits)
                        /\ \A i \in 1 .. Len(waiters[t]) : threadOf[waiters[t][i]] = t
    BY <1>1 DEF ConsentIInv, ConsentTypeOK, WaitersInSync
  <2>h. \A t \in Keys : Head(waiters[t]) = waiters[t][1] /\ threadOf[Head(waiters[t])] = t
    BY <2>f, DropOne
  <2>1. CASE \E v \in Waits, t \in Threads : WaitForConsent(v, t)
    BY <1>1, <2>1 DEF WaitForConsent, ConsentIInv, ConsentTypeOK
  <2>2. CASE \E v \in Waits : Timeout(v)
    BY <2>2 DEF Timeout, Resolve
  <2>3. CASE \E t \in Threads, granted \in BOOLEAN : Respond(t, granted)
    <3>1. PICK t \in Threads : t \in Keys /\ w = Head(waiters[t])
      BY <2>3 DEF Respond, Resolve
    <3> QED
      BY <3>1, <2>h DEF QueueOf
  <2>4. CASE \E granted \in BOOLEAN : RespondAll(granted)
    <3>1. PICK t \in Keys : w = Head(waiters[t])
      BY <2>4 DEF RespondAll, Resolve
    <3> QED
      BY <3>1, <2>h DEF QueueOf
  <2>5. CASE \E t \in Threads : ClearThread(t)
    BY <2>5 DEF ClearThread, Resolve
  <2>6. CASE UNCHANGED consentVars
    BY <2>6 DEF consentVars
  <2> QED
    BY <1>1, <2>1, <2>2, <2>3, <2>4, <2>5, <2>6 DEF ConsentNext
<1>2. ConsentIInv /\ [ConsentNext]_consentVars => [Oldest]_consentVars
  BY <1>1
<1> QED
  BY <1>2, ConsentInductive, PTL DEF ConsentSpec, OldestIsGranted

-----------------------------------------------------------------------------
(* The dialog: its inductive invariant *)

\* What may be under way to the webview: an event that shows the bar names a prompt.
Events ==
    {m \in [kind : {"start", "waiting", "granted", "denied"},
            thread : Threads, prompt : Waits \cup {None}] :
        m.kind = "waiting" => m.prompt \in Waits}

\* What may be under way to the extension host.
Messages ==
    [kind : {"cancel"}, thread : Threads, run : 1 .. MaxRuns] \cup
    [kind : {"consent"}, thread : Threads, prompt : Waits, granted : BOOLEAN]

ChannelsSound == toPanel \in Seq(Events) /\ toHost \in Seq(Messages)

\* A stream that asks knows what it asks.
PromptsKnown ==
    \A t \in Threads : pc[t] \in {"asking", "announced", "waiting"} => prompt[t] \in Waits

\* A stream belongs to a request with a number.
RequestsNumbered == \A t \in Threads : pc[t] # "idle" => run[t] >= 1

IInv ==
    /\ ConsentIInv
    /\ TypeOK
    /\ WaitHasItsStream
    /\ ChannelsSound
    /\ PromptsKnown
    /\ RequestsNumbered

LEMMA InitEstablishes == Init => IInv
<1> SUFFICES ASSUME Init PROVE IInv
  OBVIOUS
<1>1. ConsentIInv
  BY ConsentStartsRight DEF Init
<1>2. toPanel \in Seq(Events) /\ toHost \in Seq(Messages) /\ Len(toPanel) = 0 /\ Len(toHost) = 0
  BY EmptySeq DEF Init
<1>3. TypeOK
  BY <1>1, <1>2, DialogAssumption DEF Init, TypeOK, PC, ConsentIInv
<1>4. WaitHasItsStream
  BY DEF Init, ConsentInit, WaitHasItsStream
<1>5. PromptsKnown /\ RequestsNumbered
  BY DEF Init, PromptsKnown, RequestsNumbered
<1> QED
  BY <1>1, <1>2, <1>3, <1>4, <1>5 DEF IInv, ChannelsSound

-----------------------------------------------------------------------------
(* The messages *)

\* The elements of sound channels are those of TypeOK.
LEMMA ChannelsTyped ==
    ASSUME NEW p \in Seq(Events), NEW h \in Seq(Messages)
    PROVE  /\ \A i \in 1 .. Len(p) :
                 p[i] \in [kind : {"start", "waiting", "granted", "denied"},
                           thread : Threads, prompt : Waits \cup {None}]
           /\ \A i \in 1 .. Len(h) :
                 h[i] \in [kind : {"cancel"}, thread : Threads, run : 1 .. MaxRuns] \cup
                   [kind : {"consent"}, thread : Threads, prompt : Waits, granted : BOOLEAN]
<1>1. \A i \in 1 .. Len(p) : p[i] \in Events
  BY LenProperties
<1>2. \A i \in 1 .. Len(h) : h[i] \in Messages
  BY LenProperties
<1> QED
  BY <1>1, <1>2 DEF Events, Messages

\* Posting an event keeps the channel to the webview sound.
LEMMA PostSound ==
    ASSUME toPanel \in Seq(Events), NEW t \in Threads,
           NEW k \in {"start", "waiting", "granted", "denied"},
           prompt'[t] \in Waits \cup {None}, k = "waiting" => prompt'[t] \in Waits, Post(k, t)
    PROVE  toPanel' \in Seq(Events)
<1> DEFINE m == [kind |-> k, thread |-> t, prompt |-> prompt'[t]]
<1>1. m \in Events
  BY DEF Events
<1>2. toPanel' = Append(toPanel, m)
  BY DEF Post
<1> HIDE DEF m
<1> QED
  BY <1>1, <1>2, AppendProperties

\* The next message is one, and the others stay in order.
LEMMA NextEvent ==
    ASSUME toPanel \in Seq(Events), toPanel # << >>
    PROVE  Head(toPanel) \in Events /\ Tail(toPanel) \in Seq(Events)
  BY HeadTailProperties

LEMMA NextMessage ==
    ASSUME toHost \in Seq(Messages), toHost # << >>
    PROVE  Head(toHost) \in Messages /\ Tail(toHost) \in Seq(Messages)
  BY HeadTailProperties

-----------------------------------------------------------------------------
(* What the dialog does to the waits *)

\* A step that opens no wait, and leaves the streams alone that are still
\* suspended on one, keeps every open wait with its stream.
LEMMA WaitsKept ==
    ASSUME IInv, threadOf' = threadOf,
           \A w \in Waits : verdict'[w] = "pending" => verdict[w] = "pending",
           \A t \in Threads : pc[t] = "waiting" /\ verdict[prompt[t]] = "pending" =>
               \/ pc'[t] = "waiting" /\ prompt'[t] = prompt[t]
               \/ verdict'[prompt[t]] # "pending"
    PROVE  WaitHasItsStream'
<1> SUFFICES ASSUME NEW w \in Waits, verdict'[w] = "pending"
             PROVE  pc'[threadOf[w]] = "waiting" /\ prompt'[threadOf[w]] = w
  BY DEF WaitHasItsStream
<1>1. verdict[w] = "pending"
  OBVIOUS
<1>2. threadOf[w] \in Threads
  BY <1>1 DEF IInv, ConsentIInv, ConsentTypeOK, WaitersInSync
<1>3. pc[threadOf[w]] = "waiting" /\ prompt[threadOf[w]] = w
  BY <1>1 DEF IInv, WaitHasItsStream
<1> QED
  BY <1>1, <1>2, <1>3

\* Answers, timeouts and clears open no wait.
LEMMA OnlySettles ==
    ASSUME \/ \E w \in Waits : Timeout(w)
           \/ \E t \in Threads, granted \in BOOLEAN : Respond(t, granted)
           \/ \E t \in Threads : ClearThread(t)
           \/ UNCHANGED consentVars
    PROVE  /\ threadOf' = threadOf
           /\ \A w \in Waits : verdict'[w] = "pending" => verdict[w] = "pending"
<1>1. CASE \E w \in Waits : Timeout(w)
  BY <1>1 DEF Timeout, Resolve
<1>2. CASE \E t \in Threads, granted \in BOOLEAN : Respond(t, granted)
  BY <1>2 DEF Respond, Resolve, Outcome
<1>3. CASE \E t \in Threads : ClearThread(t)
  BY <1>3 DEF ClearThread, Resolve
<1>4. CASE UNCHANGED consentVars
  BY <1>4 DEF consentVars
<1> QED
  BY <1>1, <1>2, <1>3, <1>4

\* The answer at the head of the channel is one the consent manager takes.
LEMMA AnswerRead ==
    ASSUME IInv, HostReceivesAnswer
    PROVE  /\ \/ \E t \in Threads, granted \in BOOLEAN : Respond(t, granted)
              \/ UNCHANGED consentVars
           /\ toHost' \in Seq(Messages)
<1> DEFINE m == Head(toHost)
<1>1. m \in Messages /\ toHost' \in Seq(Messages) /\ m.kind = "consent"
  BY NextMessage DEF HostReceivesAnswer, IInv, ChannelsSound
<1>2. m.thread \in Threads /\ m.granted \in BOOLEAN
  BY <1>1 DEF Messages
<1>3. Respond(m.thread, m.granted) \/ UNCHANGED consentVars
  BY DEF HostReceivesAnswer
<1> HIDE DEF m
<1> QED
  BY <1>1, <1>2, <1>3

LEMMA CancelRead ==
    ASSUME IInv, HostReceivesCancel
    PROVE  /\ (\E t \in Threads : ClearThread(t)) \/ UNCHANGED consentVars
           /\ toHost' \in Seq(Messages)
<1> DEFINE m == Head(toHost)
<1>1. m \in Messages /\ toHost' \in Seq(Messages)
  BY NextMessage DEF HostReceivesCancel, IInv, ChannelsSound
<1>2. m.thread \in Threads
  BY <1>1 DEF Messages
<1>3. ClearThread(m.thread) \/ UNCHANGED consentVars
  BY DEF HostReceivesCancel, CancelStream
<1> HIDE DEF m
<1> QED
  BY <1>1, <1>2, <1>3

\* Whatever the stream, the webview and the host do, what they do to the consent
\* manager is an operation of it.
LEMMA StepUsesConsent == IInv /\ [Next]_vars => [ConsentNext]_consentVars
<1> SUFFICES ASSUME IInv, [Next]_vars PROVE ConsentNext \/ UNCHANGED consentVars
  BY DEF consentVars
<1>1. ASSUME NEW t \in Threads, Start(t) \/ StartStream(t) \/ Announce(t) \/ GoOn(t) \/ Stop(t)
      PROVE  UNCHANGED consentVars
  BY <1>1 DEF Start, StartStream, Announce, GoOn, Stop
<1>2. ASSUME NEW t \in Threads, Finish(t) \/ BreakOff(t)
      PROVE  ClearThread(t) \/ UNCHANGED consentVars
  BY <1>2 DEF Finish, BreakOff, End
<1>3. ASSUME NEW t \in Threads, StartWaiting(t)
      PROVE  \E w \in Waits : WaitForConsent(w, t)
  <2>1. prompt[t] \in Waits
    BY <1>3 DEF StartWaiting, IInv, PromptsKnown
  <2> QED
    BY <1>3, <2>1 DEF StartWaiting
<1>4. ASSUME NEW t \in Threads, NEW w \in Waits, Ask(t, w) PROVE UNCHANGED consentVars
  BY <1>4 DEF Ask
<1>5. ASSUME NEW w \in Waits, PromptTimesOut(w) PROVE Timeout(w)
  BY <1>5 DEF PromptTimesOut
<1>6. ASSUME PanelReceives \/ \E granted \in BOOLEAN : Click(granted) PROVE UNCHANGED consentVars
  BY <1>6 DEF PanelReceives, Click
<1>7. CASE HostReceivesAnswer
  BY <1>7, AnswerRead DEF ConsentNext
<1>8. CASE HostReceivesCancel
  BY <1>8, CancelRead DEF ConsentNext
<1>9. CASE UNCHANGED vars
  BY <1>9 DEF vars
<1> QED
  BY <1>1, <1>2, <1>3, <1>4, <1>5, <1>6, <1>7, <1>8, <1>9 DEF Next, ConsentNext

-----------------------------------------------------------------------------
(* The invariant, action by action *)

\* The type of what the dialog keeps beside the waits and the channels.
DialogTypeOK ==
    /\ pc \in [Threads -> PC]
    /\ prompt \in [Threads -> Waits \cup {None}]
    /\ run \in [Threads -> 0 .. MaxRuns]
    /\ active \subseteq Threads /\ streaming \subseteq Threads
    /\ panel \in [thread : Threads, prompt : Waits] \cup {None}
    /\ clicks \in 0 .. MaxClicks

LEMMA TypePutTogether ==
    ASSUME ConsentIInv', DialogTypeOK', ChannelsSound'
    PROVE  TypeOK'
  BY ChannelsTyped DEF ConsentIInv, DialogTypeOK, ChannelsSound, TypeOK

\* A step of the webview or of a timer touches no stream.
LEMMA StreamsUntouched ==
    ASSUME IInv, UNCHANGED <<pc, prompt, run>>,
           \/ \E w \in Waits : Timeout(w)
           \/ \E t \in Threads, granted \in BOOLEAN : Respond(t, granted)
           \/ \E t \in Threads : ClearThread(t)
           \/ UNCHANGED consentVars
    PROVE  WaitHasItsStream' /\ PromptsKnown' /\ RequestsNumbered'
<1>1. WaitHasItsStream'
  BY OnlySettles, WaitsKept
<1>2. PromptsKnown' /\ RequestsNumbered'
  BY DEF IInv, PromptsKnown, RequestsNumbered
<1> QED
  BY <1>1, <1>2

LEMMA StartKeeps ==
    ASSUME IInv, NEW t \in Threads, Start(t), ConsentIInv'
    PROVE  IInv'
<1> USE DEF IInv
<1>1. /\ pc[t] = "idle" /\ run[t] < MaxRuns /\ pc' = [pc EXCEPT ![t] = "starting"]
      /\ run' = [run EXCEPT ![t] = @ + 1] /\ active' = active \cup {t} /\ prompt' = prompt
      /\ Post("start", t) /\ UNCHANGED <<streaming, panel, toHost, clicks>>
      /\ threadOf' = threadOf /\ verdict' = verdict
  BY DEF Start, consentVars
<1>2. \A s \in Threads : /\ pc'[s] = IF s = t THEN "starting" ELSE pc[s]
                         /\ run'[s] = IF s = t THEN run[t] + 1 ELSE run[s]
  BY <1>1 DEF TypeOK
<1>3. run[t] + 1 \in 1 .. MaxRuns
  BY <1>1, DialogAssumption DEF TypeOK
<1>4. DialogTypeOK'
  <2>1. pc' \in [Threads -> PC] /\ run' \in [Threads -> 0 .. MaxRuns]
    BY <1>1, <1>3 DEF TypeOK, PC
  <2> QED
    BY <1>1, <2>1 DEF TypeOK, DialogTypeOK
<1>5. ChannelsSound'
  BY <1>1, PostSound DEF TypeOK, ChannelsSound
<1>6. WaitHasItsStream'
  BY <1>1, <1>2, WaitsKept
<1>7. PromptsKnown' /\ RequestsNumbered'
  BY <1>1, <1>2, <1>3 DEF PromptsKnown, RequestsNumbered
<1> QED
  BY <1>4, <1>5, <1>6, <1>7, TypePutTogether

\* startStream() opens no wait: the thread has none.
LEMMA StartStreamKeeps ==
    ASSUME IInv, NEW t \in Threads, StartStream(t), ConsentIInv'
    PROVE  IInv'
<1> USE DEF IInv
<1>1. /\ pc[t] = "starting" /\ pc' = [pc EXCEPT ![t] = "running"]
      /\ streaming' = streaming \cup {t} /\ prompt' = prompt /\ Post("start", t)
      /\ UNCHANGED <<run, active, panel, toHost, clicks>>
      /\ threadOf' = threadOf /\ verdict' = verdict
  BY DEF StartStream, consentVars
<1>2. \A s \in Threads : pc'[s] = IF s = t THEN "running" ELSE pc[s]
  BY <1>1 DEF TypeOK
<1>3. DialogTypeOK'
  BY <1>1 DEF TypeOK, DialogTypeOK, PC
<1>4. ChannelsSound'
  BY <1>1, PostSound DEF TypeOK, ChannelsSound
<1>5. WaitHasItsStream'
  BY <1>1, <1>2, WaitsKept
<1>6. PromptsKnown' /\ RequestsNumbered'
  BY <1>1, <1>2 DEF PromptsKnown, RequestsNumbered
<1> QED
  BY <1>3, <1>4, <1>5, <1>6, TypePutTogether

\* Only a stream with nothing open ends, and it clears its thread.
LEMMA EndKeeps ==
    ASSUME IInv, NEW t \in Threads, Finish(t) \/ BreakOff(t), ConsentIInv'
    PROVE  IInv'
<1> USE DEF IInv
<1>1. /\ pc[t] \in {"starting", "running", "asking"} \/ (pc[t] = "waiting" /\ verdict[prompt[t]] # "pending")
      /\ pc' = [pc EXCEPT ![t] = "idle"] /\ active' = active \ {t}
      /\ streaming' = streaming \ {t}
      /\ ClearThread(t) \/ UNCHANGED consentVars
      /\ UNCHANGED <<prompt, run, toPanel, panel, toHost, clicks>>
  BY DEF Finish, BreakOff, End, Settled
<1>2. \A s \in Threads : pc'[s] = IF s = t THEN "idle" ELSE pc[s]
  BY <1>1 DEF TypeOK
<1>3. DialogTypeOK'
  BY <1>1 DEF TypeOK, DialogTypeOK, PC
<1>4. ChannelsSound'
  BY <1>1 DEF ChannelsSound
<1>5. WaitHasItsStream'
  BY <1>1, <1>2, OnlySettles, WaitsKept
<1>6. PromptsKnown' /\ RequestsNumbered'
  BY <1>1, <1>2 DEF PromptsKnown, RequestsNumbered
<1> QED
  BY <1>3, <1>4, <1>5, <1>6, TypePutTogether

LEMMA AskKeeps ==
    ASSUME IInv, NEW t \in Threads, NEW w \in Waits, Ask(t, w), ConsentIInv'
    PROVE  IInv'
<1> USE DEF IInv
<1>1. /\ pc[t] = "running" /\ pc' = [pc EXCEPT ![t] = "asking"]
      /\ prompt' = [prompt EXCEPT ![t] = w] /\ Post("waiting", t)
      /\ threadOf' = threadOf /\ verdict' = verdict
      /\ UNCHANGED <<run, active, streaming, panel, toHost, clicks>>
  BY DEF Ask, consentVars
<1>2. \A s \in Threads : /\ pc'[s] = IF s = t THEN "asking" ELSE pc[s]
                         /\ prompt'[s] = IF s = t THEN w ELSE prompt[s]
  BY <1>1 DEF TypeOK
<1>3. DialogTypeOK'
  BY <1>1 DEF TypeOK, DialogTypeOK, PC
<1>4. ChannelsSound'
  BY <1>1, <1>2, PostSound DEF ChannelsSound
<1>5. WaitHasItsStream'
  BY <1>1, <1>2, WaitsKept
<1>6. PromptsKnown' /\ RequestsNumbered'
  BY <1>1, <1>2 DEF PromptsKnown, RequestsNumbered
<1> QED
  BY <1>3, <1>4, <1>5, <1>6, TypePutTogether

LEMMA AnnounceKeeps ==
    ASSUME IInv, NEW t \in Threads, Announce(t), ConsentIInv'
    PROVE  IInv'
<1> USE DEF IInv
<1>1. /\ pc[t] = "asking" /\ pc' = [pc EXCEPT ![t] = "announced"]
      /\ threadOf' = threadOf /\ verdict' = verdict
      /\ UNCHANGED <<prompt, run, active, streaming, toPanel, panel, toHost, clicks>>
  BY DEF Announce, consentVars
<1>2. \A s \in Threads : pc'[s] = IF s = t THEN "announced" ELSE pc[s]
  BY <1>1 DEF TypeOK
<1>3. DialogTypeOK'
  BY <1>1 DEF TypeOK, DialogTypeOK, PC
<1>4. ChannelsSound'
  BY <1>1 DEF ChannelsSound
<1>5. WaitHasItsStream'
  BY <1>1, <1>2, WaitsKept
<1>6. PromptsKnown' /\ RequestsNumbered'
  BY <1>1, <1>2 DEF PromptsKnown, RequestsNumbered
<1> QED
  BY <1>3, <1>4, <1>5, <1>6, TypePutTogether

\* The wait that is opened is the one its stream is then suspended on; the
\* thread had none.
LEMMA StartWaitingKeeps ==
    ASSUME IInv, NEW t \in Threads, StartWaiting(t), ConsentIInv'
    PROVE  IInv'
<1> USE DEF IInv
<1>1. /\ pc[t] = "announced" /\ pc' = [pc EXCEPT ![t] = "waiting"]
      /\ threadOf' = [threadOf EXCEPT ![prompt[t]] = t]
      /\ verdict' = [verdict EXCEPT ![prompt[t]] = "pending"]
      /\ UNCHANGED <<prompt, run, active, streaming, toPanel, panel, toHost, clicks>>
  BY DEF StartWaiting, WaitForConsent
<1>2. \A s \in Threads : pc'[s] = IF s = t THEN "waiting" ELSE pc[s]
  BY <1>1 DEF TypeOK
<1>3. prompt[t] \in Waits
  BY <1>1 DEF PromptsKnown
<1>4. DialogTypeOK'
  BY <1>1 DEF TypeOK, DialogTypeOK, PC
<1>5. ChannelsSound'
  BY <1>1 DEF ChannelsSound
<1>6. WaitHasItsStream'
  <2> SUFFICES ASSUME NEW w \in Waits, verdict'[w] = "pending"
               PROVE  pc'[threadOf'[w]] = "waiting" /\ prompt'[threadOf'[w]] = w
    BY DEF WaitHasItsStream
  <2>1. CASE w = prompt[t]
    <3>1. threadOf'[w] = t
      BY <2>1, <1>1, <1>3 DEF ConsentIInv, ConsentTypeOK
    <3> QED
      BY <3>1, <2>1, <1>1, <1>2
  <2>2. CASE w # prompt[t]
    <3>1. threadOf'[w] = threadOf[w] /\ verdict[w] = "pending"
      BY <2>2, <1>1 DEF ConsentIInv, ConsentTypeOK
    <3>2. pc[threadOf[w]] = "waiting" /\ prompt[threadOf[w]] = w
      BY <3>1 DEF WaitHasItsStream
    <3>3. threadOf[w] \in Threads
      BY <3>1 DEF ConsentIInv, ConsentTypeOK, WaitersInSync
    <3> QED
      BY <3>1, <3>2, <3>3, <1>1, <1>2
  <2> QED
    BY <2>1, <2>2
<1>7. PromptsKnown' /\ RequestsNumbered'
  BY <1>1, <1>2, <1>3 DEF PromptsKnown, RequestsNumbered
<1> QED
  BY <1>4, <1>5, <1>6, <1>7, TypePutTogether

LEMMA GoOnKeeps ==
    ASSUME IInv, NEW t \in Threads, GoOn(t), ConsentIInv'
    PROVE  IInv'
<1> USE DEF IInv
<1>1. /\ pc[t] = "waiting" /\ verdict[prompt[t]] \in {"granted", "denied"}
      /\ pc' = [pc EXCEPT ![t] = "running"] /\ prompt' = prompt /\ Post(verdict[prompt[t]], t)
      /\ threadOf' = threadOf /\ verdict' = verdict
      /\ UNCHANGED <<run, active, streaming, panel, toHost, clicks>>
  BY DEF GoOn, Settled, consentVars
<1>2. \A s \in Threads : pc'[s] = IF s = t THEN "running" ELSE pc[s]
  BY <1>1 DEF TypeOK
<1>3. DialogTypeOK'
  BY <1>1 DEF TypeOK, DialogTypeOK, PC
<1>4. ChannelsSound'
  <2>1. prompt'[t] \in Waits \cup {None} /\ verdict[prompt[t]] # "waiting"
    BY <1>1 DEF TypeOK
  <2>2. toPanel' \in Seq(Events)
    BY <1>1, <2>1, PostSound DEF ChannelsSound
  <2> QED
    BY <1>1, <2>2 DEF ChannelsSound
<1>5. WaitHasItsStream'
  BY <1>1, <1>2, WaitsKept
<1>6. PromptsKnown' /\ RequestsNumbered'
  BY <1>1, <1>2 DEF PromptsKnown, RequestsNumbered
<1> QED
  BY <1>3, <1>4, <1>5, <1>6, TypePutTogether

LEMMA TimeoutKeeps ==
    ASSUME IInv, NEW w \in Waits, PromptTimesOut(w), ConsentIInv'
    PROVE  IInv'
<1> USE DEF IInv
<1>1. UNCHANGED <<pc, prompt, run, active, streaming, toPanel, panel, toHost, clicks>> /\ Timeout(w)
  BY DEF PromptTimesOut
<1>2. WaitHasItsStream' /\ PromptsKnown' /\ RequestsNumbered'
  BY <1>1, StreamsUntouched
<1>3. DialogTypeOK' /\ ChannelsSound'
  BY <1>1 DEF TypeOK, DialogTypeOK, ChannelsSound
<1> QED
  BY <1>2, <1>3, TypePutTogether

\* The bar shows a prompt, or nothing, or what it showed.
LEMMA PanelKeeps ==
    ASSUME IInv, PanelReceives, ConsentIInv'
    PROVE  IInv'
<1> USE DEF IInv
<1>1. /\ toPanel # << >> /\ panel' = Shown(Head(toPanel)) /\ toPanel' = Tail(toPanel)
      /\ UNCHANGED <<pc, prompt, run, active, streaming, toHost, clicks>> /\ UNCHANGED consentVars
  BY DEF PanelReceives
<1>2. Head(toPanel) \in Events /\ Tail(toPanel) \in Seq(Events)
  BY <1>1, NextEvent DEF ChannelsSound
<1>3. WaitHasItsStream' /\ PromptsKnown' /\ RequestsNumbered'
  BY <1>1, StreamsUntouched
<1>4. panel' \in [thread : Threads, prompt : Waits] \cup {None}
  <2> DEFINE m == Head(toPanel)
  <2>1. /\ m.kind \in {"start", "waiting", "granted", "denied"} /\ m.thread \in Threads
        /\ m.kind = "waiting" => m.prompt \in Waits
    BY <1>2 DEF Events
  <2>2. panel' = Shown(m)
    BY <1>1
  <2> HIDE DEF m
  <2>3. CASE m.kind = "waiting"
    BY <2>1, <2>2, <2>3 DEF Shown
  <2>4. CASE m.kind \in {"start", "granted"}
    BY <2>2, <2>4 DEF Shown
  <2>5. CASE m.kind = "denied"
    BY <2>2, <2>5 DEF Shown, TypeOK
  <2> QED
    BY <2>1, <2>3, <2>4, <2>5
<1>5. DialogTypeOK' /\ ChannelsSound'
  BY <1>1, <1>2, <1>4 DEF TypeOK, DialogTypeOK, ChannelsSound
<1> QED
  BY <1>3, <1>5, TypePutTogether

LEMMA ClickKeeps ==
    ASSUME IInv, NEW granted \in BOOLEAN, Click(granted), ConsentIInv'
    PROVE  IInv'
<1> USE DEF IInv
<1> DEFINE m == [kind |-> "consent", thread |-> panel.thread, prompt |-> panel.prompt,
                 granted |-> granted]
<1>1. /\ panel # None /\ clicks < MaxClicks /\ clicks' = clicks + 1
      /\ toHost' = Append(toHost, m) /\ UNCHANGED consentVars
      /\ UNCHANGED <<pc, prompt, run, active, streaming, toPanel, panel>>
  BY DEF Click
<1>2. m \in Messages
  BY <1>1 DEF TypeOK, Messages
<1> HIDE DEF m
<1>3. toHost' \in Seq(Messages)
  BY <1>1, <1>2, AppendProperties DEF ChannelsSound
<1>4. WaitHasItsStream' /\ PromptsKnown' /\ RequestsNumbered'
  BY <1>1, StreamsUntouched
<1>5. clicks' \in 0 .. MaxClicks
  BY <1>1, DialogAssumption DEF TypeOK
<1>6. DialogTypeOK' /\ ChannelsSound'
  BY <1>1, <1>3, <1>5 DEF TypeOK, DialogTypeOK, ChannelsSound
<1> QED
  BY <1>4, <1>6, TypePutTogether

LEMMA StopKeeps ==
    ASSUME IInv, NEW t \in Threads, Stop(t), ConsentIInv'
    PROVE  IInv'
<1> USE DEF IInv
<1> DEFINE m == [kind |-> "cancel", thread |-> t, run |-> run[t]]
<1>1. /\ pc[t] # "idle" /\ clicks < MaxClicks /\ clicks' = clicks + 1 /\ panel' = None
      /\ toHost' = Append(toHost, m) /\ UNCHANGED consentVars
      /\ UNCHANGED <<pc, prompt, run, active, streaming, toPanel>>
  BY DEF Stop
<1>2. run[t] \in 1 .. MaxRuns
  BY <1>1, DialogAssumption DEF TypeOK, RequestsNumbered
<1>3. m \in Messages
  BY <1>2 DEF Messages
<1> HIDE DEF m
<1>4. toHost' \in Seq(Messages)
  BY <1>1, <1>3, AppendProperties DEF ChannelsSound
<1>5. WaitHasItsStream' /\ PromptsKnown' /\ RequestsNumbered'
  BY <1>1, StreamsUntouched
<1>6. clicks' \in 0 .. MaxClicks
  BY <1>1, DialogAssumption DEF TypeOK
<1>7. DialogTypeOK' /\ ChannelsSound'
  BY <1>1, <1>4, <1>6 DEF TypeOK, DialogTypeOK, ChannelsSound
<1> QED
  BY <1>5, <1>7, TypePutTogether

LEMMA HostKeeps ==
    ASSUME IInv, HostReceivesAnswer \/ HostReceivesCancel, ConsentIInv'
    PROVE  IInv'
<1> USE DEF IInv
<1>1. /\ UNCHANGED <<pc, prompt, run, toPanel, panel, clicks>>
      /\ active' \subseteq active /\ streaming' \subseteq streaming
  BY DEF HostReceivesAnswer, HostReceivesCancel, CancelStream
<1>2. /\ \/ \E t \in Threads, granted \in BOOLEAN : Respond(t, granted)
         \/ \E t \in Threads : ClearThread(t)
         \/ UNCHANGED consentVars
      /\ toHost' \in Seq(Messages)
  BY AnswerRead, CancelRead
<1>3. WaitHasItsStream' /\ PromptsKnown' /\ RequestsNumbered'
  BY <1>1, <1>2, StreamsUntouched
<1>4. DialogTypeOK' /\ ChannelsSound'
  BY <1>1, <1>2 DEF TypeOK, DialogTypeOK, ChannelsSound
<1> QED
  BY <1>3, <1>4, TypePutTogether

LEMMA NextPreserves == IInv /\ [Next]_vars => IInv'
<1> SUFFICES ASSUME IInv, [Next]_vars PROVE IInv'
  OBVIOUS
<1>c. ConsentIInv'
  BY StepUsesConsent, ConsentStepKeeps DEF IInv
<1>1. ASSUME NEW t \in Threads,
             \/ Start(t) \/ StartStream(t) \/ Finish(t) \/ BreakOff(t)
             \/ Announce(t) \/ StartWaiting(t) \/ GoOn(t)
      PROVE  IInv'
  BY <1>1, <1>c, StartKeeps, StartStreamKeeps, EndKeeps, AnnounceKeeps, StartWaitingKeeps, GoOnKeeps
<1>2. ASSUME NEW t \in Threads, Stop(t) PROVE IInv'
  BY <1>2, <1>c, StopKeeps
<1>3. ASSUME NEW t \in Threads, NEW w \in Waits, Ask(t, w) PROVE IInv'
  BY <1>3, <1>c, AskKeeps
<1>4. ASSUME NEW w \in Waits, PromptTimesOut(w) PROVE IInv'
  BY <1>4, <1>c, TimeoutKeeps
<1>5. CASE PanelReceives \/ \E granted \in BOOLEAN : Click(granted)
  BY <1>5, <1>c, PanelKeeps, ClickKeeps
<1>6. CASE HostReceivesAnswer \/ HostReceivesCancel
  BY <1>6, <1>c, HostKeeps
<1>7. CASE UNCHANGED vars
  <2> USE DEF IInv
  <2>1. UNCHANGED <<pc, prompt, run, active, streaming, toPanel, panel, toHost, clicks>>
        /\ UNCHANGED consentVars
    BY <1>7 DEF vars
  <2>2. WaitHasItsStream' /\ PromptsKnown' /\ RequestsNumbered'
    BY <2>1, StreamsUntouched
  <2>3. DialogTypeOK' /\ ChannelsSound'
    BY <2>1 DEF TypeOK, DialogTypeOK, ChannelsSound
  <2> QED
    BY <1>c, <2>2, <2>3, TypePutTogether
<1> QED
  BY <1>1, <1>2, <1>3, <1>4, <1>5, <1>6, <1>7 DEF Next

\* The invariant the theorems below follow from: beside what they state, what
\* is under way between webview and host names prompts and requests that exist.
THEOREM InductiveInvariant == Spec => []IInv
  BY InitEstablishes, NextPreserves, PTL DEF Spec

\* Every variable keeps its type, for any number of conversations and messages:
\* the bar shows a prompt or nothing, and no message names what does not exist.
THEOREM TypeCorrect == Spec => []TypeOK
<1>1. IInv => TypeOK
  BY DEF IInv
<1> QED
  BY <1>1, InductiveInvariant, PTL

\* Every open wait belongs to a stream that is suspended on it, however prompts,
\* late answers, timeouts and stops cross.
THEOREM WaitsHaveStreams == Spec => []WaitHasItsStream
<1>1. IInv => WaitHasItsStream
  BY DEF IInv
<1> QED
  BY <1>1, InductiveInvariant, PTL

\* The consent manager in the dialog is the one of ConsentManager: its waiters,
\* timers and promises agree there too, and only the oldest wait is granted.
THEOREM DialogUsesConsent == Spec => ConsentSpec /\ []WaitersInSync /\ OldestIsGranted
<1>1. Init => ConsentInit
  BY DEF Init
<1>2. Spec => ConsentSpec
  BY <1>1, InductiveInvariant, StepUsesConsent, PTL DEF Spec, ConsentSpec
<1> QED
  BY <1>2, WaitersStayInSync, OldestGranted, PTL

=================================================================================
