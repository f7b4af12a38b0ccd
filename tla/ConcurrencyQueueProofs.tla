------------------------ MODULE ConcurrencyQueueProofs ------------------------
(***************************************************************************)
(* Theorems about ConcurrencyQueue, for every set of calls and ids, every  *)
(* set of limits and every starvation age.                                 *)
(***************************************************************************)
EXTENDS ConcurrencyQueue, TLAPS, SequenceTheorems, FiniteSetTheorems

-----------------------------------------------------------------------------
(* The sequence operators the queue is built from *)

\* Taking the first n elements off leaves the others in their order.
LEMMA DropFront ==
    ASSUME NEW S, NEW w \in Seq(S), NEW n \in 0 .. Len(w)
    PROVE  /\ SubSeq(w, n + 1, Len(w)) \in Seq(S)
           /\ Len(SubSeq(w, n + 1, Len(w))) = Len(w) - n
           /\ \A i \in 1 .. Len(w) - n : SubSeq(w, n + 1, Len(w))[i] = w[i + n]
<1>1. \A i \in n + 1 .. Len(w) : w[i] \in S
  BY ElementOfSeq
<1>2. /\ SubSeq(w, n + 1, Len(w)) \in Seq(S)
      /\ Len(SubSeq(w, n + 1, Len(w))) = IF n + 1 <= Len(w) THEN Len(w) - (n + 1) + 1 ELSE 0
      /\ \A i \in 1 .. Len(w) - (n + 1) + 1 :
            SubSeq(w, n + 1, Len(w))[i] = w[n + 1 + i - 1]
  BY <1>1, SubSeqProperties, LenProperties
<1> QED
  BY <1>2, LenProperties

\* RemoveAt closes the gap the element leaves.
LEMMA RemoveOne ==
    ASSUME NEW S, NEW w \in Seq(S), NEW k \in 1 .. Len(w)
    PROVE  /\ RemoveAt(w, k) \in Seq(S)
           /\ Len(RemoveAt(w, k)) = Len(w) - 1
           /\ \A i \in 1 .. Len(w) - 1 :
                 RemoveAt(w, k)[i] = IF i < k THEN w[i] ELSE w[i + 1]
<1> DEFINE u == SubSeq(w, 1, k - 1)
           v == SubSeq(w, k + 1, Len(w))
<1>1. /\ u \in Seq(S) /\ Len(u) = k - 1
      /\ \A i \in 1 .. k - 1 : u[i] = w[i]
  BY SubSeqProperties, LenProperties, ElementOfSeq
<1>2. /\ v \in Seq(S) /\ Len(v) = Len(w) - k
      /\ \A i \in 1 .. Len(w) - k : v[i] = w[i + k]
  BY DropFront, LenProperties
<1>3. /\ u \o v \in Seq(S)
      /\ Len(u \o v) = Len(u) + Len(v)
      /\ \A i \in 1 .. Len(u) + Len(v) :
            (u \o v)[i] = IF i <= Len(u) THEN u[i] ELSE v[i - Len(u)]
  BY <1>1, <1>2, ConcatProperties
<1>4. RemoveAt(w, k) = u \o v
  BY DEF RemoveAt
<1> HIDE DEF u, v
<1>5. Len(w) \in Nat /\ Len(u) + Len(v) = Len(w) - 1
  BY <1>1, <1>2, LenProperties
<1>6. ASSUME NEW i \in 1 .. Len(w) - 1
      PROVE  RemoveAt(w, k)[i] = IF i < k THEN w[i] ELSE w[i + 1]
  <2>1. CASE i < k
    BY <2>1, <1>1, <1>3, <1>4, <1>5
  <2>2. CASE i >= k
    <3>1. i - (k - 1) \in 1 .. Len(w) - k
      BY <2>2, <1>5
    <3>2. (u \o v)[i] = v[i - (k - 1)]
      BY <2>2, <1>1, <1>3, <1>5
    <3>3. v[i - (k - 1)] = w[i - (k - 1) + k]
      BY <3>1, <1>2
    <3> QED
      BY <2>2, <3>2, <3>3, <1>4, <1>5
  <2> QED
    BY <2>1, <2>2, <1>5
<1> QED
  BY <1>3, <1>4, <1>5, <1>6

\* t is w with e put in at place k.
Inserted(t, w, k, e) ==
    /\ Len(t) = Len(w) + 1
    /\ \A i \in 1 .. Len(w) + 1 :
          t[i] = IF i < k THEN w[i] ELSE IF i = k THEN e ELSE w[i - 1]

\* InsertAt shifts the elements after the new one.
LEMMA InsertOne ==
    ASSUME NEW S, NEW w \in Seq(S), NEW k \in 1 .. Len(w) + 1, NEW e \in S
    PROVE  InsertAt(w, k, e) \in Seq(S) /\ Inserted(InsertAt(w, k, e), w, k, e)
<1> DEFINE u == SubSeq(w, 1, k - 1)
           m == u \o <<e>>
           v == SubSeq(w, k, Len(w))
<1>1. /\ u \in Seq(S) /\ Len(u) = k - 1
      /\ \A i \in 1 .. k - 1 : u[i] = w[i]
  BY SubSeqProperties, LenProperties, ElementOfSeq
<1>2. /\ v \in Seq(S) /\ Len(v) = Len(w) + 1 - k
      /\ \A i \in 1 .. Len(w) + 1 - k : v[i] = w[i + k - 1]
  <2>1. k - 1 \in 0 .. Len(w) /\ (k - 1) + 1 = k
    BY LenProperties
  <2> QED
    BY <2>1, DropFront, LenProperties
<1>3. /\ <<e>> \in Seq(S) /\ Len(<<e>>) = 1 /\ <<e>>[1] = e
  OBVIOUS
<1>4. /\ m \in Seq(S) /\ Len(m) = k
      /\ \A i \in 1 .. k : m[i] = IF i < k THEN w[i] ELSE e
  <2>1. /\ u \o <<e>> \in Seq(S)
        /\ Len(u \o <<e>>) = Len(u) + Len(<<e>>)
        /\ \A i \in 1 .. Len(u) + Len(<<e>>) :
              (u \o <<e>>)[i] = IF i <= Len(u) THEN u[i] ELSE <<e>>[i - Len(u)]
    BY <1>1, <1>3, ConcatProperties
  <2> HIDE DEF u
  <2> QED
    BY <2>1, <1>1, <1>3, LenProperties
<1>5. /\ m \o v \in Seq(S)
      /\ Len(m \o v) = Len(m) + Len(v)
      /\ \A i \in 1 .. Len(m) + Len(v) :
            (m \o v)[i] = IF i <= Len(m) THEN m[i] ELSE v[i - Len(m)]
  <2>1. m \in Seq(S) /\ v \in Seq(S)
    BY <1>2, <1>4
  <2> HIDE DEF m, v
  <2> QED
    BY <2>1, ConcatProperties
<1>6. InsertAt(w, k, e) = m \o v
  BY DEF InsertAt
<1> HIDE DEF u, v, m
<1> QED
  BY <1>2, <1>4, <1>5, <1>6, LenProperties DEF Inserted

-----------------------------------------------------------------------------
(* drain() *)

\* The inductive invariant: no part of it is inductive without the others.
IInv ==
    /\ TypeOK
    /\ IndexInSync
    /\ SlotAccounting
    /\ NoIdleSlotWhileWaiting
    /\ QueueSorted

\* A set of ids is finite, and drain() starts no more items than wait, nor than
\* the limit leaves room for.
LEMMA BatchFacts ==
    ASSUME TypeOK, NEW r \in SUBSET Ids, NEW m \in 1 .. 10
    PROVE  /\ IsFiniteSet(r) /\ Cardinality(r) \in Nat
           /\ Batch(r, m) \in 0 .. Len(waiting)
           /\ Batch(r, m) > 0 => Cardinality(r) + Batch(r, m) <= m
           /\ Batch(r, m) < Len(waiting) => Cardinality(r) + Batch(r, m) >= m
<1>1. IsFiniteSet(r) /\ Cardinality(r) \in Nat
  BY CallsAssumption, FS_Subset, FS_CardinalityType
<1>2. Len(waiting) \in Nat
  BY LenProperties DEF TypeOK
<1> QED
  BY <1>1, <1>2 DEF Batch, Free

\* The ids of the first n items are n ids.
LEMMA ServedIds ==
    ASSUME TypeOK, IndexInSync, NEW n \in 0 .. Len(waiting)
    PROVE  /\ {it.id : it \in Served(n)} = {waiting[i].id : i \in 1 .. n}
           /\ {it.call : it \in Served(n)} = {waiting[i].call : i \in 1 .. n}
           /\ {it.id : it \in Served(n)} \subseteq Ids
           /\ IsFiniteSet({it.id : it \in Served(n)})
           /\ Cardinality({it.id : it \in Served(n)}) = n
<1> DEFINE T == {waiting[i].id : i \in 1 .. n}
           f == [i \in 1 .. n |-> waiting[i].id]
<1>1. {it.id : it \in Served(n)} = T
  BY DEF Served
<1>2. {it.call : it \in Served(n)} = {waiting[i].call : i \in 1 .. n}
  BY DEF Served
<1>3. \A i \in 1 .. n : waiting[i] \in Item /\ i \in 1 .. Len(waiting)
  BY LenProperties, ElementOfSeq DEF TypeOK
<1>4. T \subseteq Ids
  BY <1>3 DEF Item
<1>5. f \in Bijection(1 .. n, T)
  BY <1>3 DEF IndexInSync, Bijection, Injection, IsInjective, Surjection
<1>6. ExistsBijection(1 .. n, T)
  BY <1>5 DEF ExistsBijection
<1>7. IsFiniteSet(1 .. n) /\ Cardinality(1 .. n) = n
  BY FS_Interval
<1>8. IsFiniteSet(T) /\ Cardinality(T) = n
  BY <1>6, <1>7, FS_Bijection
<1> QED
  BY <1>1, <1>2, <1>4, <1>8

\* Drained(n, r, m, p): what drain() leaves when it serves the first n items.
Drained(n, r, m, p) ==
    /\ waiting' \in Seq(Item)
    /\ Len(waiting') = Len(waiting) - n
    /\ \A i \in 1 .. Len(waiting) - n : waiting'[i] = waiting[i + n]
    /\ \A x : x \in waitingIds' <=>
          x \in waitingIds /\ ~ \E i \in 1 .. n : waiting[i].id = x
    /\ \A x : x \in running' <=> x \in r \/ \E i \in 1 .. n : waiting[i].id = x
    /\ running' \subseteq Ids
    /\ promise' \in [Calls -> PromiseStates]
    /\ \A c \in Calls : promise'[c] = IF \E i \in 1 .. n : waiting[i].call = c
                                    THEN "granted" ELSE p[c]
    /\ n > 0 => Cardinality(running') <= m
    /\ n < Len(waiting) => Cardinality(running') >= m

LEMMA DrainFacts ==
    ASSUME TypeOK, IndexInSync,
           NEW r \in SUBSET Ids, r \cap waitingIds = {},
           NEW m \in 1 .. 10,
           NEW p \in [Calls -> PromiseStates], Drain(r, m, p)
    PROVE  \E n \in 0 .. Len(waiting) : Drained(n, r, m, p)
<1> DEFINE n == Batch(r, m)
           G == {waiting[i].id : i \in 1 .. n}
<1>1. /\ IsFiniteSet(r) /\ Cardinality(r) \in Nat
      /\ n \in 0 .. Len(waiting)
      /\ n > 0 => Cardinality(r) + n <= m
      /\ n < Len(waiting) => Cardinality(r) + n >= m
  BY BatchFacts
<1>2. /\ waiting' \in Seq(Item)
      /\ Len(waiting') = Len(waiting) - n
      /\ \A i \in 1 .. Len(waiting) - n : waiting'[i] = waiting[i + n]
  <2>1. waiting' = SubSeq(waiting, n + 1, Len(waiting))
    BY DEF Drain
  <2>2. waiting \in Seq(Item)
    BY DEF TypeOK
  <2>3. /\ SubSeq(waiting, n + 1, Len(waiting)) \in Seq(Item)
        /\ Len(SubSeq(waiting, n + 1, Len(waiting))) = Len(waiting) - n
        /\ \A i \in 1 .. Len(waiting) - n :
              SubSeq(waiting, n + 1, Len(waiting))[i] = waiting[i + n]
    BY <1>1, <2>2, DropFront
  <2> QED
    BY <2>1, <2>3
<1>3. /\ {it.id : it \in Served(n)} = G
      /\ {it.call : it \in Served(n)} = {waiting[i].call : i \in 1 .. n}
      /\ G \subseteq Ids /\ IsFiniteSet(G) /\ Cardinality(G) = n
  BY <1>1, ServedIds
<1>4. waitingIds' = waitingIds \ G /\ running' = r \cup G
  BY <1>3 DEF Drain
<1>5. promise' = [c \in Calls |-> IF \E i \in 1 .. n : waiting[i].call = c
                                 THEN "granted" ELSE p[c]]
  <2>1. promise' = [c \in Calls |-> IF c \in {it.call : it \in Served(n)}
                                   THEN "granted" ELSE p[c]]
    BY DEF Drain
  <2>2. \A c : c \in {it.call : it \in Served(n)}
                 <=> \E i \in 1 .. n : waiting[i].call = c
    BY <1>3
  <2> QED
    BY <2>1, <2>2, Zenon
<1>6. r \cap G = {}
  BY <1>1 DEF IndexInSync
<1>7. Cardinality(r \cup G) = Cardinality(r) + n
  <2>1. Cardinality(r \cup G) = Cardinality(r) + Cardinality(G) - Cardinality(r \cap G)
    BY <1>1, <1>3, FS_Union
  <2>2. Cardinality(r \cap G) = 0
    BY <1>6, FS_EmptySet
  <2> QED
    BY <2>1, <2>2, <1>1, <1>3
<1>8. promise' \in [Calls -> PromiseStates]
  BY <1>5 DEF PromiseStates
<1>9. \A x : x \in G <=> \E i \in 1 .. n : waiting[i].id = x
  OBVIOUS
<1> HIDE DEF n
<1> QED
  BY <1>1, <1>2, <1>3, <1>4, <1>5, <1>7, <1>8, <1>9 DEF Drained

-----------------------------------------------------------------------------
(* Each action preserves the inductive invariant *)

LEMMA LimitIsPositive == \A m \in Limits : m \in 1 .. 10
  BY LimitsAssumption

LEMMA AcquireRefusedKeeps ==
    ASSUME IInv, NEW c \in Calls, NEW id \in Ids, AcquireRefused(c, id)
    PROVE  IInv'
<1> USE DEF IInv, AcquireRefused, Idle
<1>1. TypeOK'
  BY DEF TypeOK, PromiseStates
<1>2. IndexInSync'
  BY DEF IndexInSync, TypeOK
<1>3. SlotAccounting'
  <2>1. Holders' = Holders
    BY DEF Holders, TypeOK
  <2> QED
    BY <2>1 DEF SlotAccounting
<1>4. NoIdleSlotWhileWaiting' /\ QueueSorted'
  BY DEF NoIdleSlotWhileWaiting, QueueSorted, Outranks
<1> QED
  BY <1>1, <1>2, <1>3, <1>4

LEMMA AcquireAbortedKeeps ==
    ASSUME IInv, NEW c \in Calls, NEW id \in Ids, AcquireAborted(c, id)
    PROVE  IInv'
<1> USE DEF IInv, AcquireAborted, MustWait, Idle
<1>1. TypeOK'
  BY DEF TypeOK, PromiseStates
<1>2. IndexInSync'
  BY DEF IndexInSync, TypeOK
<1>3. SlotAccounting'
  <2>1. Holders' = Holders
    BY DEF Holders, TypeOK
  <2> QED
    BY <2>1 DEF SlotAccounting
<1>4. NoIdleSlotWhileWaiting' /\ QueueSorted'
  BY DEF NoIdleSlotWhileWaiting, QueueSorted, Outranks
<1> QED
  BY <1>1, <1>2, <1>3, <1>4

LEMMA AcquireSlotKeeps ==
    ASSUME IInv, NEW c \in Calls, NEW id \in Ids, AcquireSlot(c, id)
    PROVE  IInv'
<1> USE DEF IInv, AcquireSlot, Idle
<1>1. TypeOK'
  BY DEF TypeOK, PromiseStates
<1>2. waiting = << >>
  <2>1. TypeOK /\ running \in SUBSET Ids /\ maxConcurrent \in 1 .. 10
    BY LimitIsPositive DEF TypeOK
  <2>2. Cardinality(running) \in Nat
    BY <2>1, BatchFacts
  <2> QED
    BY <2>1, <2>2 DEF NoIdleSlotWhileWaiting
<1>3. IndexInSync'
  BY <1>2 DEF IndexInSync, TypeOK
<1>4. SlotAccounting'
  <2>1. Holders' = Holders \cup {c} /\ c \notin Holders
    BY DEF Holders, TypeOK
  <2>2. (\A d \in Holders : idOf'[d] = idOf[d]) /\ idOf'[c] = id
    BY <2>1 DEF TypeOK, Holders
  <2>3. running = {idOf[d] : d \in Holders}
    BY DEF SlotAccounting
  <2>4. running' = {idOf'[d] : d \in Holders'}
    BY <2>1, <2>2, <2>3
  <2>5. \A x, y \in Holders : idOf[x] = idOf[y] => x = y
    BY DEF SlotAccounting
  <2>6. \A x \in Holders : idOf[x] # id
    BY <2>3
  <2>7. \A x, y \in Holders' : idOf'[x] = idOf'[y] => x = y
    BY <2>1, <2>2, <2>5, <2>6
  <2>8. ~disposed'
    OBVIOUS
  <2> QED
    BY <2>4, <2>7, <2>8 DEF SlotAccounting
<1>5. NoIdleSlotWhileWaiting' /\ QueueSorted'
  BY <1>2 DEF NoIdleSlotWhileWaiting, QueueSorted
<1> QED
  BY <1>1, <1>3, <1>4, <1>5

LEMMA AcquireQueuedKeeps ==
    ASSUME IInv, NEW c \in Calls, NEW id \in Ids, NEW prio \in Priorities,
           NEW watched \in BOOLEAN, AcquireQueued(c, id, prio, watched)
    PROVE  IInv'
<1> USE DEF IInv, AcquireQueued, MustWait, Idle
<1> DEFINE e == [call |-> c, id |-> id, priority |-> prio, age |-> 0]
<1>1. e \in Item
  BY AgeAssumption DEF Item
<1>2. PICK k \in 1 .. Len(waiting) + 1 :
         /\ \A j \in 1 .. k - 1 : waiting[j].priority >= prio
         /\ k <= Len(waiting) => waiting[k].priority < prio
         /\ waiting' = InsertAt(waiting, k, e)
  BY DEF InsertSorted
<1>3. Len(waiting) \in Nat /\ \A i \in 1 .. Len(waiting) : waiting[i] \in Item
  BY LenProperties, ElementOfSeq DEF TypeOK
<1>5. waitingIds' = waitingIds \cup {id}
  BY DEF InsertSorted
<1>6. e.call = c /\ e.id = id /\ e.priority = prio /\ e.age = 0
  OBVIOUS
<1>f. /\ TypeOK /\ IndexInSync /\ SlotAccounting /\ NoIdleSlotWhileWaiting /\ QueueSorted
      /\ promise' = [promise EXCEPT ![c] = "pending"]
      /\ idOf' = [idOf EXCEPT ![c] = id]
      /\ armed' = IF watched THEN armed \cup {c} ELSE armed
      /\ UNCHANGED <<maxConcurrent, running, disposed>>
      /\ promise[c] # "pending" /\ promise[c] # "granted"
      /\ id \notin running \cup waitingIds /\ ~disposed
      /\ Cardinality(running) >= maxConcurrent
  OBVIOUS
<1> HIDE DEF e, IInv, AcquireQueued, MustWait, Idle
<1>4. /\ waiting' \in Seq(Item)
      /\ Len(waiting') = Len(waiting) + 1
      /\ \A i \in 1 .. Len(waiting) + 1 :
            waiting'[i] = IF i < k THEN waiting[i]
                          ELSE IF i = k THEN e ELSE waiting[i - 1]
  <2>1. waiting \in Seq(Item)
    BY <1>f DEF TypeOK
  <2>2. InsertAt(waiting, k, e) \in Seq(Item) /\ Inserted(InsertAt(waiting, k, e), waiting, k, e)
    BY <1>1, <2>1, InsertOne
  <2>3. waiting' = InsertAt(waiting, k, e)
    BY <1>2
  <2> QED
    BY <2>2, <2>3 DEF Inserted
<1>7. TypeOK'
  BY <1>f, <1>4, <1>5 DEF TypeOK, PromiseStates
<1>8. \A i \in 1 .. Len(waiting) : waiting[i].call # c /\ waiting[i].id # id
  BY <1>f DEF IndexInSync
<1>9. IndexInSync'
  <2>1. waitingIds' = {waiting'[i].id : i \in 1 .. Len(waiting')}
    <3>1. ASSUME NEW x \in waitingIds'
          PROVE  \E i \in 1 .. Len(waiting') : x = waiting'[i].id
      <4>1. CASE x = id
        BY <4>1, <1>3, <1>4, <1>6
      <4>2. CASE x # id
        <5>1. PICK i \in 1 .. Len(waiting) : x = waiting[i].id
          BY <1>f, <4>2, <1>5 DEF IndexInSync
        <5>2. CASE i < k
          BY <5>1, <5>2, <1>3, <1>4
        <5>3. CASE i >= k
          <6>1. i + 1 \in 1 .. Len(waiting') /\ waiting'[i + 1] = waiting[i]
            BY <5>3, <1>3, <1>4
          <6> QED
            BY <6>1, <5>1
        <5> QED
          BY <5>2, <5>3, <1>3
      <4> QED
        BY <4>1, <4>2
    <3>2. ASSUME NEW i \in 1 .. Len(waiting')
          PROVE  waiting'[i].id \in waitingIds'
      <4>1. \A j \in 1 .. Len(waiting) : waiting[j].id \in waitingIds
        BY <1>f DEF IndexInSync
      <4>2. CASE i = k
        BY <4>2, <1>4, <1>5, <1>6
      <4>3. CASE i < k
        BY <4>1, <4>3, <1>3, <1>4, <1>5
      <4>4. CASE i > k
        <5>1. i - 1 \in 1 .. Len(waiting) /\ waiting'[i] = waiting[i - 1]
          BY <4>4, <1>3, <1>4
        <5> QED
          BY <4>1, <5>1, <1>5
      <4> QED
        BY <4>2, <4>3, <4>4, <1>3, <1>4
    <3> QED
      BY <3>1, <3>2
  <2>2. waitingIds' \cap running' = {}
    BY <1>f, <1>5 DEF IndexInSync
  <2>3. ASSUME NEW i \in 1 .. Len(waiting'), NEW j \in 1 .. Len(waiting'),
               waiting'[i].id = waiting'[j].id \/ waiting'[i].call = waiting'[j].call
        PROVE  i = j
    <3>1. \A x, y \in 1 .. Len(waiting) :
             waiting[x].id = waiting[y].id \/ waiting[x].call = waiting[y].call => x = y
      BY <1>f DEF IndexInSync
    <3>2. ASSUME NEW x \in 1 .. Len(waiting'), x # k
          PROVE  /\ (IF x < k THEN x ELSE x - 1) \in 1 .. Len(waiting)
                 /\ waiting'[x] = waiting[IF x < k THEN x ELSE x - 1]
      BY <3>2, <1>3, <1>4
    <3>3. CASE i = k /\ j # k
      BY <2>3, <3>2, <3>3, <1>4, <1>6, <1>8
    <3>4. CASE i # k /\ j = k
      BY <2>3, <3>2, <3>4, <1>4, <1>6, <1>8
    <3>5. CASE i # k /\ j # k
      <4>1. (IF i < k THEN i ELSE i - 1) = (IF j < k THEN j ELSE j - 1)
        <5> DEFINE x == IF i < k THEN i ELSE i - 1
                   y == IF j < k THEN j ELSE j - 1
        <5>1. /\ x \in 1 .. Len(waiting) /\ waiting'[i] = waiting[x]
              /\ y \in 1 .. Len(waiting) /\ waiting'[j] = waiting[y]
          BY <3>2, <3>5
        <5> HIDE DEF x, y
        <5>2. x = y
          BY <5>1, <2>3, <3>1
        <5> QED
          BY <5>2 DEF x, y
      <4> QED
        BY <4>1, <3>5, <1>3
    <3> QED
      BY <3>3, <3>4, <3>5
  <2>4. ASSUME NEW i \in 1 .. Len(waiting')
        PROVE  /\ promise'[waiting'[i].call] = "pending"
               /\ idOf'[waiting'[i].call] = waiting'[i].id
    <3>1. \A j \in 1 .. Len(waiting) :
             /\ waiting[j].call \in Calls \ {c}
             /\ promise[waiting[j].call] = "pending"
             /\ idOf[waiting[j].call] = waiting[j].id
      BY <1>f, <1>3, <1>8 DEF IndexInSync, Item
    <3>2. CASE i = k
      BY <1>f, <3>2, <1>4, <1>6 DEF TypeOK
    <3>3. CASE i < k
      <4>1. i \in 1 .. Len(waiting) /\ waiting'[i] = waiting[i]
        BY <3>3, <1>3, <1>4
      <4> QED
        BY <1>f, <4>1, <3>1 DEF TypeOK
    <3>4. CASE i > k
      <4>1. i - 1 \in 1 .. Len(waiting) /\ waiting'[i] = waiting[i - 1]
        BY <3>4, <1>3, <1>4
      <4> QED
        BY <1>f, <4>1, <3>1 DEF TypeOK
    <3> QED
      BY <3>2, <3>3, <3>4, <1>3, <1>4
  <2>5. ASSUME NEW x \in Calls, promise'[x] = "pending"
        PROVE  \E i \in 1 .. Len(waiting') : waiting'[i].call = x
    <3>1. CASE x = c
      BY <3>1, <1>3, <1>4, <1>6
    <3>2. CASE x # c
      <4>1. promise[x] = "pending"
        BY <1>f, <2>5, <3>2 DEF TypeOK
      <4>2. PICK i \in 1 .. Len(waiting) : waiting[i].call = x
        BY <1>f, <4>1 DEF IndexInSync
      <4>3. CASE i < k
        BY <4>2, <4>3, <1>3, <1>4
      <4>4. CASE i >= k
        <5>1. i + 1 \in 1 .. Len(waiting') /\ waiting'[i + 1] = waiting[i]
          BY <4>4, <1>3, <1>4
        <5> QED
          BY <5>1, <4>2
      <4> QED
        BY <4>3, <4>4, <1>3
    <3> QED
      BY <3>1, <3>2
  <2> QED
    BY <1>f, <2>1, <2>2, <2>3, <2>4, <2>5 DEF IndexInSync
<1>10. SlotAccounting'
  <2>1. Holders' = Holders /\ c \notin Holders
    BY <1>f DEF Holders, TypeOK
  <2>2. \A d \in Holders : idOf'[d] = idOf[d]
    BY <1>f, <2>1 DEF Holders, TypeOK
  <2> QED
    BY <1>f, <2>1, <2>2 DEF SlotAccounting
<1>11. NoIdleSlotWhileWaiting'
  BY <1>f DEF NoIdleSlotWhileWaiting
<1>12. QueueSorted'
  <2>1. SUFFICES ASSUME NEW i \in 1 .. Len(waiting'), NEW j \in 1 .. Len(waiting'), i < j
                 PROVE  Outranks(waiting'[i], waiting'[j])
    BY <1>f DEF QueueSorted, Outranks
  <2>2. \A x \in 1 .. Len(waiting) : /\ waiting[x].priority \in 0 .. 2
                                     /\ waiting[x].age \in 0 .. MaxAge
    BY <1>3 DEF Item, Priorities, BACKGROUND, USER
  <2>3. MaxAge \in Nat /\ prio \in 0 .. 2
    BY AgeAssumption DEF Priorities, BACKGROUND, USER
  <2>4. \A x, y \in 1 .. Len(waiting) : x < y => Outranks(waiting[x], waiting[y])
    BY <1>f DEF QueueSorted
  <2>5. CASE i < k /\ j < k
    BY <2>1, <2>4, <2>5, <1>3, <1>4
  <2>6. CASE i < k /\ j = k
    <3>1. i \in 1 .. k - 1 /\ i \in 1 .. Len(waiting)
      BY <2>6, <1>3, <1>4
    <3>2. waiting'[i] = waiting[i] /\ waiting'[j] = e
      BY <2>6, <3>1, <1>3, <1>4
    <3>3. waiting[i].priority >= prio /\ waiting[i].priority \in Int /\ prio \in Int
      BY <3>1, <1>2, <2>2, <2>3
    <3>4. waiting[i].age >= 0 /\ waiting[i].age \in Int
      BY <3>1, <2>2, <2>3
    <3>5. waiting[i].priority > prio \/ waiting[i].priority = prio
      BY <3>3
    <3> QED
      BY <3>2, <3>4, <3>5, <1>6 DEF Outranks
  <2>7. CASE i < k /\ j > k
    <3>1. j - 1 \in 1 .. Len(waiting) /\ i < j - 1 /\ waiting'[j] = waiting[j - 1]
      BY <2>7, <1>3, <1>4
    <3> QED
      BY <3>1, <2>4, <2>7, <1>3, <1>4
  <2>8. CASE i = k /\ j > k
    <3>1. j - 1 \in 1 .. Len(waiting) /\ waiting'[j] = waiting[j - 1] /\ waiting'[i] = e
      BY <2>8, <1>3, <1>4
    <3>2. k \in 1 .. Len(waiting) /\ waiting[k].priority < prio
      BY <2>8, <1>2, <1>3, <1>4
    <3>3. waiting[j - 1].priority <= waiting[k].priority
      <4>1. k <= j - 1 /\ k \in Int /\ j \in Int
        BY <2>8, <1>3, <1>4
      <4>2. CASE k < j - 1
        <5>1. Outranks(waiting[k], waiting[j - 1])
          BY <4>2, <3>1, <3>2, <2>4
        <5>2. waiting[k].priority \in Int /\ waiting[j - 1].priority \in Int
          BY <3>1, <3>2, <2>2
        <5> QED
          BY <5>1, <5>2 DEF Outranks
      <4>3. CASE k = j - 1
        BY <4>3, <3>2, <2>2
      <4> QED
        BY <4>1, <4>2, <4>3
    <3>4. waiting[j - 1].priority \in Int /\ waiting[k].priority \in Int /\ prio \in Int
      BY <3>1, <3>2, <2>2, <2>3
    <3>5. prio > waiting[j - 1].priority
      BY <3>2, <3>3, <3>4
    <3>6. waiting'[i].priority > waiting'[j].priority
      BY <3>1, <3>5, <1>6
    <3> QED
      BY <3>6 DEF Outranks
  <2>9. CASE i > k /\ j > k
    <3>1. /\ j - 1 \in 1 .. Len(waiting) /\ waiting'[j] = waiting[j - 1]
          /\ i - 1 \in 1 .. Len(waiting) /\ waiting'[i] = waiting[i - 1]
          /\ i - 1 < j - 1
      BY <2>1, <2>9, <1>3, <1>4
    <3> QED
      BY <3>1, <2>4
  <2> QED
    BY <2>1, <2>5, <2>6, <2>7, <2>8, <2>9, <1>3, <1>4
<1> QED
  BY <1>7, <1>9, <1>10, <1>11, <1>12 DEF IInv

\* drain() preserves the invariant whatever its caller freed before: H is who
\* still holds a slot, r their ids, m the limit and p the promises.
LEMMA DrainKeeps ==
    ASSUME IInv, ~disposed, disposed' = disposed, idOf' = idOf, armed' = armed,
           NEW m \in Limits, maxConcurrent' = m,
           NEW H \in SUBSET Holders,
           NEW r, \A x : x \in r <=> \E c \in H : idOf[c] = x,
           NEW p \in [Calls -> PromiseStates],
           \A c \in Calls : /\ p[c] = "pending" <=> promise[c] = "pending"
                            /\ p[c] = "granted" <=> c \in H,
           Drain(r, m, p)
    PROVE  IInv'
<1>0. TypeOK /\ IndexInSync /\ SlotAccounting /\ QueueSorted /\ m \in 1 .. 10
  BY LimitIsPositive DEF IInv
<1>1. r \subseteq running
  BY <1>0 DEF SlotAccounting
<1>2. r \in SUBSET Ids /\ r \cap waitingIds = {}
  BY <1>0, <1>1 DEF TypeOK, IndexInSync
<1>a. PICK n \in 0 .. Len(waiting) : Drained(n, r, m, p)
  BY <1>0, <1>2, DrainFacts
<1>3. /\ waiting' \in Seq(Item)
      /\ Len(waiting') = Len(waiting) - n
      /\ \A i \in 1 .. Len(waiting) - n : waiting'[i] = waiting[i + n]
      /\ \A x : x \in waitingIds' <=>
            x \in waitingIds /\ ~ \E i \in 1 .. n : waiting[i].id = x
      /\ \A x : x \in running' <=> x \in r \/ \E i \in 1 .. n : waiting[i].id = x
      /\ running' \subseteq Ids
      /\ promise' \in [Calls -> PromiseStates]
      /\ \A c \in Calls : promise'[c] = IF \E i \in 1 .. n : waiting[i].call = c
                                      THEN "granted" ELSE p[c]
      /\ n > 0 => Cardinality(running') <= m
      /\ n < Len(waiting) => Cardinality(running') >= m
  BY <1>a DEF Drained
<1>4. Len(waiting) \in Nat /\ \A i \in 1 .. Len(waiting) : waiting[i] \in Item
  BY <1>0, LenProperties, ElementOfSeq DEF TypeOK
<1>5. \A i \in 1 .. Len(waiting') : /\ i + n \in 1 .. Len(waiting)
                                    /\ waiting'[i] = waiting[i + n]
  BY <1>3, <1>4
<1>6. \A i, j \in 1 .. Len(waiting) :
         waiting[i].id = waiting[j].id \/ waiting[i].call = waiting[j].call => i = j
  BY <1>0 DEF IndexInSync
<1>7. \A i \in 1 .. Len(waiting) : /\ waiting[i].call \in Calls
                                   /\ promise[waiting[i].call] = "pending"
                                   /\ idOf[waiting[i].call] = waiting[i].id
  BY <1>0, <1>4 DEF IndexInSync, Item
<1>8. TypeOK'
  <2>1. waitingIds' \subseteq Ids
    BY <1>0, <1>3 DEF TypeOK
  <2> QED
    BY <1>0, <1>3, <2>1 DEF TypeOK
<1>9. IndexInSync'
  <2>1. waitingIds' = {waiting'[i].id : i \in 1 .. Len(waiting')}
    <3>1. ASSUME NEW x \in waitingIds'
          PROVE  \E i \in 1 .. Len(waiting') : x = waiting'[i].id
      <4>1. PICK j \in 1 .. Len(waiting) : x = waiting[j].id
        BY <1>0, <1>3 DEF IndexInSync
      <4>2. j > n
        <5>1. x \in waitingIds'
          OBVIOUS
        <5>2. ~ \E i \in 1 .. n : waiting[i].id = x
          BY <5>1, <1>3
        <5> QED
          BY <4>1, <5>2, <1>4
      <4>3. j - n \in 1 .. Len(waiting') /\ (j - n) + n = j
        BY <4>2, <1>3, <1>4
      <4>4. waiting'[j - n] = waiting[j]
        BY <4>3, <1>5
      <4> QED
        BY <4>1, <4>3, <4>4
    <3>2. ASSUME NEW i \in 1 .. Len(waiting')
          PROVE  waiting'[i].id \in waitingIds'
      <4>1. waiting[i + n].id \in waitingIds
        BY <1>0, <1>5 DEF IndexInSync
      <4>2. \A j \in 1 .. n : waiting[j].id # waiting[i + n].id
        BY <1>3, <1>4, <1>5, <1>6
      <4>3. waiting[i + n].id \in waitingIds'
        BY <4>1, <4>2, <1>3
      <4> QED
        BY <4>3, <1>5
    <3> QED
      BY <3>1, <3>2
  <2>2. waitingIds' \cap running' = {}
    BY <1>2, <1>3
  <2>3. \A i, j \in 1 .. Len(waiting') :
           waiting'[i].id = waiting'[j].id \/ waiting'[i].call = waiting'[j].call => i = j
    <3>1. SUFFICES ASSUME NEW i \in 1 .. Len(waiting'), NEW j \in 1 .. Len(waiting'),
                          \/ waiting'[i].id = waiting'[j].id
                          \/ waiting'[i].call = waiting'[j].call
                   PROVE  i = j
      OBVIOUS
    <3>2. i + n = j + n
      BY <3>1, <1>5, <1>6
    <3> QED
      BY <3>2, <1>3, <1>4
  <2>4. ASSUME NEW i \in 1 .. Len(waiting')
        PROVE  /\ promise'[waiting'[i].call] = "pending"
               /\ idOf'[waiting'[i].call] = waiting'[i].id
    <3>1. ~ \E j \in 1 .. n : waiting[j].call = waiting[i + n].call
      BY <1>3, <1>4, <1>5, <1>6
    <3>2. p[waiting[i + n].call] = "pending"
      BY <1>5, <1>7
    <3>3. /\ waiting[i + n].call \in Calls
          /\ waiting'[i] = waiting[i + n]
          /\ idOf[waiting[i + n].call] = waiting[i + n].id
      BY <1>5, <1>7
    <3>4. promise'[waiting[i + n].call] = "pending"
      BY <3>1, <3>2, <3>3, <1>3
    <3> QED
      BY <3>3, <3>4
  <2>5. ASSUME NEW x \in Calls, promise'[x] = "pending"
        PROVE  \E i \in 1 .. Len(waiting') : waiting'[i].call = x
    <3>1. p[x] = "pending" /\ ~ \E i \in 1 .. n : waiting[i].call = x
      BY <2>5, <1>3
    <3>2. PICK j \in 1 .. Len(waiting) : waiting[j].call = x
      BY <3>1, <1>0 DEF IndexInSync
    <3>3. j - n \in 1 .. Len(waiting') /\ (j - n) + n = j
      BY <3>1, <3>2, <1>3, <1>4
    <3> QED
      BY <3>2, <3>3, <1>5
  <2> QED
    BY <2>1, <2>2, <2>3, <2>4, <2>5 DEF IndexInSync
<1>10. SlotAccounting'
  <2>1. \A c \in Calls : c \in Holders'
                         <=> c \in H \/ \E i \in 1 .. n : waiting[i].call = c
    BY <1>3 DEF Holders
  <2>2. \A i \in 1 .. n : i \in 1 .. Len(waiting)
    BY <1>3, <1>4
  <2>3. running' = {idOf'[c] : c \in Holders'}
    <3>1. ASSUME NEW x \in running' PROVE \E c \in Holders' : x = idOf[c]
      <4>1. CASE x \in r
        BY <4>1, <2>1 DEF Holders
      <4>2. CASE \E i \in 1 .. n : waiting[i].id = x
        <5>1. PICK i \in 1 .. n : waiting[i].id = x
          BY <4>2
        <5>2. waiting[i].call \in Holders' /\ idOf[waiting[i].call] = x
          BY <5>1, <1>7, <2>1, <2>2
        <5> QED
          BY <5>2
      <4> QED
        BY <4>1, <4>2, <1>3
    <3>2. ASSUME NEW c \in Holders' PROVE idOf[c] \in running'
      <4>1. CASE c \in H
        BY <4>1, <1>3
      <4>2. CASE \E i \in 1 .. n : waiting[i].call = c
        BY <4>2, <1>3, <1>7, <2>2
      <4> QED
        BY <4>1, <4>2, <2>1 DEF Holders
    <3> QED
      BY <3>1, <3>2
  <2>4. ASSUME NEW c \in Holders', NEW d \in Holders', idOf[c] = idOf[d]
        PROVE  c = d
    <3>1. c \in Calls /\ d \in Calls
      BY DEF Holders
    <3>2. CASE c \in H /\ d \in H
      BY <2>4, <3>2, <1>0 DEF SlotAccounting
    <3>3. \A x \in H : \A i \in 1 .. n : idOf[x] # waiting[i].id
      BY <1>0, <1>2, <2>2 DEF IndexInSync
    <3>4. CASE c \in H /\ d \notin H
      BY <2>4, <3>1, <3>3, <3>4, <1>7, <2>1, <2>2
    <3>5. CASE c \notin H /\ d \in H
      BY <2>4, <3>1, <3>3, <3>5, <1>7, <2>1, <2>2
    <3>6. CASE c \notin H /\ d \notin H
      BY <2>4, <3>1, <3>6, <1>6, <1>7, <2>1, <2>2
    <3> QED
      BY <3>2, <3>4, <3>5, <3>6
  <2> QED
    BY <2>3, <2>4 DEF SlotAccounting
<1>11. NoIdleSlotWhileWaiting'
  <2>1. CASE n < Len(waiting)
    BY <2>1, <1>3 DEF NoIdleSlotWhileWaiting
  <2>2. CASE n = Len(waiting)
    <3>1. waiting' = << >>
      BY <2>2, <1>3, EmptySeq, SeqEqual
    <3> QED
      BY <3>1 DEF NoIdleSlotWhileWaiting
  <2> QED
    BY <2>1, <2>2, <1>3, <1>4
<1>12. QueueSorted'
  <2>1. SUFFICES ASSUME NEW i \in 1 .. Len(waiting'), NEW j \in 1 .. Len(waiting'), i < j
                 PROVE  Outranks(waiting'[i], waiting'[j])
    BY DEF QueueSorted, Outranks
  <2>2. i + n < j + n
    BY <2>1, <1>3, <1>4
  <2> QED
    BY <2>2, <1>0, <1>5 DEF QueueSorted
<1> QED
  BY <1>8, <1>9, <1>10, <1>11, <1>12 DEF IInv

LEMMA ReleaseKeeps ==
    ASSUME IInv, NEW c \in Calls, Release(c)
    PROVE  IInv'
<1>1. CASE disposed
  <2>1. /\ running = {} /\ waiting = << >> /\ running' = {}
        /\ promise' = [promise EXCEPT ![c] = "released"]
        /\ UNCHANGED <<maxConcurrent, waiting, waitingIds, disposed, idOf, armed>>
    BY <1>1 DEF IInv, SlotAccounting, Release
  <2>2. TypeOK'
    BY <2>1 DEF IInv, TypeOK, PromiseStates
  <2>3. IndexInSync'
    BY <2>1 DEF IInv, IndexInSync, TypeOK
  <2>4. SlotAccounting' /\ NoIdleSlotWhileWaiting' /\ QueueSorted'
    BY <1>1, <2>1 DEF SlotAccounting, NoIdleSlotWhileWaiting, QueueSorted
  <2> QED
    BY <2>2, <2>3, <2>4 DEF IInv
<1>2. CASE ~disposed
  <2> DEFINE H == Holders \ {c}
             r == running \ {idOf[c]}
             p == [promise EXCEPT ![c] = "released"]
  <2>1. /\ disposed' = disposed /\ idOf' = idOf /\ armed' = armed
        /\ maxConcurrent' = maxConcurrent /\ maxConcurrent \in Limits
        /\ c \in Holders
        /\ Drain(r, maxConcurrent, p)
    BY <1>2 DEF IInv, TypeOK, Release, Holders
  <2>2. \A x : x \in r <=> \E d \in H : idOf[d] = x
    BY <1>2, <2>1 DEF IInv, SlotAccounting
  <2>3. p \in [Calls -> PromiseStates]
    BY DEF IInv, TypeOK, PromiseStates
  <2>4. \A d \in Calls : /\ p[d] = "pending" <=> promise[d] = "pending"
                         /\ p[d] = "granted" <=> d \in H
    BY <2>1 DEF IInv, TypeOK, Holders
  <2>5. H \in SUBSET Holders
    OBVIOUS
  <2> HIDE DEF H, r, p
  <2> QED
    BY <1>2, <2>1, <2>2, <2>3, <2>4, <2>5, DrainKeeps
<1> QED
  BY <1>1, <1>2

LEMMA SetMaxConcurrentKeeps ==
    ASSUME IInv, NEW m \in Limits, SetMaxConcurrent(m)
    PROVE  IInv'
<1>1. /\ ~disposed /\ disposed' = disposed /\ idOf' = idOf /\ armed' = armed
      /\ maxConcurrent' = m
      /\ Drain(running, m, promise)
  BY DEF SetMaxConcurrent
<1>2. \A x : x \in running <=> \E c \in Holders : idOf[c] = x
  BY <1>1 DEF IInv, SlotAccounting
<1>3. promise \in [Calls -> PromiseStates]
  BY DEF IInv, TypeOK
<1>4. \A c \in Calls : /\ promise[c] = "pending" <=> promise[c] = "pending"
                       /\ promise[c] = "granted" <=> c \in Holders
  BY DEF Holders
<1>5. Holders \in SUBSET Holders
  OBVIOUS
<1> QED
  BY <1>1, <1>2, <1>3, <1>4, <1>5, DrainKeeps

\* Taking one item out by its id, as cancel() and the abort listeners do.
LEMMA CancelWaitingKeeps ==
    ASSUME IInv, NEW id \in Ids, CancelWaiting(id), armed' \subseteq Calls,
           UNCHANGED <<maxConcurrent, running, disposed, idOf>>
    PROVE  IInv'
<1>0. TypeOK /\ IndexInSync /\ SlotAccounting /\ NoIdleSlotWhileWaiting /\ QueueSorted
  BY DEF IInv
<1>1. PICK k \in 1 .. Len(waiting) :
         /\ waiting[k].id = id
         /\ waiting' = RemoveAt(waiting, k)
         /\ waitingIds' = waitingIds \ {id}
         /\ promise' = [promise EXCEPT ![waiting[k].call] = "cancelled"]
  BY DEF CancelWaiting
<1>2. Len(waiting) \in Nat /\ \A i \in 1 .. Len(waiting) : waiting[i] \in Item
  BY <1>0, LenProperties, ElementOfSeq DEF TypeOK
<1>3. /\ waiting' \in Seq(Item)
      /\ Len(waiting') = Len(waiting) - 1
      /\ \A i \in 1 .. Len(waiting) - 1 :
            waiting'[i] = IF i < k THEN waiting[i] ELSE waiting[i + 1]
  <2>1. waiting \in Seq(Item)
    BY <1>0 DEF TypeOK
  <2>2. /\ RemoveAt(waiting, k) \in Seq(Item)
        /\ Len(RemoveAt(waiting, k)) = Len(waiting) - 1
        /\ \A i \in 1 .. Len(waiting) - 1 :
              RemoveAt(waiting, k)[i] = IF i < k THEN waiting[i] ELSE waiting[i + 1]
    BY <2>1, RemoveOne
  <2> QED
    BY <1>1, <2>2
<1> DEFINE old(i) == IF i < k THEN i ELSE i + 1
<1>4. \A i \in 1 .. Len(waiting') : /\ old(i) \in 1 .. Len(waiting) /\ old(i) # k
                                    /\ waiting'[i] = waiting[old(i)]
  BY <1>2, <1>3
<1>5. ASSUME NEW j \in 1 .. Len(waiting), j # k
      PROVE  \E i \in 1 .. Len(waiting') : old(i) = j
  <2>1. CASE j < k
    BY <2>1, <1>2, <1>3
  <2>2. CASE j > k
    <3>1. j - 1 \in 1 .. Len(waiting') /\ old(j - 1) = j
      BY <2>2, <1>2, <1>3
    <3> QED
      BY <3>1
  <2> QED
    BY <2>1, <2>2, <1>5, <1>2
<1>6. \A i, j \in 1 .. Len(waiting') : old(i) = old(j) => i = j
  BY <1>2, <1>3
<1>7. \A i, j \in 1 .. Len(waiting') : i < j => old(i) < old(j)
  BY <1>2, <1>3
<1> HIDE DEF old
<1>8. \A i, j \in 1 .. Len(waiting) :
         waiting[i].id = waiting[j].id \/ waiting[i].call = waiting[j].call => i = j
  BY <1>0 DEF IndexInSync
<1>9. \A i \in 1 .. Len(waiting) : /\ waiting[i].call \in Calls
                                   /\ waiting[i].id \in waitingIds
                                   /\ promise[waiting[i].call] = "pending"
                                   /\ idOf[waiting[i].call] = waiting[i].id
  BY <1>0, <1>2 DEF IndexInSync, Item
<1>10. TypeOK'
  BY <1>0, <1>1, <1>3 DEF TypeOK, PromiseStates
<1>11. IndexInSync'
  <2>1. waitingIds' = {waiting'[i].id : i \in 1 .. Len(waiting')}
    <3>1. ASSUME NEW x \in waitingIds'
          PROVE  \E i \in 1 .. Len(waiting') : x = waiting'[i].id
      <4>1. PICK j \in 1 .. Len(waiting) : x = waiting[j].id
        BY <1>0, <1>1 DEF IndexInSync
      <4>2. j # k
        BY <4>1, <1>1
      <4> QED
        BY <4>1, <4>2, <1>4, <1>5
    <3>2. ASSUME NEW i \in 1 .. Len(waiting')
          PROVE  waiting'[i].id \in waitingIds'
      <4>1. waiting[old(i)].id \in waitingIds /\ waiting[old(i)].id # id
        BY <1>1, <1>4, <1>8, <1>9
      <4> QED
        BY <4>1, <1>1, <1>4
    <3> QED
      BY <3>1, <3>2
  <2>2. waitingIds' \cap running' = {}
    BY <1>0, <1>1 DEF IndexInSync
  <2>3. \A i, j \in 1 .. Len(waiting') :
           waiting'[i].id = waiting'[j].id \/ waiting'[i].call = waiting'[j].call => i = j
    <3>1. SUFFICES ASSUME NEW i \in 1 .. Len(waiting'), NEW j \in 1 .. Len(waiting'),
                          \/ waiting'[i].id = waiting'[j].id
                          \/ waiting'[i].call = waiting'[j].call
                   PROVE  i = j
      OBVIOUS
    <3>2. old(i) = old(j)
      <4>1. /\ old(i) \in 1 .. Len(waiting) /\ old(j) \in 1 .. Len(waiting)
            /\ waiting'[i] = waiting[old(i)] /\ waiting'[j] = waiting[old(j)]
        BY <1>4
      <4>2. \/ waiting[old(i)].id = waiting[old(j)].id
            \/ waiting[old(i)].call = waiting[old(j)].call
        BY <3>1, <4>1
      <4> QED
        BY <4>1, <4>2, <1>8
    <3> QED
      BY <3>2, <1>6
  <2>4. ASSUME NEW i \in 1 .. Len(waiting')
        PROVE  /\ promise'[waiting'[i].call] = "pending"
               /\ idOf'[waiting'[i].call] = waiting'[i].id
    <3>1. /\ waiting[old(i)].call \in Calls
          /\ waiting[old(i)].call # waiting[k].call
          /\ promise[waiting[old(i)].call] = "pending"
          /\ idOf[waiting[old(i)].call] = waiting[old(i)].id
      BY <1>4, <1>8, <1>9
    <3>2. promise'[waiting[old(i)].call] = "pending"
      BY <3>1, <1>0, <1>1 DEF TypeOK
    <3> QED
      BY <3>1, <3>2, <1>4
  <2>5. ASSUME NEW x \in Calls, promise'[x] = "pending"
        PROVE  \E i \in 1 .. Len(waiting') : waiting'[i].call = x
    <3>1. promise[x] = "pending" /\ x # waiting[k].call
      BY <2>5, <1>0, <1>1 DEF TypeOK
    <3>2. PICK j \in 1 .. Len(waiting) : waiting[j].call = x
      BY <3>1, <1>0 DEF IndexInSync
    <3> QED
      BY <3>1, <3>2, <1>4, <1>5
  <2> QED
    BY <2>1, <2>2, <2>3, <2>4, <2>5 DEF IndexInSync
<1>12. SlotAccounting'
  <2>1. Holders' = Holders
    BY <1>0, <1>1, <1>9 DEF Holders, TypeOK
  <2>2. disposed => FALSE
    BY <1>0, <1>1, <1>2, EmptySeq DEF SlotAccounting
  <2> QED
    BY <1>0, <2>1, <2>2 DEF SlotAccounting
<1>13. NoIdleSlotWhileWaiting'
  <2>1. waiting # << >>
    BY <1>1, EmptySeq
  <2> QED
    BY <2>1, <1>0 DEF NoIdleSlotWhileWaiting
<1>14. QueueSorted'
  <2>1. SUFFICES ASSUME NEW i \in 1 .. Len(waiting'), NEW j \in 1 .. Len(waiting'), i < j
                 PROVE  Outranks(waiting'[i], waiting'[j])
    BY DEF QueueSorted, Outranks
  <2> QED
    BY <2>1, <1>0, <1>4, <1>7 DEF QueueSorted
<1> QED
  BY <1>10, <1>11, <1>12, <1>13, <1>14 DEF IInv

\* Emptying the queue, as cancelAllWaiting() and dispose() do.
LEMMA EmptyQueueKeeps ==
    ASSUME IInv, EmptyQueue, UNCHANGED <<maxConcurrent, idOf, armed>>,
           \/ running' = running /\ disposed' = disposed
           \/ running' = {} /\ disposed' = TRUE
    PROVE  IInv'
<1>0. TypeOK /\ IndexInSync /\ SlotAccounting
  BY DEF IInv
<1>1. waiting' = << >> /\ waitingIds' = {} /\ Len(waiting') = 0 /\ waiting' \in Seq(Item)
  BY DEF EmptyQueue
<1>2. \A c \in Calls : promise'[c] = IF promise[c] = "pending"
                                   THEN "cancelled" ELSE promise[c]
  BY <1>0 DEF EmptyQueue, IndexInSync
<1>3. TypeOK'
  <2>1. promise' \in [Calls -> PromiseStates]
    BY <1>0 DEF EmptyQueue, TypeOK, PromiseStates
  <2> QED
    BY <1>0, <1>1, <2>1 DEF TypeOK
<1>4. IndexInSync'
  BY <1>1, <1>2 DEF IndexInSync
<1>5. Holders' = Holders
  BY <1>2 DEF Holders
<1>6. SlotAccounting'
  BY <1>0, <1>1, <1>5 DEF SlotAccounting
<1>7. NoIdleSlotWhileWaiting' /\ QueueSorted'
  BY <1>1 DEF NoIdleSlotWhileWaiting, QueueSorted
<1> QED
  BY <1>3, <1>4, <1>6, <1>7 DEF IInv

\* Rearranging the queue without changing who is in it, as the starvation timer
\* and the clock do.  q[i] is the old place of the item now at i.
LEMMA RearrangeKeeps ==
    ASSUME IInv, waiting' \in Seq(Item), Len(waiting') = Len(waiting),
           NEW q \in Bijection(1 .. Len(waiting), 1 .. Len(waiting)),
           \A i \in 1 .. Len(waiting) : /\ waiting'[i].call = waiting[q[i]].call
                                        /\ waiting'[i].id = waiting[q[i]].id,
           QueueSorted',
           UNCHANGED <<maxConcurrent, running, waitingIds, disposed, idOf, promise, armed>>
    PROVE  IInv'
<1>0. /\ TypeOK /\ IndexInSync /\ SlotAccounting /\ NoIdleSlotWhileWaiting
      /\ Len(waiting) \in Nat
  BY LenProperties DEF IInv, TypeOK
<1>1. /\ \A i \in 1 .. Len(waiting) : q[i] \in 1 .. Len(waiting)
      /\ \A i, j \in 1 .. Len(waiting) : q[i] = q[j] => i = j
      /\ \A j \in 1 .. Len(waiting) : \E i \in 1 .. Len(waiting) : q[i] = j
  BY DEF Bijection, Injection, IsInjective, Surjection
<1>a. ASSUME NEW i \in 1 .. Len(waiting)
      PROVE  /\ waiting'[i].call = waiting[q[i]].call
             /\ waiting'[i].id = waiting[q[i]].id
             /\ q[i] \in 1 .. Len(waiting)
  BY <1>1
<1>b. ASSUME NEW j \in 1 .. Len(waiting)
      PROVE  \E i \in 1 .. Len(waiting') : /\ waiting'[i].call = waiting[j].call
                                          /\ waiting'[i].id = waiting[j].id
  <2>1. PICK i \in 1 .. Len(waiting) : q[i] = j
    BY <1>1
  <2>2. waiting'[i].call = waiting[j].call /\ waiting'[i].id = waiting[j].id
    BY <2>1, <1>a
  <2> QED
    BY <2>2
<1>2. TypeOK'
  BY <1>0 DEF TypeOK
<1>3. IndexInSync'
  <2>1. waitingIds' = {waiting'[i].id : i \in 1 .. Len(waiting')}
    <3>1. ASSUME NEW x \in waitingIds'
          PROVE  \E i \in 1 .. Len(waiting') : x = waiting'[i].id
      <4>1. PICK j \in 1 .. Len(waiting) : x = waiting[j].id
        BY <1>0 DEF IndexInSync
      <4> QED
        BY <4>1, <1>b
    <3>2. ASSUME NEW i \in 1 .. Len(waiting')
          PROVE  waiting'[i].id \in waitingIds'
      <4>1. \A j \in 1 .. Len(waiting) : waiting[j].id \in waitingIds
        BY <1>0 DEF IndexInSync
      <4> QED
        BY <4>1, <1>a
    <3> QED
      BY <3>1, <3>2
  <2>2. \A i, j \in 1 .. Len(waiting') :
           waiting'[i].id = waiting'[j].id \/ waiting'[i].call = waiting'[j].call => i = j
    <3>1. \A i, j \in 1 .. Len(waiting) :
             waiting[i].id = waiting[j].id \/ waiting[i].call = waiting[j].call => i = j
      BY <1>0 DEF IndexInSync
    <3>2. SUFFICES ASSUME NEW i \in 1 .. Len(waiting), NEW j \in 1 .. Len(waiting),
                          \/ waiting'[i].id = waiting'[j].id
                          \/ waiting'[i].call = waiting'[j].call
                   PROVE  i = j
      OBVIOUS
    <3>3. q[i] = q[j]
      <4>1. /\ q[i] \in 1 .. Len(waiting) /\ q[j] \in 1 .. Len(waiting)
            /\ \/ waiting[q[i]].id = waiting[q[j]].id
               \/ waiting[q[i]].call = waiting[q[j]].call
        BY <3>2, <1>a
      <4> QED
        BY <4>1, <3>1
    <3> QED
      BY <3>3, <1>1
  <2>3. ASSUME NEW i \in 1 .. Len(waiting')
        PROVE  /\ promise'[waiting'[i].call] = "pending"
               /\ idOf'[waiting'[i].call] = waiting'[i].id
    <3>1. \A j \in 1 .. Len(waiting) : /\ promise[waiting[j].call] = "pending"
                                       /\ idOf[waiting[j].call] = waiting[j].id
      BY <1>0 DEF IndexInSync
    <3> QED
      BY <3>1, <1>a
  <2>4. ASSUME NEW x \in Calls, promise'[x] = "pending"
        PROVE  \E i \in 1 .. Len(waiting') : waiting'[i].call = x
    <3>1. PICK j \in 1 .. Len(waiting) : waiting[j].call = x
      BY <2>4, <1>0 DEF IndexInSync
    <3> QED
      BY <3>1, <1>b
  <2>5. waitingIds' \cap running' = {}
    BY <1>0 DEF IndexInSync
  <2> QED
    BY <2>1, <2>2, <2>3, <2>4, <2>5 DEF IndexInSync
<1>4. waiting' = << >> <=> waiting = << >>
  BY <1>0, EmptySeq DEF TypeOK
<1>5. SlotAccounting' /\ NoIdleSlotWhileWaiting'
  BY <1>0, <1>4 DEF SlotAccounting, Holders, NoIdleSlotWhileWaiting
<1> QED
  BY <1>2, <1>3, <1>5 DEF IInv

LEMMA BoostKeeps ==
    ASSUME IInv, BoostStarvedItems
    PROVE  IInv'
<1>0. TypeOK /\ Len(waiting) \in Nat
      /\ \A i \in 1 .. Len(waiting) : waiting[i] \in Item
  BY LenProperties, ElementOfSeq DEF IInv, TypeOK
<1>1. PICK p \in Bijection(1 .. Len(waiting), 1 .. Len(waiting)) :
         /\ waiting' = [i \in 1 .. Len(waiting) |-> Boosted(waiting[p[i]])]
         /\ \A i, j \in 1 .. Len(waiting) : i < j =>
               Outranks(Boosted(waiting[p[i]]), Boosted(waiting[p[j]]))
  BY DEF BoostStarvedItems
<1>2. \A i \in 1 .. Len(waiting) : p[i] \in 1 .. Len(waiting)
  BY DEF Bijection, Injection
<1>3. ASSUME NEW it \in Item
      PROVE  Boosted(it) \in Item /\ Boosted(it).call = it.call /\ Boosted(it).id = it.id
  <2>1. CASE Starved(it)
    BY <2>1 DEF Boosted, Starved, Item, Priorities, BACKGROUND, USER
  <2>2. CASE ~Starved(it)
    BY <2>2 DEF Boosted
  <2> QED
    BY <2>1, <2>2
<1>4. waiting' \in Seq(Item) /\ Len(waiting') = Len(waiting)
  BY <1>0, <1>1, <1>2, <1>3
<1>5. \A i \in 1 .. Len(waiting) : /\ waiting'[i].call = waiting[p[i]].call
                                   /\ waiting'[i].id = waiting[p[i]].id
  BY <1>0, <1>1, <1>2, <1>3
<1>6. QueueSorted'
  <2>1. SUFFICES ASSUME NEW i \in 1 .. Len(waiting), NEW j \in 1 .. Len(waiting), i < j
                 PROVE  Outranks(waiting'[i], waiting'[j])
    BY <1>4 DEF QueueSorted, Outranks
  <2> QED
    BY <2>1, <1>1
<1>7. UNCHANGED <<maxConcurrent, running, waitingIds, disposed, idOf, promise, armed>>
  BY DEF BoostStarvedItems
<1> QED
  BY <1>4, <1>5, <1>6, <1>7, RearrangeKeeps

LEMMA TickKeeps ==
    ASSUME IInv, Tick
    PROVE  IInv'
<1> DEFINE q == [i \in 1 .. Len(waiting) |-> i]
<1>0. /\ TypeOK /\ QueueSorted /\ Len(waiting) \in Nat
      /\ \A i \in 1 .. Len(waiting) : waiting[i] \in Item
  BY LenProperties, ElementOfSeq DEF IInv, TypeOK
<1>1. waiting' = [i \in 1 .. Len(waiting) |-> [waiting[i] EXCEPT !.age = @ + 1]]
  BY DEF Tick
<1>2. \A i \in 1 .. Len(waiting) : /\ waiting'[i] \in Item
                                   /\ waiting'[i].call = waiting[i].call
                                   /\ waiting'[i].id = waiting[i].id
                                   /\ waiting'[i].priority = waiting[i].priority
                                   /\ waiting'[i].age = waiting[i].age + 1
  BY <1>0, <1>1, AgeAssumption DEF Tick, Item
<1>3. waiting' \in Seq(Item) /\ Len(waiting') = Len(waiting)
  BY <1>0, <1>1, <1>2
<1>4. q \in Bijection(1 .. Len(waiting), 1 .. Len(waiting))
  BY DEF Bijection, Injection, IsInjective, Surjection
<1>5. QueueSorted'
  <2>1. SUFFICES ASSUME NEW i \in 1 .. Len(waiting), NEW j \in 1 .. Len(waiting), i < j
                 PROVE  Outranks(waiting'[i], waiting'[j])
    BY <1>3 DEF QueueSorted, Outranks
  <2>2. waiting[i].age \in Int /\ waiting[j].age \in Int
    BY <1>0, AgeAssumption DEF Item
  <2>3. Outranks(waiting[i], waiting[j])
    BY <2>1, <1>0 DEF QueueSorted
  <2> QED
    BY <2>2, <2>3, <1>2 DEF Outranks
<1>6. UNCHANGED <<maxConcurrent, running, waitingIds, disposed, idOf, promise, armed>>
  BY DEF Tick
<1>7. \A i \in 1 .. Len(waiting) : /\ waiting'[i].call = waiting[q[i]].call
                                   /\ waiting'[i].id = waiting[q[i]].id
  BY <1>2
<1> HIDE DEF q
<1> QED
  BY <1>3, <1>4, <1>5, <1>6, <1>7, RearrangeKeeps

-----------------------------------------------------------------------------
(* The theorems *)

\* The queue starts in a state of the inductive invariant.
LEMMA InitEstablishes == Init => IInv
<1> SUFFICES ASSUME Init PROVE IInv
  OBVIOUS
<1>1. TypeOK
  BY EmptySeq DEF Init, TypeOK, PromiseStates
<1>2. IndexInSync /\ NoIdleSlotWhileWaiting /\ QueueSorted
  BY DEF Init, IndexInSync, NoIdleSlotWhileWaiting, QueueSorted
<1>3. SlotAccounting
  <2>1. Holders = {}
    BY DEF Init, Holders
  <2> QED
    BY <2>1 DEF Init, SlotAccounting
<1> QED
  BY <1>1, <1>2, <1>3 DEF IInv

\* Every step of the queue preserves it.
LEMMA NextPreserves == IInv /\ [Next]_vars => IInv'
<1> SUFFICES ASSUME IInv, [Next]_vars PROVE IInv'
  OBVIOUS
<1>1. CASE UNCHANGED vars
  BY <1>1 DEF IInv, vars, TypeOK, IndexInSync, SlotAccounting, Holders,
              NoIdleSlotWhileWaiting, QueueSorted, Outranks
<1>2. ASSUME NEW c \in Calls, Acquire(c) PROVE IInv'
  BY <1>2, AcquireRefusedKeeps, AcquireSlotKeeps, AcquireQueuedKeeps, AcquireAbortedKeeps
     DEF Acquire
<1>3. ASSUME NEW c \in Calls, Release(c) PROVE IInv'
  BY <1>3, ReleaseKeeps
<1>4. ASSUME NEW c \in Calls, ReleaseAgain(c) PROVE IInv'
  BY <1>1, <1>4 DEF ReleaseAgain
<1>5. ASSUME NEW c \in Calls, AbortFires(c) PROVE IInv'
  <2>1. armed' \subseteq Calls
    BY <1>5 DEF AbortFires, IInv, TypeOK
  <2>2. UNCHANGED <<maxConcurrent, running, disposed, idOf>>
    BY <1>5 DEF AbortFires
  <2>3. CASE idOf[c] \in waitingIds
    <3>1. idOf[c] \in Ids /\ CancelWaiting(idOf[c])
      BY <1>5, <2>3 DEF AbortFires, IInv, TypeOK
    <3> QED
      BY <2>1, <2>2, <3>1, CancelWaitingKeeps
  <2>4. CASE idOf[c] \notin waitingIds
    <3>1. UNCHANGED <<waiting, waitingIds, promise>>
      BY <1>5, <2>4 DEF AbortFires
    <3> QED
      BY <2>1, <2>2, <3>1 DEF IInv, TypeOK, IndexInSync, SlotAccounting, Holders,
                              NoIdleSlotWhileWaiting, QueueSorted, Outranks
  <2> QED
    BY <2>3, <2>4
<1>6. ASSUME NEW id \in Ids, Cancel(id) PROVE IInv'
  <2>1. /\ CancelWaiting(id) /\ armed' \subseteq Calls
        /\ UNCHANGED <<maxConcurrent, running, disposed, idOf>>
    BY <1>6 DEF Cancel, IInv, TypeOK
  <2> QED
    BY <2>1, CancelWaitingKeeps
<1>7. CASE CancelAllWaiting
  BY <1>7, EmptyQueueKeeps DEF CancelAllWaiting
<1>8. ASSUME NEW m \in Limits, SetMaxConcurrent(m) PROVE IInv'
  BY <1>8, SetMaxConcurrentKeeps
<1>9. CASE BoostStarvedItems
  BY <1>9, BoostKeeps
<1>10. CASE Tick
  BY <1>10, TickKeeps
<1>11. CASE Dispose
  BY <1>11, EmptyQueueKeeps DEF Dispose
<1> QED
  BY <1>1, <1>2, <1>3, <1>4, <1>5, <1>6, <1>7, <1>8, <1>9, <1>10, <1>11 DEF Next

\* The inductive invariant holds in every reachable state of the queue.
THEOREM InductiveInvariant == Spec => []IInv
  BY InitEstablishes, NextPreserves, PTL DEF Spec

\* Every variable of the queue keeps its type.
THEOREM TypeCorrect == Spec => []TypeOK
<1>1. IInv => TypeOK
  BY DEF IInv
<1> QED
  BY <1>1, InductiveInvariant, PTL

\* The waiting array, its id index and the pending promises never diverge.
THEOREM IndexStaysInSync == Spec => []IndexInSync
<1>1. IInv => IndexInSync
  BY DEF IInv
<1> QED
  BY <1>1, InductiveInvariant, PTL

\* No slot leaks and none is freed under its holder.
THEOREM SlotsAreAccountedFor == Spec => []SlotAccounting
<1>1. IInv => SlotAccounting
  BY DEF IInv
<1> QED
  BY <1>1, InductiveInvariant, PTL

\* The queue is work-conserving: nobody waits while a slot is free.
THEOREM WorkConserving == Spec => []NoIdleSlotWhileWaiting
<1>1. IInv => NoIdleSlotWhileWaiting
  BY DEF IInv
<1> QED
  BY <1>1, InductiveInvariant, PTL

\* The waiting array is always sorted, first by priority, then by arrival.
THEOREM QueueStaysSorted == Spec => []QueueSorted
<1>1. IInv => QueueSorted
  BY DEF IInv
<1> QED
  BY <1>1, InductiveInvariant, PTL

-----------------------------------------------------------------------------
(* What a step may never do *)

\* The two callers of drain(): what they pass and what follows.
LEMMA DrainingStep ==
    ASSUME IInv,
           \/ \E c \in Calls : Release(c) /\ ~disposed
           \/ \E m \in Limits : SetMaxConcurrent(m)
    PROVE  \E r \in SUBSET running, p \in [Calls -> PromiseStates],
              n \in 0 .. Len(waiting) :
              /\ Drained(n, r, maxConcurrent', p)
              /\ \A c \in Calls : p[c] = "granted" => promise[c] = "granted"
<1>1. TypeOK /\ IndexInSync
  BY DEF IInv
<1>2. ASSUME NEW c \in Calls, Release(c), ~disposed
      PROVE  \E r \in SUBSET running, p \in [Calls -> PromiseStates],
                n \in 0 .. Len(waiting) :
                /\ Drained(n, r, maxConcurrent', p)
                /\ \A d \in Calls : p[d] = "granted" => promise[d] = "granted"
  <2> DEFINE r == running \ {idOf[c]}
             p == [promise EXCEPT ![c] = "released"]
  <2>1. Drain(r, maxConcurrent, p) /\ maxConcurrent' = maxConcurrent
    BY <1>2 DEF Release
  <2>2. /\ r \in SUBSET Ids /\ r \cap waitingIds = {} /\ r \in SUBSET running
        /\ maxConcurrent \in 1 .. 10
    BY <1>1, LimitIsPositive DEF TypeOK, IndexInSync
  <2>3. /\ p \in [Calls -> PromiseStates]
        /\ \A d \in Calls : p[d] = "granted" => promise[d] = "granted"
    BY <1>1 DEF TypeOK, PromiseStates
  <2> HIDE DEF r, p
  <2>4. PICK n \in 0 .. Len(waiting) : Drained(n, r, maxConcurrent, p)
    BY <1>1, <2>1, <2>2, <2>3, DrainFacts
  <2> QED
    BY <2>1, <2>2, <2>3, <2>4
<1>3. ASSUME NEW m \in Limits, SetMaxConcurrent(m)
      PROVE  \E r \in SUBSET running, p \in [Calls -> PromiseStates],
                n \in 0 .. Len(waiting) :
                /\ Drained(n, r, maxConcurrent', p)
                /\ \A d \in Calls : p[d] = "granted" => promise[d] = "granted"
  <2>1. Drain(running, m, promise) /\ maxConcurrent' = m
    BY <1>3 DEF SetMaxConcurrent
  <2>2. /\ running \in SUBSET Ids /\ running \cap waitingIds = {} /\ m \in 1 .. 10
        /\ promise \in [Calls -> PromiseStates]
    BY <1>1, LimitIsPositive DEF TypeOK, IndexInSync
  <2>3. PICK n \in 0 .. Len(waiting) : Drained(n, running, m, promise)
    BY <1>1, <2>1, <2>2, DrainFacts
  <2>4. Drained(n, running, maxConcurrent', promise)
    BY <2>1, <2>3
  <2> QED
    BY <2>2, <2>4
<1> QED
  BY <1>2, <1>3

\* A step that does not drain and does not take the fast path grants nothing.
LEMMA OtherSteps ==
    ASSUME IInv, [Next]_vars,
           ~ \E c \in Calls : Release(c) /\ ~disposed,
           ~ \E m \in Limits : SetMaxConcurrent(m),
           ~ \E c \in Calls, id \in Ids : AcquireSlot(c, id)
    PROVE  /\ running' \subseteq running
           /\ \A c \in Calls : promise'[c] = "granted" => promise[c] = "granted"
<1>0. promise \in [Calls -> PromiseStates]
  BY DEF IInv, TypeOK
<1>1. CASE UNCHANGED vars
  BY <1>1 DEF vars
<1>2. ASSUME NEW c \in Calls, NEW id \in Ids, AcquireRefused(c, id)
      PROVE  running' \subseteq running /\ \A d \in Calls : promise'[d] = "granted" => promise[d] = "granted"
  BY <1>0, <1>2 DEF AcquireRefused
<1>3. ASSUME NEW c \in Calls, NEW id \in Ids, AcquireAborted(c, id)
      PROVE  running' \subseteq running /\ \A d \in Calls : promise'[d] = "granted" => promise[d] = "granted"
  BY <1>0, <1>3 DEF AcquireAborted
<1>4. ASSUME NEW c \in Calls, NEW id \in Ids, NEW prio \in Priorities, NEW watched \in BOOLEAN,
             AcquireQueued(c, id, prio, watched)
      PROVE  running' \subseteq running /\ \A d \in Calls : promise'[d] = "granted" => promise[d] = "granted"
  BY <1>0, <1>4 DEF AcquireQueued
<1>5. ASSUME NEW c \in Calls, Release(c)
      PROVE  running' \subseteq running /\ \A d \in Calls : promise'[d] = "granted" => promise[d] = "granted"
  BY <1>0, <1>5 DEF Release
<1>6. ASSUME NEW c \in Calls, ReleaseAgain(c)
      PROVE  running' \subseteq running /\ \A d \in Calls : promise'[d] = "granted" => promise[d] = "granted"
  BY <1>6 DEF ReleaseAgain, vars
<1>7. ASSUME NEW c \in Calls, AbortFires(c)
      PROVE  running' \subseteq running /\ \A d \in Calls : promise'[d] = "granted" => promise[d] = "granted"
  BY <1>0, <1>7 DEF AbortFires, CancelWaiting
<1>8. ASSUME NEW id \in Ids, Cancel(id)
      PROVE  running' \subseteq running /\ \A d \in Calls : promise'[d] = "granted" => promise[d] = "granted"
  BY <1>0, <1>8 DEF Cancel, CancelWaiting
<1>9. CASE CancelAllWaiting
  BY <1>0, <1>9 DEF CancelAllWaiting, EmptyQueue
<1>10. CASE BoostStarvedItems
  BY <1>10 DEF BoostStarvedItems
<1>11. CASE Tick
  BY <1>11 DEF Tick
<1>12. CASE Dispose
  BY <1>0, <1>12 DEF Dispose, EmptyQueue
<1> QED
  BY <1>1, <1>2, <1>3, <1>4, <1>5, <1>6, <1>7, <1>8, <1>9, <1>10, <1>11, <1>12 DEF Next, Acquire

\* Slots are never given out beyond the limit in force, also when the limit was
\* lowered under the streams that run.
THEOREM LimitRespected == Spec => GrantsWithinLimit
<1>1. ASSUME IInv, [Next]_vars, running' \ running # {}
      PROVE  Cardinality(running') <= maxConcurrent'
  <2>1. CASE \E c \in Calls, id \in Ids : AcquireSlot(c, id)
    <3>1. PICK c \in Calls, id \in Ids : AcquireSlot(c, id)
      BY <2>1
    <3>2. TypeOK /\ running \in SUBSET Ids /\ maxConcurrent \in 1 .. 10
      BY <1>1, LimitIsPositive DEF IInv, TypeOK
    <3>3. IsFiniteSet(running) /\ Cardinality(running) \in Nat
      BY <3>2, BatchFacts
    <3>4. /\ running' = running \cup {id} /\ maxConcurrent' = maxConcurrent
          /\ Cardinality(running) < maxConcurrent
      BY <3>1 DEF AcquireSlot
    <3>5. Cardinality(running \cup {id})
             = IF id \in running THEN Cardinality(running) ELSE Cardinality(running) + 1
      BY <3>3, FS_AddElement
    <3> QED
      BY <3>2, <3>3, <3>4, <3>5
  <2>2. CASE \/ \E c \in Calls : Release(c) /\ ~disposed
             \/ \E m \in Limits : SetMaxConcurrent(m)
    <3>1. PICK r \in SUBSET running, p \in [Calls -> PromiseStates], n \in 0 .. Len(waiting) :
             Drained(n, r, maxConcurrent', p)
      BY <1>1, <2>2, DrainingStep
    <3>2. n # 0
      BY <1>1, <3>1 DEF Drained
    <3> QED
      BY <3>1, <3>2 DEF Drained
  <2> QED
    BY <1>1, <2>1, <2>2, OtherSteps
<1>2. IInv /\ [Next]_vars =>
         [running' \ running # {} => Cardinality(running') <= maxConcurrent']_vars
  BY <1>1
<1> QED
  BY <1>2, InductiveInvariant, PTL DEF Spec, GrantsWithinLimit

\* Slots are given out in order of priority, then of arrival: the fast path
\* never overtakes a waiting caller and drain() never skips one.
THEOREM GrantedInOrder == Spec => GrantsInOrder
<1> DEFINE InOrder == \A c \in Calls, k \in 1 .. Len(waiting') :
                         promise[c] # "granted" /\ promise'[c] = "granted" =>
                            \E i \in 1 .. Len(waiting) :
                               waiting[i].call = c /\ Outranks(waiting[i], waiting'[k])
<1>1. ASSUME IInv, [Next]_vars PROVE InOrder
  <2>1. SUFFICES ASSUME NEW c \in Calls, NEW k \in 1 .. Len(waiting'),
                        promise[c] # "granted", promise'[c] = "granted"
                 PROVE  \E i \in 1 .. Len(waiting) :
                           waiting[i].call = c /\ Outranks(waiting[i], waiting'[k])
    OBVIOUS
  <2>2. CASE \E d \in Calls, id \in Ids : AcquireSlot(d, id)
    <3>1. TypeOK /\ running \in SUBSET Ids /\ maxConcurrent \in 1 .. 10
      BY <1>1, LimitIsPositive DEF IInv, TypeOK
    <3>2. Cardinality(running) \in Nat
      BY <3>1, BatchFacts
    <3>3. waiting = << >> /\ waiting' = waiting
      BY <1>1, <2>2, <3>1, <3>2 DEF AcquireSlot, IInv, NoIdleSlotWhileWaiting
    <3> QED
      BY <2>1, <3>3
  <2>3. CASE \/ \E d \in Calls : Release(d) /\ ~disposed
             \/ \E m \in Limits : SetMaxConcurrent(m)
    <3>1. PICK r \in SUBSET running, p \in [Calls -> PromiseStates], n \in 0 .. Len(waiting) :
             /\ Drained(n, r, maxConcurrent', p)
             /\ \A d \in Calls : p[d] = "granted" => promise[d] = "granted"
      BY <1>1, <2>3, DrainingStep
    <3>2. Len(waiting) \in Nat
      BY <1>1, LenProperties DEF IInv, TypeOK
    <3>3. PICK i \in 1 .. n : waiting[i].call = c
      BY <2>1, <3>1 DEF Drained
    <3>4. /\ i \in 1 .. Len(waiting) /\ k + n \in 1 .. Len(waiting) /\ i < k + n
          /\ waiting'[k] = waiting[k + n]
      BY <3>1, <3>2, <3>3 DEF Drained
    <3> QED
      BY <1>1, <3>3, <3>4 DEF IInv, QueueSorted
  <2> QED
    BY <1>1, <2>1, <2>2, <2>3, OtherSteps
<1>2. IInv /\ [Next]_vars => [InOrder]_vars
  BY <1>1
<1> QED
  BY <1>2, InductiveInvariant, PTL DEF Spec, GrantsInOrder
-----------------------------------------------------------------------------
(* The queue implements a pool of slots *)

Pending == {c \in Calls : promise[c] = "pending"}

LEMMA SameCardinality == \A S : Pool!Cardinality(S) = Cardinality(S)
BY Zenon DEF Cardinality, Pool!Cardinality

\* Every item of the array is one, and its caller waits.
LEMMA ItemsArePending ==
    ASSUME TypeOK, IndexInSync
    PROVE  \A i \in 1 .. Len(waiting) : waiting[i] \in Item /\ waiting[i].call \in Pending
<1>1. \A i \in 1 .. Len(waiting) : waiting[i] \in Item
  BY ElementOfSeq DEF TypeOK
<1>2. \A i \in 1 .. Len(waiting) : waiting[i].call \in Calls
  BY <1>1 DEF Item
<1> QED
  BY <1>1, <1>2 DEF IndexInSync, Pending

\* As many slots are in use as there are callers that hold one.
LEMMA HoldersCount ==
    ASSUME TypeOK, SlotAccounting, ~disposed
    PROVE  Cardinality(Holders) = Cardinality(running) /\ Cardinality(running) \in Nat
<1> DEFINE f == [c \in Holders |-> idOf[c]]
<1>1. running \in SUBSET Ids /\ IsFiniteSet(running) /\ Cardinality(running) \in Nat
  BY CallsAssumption, FS_Subset, FS_CardinalityType DEF TypeOK
<1>2. IsFiniteSet(Holders)
  BY CallsAssumption, FS_Subset DEF Holders
<1>3. f \in Bijection(Holders, running)
  BY DEF SlotAccounting, Bijection, Injection, IsInjective, Surjection
<1>4. ExistsBijection(Holders, running)
  BY <1>3 DEF ExistsBijection
<1> QED
  BY <1>1, <1>2, <1>4, FS_Bijection

LEMMA HoldersCountNext ==
    ASSUME IInv', ~disposed'
    PROVE  Cardinality(Holders') = Cardinality(running') /\ Cardinality(running') \in Nat
<1> DEFINE f == [c \in Holders' |-> idOf'[c]]
<1>1. running' \in SUBSET Ids /\ IsFiniteSet(running') /\ Cardinality(running') \in Nat
  BY CallsAssumption, FS_Subset, FS_CardinalityType DEF IInv, TypeOK
<1>2. IsFiniteSet(Holders')
  BY CallsAssumption, FS_Subset DEF Holders
<1>3. f \in Bijection(Holders', running')
  BY DEF IInv, SlotAccounting, Bijection, Injection, IsInjective, Surjection
<1>4. ExistsBijection(Holders', running')
  BY <1>3 DEF ExistsBijection
<1> QED
  BY <1>1, <1>2, <1>4, FS_Bijection

\* What Handover of the pool says of the queue: some callers of W stop to wait and
\* get a slot, no more of them than fit, and all that fit.
HandedOver(W, H) ==
    \E G \in SUBSET W :
        /\ Pending' = W \ G
        /\ Holders' = H \cup G
        /\ G # {} => Cardinality(H \cup G) <= maxConcurrent'
        /\ G = W \/ Cardinality(H \cup G) >= maxConcurrent'

LEMMA Asks ==
    ASSUME NEW c \in Calls, c \notin Pending \cup Holders, ~disposed,
           UNCHANGED <<maxConcurrent, disposed>>, HandedOver(Pending \cup {c}, Holders)
    PROVE  Pool!Ask(c)
<1>1. PICK G \in SUBSET (Pending \cup {c}) :
        /\ Pending' = (Pending \cup {c}) \ G
        /\ Holders' = Holders \cup G
        /\ G # {} => Cardinality(Holders \cup G) <= maxConcurrent'
        /\ G = (Pending \cup {c}) \/ Cardinality(Holders \cup G) >= maxConcurrent'
  BY DEF HandedOver
<1>2. Pool!Cardinality(Holders \cup G) = Cardinality(Holders \cup G)
  BY SameCardinality
<1> QED
  BY <1>1, <1>2 DEF Pool!Ask, Pool!Handover, Pending, Holders

LEMMA GivesBack ==
    ASSUME NEW c \in Holders, ~disposed,
           UNCHANGED <<maxConcurrent, disposed>>, HandedOver(Pending, Holders \ {c})
    PROVE  Pool!GiveBack(c)
<1>1. PICK G \in SUBSET Pending :
        /\ Pending' = Pending \ G
        /\ Holders' = (Holders \ {c}) \cup G
        /\ G # {} => Cardinality((Holders \ {c}) \cup G) <= maxConcurrent'
        /\ G = Pending \/ Cardinality((Holders \ {c}) \cup G) >= maxConcurrent'
  BY DEF HandedOver
<1>2. Pool!Cardinality((Holders \ {c}) \cup G) = Cardinality((Holders \ {c}) \cup G)
  BY SameCardinality
<1> QED
  BY <1>1, <1>2 DEF Pool!GiveBack, Pool!Handover, Pending, Holders

LEMMA Resizes ==
    ASSUME ~disposed, maxConcurrent' \in Limits, UNCHANGED disposed,
           HandedOver(Pending, Holders)
    PROVE  Pool!Resize
<1>1. PICK G \in SUBSET Pending :
        /\ Pending' = Pending \ G
        /\ Holders' = Holders \cup G
        /\ G # {} => Cardinality(Holders \cup G) <= maxConcurrent'
        /\ G = Pending \/ Cardinality(Holders \cup G) >= maxConcurrent'
  BY DEF HandedOver
<1>2. Pool!Cardinality(Holders \cup G) = Cardinality(Holders \cup G)
  BY SameCardinality
<1> QED
  BY <1>1, <1>2 DEF Pool!Resize, Pool!Handover, Pending, Holders

\* drain() hands free slots over to callers that wait, and stops only when one
\* of the two is used up.
LEMMA DrainHandsOver ==
    ASSUME IInv, IInv', ~disposed, ~disposed',
           NEW r \in SUBSET Ids, r \cap waitingIds = {},
           NEW H \in SUBSET Holders,
           NEW p \in [Calls -> PromiseStates],
           \A c \in Calls : /\ p[c] = "pending" <=> promise[c] = "pending"
                            /\ p[c] = "granted" <=> c \in H,
           Drain(r, maxConcurrent', p)
    PROVE  HandedOver(Pending, H)
<1> DEFINE G == Pending \ Pending'
<1>0. TypeOK /\ IndexInSync /\ maxConcurrent' \in 1 .. 10 /\ Len(waiting) \in Nat
  BY LimitIsPositive, LenProperties DEF IInv, TypeOK
<1>1. PICK n \in 0 .. Len(waiting) : Drained(n, r, maxConcurrent', p)
  BY <1>0, DrainFacts
<1>2. \A c \in Calls : promise'[c] = IF \E i \in 1 .. n : waiting[i].call = c
                                   THEN "granted" ELSE p[c]
  BY <1>1 DEF Drained
<1>3. \A i \in 1 .. Len(waiting) :
         waiting[i].call \in Calls /\ promise[waiting[i].call] = "pending"
  BY <1>0, ItemsArePending DEF Pending
<1>4. \A c \in Calls : c \in G <=> \E i \in 1 .. n : waiting[i].call = c
  BY <1>1, <1>2, <1>3 DEF Pending
<1>5. Pending' = Pending \ G /\ G \in SUBSET Pending
  BY <1>2, <1>4 DEF Pending
<1>6. Holders' = H \cup G
  BY <1>2, <1>4 DEF Holders, Pending
<1>7. Cardinality(H \cup G) = Cardinality(running') /\ Cardinality(running') \in Nat
  BY <1>6, HoldersCountNext
<1>8. G # {} => Cardinality(H \cup G) <= maxConcurrent'
  <2>1. G # {} => n > 0
    BY <1>4 DEF Pending
  <2> QED BY <1>1, <1>7, <2>1 DEF Drained
<1>9. G = Pending \/ Cardinality(H \cup G) >= maxConcurrent'
  <2>1. CASE n = Len(waiting)
    BY <1>0, <1>4, <2>1 DEF Pending, IndexInSync
  <2>2. CASE n < Len(waiting)
    BY <1>1, <1>7, <2>2 DEF Drained
  <2> QED BY <1>0, <2>1, <2>2
<1> HIDE DEF G
<1> QED
  BY <1>5, <1>6, <1>8, <1>9 DEF HandedOver

\* Callers that are told to go, and nothing else.
LEMMA TurnedAway ==
    ASSUME TypeOK, NEW C \in SUBSET Pending, C # {},
           \A c \in Calls : promise'[c] = IF c \in C THEN "cancelled" ELSE promise[c],
           UNCHANGED <<maxConcurrent, disposed>>
    PROVE  Pool!TurnAway
<1>1. Pending' = Pending \ C /\ Holders' = Holders
  BY DEF Pending, Holders
<1> QED
  BY <1>1 DEF Pool!TurnAway, Pending, Holders

\* A step that moves no caller in or out.
LEMMA Stutters ==
    ASSUME UNCHANGED <<maxConcurrent, disposed>>, Pending' = Pending, Holders' = Holders
    PROVE  UNCHANGED Pool!vars
BY DEF Pool!vars, Pending, Holders

LEMMA AcquireSlotAsks ==
    ASSUME IInv, IInv', NEW c \in Calls, NEW id \in Ids, AcquireSlot(c, id)
    PROVE  Pool!Ask(c)
<1>0. TypeOK /\ IndexInSync /\ SlotAccounting /\ ~disposed /\ ~disposed'
  BY DEF IInv, AcquireSlot
<1>1. Cardinality(running) \in Nat /\ maxConcurrent \in 1 .. 10 /\ IsFiniteSet(running)
  BY <1>0, LimitIsPositive, CallsAssumption, FS_Subset, FS_CardinalityType DEF TypeOK
<1>2. waiting = << >>
  BY <1>1 DEF IInv, NoIdleSlotWhileWaiting, AcquireSlot
<1>3. Pending = {}
  BY <1>0, <1>2 DEF IndexInSync, Pending
<1>4. promise'[c] = "granted" /\ \A d \in Calls : d # c => promise'[d] = promise[d]
  BY <1>0 DEF AcquireSlot, TypeOK
<1>5. Pending' = {} /\ Holders' = Holders \cup {c} /\ c \notin Pending \cup Holders
  BY <1>3, <1>4 DEF Pending, Holders, AcquireSlot, Idle
<1>6. Cardinality(Holders \cup {c}) <= maxConcurrent'
  <2>1. Cardinality(running') <= maxConcurrent'
    <3>1. Cardinality(running \cup {id})
             = IF id \in running THEN Cardinality(running) ELSE Cardinality(running) + 1
      BY <1>1, FS_AddElement
    <3>2. /\ running' = running \cup {id} /\ maxConcurrent' = maxConcurrent
          /\ Cardinality(running) < maxConcurrent
      BY DEF AcquireSlot
    <3> QED BY <1>1, <3>1, <3>2
  <2> QED BY <1>0, <1>5, <2>1, HoldersCountNext
<1>7. HandedOver(Pending \cup {c}, Holders)
  <2>1. {c} \in SUBSET (Pending \cup {c}) /\ Pending' = (Pending \cup {c}) \ {c}
    BY <1>3, <1>5
  <2> QED BY <1>3, <1>5, <1>6, <2>1 DEF HandedOver
<1> QED
  BY <1>0, <1>5, <1>7, Asks DEF AcquireSlot

LEMMA AcquireQueuedAsks ==
    ASSUME IInv, IInv', NEW c \in Calls, NEW id \in Ids, NEW prio \in Priorities,
           NEW watched \in BOOLEAN, AcquireQueued(c, id, prio, watched)
    PROVE  Pool!Ask(c)
<1>0. TypeOK /\ SlotAccounting /\ ~disposed
  BY DEF IInv, AcquireQueued, MustWait
<1>1. promise'[c] = "pending" /\ \A d \in Calls : d # c => promise'[d] = promise[d]
  BY <1>0 DEF AcquireQueued, TypeOK
<1>2. Pending' = Pending \cup {c} /\ Holders' = Holders /\ c \notin Pending \cup Holders
  BY <1>1 DEF Pending, Holders, AcquireQueued, MustWait, Idle
<1>3. Cardinality(Holders) >= maxConcurrent /\ maxConcurrent' = maxConcurrent
  BY <1>0, HoldersCount DEF AcquireQueued, MustWait
<1>4. HandedOver(Pending \cup {c}, Holders)
  <2>1. /\ {} \in SUBSET (Pending \cup {c})
        /\ Pending' = (Pending \cup {c}) \ {} /\ Holders' = Holders \cup {}
        /\ Cardinality(Holders \cup {}) >= maxConcurrent'
    BY <1>2, <1>3
  <2> QED BY <2>1 DEF HandedOver
<1> QED
  BY <1>0, <1>2, <1>4, Asks DEF AcquireQueued

LEMMA ReleaseGivesBack ==
    ASSUME IInv, IInv', NEW c \in Calls, Release(c)
    PROVE  Pool!GiveBack(c)
<1> DEFINE p == [promise EXCEPT ![c] = "released"]
           r == running \ {idOf[c]}
           H == Holders \ {c}
<1>0. /\ TypeOK /\ IndexInSync /\ c \in Holders
      /\ maxConcurrent' = maxConcurrent /\ disposed' = disposed
  BY DEF IInv, Release, Holders
<1>1. /\ p \in [Calls -> PromiseStates]
      /\ \A d \in Calls : /\ p[d] = "pending" <=> promise[d] = "pending"
                          /\ p[d] = "granted" <=> d \in H
  BY <1>0 DEF TypeOK, PromiseStates, Holders
<1>2. CASE disposed
  <2>1. promise' = p
    BY <1>2 DEF Release
  <2>2. Pending' = Pending /\ Holders' = H
    BY <1>1, <2>1 DEF Pending, Holders
  <2> QED
    BY <1>0, <1>2, <2>2 DEF Pool!GiveBack, Pending, Holders
<1>3. CASE ~disposed
  <2>1. Drain(r, maxConcurrent', p)
    BY <1>0, <1>3 DEF Release
  <2>2. r \in SUBSET Ids /\ r \cap waitingIds = {} /\ H \in SUBSET Holders
    BY <1>0 DEF TypeOK, IndexInSync
  <2> HIDE DEF p, r, H
  <2>3. HandedOver(Pending, H)
    BY <1>0, <1>1, <1>3, <2>1, <2>2, DrainHandsOver
  <2> QED
    BY <1>0, <1>3, <2>3, GivesBack DEF H
<1> QED BY <1>2, <1>3

LEMMA LimitChangeResizes ==
    ASSUME IInv, IInv', NEW m \in Limits, SetMaxConcurrent(m)
    PROVE  Pool!Resize
<1>0. /\ TypeOK /\ IndexInSync /\ ~disposed /\ ~disposed' /\ maxConcurrent' = m
      /\ Drain(running, maxConcurrent', promise)
  BY DEF IInv, SetMaxConcurrent
<1>1. /\ promise \in [Calls -> PromiseStates] /\ running \in SUBSET Ids
      /\ running \cap waitingIds = {} /\ Holders \in SUBSET Holders
  BY <1>0 DEF TypeOK, IndexInSync
<1>2. \A c \in Calls : promise[c] = "granted" <=> c \in Holders
  BY DEF Holders
<1>3. HandedOver(Pending, Holders)
  BY <1>0, <1>1, <1>2, DrainHandsOver
<1>4. ~disposed /\ maxConcurrent' \in Limits /\ UNCHANGED disposed
  BY DEF SetMaxConcurrent
<1> QED
  BY <1>3, <1>4, Resizes

LEMMA CancelTurnsAway ==
    ASSUME IInv, NEW id \in Ids, CancelWaiting(id), UNCHANGED <<maxConcurrent, disposed>>
    PROVE  Pool!TurnAway
<1>0. TypeOK /\ IndexInSync
  BY DEF IInv
<1>1. PICK k \in 1 .. Len(waiting) :
         promise' = [promise EXCEPT ![waiting[k].call] = "cancelled"]
  BY DEF CancelWaiting
<1>2. waiting[k].call \in Pending
  BY <1>0, ItemsArePending
<1>3. \A c \in Calls : promise'[c] = IF c \in {waiting[k].call}
                                   THEN "cancelled" ELSE promise[c]
  BY <1>0, <1>1, <1>2 DEF TypeOK
<1> QED
  BY <1>0, <1>2, <1>3, TurnedAway

\* cancelAllWaiting() and dispose() tell every caller that waits.
LEMMA EmptyQueueFacts ==
    ASSUME IInv, EmptyQueue
    PROVE  \A c \in Calls : promise'[c] = IF c \in Pending THEN "cancelled" ELSE promise[c]
<1>0. TypeOK /\ IndexInSync
  BY DEF IInv
<1>1. \A c \in Calls : c \in Pending <=> \E i \in 1 .. Len(waiting) : waiting[i].call = c
  BY <1>0 DEF IndexInSync, Pending
<1> QED
  BY <1>1 DEF EmptyQueue

LEMMA StepIsPoolStep ==
    ASSUME IInv, IInv', [Next]_vars
    PROVE  [Pool!Next]_(Pool!vars)
<1>0. TypeOK /\ IndexInSync /\ promise \in [Calls -> PromiseStates]
  BY DEF IInv, TypeOK
<1>1. ASSUME NEW c \in Calls, NEW id \in Ids, AcquireRefused(c, id) \/ AcquireAborted(c, id)
      PROVE  UNCHANGED Pool!vars
  <2>1. /\ promise[c] \notin {"pending", "granted"}
        /\ promise'[c] \notin {"pending", "granted"}
        /\ \A d \in Calls : d # c => promise'[d] = promise[d]
        /\ UNCHANGED <<maxConcurrent, disposed>>
    BY <1>0, <1>1 DEF AcquireRefused, AcquireAborted, MustWait, Idle
  <2>2. Pending' = Pending /\ Holders' = Holders
    BY <2>1 DEF Pending, Holders
  <2> QED BY <2>1, <2>2, Stutters
<1>2. ASSUME NEW c \in Calls, Acquire(c) PROVE [Pool!Next]_(Pool!vars)
  BY <1>1, <1>2, AcquireSlotAsks, AcquireQueuedAsks DEF Acquire, Pool!Next
<1>3. ASSUME NEW c \in Calls, Release(c) PROVE Pool!Next
  BY <1>3, ReleaseGivesBack DEF Pool!Next
<1>4. ASSUME NEW c \in Calls, AbortFires(c) PROVE [Pool!Next]_(Pool!vars)
  <2>1. CASE idOf[c] \in waitingIds
    <3>1. idOf[c] \in Ids /\ CancelWaiting(idOf[c]) /\ UNCHANGED <<maxConcurrent, disposed>>
      BY <1>0, <1>4, <2>1 DEF AbortFires, TypeOK
    <3>2. Pool!TurnAway
      BY <3>1, CancelTurnsAway
    <3> QED BY <3>2 DEF Pool!Next
  <2>2. CASE idOf[c] \notin waitingIds
    <3>1. UNCHANGED <<maxConcurrent, disposed, promise>>
      BY <1>4, <2>2 DEF AbortFires
    <3>2. UNCHANGED Pool!vars
      BY <3>1, Stutters DEF Pending, Holders
    <3> QED BY <3>2
  <2> QED BY <2>1, <2>2
<1>5. ASSUME NEW id \in Ids, Cancel(id) PROVE Pool!Next
  <2>1. Pool!TurnAway
    BY <1>5, CancelTurnsAway DEF Cancel
  <2> QED BY <2>1 DEF Pool!Next
<1>6. CASE CancelAllWaiting
  <2>1. Len(waiting) \in Nat \ {0} /\ UNCHANGED <<maxConcurrent, disposed>>
    BY <1>0, <1>6, LenProperties DEF CancelAllWaiting, TypeOK
  <2>2. waiting[1].call \in Pending
    BY <1>0, <2>1, ItemsArePending
  <2>3. Pool!TurnAway
    BY <1>0, <1>6, <2>1, <2>2, EmptyQueueFacts, TurnedAway DEF CancelAllWaiting
  <2> QED BY <2>3 DEF Pool!Next
<1>7. CASE \E m \in Limits : SetMaxConcurrent(m)
  BY <1>7, LimitChangeResizes DEF Pool!Next
<1>8. CASE Dispose
  <2>1. \A c \in Calls : promise'[c] = IF c \in Pending THEN "cancelled" ELSE promise[c]
    BY <1>8, EmptyQueueFacts DEF Dispose
  <2>2. Pending' = {} /\ Holders' = Holders
    BY <2>1 DEF Pending, Holders
  <2>3. Pool!Close
    BY <1>8, <2>2 DEF Dispose, Pool!Close, Pending, Holders
  <2> QED BY <2>3 DEF Pool!Next
<1>9. CASE BoostStarvedItems \/ Tick \/ (\E c \in Calls : ReleaseAgain(c)) \/ UNCHANGED vars
  <2>1. UNCHANGED <<maxConcurrent, disposed, promise>>
    BY <1>9 DEF BoostStarvedItems, Tick, ReleaseAgain, vars
  <2>2. UNCHANGED Pool!vars
    BY <2>1, Stutters DEF Pending, Holders
  <2> QED BY <2>2
<1> QED
  BY <1>2, <1>3, <1>4, <1>5, <1>6, <1>7, <1>8, <1>9 DEF Next

\* The queue is a work-conserving pool of slots, for every number of callers,
\* ids and limits: each of its steps is one of the pool's or none.
THEOREM QueueIsSlotPool == Spec => ImplementsSlotPool
<1>1. Init => Pool!Init
  <2> SUFFICES ASSUME Init PROVE Pool!Init
    OBVIOUS
  <2>1. Pending = {} /\ Holders = {}
    BY DEF Init, Pending, Holders
  <2> QED BY <2>1 DEF Init, Pool!Init, Pending, Holders
<1>2. IInv /\ IInv' /\ [Next]_vars => [Pool!Next]_(Pool!vars)
  BY StepIsPoolStep
<1> QED
  BY <1>1, <1>2, InductiveInvariant, PTL DEF Spec, ImplementsSlotPool, Pool!Spec
=============================================================================
