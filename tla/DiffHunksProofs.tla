---------------------------- MODULE DiffHunksProofs ----------------------------
(***************************************************************************)
(* Theorems about DiffHunks, for texts of any length over any lines, any   *)
(* context, any size of the table and any look-ahead.                      *)
(*                                                                         *)
(* An edit is shown to be a path of operations through the lines of both   *)
(* texts.  What a path shows when some of its changes are made, part by    *)
(* part, is what the hunks are compared with.                              *)
(***************************************************************************)
EXTENDS DiffHunks, TLAPS, FiniteSetTheorems, SequenceTheorems, WellFoundedInduction

-----------------------------------------------------------------------------
(* Induction and recursion.  The library's theorems about them take an         *)
(* operator; these take a set and a function.                                  *)

\* The order of the numbers as the relation the library's theorems take.
LEMMA LessOnNat == OpToRel(<, Nat) = {p \in Nat \X Nat : p[1] < p[2]}
  BY DEF OpToRel

\* A set that holds 0 and, with a number, the next one, holds them all.
LEMMA Induction ==
  ASSUME NEW Good, 0 \in Good, \A n \in Nat : n \in Good => n + 1 \in Good
  PROVE  \A n \in Nat : n \in Good
<1> DEFINE less == {p \in Nat \X Nat : p[1] < p[2]}
           Bad == {n \in Nat : n \notin Good}
<1>1. IsWellFoundedOn(less, Nat)
  BY NatLessThanWellFounded, LessOnNat
<1>2. SUFFICES ASSUME Bad # {} PROVE FALSE
  OBVIOUS
<1>3. PICK x \in Bad : \A y \in Bad : ~ (<<y, x>> \in less)
  <2> HIDE DEF less
  <2>1. Bad \subseteq Nat
    OBVIOUS
  <2> HIDE DEF Bad
  <2> QED
    BY <1>1, <1>2, <2>1, WFMin
<1>4. x # 0 /\ x \in Nat
  OBVIOUS
<1>5. x - 1 \in Nat /\ x - 1 < x /\ (x - 1) + 1 = x
  BY <1>4
<1>6. <<x - 1, x>> \in less
  BY <1>4, <1>5
<1>7. x - 1 \notin Bad
  <2> HIDE DEF Bad, less
  <2> QED
    BY <1>3, <1>6
<1>8. x - 1 \in Good
  BY <1>5, <1>7
<1> QED
  BY <1>5, <1>8

\* A function may be defined at each argument from its values at those of smaller
\* measure.
Bounded(mu, D) == \E N \in Nat : \A d \in D : mu[d] < N

LooksBack(G, D, X, mu) ==
    \A d \in D : \A f, g \in [D -> X] :
        (\A e \in D : mu[e] < mu[d] => f[e] = g[e]) => G[<<d, f>>] = G[<<d, g>>]

Recurs(f, D, G) == \A d \in D : f[d] = G[<<d, f>>]

\* A function whose value at each argument is determined by those at arguments of
\* smaller measure exists.
LEMMA Recursion ==
  ASSUME NEW D, NEW X, NEW x0 \in X, NEW mu \in [D -> Nat], Bounded(mu, D),
         NEW G \in [D \X [D -> X] -> X], LooksBack(G, D, X, mu)
  PROVE  \E f \in [D -> X] : Recurs(f, D, G)
<1> DEFINE Upto(f, k) == \A d \in D : mu[d] < k => f[d] = G[<<d, f>>]
           Good == {k \in Nat : \E f \in [D -> X] : Upto(f, k)}
<1>1. 0 \in Good
  <2>1. [d \in D |-> x0] \in [D -> X]
    OBVIOUS
  <2>2. Upto([d \in D |-> x0], 0)
    OBVIOUS
  <2> QED
    BY <2>1, <2>2
<1>2. ASSUME NEW k \in Nat, k \in Good
      PROVE  k + 1 \in Good
  <2>1. PICK f \in [D -> X] : Upto(f, k)
    BY <1>2
  <2> DEFINE g == [d \in D |-> IF mu[d] = k THEN G[<<d, f>>] ELSE f[d]]
  <2>2. g \in [D -> X]
    OBVIOUS
  <2>3. ASSUME NEW d \in D, mu[d] < k + 1
        PROVE  g[d] = G[<<d, g>>]
    <3>1. \A e \in D : mu[e] < mu[d] => f[e] = g[e]
      BY <2>3
    <3>2. G[<<d, f>>] = G[<<d, g>>]
      <4> HIDE DEF g
      <4> QED
        BY <2>2, <3>1 DEF LooksBack
    <3>3. g[d] = G[<<d, f>>]
      <4>0. mu[d] \in Nat
        OBVIOUS
      <4>1. mu[d] < k \/ mu[d] = k
        BY <2>3, <4>0
      <4>2. mu[d] < k => mu[d] # k /\ f[d] = G[<<d, f>>]
        BY <2>1, <4>0
      <4> QED
        BY <4>1, <4>2
    <3> QED
      BY <3>2, <3>3
  <2>4. k + 1 \in Nat
    OBVIOUS
  <2> HIDE DEF g
  <2> QED
    BY <2>2, <2>3, <2>4
<1> HIDE DEF Good
<1>3. PICK N \in Nat : \A d \in D : mu[d] < N
  BY DEF Bounded
<1>4. N \in Good
  BY <1>1, <1>2, Induction
<1> QED
  BY <1>3, <1>4 DEF Good, Recurs

-----------------------------------------------------------------------------
(* Places of a sequence, in order *)

\* Places are finitely many numbers.
Places(S) == IsFiniteSet(S) /\ S \subseteq Int

\* The number of places up to x.
Rank(S, x) == Cardinality({y \in S : y <= x})

\* A part of some places has no more of them, and is all when it has as many.
LEMMA SomePlaces ==
  ASSUME NEW S, Places(S), NEW T, T \subseteq S
  PROVE  /\ Places(T)
         /\ Cardinality(T) \in Nat
         /\ Cardinality(T) <= Cardinality(S)
         /\ Cardinality(T) = Cardinality(S) => T = S
<1>1. IsFiniteSet(S)
  BY DEF Places
<1>2. T \in SUBSET S
  OBVIOUS
<1>3. IsFiniteSet(T) /\ Cardinality(T) <= Cardinality(S)
  BY <1>1, <1>2, FS_Subset
<1>4. Cardinality(S) = Cardinality(T) => T = S
  BY <1>1, <1>2, FS_Subset
<1> QED
  BY <1>3, <1>4, FS_CardinalityType DEF Places

\* Taking one place out leaves one less.
LEMMA OnePlaceLess ==
  ASSUME NEW S, Places(S), NEW x \in S
  PROVE  /\ Places(S \ {x})
         /\ Cardinality(S \ {x}) \in Nat
         /\ Cardinality(S) = Cardinality(S \ {x}) + 1
<1>1. IsFiniteSet(S)
  BY DEF Places
<1>2. Places(S \ {x}) /\ Cardinality(S \ {x}) \in Nat
  BY SomePlaces
<1>3. Cardinality(S \ {x}) = Cardinality(S) - 1
  BY <1>1, FS_RemoveElement
<1>4. Cardinality(S) \in Nat
  BY <1>1, FS_CardinalityType
<1> QED
  BY <1>2, <1>3, <1>4

\* There are no places when their number is 0.
LEMMA NoPlaces ==
  ASSUME NEW S, Places(S)
  PROVE  Cardinality(S) = 0 <=> S = {}
BY FS_EmptySet DEF Places

\* One of some places is the last.
LEMMA HasLast ==
  ASSUME NEW S, Places(S), S # {}
  PROVE  \E x \in S : \A y \in S : y <= x
<1> DEFINE Good == {k \in Nat : \A T : Places(T) /\ Cardinality(T) = k + 1 =>
                                    \E x \in T : \A y \in T : y <= x}
<1>1. 0 \in Good
  <2>1. ASSUME NEW T, Places(T), Cardinality(T) = 0 + 1
        PROVE  \E x \in T : \A y \in T : y <= x
    <3>1. PICK x \in T : TRUE
      BY <2>1, NoPlaces
    <3>2. Places(T \ {x}) /\ Cardinality(T \ {x}) \in Nat /\ Cardinality(T) = Cardinality(T \ {x}) + 1
      BY <2>1, OnePlaceLess
    <3>3. Cardinality(T \ {x}) = 0
      BY <2>1, <3>2
    <3>4. T \ {x} = {}
      BY <3>2, <3>3, NoPlaces
    <3>5. x \in Int
      BY <2>1 DEF Places
    <3>6. \A y \in T : y = x
      BY <3>4
    <3> QED
      BY <3>5, <3>6
  <2> QED
    BY <2>1
<1>2. ASSUME NEW k \in Nat, k \in Good
      PROVE  k + 1 \in Good
  <2>1. ASSUME NEW T, Places(T), Cardinality(T) = (k + 1) + 1
        PROVE  \E x \in T : \A y \in T : y <= x
    <3>1. PICK z \in T : TRUE
      BY <2>1, NoPlaces
    <3> DEFINE U == T \ {z}
    <3>2. Places(U) /\ Cardinality(U) \in Nat /\ Cardinality(T) = Cardinality(U) + 1
      BY <2>1, OnePlaceLess
    <3>3. Cardinality(U) = k + 1
      BY <2>1, <3>2
    <3>4. PICK x \in U : \A y \in U : y <= x
      BY <1>2, <3>2, <3>3
    <3>5. T \subseteq Int /\ x \in Int /\ z \in Int
      BY <2>1 DEF Places
    <3>6. CASE z <= x
      BY <3>4, <3>6
    <3>7. CASE ~(z <= x)
      <4>1. \A y \in T : y <= z
        BY <3>4, <3>5, <3>7
      <4> QED
        BY <4>1
    <3> QED
      BY <3>6, <3>7
  <2> QED
    BY <2>1
<1> HIDE DEF Good
<1>3. Cardinality(S) - 1 \in Nat /\ Cardinality(S) = (Cardinality(S) - 1) + 1
  <2>1. Cardinality(S) \in Nat /\ Cardinality(S) # 0
    BY NoPlaces, SomePlaces
  <2> QED
    BY <2>1
<1>4. Cardinality(S) - 1 \in Good
  BY <1>1, <1>2, <1>3, Induction
<1> QED
  BY <1>3, <1>4 DEF Good

\* A larger member has a higher rank.
LEMMA RankGrows ==
  ASSUME NEW S, Places(S)
  PROVE  /\ \A x \in S : Rank(S, x) \in 1 .. Cardinality(S)
         /\ \A x, y \in S : x < y => Rank(S, x) < Rank(S, y)
<1> DEFINE Upto(x) == {y \in S : y <= x}
<1>1. Cardinality(S) \in Nat
  BY SomePlaces
<1>2. ASSUME NEW x \in S
      PROVE  /\ Places(Upto(x)) /\ Rank(S, x) = Cardinality(Upto(x)) /\ x \in Upto(x)
             /\ Rank(S, x) \in Nat /\ Rank(S, x) <= Cardinality(S)
  <2>1. x \in Upto(x)
    BY DEF Places
  <2>2. Upto(x) \subseteq S
    OBVIOUS
  <2> HIDE DEF Upto
  <2>3. Rank(S, x) = Cardinality(Upto(x))
    BY DEF Upto, Rank
  <2> QED
    BY <2>1, <2>2, <2>3, SomePlaces
<1>3. ASSUME NEW x \in S
      PROVE  Rank(S, x) \in 1 .. Cardinality(S)
  <2>1. Cardinality(Upto(x)) # 0
    BY <1>2, NoPlaces
  <2> QED
    BY <1>1, <1>2, <2>1
<1>4. ASSUME NEW x \in S, NEW y \in S, x < y
      PROVE  Rank(S, x) < Rank(S, y)
  <2>1. Upto(x) \subseteq Upto(y) /\ y \notin Upto(x) /\ y \in Upto(y)
    <3>1. S \subseteq Int
      BY DEF Places
    <3>2. \A z \in S : z <= x => z <= y
      BY <1>4, <3>1
    <3>3. ~(y <= x)
      BY <1>4, <3>1
    <3> QED
      BY <1>2, <3>2, <3>3
  <2>2. Places(Upto(y)) /\ Rank(S, y) = Cardinality(Upto(y)) /\ Rank(S, x) = Cardinality(Upto(x))
    BY <1>2
  <2>3. Rank(S, y) \in Nat /\ Rank(S, x) \in Nat
    BY <1>2
  <2> HIDE DEF Upto
  <2>4. Cardinality(Upto(x)) <= Cardinality(Upto(y)) /\ Cardinality(Upto(x)) # Cardinality(Upto(y))
    BY <2>1, <2>2, SomePlaces
  <2> QED
    BY <2>2, <2>3, <2>4
<1> QED
  BY <1>3, <1>4

\* Without the last member the others keep their rank.
LEMMA RankOfOthers ==
  ASSUME NEW S, Places(S), NEW x \in S, \A y \in S : y <= x
  PROVE  /\ Rank(S, x) = Cardinality(S)
         /\ \A y \in S \ {x} : Rank(S \ {x}, y) = Rank(S, y)
<1>1. {y \in S : y <= x} = S
  OBVIOUS
<1>2. ASSUME NEW y \in S \ {x}
      PROVE  {z \in S : z <= y} = {z \in S \ {x} : z <= y}
  <2>1. y \in Int /\ x \in Int /\ y # x
    BY DEF Places
  <2>2. ~(x <= y)
    BY <2>1
  <2> QED
    BY <2>2
<1> QED
  BY <1>1, <1>2 DEF Rank

\* Every rank up to the size is somebody's.
LEMMA RankIsOnto ==
  ASSUME NEW S, Places(S)
  PROVE  \A r \in 1 .. Cardinality(S) : \E x \in S : Rank(S, x) = r
<1> DEFINE Onto(T) == \A q \in 1 .. Cardinality(T) : \E x \in T : Rank(T, x) = q
           Good == {k \in Nat : \A T : Places(T) /\ Cardinality(T) = k => Onto(T)}
<1>1. 0 \in Good
  OBVIOUS
<1>2. ASSUME NEW k \in Nat, k \in Good
      PROVE  k + 1 \in Good
  <2>1. ASSUME NEW T, Places(T), Cardinality(T) = k + 1, NEW q \in 1 .. Cardinality(T)
        PROVE  \E x \in T : Rank(T, x) = q
    <3>1. T # {}
      BY <2>1, NoPlaces
    <3>2. PICK z \in T : \A y \in T : y <= z
      BY <2>1, <3>1, HasLast
    <3> DEFINE U == T \ {z}
    <3>3. Places(U) /\ Cardinality(U) \in Nat /\ Cardinality(T) = Cardinality(U) + 1
      BY <2>1, OnePlaceLess
    <3>4. Rank(T, z) = Cardinality(T) /\ \A y \in U : Rank(U, y) = Rank(T, y)
      BY <2>1, <3>2, RankOfOthers
    <3>5. Onto(U)
      <4>1. Cardinality(U) = k
        BY <2>1, <3>3
      <4> QED
        BY <1>2, <3>3, <4>1
    <3>6. CASE q = Cardinality(T)
      BY <3>4, <3>6
    <3>7. CASE q # Cardinality(T)
      <4>1. q \in 1 .. Cardinality(U)
        BY <3>3, <3>7
      <4>2. PICK x \in U : Rank(U, x) = q
        BY <3>5, <4>1
      <4> QED
        BY <3>4, <4>2
    <3> QED
      BY <3>6, <3>7
  <2> QED
    BY <2>1
<1> HIDE DEF Good
<1>3. Cardinality(S) \in Good
  BY <1>1, <1>2, Induction, SomePlaces
<1> QED
  BY <1>3 DEF Good

\* Nth lists the members of a set of places in their order, each once.
LEMMA NthListsPlaces ==
  ASSUME NEW S, Places(S)
  PROVE  /\ \A r \in 1 .. Cardinality(S) : Nth(S, r) \in S /\ Rank(S, Nth(S, r)) = r
         /\ \A x \in S : Nth(S, Rank(S, x)) = x
         /\ \A q, r \in 1 .. Cardinality(S) : q < r => Nth(S, q) < Nth(S, r)
<1>0. Cardinality(S) \in Nat /\ S \subseteq Int
  BY SomePlaces DEF Places
<1>1. ASSUME NEW r \in 1 .. Cardinality(S)
      PROVE  Nth(S, r) \in S /\ Rank(S, Nth(S, r)) = r
  <2>1. \E x \in S : Rank(S, x) = r
    BY RankIsOnto
  <2>2. Nth(S, r) = CHOOSE x \in S : Rank(S, x) = r
    BY DEF Nth, Rank
  <2> QED
    BY <2>1, <2>2
<1>2. /\ \A x \in S : Rank(S, x) \in 1 .. Cardinality(S) /\ Rank(S, x) \in Int
      /\ \A x, y \in S : x < y => Rank(S, x) < Rank(S, y)
  BY <1>0, RankGrows
<1>3. ASSUME NEW x \in S
      PROVE  Nth(S, Rank(S, x)) = x
  <2> DEFINE y == Nth(S, Rank(S, x))
  <2>1. y \in S /\ Rank(S, y) = Rank(S, x)
    BY <1>1, <1>2
  <2> HIDE DEF y
  <2>2. ~(x < y) /\ ~(y < x)
    BY <1>2, <2>1
  <2>3. y = x
    BY <1>0, <2>1, <2>2
  <2> QED
    BY <2>3 DEF y
<1>4. ASSUME NEW q \in 1 .. Cardinality(S), NEW r \in 1 .. Cardinality(S), q < r
      PROVE  Nth(S, q) < Nth(S, r)
  <2> DEFINE x == Nth(S, q)
             y == Nth(S, r)
  <2>1. x \in S /\ Rank(S, x) = q /\ y \in S /\ Rank(S, y) = r
    BY <1>1
  <2> HIDE DEF x, y
  <2>2. q \in Int /\ r \in Int
    BY <1>0
  <2>3. ~(y < x)
    BY <1>2, <1>4, <2>1, <2>2
  <2>4. x # y
    BY <1>4, <2>1, <2>2
  <2>5. x < y
    BY <1>0, <2>1, <2>3, <2>4
  <2> QED
    BY <2>5 DEF x, y
<1> QED
  BY <1>1, <1>3, <1>4

-----------------------------------------------------------------------------
(* Sequences of what stands at some places *)

\* A function on 1 .. n is a sequence of length n.
LEMMA SeqOfFunction ==
  ASSUME NEW V, NEW n \in Nat, NEW s \in [1 .. n -> V]
  PROVE  s \in Seq(V) /\ Len(s) = n
<1>1. s \in Seq(V)
  BY SeqDef
<1>2. Len(s) \in Nat /\ DOMAIN s = 1 .. Len(s)
  BY <1>1, LenProperties
<1>3. DOMAIN s = 1 .. n
  OBVIOUS
<1> QED
  BY <1>1, <1>2, <1>3

\* Picked lists what stands at the places, one element each.
LEMMA PickedIsSeq ==
  ASSUME NEW V, NEW D, Places(D), NEW s, \A x \in D : s[x] \in V
  PROVE  /\ Picked(s, D) \in Seq(V)
         /\ Len(Picked(s, D)) = Cardinality(D)
         /\ Cardinality(D) \in Nat
         /\ \A r \in 1 .. Cardinality(D) : Picked(s, D)[r] = s[Nth(D, r)]
<1>1. Cardinality(D) \in Nat
  BY SomePlaces
<1>2. \A r \in 1 .. Cardinality(D) : s[Nth(D, r)] \in V
  BY NthListsPlaces
<1>3. Picked(s, D) \in [1 .. Cardinality(D) -> V]
  BY <1>2 DEF Picked
<1>4. \A r \in 1 .. Cardinality(D) : Picked(s, D)[r] = s[Nth(D, r)]
  BY DEF Picked
<1> QED
  BY <1>1, <1>3, <1>4, SeqOfFunction

\* The last member of a set of places is listed last, after the others.
LEMMA PickedLast ==
  ASSUME NEW V, NEW D, Places(D), NEW s, \A x \in D : s[x] \in V,
         NEW l \in D, \A x \in D : x <= l
  PROVE  /\ Picked(s, D) = Append(Picked(s, D \ {l}), s[l])
         /\ Picked(s, D \ {l}) \in Seq(V)
<1> DEFINE U == D \ {l}
<1>1. Places(U) /\ Cardinality(U) \in Nat /\ Cardinality(D) = Cardinality(U) + 1
  BY OnePlaceLess
<1>2. /\ Picked(s, U) \in Seq(V) /\ Len(Picked(s, U)) = Cardinality(U)
      /\ \A r \in 1 .. Cardinality(U) : Picked(s, U)[r] = s[Nth(U, r)]
  <2>1. \A x \in U : s[x] \in V
    OBVIOUS
  <2> HIDE DEF U
  <2> QED
    BY <1>1, <2>1, PickedIsSeq
<1>3. /\ Picked(s, D) \in Seq(V) /\ Len(Picked(s, D)) = Cardinality(D)
      /\ \A r \in 1 .. Cardinality(D) : Picked(s, D)[r] = s[Nth(D, r)]
  BY PickedIsSeq
<1>4. Rank(D, l) = Cardinality(D) /\ \A y \in U : Rank(U, y) = Rank(D, y)
  BY RankOfOthers
<1>5. Nth(D, Cardinality(D)) = l
  BY <1>4, NthListsPlaces
<1>6. ASSUME NEW r \in 1 .. Cardinality(U)
      PROVE  Nth(D, r) = Nth(U, r)
  <2>1. Nth(U, r) \in U /\ Rank(U, Nth(U, r)) = r
    BY <1>1, NthListsPlaces
  <2>2. Rank(D, Nth(U, r)) = r
    BY <1>4, <2>1
  <2>3. \A x \in D : Nth(D, Rank(D, x)) = x
    BY NthListsPlaces
  <2> QED
    BY <2>1, <2>2, <2>3
<1> HIDE DEF U
<1>7. s[l] \in V
  OBVIOUS
<1>8. /\ Append(Picked(s, U), s[l]) \in Seq(V)
      /\ Len(Append(Picked(s, U), s[l])) = Cardinality(D)
      /\ \A r \in 1 .. Cardinality(U) : Append(Picked(s, U), s[l])[r] = Picked(s, U)[r]
      /\ Append(Picked(s, U), s[l])[Cardinality(D)] = s[l]
  BY <1>1, <1>2, <1>7, AppendProperties
<1>9. ASSUME NEW r \in 1 .. Cardinality(D)
      PROVE  Picked(s, D)[r] = Append(Picked(s, U), s[l])[r]
  <2>1. CASE r = Cardinality(D)
    BY <1>3, <1>5, <1>8, <2>1
  <2>2. CASE r # Cardinality(D)
    <3>1. r \in 1 .. Cardinality(U)
      BY <1>1, <2>2
    <3> QED
      BY <1>2, <1>3, <1>6, <1>8, <3>1
  <2> QED
    BY <2>1, <2>2
<1>10. Picked(s, D) = Append(Picked(s, U), s[l])
  BY <1>3, <1>8, <1>9, SeqEqual
<1> QED
  BY <1>1, <1>2, <1>3, <1>10 DEF U

\* Nothing stands at no places.
LEMMA PickedNone ==
  ASSUME NEW s
  PROVE  Picked(s, {}) = << >>
<1>1. Places({}) /\ Cardinality({}) = 0
  BY FS_EmptySet DEF Places
<1>2. \A x \in {} : s[x] \in {0}
  OBVIOUS
<1>3. Picked(s, {}) \in Seq({0}) /\ Len(Picked(s, {})) = 0
  BY <1>1, <1>2, PickedIsSeq
<1> QED
  BY <1>3, EmptySeq

\* The places up to k.
Upto(D, k) == {x \in D : x <= k}

\* The places of a sequence up to the k-th: none at first, all at the end.
LEMMA PlacesOfASequence ==
  ASSUME NEW n \in Nat, NEW D, D \subseteq 1 .. n
  PROVE  /\ Places(D)
         /\ \A k \in Int : Places(Upto(D, k)) /\ Upto(D, k) \subseteq D
         /\ Upto(D, 0) = {}
         /\ Upto(D, n) = D
<1>1. IsFiniteSet(1 .. n)
  BY FS_Interval
<1>2. Places(1 .. n)
  BY <1>1 DEF Places
<1>3. Places(D)
  BY <1>2, SomePlaces
<1>4. \A k \in Int : Upto(D, k) \subseteq D
  BY DEF Upto
<1>5. \A k \in Int : Places(Upto(D, k))
  BY <1>3, <1>4, SomePlaces
<1>6. ASSUME NEW x \in D
      PROVE  x <= n /\ ~(x <= 0)
  <2>1. x \in 1 .. n
    OBVIOUS
  <2> QED
    BY <2>1
<1>7. Upto(D, 0) = {} /\ Upto(D, n) = D
  BY <1>6 DEF Upto
<1> QED
  BY <1>3, <1>4, <1>5, <1>7

\* What is picked grows with the places looked at, one after the other.
\* What is picked up to a place comes from what is picked up to the one before.
Stepwise(V, D, s, k) ==
    /\ Picked(s, Upto(D, k)) \in Seq(V)
    /\ k + 1 \in D => /\ Picked(s, Upto(D, k + 1)) = Append(Picked(s, Upto(D, k)), s[k + 1])
                      /\ Cardinality(Upto(D, k + 1)) = Cardinality(Upto(D, k)) + 1
    /\ k + 1 \notin D => Upto(D, k + 1) = Upto(D, k)

\* With one place more, what is picked up to it grows by its element, if it is in D.
LEMMA PickedStep ==
  ASSUME NEW V, NEW n \in Nat, NEW D, D \subseteq 1 .. n, NEW s, \A x \in D : s[x] \in V,
         NEW k \in 0 .. n - 1
  PROVE  Stepwise(V, D, s, k)
<1> DEFINE T == Upto(D, k + 1)
<1>0. k \in Int /\ k + 1 \in Int
  OBVIOUS
<1>1. Places(Upto(D, k)) /\ Upto(D, k) \subseteq D /\ Places(T) /\ T \subseteq D
  BY <1>0, PlacesOfASequence
<1>2. \A x \in D : x \in Int
  OBVIOUS
<1>3. Picked(s, Upto(D, k)) \in Seq(V)
  BY <1>1, PickedIsSeq
<1>4. \A x \in D : (x <= k + 1) <=> (x <= k \/ x = k + 1)
  BY <1>0, <1>2
<1>5. ASSUME k + 1 \notin D
      PROVE  T = Upto(D, k)
  BY <1>4, <1>5 DEF Upto
<1>6. ASSUME k + 1 \in D
      PROVE  /\ Picked(s, T) = Append(Picked(s, Upto(D, k)), s[k + 1])
             /\ Cardinality(T) = Cardinality(Upto(D, k)) + 1
  <2>1. k + 1 \in T /\ \A x \in T : x <= k + 1
    BY <1>0, <1>6 DEF Upto
  <2>2. T \ {k + 1} = Upto(D, k)
    <3>1. ~(k + 1 <= k)
      BY <1>0
    <3> QED
      BY <1>4, <3>1 DEF Upto
  <2>3. \A x \in T : s[x] \in V
    BY <1>1
  <2> HIDE DEF T
  <2>4. Picked(s, T) = Append(Picked(s, T \ {k + 1}), s[k + 1])
    <3> DEFINE l == k + 1
    <3> HIDE DEF l
    <3>1. l \in T /\ \A x \in T : x <= l
      BY <2>1 DEF l
    <3>2. /\ Picked(s, T) = Append(Picked(s, T \ {l}), s[l])
          /\ Picked(s, T \ {l}) \in Seq(V)
      BY <1>1, <2>3, <3>1, PickedLast
    <3> QED
      BY <3>2 DEF l
  <2>5. Cardinality(T) = Cardinality(T \ {k + 1}) + 1
    BY <1>1, <2>1, OnePlaceLess
  <2> QED
    BY <2>2, <2>4, <2>5
<1> QED
  BY <1>3, <1>5, <1>6 DEF Stepwise

-----------------------------------------------------------------------------
(* The table of lengths *)

Iterates(f, n, x0, H) == \A j \in 0 .. n : f[j] = IF j = 0 THEN x0 ELSE H[<<j, f[j - 1]>>]

\* A function on 0 .. n that is computed entry by entry exists.
LEMMA Iteration ==
  ASSUME NEW n \in Nat, NEW X, NEW x0 \in X, NEW H \in [(1 .. n) \X X -> X]
  PROVE  \E f \in [0 .. n -> X] : Iterates(f, n, x0, H)
<1> DEFINE Done(f, k) == \A j \in 0 .. n : j <= k => f[j] = IF j = 0 THEN x0 ELSE H[<<j, f[j - 1]>>]
           Good == {k \in Nat : \E f \in [0 .. n -> X] : Done(f, k)}
<1>1. 0 \in Good
  <2>1. [j \in 0 .. n |-> x0] \in [0 .. n -> X]
    OBVIOUS
  <2>2. Done([j \in 0 .. n |-> x0], 0)
    OBVIOUS
  <2> QED
    BY <2>1, <2>2
<1>2. ASSUME NEW k \in Nat, k \in Good
      PROVE  k + 1 \in Good
  <2>1. PICK f \in [0 .. n -> X] : Done(f, k)
    BY <1>2
  <2> DEFINE g == [j \in 0 .. n |-> IF j = k + 1 THEN H[<<j, f[k]>>] ELSE f[j]]
  <2>2. g \in [0 .. n -> X]
    <3>1. ASSUME k + 1 \in 0 .. n
          PROVE  H[<<k + 1, f[k]>>] \in X
      <4>1. k \in 0 .. n /\ k + 1 \in 1 .. n
        BY <3>1
      <4> QED
        BY <4>1
    <3> QED
      BY <3>1
  <2>3. ASSUME NEW j \in 0 .. n, j <= k + 1
        PROVE  g[j] = IF j = 0 THEN x0 ELSE H[<<j, g[j - 1]>>]
    <3>1. CASE j = k + 1
      <4>1. j - 1 = k /\ j # 0 /\ k \in 0 .. n /\ k # k + 1
        BY <3>1
      <4> QED
        BY <3>1, <4>1
    <3>2. CASE j # k + 1
      <4>1. j <= k /\ j - 1 # k + 1
        BY <2>3, <3>2
      <4>2. j # 0 => j - 1 \in 0 .. n
        OBVIOUS
      <4> QED
        BY <2>1, <3>2, <4>1, <4>2
    <3> QED
      BY <3>1, <3>2
  <2>4. k + 1 \in Nat
    OBVIOUS
  <2> HIDE DEF g
  <2> QED
    BY <2>2, <2>3, <2>4
<1> HIDE DEF Good
<1>3. n \in Good
  BY <1>1, <1>2, Induction
<1>4. \A j \in 0 .. n : j <= n
  OBVIOUS
<1> QED
  BY <1>3, <1>4 DEF Good, Iterates

Lengths(m) == [0 .. m -> Nat]

\* A row of the table: each entry from the one before it and the two above.
LEMMA RowEntries ==
  ASSUME NEW V, NEW b \in Seq(V), NEW line, NEW above \in Lengths(Len(b))
  PROVE  /\ Row(above, line, b) \in Lengths(Len(b))
         /\ Row(above, line, b)[0] = 0
         /\ \A j \in 1 .. Len(b) :
               Row(above, line, b)[j] = Cell(above, Row(above, line, b), line, b, j)
<1> DEFINE m == Len(b)
           Step(r, j) == [r EXCEPT ![j] = Cell(above, r, line, b, j)]
           IsFilling(f) == f = [j \in 0 .. m |-> IF j = 0 THEN Zeros(b) ELSE Step(f[j - 1], j)]
           filled == CHOOSE f : IsFilling(f)
<1>1. m \in Nat
  BY LenProperties
<1>2. Zeros(b) \in Lengths(m) /\ Zeros(b)[0] = 0
  BY <1>1 DEF Zeros, Lengths
<1>3. ASSUME NEW r \in Lengths(m), NEW j \in 1 .. m
      PROVE  Cell(above, r, line, b, j) \in Nat
  <2>1. above[j - 1] \in Nat /\ above[j] \in Nat /\ r[j - 1] \in Nat
    <3>1. j \in 0 .. m /\ j - 1 \in 0 .. m
      BY <1>1
    <3> QED
      BY <3>1 DEF Lengths
  <2> QED
    BY <2>1 DEF Cell, Larger
<1>4. ASSUME NEW r \in Lengths(m), NEW j \in 1 .. m
      PROVE  /\ Step(r, j) \in Lengths(m)
             /\ Step(r, j)[j] = Cell(above, r, line, b, j)
             /\ \A i \in 0 .. m : i # j => Step(r, j)[i] = r[i]
  <2>1. j \in 0 .. m
    BY <1>1
  <2> QED
    BY <1>3, <2>1 DEF Lengths
<1> HIDE DEF Step
<1>5. \E f : IsFilling(f)
  <2> DEFINE H == [q \in (1 .. m) \X Lengths(m) |-> Step(q[2], q[1])]
  <2>1. H \in [(1 .. m) \X Lengths(m) -> Lengths(m)]
    BY <1>4
  <2> HIDE DEF H, m
  <2>2. PICK f \in [0 .. m -> Lengths(m)] : Iterates(f, m, Zeros(b), H)
    BY <1>1, <1>2, <2>1, Iteration
  <2>3. ASSUME NEW j \in 0 .. m, j # 0
        PROVE  H[<<j, f[j - 1]>>] = Step(f[j - 1], j)
    <3>1. j \in 1 .. m /\ j - 1 \in 0 .. m
      BY <1>1, <2>3
    <3> QED
      BY <3>1 DEF H
  <2> QED
    BY <2>2, <2>3 DEF Iterates
<1>6. IsFilling(filled)
  <2> HIDE DEF IsFilling
  <2> QED
    BY <1>5
<1>7. Row(above, line, b) = filled[m]
  BY DEF Row, Step
<1> DEFINE Fine(r, k) == /\ r \in Lengths(m)
                         /\ r[0] = 0
                         /\ \A j \in 1 .. m : j <= k => r[j] = Cell(above, r, line, b, j)
           Good == {k \in Nat : k <= m => Fine(filled[k], k)}
<1> HIDE DEF filled, m
<1>8. filled[0] = Zeros(b) /\ \A j \in 0 .. m : j # 0 => filled[j] = Step(filled[j - 1], j)
  BY <1>1, <1>6
<1>9. 0 \in Good
  BY <1>1, <1>2, <1>8
<1>10. ASSUME NEW k \in Nat, k \in Good
       PROVE  k + 1 \in Good
  <2> SUFFICES ASSUME k + 1 <= m
               PROVE  Fine(filled[k + 1], k + 1)
    OBVIOUS
  <2> DEFINE r == filled[k]
             t == filled[k + 1]
  <2>1. Fine(r, k)
    BY <1>1, <1>10
  <2>2. k + 1 \in 1 .. m /\ k + 1 \in 0 .. m /\ (k + 1) - 1 = k /\ k + 1 # 0 /\ k # k + 1
    BY <1>1
  <2>3. t = Step(r, k + 1)
    BY <1>8, <2>2
  <2> HIDE DEF r, t
  <2>4. /\ t \in Lengths(m)
        /\ t[k + 1] = Cell(above, r, line, b, k + 1)
        /\ \A i \in 0 .. m : i # k + 1 => t[i] = r[i]
    BY <1>4, <2>1, <2>2, <2>3
  <2>5. t[0] = 0
    BY <1>1, <2>1, <2>2, <2>4
  <2>6. ASSUME NEW j \in 1 .. m, j <= k + 1
        PROVE  t[j] = Cell(above, t, line, b, j)
    <3>1. j \in 0 .. m /\ j - 1 \in 0 .. m /\ j - 1 # k + 1 /\ (j <= k \/ j = k + 1)
      BY <1>1, <2>6
    <3>2. t[j - 1] = r[j - 1]
      BY <2>4, <3>1
    <3>3. Cell(above, t, line, b, j) = Cell(above, r, line, b, j)
      BY <3>2 DEF Cell
    <3>4. CASE j = k + 1
      BY <2>4, <3>3, <3>4
    <3>5. CASE j <= k
      <4>1. j # k + 1
        BY <3>1, <3>5
      <4> QED
        BY <2>1, <2>4, <3>1, <3>3, <3>5, <4>1
    <3> QED
      BY <3>1, <3>4, <3>5
  <2>7. Fine(t, k + 1)
    BY <2>4, <2>5, <2>6
  <2> QED
    BY <2>7 DEF t
<1> HIDE DEF Good
<1>11. m \in Good
  BY <1>1, <1>9, <1>10, Induction
<1>12. Fine(filled[m], m)
  BY <1>1, <1>11 DEF Good
<1>13. \A j \in 1 .. m : j <= m
  BY <1>1
<1> QED
  BY <1>7, <1>12, <1>13 DEF m

Dp(a, b) == [0 .. Len(a) -> Lengths(Len(b))]

\* The rows of the table, each from the one above.
LEMMA TableRows ==
  ASSUME NEW V, NEW a \in Seq(V), NEW b \in Seq(V)
  PROVE  /\ Table(a, b) \in Dp(a, b)
         /\ Table(a, b)[0] = Zeros(b)
         /\ \A i \in 1 .. Len(a) : Table(a, b)[i] = Row(Table(a, b)[i - 1], a[i], b)
<1> DEFINE n == Len(a)
           first == [r \in 0 .. n |-> Zeros(b)]
           Step(t, i) == [t EXCEPT ![i] = Row(t[i - 1], a[i], b)]
           IsFilling(f) == f = [i \in 0 .. n |-> IF i = 0 THEN first ELSE Step(f[i - 1], i)]
           filled == CHOOSE f : IsFilling(f)
<1>1. n \in Nat
  BY LenProperties
<1>2. first \in Dp(a, b) /\ first[0] = Zeros(b)
  BY <1>1, LenProperties DEF Dp, Zeros, Lengths
<1>3. ASSUME NEW t \in Dp(a, b), NEW i \in 1 .. n
      PROVE  /\ Step(t, i) \in Dp(a, b)
             /\ Step(t, i)[i] = Row(t[i - 1], a[i], b)
             /\ \A r \in 0 .. n : r # i => Step(t, i)[r] = t[r]
  <2>1. i \in 0 .. n /\ i - 1 \in 0 .. n
    BY <1>1
  <2>2. t[i - 1] \in Lengths(Len(b))
    BY <2>1 DEF Dp
  <2>3. Row(t[i - 1], a[i], b) \in Lengths(Len(b))
    BY <2>2, RowEntries
  <2> QED
    BY <2>1, <2>3 DEF Dp
<1> HIDE DEF Step, first
<1>4. \E f : IsFilling(f)
  <2> DEFINE H == [q \in (1 .. n) \X Dp(a, b) |-> Step(q[2], q[1])]
  <2>1. H \in [(1 .. n) \X Dp(a, b) -> Dp(a, b)]
    BY <1>3
  <2> HIDE DEF H, n
  <2>2. PICK f \in [0 .. n -> Dp(a, b)] : Iterates(f, n, first, H)
    BY <1>1, <1>2, <2>1, Iteration
  <2>3. ASSUME NEW i \in 0 .. n, i # 0
        PROVE  H[<<i, f[i - 1]>>] = Step(f[i - 1], i)
    <3>1. i \in 1 .. n /\ i - 1 \in 0 .. n
      BY <1>1, <2>3
    <3> QED
      BY <3>1 DEF H
  <2> QED
    BY <2>2, <2>3 DEF Iterates
<1>5. IsFilling(filled)
  <2> HIDE DEF IsFilling
  <2> QED
    BY <1>4
<1>6. Table(a, b) = filled[n]
  BY DEF Table, Step, first
<1> DEFINE Fine(t, k) == /\ t \in Dp(a, b)
                         /\ t[0] = Zeros(b)
                         /\ \A i \in 1 .. n : i <= k => t[i] = Row(t[i - 1], a[i], b)
           Good == {k \in Nat : k <= n => Fine(filled[k], k)}
<1> HIDE DEF filled, n
<1>7. filled[0] = first /\ \A i \in 0 .. n : i # 0 => filled[i] = Step(filled[i - 1], i)
  BY <1>1, <1>5
<1>8. 0 \in Good
  BY <1>1, <1>2, <1>7
<1>9. ASSUME NEW k \in Nat, k \in Good
      PROVE  k + 1 \in Good
  <2> SUFFICES ASSUME k + 1 <= n
               PROVE  Fine(filled[k + 1], k + 1)
    OBVIOUS
  <2> DEFINE t == filled[k]
             u == filled[k + 1]
  <2>1. Fine(t, k)
    BY <1>1, <1>9
  <2>2. k + 1 \in 1 .. n /\ k + 1 \in 0 .. n /\ (k + 1) - 1 = k /\ k + 1 # 0 /\ k # k + 1
    BY <1>1
  <2>3. u = Step(t, k + 1)
    BY <1>7, <2>2
  <2> HIDE DEF t, u
  <2>4. /\ u \in Dp(a, b)
        /\ u[k + 1] = Row(t[k], a[k + 1], b)
        /\ \A i \in 0 .. n : i # k + 1 => u[i] = t[i]
    BY <1>3, <2>1, <2>2, <2>3
  <2>5. u[0] = Zeros(b)
    BY <1>1, <2>1, <2>2, <2>4
  <2>6. ASSUME NEW i \in 1 .. n, i <= k + 1
        PROVE  u[i] = Row(u[i - 1], a[i], b)
    <3>1. i \in 0 .. n /\ i - 1 \in 0 .. n /\ i - 1 # k + 1 /\ (i <= k \/ i = k + 1)
      BY <1>1, <2>6
    <3>2. u[i - 1] = t[i - 1]
      BY <2>4, <3>1
    <3>3. CASE i = k + 1
      BY <2>2, <2>4, <3>2, <3>3
    <3>4. CASE i <= k
      <4>1. i # k + 1
        BY <3>1, <3>4
      <4> QED
        BY <2>1, <2>4, <3>1, <3>2, <3>4, <4>1
    <3> QED
      BY <3>1, <3>3, <3>4
  <2>7. Fine(u, k + 1)
    BY <2>4, <2>5, <2>6
  <2> QED
    BY <2>7 DEF u
<1> HIDE DEF Good
<1>10. n \in Good
  BY <1>1, <1>8, <1>9, Induction
<1>11. Fine(filled[n], n)
  BY <1>1, <1>10 DEF Good
<1>12. \A i \in 1 .. n : i <= n
  BY <1>1
<1> QED
  BY <1>6, <1>11, <1>12 DEF n

\* The entries of the table.
LEMMA TableEntries ==
  ASSUME NEW V, NEW a \in Seq(V), NEW b \in Seq(V)
  PROVE  LET dp == Table(a, b) IN
         /\ \A i \in 0 .. Len(a), j \in 0 .. Len(b) : dp[i][j] \in Nat
         /\ \A i \in 0 .. Len(a) : dp[i][0] = 0
         /\ \A j \in 0 .. Len(b) : dp[0][j] = 0
         /\ \A i \in 1 .. Len(a), j \in 1 .. Len(b) :
               dp[i][j] = IF a[i] = b[j] THEN dp[i - 1][j - 1] + 1
                          ELSE Larger(dp[i - 1][j], dp[i][j - 1])
<1> DEFINE dp == Table(a, b)
<1>1. /\ dp \in Dp(a, b)
      /\ dp[0] = Zeros(b)
      /\ \A i \in 1 .. Len(a) : dp[i] = Row(dp[i - 1], a[i], b)
  BY TableRows
<1> HIDE DEF dp
<1>2. Len(a) \in Nat /\ Len(b) \in Nat
  BY LenProperties
<1>3. \A i \in 0 .. Len(a) : dp[i] \in Lengths(Len(b))
  BY <1>1 DEF Dp
<1>4. ASSUME NEW i \in 1 .. Len(a)
      PROVE  /\ dp[i][0] = 0
             /\ \A j \in 1 .. Len(b) : dp[i][j] = Cell(dp[i - 1], dp[i], a[i], b, j)
  <2>1. i - 1 \in 0 .. Len(a)
    BY <1>2
  <2>2. dp[i - 1] \in Lengths(Len(b)) /\ dp[i] = Row(dp[i - 1], a[i], b)
    BY <1>1, <1>3, <2>1
  <2> QED
    BY <2>2, RowEntries
<1>5. \A i \in 0 .. Len(a), j \in 0 .. Len(b) : dp[i][j] \in Nat
  BY <1>3 DEF Lengths
<1>6. \A j \in 0 .. Len(b) : dp[0][j] = 0
  BY <1>1 DEF Zeros
<1>7. \A i \in 0 .. Len(a) : dp[i][0] = 0
  <2>1. \A i \in 0 .. Len(a) : i = 0 \/ i \in 1 .. Len(a)
    BY <1>2
  <2>2. 0 \in 0 .. Len(b)
    BY <1>2
  <2> QED
    BY <1>4, <1>6, <2>1, <2>2
<1>8. \A i \in 1 .. Len(a), j \in 1 .. Len(b) :
         dp[i][j] = IF a[i] = b[j] THEN dp[i - 1][j - 1] + 1
                    ELSE Larger(dp[i - 1][j], dp[i][j - 1])
  BY <1>4 DEF Cell
<1> QED
  BY <1>5, <1>6, <1>7, <1>8 DEF dp

\* No common subsequence of the first i and j lines is longer than the table says.
LEMMA TableBounds ==
  ASSUME NEW V, NEW a \in Seq(V), NEW b \in Seq(V)
  PROVE  \A i \in 0 .. Len(a), j \in 0 .. Len(b) :
         \A D \in SUBSET (1 .. i), E \in SUBSET (1 .. j) :
            Picked(a, D) = Picked(b, E) => Cardinality(D) <= Table(a, b)[i][j]
<1> DEFINE dp == Table(a, b)
           Bound(i, j) == \A D \in SUBSET (1 .. i), E \in SUBSET (1 .. j) :
                             Picked(a, D) = Picked(b, E) => Cardinality(D) <= dp[i][j]
           Good == {k \in Nat : \A i \in 0 .. Len(a), j \in 0 .. Len(b) : i + j < k => Bound(i, j)}
<1>1. Len(a) \in Nat /\ Len(b) \in Nat
  BY LenProperties
<1>2. /\ \A i \in 0 .. Len(a), j \in 0 .. Len(b) : dp[i][j] \in Nat
      /\ \A i \in 1 .. Len(a), j \in 1 .. Len(b) :
            dp[i][j] = IF a[i] = b[j] THEN dp[i - 1][j - 1] + 1
                       ELSE Larger(dp[i - 1][j], dp[i][j - 1])
  BY TableEntries
<1> HIDE DEF dp
<1>3. ASSUME NEW k \in Nat, k \in Good
      PROVE  k + 1 \in Good
  <2> SUFFICES ASSUME NEW i \in 0 .. Len(a), NEW j \in 0 .. Len(b), i + j < k + 1,
                      NEW D \in SUBSET (1 .. i), NEW E \in SUBSET (1 .. j),
                      Picked(a, D) = Picked(b, E)
               PROVE  Cardinality(D) <= dp[i][j]
    OBVIOUS
  <2>1. i \in Nat /\ j \in Nat /\ i <= Len(a) /\ j <= Len(b) /\ dp[i][j] \in Nat
    BY <1>1, <1>2
  <2>2. Places(D) /\ Places(E)
    BY <2>1, PlacesOfASequence
  <2>3. (\A x \in D : x \in 1 .. Len(a)) /\ (\A x \in E : x \in 1 .. Len(b))
    <3>1. \A x \in 1 .. i : x \in 1 .. Len(a)
      BY <1>1, <2>1
    <3>2. \A x \in 1 .. j : x \in 1 .. Len(b)
      BY <1>1, <2>1
    <3> QED
      BY <3>1, <3>2
  <2>4. (\A x \in D : a[x] \in V) /\ (\A x \in E : b[x] \in V)
    BY <2>3, ElementOfSeq
  <2>5. Cardinality(D) \in Nat /\ Cardinality(E) \in Nat /\ Cardinality(D) = Cardinality(E)
    <3>1. Len(Picked(a, D)) = Cardinality(D) /\ Cardinality(D) \in Nat
      BY <2>2, <2>4, PickedIsSeq
    <3>2. Len(Picked(b, E)) = Cardinality(E) /\ Cardinality(E) \in Nat
      BY <2>2, <2>4, PickedIsSeq
    <3> QED
      BY <3>1, <3>2
  <2>6. CASE D = {}
    BY <2>1, <2>2, <2>5, <2>6, NoPlaces
  <2>7. CASE D # {}
    <3>1. E # {}
      BY <2>2, <2>5, <2>7, NoPlaces
    <3>2. PICK l \in D : \A x \in D : x <= l
      BY <2>2, <2>7, HasLast
    <3>3. PICK r \in E : \A x \in E : x <= r
      BY <2>2, <3>1, HasLast
    <3>4. i \in 1 .. Len(a) /\ j \in 1 .. Len(b) /\ i - 1 \in 0 .. Len(a) /\ j - 1 \in 0 .. Len(b)
      <4>1. l \in 1 .. i /\ r \in 1 .. j
        OBVIOUS
      <4> QED
        BY <1>1, <2>1, <4>1
    <3>5. /\ dp[i - 1][j - 1] \in Nat /\ dp[i - 1][j] \in Nat /\ dp[i][j - 1] \in Nat
          /\ dp[i][j] = IF a[i] = b[j] THEN dp[i - 1][j - 1] + 1
                        ELSE Larger(dp[i - 1][j], dp[i][j - 1])
      BY <1>2, <3>4
    <3>6. /\ Picked(a, D) = Append(Picked(a, D \ {l}), a[l])
          /\ Picked(a, D \ {l}) \in Seq(V)
      BY <2>2, <2>4, <3>2, PickedLast
    <3>7. /\ Picked(b, E) = Append(Picked(b, E \ {r}), b[r])
          /\ Picked(b, E \ {r}) \in Seq(V)
      BY <2>2, <2>4, <3>3, PickedLast
    <3>8. Picked(a, D \ {l}) = Picked(b, E \ {r}) /\ a[l] = b[r]
      <4>1. a[l] \in V /\ b[r] \in V
        BY <2>4
      <4>2. Append(Picked(a, D \ {l}), a[l]) = Append(Picked(b, E \ {r}), b[r])
        BY <3>6, <3>7
      <4> DEFINE s == Picked(a, D \ {l})
                 t == Picked(b, E \ {r})
      <4>3. s \in Seq(V) /\ t \in Seq(V) /\ Append(s, a[l]) = Append(t, b[r])
        BY <3>6, <3>7, <4>2
      <4> HIDE DEF s, t
      <4>4. Append(s, a[l]) = Append(t, b[r]) <=> s = t /\ a[l] = b[r]
        BY <4>1, <4>3, AppendInjective
      <4> QED
        BY <4>3, <4>4 DEF s, t
    <3>9. CASE a[i] = b[j]
      <4>1. D \ {l} \in SUBSET (1 .. i - 1) /\ E \ {r} \in SUBSET (1 .. j - 1)
        <5>1. ASSUME NEW x \in D, x # l
              PROVE  x \in 1 .. i - 1
          <6>1. x \in 1 .. i /\ l \in 1 .. i /\ x <= l
            BY <3>2
          <6> QED
            BY <2>1, <5>1, <6>1
        <5>2. ASSUME NEW x \in E, x # r
              PROVE  x \in 1 .. j - 1
          <6>1. x \in 1 .. j /\ r \in 1 .. j /\ x <= r
            BY <3>3
          <6> QED
            BY <2>1, <5>2, <6>1
        <5> QED
          BY <5>1, <5>2
      <4>2. (i - 1) + (j - 1) < k
        BY <2>1
      <4>3. Bound(i - 1, j - 1)
        BY <1>3, <3>4, <4>2
      <4>4. Cardinality(D \ {l}) <= dp[i - 1][j - 1]
        BY <3>8, <4>1, <4>3
      <4>5. Cardinality(D) = Cardinality(D \ {l}) + 1 /\ Cardinality(D \ {l}) \in Nat
        BY <2>2, OnePlaceLess
      <4> QED
        BY <3>5, <3>9, <4>4, <4>5
    <3>10. CASE a[i] # b[j]
      <4>1. i \notin D \/ j \notin E
        <5> SUFFICES ASSUME i \in D, j \in E PROVE FALSE
          OBVIOUS
        <5>1. l = i /\ r = j
          <6>1. l \in 1 .. i /\ r \in 1 .. j /\ i <= l /\ j <= r
            BY <3>2, <3>3
          <6> QED
            BY <2>1, <6>1
        <5> QED
          BY <3>8, <3>10, <5>1
      <4>2. CASE i \notin D
        <5>1. D \in SUBSET (1 .. i - 1)
          <6>1. ASSUME NEW x \in D
                PROVE  x \in 1 .. i - 1
            <7>1. x \in 1 .. i /\ x # i
              BY <4>2
            <7> QED
              BY <2>1, <7>1
          <6> QED
            BY <6>1
        <5>2. (i - 1) + j < k
          BY <2>1
        <5>3. Bound(i - 1, j)
          BY <1>3, <3>4, <5>2
        <5>4. Cardinality(D) <= dp[i - 1][j]
          BY <5>1, <5>3
        <5> QED
          BY <2>5, <3>5, <3>10, <5>4 DEF Larger
      <4>3. CASE j \notin E
        <5>1. E \in SUBSET (1 .. j - 1)
          <6>1. ASSUME NEW x \in E
                PROVE  x \in 1 .. j - 1
            <7>1. x \in 1 .. j /\ x # j
              BY <4>3
            <7> QED
              BY <2>1, <7>1
          <6> QED
            BY <6>1
        <5>2. i + (j - 1) < k
          BY <2>1
        <5>3. Bound(i, j - 1)
          BY <1>3, <3>4, <5>2
        <5>4. Cardinality(D) <= dp[i][j - 1]
          BY <5>1, <5>3
        <5> QED
          BY <2>5, <3>5, <3>10, <5>4 DEF Larger
      <4> QED
        BY <4>1, <4>2, <4>3
    <3> QED
      BY <3>9, <3>10
  <2> QED
    BY <2>6, <2>7
<1>4. 0 \in Good
  <2>1. \A i \in 0 .. Len(a), j \in 0 .. Len(b) : ~(i + j < 0)
    BY <1>1
  <2> HIDE DEF Bound
  <2> QED
    BY <2>1
<1> HIDE DEF Good
<1>5. \A k \in Nat : k \in Good
  BY <1>3, <1>4, Induction
<1>6. ASSUME NEW i \in 0 .. Len(a), NEW j \in 0 .. Len(b)
      PROVE  Bound(i, j)
  <2>1. i + j + 1 \in Nat /\ i + j < i + j + 1
    BY <1>1
  <2>2. i + j + 1 \in Good
    BY <1>5, <2>1
  <2> HIDE DEF Bound
  <2> QED
    BY <2>1, <2>2 DEF Good
<1> QED
  BY <1>6 DEF dp

-----------------------------------------------------------------------------
(* An edit is a path through the lines of both texts *)

\* Operations, the lines of both texts before one, and those before the next.
Ops == [type : {"equal", "insert", "delete"}, old : Nat, new : Nat]

At(op) == <<op.old, op.new>>

After(op) == <<IF op.type = "insert" THEN op.old ELSE op.old + 1,
               IF op.type = "delete" THEN op.new ELSE op.new + 1>>

\* The operation stands for lines the texts have, and keeps what they share.
Fits(op, a, b) ==
    /\ op.type # "insert" => op.old + 1 \in 1 .. Len(a)
    /\ op.type # "delete" => op.new + 1 \in 1 .. Len(b)
    /\ op.type = "equal" => a[op.old + 1] = b[op.new + 1]

\* Where the k-th operation is done, in a path that ends at q.
Point(ops, k, q) == IF k <= Len(ops) THEN At(ops[k]) ELSE q

\* The operations follow each other from p to q, a pair of numbers of lines.
Path(ops, p, q, a, b) ==
    /\ ops \in Seq(Ops)
    /\ Point(ops, 1, q) = p
    /\ \A k \in 1 .. Len(ops) : Fits(ops[k], a, b) /\ Point(ops, k + 1, q) = After(ops[k])

\* No operation leads nowhere.
LEMMA EmptyPath ==
  ASSUME NEW p, NEW a, NEW b
  PROVE  Path(<< >>, p, p, a, b)
<1>1. << >> \in Seq(Ops) /\ Len(<< >>) = 0
  BY EmptySeq
<1> QED
  BY <1>1 DEF Path, Point

\* An operation that fits leads from where it is done to what is after it.
LEMMA PathOfOne ==
  ASSUME NEW op \in Ops, NEW a, NEW b, Fits(op, a, b)
  PROVE  Path(<<op>>, At(op), After(op), a, b)
<1>1. <<op>> \in Seq(Ops) /\ Len(<<op>>) = 1 /\ <<op>>[1] = op
  OBVIOUS
<1> QED
  BY <1>1 DEF Path, Point

\* A path can be continued by one that starts at its end.
LEMMA PathsJoin ==
  ASSUME NEW p, NEW q, NEW r, NEW a, NEW b, NEW s, NEW t,
         Path(s, p, q, a, b), Path(t, q, r, a, b)
  PROVE  Path(s \o t, p, r, a, b)
<1> DEFINE u == s \o t
<1>1. s \in Seq(Ops) /\ t \in Seq(Ops)
  BY DEF Path
<1>2. Len(s) \in Nat /\ Len(t) \in Nat
  BY <1>1, LenProperties
<1>3. /\ u \in Seq(Ops) /\ Len(u) = Len(s) + Len(t)
      /\ \A k \in 1 .. Len(s) + Len(t) : u[k] = IF k <= Len(s) THEN s[k] ELSE t[k - Len(s)]
  BY <1>1, ConcatProperties
<1> HIDE DEF u
<1>4. ASSUME NEW k \in 1 .. Len(s)
      PROVE  u[k] = s[k] /\ Point(u, k, r) = Point(s, k, q)
  BY <1>2, <1>3 DEF Point
<1>5. ASSUME NEW k \in 1 .. Len(t) + 1
      PROVE  Point(u, Len(s) + k, r) = Point(t, k, r)
  <2>1. CASE k <= Len(t)
    <3>1. Len(s) + k \in 1 .. Len(s) + Len(t) /\ ~(Len(s) + k <= Len(s)) /\ (Len(s) + k) - Len(s) = k
      BY <1>2, <2>1
    <3>2. u[Len(s) + k] = t[k] /\ Len(s) + k <= Len(u)
      BY <1>2, <1>3, <3>1
    <3> QED
      BY <2>1, <3>2 DEF Point
  <2>2. CASE ~(k <= Len(t))
    <3>1. ~(Len(s) + k <= Len(u))
      BY <1>2, <1>3, <2>2
    <3> QED
      BY <2>2, <3>1 DEF Point
  <2> QED
    BY <2>1, <2>2
<1>6. Point(s, Len(s) + 1, q) = q /\ Point(t, 1, r) = q
  <2>1. ~(Len(s) + 1 <= Len(s))
    BY <1>2
  <2> QED
    BY <2>1 DEF Path, Point
<1>7. \A k \in 1 .. Len(s) + 1 : Point(u, k, r) = Point(s, k, q)
  <2>1. 1 \in 1 .. Len(t) + 1
    BY <1>2
  <2>2. Point(u, Len(s) + 1, r) = Point(s, Len(s) + 1, q)
    BY <1>5, <1>6, <2>1
  <2>3. \A k \in 1 .. Len(s) + 1 : k \in 1 .. Len(s) \/ k = Len(s) + 1
    BY <1>2
  <2> QED
    BY <1>4, <2>2, <2>3
<1>8. Point(u, 1, r) = p
  <2>1. 1 \in 1 .. Len(s) + 1
    BY <1>2
  <2> QED
    BY <1>7, <2>1 DEF Path
<1>9. ASSUME NEW k \in 1 .. Len(u)
      PROVE  Fits(u[k], a, b) /\ Point(u, k + 1, r) = After(u[k])
  <2>1. CASE k <= Len(s)
    <3>1. k \in 1 .. Len(s) /\ k + 1 \in 1 .. Len(s) + 1
      BY <1>2, <2>1
    <3> QED
      BY <1>4, <1>7, <3>1 DEF Path
  <2>2. CASE ~(k <= Len(s))
    <3> DEFINE l == k - Len(s)
    <3>1. /\ k \in 1 .. Len(s) + Len(t) /\ l \in 1 .. Len(t) /\ l + 1 \in 1 .. Len(t) + 1
          /\ k + 1 = Len(s) + (l + 1)
      BY <1>2, <1>3, <2>2
    <3>2. u[k] = t[l]
      BY <1>3, <2>2, <3>1
    <3> HIDE DEF l
    <3>3. Point(u, k + 1, r) = Point(t, l + 1, r)
      BY <1>5, <3>1
    <3> QED
      BY <3>1, <3>2, <3>3 DEF Path
  <2> QED
    BY <2>1, <2>2
<1> QED
  BY <1>3, <1>8, <1>9 DEF Path, u

\* A path goes on with one more operation.
LEMMA PathGrows ==
  ASSUME NEW p, NEW a, NEW b, NEW s, NEW op \in Ops,
         Path(s, p, At(op), a, b), Fits(op, a, b)
  PROVE  Path(Append(s, op), p, After(op), a, b)
<1>1. Path(s \o <<op>>, p, After(op), a, b)
  BY PathOfOne, PathsJoin
<1>2. Append(s, op) = s \o <<op>>
  BY AppendIsConcat DEF Path
<1> QED
  BY <1>1, <1>2

\* Inserting k lines passes k lines of the new text.
LEMMA InsertsPath ==
  ASSUME NEW a, NEW b, NEW i \in Nat, NEW j \in Nat, NEW k \in Nat, j + k <= Len(b), Len(b) \in Nat
  PROVE  Path(Inserts(i, j, k), <<i, j>>, <<i, j + k>>, a, b)
<1> DEFINE s == Inserts(i, j, k)
<1>1. ASSUME NEW l \in 1 .. k
      PROVE  s[l].type = "insert" /\ s[l].old = i /\ s[l].new = j + l - 1
  <2>1. s[l] = Insert(i, j + l - 1)
    BY DEF Inserts
  <2> HIDE DEF s
  <2> QED
    BY <2>1 DEF Insert
<1>2. s \in [1 .. k -> Ops]
  <2>1. \A l \in 1 .. k : j + l - 1 \in Nat
    OBVIOUS
  <2> QED
    BY <2>1 DEF Inserts, Insert, Ops
<1> HIDE DEF s
<1>3. s \in Seq(Ops) /\ Len(s) = k
  BY <1>2, SeqOfFunction
<1>4. ASSUME NEW l \in 1 .. k + 1
      PROVE  Point(s, l, <<i, j + k>>) = <<i, j + l - 1>>
  <2>1. CASE l <= k
    <3>1. l \in 1 .. k
      BY <2>1
    <3> QED
      BY <1>1, <1>3, <2>1, <3>1 DEF Point, At
  <2>2. CASE ~(l <= k)
    <3>1. j + k = j + l - 1
      BY <2>2
    <3> QED
      BY <1>3, <2>2, <3>1 DEF Point
  <2> QED
    BY <2>1, <2>2
<1>5. Point(s, 1, <<i, j + k>>) = <<i, j>>
  <2>1. 1 \in 1 .. k + 1 /\ j + 1 - 1 = j
    OBVIOUS
  <2> QED
    BY <1>4, <2>1
<1>6. ASSUME NEW l \in 1 .. k
      PROVE  Fits(s[l], a, b) /\ Point(s, l + 1, <<i, j + k>>) = After(s[l])
  <2>1. l + 1 \in 1 .. k + 1 /\ j + (l + 1) - 1 = (j + l - 1) + 1 /\ (j + l - 1) + 1 \in 1 .. Len(b)
    OBVIOUS
  <2>2. After(s[l]) = <<i, (j + l - 1) + 1>>
    BY <1>1 DEF After
  <2>3. Fits(s[l], a, b)
    BY <1>1, <2>1 DEF Fits
  <2> QED
    BY <1>4, <2>1, <2>2, <2>3
<1> QED
  BY <1>3, <1>5, <1>6 DEF Path, s

\* Deleting k lines passes k lines of the old text.
LEMMA DeletesPath ==
  ASSUME NEW a, NEW b, NEW i \in Nat, NEW j \in Nat, NEW k \in Nat, i + k <= Len(a), Len(a) \in Nat
  PROVE  Path(Deletes(i, j, k), <<i, j>>, <<i + k, j>>, a, b)
<1> DEFINE s == Deletes(i, j, k)
<1>1. ASSUME NEW l \in 1 .. k
      PROVE  s[l].type = "delete" /\ s[l].old = i + l - 1 /\ s[l].new = j
  <2>1. s[l] = Delete(i + l - 1, j)
    BY DEF Deletes
  <2> HIDE DEF s
  <2> QED
    BY <2>1 DEF Delete
<1>2. s \in [1 .. k -> Ops]
  <2>1. \A l \in 1 .. k : i + l - 1 \in Nat
    OBVIOUS
  <2> QED
    BY <2>1 DEF Deletes, Delete, Ops
<1> HIDE DEF s
<1>3. s \in Seq(Ops) /\ Len(s) = k
  BY <1>2, SeqOfFunction
<1>4. ASSUME NEW l \in 1 .. k + 1
      PROVE  Point(s, l, <<i + k, j>>) = <<i + l - 1, j>>
  <2>1. CASE l <= k
    <3>1. l \in 1 .. k
      BY <2>1
    <3> QED
      BY <1>1, <1>3, <2>1, <3>1 DEF Point, At
  <2>2. CASE ~(l <= k)
    <3>1. i + k = i + l - 1
      BY <2>2
    <3> QED
      BY <1>3, <2>2, <3>1 DEF Point
  <2> QED
    BY <2>1, <2>2
<1>5. Point(s, 1, <<i + k, j>>) = <<i, j>>
  <2>1. 1 \in 1 .. k + 1 /\ i + 1 - 1 = i
    OBVIOUS
  <2> QED
    BY <1>4, <2>1
<1>6. ASSUME NEW l \in 1 .. k
      PROVE  Fits(s[l], a, b) /\ Point(s, l + 1, <<i + k, j>>) = After(s[l])
  <2>1. l + 1 \in 1 .. k + 1 /\ i + (l + 1) - 1 = (i + l - 1) + 1 /\ (i + l - 1) + 1 \in 1 .. Len(a)
    OBVIOUS
  <2>2. After(s[l]) = <<(i + l - 1) + 1, j>>
    BY <1>1 DEF After
  <2>3. Fits(s[l], a, b)
    BY <1>1, <2>1 DEF Fits
  <2> QED
    BY <1>4, <2>1, <2>2, <2>3
<1> QED
  BY <1>3, <1>5, <1>6 DEF Path, s

-----------------------------------------------------------------------------
(* The walk back through the table *)

\* The operations that keep a line.
Equals(ops) == {k \in DOMAIN ops : ops[k].type = "equal"}

\* The operations that keep a line are places of the edit.
LEMMA EqualsArePlaces ==
  ASSUME NEW s \in Seq(Ops)
  PROVE  Equals(s) \subseteq 1 .. Len(s) /\ Places(Equals(s)) /\ Cardinality(Equals(s)) \in Nat
<1>1. Len(s) \in Nat /\ DOMAIN s = 1 .. Len(s)
  BY LenProperties
<1>2. Equals(s) \subseteq 1 .. Len(s)
  BY <1>1 DEF Equals
<1>3. Places(Equals(s))
  BY <1>1, <1>2, PlacesOfASequence
<1> QED
  BY <1>2, <1>3, SomePlaces

\* The number of lines kept grows with a line kept, and with nothing else.
LEMMA EqualsGrow ==
  ASSUME NEW s \in Seq(Ops), NEW op \in Ops
  PROVE  Cardinality(Equals(Append(s, op))) =
            IF op.type = "equal" THEN Cardinality(Equals(s)) + 1 ELSE Cardinality(Equals(s))
<1> DEFINE t == Append(s, op)
           l == Len(s) + 1
<1>1. /\ t \in Seq(Ops) /\ Len(t) = l /\ t[l] = op
      /\ \A k \in 1 .. Len(s) : t[k] = s[k]
  BY AppendProperties
<1>2. Len(s) \in Nat /\ DOMAIN s = 1 .. Len(s) /\ DOMAIN t = 1 .. l
  BY <1>1, LenProperties
<1>3. \A k \in 1 .. l : k = l \/ k \in 1 .. Len(s)
  BY <1>2
<1>4. l \notin 1 .. Len(s) /\ l \in 1 .. l /\ \A k \in 1 .. Len(s) : k \in 1 .. l
  BY <1>2
<1> HIDE DEF t, l
<1>5. Equals(t) \ {l} = Equals(s)
  BY <1>1, <1>2, <1>3, <1>4 DEF Equals
<1>6. l \in Equals(t) <=> op.type = "equal"
  BY <1>1, <1>2, <1>4 DEF Equals
<1>7. Places(Equals(t)) /\ Places(Equals(s)) /\ Cardinality(Equals(s)) \in Nat
  BY <1>1, EqualsArePlaces
<1>8. CASE op.type = "equal"
  <2>1. Cardinality(Equals(t)) = Cardinality(Equals(t) \ {l}) + 1
    BY <1>6, <1>7, <1>8, OnePlaceLess
  <2> QED
    BY <1>5, <1>8, <2>1 DEF t
<1>9. CASE op.type # "equal"
  <2>1. Equals(t) = Equals(s)
    BY <1>5, <1>6, <1>9
  <2> QED
    BY <1>9, <2>1 DEF t
<1> QED
  BY <1>8, <1>9

Cells(a, b) == (0 .. Len(a)) \X (0 .. Len(b))

IsWalk(f, a, b, dp) == f = [p \in Cells(a, b) |-> Back(f, p[1], p[2], a, b, dp)]

\* The function the walk is defined as exists.
LEMMA WalkExists ==
  ASSUME NEW V, NEW a \in Seq(V), NEW b \in Seq(V), NEW dp
  PROVE  \E walk : IsWalk(walk, a, b, dp)
<1> DEFINE D == Cells(a, b)
           X == Seq(Ops)
           mu == [p \in D |-> p[1] + p[2]]
           Step(f, p) == Back(f, p[1], p[2], a, b, dp)
           G == [q \in D \X [D -> X] |-> Step(q[2], q[1])]
<1>1. Len(a) \in Nat /\ Len(b) \in Nat
  BY LenProperties
<1>2. ASSUME NEW p \in D
      PROVE  /\ p[1] \in Nat /\ p[2] \in Nat /\ p[1] <= Len(a) /\ p[2] <= Len(b)
             /\ p[1] > 0 => <<p[1] - 1, p[2]>> \in D
             /\ p[2] > 0 => <<p[1], p[2] - 1>> \in D
             /\ p[1] > 0 /\ p[2] > 0 => <<p[1] - 1, p[2] - 1>> \in D
  BY <1>1 DEF Cells
<1>3. ASSUME NEW p \in D
      PROVE  mu[p] = p[1] + p[2] /\ mu[p] \in Nat /\ mu[p] < Len(a) + Len(b) + 1
  <2>1. mu[p] = p[1] + p[2]
    OBVIOUS
  <2>2. p[1] \in Nat /\ p[2] \in Nat /\ p[1] <= Len(a) /\ p[2] <= Len(b)
    BY <1>2
  <2>3. p[1] + p[2] \in Nat /\ p[1] + p[2] < Len(a) + Len(b) + 1
    BY <1>1, <2>2
  <2> QED
    BY <2>1, <2>3
<1>4. Bounded(mu, D)
  <2>1. Len(a) + Len(b) + 1 \in Nat
    BY <1>1
  <2> HIDE DEF mu, D
  <2> QED
    BY <1>3, <2>1 DEF Bounded
<1>5. ASSUME NEW p \in D, NEW f \in [D -> X]
      PROVE  Step(f, p) \in X
  <2> DEFINE i == p[1]
             j == p[2]
  <2>1. i \in Nat /\ j \in Nat /\ i <= Len(a) /\ j <= Len(b)
    BY <1>2
  <2>2. CASE i = 0 /\ j = 0
    BY <2>2 DEF Back
  <2>3. CASE i > 0 /\ j > 0 /\ a[i] = b[j]
    <3>1. Keep(i - 1, j - 1) \in Ops
      BY <2>1, <2>3 DEF Keep, Ops
    <3>2. f[<<i - 1, j - 1>>] \in X
      BY <1>2, <2>3
    <3>3. Step(f, p) = Append(f[<<i - 1, j - 1>>], Keep(i - 1, j - 1))
      BY <2>1, <2>3 DEF Back
    <3> QED
      BY <3>1, <3>2, <3>3, AppendProperties
  <2>4. CASE ~(i > 0 /\ j > 0 /\ a[i] = b[j]) /\ j > 0 /\ (i = 0 \/ dp[i][j - 1] >= dp[i - 1][j])
    <3>1. Insert(i, j - 1) \in Ops
      BY <2>1, <2>4 DEF Insert, Ops
    <3>2. f[<<i, j - 1>>] \in X
      BY <1>2, <2>4
    <3>3. Step(f, p) = Append(f[<<i, j - 1>>], Insert(i, j - 1))
      BY <2>1, <2>4 DEF Back
    <3> QED
      BY <3>1, <3>2, <3>3, AppendProperties
  <2>5. CASE /\ ~(i = 0 /\ j = 0) /\ ~(i > 0 /\ j > 0 /\ a[i] = b[j])
             /\ ~(j > 0 /\ (i = 0 \/ dp[i][j - 1] >= dp[i - 1][j]))
    <3>1. i > 0
      BY <2>1, <2>5
    <3>2. Delete(i - 1, j) \in Ops
      BY <2>1, <3>1 DEF Delete, Ops
    <3>3. f[<<i - 1, j>>] \in X
      BY <1>2, <3>1
    <3>4. Step(f, p) = Append(f[<<i - 1, j>>], Delete(i - 1, j))
      BY <2>5 DEF Back
    <3> QED
      BY <3>2, <3>3, <3>4, AppendProperties
  <2> QED
    BY <2>2, <2>3, <2>4, <2>5
<1>6. G \in [D \X [D -> X] -> X]
  <2> HIDE DEF D, X, Step
  <2> QED
    BY <1>5
<1>7. LooksBack(G, D, X, mu)
  <2>1. ASSUME NEW p \in D, NEW f \in [D -> X], NEW g \in [D -> X],
               \A e \in D : mu[e] < mu[p] => f[e] = g[e]
        PROVE  G[<<p, f>>] = G[<<p, g>>]
    <3> DEFINE i == p[1]
               j == p[2]
    <3>1. i \in Nat /\ j \in Nat
      BY <1>2
    <3>2. i > 0 => f[<<i - 1, j>>] = g[<<i - 1, j>>]
      <4>1. i > 0 => <<i - 1, j>> \in D /\ mu[<<i - 1, j>>] = (i - 1) + j
        BY <1>2
      <4> QED
        BY <2>1, <3>1, <4>1
    <3>3. j > 0 => f[<<i, j - 1>>] = g[<<i, j - 1>>]
      <4>1. j > 0 => <<i, j - 1>> \in D /\ mu[<<i, j - 1>>] = i + (j - 1)
        BY <1>2
      <4> QED
        BY <2>1, <3>1, <4>1
    <3>4. i > 0 /\ j > 0 => f[<<i - 1, j - 1>>] = g[<<i - 1, j - 1>>]
      <4>1. i > 0 /\ j > 0 => <<i - 1, j - 1>> \in D /\ mu[<<i - 1, j - 1>>] = (i - 1) + (j - 1)
        BY <1>2
      <4> QED
        BY <2>1, <3>1, <4>1
    <3>5. Step(f, p) = Step(g, p)
      BY <3>1, <3>2, <3>3, <3>4 DEF Back
    <3> HIDE DEF Step, D, X
    <3> QED
      BY <3>5
  <2> HIDE DEF D, X, mu, G
  <2> QED
    BY <2>1 DEF LooksBack
<1>8. << >> \in X
  BY EmptySeq
<1> HIDE DEF D, X, mu, G, Step
<1>9. PICK f \in [D -> X] : Recurs(f, D, G)
  <2>1. mu \in [D -> Nat]
    BY <1>3 DEF mu
  <2> QED
    BY <1>4, <1>6, <1>7, <1>8, <2>1, Recursion
<1>10. \A p \in D : f[p] = Step(f, p)
  BY <1>9 DEF Recurs, G
<1>11. f = [p \in D |-> Step(f, p)]
  BY <1>10
<1> QED
  BY <1>11 DEF D, Step, IsWalk

\* The walk is a path from the start to its cell, and keeps as many lines as the
\* table says.
LEMMA WalkIsPath ==
  ASSUME NEW V, NEW a \in Seq(V), NEW b \in Seq(V), NEW walk,
         IsWalk(walk, a, b, Table(a, b))
  PROVE  \A i \in 0 .. Len(a), j \in 0 .. Len(b) :
            /\ Path(walk[<<i, j>>], <<0, 0>>, <<i, j>>, a, b)
            /\ Cardinality(Equals(walk[<<i, j>>])) = Table(a, b)[i][j]
<1> DEFINE dp == Table(a, b)
           Fine(i, j) == /\ Path(walk[<<i, j>>], <<0, 0>>, <<i, j>>, a, b)
                         /\ Cardinality(Equals(walk[<<i, j>>])) = dp[i][j]
           Good == {k \in Nat : \A i \in 0 .. Len(a), j \in 0 .. Len(b) : i + j < k => Fine(i, j)}
<1>1. Len(a) \in Nat /\ Len(b) \in Nat
  BY LenProperties
<1>2. /\ \A i \in 0 .. Len(a), j \in 0 .. Len(b) : dp[i][j] \in Nat
      /\ \A i \in 0 .. Len(a) : dp[i][0] = 0
      /\ \A j \in 0 .. Len(b) : dp[0][j] = 0
      /\ \A i \in 1 .. Len(a), j \in 1 .. Len(b) :
            dp[i][j] = IF a[i] = b[j] THEN dp[i - 1][j - 1] + 1
                       ELSE Larger(dp[i - 1][j], dp[i][j - 1])
  BY TableEntries
<1>3. \A i \in 0 .. Len(a), j \in 0 .. Len(b) : walk[<<i, j>>] = Back(walk, i, j, a, b, dp)
  <2> HIDE DEF dp
  <2>1. walk = [p \in Cells(a, b) |-> Back(walk, p[1], p[2], a, b, dp)]
    BY DEF dp, IsWalk
  <2>2. \A i \in 0 .. Len(a), j \in 0 .. Len(b) : <<i, j>> \in Cells(a, b)
    BY DEF Cells
  <2> QED
    BY <2>1, <2>2
<1> HIDE DEF dp
<1>4. ASSUME NEW k \in Nat, k \in Good
      PROVE  k + 1 \in Good
  <2> SUFFICES ASSUME NEW i \in 0 .. Len(a), NEW j \in 0 .. Len(b), i + j < k + 1
               PROVE  Fine(i, j)
    <3> HIDE DEF Fine
    <3> QED
      OBVIOUS
  <2> DEFINE w == walk[<<i, j>>]
  <2>1. i \in Nat /\ j \in Nat /\ i <= Len(a) /\ j <= Len(b) /\ dp[i][j] \in Nat
    BY <1>1, <1>2
  <2>2. w = Back(walk, i, j, a, b, dp)
    BY <1>3
  <2>3. CASE i = 0 /\ j = 0
    <3>1. w = << >>
      BY <2>2, <2>3 DEF Back
    <3>2. Cardinality(Equals(<< >>)) = 0
      BY FS_EmptySet DEF Equals
    <3> QED
      BY <1>2, <2>3, <3>1, <3>2, EmptyPath
  <2>4. CASE i > 0 /\ j > 0 /\ a[i] = b[j]
    <3> DEFINE v == walk[<<i - 1, j - 1>>]
               op == Keep(i - 1, j - 1)
    <3>1. i - 1 \in 0 .. Len(a) /\ j - 1 \in 0 .. Len(b) /\ (i - 1) + (j - 1) < k
      BY <2>1, <2>4
    <3>2. Path(v, <<0, 0>>, <<i - 1, j - 1>>, a, b) /\ Cardinality(Equals(v)) = dp[i - 1][j - 1]
      BY <1>4, <3>1
    <3>3. w = Append(v, op)
      BY <2>1, <2>2, <2>4 DEF Back
    <3>4. op \in Ops /\ op.type = "equal" /\ op.old = i - 1 /\ op.new = j - 1
      BY <2>1, <2>4 DEF Keep, Ops
    <3> HIDE DEF op, v, w
    <3>5. Fits(op, a, b) /\ After(op) = <<i, j>> /\ At(op) = <<i - 1, j - 1>>
      BY <1>1, <2>1, <2>4, <3>4 DEF Fits, After, At
    <3>6. Path(w, <<0, 0>>, After(op), a, b)
      BY <3>2, <3>3, <3>4, <3>5, PathGrows
    <3>7. Cardinality(Equals(w)) = dp[i - 1][j - 1] + 1
      BY <3>2, <3>3, <3>4, EqualsGrow DEF Path
    <3>8. dp[i][j] = dp[i - 1][j - 1] + 1
      BY <1>1, <1>2, <2>1, <2>4
    <3> QED
      BY <3>5, <3>6, <3>7, <3>8 DEF w
  <2>5. CASE ~(i > 0 /\ j > 0 /\ a[i] = b[j]) /\ j > 0 /\ (i = 0 \/ dp[i][j - 1] >= dp[i - 1][j])
    <3> DEFINE v == walk[<<i, j - 1>>]
               op == Insert(i, j - 1)
    <3>1. j - 1 \in 0 .. Len(b) /\ i + (j - 1) < k
      BY <2>1, <2>5
    <3>2. Path(v, <<0, 0>>, <<i, j - 1>>, a, b) /\ Cardinality(Equals(v)) = dp[i][j - 1]
      BY <1>4, <3>1
    <3>3. w = Append(v, op)
      BY <2>1, <2>2, <2>5 DEF Back
    <3>4. op \in Ops /\ op.type = "insert" /\ op.old = i /\ op.new = j - 1
      BY <2>1, <2>5 DEF Insert, Ops
    <3> HIDE DEF op, v, w
    <3>5. Fits(op, a, b) /\ After(op) = <<i, j>> /\ At(op) = <<i, j - 1>>
      BY <1>1, <2>1, <2>5, <3>4 DEF Fits, After, At
    <3>6. Path(w, <<0, 0>>, After(op), a, b)
      BY <3>2, <3>3, <3>4, <3>5, PathGrows
    <3>7. Cardinality(Equals(w)) = dp[i][j - 1]
      BY <3>2, <3>3, <3>4, EqualsGrow DEF Path
    <3>8. dp[i][j] = dp[i][j - 1]
      <4>1. CASE i = 0
        BY <1>2, <2>1, <3>1, <4>1
      <4>2. CASE i > 0
        <5>1. i \in 1 .. Len(a) /\ j \in 1 .. Len(b) /\ i - 1 \in 0 .. Len(a) /\ a[i] # b[j]
          BY <1>1, <2>1, <2>5, <4>2
        <5>2. dp[i][j] = Larger(dp[i - 1][j], dp[i][j - 1])
          BY <1>2, <5>1
        <5>3. dp[i - 1][j] \in Nat /\ dp[i][j - 1] \in Nat
          BY <1>2, <3>1, <5>1
        <5> QED
          BY <2>5, <4>2, <5>2, <5>3 DEF Larger
      <4> QED
        BY <2>1, <4>1, <4>2
    <3> QED
      BY <3>5, <3>6, <3>7, <3>8 DEF w
  <2>6. CASE /\ ~(i = 0 /\ j = 0) /\ ~(i > 0 /\ j > 0 /\ a[i] = b[j])
             /\ ~(j > 0 /\ (i = 0 \/ dp[i][j - 1] >= dp[i - 1][j]))
    <3> DEFINE v == walk[<<i - 1, j>>]
               op == Delete(i - 1, j)
    <3>0. i > 0
      BY <2>1, <2>6
    <3>1. i - 1 \in 0 .. Len(a) /\ (i - 1) + j < k
      BY <2>1, <3>0
    <3>2. Path(v, <<0, 0>>, <<i - 1, j>>, a, b) /\ Cardinality(Equals(v)) = dp[i - 1][j]
      BY <1>4, <3>1
    <3>3. w = Append(v, op)
      BY <2>1, <2>2, <2>6 DEF Back
    <3>4. op \in Ops /\ op.type = "delete" /\ op.old = i - 1 /\ op.new = j
      BY <2>1, <3>0 DEF Delete, Ops
    <3> HIDE DEF op, v, w
    <3>5. Fits(op, a, b) /\ After(op) = <<i, j>> /\ At(op) = <<i - 1, j>>
      BY <1>1, <2>1, <3>0, <3>4 DEF Fits, After, At
    <3>6. Path(w, <<0, 0>>, After(op), a, b)
      BY <3>2, <3>3, <3>4, <3>5, PathGrows
    <3>7. Cardinality(Equals(w)) = dp[i - 1][j]
      BY <3>2, <3>3, <3>4, EqualsGrow DEF Path
    <3>8. dp[i][j] = dp[i - 1][j]
      <4>1. CASE j = 0
        BY <1>2, <2>1, <3>1, <4>1
      <4>2. CASE j > 0
        <5>1. /\ i \in 1 .. Len(a) /\ j \in 1 .. Len(b) /\ j - 1 \in 0 .. Len(b) /\ a[i] # b[j]
              /\ ~(dp[i][j - 1] >= dp[i - 1][j])
          BY <1>1, <2>1, <2>6, <3>0, <4>2
        <5>2. dp[i][j] = Larger(dp[i - 1][j], dp[i][j - 1])
          BY <1>2, <5>1
        <5>3. dp[i - 1][j] \in Nat /\ dp[i][j - 1] \in Nat
          BY <1>2, <3>1, <5>1
        <5> QED
          BY <5>1, <5>2, <5>3 DEF Larger
      <4> QED
        BY <2>1, <4>1, <4>2
    <3> QED
      BY <3>5, <3>6, <3>7, <3>8 DEF w
  <2> QED
    BY <2>3, <2>4, <2>5, <2>6
<1> HIDE DEF Fine
<1>5. 0 \in Good
  <2>1. \A i \in 0 .. Len(a), j \in 0 .. Len(b) : ~(i + j < 0)
    BY <1>1
  <2> QED
    BY <2>1
<1> HIDE DEF Good
<1>6. \A k \in Nat : k \in Good
  BY <1>4, <1>5, Induction
<1>7. ASSUME NEW i \in 0 .. Len(a), NEW j \in 0 .. Len(b)
      PROVE  Fine(i, j)
  <2>1. i + j + 1 \in Nat /\ i + j < i + j + 1
    BY <1>1
  <2>2. i + j + 1 \in Good
    BY <1>6, <2>1
  <2> QED
    BY <2>1, <2>2 DEF Good
<1> QED
  BY <1>7 DEF Fine, dp

\* The table gives an edit that keeps as many lines as it says.
LEMMA TableDiffIsEdit ==
  ASSUME NEW V, NEW a \in Seq(V), NEW b \in Seq(V)
  PROVE  /\ Path(TableDiff(a, b), <<0, 0>>, <<Len(a), Len(b)>>, a, b)
         /\ Cardinality(Equals(TableDiff(a, b))) = Table(a, b)[Len(a)][Len(b)]
<1> DEFINE dp == Table(a, b)
           walk == CHOOSE f : IsWalk(f, a, b, dp)
<1>1. \E f : IsWalk(f, a, b, dp)
  BY WalkExists
<1>2. IsWalk(walk, a, b, dp)
  BY <1>1
<1>3. TableDiff(a, b) = walk[<<Len(a), Len(b)>>]
  BY DEF TableDiff, Cells, IsWalk
<1> HIDE DEF walk
<1>4. Len(a) \in 0 .. Len(a) /\ Len(b) \in 0 .. Len(b)
  BY LenProperties
<1> QED
  BY <1>2, <1>3, <1>4, WalkIsPath

-----------------------------------------------------------------------------
(* The fallback for large texts *)

\* The nearest of some matches is one of them.
LEMMA NearestIsNear ==
  ASSUME NEW S, S \subseteq Nat, S # {}
  PROVE  Nearest(S) \in S
<1> DEFINE less == {p \in Nat \X Nat : p[1] < p[2]}
<1>1. IsWellFoundedOn(less, Nat)
  BY NatLessThanWellFounded, LessOnNat
<1>2. \E k \in S : \A l \in S : k <= l
  <2>1. PICK k \in S : \A l \in S : ~ (<<l, k>> \in less)
    <3> HIDE DEF less
    <3> QED
      BY <1>1, WFMin
  <2>2. \A l \in S : ~ (l < k)
    BY <2>1
  <2>3. k \in Nat /\ \A l \in S : l \in Nat
    OBVIOUS
  <2> QED
    BY <2>2, <2>3
<1> QED
  BY <1>2 DEF Nearest

\* The matches simpleDiff finds ahead.
Near(i, j, a, b) == AheadInNew(i, j, a, b) \cup AheadInOld(i, j, a, b)

\* The match simpleDiff goes on from is further on and inside its text.
LEMMA NearIsInside ==
  ASSUME NEW i, NEW j, NEW a, NEW b, Near(i, j, a, b) # {}
  PROVE  LET k == Nearest(Near(i, j, a, b)) IN
         /\ k \in Nat /\ k > 0
         /\ k \in AheadInNew(i, j, a, b) => j + k < Len(b)
         /\ k \notin AheadInNew(i, j, a, b) => i + k < Len(a)
<1> DEFINE k == Nearest(Near(i, j, a, b))
<1>1. Near(i, j, a, b) \subseteq {l \in 1 .. LookAhead : TRUE}
  BY DEF Near, AheadInNew, AheadInOld
<1>2. LookAhead \in Nat
  BY DiffAssumption
<1>3. Near(i, j, a, b) \subseteq Nat /\ \A l \in Near(i, j, a, b) : l > 0
  BY <1>1, <1>2
<1>4. k \in Near(i, j, a, b)
  BY <1>3, NearestIsNear
<1>5. k \in Nat /\ k > 0
  BY <1>3, <1>4
<1> HIDE DEF k
<1>6. k \in AheadInNew(i, j, a, b) => j + k < Len(b)
  BY DEF AheadInNew
<1>7. k \notin AheadInNew(i, j, a, b) => i + k < Len(a)
  BY <1>4 DEF AheadInOld, Near
<1> QED
  BY <1>5, <1>6, <1>7 DEF k

\* A pair is its first element with the second appended.
LEMMA PairAppended ==
  ASSUME NEW S, NEW x \in S, NEW y \in S
  PROVE  Append(<<x>>, y) = <<x, y>>
<1>1. <<x>> \in Seq(S) /\ Len(<<x>>) = 1 /\ <<x>>[1] = x
  OBVIOUS
<1>2. <<x, y>> \in Seq(S) /\ Len(<<x, y>>) = 2 /\ <<x, y>>[1] = x /\ <<x, y>>[2] = y
  OBVIOUS
<1> DEFINE s == <<x>>
           t == <<x, y>>
<1> HIDE DEF s, t
<1>3. /\ Append(s, y) \in Seq(S) /\ Len(Append(s, y)) = 2
      /\ \A i \in 1 .. 1 : Append(s, y)[i] = s[i]
      /\ Append(s, y)[2] = y
  BY <1>1, AppendProperties DEF s
<1>4. \A i \in 1 .. 2 : Append(s, y)[i] = t[i]
  BY <1>1, <1>2, <1>3 DEF s, t
<1>5. Append(s, y) = t
  BY <1>2, <1>3, <1>4, SeqEqual DEF t
<1> QED
  BY <1>5 DEF s, t

\* Each step of the loop emits a path, and goes on from its end.
OnwardFrom(rest, s, i, j, u, v, a, b) ==
    /\ <<u, v>> \in Cells(a, b)
    /\ u + v > i + j
    /\ Path(s, <<i, j>>, <<u, v>>, a, b)
    /\ Onward(rest, i, j, a, b) = s \o rest[<<u, v>>]

\* Each branch of the loop of simpleDiff ends it with a path to the end of both
\* texts, or emits a path and goes on from further on.
LEMMA OnwardCases ==
  ASSUME NEW V, NEW a \in Seq(V), NEW b \in Seq(V), NEW i \in 0 .. Len(a), NEW j \in 0 .. Len(b)
  PROVE  \/ \E s : /\ Path(s, <<i, j>>, <<Len(a), Len(b)>>, a, b)
                   /\ \A rest : Onward(rest, i, j, a, b) = s
         \/ \E s, u, v : \A rest : OnwardFrom(rest, s, i, j, u, v, a, b)
<1> DEFINE n == Len(a)
           m == Len(b)
           inNew == AheadInNew(i, j, a, b)
           near == Near(i, j, a, b)
           k == Nearest(near)
<1>1. n \in Nat /\ m \in Nat /\ i \in Nat /\ j \in Nat /\ i <= n /\ j <= m
  BY LenProperties
<1>2. CASE i = n
  <2>1. m - j \in Nat /\ j + (m - j) = m
    BY <1>1
  <2>2. Path(Inserts(i, j, m - j), <<i, j>>, <<i, j + (m - j)>>, a, b)
    <3> DEFINE l == m - j
    <3>1. l \in Nat /\ j + l <= Len(b)
      BY <1>1
    <3> HIDE DEF l
    <3>2. Path(Inserts(i, j, l), <<i, j>>, <<i, j + l>>, a, b)
      BY <1>1, <3>1, InsertsPath
    <3> QED
      BY <3>2 DEF l
  <2>3. \A rest : Onward(rest, i, j, a, b) = Inserts(i, j, m - j)
    BY <1>2 DEF Onward
  <2> QED
    BY <1>2, <2>1, <2>2, <2>3
<1>3. CASE i # n /\ j = m
  <2>1. n - i \in Nat /\ i + (n - i) = n
    BY <1>1
  <2>2. Path(Deletes(i, j, n - i), <<i, j>>, <<i + (n - i), j>>, a, b)
    <3> DEFINE l == n - i
    <3>1. l \in Nat /\ i + l <= Len(a)
      BY <1>1
    <3> HIDE DEF l
    <3>2. Path(Deletes(i, j, l), <<i, j>>, <<i + l, j>>, a, b)
      BY <1>1, <3>1, DeletesPath
    <3> QED
      BY <3>2 DEF l
  <2>3. \A rest : Onward(rest, i, j, a, b) = Deletes(i, j, n - i)
    BY <1>3 DEF Onward
  <2> QED
    BY <1>3, <2>1, <2>2, <2>3
<1>4. CASE i # n /\ j # m /\ a[i + 1] = b[j + 1]
  <2> DEFINE op == Keep(i, j)
  <2>1. <<i + 1, j + 1>> \in Cells(a, b) /\ (i + 1) + (j + 1) > i + j
    BY <1>1, <1>4 DEF Cells
  <2>2. op \in Ops /\ op.type = "equal" /\ op.old = i /\ op.new = j
    BY <1>1 DEF Keep, Ops
  <2>3. \A rest : Onward(rest, i, j, a, b) = <<op>> \o rest[<<i + 1, j + 1>>]
    BY <1>4 DEF Onward
  <2> HIDE DEF op
  <2>4. Fits(op, a, b) /\ At(op) = <<i, j>> /\ After(op) = <<i + 1, j + 1>>
    BY <1>1, <1>4, <2>2 DEF Fits, At, After
  <2>5. Path(<<op>>, <<i, j>>, <<i + 1, j + 1>>, a, b)
    <3>1. Path(<<op>>, At(op), After(op), a, b)
      BY <2>2, <2>4, PathOfOne
    <3> QED
      BY <2>4, <3>1
  <2>6. \A rest : OnwardFrom(rest, <<op>>, i, j, i + 1, j + 1, a, b)
    BY <2>1, <2>3, <2>5 DEF OnwardFrom
  <2> QED
    BY <2>6
<1>5. CASE i # n /\ j # m /\ a[i + 1] # b[j + 1] /\ near = {}
  <2> DEFINE op == Delete(i, j)
             np == Insert(i + 1, j)
  <2>1. <<i + 1, j + 1>> \in Cells(a, b) /\ (i + 1) + (j + 1) > i + j
    BY <1>1, <1>5 DEF Cells
  <2>2. /\ op \in Ops /\ op.type = "delete" /\ op.old = i /\ op.new = j
        /\ np \in Ops /\ np.type = "insert" /\ np.old = i + 1 /\ np.new = j
    BY <1>1 DEF Delete, Insert, Ops
  <2>3. \A rest : Onward(rest, i, j, a, b) = <<op, np>> \o rest[<<i + 1, j + 1>>]
    BY <1>5 DEF Onward, Near
  <2> HIDE DEF op, np
  <2>4. /\ Fits(op, a, b) /\ At(op) = <<i, j>> /\ After(op) = <<i + 1, j>>
        /\ Fits(np, a, b) /\ At(np) = <<i + 1, j>> /\ After(np) = <<i + 1, j + 1>>
    BY <1>1, <1>5, <2>2 DEF Fits, At, After
  <2>5. Path(<<op>>, <<i, j>>, At(np), a, b)
    <3>1. Path(<<op>>, At(op), After(op), a, b)
      BY <2>2, <2>4, PathOfOne
    <3> QED
      BY <2>4, <3>1
  <2>6. Path(Append(<<op>>, np), <<i, j>>, After(np), a, b)
    BY <2>2, <2>4, <2>5, PathGrows
  <2>7. Append(<<op>>, np) = <<op, np>>
    BY <2>2, PairAppended
  <2>8. Path(<<op, np>>, <<i, j>>, <<i + 1, j + 1>>, a, b)
    BY <2>4, <2>6, <2>7
  <2>9. \A rest : OnwardFrom(rest, <<op, np>>, i, j, i + 1, j + 1, a, b)
    BY <2>1, <2>3, <2>8 DEF OnwardFrom
  <2> QED
    BY <2>9
<1>6. CASE i # n /\ j # m /\ a[i + 1] # b[j + 1] /\ near # {}
  <2>1. /\ k \in Nat /\ k > 0
        /\ k \in inNew => j + k < m
        /\ k \notin inNew => i + k < n
    BY <1>6, NearIsInside
  <2>2. k \in inNew => \A rest : Onward(rest, i, j, a, b) = Inserts(i, j, k) \o rest[<<i, j + k>>]
    BY <1>6 DEF Onward, Near
  <2>3. k \notin inNew => \A rest : Onward(rest, i, j, a, b) = Deletes(i, j, k) \o rest[<<i + k, j>>]
    BY <1>6 DEF Onward, Near
  <2> HIDE DEF k, inNew, near
  <2>4. CASE k \in inNew
    <3>1. <<i, j + k>> \in Cells(a, b) /\ i + (j + k) > i + j /\ j + k <= Len(b)
      BY <1>1, <2>1, <2>4 DEF Cells
    <3>2. Path(Inserts(i, j, k), <<i, j>>, <<i, j + k>>, a, b)
      BY <1>1, <2>1, <3>1, InsertsPath
    <3>3. \A rest : OnwardFrom(rest, Inserts(i, j, k), i, j, i, j + k, a, b)
      BY <2>2, <2>4, <3>1, <3>2 DEF OnwardFrom
    <3> QED
      BY <3>3
  <2>5. CASE k \notin inNew
    <3>1. <<i + k, j>> \in Cells(a, b) /\ (i + k) + j > i + j /\ i + k <= Len(a)
      BY <1>1, <2>1, <2>5 DEF Cells
    <3>2. Path(Deletes(i, j, k), <<i, j>>, <<i + k, j>>, a, b)
      BY <1>1, <2>1, <3>1, DeletesPath
    <3>3. \A rest : OnwardFrom(rest, Deletes(i, j, k), i, j, i + k, j, a, b)
      BY <2>3, <2>5, <3>1, <3>2 DEF OnwardFrom
    <3> QED
      BY <3>3
  <2> QED
    BY <2>4, <2>5
<1> QED
  BY <1>2, <1>3, <1>4, <1>5, <1>6

IsRest(f, a, b) == f = [p \in Cells(a, b) |-> Onward(f, p[1], p[2], a, b)]

\* The function the loop is defined as exists.
LEMMA RestExists ==
  ASSUME NEW V, NEW a \in Seq(V), NEW b \in Seq(V)
  PROVE  \E rest : IsRest(rest, a, b)
<1> DEFINE D == Cells(a, b)
           X == Seq(Ops)
           top == Len(a) + Len(b)
           mu == [p \in D |-> top - (p[1] + p[2])]
           Step(f, p) == Onward(f, p[1], p[2], a, b)
           G == [q \in D \X [D -> X] |-> Step(q[2], q[1])]
<1>1. Len(a) \in Nat /\ Len(b) \in Nat
  BY LenProperties
<1>2. ASSUME NEW p \in D
      PROVE  /\ p[1] \in 0 .. Len(a) /\ p[2] \in 0 .. Len(b) /\ p = <<p[1], p[2]>>
             /\ mu[p] = top - (p[1] + p[2]) /\ mu[p] \in Nat /\ mu[p] < top + 1
  <2>1. p[1] \in 0 .. Len(a) /\ p[2] \in 0 .. Len(b) /\ p = <<p[1], p[2]>>
    BY DEF Cells
  <2>2. mu[p] = top - (p[1] + p[2])
    OBVIOUS
  <2>3. top - (p[1] + p[2]) \in Nat /\ top - (p[1] + p[2]) < top + 1
    BY <1>1, <2>1
  <2> QED
    BY <2>1, <2>2, <2>3
<1>3. mu \in [D -> Nat]
  <2>1. \A p \in D : top - (p[1] + p[2]) \in Nat
    BY <1>2
  <2> HIDE DEF D, top
  <2> QED
    BY <2>1
<1>4. Bounded(mu, D)
  <2>1. top + 1 \in Nat
    BY <1>1
  <2> HIDE DEF mu, D, top
  <2> QED
    BY <1>2, <2>1 DEF Bounded
<1>5. ASSUME NEW p \in D
      PROVE  \/ \E s \in X : \A f : Step(f, p) = s
             \/ \E s \in X, e \in D : mu[e] < mu[p] /\ \A f : Step(f, p) = s \o f[e]
  <2> DEFINE i == p[1]
             j == p[2]
  <2>1. i \in 0 .. Len(a) /\ j \in 0 .. Len(b)
    BY <1>2
  <2>2. \/ \E s : /\ Path(s, <<i, j>>, <<Len(a), Len(b)>>, a, b)
                   /\ \A rest : Onward(rest, i, j, a, b) = s
        \/ \E s, u, v : \A rest : OnwardFrom(rest, s, i, j, u, v, a, b)
    <3> HIDE DEF i, j
    <3> QED
      BY <2>1, OnwardCases
  <2>3. ASSUME NEW s, NEW u, NEW v, \A rest : OnwardFrom(rest, s, i, j, u, v, a, b)
        PROVE  s \in X /\ <<u, v>> \in D /\ mu[<<u, v>>] < mu[p] /\ \A f : Step(f, p) = s \o f[<<u, v>>]
    <3>1. /\ <<u, v>> \in D /\ u + v > i + j
          /\ Path(s, <<i, j>>, <<u, v>>, a, b)
          /\ \A f : Step(f, p) = s \o f[<<u, v>>]
      <4> HIDE DEF i, j
      <4>1. \A rest : /\ <<u, v>> \in Cells(a, b) /\ u + v > i + j
                      /\ Path(s, <<i, j>>, <<u, v>>, a, b)
                      /\ Onward(rest, i, j, a, b) = s \o rest[<<u, v>>]
        BY <2>3 DEF OnwardFrom
      <4> QED
        BY <4>1 DEF i, j
    <3>2. u \in 0 .. Len(a) /\ v \in 0 .. Len(b)
      BY <3>1 DEF Cells
    <3>3. mu[<<u, v>>] = top - (u + v) /\ mu[p] = top - (i + j)
      BY <3>1
    <3>4. top - (u + v) < top - (i + j)
      BY <1>1, <2>1, <3>1, <3>2
    <3> QED
      BY <3>1, <3>3, <3>4 DEF Path
  <2> HIDE DEF D, mu, top
  <2> QED
    BY <2>2, <2>3 DEF Path
<1> HIDE DEF D, X, mu, Step
<1>6. ASSUME NEW p \in D, NEW f \in [D -> X]
      PROVE  Step(f, p) \in X
  <2>1. CASE \E s \in X : \A g : Step(g, p) = s
    BY <2>1
  <2>2. ASSUME NEW s \in X, NEW e \in D, \A g : Step(g, p) = s \o g[e]
        PROVE  Step(f, p) \in X
    <3>1. f[e] \in X /\ Step(f, p) = s \o f[e]
      BY <2>2
    <3> QED
      BY <3>1, ConcatProperties DEF X
  <2> QED
    BY <1>5, <2>1, <2>2
<1>7. G \in [D \X [D -> X] -> X]
  BY <1>6
<1>8. LooksBack(G, D, X, mu)
  <2>1. ASSUME NEW p \in D, NEW f \in [D -> X], NEW g \in [D -> X],
               \A e \in D : mu[e] < mu[p] => f[e] = g[e]
        PROVE  G[<<p, f>>] = G[<<p, g>>]
    <3>1. Step(f, p) = Step(g, p)
      BY <1>5, <2>1
    <3> QED
      BY <3>1
  <2> HIDE DEF G
  <2> QED
    BY <2>1 DEF LooksBack
<1>9. << >> \in X
  BY EmptySeq DEF X
<1> HIDE DEF G
<1>10. PICK f \in [D -> X] : Recurs(f, D, G)
  BY <1>3, <1>4, <1>7, <1>8, <1>9, Recursion
<1>11. \A p \in D : f[p] = Step(f, p)
  BY <1>10 DEF Recurs, G
<1>12. f = [p \in D |-> Step(f, p)]
  BY <1>11
<1> QED
  BY <1>12 DEF D, Step, IsRest

\* From every cell the loop goes on by a path to the end.
LEMMA RestIsPath ==
  ASSUME NEW V, NEW a \in Seq(V), NEW b \in Seq(V), NEW rest, IsRest(rest, a, b)
  PROVE  \A i \in 0 .. Len(a), j \in 0 .. Len(b) :
            Path(rest[<<i, j>>], <<i, j>>, <<Len(a), Len(b)>>, a, b)
<1> DEFINE top == Len(a) + Len(b)
           Fine(i, j) == Path(rest[<<i, j>>], <<i, j>>, <<Len(a), Len(b)>>, a, b)
           Good == {k \in Nat : \A i \in 0 .. Len(a), j \in 0 .. Len(b) : top - (i + j) < k => Fine(i, j)}
<1>1. Len(a) \in Nat /\ Len(b) \in Nat
  BY LenProperties
<1>2. \A i \in 0 .. Len(a), j \in 0 .. Len(b) : rest[<<i, j>>] = Onward(rest, i, j, a, b)
  <2>1. rest = [p \in Cells(a, b) |-> Onward(rest, p[1], p[2], a, b)]
    BY DEF IsRest
  <2>2. \A i \in 0 .. Len(a), j \in 0 .. Len(b) : <<i, j>> \in Cells(a, b)
    BY DEF Cells
  <2> QED
    BY <2>1, <2>2
<1> HIDE DEF Fine
<1>3. ASSUME NEW k \in Nat, k \in Good
      PROVE  k + 1 \in Good
  <2> SUFFICES ASSUME NEW i \in 0 .. Len(a), NEW j \in 0 .. Len(b), top - (i + j) < k + 1
               PROVE  Fine(i, j)
    OBVIOUS
  <2>1. CASE \E s : /\ Path(s, <<i, j>>, <<Len(a), Len(b)>>, a, b)
                    /\ \A f : Onward(f, i, j, a, b) = s
    BY <1>2, <2>1 DEF Fine
  <2>2. ASSUME NEW s, NEW u, NEW v, OnwardFrom(rest, s, i, j, u, v, a, b)
        PROVE  Fine(i, j)
    <3>1. /\ u \in 0 .. Len(a) /\ v \in 0 .. Len(b) /\ u + v > i + j
          /\ Path(s, <<i, j>>, <<u, v>>, a, b)
          /\ rest[<<i, j>>] = s \o rest[<<u, v>>]
      BY <1>2, <2>2 DEF OnwardFrom, Cells
    <3>2. top - (u + v) < k
      BY <1>1, <3>1
    <3>3. Fine(u, v)
      BY <1>3, <3>1, <3>2
    <3> QED
      BY <3>1, <3>3, PathsJoin DEF Fine
  <2>3. \/ \E s : /\ Path(s, <<i, j>>, <<Len(a), Len(b)>>, a, b)
                   /\ \A f : Onward(f, i, j, a, b) = s
        \/ \E s, u, v : \A f : OnwardFrom(f, s, i, j, u, v, a, b)
    BY OnwardCases
  <2> QED
    BY <2>1, <2>2, <2>3
<1>4. 0 \in Good
  <2>1. \A i \in 0 .. Len(a), j \in 0 .. Len(b) : ~(top - (i + j) < 0)
    BY <1>1
  <2> QED
    BY <2>1
<1> HIDE DEF Good
<1>5. \A k \in Nat : k \in Good
  BY <1>3, <1>4, Induction
<1>6. ASSUME NEW i \in 0 .. Len(a), NEW j \in 0 .. Len(b)
      PROVE  Fine(i, j)
  <2>1. top + 1 \in Nat /\ top - (i + j) < top + 1
    BY <1>1
  <2>2. top + 1 \in Good
    BY <1>5, <2>1
  <2> QED
    BY <2>1, <2>2 DEF Good
<1> QED
  BY <1>6 DEF Fine

\* simpleDiff() returns an edit of the whole old text into the whole new one.
LEMMA SimpleDiffIsEdit ==
  ASSUME NEW V, NEW a \in Seq(V), NEW b \in Seq(V)
  PROVE  Path(SimpleDiff(a, b), <<0, 0>>, <<Len(a), Len(b)>>, a, b)
<1> DEFINE rest == CHOOSE f : IsRest(f, a, b)
<1>1. \E f : IsRest(f, a, b)
  BY RestExists
<1>2. IsRest(rest, a, b)
  BY <1>1
<1>3. SimpleDiff(a, b) = rest[<<0, 0>>]
  BY DEF SimpleDiff, Cells, IsRest
<1> HIDE DEF rest
<1>4. 0 \in 0 .. Len(a) /\ 0 \in 0 .. Len(b)
  BY LenProperties
<1> QED
  BY <1>2, <1>3, <1>4, RestIsPath

\* Whichever way it is computed, the edit is a path through both texts.
LEMMA EditOpsAreEdit ==
  ASSUME NEW V, NEW a \in Seq(V), NEW b \in Seq(V)
  PROVE  Path(EditOps(a, b), <<0, 0>>, <<Len(a), Len(b)>>, a, b)
<1>1. Path(TableDiff(a, b), <<0, 0>>, <<Len(a), Len(b)>>, a, b)
  BY TableDiffIsEdit
<1>2. Path(SimpleDiff(a, b), <<0, 0>>, <<Len(a), Len(b)>>, a, b)
  BY SimpleDiffIsEdit
<1> QED
  BY <1>1, <1>2 DEF EditOps

-----------------------------------------------------------------------------
(* What an edit shows *)

\* A stretch of a text grows by the line after it.
LEMMA SubSeqGrows ==
  ASSUME NEW V, NEW t \in Seq(V), NEW p \in Nat, NEW q \in Nat, p <= q, q < Len(t)
  PROVE  SubSeq(t, p + 1, q + 1) = Append(SubSeq(t, p + 1, q), t[q + 1])
<1>1. Len(t) \in Nat
  BY LenProperties
<1> DEFINE m == p + 1
           n == q + 1
<1>2. m \in 1 .. Len(t) /\ n \in m .. Len(t) /\ n - 1 = q /\ q \in Int /\ m \in Int
  BY <1>1
<1>3. n \in 1 .. Len(t) /\ \A i \in m .. q : i \in 1 .. Len(t)
  BY <1>1
<1>4. t[n] \in V /\ \A i \in m .. q : t[i] \in V
  BY <1>3, ElementOfSeq
<1> HIDE DEF m, n
<1>5. SubSeq(t, m, n) = SubSeq(t, m, n - 1) \o <<t[n]>>
  BY <1>2, SubSeqRecursiveSecond
<1>6. SubSeq(t, m, q) \in Seq(V)
  BY <1>2, <1>4, SubSeqProperties
<1>7. Append(SubSeq(t, m, q), t[n]) = SubSeq(t, m, q) \o <<t[n]>>
  BY <1>4, <1>6, AppendIsConcat
<1>8. SubSeq(t, m, n) = Append(SubSeq(t, m, q), t[n])
  BY <1>2, <1>5, <1>7
<1> QED
  BY <1>8 DEF m, n

\* The places after s.
Beyond(D, s) == {x \in D : s < x}

\* Places that hold the lines of a text one after the other: pos[k] of the lines
\* come at the first k places.
Runs(K, n, pos, c, t) ==
    \A k \in 0 .. n - 1 :
        IF k + 1 \in K
        THEN pos[k] < Len(t) /\ c[k + 1] = t[pos[k] + 1] /\ pos[k + 1] = pos[k] + 1
        ELSE pos[k + 1] = pos[k]

\* The places beyond s show the text from where it is at s.
Reads(K, n, pos, c, t, s) ==
    \A e \in s .. n : /\ Picked(c, Upto(Beyond(K, s), e)) = SubSeq(t, pos[s] + 1, pos[e])
                      /\ pos[s] <= pos[e]
                      /\ pos[e] <= Len(t)

\* What is picked at places that hold the lines of a text in order is a stretch of it.
LEMMA PickedRun ==
  ASSUME NEW V, NEW t \in Seq(V), NEW n \in Nat, NEW K, K \subseteq 1 .. n,
         NEW pos \in [0 .. n -> Nat], NEW c, Runs(K, n, pos, c, t),
         NEW s \in 0 .. n, pos[s] <= Len(t)
  PROVE  Reads(K, n, pos, c, t, s)
<1> DEFINE Fine(e) == /\ Picked(c, Upto(Beyond(K, s), e)) = SubSeq(t, pos[s] + 1, pos[e])
                      /\ pos[s] <= pos[e]
                      /\ pos[e] <= Len(t)
           Good == {d \in Nat : s + d <= n => Fine(s + d)}
           D == Beyond(K, s)
<1>1. Len(t) \in Nat /\ pos[s] \in Nat /\ s \in Nat
  BY LenProperties
<1>2. D \subseteq 1 .. n
  BY DEF Beyond
<1>3. \A x \in D : c[x] \in V
  <2>1. ASSUME NEW x \in K
        PROVE  c[x] \in V
    <3>1. x - 1 \in 0 .. n - 1 /\ x - 1 \in 0 .. n /\ (x - 1) + 1 = x
      OBVIOUS
    <3>2. pos[x - 1] \in Nat /\ pos[x - 1] < Len(t) /\ c[x] = t[pos[x - 1] + 1]
      BY <3>1 DEF Runs
    <3>3. pos[x - 1] + 1 \in 1 .. Len(t)
      BY <1>1, <3>2
    <3> QED
      BY <3>2, <3>3, ElementOfSeq
  <2> QED
    BY <2>1 DEF Beyond
<1>4. Fine(s)
  <2>1. Upto(D, s) = {}
    <3>1. \A x \in K : s < x => ~(x <= s)
      OBVIOUS
    <3> QED
      BY <3>1 DEF Upto, Beyond
  <2>2. SubSeq(t, pos[s] + 1, pos[s]) = << >>
    BY <1>1, SubSeqEmpty
  <2>3. pos[s] <= pos[s]
    BY <1>1
  <2>4. Picked(c, Upto(D, s)) = << >>
    BY <2>1, PickedNone
  <2> QED
    BY <2>2, <2>3, <2>4 DEF D
<1>5. ASSUME NEW e \in s .. n - 1, Fine(e)
      PROVE  Fine(e + 1)
  <2>1. e \in 0 .. n - 1 /\ e \in 0 .. n /\ e + 1 \in 0 .. n /\ s < e + 1
    OBVIOUS
  <2>2. e + 1 \in D <=> e + 1 \in K
    BY <2>1 DEF Beyond
  <2>3. pos[e] \in Nat
    BY <2>1
  <2> HIDE DEF D
  <2>40. Stepwise(V, D, c, e)
    BY <1>2, <1>3, <2>1, PickedStep
  <2>4. /\ Picked(c, Upto(D, e)) \in Seq(V)
        /\ e + 1 \in D => /\ Picked(c, Upto(D, e + 1)) = Append(Picked(c, Upto(D, e)), c[e + 1])
                          /\ Cardinality(Upto(D, e + 1)) = Cardinality(Upto(D, e)) + 1
        /\ e + 1 \notin D => Upto(D, e + 1) = Upto(D, e)
    BY <2>40 DEF Stepwise
  <2>5. CASE e + 1 \in K
    <3>1. pos[e] < Len(t) /\ c[e + 1] = t[pos[e] + 1] /\ pos[e + 1] = pos[e] + 1
      BY <2>1, <2>5 DEF Runs
    <3>2. SubSeq(t, pos[s] + 1, pos[e] + 1) = Append(SubSeq(t, pos[s] + 1, pos[e]), t[pos[e] + 1])
      BY <1>1, <1>5, <2>3, <3>1, SubSeqGrows
    <3>3. Picked(c, Upto(D, e + 1)) = SubSeq(t, pos[s] + 1, pos[e + 1])
      BY <1>5, <2>2, <2>4, <2>5, <3>1, <3>2 DEF D
    <3>4. pos[s] <= pos[e + 1] /\ pos[e + 1] <= Len(t)
      <4> DEFINE x == pos[e]
                 y == pos[e + 1]
                 z == pos[s]
      <4>1. x \in Nat /\ z \in Nat /\ z <= x /\ x < Len(t) /\ y = x + 1
        BY <1>1, <1>5, <2>3, <3>1
      <4> HIDE DEF x, y, z
      <4>2. z <= y /\ y <= Len(t)
        BY <1>1, <4>1
      <4> QED
        BY <4>2 DEF y, z
    <3> QED
      BY <3>3, <3>4 DEF D
  <2>6. CASE e + 1 \notin K
    <3>1. pos[e + 1] = pos[e]
      BY <2>1, <2>6 DEF Runs
    <3>2. Upto(D, e + 1) = Upto(D, e)
      BY <2>2, <2>4, <2>6
    <3> QED
      BY <1>5, <3>1, <3>2 DEF D
  <2> QED
    BY <2>5, <2>6
<1> HIDE DEF Fine
<1>6. 0 \in Good
  <2>1. s + 0 = s
    OBVIOUS
  <2> QED
    BY <1>4, <2>1
<1>7. ASSUME NEW d \in Nat, d \in Good
      PROVE  d + 1 \in Good
  <2> SUFFICES ASSUME s + (d + 1) <= n
               PROVE  Fine(s + (d + 1))
    OBVIOUS
  <2>1. s + d \in s .. n - 1 /\ s + (d + 1) = (s + d) + 1 /\ s + d <= n
    BY <1>1
  <2>2. Fine(s + d)
    BY <1>7, <2>1
  <2> QED
    BY <1>5, <2>1, <2>2
<1> HIDE DEF Good
<1>8. \A d \in Nat : d \in Good
  BY <1>6, <1>7, Induction
<1>9. ASSUME NEW e \in s .. n
      PROVE  Fine(e)
  <2>1. e - s \in Nat /\ s + (e - s) = e /\ e <= n
    BY <1>1
  <2> QED
    BY <1>8, <2>1 DEF Good
<1> QED
  BY <1>9 DEF Fine, Reads

\* The operations that stand for a line of the old text, and of the new.
OldPlaces(ops) == {k \in DOMAIN ops : ops[k].type # "insert"}
NewPlaces(ops) == {k \in DOMAIN ops : ops[k].type # "delete"}

\* Lines of the old and of the new text before the k-th next operation.
OldPos(ops, q) == [k \in 0 .. Len(ops) |-> Point(ops, k + 1, q)[1]]
NewPos(ops, q) == [k \in 0 .. Len(ops) |-> Point(ops, k + 1, q)[2]]

\* On a path the operations that are no inserts run through the old text, and those
\* that are no deletes through the new one.
LEMMA PathRuns ==
  ASSUME NEW V, NEW a \in Seq(V), NEW b \in Seq(V), NEW ops,
         NEW q \in Nat \X Nat, NEW p, Path(ops, p, q, a, b)
  PROVE  /\ Len(ops) \in Nat /\ DOMAIN ops = 1 .. Len(ops)
         /\ OldPos(ops, q) \in [0 .. Len(ops) -> Nat]
         /\ NewPos(ops, q) \in [0 .. Len(ops) -> Nat]
         /\ OldPlaces(ops) \subseteq 1 .. Len(ops)
         /\ NewPlaces(ops) \subseteq 1 .. Len(ops)
         /\ Runs(OldPlaces(ops), Len(ops), OldPos(ops, q), Content(ops, a, b), a)
         /\ Runs(NewPlaces(ops), Len(ops), NewPos(ops, q), Content(ops, a, b), b)
<1>1. ops \in Seq(Ops)
  BY DEF Path
<1>2. Len(ops) \in Nat /\ DOMAIN ops = 1 .. Len(ops) /\ Len(a) \in Nat /\ Len(b) \in Nat
  BY <1>1, LenProperties
<1>3. ASSUME NEW k \in 1 .. Len(ops)
      PROVE  /\ ops[k] \in Ops /\ ops[k].old \in Nat /\ ops[k].new \in Nat
             /\ ops[k].type \in {"equal", "insert", "delete"}
             /\ Fits(ops[k], a, b)
             /\ Point(ops, k, q) = <<ops[k].old, ops[k].new>>
             /\ Point(ops, k + 1, q) = After(ops[k])
  <2>1. ops[k] \in Ops
    BY <1>1, ElementOfSeq
  <2>2. ops[k].old \in Nat /\ ops[k].new \in Nat /\ ops[k].type \in {"equal", "insert", "delete"}
    BY <2>1 DEF Ops
  <2>3. k <= Len(ops)
    BY <1>2
  <2>4. Point(ops, k, q) = <<ops[k].old, ops[k].new>>
    BY <2>3 DEF Point, At
  <2>5. Fits(ops[k], a, b) /\ Point(ops, k + 1, q) = After(ops[k])
    BY DEF Path
  <2> QED
    BY <2>1, <2>2, <2>4, <2>5
<1>4. ASSUME NEW k \in 0 .. Len(ops)
      PROVE  Point(ops, k + 1, q)[1] \in Nat /\ Point(ops, k + 1, q)[2] \in Nat
  <2>1. CASE k = Len(ops)
    <3>1. ~(k + 1 <= Len(ops))
      BY <1>2, <2>1
    <3>2. Point(ops, k + 1, q) = q
      BY <3>1 DEF Point
    <3> QED
      BY <3>2
  <2>2. CASE k # Len(ops)
    <3>1. k + 1 \in 1 .. Len(ops)
      <4> DEFINE n == Len(ops)
      <4>1. n \in Nat /\ k \in 0 .. n /\ k # n
        BY <1>2, <2>2
      <4> HIDE DEF n
      <4>2. k + 1 \in 1 .. n
        BY <4>1
      <4> QED
        BY <4>2 DEF n
    <3> DEFINE l == k + 1
    <3> HIDE DEF l
    <3>2. l \in 1 .. Len(ops)
      BY <3>1 DEF l
    <3>3. Point(ops, l, q) = <<ops[l].old, ops[l].new>> /\ ops[l].old \in Nat /\ ops[l].new \in Nat
      BY <1>3, <3>2
    <3> QED
      BY <3>3 DEF l
  <2> QED
    BY <2>1, <2>2
<1>5. OldPos(ops, q) \in [0 .. Len(ops) -> Nat] /\ NewPos(ops, q) \in [0 .. Len(ops) -> Nat]
  BY <1>4 DEF OldPos, NewPos
<1>6. ASSUME NEW k \in 0 .. Len(ops) - 1, NEW l, l = k + 1
      PROVE  /\ l \in 1 .. Len(ops)
             /\ OldPos(ops, q)[k] = ops[l].old
             /\ OldPos(ops, q)[l] = IF ops[l].type = "insert" THEN ops[l].old ELSE ops[l].old + 1
             /\ NewPos(ops, q)[k] = ops[l].new
             /\ NewPos(ops, q)[l] = IF ops[l].type = "delete" THEN ops[l].new ELSE ops[l].new + 1
             /\ Content(ops, a, b)[l] = IF ops[l].type = "insert" THEN b[ops[l].new + 1] ELSE a[ops[l].old + 1]
             /\ l \in OldPlaces(ops) <=> ops[l].type # "insert"
             /\ l \in NewPlaces(ops) <=> ops[l].type # "delete"
  <2>1. l \in 1 .. Len(ops) /\ l \in 0 .. Len(ops) /\ k \in 0 .. Len(ops)
    BY <1>2, <1>6
  <2>2. /\ Point(ops, l, q) = <<ops[l].old, ops[l].new>>
        /\ Point(ops, l + 1, q) = After(ops[l])
    BY <1>3, <2>1
  <2>3. OldPos(ops, q)[k] = ops[l].old /\ NewPos(ops, q)[k] = ops[l].new
    BY <1>6, <2>1, <2>2 DEF OldPos, NewPos
  <2>4. OldPos(ops, q)[l] = After(ops[l])[1] /\ NewPos(ops, q)[l] = After(ops[l])[2]
    BY <2>1, <2>2 DEF OldPos, NewPos
  <2>5. Content(ops, a, b)[l] = IF ops[l].type = "insert" THEN b[ops[l].new + 1] ELSE a[ops[l].old + 1]
    BY <1>2, <2>1 DEF Content
  <2>6. /\ l \in OldPlaces(ops) <=> ops[l].type # "insert"
        /\ l \in NewPlaces(ops) <=> ops[l].type # "delete"
    BY <1>2, <2>1 DEF OldPlaces, NewPlaces
  <2> QED
    BY <2>1, <2>3, <2>4, <2>5, <2>6 DEF After
<1>7. Runs(OldPlaces(ops), Len(ops), OldPos(ops, q), Content(ops, a, b), a)
  <2>1. ASSUME NEW l \in 1 .. Len(ops)
        PROVE  ops[l].type # "insert" => ops[l].old < Len(a)
    BY <1>2, <1>3 DEF Fits
  <2> SUFFICES ASSUME NEW k \in 0 .. Len(ops) - 1, NEW l, l = k + 1
      PROVE IF l \in OldPlaces(ops)
            THEN /\ OldPos(ops, q)[k] < Len(a)
                 /\ Content(ops, a, b)[l] = a[OldPos(ops, q)[k] + 1]
                 /\ OldPos(ops, q)[l] = OldPos(ops, q)[k] + 1
            ELSE OldPos(ops, q)[l] = OldPos(ops, q)[k]
    BY DEF Runs
  <2> QED
    BY <1>6, <2>1
<1>8. Runs(NewPlaces(ops), Len(ops), NewPos(ops, q), Content(ops, a, b), b)
  <2>1. ASSUME NEW l \in 1 .. Len(ops), ops[l].type # "delete"
        PROVE  /\ ops[l].new < Len(b)
               /\ ops[l].type = "insert" \/ a[ops[l].old + 1] = b[ops[l].new + 1]
    BY <1>2, <1>3, <2>1 DEF Fits
  <2> SUFFICES ASSUME NEW k \in 0 .. Len(ops) - 1, NEW l, l = k + 1
      PROVE IF l \in NewPlaces(ops)
            THEN /\ NewPos(ops, q)[k] < Len(b)
                 /\ Content(ops, a, b)[l] = b[NewPos(ops, q)[k] + 1]
                 /\ NewPos(ops, q)[l] = NewPos(ops, q)[k] + 1
            ELSE NewPos(ops, q)[l] = NewPos(ops, q)[k]
    BY DEF Runs
  <2>2. CASE l \in NewPlaces(ops)
    <3>1. l \in 1 .. Len(ops) /\ ops[l].type # "delete"
      BY <1>6, <2>2
    <3>2. ops[l].new < Len(b) /\ (ops[l].type = "insert" \/ a[ops[l].old + 1] = b[ops[l].new + 1])
      BY <2>1, <3>1
    <3> QED
      BY <1>6, <2>2, <3>1, <3>2
  <2>3. CASE l \notin NewPlaces(ops)
    BY <1>6, <2>3
  <2> QED
    BY <2>2, <2>3
<1> QED
  BY <1>2, <1>5, <1>7, <1>8 DEF OldPlaces, NewPlaces

\* An edit shows the old text when none of its changes are made, and the new one
\* when all are.
LEMMA EditShowsTexts ==
  ASSUME NEW V, NEW a \in Seq(V), NEW b \in Seq(V), NEW ops,
         Path(ops, <<0, 0>>, <<Len(a), Len(b)>>, a, b)
  PROVE  /\ Picked(Content(ops, a, b), OldPlaces(ops)) = a
         /\ Picked(Content(ops, a, b), NewPlaces(ops)) = b
<1> DEFINE q == <<Len(a), Len(b)>>
           n == Len(ops)
           c == Content(ops, a, b)
           K == OldPlaces(ops)
           L == NewPlaces(ops)
           from == OldPos(ops, q)
           into == NewPos(ops, q)
<1>1. Len(a) \in Nat /\ Len(b) \in Nat
  BY LenProperties
<1>2. q \in Nat \X Nat
  BY <1>1
<1>3. /\ n \in Nat
      /\ from \in [0 .. n -> Nat] /\ into \in [0 .. n -> Nat]
      /\ K \subseteq 1 .. n /\ L \subseteq 1 .. n
      /\ Runs(K, n, from, c, a) /\ Runs(L, n, into, c, b)
  <2> HIDE DEF q
  <2>1. Path(ops, <<0, 0>>, q, a, b)
    BY DEF q
  <2> QED
    BY <1>2, <2>1, PathRuns
<1>4. 0 \in 0 .. n /\ n \in 0 .. n /\ ~(n + 1 <= n) /\ 0 + 1 = 1
  BY <1>3
<1>5. Point(ops, 1, q) = <<0, 0>> /\ Point(ops, n + 1, q) = q
  BY <1>4 DEF Path, Point
<1>6. from[0] = 0 /\ from[n] = Len(a) /\ into[0] = 0 /\ into[n] = Len(b)
  BY <1>4, <1>5 DEF OldPos, NewPos
<1>7. ASSUME NEW P, P \subseteq 1 .. n
      PROVE  Upto(Beyond(P, 0), n) = P
  <2>1. \A x \in P : x \in 1 .. n
    BY <1>7
  <2>2. \A x \in P : 0 < x /\ x <= n
    BY <1>3, <2>1
  <2> QED
    BY <2>2 DEF Upto, Beyond
<1>8. SubSeq(a, 1, Len(a)) = a /\ SubSeq(b, 1, Len(b)) = b
  BY SubSeqFull
<1> HIDE DEF q, c, n, K, L, from, into
<1>9. Reads(K, n, from, c, a, 0) /\ Reads(L, n, into, c, b, 0)
  <2>1. from[0] <= Len(a) /\ into[0] <= Len(b)
    BY <1>1, <1>6
  <2> QED
    BY <1>3, <1>4, <2>1, PickedRun
<1>10. Picked(c, K) = SubSeq(a, from[0] + 1, from[n]) /\ Picked(c, L) = SubSeq(b, into[0] + 1, into[n])
  BY <1>3, <1>4, <1>7, <1>9 DEF Reads
<1>11. Picked(c, K) = a /\ Picked(c, L) = b
  BY <1>4, <1>6, <1>8, <1>10
<1> QED
  BY <1>11 DEF c, K, L
-----------------------------------------------------------------------------
(* What is kept is a longest common subsequence *)

\* With one place more, there is one more up to it if it is in D.
LEMMA UptoGrows ==
  ASSUME NEW n \in Nat, NEW D, D \subseteq 1 .. n, NEW k \in 0 .. n - 1
  PROVE  /\ Cardinality(Upto(D, k)) \in Nat
         /\ k + 1 \in D => Cardinality(Upto(D, k + 1)) = Cardinality(Upto(D, k)) + 1
         /\ k + 1 \notin D => Upto(D, k + 1) = Upto(D, k)
<1> DEFINE s == [x \in D |-> x]
<1>1. \A x \in D : s[x] \in D
  OBVIOUS
<1> HIDE DEF s
<1>2. Stepwise(D, D, s, k)
  BY <1>1, PickedStep
<1>3. Places(Upto(D, k))
  <2>1. k \in Int
    OBVIOUS
  <2> QED
    BY <2>1, PlacesOfASequence
<1> QED
  BY <1>2, <1>3, SomePlaces DEF Stepwise

\* As many lines of one text as M has places come, in the same order, in the other.
Shares(M, a, b) ==
    \E D \in SUBSET (1 .. Len(a)), E \in SUBSET (1 .. Len(b)) :
        Picked(a, D) = Picked(b, E) /\ Cardinality(D) = Cardinality(M)

\* Lines that are shown of both texts are lines the texts share.
LEMMA RunsShare ==
  ASSUME NEW V, NEW a \in Seq(V), NEW b \in Seq(V), NEW n \in Nat,
         NEW K, K \subseteq 1 .. n, NEW L, NEW c,
         NEW from \in [0 .. n -> Nat], Runs(K, n, from, c, a),
         NEW into \in [0 .. n -> Nat], Runs(L, n, into, c, b)
  PROVE  Shares(K \cap L, a, b)
<1> DEFINE M == K \cap L
           Part(k, D, E) == /\ D \subseteq 1 .. Len(a) /\ \A x \in D : x <= from[k]
                            /\ E \subseteq 1 .. Len(b) /\ \A x \in E : x <= into[k]
                            /\ Picked(a, D) = Picked(b, E)
                            /\ Cardinality(D) = Cardinality(Upto(M, k))
           Good == {k \in Nat : k <= n => \E D, E : Part(k, D, E)}
<1>1. Len(a) \in Nat /\ Len(b) \in Nat /\ M \subseteq 1 .. n
  BY LenProperties
<1>2. Upto(M, 0) = {} /\ Upto(M, n) = M
  BY <1>1, PlacesOfASequence
<1>3. 0 \in Good
  <2>1. Part(0, {}, {})
    BY <1>2, PickedNone
  <2> HIDE DEF Part
  <2> QED
    BY <2>1
<1>4. ASSUME NEW k \in 0 .. n - 1, NEW D, NEW E, Part(k, D, E)
      PROVE  \E F, G : Part(k + 1, F, G)
  <2> DEFINE x == from[k]
             y == into[k]
             x1 == from[k + 1]
             y1 == into[k + 1]
  <2>1. k \in 0 .. n /\ k + 1 \in 0 .. n
    OBVIOUS
  <2>2. x \in Nat /\ y \in Nat /\ x1 \in Nat /\ y1 \in Nat
    BY <2>1
  <2>3. (x1 = x \/ x1 = x + 1) /\ (y1 = y \/ y1 = y + 1)
    BY DEF Runs
  <2>4. k + 1 \in M => /\ x < Len(a) /\ c[k + 1] = a[x + 1] /\ x1 = x + 1
                       /\ y < Len(b) /\ c[k + 1] = b[y + 1] /\ y1 = y + 1
    BY DEF Runs
  <2>5. \A i \in D : i \in Nat /\ i <= x /\ i <= x1 /\ i \in 1 .. Len(a)
    <3>1. \A i \in D : i \in 1 .. Len(a) /\ i <= x
      BY <1>4
    <3> HIDE DEF x, x1
    <3> QED
      BY <1>1, <2>2, <2>3, <3>1
  <2>6. \A i \in E : i \in Nat /\ i <= y /\ i <= y1 /\ i \in 1 .. Len(b)
    <3>1. \A i \in E : i \in 1 .. Len(b) /\ i <= y
      BY <1>4
    <3> HIDE DEF y, y1
    <3> QED
      BY <1>1, <2>2, <2>3, <3>1
  <2>7. /\ Cardinality(Upto(M, k)) \in Nat
        /\ k + 1 \in M => Cardinality(Upto(M, k + 1)) = Cardinality(Upto(M, k)) + 1
        /\ k + 1 \notin M => Upto(M, k + 1) = Upto(M, k)
    <3> HIDE DEF M
    <3> QED
      BY <1>1, UptoGrows
  <2>8. CASE k + 1 \notin M
    <3>1. Part(k + 1, D, E)
      BY <1>4, <2>5, <2>6, <2>7, <2>8
    <3> QED
      BY <3>1
  <2>9. CASE k + 1 \in M
    <3> DEFINE l == x + 1
               r == y + 1
               F == D \cup {l}
               G == E \cup {r}
    <3>1. /\ l \in 1 .. Len(a) /\ \A i \in D : i <= l /\ i # l
          /\ r \in 1 .. Len(b) /\ \A i \in E : i <= r /\ i # r
          /\ l <= x1 /\ r <= y1 /\ l = x1 /\ r = y1 /\ a[l] = b[r]
      <4>1. a[l] = b[r]
        BY <2>4, <2>9
      <4>2. x < Len(a) /\ y < Len(b) /\ x1 = x + 1 /\ y1 = y + 1
        BY <2>4, <2>9
      <4> HIDE DEF x, y, x1, y1
      <4> QED
        BY <1>1, <2>2, <2>5, <2>6, <4>1, <4>2
    <3>2. F \ {l} = D /\ G \ {r} = E
      BY <3>1
    <3>3. F \subseteq 1 .. Len(a) /\ G \subseteq 1 .. Len(b)
      BY <2>5, <2>6, <3>1
    <3>4. (\A i \in F : i <= l) /\ (\A i \in G : i <= r) /\ l \in F /\ r \in G
      BY <2>2, <3>1
    <3> HIDE DEF l, r, F, G, x, y, x1, y1
    <3>5. Places(F) /\ Places(G)
      BY <1>1, <3>3, PlacesOfASequence
    <3>6. (\A i \in F : a[i] \in V) /\ (\A i \in G : b[i] \in V)
      BY <3>3, ElementOfSeq
    <3>7. Picked(a, F) = Append(Picked(a, F \ {l}), a[l]) /\ Picked(a, F \ {l}) \in Seq(V)
      BY <3>4, <3>5, <3>6, PickedLast
    <3>8. Picked(b, G) = Append(Picked(b, G \ {r}), b[r]) /\ Picked(b, G \ {r}) \in Seq(V)
      BY <3>4, <3>5, <3>6, PickedLast
    <3>9. Picked(a, F) = Picked(b, G)
      BY <1>4, <3>1, <3>2, <3>7, <3>8
    <3>10. Cardinality(F) = Cardinality(F \ {l}) + 1
      BY <3>4, <3>5, OnePlaceLess
    <3>11. Cardinality(F) = Cardinality(Upto(M, k + 1))
      BY <1>4, <2>7, <2>9, <3>2, <3>10
    <3>12. (\A i \in F : i <= x1) /\ (\A i \in G : i <= y1)
      BY <3>1, <3>4
    <3>13. Part(k + 1, F, G)
      BY <3>3, <3>9, <3>11, <3>12 DEF x1, y1
    <3> QED
      BY <3>13
  <2> QED
    BY <2>8, <2>9
<1> HIDE DEF Part
<1>5. ASSUME NEW k \in Nat, k \in Good
      PROVE  k + 1 \in Good
  <2>1. ASSUME k + 1 <= n
        PROVE  \E D, E : Part(k + 1, D, E)
    <3>1. k \in 0 .. n - 1 /\ k <= n
      BY <2>1
    <3>2. PICK D, E : Part(k, D, E)
      BY <1>5, <3>1
    <3> QED
      BY <1>4, <3>1, <3>2
  <2> QED
    BY <2>1
<1> HIDE DEF Good
<1>6. n \in Good
  BY <1>3, <1>5, Induction
<1>7. PICK D, E : Part(n, D, E)
  BY <1>6 DEF Good
<1>8. D \in SUBSET (1 .. Len(a)) /\ E \in SUBSET (1 .. Len(b)) /\ Picked(a, D) = Picked(b, E)
      /\ Cardinality(D) = Cardinality(M)
  BY <1>2, <1>7 DEF Part
<1> QED
  BY <1>8 DEF Shares, M

\* An edit keeps lines the texts share.
LEMMA EqualsAreShared ==
  ASSUME NEW V, NEW a \in Seq(V), NEW b \in Seq(V), NEW ops,
         Path(ops, <<0, 0>>, <<Len(a), Len(b)>>, a, b)
  PROVE  Shares(Equals(ops), a, b)
<1> DEFINE q == <<Len(a), Len(b)>>
           p == <<0, 0>>
<1>1. q \in Nat \X Nat
  BY LenProperties
<1>2. Path(ops, p, q, a, b)
  OBVIOUS
<1> HIDE DEF p, q
<1>3. /\ Len(ops) \in Nat /\ DOMAIN ops = 1 .. Len(ops)
      /\ OldPos(ops, q) \in [0 .. Len(ops) -> Nat]
      /\ NewPos(ops, q) \in [0 .. Len(ops) -> Nat]
      /\ OldPlaces(ops) \subseteq 1 .. Len(ops)
      /\ NewPlaces(ops) \subseteq 1 .. Len(ops)
      /\ Runs(OldPlaces(ops), Len(ops), OldPos(ops, q), Content(ops, a, b), a)
      /\ Runs(NewPlaces(ops), Len(ops), NewPos(ops, q), Content(ops, a, b), b)
  BY <1>1, <1>2, PathRuns
<1>4. Shares(OldPlaces(ops) \cap NewPlaces(ops), a, b)
  BY <1>3, RunsShare
<1>5. \A k \in DOMAIN ops : ops[k].type \in {"equal", "insert", "delete"}
  <2>1. ops \in Seq(Ops)
    BY <1>2 DEF Path
  <2>2. \A k \in DOMAIN ops : ops[k] \in Ops
    BY <1>3, <2>1, ElementOfSeq
  <2> QED
    BY <2>2 DEF Ops
<1>6. OldPlaces(ops) \cap NewPlaces(ops) = Equals(ops)
  BY <1>5 DEF OldPlaces, NewPlaces, Equals
<1> QED
  BY <1>4, <1>6

\* The library's texts of bounded length are texts.
LEMMA TextsAreSequences ==
  ASSUME NEW t \in Texts
  PROVE  t \in Seq(Lines)
<1>1. PICK m \in 0 .. MaxLines : t \in [1 .. m -> Lines]
  BY DEF Texts, BoundedSeq, SeqOf
<1>2. m \in Nat
  BY DiffAssumption
<1> QED
  BY <1>1, <1>2, SeqOfFunction

\* The walk back keeps as many lines as the texts' longest common subsequence has.
LEMMA LongestKept ==
  ASSUME NEW V, old \in Seq(V), new \in Seq(V)
  PROVE  Cardinality(Equals(TableDiff(old, new))) = CommonLength
<1> DEFINE lengths == {Len(s) : s \in Subsequences(old) \cap Subsequences(new)}
           top == Table(old, new)[Len(old)][Len(new)]
           ops == TableDiff(old, new)
<1>1. /\ Len(old) \in Nat /\ DOMAIN old = 1 .. Len(old)
      /\ Len(new) \in Nat /\ DOMAIN new = 1 .. Len(new)
  BY LenProperties
<1>2. Len(old) \in 0 .. Len(old) /\ Len(new) \in 0 .. Len(new)
  BY <1>1
<1>3. ASSUME NEW D \in SUBSET (1 .. Len(old))
      PROVE  Len(Picked(old, D)) = Cardinality(D) /\ Cardinality(D) \in Nat
  <2>1. Places(D)
    BY <1>1, PlacesOfASequence
  <2>2. \A x \in D : old[x] \in V
    BY ElementOfSeq
  <2> QED
    BY <2>1, <2>2, PickedIsSeq
<1>4. \A D \in SUBSET (1 .. Len(old)), E \in SUBSET (1 .. Len(new)) :
         Picked(old, D) = Picked(new, E) => Cardinality(D) <= top
  BY <1>2, TableBounds
<1>5. top \in Nat
  BY <1>2, TableEntries
<1>6. Path(ops, <<0, 0>>, <<Len(old), Len(new)>>, old, new) /\ Cardinality(Equals(ops)) = top
  BY TableDiffIsEdit
<1> HIDE DEF top, ops
<1>7. ASSUME NEW k \in lengths
      PROVE  k \in Nat /\ k <= top
  <2>1. PICK s \in Subsequences(old) \cap Subsequences(new) : k = Len(s)
    OBVIOUS
  <2>2. PICK D \in SUBSET (1 .. Len(old)) : s = Picked(old, D)
    BY <1>1, <2>1 DEF Subsequences
  <2>3. PICK E \in SUBSET (1 .. Len(new)) : s = Picked(new, E)
    BY <1>1, <2>1 DEF Subsequences
  <2> QED
    BY <1>3, <1>4, <2>1, <2>2, <2>3
<1>8. top \in lengths
  <2>1. Shares(Equals(ops), old, new)
    BY <1>6, EqualsAreShared
  <2>2. PICK D \in SUBSET (1 .. Len(old)), E \in SUBSET (1 .. Len(new)) :
           Picked(old, D) = Picked(new, E) /\ Cardinality(D) = top
    BY <1>6, <2>1 DEF Shares
  <2>3. Picked(old, D) \in Subsequences(old) \cap Subsequences(new)
    BY <1>1, <2>2 DEF Subsequences
  <2> QED
    BY <1>3, <2>2, <2>3
<1>9. CommonLength = CHOOSE n \in lengths : \A k \in lengths : k <= n
  BY DEF CommonLength
<1> HIDE DEF lengths
<1>10. \A n \in lengths : (\A k \in lengths : k <= n) => n = top
  BY <1>5, <1>7, <1>8
<1>11. \A k \in lengths : k <= top
  BY <1>7
<1>12. CommonLength = top
  BY <1>8, <1>9, <1>10, <1>11
<1> QED
  BY <1>6, <1>12 DEF ops

-----------------------------------------------------------------------------
(* The edit under review *)

\* The texts of a review do not change.
TextsFixed == old \in Texts /\ new \in Texts

\* No step of a review changes its texts.
LEMMA TextsAreFixed == Spec => []TextsFixed
<1>1. Init => TextsFixed
  BY DEF Init, TextsFixed
<1>2. TextsFixed /\ [Next]_vars => TextsFixed'
  BY DEF TextsFixed, Next, Decide, Finalize, FinalizeFails, vars
<1> QED
  BY <1>1, <1>2, PTL DEF Spec

\* computeEditOps() returns an edit of the old text into the new one.
LEMMA EditUnderReview ==
  ASSUME TextsFixed
  PROVE  LET ops == EditOps(old, new) IN
         /\ old \in Seq(Lines) /\ new \in Seq(Lines)
         /\ Path(ops, <<0, 0>>, <<Len(old), Len(new)>>, old, new)
         /\ ops \in Seq(Ops)
         /\ Len(ops) \in Nat /\ DOMAIN ops = 1 .. Len(ops)
         /\ \A k \in DOMAIN ops : ops[k].type \in {"equal", "insert", "delete"}
<1> DEFINE ops == EditOps(old, new)
<1>1. old \in Seq(Lines) /\ new \in Seq(Lines)
  BY TextsAreSequences DEF TextsFixed
<1>2. Path(ops, <<0, 0>>, <<Len(old), Len(new)>>, old, new)
  BY <1>1, EditOpsAreEdit
<1> HIDE DEF ops
<1>3. ops \in Seq(Ops)
  BY <1>2 DEF Path
<1>4. Len(ops) \in Nat /\ DOMAIN ops = 1 .. Len(ops)
  BY <1>3, LenProperties
<1>5. \A k \in DOMAIN ops : ops[k] \in Ops
  BY <1>3, <1>4, ElementOfSeq
<1>6. \A k \in DOMAIN ops : ops[k].type \in {"equal", "insert", "delete"}
  BY <1>5 DEF Ops
<1> QED
  BY <1>1, <1>2, <1>3, <1>4, <1>6 DEF ops

\* Whatever the texts, the edit shows both and keeps as many lines as any could.
LEMMA MinimalEdit == TextsFixed => DiffIsMinimal
<1> SUFFICES ASSUME TextsFixed
             PROVE  DiffIsMinimal
  OBVIOUS
<1> DEFINE ops == EditOps(old, new)
<1>1. /\ old \in Seq(Lines) /\ new \in Seq(Lines)
      /\ Path(ops, <<0, 0>>, <<Len(old), Len(new)>>, old, new)
      /\ \A k \in DOMAIN ops : ops[k].type \in {"equal", "insert", "delete"}
  BY EditUnderReview
<1>2. UsesTable(old, new) => Cardinality(Equals(ops)) = CommonLength
  BY <1>1, LongestKept DEF EditOps
<1>3. Kept(ops, {}) = OldPlaces(ops) /\ Kept(ops, DOMAIN ops) = NewPlaces(ops)
  <2> HIDE DEF ops
  <2> QED
    BY <1>1 DEF Kept, OldPlaces, NewPlaces
<1>4. Shown(ops, {}) = old /\ Shown(ops, DOMAIN ops) = new
  <2> HIDE DEF ops
  <2>1. /\ Picked(Content(ops, old, new), OldPlaces(ops)) = old
        /\ Picked(Content(ops, old, new), NewPlaces(ops)) = new
    BY <1>1, EditShowsTexts
  <2> QED
    BY <1>3, <2>1 DEF Shown
<1> QED
  BY <1>2, <1>4 DEF DiffIsMinimal, Equals

\* DiffIsMinimal, for texts of every length and kind of line: whatever table is
\* filled and however it is walked back, the edit of computeEditOps turns the old
\* text into the new one, and from the table it keeps as many lines as any could.
THEOREM ReviewIsMinimal == Spec => []DiffIsMinimal
BY TextsAreFixed, MinimalEdit, PTL

-----------------------------------------------------------------------------
(* The regions an edit is grouped into *)

\* The first of some places is the least.
LEMMA LeastPlace ==
  ASSUME NEW S, Places(S), S # {}
  PROVE  Nth(S, 1) \in S /\ \A y \in S : Nth(S, 1) <= y
<1> DEFINE m == Cardinality(S)
<1>1. /\ \A r \in 1 .. m : Nth(S, r) \in S /\ Rank(S, Nth(S, r)) = r
      /\ \A x \in S : Nth(S, Rank(S, x)) = x
      /\ \A q, r \in 1 .. m : q < r => Nth(S, q) < Nth(S, r)
  BY NthListsPlaces
<1>2. \A x \in S : Rank(S, x) \in 1 .. m
  BY RankGrows
<1>3. S \subseteq Int /\ m \in Nat /\ m # 0
  BY NoPlaces, SomePlaces DEF Places
<1> HIDE DEF m
<1>4. 1 \in 1 .. m
  BY <1>3
<1>5. ASSUME NEW y \in S
      PROVE  Nth(S, 1) <= y
  <2> DEFINE r == Rank(S, y)
             x == Nth(S, 1)
  <2>1. r \in 1 .. m /\ Nth(S, r) = y /\ x \in Int /\ y \in Int
    BY <1>1, <1>2, <1>3, <1>4
  <2> HIDE DEF r
  <2>2. r = 1 \/ 1 < r
    BY <2>1
  <2>3. x = y \/ x < y
    BY <1>1, <1>4, <2>1, <2>2
  <2> HIDE DEF x
  <2>4. x <= y
    BY <2>1, <2>3
  <2> QED
    BY <2>4 DEF x
<1> QED
  BY <1>1, <1>4, <1>5

\* Changes further apart are of two regions.
Gap == 2 * CONTEXT_LINES + 1

\* The distance within which regions are merged is two contexts and one.
LEMMA GapIsNat == CONTEXT_LINES \in Nat /\ Gap \in Nat /\ Gap = (CONTEXT_LINES + CONTEXT_LINES) + 1
BY DiffAssumption DEF Gap

\* The regions are in order, more than two contexts apart, and hold every change.
RegionsFit(ops) ==
    LET region == Regions(ops) IN
    /\ \E m \in Nat : DOMAIN region = 1 .. m
    /\ \A r \in DOMAIN region : /\ region[r].first \in 1 .. Len(ops)
                                /\ region[r].last \in 1 .. Len(ops)
                                /\ region[r].first <= region[r].last
    /\ \A q, r \in DOMAIN region : q < r => region[q].last + Gap < region[r].first
    /\ \A i \in Changed(ops) : \E r \in DOMAIN region : region[r].first <= i /\ i <= region[r].last

\* groupIntoHunks() merges all changes that are close, and loses none.
LEMMA RegionsAreApart ==
  ASSUME NEW ops, Len(ops) \in Nat, DOMAIN ops = 1 .. Len(ops)
  PROVE  RegionsFit(ops)
<1> DEFINE n == Len(ops)
           A == Changed(ops)
           F == Firsts(ops)
           L == Lasts(ops)
           R == Regions(ops)
           m == Cardinality(F)
           After1(f) == {l \in L : f <= l}
<1>1. A \subseteq 1 .. n /\ F \subseteq A /\ L \subseteq A
  BY DEF Changed, Firsts, Lasts
<1>2. \A i \in A : i \in Int
  BY <1>1
<1>3. \A i \in A : i \in F <=> \A d \in A : d < i => d + Gap < i
  <2>1. \A i, d \in A : Merged(i - d) <=> ~ (d + Gap < i)
    BY <1>2, GapIsNat DEF Merged, Gap
  <2> HIDE DEF A
  <2> QED
    BY <2>1 DEF Firsts, A
<1>4. \A i \in A : i \in L <=> \A d \in A : i < d => i + Gap < d
  <2>1. \A i, d \in A : Merged(d - i) <=> ~ (i + Gap < d)
    BY <1>2, GapIsNat DEF Merged, Gap
  <2> HIDE DEF A
  <2> QED
    BY <2>1 DEF Lasts, A
<1>5. DOMAIN R = 1 .. m /\ \A r \in 1 .. m : R[r].first = Nth(F, r) /\ R[r].last = Nth(After1(Nth(F, r)), 1)
  BY DEF Regions
<1> HIDE DEF n, A, F, L, R
<1>6. ASSUME NEW S, S \subseteq A
      PROVE  Places(S)
  <2>1. S \subseteq 1 .. n /\ n \in Nat
    BY <1>1, <1>6 DEF n
  <2> QED
    BY <2>1, PlacesOfASequence
<1>7. Places(F)
  BY <1>1, <1>6
<1>8. /\ \A r \in 1 .. m : Nth(F, r) \in F
      /\ \A x \in F : Rank(F, x) \in 1 .. m /\ Nth(F, Rank(F, x)) = x
      /\ \A q, r \in 1 .. m : q < r => Nth(F, q) < Nth(F, r)
      /\ m \in Nat
  BY <1>7, NthListsPlaces, RankGrows, SomePlaces
<1> HIDE DEF m
<1>9. ASSUME NEW f \in F
      PROVE  After1(f) # {}
  <2>1. f \in A
    BY <1>1
  <2>2. PICK z \in A : \A y \in A : y <= z
    BY <1>6, <2>1, HasLast
  <2>3. z \in L
    <3>1. \A d \in A : ~ (z < d)
      BY <1>2, <2>2
    <3> QED
      BY <1>4, <3>1
  <2>4. f <= z
    BY <2>1, <2>2
  <2> QED
    BY <2>3, <2>4
<1>10. ASSUME NEW r \in 1 .. m
       PROVE  /\ R[r].first \in F /\ R[r].last \in L /\ R[r].first <= R[r].last
              /\ \A y \in L : R[r].first <= y => R[r].last <= y
              /\ R[r].first \in A /\ R[r].last \in A
  <2> DEFINE f == Nth(F, r)
             S == After1(f)
  <2>1. f \in F /\ R[r].first = f /\ R[r].last = Nth(S, 1)
    BY <1>5, <1>8
  <2>2. S \subseteq A
    BY <1>1
  <2>3. S # {}
    <3> HIDE DEF f
    <3> QED
      BY <1>9, <2>1
  <2>4. \A x : x \in S <=> x \in L /\ f <= x
    OBVIOUS
  <2> HIDE DEF f, S
  <2>5. Nth(S, 1) \in S /\ \A y \in S : Nth(S, 1) <= y
    BY <1>6, <2>2, <2>3, LeastPlace
  <2> QED
    BY <1>1, <2>1, <2>4, <2>5
<1>11. ASSUME NEW q \in 1 .. m, NEW r \in 1 .. m, q < r
       PROVE  R[q].last + Gap < R[r].first
  <2> DEFINE f == R[q].first
             l == R[q].last
             g == R[r].first
             D == {d \in A : d < g}
  <2>1. f < g
    BY <1>5, <1>8, <1>11
  <2>2. /\ f \in A /\ l \in A /\ g \in A /\ g \in F /\ l \in L
        /\ \A y \in L : f <= y => l <= y
    BY <1>10
  <2> HIDE DEF f, l, g
  <2>3. f \in D /\ D \subseteq A
    BY <2>1, <2>2
  <2>4. Places(D)
    BY <1>6, <2>3
  <2>5. PICK z \in D : \A y \in D : y <= z
    BY <2>3, <2>4, HasLast
  <2>6. z \in A /\ z < g /\ f <= z /\ z + Gap < g
    BY <1>3, <2>2, <2>3, <2>5
  <2>7. \A d \in A : z < d => z + Gap < d
    <3>1. ASSUME NEW d \in A, z < d
          PROVE  z + Gap < d
      <4>1. ~ (d < g)
        <5>1. d \in D => d <= z
          BY <2>5
        <5> QED
          BY <1>2, <2>6, <3>1, <5>1
      <4> QED
        BY <1>2, <2>2, <2>6, <4>1, GapIsNat
    <3> QED
      BY <3>1
  <2>8. z \in L
    BY <1>4, <2>6, <2>7
  <2>9. l <= z
    BY <2>2, <2>6, <2>8
  <2>10. l < g
    BY <1>2, <2>2, <2>6, <2>9
  <2>11. l + Gap < g
    BY <1>3, <2>2, <2>10
  <2> QED
    BY <2>11 DEF l, g
<1>12. ASSUME NEW i \in A
       PROVE  \E r \in 1 .. m : R[r].first <= i /\ i <= R[r].last
  <2> DEFINE S == {f \in F : f <= i}
             z == Nth(A, 1)
  <2>1. z \in A /\ \A y \in A : z <= y
    BY <1>6, LeastPlace
  <2>2. z \in F
    <3>1. \A d \in A : ~ (d < z)
      BY <1>2, <2>1
    <3> QED
      BY <1>3, <2>1, <3>1
  <2>3. z \in S /\ S \subseteq F /\ S \subseteq A
    BY <1>1, <2>1, <2>2
  <2> HIDE DEF z
  <2>4. PICK f \in S : \A y \in S : y <= f
    <3>1. Places(S) /\ S # {}
      BY <1>6, <2>3
    <3> HIDE DEF S
    <3> QED
      BY <3>1, HasLast
  <2> DEFINE r == Rank(F, f)
             l == R[r].last
  <2>5. f \in F /\ f <= i /\ f \in A
    BY <2>3, <2>4
  <2>6. r \in 1 .. m /\ R[r].first = f
    BY <1>5, <1>8, <2>5
  <2>7. l \in L /\ l \in A /\ f <= l
    BY <1>10, <2>6
  <2> HIDE DEF l
  <2>8. i <= l
    <3> SUFFICES ASSUME l < i
                 PROVE  FALSE
      BY <1>2, <2>7
    <3> DEFINE D == {d \in A : l < d}
               e == Nth(D, 1)
    <3>1. i \in D /\ D \subseteq A
      OBVIOUS
    <3>2. Places(D)
      BY <1>6, <3>1
    <3>3. \A y : y \in D <=> y \in A /\ l < y
      OBVIOUS
    <3> HIDE DEF D
    <3>4. e \in D /\ \A y \in D : e <= y
      BY <3>1, <3>2, LeastPlace
    <3> HIDE DEF e
    <3>5. e \in A /\ l < e /\ e <= i /\ l + Gap < e
      BY <1>4, <2>7, <3>1, <3>3, <3>4
    <3>6. \A d \in A : d < e => d + Gap < e
      <4>1. ASSUME NEW d \in A, d < e
            PROVE  d + Gap < e
        <5>1. ~ (l < d)
          BY <1>2, <3>3, <3>4, <3>5, <4>1
        <5> QED
          BY <1>2, <2>7, <3>5, <5>1, GapIsNat
      <4> QED
        BY <4>1
    <3>7. e \in F
      BY <1>3, <3>5, <3>6
    <3>8. e \in S
      BY <3>5, <3>7
    <3> HIDE DEF S
    <3>9. e <= f
      BY <2>4, <3>8
    <3> QED
      BY <1>2, <2>5, <2>7, <3>5, <3>9
  <2> QED
    BY <2>5, <2>6, <2>8 DEF l
<1>13. \A r \in 1 .. m : R[r].first \in 1 .. n /\ R[r].last \in 1 .. n /\ R[r].first <= R[r].last
  BY <1>1, <1>10
<1> QED
  BY <1>5, <1>8, <1>11, <1>12, <1>13 DEF RegionsFit, A, R, n

-----------------------------------------------------------------------------
(* Parts of what is shown *)

\* What is shown of a longer part is what is shown of a shorter one, and the rest.
Joined(c, D, s, e) == Picked(c, Upto(D, e)) = Picked(c, Upto(D, s)) \o Picked(c, Upto(Beyond(D, s), e))

\* What is shown up to e is what is shown up to s, and then beyond it.
LEMMA PickedJoin ==
  ASSUME NEW V, NEW n \in Nat, NEW D, D \subseteq 1 .. n, NEW c, \A x \in D : c[x] \in V,
         NEW s \in 0 .. n, NEW e \in s .. n
  PROVE  Joined(c, D, s, e)
<1> DEFINE B == Beyond(D, s)
           Joins(k) == Picked(c, Upto(D, k)) = Picked(c, Upto(D, s)) \o Picked(c, Upto(B, k))
           Good == {d \in Nat : s + d <= n => Joins(s + d)}
<1>0. s \in Nat /\ s \in Int
  OBVIOUS
<1>1. s \in Nat /\ B \subseteq 1 .. n /\ \A x \in B : c[x] \in V
  <2>1. B \subseteq D
    BY DEF Beyond
  <2> HIDE DEF B
  <2> QED
    BY <1>0, <2>1
<1>2. Picked(c, Upto(D, s)) \in Seq(V)
  <2>1. Places(Upto(D, s)) /\ Upto(D, s) \subseteq D
    BY <1>0, PlacesOfASequence
  <2> QED
    BY <2>1, PickedIsSeq
<1>3. Joins(s)
  <2>1. Upto(B, s) = {}
    <3>1. \A x \in D : s < x => ~(x <= s)
      OBVIOUS
    <3> QED
      BY <3>1 DEF Upto, Beyond
  <2>2. Picked(c, Upto(B, s)) = << >>
    BY <2>1, PickedNone
  <2> QED
    BY <1>2, <2>2, ConcatEmptySeq
<1>4. ASSUME NEW k \in s .. n - 1, Joins(k)
      PROVE  Joins(k + 1)
  <2>1. k \in 0 .. n - 1 /\ s < k + 1
    OBVIOUS
  <2>2. k + 1 \in B <=> k + 1 \in D
    BY <2>1 DEF Beyond
  <2> HIDE DEF B
  <2>3. Stepwise(V, D, c, k) /\ Stepwise(V, B, c, k)
    BY <1>1, <2>1, PickedStep
  <2>4. CASE k + 1 \in D
    <3> DEFINE v == c[k + 1]
               x == Picked(c, Upto(D, s))
               y == Picked(c, Upto(B, k))
    <3>1. v \in V /\ x \in Seq(V) /\ y \in Seq(V)
      BY <1>2, <2>3, <2>4 DEF Stepwise
    <3>2. Picked(c, Upto(D, k + 1)) = Append(Picked(c, Upto(D, k)), v) /\ Picked(c, Upto(B, k + 1)) = Append(y, v)
      BY <2>2, <2>3, <2>4 DEF Stepwise
    <3>3. Picked(c, Upto(D, k)) = x \o y
      BY <1>4
    <3> HIDE DEF v, x, y
    <3>4. Append(x \o y, v) = x \o Append(y, v)
      <4>1. x \o y \in Seq(V) /\ <<v>> \in Seq(V)
        BY <3>1, ConcatProperties
      <4>2. Append(x \o y, v) = (x \o y) \o <<v>> /\ Append(y, v) = y \o <<v>>
        BY <3>1, <4>1, AppendIsConcat
      <4> QED
        BY <3>1, <4>1, <4>2, ConcatAssociative
    <3> QED
      BY <3>2, <3>3, <3>4 DEF x
  <2>5. CASE k + 1 \notin D
    BY <1>4, <2>2, <2>3, <2>5 DEF Stepwise
  <2> QED
    BY <2>4, <2>5
<1> HIDE DEF Joins
<1>5. 0 \in Good
  <2>1. s + 0 = s
    OBVIOUS
  <2> QED
    BY <1>3, <2>1
<1>6. ASSUME NEW d \in Nat, d \in Good
      PROVE  d + 1 \in Good
  <2> SUFFICES ASSUME s + (d + 1) <= n
               PROVE  Joins(s + (d + 1))
    OBVIOUS
  <2>1. s + d \in s .. n - 1 /\ s + (d + 1) = (s + d) + 1 /\ s + d <= n
    BY <1>1
  <2>2. Joins(s + d)
    BY <1>6, <2>1
  <2> QED
    BY <1>4, <2>1, <2>2
<1> HIDE DEF Good
<1>7. \A d \in Nat : d \in Good
  BY <1>5, <1>6, Induction
<1>8. e - s \in Nat /\ s + (e - s) = e /\ e <= n
  BY <1>1
<1>9. Joins(e)
  BY <1>7, <1>8 DEF Good
<1> QED
  BY <1>9 DEF Joins, B, Joined

\* What is shown of a part where D and K have the same places.
Rest(c, D, K, s, e) == Picked(c, Upto(D, e)) = Picked(c, Upto(D, s)) \o Picked(c, Upto(Beyond(K, s), e))

\* Where two choices agree, the lines shown of either are the same.
LEMMA PartShown ==
  ASSUME NEW V, NEW n \in Nat, NEW D, D \subseteq 1 .. n, NEW c, \A x \in 1 .. n : c[x] \in V,
         NEW s \in 0 .. n, NEW e \in s .. n, NEW K, K \subseteq 1 .. n,
         \A x \in 1 .. n : s < x /\ x <= e => (x \in D <=> x \in K)
  PROVE  Rest(c, D, K, s, e)
<1>1. Upto(Beyond(D, s), e) = Upto(Beyond(K, s), e)
  <2>1. \A x : x \in Upto(Beyond(D, s), e) <=> x \in D /\ x \in 1 .. n /\ s < x /\ x <= e
    BY DEF Upto, Beyond
  <2>2. \A x : x \in Upto(Beyond(K, s), e) <=> x \in K /\ x \in 1 .. n /\ s < x /\ x <= e
    BY DEF Upto, Beyond
  <2>3. \A x : x \in Upto(Beyond(D, s), e) <=> x \in Upto(Beyond(K, s), e)
    BY <2>1, <2>2
  <2> QED
    BY <2>3
<1>2. \A x \in D : c[x] \in V
  OBVIOUS
<1>3. Joined(c, D, s, e)
  BY <1>2, PickedJoin
<1> QED
  BY <1>1, <1>3 DEF Joined, Rest

\* Places counted from o on show what they do in the whole.
Moved(s, D, c, P, o, e) == Picked(s, D) = Picked(c, Upto(Beyond(P, o), e))

\* What is picked of a part, counted from its start, is what the whole shows there.
LEMMA PickedShifted ==
  ASSUME NEW V, NEW n \in Nat, NEW L \in Nat, NEW o \in Nat, NEW e, e = o + L, e <= n,
         NEW D, D \subseteq 1 .. L, NEW P, P \subseteq 1 .. n,
         \A k \in 1 .. L : k \in D <=> k + o \in P,
         NEW s, NEW c, \A k \in D : s[k] = c[k + o], \A x \in P : c[x] \in V
  PROVE  Moved(s, D, c, P, o, e)
<1> DEFINE B == Beyond(P, o)
           Same(k) == Picked(s, Upto(D, k)) = Picked(c, Upto(B, o + k))
           Good == {k \in Nat : k <= L => Same(k)}
<1>1. B \subseteq 1 .. n /\ \A x \in B : c[x] \in V
  BY DEF Beyond
<1>2. \A k \in D : s[k] \in V
  OBVIOUS
<1>3. Same(0)
  <2>1. Upto(B, o) = {}
    <3>1. \A x \in P : o < x => ~(x <= o)
      OBVIOUS
    <3> QED
      BY <3>1 DEF Upto, Beyond
  <2>2. Upto(D, 0) = {}
    BY PlacesOfASequence
  <2>3. o + 0 = o
    OBVIOUS
  <2> QED
    BY <2>1, <2>2, <2>3, PickedNone
<1>4. ASSUME NEW k \in 0 .. L - 1, Same(k)
      PROVE  Same(k + 1)
  <2> DEFINE j == o + k
             l == k + 1
             m == j + 1
  <2>1. j \in 0 .. n - 1 /\ l \in 1 .. L /\ l + o = m /\ o + l = m /\ o < m
    OBVIOUS
  <2>2. l \in D <=> m \in B
    <3> HIDE DEF l, m, j
    <3> QED
      BY <2>1 DEF Beyond
  <2>3. l \in D => s[l] = c[m]
    <3> HIDE DEF l, m, j
    <3> QED
      BY <2>1
  <2> HIDE DEF B, j
  <2>4. Stepwise(V, D, s, k) /\ Stepwise(V, B, c, j)
    BY <1>1, <1>2, <2>1, PickedStep
  <2>5. /\ l \in D => Picked(s, Upto(D, l)) = Append(Picked(s, Upto(D, k)), s[l])
        /\ l \notin D => Upto(D, l) = Upto(D, k)
        /\ m \in B => Picked(c, Upto(B, m)) = Append(Picked(c, Upto(B, j)), c[m])
        /\ m \notin B => Upto(B, m) = Upto(B, j)
    BY <2>4 DEF Stepwise
  <2>6. Picked(s, Upto(D, k)) = Picked(c, Upto(B, j))
    BY <1>4 DEF j
  <2>7. o + (k + 1) = m
    BY <2>1
  <2> HIDE DEF m
  <2>8. Picked(s, Upto(D, l)) = Picked(c, Upto(B, m))
    <3> HIDE DEF l
    <3> QED
      BY <2>2, <2>3, <2>5, <2>6
  <2> QED
    BY <2>7, <2>8
<1> HIDE DEF Same
<1>5. ASSUME NEW k \in Nat, k \in Good
      PROVE  k + 1 \in Good
  <2>1. k + 1 <= L => k \in 0 .. L - 1 /\ k <= L
    OBVIOUS
  <2> QED
    BY <1>4, <1>5, <2>1
<1>6. 0 \in Good
  BY <1>3
<1> HIDE DEF Good
<1>7. L \in Good
  BY <1>5, <1>6, Induction
<1>8. Upto(D, L) = D
  BY PlacesOfASequence
<1> QED
  BY <1>7, <1>8 DEF Good, Same, B, Moved

\* The lines of a hunk without those of one kind.
Others(ops, kind) == {k \in DOMAIN ops : ops[k].type # kind}

\* L lines from the o-th on.
Cut(lines, ops, c, o, L) == lines = [i \in 1 .. L |-> [type |-> ops[i + o].type, content |-> c[i + o]]]

\* The lines without those of a kind are what the places in P show from o to e.
LinesShow(lines, kind, c, P, o, e) ==
    /\ ContentOf(Without(lines, kind)) = Picked(c, Upto(Beyond(P, o), e))
    /\ Len(Without(lines, kind)) = Len(Picked(c, Upto(Beyond(P, o), e)))

\* The lines of a hunk without those of one kind show the part of the edit it covers.
LEMMA LinesWithout ==
  ASSUME NEW V, NEW ops, NEW n \in Nat, DOMAIN ops = 1 .. n,
         NEW c, \A x \in 1 .. n : c[x] \in V,
         NEW o \in Nat, NEW L \in Nat, NEW e, e = o + L, e <= n,
         NEW lines, Cut(lines, ops, c, o, L), NEW kind
  PROVE  LinesShow(lines, kind, c, Others(ops, kind), o, e)
<1> DEFINE P == Others(ops, kind)
           D == {i \in DOMAIN lines : lines[i].type # kind}
           s == [i \in 1 .. L |-> c[i + o]]
           w == Without(lines, kind)
<1>1. DOMAIN lines = 1 .. L /\ D \subseteq 1 .. L /\ P \subseteq 1 .. n
  BY DEF Cut, Others
<1>2. \A k \in 1 .. L : k + o \in 1 .. n
  OBVIOUS
<1>3. \A k \in 1 .. L : lines[k].type = ops[k + o].type /\ lines[k].content = s[k] /\ s[k] = c[k + o]
  BY DEF Cut
<1>4. \A k \in 1 .. L : k \in D <=> k + o \in P
  <2>1. \A x \in 1 .. n : x \in P <=> ops[x].type # kind
    BY DEF Others
  <2>2. \A k \in 1 .. L : k \in D <=> ops[k + o].type # kind
    BY <1>1, <1>3
  <2> HIDE DEF D
  <2> QED
    BY <1>2, <2>1, <2>2
<1>5. w = Picked(lines, D)
  BY DEF Without
<1> HIDE DEF D, s, w, P
<1>6. \A x \in P : c[x] \in V
  BY <1>1
<1>7. \A k \in D : s[k] = c[k + o] /\ lines[k].content = s[k] /\ s[k] \in V
  BY <1>1, <1>2, <1>3
<1>8. Picked(s, D) = Picked(c, Upto(Beyond(P, o), e))
  <2>1. \A k \in D : s[k] = c[k + o]
    BY <1>7
  <2>2. Moved(s, D, c, P, o, e)
    BY <1>1, <1>4, <1>6, <2>1, PickedShifted
  <2> QED
    BY <2>2 DEF Moved
<1>9. Places(D)
  BY <1>1, PlacesOfASequence
<1>10. Len(Picked(s, D)) = Cardinality(D) /\ Cardinality(D) \in Nat
  BY <1>7, <1>9, PickedIsSeq
<1>11. \A r \in 1 .. Cardinality(D) : Nth(D, r) \in D
  BY <1>9, NthListsPlaces
<1>12. w = [r \in 1 .. Cardinality(D) |-> lines[Nth(D, r)]]
  BY <1>5 DEF Picked
<1>13. Len(w) = Cardinality(D)
  <2> DEFINE W == {lines[i] : i \in D}
  <2>1. w \in [1 .. Cardinality(D) -> W]
    BY <1>11, <1>12
  <2> HIDE DEF W
  <2> QED
    BY <1>10, <2>1, SeqOfFunction
<1>14. ContentOf(w) = Picked(s, D)
  <2>1. ContentOf(w) = [r \in 1 .. Cardinality(D) |-> lines[Nth(D, r)].content]
    BY <1>12 DEF ContentOf
  <2>2. \A r \in 1 .. Cardinality(D) : lines[Nth(D, r)].content = s[Nth(D, r)]
    BY <1>7, <1>11
  <2> QED
    BY <2>1, <2>2 DEF Picked
<1> QED
  BY <1>8, <1>10, <1>13, <1>14 DEF w, P, LinesShow

-----------------------------------------------------------------------------
(* Applying the hunks that were accepted *)

\* Lines of the old text before each operation.
OldAt(ops, a, b) == OldPos(ops, <<Len(a), Len(b)>>)

\* What is known of an edit, with the lines of its texts in V.
Follows(ops, a, b, V) ==
    LET n == Len(ops)
        c == Content(ops, a, b)
        pos == OldAt(ops, a, b)
    IN  /\ n \in Nat /\ DOMAIN ops = 1 .. n
        /\ \A k \in 1 .. n : ops[k].type \in {"equal", "insert", "delete"}
        /\ \A k \in 1 .. n : c[k] \in V
        /\ \A k \in 1 .. n : ops[k].old = pos[k - 1]
        /\ pos \in [0 .. n -> Nat] /\ pos[0] = 0 /\ pos[n] = Len(a)
        /\ \A s \in 0 .. n : Reads(OldPlaces(ops), n, pos, c, a, s)

\* An edit of the one text into the other runs through the old text in order.
LEMMA EditFollows ==
  ASSUME NEW V, NEW a \in Seq(V), NEW b \in Seq(V), NEW ops,
         Path(ops, <<0, 0>>, <<Len(a), Len(b)>>, a, b)
  PROVE  Follows(ops, a, b, V)
<1> DEFINE q == <<Len(a), Len(b)>>
           p == <<0, 0>>
           n == Len(ops)
           c == Content(ops, a, b)
           pos == OldPos(ops, q)
           K == OldPlaces(ops)
<1>0. Len(a) \in Nat /\ Len(b) \in Nat
  BY LenProperties
<1>1. q \in Nat \X Nat
  BY <1>0
<1>2. Path(ops, p, q, a, b)
  OBVIOUS
<1>3. p[1] = 0 /\ q[1] = Len(a)
  OBVIOUS
<1> HIDE DEF p, q
<1>4. /\ n \in Nat /\ DOMAIN ops = 1 .. n
      /\ pos \in [0 .. n -> Nat]
      /\ K \subseteq 1 .. n
      /\ Runs(K, n, pos, c, a)
  BY <1>1, <1>2, PathRuns
<1>5. ops \in Seq(Ops)
  BY <1>2 DEF Path
<1>6. ASSUME NEW k \in 1 .. n
      PROVE  /\ ops[k] \in Ops /\ Fits(ops[k], a, b)
             /\ ops[k].type \in {"equal", "insert", "delete"}
  <2>1. ops[k] \in Ops
    BY <1>5, ElementOfSeq
  <2>2. Fits(ops[k], a, b)
    BY <1>2 DEF Path
  <2>3. ops[k].type \in {"equal", "insert", "delete"}
    BY <2>1 DEF Ops
  <2> QED
    BY <2>1, <2>2, <2>3
<1>7. ASSUME NEW k \in 1 .. n
      PROVE  c[k] \in V
  <2>1. c[k] = IF ops[k].type = "insert" THEN b[ops[k].new + 1] ELSE a[ops[k].old + 1]
    BY <1>4 DEF Content
  <2>2. CASE ops[k].type = "insert"
    <3>1. ops[k].new + 1 \in 1 .. Len(b)
      BY <1>6, <2>2 DEF Fits
    <3> QED
      BY <2>1, <2>2, <3>1, ElementOfSeq
  <2>3. CASE ops[k].type # "insert"
    <3>1. ops[k].old + 1 \in 1 .. Len(a)
      BY <1>6, <2>3 DEF Fits
    <3> QED
      BY <2>1, <2>3, <3>1, ElementOfSeq
  <2> QED
    BY <2>2, <2>3
<1>8. ASSUME NEW k \in 1 .. n
      PROVE  ops[k].old = pos[k - 1]
  <2>1. k - 1 \in 0 .. n /\ (k - 1) + 1 = k /\ k <= n
    BY <1>4
  <2>2. pos[k - 1] = Point(ops, (k - 1) + 1, q)[1]
    BY <2>1 DEF OldPos
  <2>3. Point(ops, k, q) = At(ops[k])
    BY <2>1 DEF Point
  <2> QED
    BY <2>1, <2>2, <2>3 DEF At
<1>9. 0 \in 0 .. n /\ n \in 0 .. n /\ ~ (n + 1 <= n) /\ 0 + 1 = 1
  BY <1>4
<1>10. pos[0] = 0 /\ pos[n] = Len(a)
  <2>1. Point(ops, 1, q) = p
    BY <1>2 DEF Path
  <2>2. Point(ops, n + 1, q) = q
    BY <1>9 DEF Point
  <2> QED
    BY <1>3, <1>9, <2>1, <2>2 DEF OldPos
<1> HIDE DEF n, c, pos, K
<1>11. Reads(K, n, pos, c, a, 0)
  <2>1. pos[0] <= Len(a)
    BY <1>0, <1>10
  <2> QED
    BY <1>4, <1>9, <2>1, PickedRun
<1>12. ASSUME NEW s \in 0 .. n
       PROVE  Reads(K, n, pos, c, a, s)
  <2>1. pos[s] <= Len(a)
    BY <1>11 DEF Reads
  <2> QED
    BY <1>4, <2>1, PickedRun
<1> QED
  BY <1>4, <1>6, <1>7, <1>8, <1>10, <1>12 DEF Follows, OldAt, n, c, pos, K, q

\* A part without changes shows lines of the old text.
ShowsOld(ops, a, b, D, s, e) ==
    Picked(Content(ops, a, b), Upto(D, e)) =
       Picked(Content(ops, a, b), Upto(D, s))
          \o SubSeq(a, OldAt(ops, a, b)[s] + 1, OldAt(ops, a, b)[e])

\* Where no change is made, the old text is shown.
LEMMA OldPart ==
  ASSUME NEW V, NEW a \in Seq(V), NEW b, NEW ops, Follows(ops, a, b, V),
         NEW D, D \subseteq 1 .. Len(ops), NEW s \in 0 .. Len(ops), NEW e \in s .. Len(ops),
         \A x \in 1 .. Len(ops) : s < x /\ x <= e => (x \in D <=> x \in OldPlaces(ops))
  PROVE  ShowsOld(ops, a, b, D, s, e)
<1> DEFINE n == Len(ops)
           c == Content(ops, a, b)
           pos == OldAt(ops, a, b)
           K == OldPlaces(ops)
<1>1. /\ n \in Nat /\ \A k \in 1 .. n : c[k] \in V
      /\ Reads(K, n, pos, c, a, s)
      /\ K \subseteq 1 .. n
  BY DEF Follows, OldPlaces
<1>2. D \subseteq 1 .. n /\ s \in 0 .. n /\ e \in s .. n
  OBVIOUS
<1>3. \A x \in 1 .. n : s < x /\ x <= e => (x \in D <=> x \in K)
  OBVIOUS
<1> HIDE DEF n, c, pos, K
<1>4. Picked(c, Upto(D, e)) = Picked(c, Upto(D, s)) \o Picked(c, Upto(Beyond(K, s), e))
  <2>1. Rest(c, D, K, s, e)
    BY <1>1, <1>2, <1>3, PartShown
  <2> QED
    BY <2>1 DEF Rest
<1>5. Picked(c, Upto(Beyond(K, s), e)) = SubSeq(a, pos[s] + 1, pos[e])
  BY <1>1, <1>2 DEF Reads
<1> QED
  BY <1>4, <1>5 DEF c, pos, ShowsOld

\* Where applySelectedHunks() is after the first k operations.
Reached(ops, a, b, D, k) ==
    [at |-> OldAt(ops, a, b)[k], result |-> Picked(Content(ops, a, b), Upto(D, k))]

\* The round for a hunk takes applySelectedHunks() from s to the end of its region.
AddsRegion(ops, a, b, D, s, hunk, region) ==
    AddHunk(Reached(ops, a, b, D, s), hunk, a) = Reached(ops, a, b, D, End(region, ops))

\* One round of the loop of applySelectedHunks() adds the old lines before the hunk,
\* and then the hunk's new lines when it is accepted and its old ones when not.
LEMMA HunkAdded ==
  ASSUME NEW V, NEW a \in Seq(V), NEW b, NEW ops, Follows(ops, a, b, V),
         NEW region, Start(region) \in 1 .. Len(ops), End(region, ops) \in 1 .. Len(ops),
         Start(region) <= End(region, ops),
         NEW D, D \subseteq 1 .. Len(ops), NEW s \in 0 .. Len(ops), s < Start(region),
         NEW hunk, hunk.oldStart = ops[Start(region)].old,
         hunk.lines = HunkLines(ops, Content(ops, a, b), region),
         \A x \in 1 .. Len(ops) : s < x /\ x < Start(region) => (x \in D <=> x \in OldPlaces(ops)),
         \A x \in 1 .. Len(ops) : Start(region) <= x /\ x <= End(region, ops) =>
            IF hunk.status = "accepted" THEN x \in D <=> x \in NewPlaces(ops)
            ELSE x \in D <=> x \in OldPlaces(ops)
  PROVE  AddsRegion(ops, a, b, D, s, hunk, region)
<1> DEFINE n == Len(ops)
           c == Content(ops, a, b)
           pos == OldAt(ops, a, b)
           o == Start(region) - 1
           e == End(region, ops)
           K == OldPlaces(ops)
           P == NewPlaces(ops)
           L == e - o
           lines == HunkLines(ops, c, region)
           done == Reached(ops, a, b, D, s)
<1>1. /\ n \in Nat /\ DOMAIN ops = 1 .. n /\ Len(a) \in Nat
      /\ \A k \in 1 .. n : c[k] \in V
      /\ \A k \in 1 .. n : ops[k].old = pos[k - 1]
      /\ pos \in [0 .. n -> Nat]
      /\ \A k \in 0 .. n : Reads(K, n, pos, c, a, k)
      /\ K \subseteq 1 .. n /\ P \subseteq 1 .. n
  BY LenProperties DEF Follows, OldPlaces, NewPlaces
<1>2. /\ o \in 0 .. n /\ e \in 0 .. n /\ s \in 0 .. n /\ s <= o /\ o < e /\ o + 1 \in 1 .. n
      /\ Start(region) = o + 1 /\ (o + 1) - 1 = o /\ L \in Nat /\ o \in Nat /\ e = o + L /\ e <= n
      /\ o \in s .. n /\ e \in o .. n
  <2> DEFINE f == Start(region)
  <2>1. f \in 1 .. n /\ e \in 1 .. n /\ f <= e /\ s < f /\ s \in 0 .. n
    OBVIOUS
  <2> HIDE DEF f, e, n
  <2>2. f - 1 \in 0 .. n /\ e \in 0 .. n /\ s <= f - 1 /\ f - 1 < e /\ f = (f - 1) + 1
        /\ ((f - 1) + 1) - 1 = f - 1 /\ e - (f - 1) \in Nat /\ f - 1 \in Nat /\ e = (f - 1) + (e - (f - 1))
        /\ e <= n /\ f - 1 \in s .. n /\ e \in (f - 1) .. n
    BY <1>1, <2>1
  <2> QED
    BY <2>1, <2>2 DEF f
<1>3. /\ D \subseteq 1 .. n
      /\ \A x \in 1 .. n : s < x /\ x <= o => (x \in D <=> x \in K)
      /\ hunk.status = "accepted" => \A x \in 1 .. n : o < x /\ x <= e => (x \in D <=> x \in P)
      /\ hunk.status # "accepted" => \A x \in 1 .. n : o < x /\ x <= e => (x \in D <=> x \in K)
  <2>1. \A x \in 1 .. n : /\ x <= o => x < Start(region)
                          /\ o < x => Start(region) <= x
    <3>1. n \in Nat /\ o \in Nat /\ Start(region) = o + 1
      BY <1>1, <1>2
    <3> HIDE DEF o, n
    <3> QED
      BY <3>1
  <2> QED
    BY <2>1
<1>4. Cut(lines, ops, c, o, L)
  BY DEF HunkLines, Cut
<1>5. K = Others(ops, "insert") /\ P = Others(ops, "delete")
  BY DEF OldPlaces, NewPlaces, Others
<1>6. done.at = pos[s] /\ done.result = Picked(c, Upto(D, s))
  BY DEF Reached
<1>7. Picked(c, Upto(D, o)) = Picked(c, Upto(D, s)) \o SubSeq(a, pos[s] + 1, pos[o])
  <2>1. ShowsOld(ops, a, b, D, s, o)
    <3> HIDE DEF o
    <3> QED
      BY <1>2, <1>3, OldPart
  <2> QED
    BY <2>1 DEF ShowsOld
<1>8. hunk.status # "accepted" =>
         Picked(c, Upto(D, e)) = Picked(c, Upto(D, o)) \o SubSeq(a, pos[o] + 1, pos[e])
  <2>1. hunk.status # "accepted" => ShowsOld(ops, a, b, D, o, e)
    <3> HIDE DEF o, e
    <3> QED
      BY <1>2, <1>3, OldPart
  <2> QED
    BY <2>1 DEF ShowsOld
<1>9. hunk.oldStart = pos[o] /\ hunk.lines = lines
  BY <1>1, <1>2
<1>10. Reached(ops, a, b, D, e) = [at |-> pos[e], result |-> Picked(c, Upto(D, e))]
  BY DEF Reached
<1> HIDE DEF n, c, pos, o, e, K, P, L, lines, done
<1>11. hunk.status = "accepted" =>
          Picked(c, Upto(D, e)) = Picked(c, Upto(D, o)) \o Picked(c, Upto(Beyond(P, o), e))
  <2>1. hunk.status = "accepted" => Rest(c, D, P, o, e)
    BY <1>1, <1>2, <1>3, PartShown
  <2> QED
    BY <2>1 DEF Rest
<1>12. ContentOf(Without(lines, "delete")) = Picked(c, Upto(Beyond(P, o), e))
  <2>1. LinesShow(lines, "delete", c, Others(ops, "delete"), o, e)
    BY <1>1, <1>2, <1>4, LinesWithout
  <2> QED
    BY <1>5, <2>1 DEF LinesShow
<1>13. Len(Without(lines, "insert")) = Len(Picked(c, Upto(Beyond(K, o), e)))
  <2>1. LinesShow(lines, "insert", c, Others(ops, "insert"), o, e)
    BY <1>1, <1>2, <1>4, LinesWithout
  <2> QED
    BY <1>5, <2>1 DEF LinesShow
<1>14. /\ pos[s] \in Nat /\ pos[o] \in Nat /\ pos[e] \in Nat
       /\ pos[s] <= pos[o] /\ pos[o] <= pos[e] /\ pos[e] <= Len(a)
       /\ Picked(c, Upto(Beyond(K, o), e)) = SubSeq(a, pos[o] + 1, pos[e])
  BY <1>1, <1>2 DEF Reads
<1>15. Len(SubSeq(a, pos[o] + 1, pos[e])) = pos[e] - pos[o]
  <2> DEFINE i == pos[o] + 1
             j == pos[e]
  <2>1. i \in Int /\ j \in Int /\ (\A k \in i .. j : k \in 1 .. Len(a))
        /\ j - i + 1 = pos[e] - pos[o] /\ (~ (i <= j) => pos[e] - pos[o] = 0)
    <3> DEFINE x == pos[o]
    <3>1. x \in Nat /\ j \in Nat /\ x <= j /\ j <= Len(a) /\ Len(a) \in Nat
          /\ pos[o] = x /\ pos[e] = j
      BY <1>1, <1>14
    <3> HIDE DEF x, j
    <3> QED
      BY <3>1
  <2>2. \A k \in i .. j : a[k] \in V
    BY <2>1, ElementOfSeq
  <2> HIDE DEF i, j
  <2>3. Len(SubSeq(a, i, j)) = IF i <= j THEN j - i + 1 ELSE 0
    BY <2>1, <2>2, SubSeqProperties
  <2>4. Len(SubSeq(a, i, j)) = pos[e] - pos[o]
    BY <2>1, <2>3
  <2> QED
    BY <2>4 DEF i, j
<1>16. Larger(done.at, hunk.oldStart) = pos[o]
  BY <1>6, <1>9, <1>14 DEF Larger
<1>17. pos[o] + Len(Without(hunk.lines, "insert")) = pos[e]
  <2>1. Len(Without(hunk.lines, "insert")) = pos[e] - pos[o]
    BY <1>9, <1>13, <1>14, <1>15
  <2> QED
    BY <1>14, <2>1
<1>18. done.result \o SubSeq(a, done.at + 1, hunk.oldStart) = Picked(c, Upto(D, o))
  BY <1>6, <1>7, <1>9
<1>19. AddHunk(done, hunk, a) =
          [at |-> pos[e],
           result |-> Picked(c, Upto(D, o)) \o IF hunk.status = "accepted"
                                               THEN ContentOf(Without(hunk.lines, "delete"))
                                               ELSE SubSeq(a, pos[o] + 1, pos[e])]
  BY <1>16, <1>17, <1>18 DEF AddHunk
<1>20. AddHunk(done, hunk, a) = [at |-> pos[e], result |-> Picked(c, Upto(D, e))]
  <2>1. CASE hunk.status = "accepted"
    BY <1>9, <1>11, <1>12, <1>19, <2>1
  <2>2. CASE hunk.status # "accepted"
    BY <1>8, <1>19, <2>2
  <2> QED
    BY <2>1, <2>2
<1> QED
  BY <1>10, <1>20 DEF done, e, AddsRegion

\* The hunks are apart, contexts included, and hold their regions.
LEMMA HunksAreApart ==
  ASSUME NEW ops, Len(ops) \in Nat, RegionsFit(ops)
  PROVE  LET R == Regions(ops) IN
         /\ \A r \in DOMAIN R : /\ Start(R[r]) \in 1 .. Len(ops) /\ End(R[r], ops) \in 1 .. Len(ops)
                                /\ Start(R[r]) <= R[r].first /\ R[r].last <= End(R[r], ops)
                                /\ Start(R[r]) <= End(R[r], ops)
         /\ \A q, r \in DOMAIN R : q < r => End(R[q], ops) < Start(R[r])
<1> DEFINE R == Regions(ops)
           n == Len(ops)
           C == CONTEXT_LINES
<1>1. /\ \A r \in DOMAIN R : R[r].first \in 1 .. n /\ R[r].last \in 1 .. n /\ R[r].first <= R[r].last
      /\ \A q, r \in DOMAIN R : q < r => R[q].last + Gap < R[r].first
  BY DEF RegionsFit
<1>2. C \in Nat /\ Gap = (C + C) + 1 /\ n \in Nat
  BY GapIsNat
<1> HIDE DEF R, n
<1>3. ASSUME NEW r \in DOMAIN R
      PROVE  /\ Start(R[r]) \in 1 .. n /\ End(R[r], ops) \in 1 .. n
             /\ Start(R[r]) <= R[r].first /\ R[r].last <= End(R[r], ops)
             /\ Start(R[r]) <= End(R[r], ops)
             /\ R[r].first - C <= Start(R[r]) /\ End(R[r], ops) <= R[r].last + C
  <2> DEFINE f == R[r].first
             l == R[r].last
             s == Start(R[r])
             e == End(R[r], ops)
  <2>1. f \in 1 .. n /\ l \in 1 .. n /\ f <= l
    BY <1>1
  <2>2. s = (IF 1 < f - C THEN f - C ELSE 1) /\ e = (IF l + C > n THEN n ELSE l + C)
    BY DEF Start, End, Larger, n
  <2> HIDE DEF f, l, s, e
  <2>3. s \in 1 .. n /\ e \in 1 .. n /\ s <= f /\ l <= e /\ s <= e /\ f - C <= s /\ e <= l + C
    BY <1>2, <2>1, <2>2
  <2> QED
    BY <2>3 DEF f, l, s, e
<1>4. ASSUME NEW q \in DOMAIN R, NEW r \in DOMAIN R, q < r
      PROVE  End(R[q], ops) < Start(R[r])
  <2> DEFINE l == R[q].last
             f == R[r].first
             e == End(R[q], ops)
             s == Start(R[r])
  <2>1. l + Gap < f /\ l \in Int /\ f \in Int /\ e \in Int /\ s \in Int /\ e <= l + C /\ f - C <= s
    BY <1>1, <1>3, <1>4
  <2> HIDE DEF l, f, e, s
  <2>2. e < s
    BY <1>2, <2>1
  <2> QED
    BY <2>2 DEF e, s
<1> QED
  BY <1>3, <1>4 DEF R, n

\* The hunks under review, whatever was decided about them.
HunksFit(hs, ops, a, b) ==
    LET R == Regions(ops) IN
    /\ hs = [r \in DOMAIN R |-> hs[r]]
    /\ \A r \in DOMAIN R :
          hs[r] = [oldStart |-> ops[Start(R[r])].old,
                   lines |-> HunkLines(ops, Content(ops, a, b), R[r]),
                   status |-> hs[r].status]

\* A change is in one hunk, and is made when that one is accepted.
LEMMA ChangesAreInHunks ==
  ASSUME NEW V, NEW a, NEW b, NEW ops, Follows(ops, a, b, V), RegionsFit(ops), NEW hs
  PROVE  LET R == Regions(ops)
             D == Kept(ops, Chosen(ops, hs))
         IN  \A x \in 1 .. Len(ops) :
               /\ x \in D <=> (x \in OldPlaces(ops) /\ x \notin Chosen(ops, hs))
                              \/ (x \in NewPlaces(ops) /\ x \in Chosen(ops, hs))
                              \/ x \notin Changed(ops)
               /\ x \notin Changed(ops) => x \in OldPlaces(ops) /\ x \in NewPlaces(ops)
               /\ x \in Changed(ops) => \E q \in DOMAIN R :
                     /\ Start(R[q]) <= x /\ x <= End(R[q], ops)
                     /\ x \in Chosen(ops, hs) <=> hs[q].status = "accepted"
<1> DEFINE R == Regions(ops)
           n == Len(ops)
           D == Kept(ops, Chosen(ops, hs))
           S(r) == Start(R[r])
           E(r) == End(R[r], ops)
<1>1. /\ n \in Nat /\ DOMAIN ops = 1 .. n
      /\ \A x \in 1 .. n : ops[x].type \in {"equal", "insert", "delete"}
  BY DEF Follows
<1>2. /\ \A r \in DOMAIN R : S(r) \in 1 .. n /\ E(r) \in 1 .. n /\ S(r) <= R[r].first /\ R[r].last <= E(r)
      /\ \A q, r \in DOMAIN R : q < r => E(q) < S(r)
  BY <1>1, HunksAreApart
<1>3. /\ \A r \in DOMAIN R : r \in Nat /\ R[r].first \in 1 .. n /\ R[r].last \in 1 .. n
      /\ \A i \in Changed(ops) : \E r \in DOMAIN R : R[r].first <= i /\ i <= R[r].last
  BY DEF RegionsFit
<1>4. \A x \in 1 .. n : /\ x \in Changed(ops) <=> ops[x].type # "equal"
                        /\ x \in OldPlaces(ops) <=> ops[x].type # "insert"
                        /\ x \in NewPlaces(ops) <=> ops[x].type # "delete"
                        /\ x \in D <=> \/ ops[x].type = "equal"
                                       \/ ops[x].type = "insert" /\ x \in Chosen(ops, hs)
                                       \/ ops[x].type = "delete" /\ x \notin Chosen(ops, hs)
                        /\ x \in Chosen(ops, hs) <=>
                              \E r \in DOMAIN R : hs[r].status = "accepted" /\ R[r].first <= x /\ x <= R[r].last
  BY <1>1 DEF Changed, OldPlaces, NewPlaces, Kept, Chosen
<1> HIDE DEF R, n, D, S, E
<1>5. ASSUME NEW x \in 1 .. n, NEW q \in DOMAIN R, NEW r \in DOMAIN R,
             R[q].first <= x, x <= R[q].last, R[r].first <= x, x <= R[r].last
      PROVE  q = r
  <2>1. x \in Int /\ S(q) <= x /\ x <= E(q) /\ S(r) <= x /\ x <= E(r)
    BY <1>1, <1>2, <1>3, <1>5
  <2>2. ~ (E(q) < S(r)) /\ ~ (E(r) < S(q))
    BY <1>2, <2>1
  <2>3. ~ (q < r) /\ ~ (r < q)
    BY <1>2, <2>2
  <2> QED
    BY <1>3, <2>3
<1>6. ASSUME NEW x \in 1 .. n, x \in Changed(ops)
      PROVE  \E q \in DOMAIN R : /\ S(q) <= x /\ x <= E(q)
                                 /\ x \in Chosen(ops, hs) <=> hs[q].status = "accepted"
  <2>1. PICK q \in DOMAIN R : R[q].first <= x /\ x <= R[q].last
    BY <1>3, <1>6
  <2>2. S(q) <= x /\ x <= E(q)
    BY <1>1, <1>2, <1>3, <2>1
  <2>3. x \in Chosen(ops, hs) <=> hs[q].status = "accepted"
    BY <1>4, <1>5, <2>1
  <2> QED
    BY <2>2, <2>3
<1>7. \A x \in 1 .. n :
         /\ x \in D <=> (x \in OldPlaces(ops) /\ x \notin Chosen(ops, hs))
                        \/ (x \in NewPlaces(ops) /\ x \in Chosen(ops, hs))
                        \/ x \notin Changed(ops)
         /\ x \notin Changed(ops) => x \in OldPlaces(ops) /\ x \in NewPlaces(ops)
  BY <1>1, <1>4
<1> QED
  BY <1>6, <1>7 DEF R, n, D, S, E

\* applySelectedHunks() makes the changes of the accepted hunks and no other.
LEMMA HunksApplied ==
  ASSUME NEW V, NEW a \in Seq(V), NEW b, NEW ops, Follows(ops, a, b, V), RegionsFit(ops),
         NEW hs, HunksFit(hs, ops, a, b)
  PROVE  ApplySelectedHunks(a, hs) = Picked(Content(ops, a, b), Kept(ops, Chosen(ops, hs)))
<1> DEFINE R == Regions(ops)
           n == Len(ops)
           c == Content(ops, a, b)
           D == Kept(ops, Chosen(ops, hs))
           S(r) == Start(R[r])
           E(r) == End(R[r], ops)
           K == OldPlaces(ops)
           P == NewPlaces(ops)
           A == Changed(ops)
           X == Chosen(ops, hs)
<1>1. n \in Nat /\ DOMAIN ops = 1 .. n /\ D \subseteq 1 .. n
  BY DEF Follows, Kept
<1>2. PICK m \in Nat : DOMAIN R = 1 .. m
  BY DEF RegionsFit
<1>3. /\ \A r \in 1 .. m : S(r) \in 1 .. n /\ E(r) \in 1 .. n /\ S(r) <= E(r)
      /\ \A q, r \in 1 .. m : q < r => E(q) < S(r)
  BY <1>1, <1>2, HunksAreApart
<1>4. \A x \in 1 .. n :
         /\ x \in D <=> (x \in K /\ x \notin X) \/ (x \in P /\ x \in X) \/ x \notin A
         /\ x \notin A => x \in K /\ x \in P
         /\ x \in A => \E q \in 1 .. m : /\ S(q) <= x /\ x <= E(q)
                                         /\ x \in X <=> hs[q].status = "accepted"
  BY <1>2, ChangesAreInHunks
<1>5. /\ DOMAIN hs = 1 .. m /\ hs = [r \in 1 .. m |-> hs[r]]
      /\ \A r \in 1 .. m : hs[r].oldStart = ops[S(r)].old /\ hs[r].lines = HunkLines(ops, c, R[r])
  <2>1. /\ DOMAIN hs = 1 .. m /\ hs = [r \in 1 .. m |-> hs[r]]
        /\ \A r \in 1 .. m : hs[r] = [oldStart |-> ops[S(r)].old, lines |-> HunkLines(ops, c, R[r]),
                                     status |-> hs[r].status]
    BY <1>2 DEF HunksFit
  <2> HIDE DEF c, R, S
  <2>2. ASSUME NEW h, NEW x, NEW y, NEW z, h = [oldStart |-> x, lines |-> y, status |-> z]
        PROVE  h.oldStart = x /\ h.lines = y
    BY <2>2
  <2> QED
    BY <2>1, <2>2
<1>6. Len(hs) = m
  <2> DEFINE H == {hs[r] : r \in 1 .. m}
  <2>1. hs \in [1 .. m -> H]
    BY <1>5
  <2> HIDE DEF H
  <2> QED
    BY <2>1, SeqOfFunction
<1> HIDE DEF D, X, A
<1> DEFINE ends == [r \in 0 .. m |-> IF r = 0 THEN 0 ELSE E(r)]
           g == [r \in 0 .. m |-> Reached(ops, a, b, D, ends[r])]
           IsLoop(f) == f = [r \in 0 .. m |-> IF r = 0 THEN [at |-> 0, result |-> << >>]
                                              ELSE AddHunk(f[r - 1], hs[r], a)]
<1>7. /\ ends[0] = 0 /\ \A r \in 1 .. m : ends[r] = E(r)
      /\ \A r \in 0 .. m : ends[r] \in 0 .. n
  <2>1. 0 \in 0 .. m /\ \A r \in 1 .. m : r \in 0 .. m /\ r # 0
    OBVIOUS
  <2>2. \A r \in 0 .. m : r = 0 \/ r \in 1 .. m
    OBVIOUS
  <2>3. 0 \in 0 .. n /\ \A k \in 1 .. n : k \in 0 .. n
    BY <1>1
  <2>4. ends[0] = 0 /\ \A r \in 1 .. m : ends[r] = E(r)
    <3> HIDE DEF E
    <3> QED
      BY <2>1
  <2> HIDE DEF ends, E, n
  <2> QED
    BY <1>3, <2>2, <2>3, <2>4
<1> HIDE DEF S, E, n, K, P
<1>8. ASSUME NEW r \in 1 .. m, NEW p, p = r - 1
      PROVE  p \in 0 .. m /\ AddHunk(g[p], hs[r], a) = g[r]
  <2> DEFINE s == ends[p]
             f == S(r)
             e == E(r)
  <2>1. p \in 0 .. m /\ r \in 0 .. m /\ (p = 0 \/ p \in 1 .. m)
    BY <1>8
  <2>2. s \in 0 .. n /\ f \in 1 .. n /\ e \in 1 .. n /\ f <= e
    BY <1>3, <1>7, <2>1
  <2>3. s < f
    <3>1. CASE p = 0
      BY <1>1, <1>7, <2>2, <3>1
    <3>2. CASE p \in 1 .. m
      <4>1. p < r
        BY <1>8
      <4> QED
        BY <1>3, <1>7, <3>2, <4>1
    <3> QED
      BY <2>1, <3>1, <3>2
  <2> HIDE DEF ends
  <2>4. ASSUME NEW q \in 1 .. m, q < r
        PROVE  E(q) <= s
    <3>1. p \in 1 .. m /\ (q = p \/ q < p)
      BY <1>8, <2>4
    <3>2. s = E(p) /\ S(p) <= E(p) /\ (q < p => E(q) < S(p)) /\ S(p) \in Int /\ E(p) \in Int /\ E(q) \in Int
      BY <1>1, <1>3, <1>7, <3>1
    <3> QED
      BY <3>1, <3>2
  <2>5. ASSUME NEW q \in 1 .. m, r < q
        PROVE  e < S(q) /\ f <= S(q)
    <3>1. e < S(q) /\ S(q) \in Int
      BY <1>1, <1>3, <2>5
    <3> QED
      BY <1>1, <2>2, <3>1
  <2> HIDE DEF s, f, e
  <2>6. ASSUME NEW x \in 1 .. n, s < x, x < f
        PROVE  x \notin A
    <3> SUFFICES ASSUME x \in A
                 PROVE  FALSE
      OBVIOUS
    <3>1. PICK q \in 1 .. m : S(q) <= x /\ x <= E(q)
      BY <1>4
    <3>2. S(q) \in Int /\ E(q) \in Int
      BY <1>1, <1>3
    <3>3. q < r \/ q = r \/ r < q
      OBVIOUS
    <3>4. ~ (q < r)
      BY <1>1, <2>2, <2>4, <2>6, <3>1, <3>2
    <3>5. q # r
      BY <1>1, <2>2, <2>6, <3>1, <3>2 DEF f
    <3>6. ~ (r < q)
      BY <1>1, <2>2, <2>5, <2>6, <3>1, <3>2
    <3> QED
      BY <3>3, <3>4, <3>5, <3>6
  <2>7. ASSUME NEW x \in 1 .. n, f <= x, x <= e, x \in A
        PROVE  x \in X <=> hs[r].status = "accepted"
    <3>1. PICK q \in 1 .. m : S(q) <= x /\ x <= E(q) /\ (x \in X <=> hs[q].status = "accepted")
      BY <1>4, <2>7
    <3>2. S(q) \in Int /\ E(q) \in Int
      BY <1>1, <1>3
    <3>3. q < r \/ q = r \/ r < q
      OBVIOUS
    <3>4. ~ (q < r)
      BY <1>1, <2>2, <2>3, <2>4, <2>7, <3>1, <3>2
    <3>5. ~ (r < q)
      BY <1>1, <2>2, <2>5, <2>7, <3>1, <3>2
    <3>6. q = r
      BY <3>3, <3>4, <3>5
    <3> QED
      BY <3>1, <3>6
  <2>8. \A x \in 1 .. n : s < x /\ x < f => (x \in D <=> x \in K)
    BY <1>4, <2>6
  <2>9. \A x \in 1 .. n : f <= x /\ x <= e =>
           IF hs[r].status = "accepted" THEN x \in D <=> x \in P ELSE x \in D <=> x \in K
    BY <1>4, <2>7
  <2>10. AddHunk(Reached(ops, a, b, D, s), hs[r], a) = Reached(ops, a, b, D, e)
    <3> DEFINE region == R[r]
               hunk == hs[r]
    <3>1. f = Start(region) /\ e = End(region, ops)
      BY DEF f, e, S, E
    <3>2. hunk.oldStart = ops[Start(region)].old /\ hunk.lines = HunkLines(ops, c, region)
      BY <1>5, <3>1 DEF f
    <3> HIDE DEF region, hunk
    <3>3. Start(region) \in 1 .. n /\ End(region, ops) \in 1 .. n /\ Start(region) <= End(region, ops)
          /\ s \in 0 .. n /\ s < Start(region)
      BY <2>2, <2>3, <3>1
    <3>4. \A x \in 1 .. n : s < x /\ x < Start(region) => (x \in D <=> x \in K)
      BY <2>8, <3>1
    <3>5. \A x \in 1 .. n : Start(region) <= x /\ x <= End(region, ops) =>
             IF hunk.status = "accepted" THEN x \in D <=> x \in P ELSE x \in D <=> x \in K
      BY <2>9, <3>1 DEF hunk
    <3>6. AddsRegion(ops, a, b, D, s, hunk, region)
      BY <1>1, <3>2, <3>3, <3>4, <3>5, HunkAdded DEF n, K, P
    <3> QED
      BY <3>1, <3>6 DEF hunk, AddsRegion
  <2>11. g[p] = Reached(ops, a, b, D, s) /\ g[r] = Reached(ops, a, b, D, e)
    <3>1. ends[r] = e
      BY <1>7 DEF e
    <3> QED
      BY <2>1, <3>1 DEF s
  <2> QED
    BY <2>1, <2>10, <2>11
<1>9. g[0] = [at |-> 0, result |-> << >>]
  <2>1. OldAt(ops, a, b)[0] = 0
    BY DEF Follows
  <2>2. Upto(D, 0) = {}
    BY <1>1, PlacesOfASequence
  <2>3. g[0] = Reached(ops, a, b, D, 0)
    <3>1. 0 \in 0 .. m
      OBVIOUS
    <3> QED
      BY <1>7, <3>1
  <2> QED
    BY <2>1, <2>2, <2>3, PickedNone DEF Reached
<1>10. DOMAIN g = 0 .. m /\ g = [r \in 0 .. m |-> g[r]] /\ g[m] = Reached(ops, a, b, D, ends[m])
  OBVIOUS
<1> HIDE DEF g, ends
<1>11. IsLoop(g)
  <2>1. \A r \in 0 .. m : g[r] = IF r = 0 THEN [at |-> 0, result |-> << >>] ELSE AddHunk(g[r - 1], hs[r], a)
    <3>1. \A r \in 0 .. m : r = 0 \/ r \in 1 .. m
      OBVIOUS
    <3>2. \A r \in 1 .. m : AddHunk(g[r - 1], hs[r], a) = g[r] /\ r # 0
      BY <1>8
    <3> QED
      BY <1>9, <3>1, <3>2
  <2> QED
    BY <1>10, <2>1
<1> DEFINE done == CHOOSE f : IsLoop(f)
<1>12. IsLoop(done)
  BY <1>11
<1>13. ApplySelectedHunks(a, hs) = done[m].result \o SubSeq(a, done[m].at + 1, Len(a))
  BY <1>6 DEF ApplySelectedHunks
<1> HIDE DEF done
<1>14. done[m] = g[m]
  <2> DEFINE Good == {k \in Nat : k <= m => done[k] = g[k]}
  <2>1. 0 \in Good
    BY <1>9, <1>12
  <2>2. ASSUME NEW k \in Nat, k \in Good
        PROVE  k + 1 \in Good
    <3> SUFFICES ASSUME k + 1 <= m
                 PROVE  done[k + 1] = g[k + 1]
      OBVIOUS
    <3> DEFINE l == k + 1
    <3>1. l \in 0 .. m /\ l \in 1 .. m /\ l # 0 /\ l - 1 = k /\ k <= m
      OBVIOUS
    <3>2. done[k] = g[k]
      BY <2>2, <3>1
    <3> HIDE DEF l
    <3>3. done[l] = AddHunk(done[k], hs[l], a)
      BY <1>12, <3>1
    <3>4. AddHunk(g[k], hs[l], a) = g[l]
      BY <1>8, <3>1
    <3>5. done[l] = g[l]
      BY <3>2, <3>3, <3>4
    <3> QED
      BY <3>5 DEF l
  <2> HIDE DEF Good
  <2>3. m \in Good
    BY <2>1, <2>2, Induction
  <2> QED
    BY <2>3 DEF Good
<1> DEFINE s == ends[m]
<1>15. done[m].at = OldAt(ops, a, b)[s] /\ done[m].result = Picked(c, Upto(D, s))
  BY <1>10, <1>14 DEF Reached
<1>16. s \in 0 .. n /\ n \in s .. n
  <2>1. m \in 0 .. m
    OBVIOUS
  <2> QED
    BY <1>1, <1>7, <2>1
<1>17. \A x \in 1 .. n : s < x /\ x <= n => (x \in D <=> x \in K)
  <2>1. ASSUME NEW x \in 1 .. n, s < x
        PROVE  x \notin A
    <3> SUFFICES ASSUME x \in A
                 PROVE  FALSE
      OBVIOUS
    <3>1. PICK q \in 1 .. m : S(q) <= x /\ x <= E(q)
      BY <1>4
    <3>2. E(q) \in Int /\ m \in 1 .. m /\ S(m) \in Int /\ E(m) \in Int /\ S(m) <= E(m) /\ s = E(m)
      BY <1>1, <1>3, <1>7, <3>1
    <3>3. q = m \/ q < m
      OBVIOUS
    <3>4. q < m => E(q) < S(m)
      BY <1>3, <3>2
    <3> HIDE DEF s
    <3> QED
      BY <1>1, <2>1, <3>1, <3>2, <3>3, <3>4
  <2> QED
    BY <1>4, <2>1
<1> HIDE DEF s
<1>18. ShowsOld(ops, a, b, D, s, n)
  BY <1>1, <1>16, <1>17, OldPart DEF n, K
<1>19. OldAt(ops, a, b)[n] = Len(a)
  BY DEF Follows, n
<1>20. Upto(D, n) = D
  BY <1>1, PlacesOfASequence
<1>21. Picked(c, D) = Picked(c, Upto(D, s)) \o SubSeq(a, OldAt(ops, a, b)[s] + 1, Len(a))
  BY <1>18, <1>19, <1>20 DEF ShowsOld
<1> QED
  BY <1>13, <1>15, <1>21 DEF D, X

-----------------------------------------------------------------------------
(* The review *)

\* The hunks under review are those of the edit, and the file holds what was decided.
Reviewed ==
    /\ TextsFixed
    /\ HunksFit(hunks, EditOps(old, new), old, new)
    /\ SelectedHunksApplied

\* The regions do not depend on what was decided about the hunks.
LEMMA HunksStayFit ==
  ASSUME NEW hs, NEW ks, NEW ops, NEW a, NEW b, HunksFit(hs, ops, a, b),
         ks = [r \in DOMAIN hs |-> ks[r]],
         \A r \in DOMAIN hs : ks[r] = [hs[r] EXCEPT !.status = ks[r].status]
  PROVE  HunksFit(ks, ops, a, b) /\ DOMAIN hs = DOMAIN Regions(ops) /\ (hs = << >> <=> ks = << >>)
<1> DEFINE R == Regions(ops)
<1>1. hs = [r \in DOMAIN R |-> hs[r]]
  BY DEF HunksFit
<1> HIDE DEF R
<1>2. DOMAIN hs = DOMAIN R
  BY <1>1
<1>3. DOMAIN ks = DOMAIN R
  BY <1>2
<1>4. HunksFit(ks, ops, a, b)
  <2>1. ASSUME NEW h, NEW x, NEW y, NEW z, NEW k, NEW d,
               h = [oldStart |-> x, lines |-> y, status |-> z], k = [h EXCEPT !.status = d]
        PROVE  k = [oldStart |-> x, lines |-> y, status |-> d]
    BY <2>1
  <2>2. ASSUME NEW r \in DOMAIN R
        PROVE  ks[r] = [oldStart |-> ops[Start(R[r])].old,
                        lines |-> HunkLines(ops, Content(ops, a, b), R[r]), status |-> ks[r].status]
    <3>1. /\ hs[r] = [oldStart |-> ops[Start(R[r])].old,
                      lines |-> HunkLines(ops, Content(ops, a, b), R[r]), status |-> hs[r].status]
          /\ ks[r] = [hs[r] EXCEPT !.status = ks[r].status]
      BY <1>2 DEF HunksFit, R
    <3> QED
      BY <2>1, <3>1
  <2> QED
    BY <1>2, <2>2 DEF HunksFit, R
<1>5. hs = << >> <=> DOMAIN R = {}
  BY <1>1, <1>2
<1>6. ks = << >> <=> DOMAIN R = {}
  BY <1>2, <1>3
<1> QED
  BY <1>2, <1>4, <1>5, <1>6 DEF R

\* A hunk is a record, of which a decision changes one field.
Fields(h) == h = [oldStart |-> h.oldStart, lines |-> h.lines, status |-> h.status]

\* The hunks under review are records of three fields.
LEMMA HunksHaveFields ==
  ASSUME NEW hs, NEW ops, NEW a, NEW b, HunksFit(hs, ops, a, b)
  PROVE  \A r \in DOMAIN hs : Fields(hs[r])
<1>1. ASSUME NEW h, NEW x, NEW y, NEW z, h = [oldStart |-> x, lines |-> y, status |-> z]
      PROVE  Fields(h)
  BY <1>1 DEF Fields
<1> DEFINE R == Regions(ops)
<1>2. hs = [r \in DOMAIN R |-> hs[r]]
  BY DEF HunksFit
<1>3. DOMAIN hs = DOMAIN R
  <2> HIDE DEF R
  <2> QED
    BY <1>2
<1>4. \A r \in DOMAIN R : hs[r] = [oldStart |-> ops[Start(R[r])].old,
                                 lines |-> HunkLines(ops, Content(ops, a, b), R[r]),
                                 status |-> hs[r].status]
  BY DEF HunksFit
<1> QED
  BY <1>1, <1>3, <1>4

\* Deciding about a hunk, or leaving it, changes its status at most.
LEMMA StatusChanges ==
  ASSUME NEW h, Fields(h), NEW k, NEW d, k = h \/ k = [h EXCEPT !.status = d]
  PROVE  k = [h EXCEPT !.status = k.status]
BY DEF Fields

\* The hunks a review starts with are those of its edit.
LEMMA HunksOfTheEdit ==
  ASSUME NEW ops, NEW a, NEW b
  PROVE  HunksFit(Hunks(ops, a, b), ops, a, b)
BY DEF HunksFit, Hunks

\* Every step of a review, deciding, finalizing or failing to, keeps Reviewed.
LEMMA ReviewedInductive == Reviewed /\ [Next]_vars => Reviewed'
<1> SUFFICES ASSUME Reviewed, [Next]_vars
             PROVE  Reviewed'
  OBVIOUS
<1> DEFINE ops == EditOps(old, new)
<1>1. TextsFixed'
  BY DEF Reviewed, TextsFixed, Next, Decide, Finalize, FinalizeFails, vars
<1>2. /\ old \in Seq(Lines) /\ new \in Seq(Lines) /\ Follows(ops, old, new, Lines)
      /\ RegionsFit(ops)
  <2>1. /\ old \in Seq(Lines) /\ new \in Seq(Lines)
        /\ Path(ops, <<0, 0>>, <<Len(old), Len(new)>>, old, new)
        /\ Len(ops) \in Nat /\ DOMAIN ops = 1 .. Len(ops)
    BY EditUnderReview DEF Reviewed
  <2> HIDE DEF ops
  <2>2. Follows(ops, old, new, Lines)
    BY <2>1, EditFollows
  <2>3. RegionsFit(ops)
    BY <2>1, RegionsAreApart
  <2> QED
    BY <2>1, <2>2, <2>3
<1>3. old' = old /\ new' = new
  BY DEF Next, Decide, Finalize, FinalizeFails, vars
<1>4. ops' = ops
  BY <1>3
<1>5. HunksFit(hunks, ops, old, new)
  BY DEF Reviewed
<1>6. disk = CASE status = "applied" /\ hunks # << >> -> Shown(ops, Chosen(ops, hunks))
               [] status = "applied" /\ hunks = << >> -> new
               [] OTHER -> old
  BY DEF Reviewed, SelectedHunksApplied
<1> SUFFICES /\ HunksFit(hunks', ops, old, new)
             /\ disk' = CASE status' = "applied" /\ hunks' # << >> -> Picked(Content(ops, old, new), Kept(ops, Chosen(ops, hunks')))
                          [] status' = "applied" /\ hunks' = << >> -> new
                          [] OTHER -> old
  BY <1>1, <1>3, <1>4 DEF Reviewed, SelectedHunksApplied, Shown
<1> HIDE DEF ops
<1>7. ASSUME NEW i \in DOMAIN hunks, NEW decision \in {"accepted", "rejected"}, Decide(i, decision)
      PROVE  /\ HunksFit(hunks', ops, old, new)
             /\ status' # "applied" /\ disk' = old
  <2>1. /\ hunks' = [r \in DOMAIN hunks |-> hunks'[r]]
        /\ \A r \in DOMAIN hunks : hunks'[r] = [hunks[r] EXCEPT !.status = hunks'[r].status]
    <3>1. \A r \in DOMAIN hunks : Fields(hunks[r])
      BY <1>5, HunksHaveFields
    <3>2. hunks' = [hunks EXCEPT ![i] = [hunks[i] EXCEPT !.status = decision]]
      BY <1>7 DEF Decide
    <3>3. hunks' = [r \in DOMAIN hunks |-> IF r = i THEN [hunks[i] EXCEPT !.status = decision] ELSE hunks[r]]
      BY <3>2
    <3>4. hunks'[i] = [hunks[i] EXCEPT !.status = decision]
      BY <3>3
    <3>5. \A r \in DOMAIN hunks : r # i => hunks'[r] = hunks[r]
      BY <3>3
    <3> QED
      BY <3>1, <3>3, <3>4, <3>5, StatusChanges
  <2>2. HunksFit(hunks', ops, old, new)
    BY <1>5, <2>1, HunksStayFit
  <2>3. status' # "applied" /\ disk' = old
    BY <1>6, <1>7 DEF Decide
  <2> QED
    BY <2>2, <2>3
<1>8. ASSUME hunks' = AutoRejected
      PROVE  HunksFit(hunks', ops, old, new) /\ (hunks = << >> <=> hunks' = << >>)
  <2>1. /\ hunks' = [r \in DOMAIN hunks |-> hunks'[r]]
        /\ \A r \in DOMAIN hunks : hunks'[r] = [hunks[r] EXCEPT !.status = hunks'[r].status]
    <3>1. \A r \in DOMAIN hunks : Fields(hunks[r])
      BY <1>5, HunksHaveFields
    <3>2. hunks' = [r \in DOMAIN hunks |-> IF hunks[r].status = "pending"
                                           THEN [hunks[r] EXCEPT !.status = "rejected"] ELSE hunks[r]]
      BY <1>8 DEF AutoRejected
    <3>3. \A r \in DOMAIN hunks : hunks'[r] = [hunks[r] EXCEPT !.status = "rejected"] \/ hunks'[r] = hunks[r]
      BY <3>2
    <3> QED
      BY <3>1, <3>2, <3>3, StatusChanges
  <2> QED
    BY <1>5, <2>1, HunksStayFit
<1>9. CASE Finalize
  <2>1. HunksFit(hunks', ops, old, new) /\ (hunks = << >> <=> hunks' = << >>)
    BY <1>8, <1>9 DEF Finalize
  <2>2. disk = old
    BY <1>6, <1>9 DEF Finalize
  <2>3. ApplySelectedHunks(old, hunks') = Picked(Content(ops, old, new), Kept(ops, Chosen(ops, hunks')))
    BY <1>2, <2>1, HunksApplied
  <2>4. CASE hunks = << >>
    BY <1>9, <2>1, <2>4 DEF Finalize
  <2>5. CASE hunks # << >> /\ ~ AnyAccepted
    BY <1>9, <2>1, <2>2, <2>5 DEF Finalize
  <2>6. CASE hunks # << >> /\ AnyAccepted
    BY <1>9, <2>1, <2>3, <2>6 DEF Finalize
  <2> QED
    BY <2>4, <2>5, <2>6
<1>10. CASE FinalizeFails
  <2>1. HunksFit(hunks', ops, old, new)
    BY <1>8, <1>10 DEF FinalizeFails
  <2>2. status' # "applied" /\ disk' = old
    BY <1>6, <1>10 DEF FinalizeFails
  <2> QED
    BY <2>1, <2>2
<1>11. CASE UNCHANGED vars
  BY <1>5, <1>6, <1>11 DEF vars, Shown
<1>12. CASE Next
  <2>1. CASE \E i \in DOMAIN hunks, decision \in {"accepted", "rejected"} : Decide(i, decision)
    BY <1>7, <2>1
  <2> QED
    BY <1>9, <1>10, <1>12, <2>1 DEF Next
<1> QED
  BY <1>11, <1>12

\* A review starts with the hunks of its edit, and with nothing written.
LEMMA StartsReviewed == Init => Reviewed
<1> SUFFICES ASSUME Init
             PROVE  Reviewed
  OBVIOUS
<1> DEFINE ops == EditOps(old, new)
<1>1. TextsFixed
  BY DEF Init, TextsFixed
<1>2. hunks = Hunks(ops, old, new) /\ disk = old /\ status # "applied"
  BY DEF Init
<1> HIDE DEF ops
<1>3. HunksFit(hunks, ops, old, new)
  BY <1>2, HunksOfTheEdit
<1>4. SelectedHunksApplied
  BY <1>2 DEF SelectedHunksApplied
<1> QED
  BY <1>1, <1>3, <1>4 DEF Reviewed, ops

\* SelectedHunksApplied, for texts of every length and any context: applySelectedHunks()
\* writes the old text with the changes of the accepted hunks and no other, however
\* the diff was computed and grouped and whatever the user decided, in any order.
THEOREM ReviewWritesSelection == Spec => []SelectedHunksApplied
<1>1. Spec => []Reviewed
  BY StartsReviewed, ReviewedInductive, PTL DEF Spec
<1>2. Reviewed => SelectedHunksApplied
  BY DEF Reviewed
<1> QED
  BY <1>1, <1>2, PTL

=============================================================================
