-------------------------- MODULE PositionsProofs --------------------------
(***************************************************************************)
(* What the proofs of other modules need about data: induction over the    *)
(* natural numbers, definitions by recursion, and positions in order.      *)
(***************************************************************************)
EXTENDS Positions, Integers, Sequences, SequenceTheorems, FiniteSetTheorems, TLAPS

(***************************************************************************)
(* Induction, for a set of numbers.  A number missing from the set would   *)
(* make "next" map the members below it one to one into fewer.             *)
(***************************************************************************)
LEMMA SetInduction ==
    ASSUME NEW S \in SUBSET Nat, 0 \in S, \A n \in S : n + 1 \in S
    PROVE  S = Nat
<1>1. SUFFICES ASSUME NEW m \in Nat, m \notin S PROVE FALSE
  OBVIOUS
<1> DEFINE below == S \cap (0..m)
           above == below \ {0}
           next == [x \in below |-> x + 1]
<1>2. IsFiniteSet(below)
  <2>1. IsFiniteSet(0..m)
    BY FS_Interval
  <2> QED
    BY <2>1, FS_Subset
<1>3. IsFiniteSet(above) /\ Cardinality(above) < Cardinality(below)
  <2>1. 0 \in below
    BY <1>1
  <2>2. IsFiniteSet(above) /\ Cardinality(above) = Cardinality(below) - 1
    BY <1>2, <2>1, FS_RemoveElement
  <2>3. Cardinality(below) \in Nat
    BY <1>2, FS_CardinalityType
  <2> QED
    BY <2>2, <2>3
<1>4. next \in [below -> above]
  <2>1. \A x \in below : x + 1 \in above
    BY <1>1
  <2> QED
    BY <2>1
<1>5. \A x, y \in below : x # y => next[x] # next[y]
  <2>1. \A x \in below : x \in Nat
    OBVIOUS
  <2> QED
    BY <2>1
<1> HIDE DEF below, above, next
<1> QED
  BY <1>2, <1>3, <1>4, <1>5, FS_PigeonHole

-----------------------------------------------------------------------------
(***************************************************************************)
(* A definition by recursion starts at a and goes on by step.              *)
(***************************************************************************)
Recursive(f, a, step) == f[0] = a /\ \A n \in Nat : f[n + 1] = step[<<n, f[n]>>]

Upto(g, n, A, a, step) ==
    /\ g \in [0..n -> A]
    /\ g[0] = a
    /\ \A i \in 0..(n - 1) : g[i + 1] = step[<<i, g[i]>>]

\* There is a prefix of every length.
LEMMA PrefixExists ==
    ASSUME NEW A, NEW a \in A, NEW step,
           \A n \in Nat, x \in A : step[<<n, x>>] \in A
    PROVE  \A n \in Nat : \E g : Upto(g, n, A, a, step)
<1> DEFINE S == {n \in Nat : \E g : Upto(g, n, A, a, step)}
<1>1. 0 \in S
  <2>1. Upto([i \in 0..0 |-> a], 0, A, a, step)
    BY DEF Upto
  <2> QED
    BY <2>1
<1>2. ASSUME NEW n \in S PROVE n + 1 \in S
  <2>1. n \in Nat /\ \E g : Upto(g, n, A, a, step)
    OBVIOUS
  <2>2. PICK g : Upto(g, n, A, a, step)
    BY <2>1
  <2> DEFINE more == step[<<n, g[n]>>]
             h == [i \in 0..(n + 1) |-> IF i = n + 1 THEN more ELSE g[i]]
  <2>3. more \in A
    <3>1. g[n] \in A
      BY <2>1, <2>2 DEF Upto
    <3> QED
      BY <2>1, <3>1
  <2>4. \A i \in 0..n : g[i] \in A /\ h[i] = g[i]
    BY <2>1, <2>2 DEF Upto
  <2>5. h[n + 1] = more
    BY <2>1
  <2>6. h \in [0..(n + 1) -> A]
    <3>1. ASSUME NEW i \in 0..(n + 1), i # n + 1 PROVE g[i] \in A
      <4>1. i \in 0..n
        BY <2>1, <3>1
      <4> QED
        BY <4>1, <2>4
    <3> HIDE DEF more
    <3> QED
      BY <2>3, <3>1
  <2> HIDE DEF h
  <2>7. h[0] = a
    BY <2>1, <2>2, <2>4 DEF Upto
  <2>8. ASSUME NEW i \in 0..n PROVE h[i + 1] = step[<<i, h[i]>>]
    <3>1. CASE i = n
      BY <3>1, <2>1, <2>4, <2>5
    <3>2. CASE i # n
      <4>1. i \in 0..(n - 1) /\ i + 1 \in 0..n
        BY <2>1, <3>2
      <4>2. g[i + 1] = step[<<i, g[i]>>]
        BY <4>1, <2>2 DEF Upto
      <4> QED
        BY <4>1, <4>2, <2>4
    <3> QED
      BY <3>1, <3>2
  <2>9. Upto(h, n + 1, A, a, step)
    <3>1. n + 1 - 1 = n
      BY <2>1
    <3> QED
      BY <3>1, <2>6, <2>7, <2>8 DEF Upto
  <2> QED
    BY <2>1, <2>9
<1>3. S \in SUBSET Nat
  OBVIOUS
<1> HIDE DEF S
<1>4. S = Nat
  BY <1>1, <1>2, <1>3, SetInduction
<1> QED
  BY <1>4 DEF S

\* Two prefixes agree where both are defined.
LEMMA PrefixesAgree ==
    ASSUME NEW A, NEW a \in A, NEW step,
           \A n \in Nat, x \in A : step[<<n, x>>] \in A,
           NEW m \in Nat, NEW n \in Nat, m <= n, NEW g, NEW h,
           Upto(g, m, A, a, step), Upto(h, n, A, a, step)
    PROVE  g[m] = h[m]
<1> DEFINE S == {i \in Nat : i <= m => g[i] = h[i]}
<1>1. 0 \in S
  BY DEF Upto
<1>2. ASSUME NEW i \in S PROVE i + 1 \in S
  <2>1. i \in Nat /\ (i <= m => g[i] = h[i])
    OBVIOUS
  <2>2. ASSUME i + 1 <= m PROVE g[i + 1] = h[i + 1]
    <3>1. i \in 0..(m - 1) /\ i \in 0..(n - 1) /\ i <= m
      BY <2>1, <2>2
    <3>2. g[i + 1] = step[<<i, g[i]>>]
      BY <3>1 DEF Upto
    <3>3. h[i + 1] = step[<<i, h[i]>>]
      BY <3>1 DEF Upto
    <3> QED
      BY <2>1, <3>1, <3>2, <3>3
  <2> QED
    BY <2>1, <2>2
<1>3. S \in SUBSET Nat
  OBVIOUS
<1> HIDE DEF S
<1>4. S = Nat
  BY <1>1, <1>2, <1>3, SetInduction
<1> QED
  BY <1>4 DEF S

LEMMA Recursion ==
    ASSUME NEW A, NEW a \in A, NEW step,
           \A n \in Nat, x \in A : step[<<n, x>>] \in A
    PROVE  \E f \in [Nat -> A] : Recursive(f, a, step)
<1> DEFINE prefix == [n \in Nat |-> CHOOSE g : Upto(g, n, A, a, step)]
           f == [n \in Nat |-> prefix[n][n]]
<1>1. \A n \in Nat : Upto(prefix[n], n, A, a, step)
  BY PrefixExists
<1> HIDE DEF prefix
<1>2. f \in [Nat -> A]
  <2>1. \A n \in Nat : prefix[n][n] \in A
    BY <1>1 DEF Upto
  <2> QED
    BY <2>1
<1>3. f[0] = a
  BY <1>1 DEF Upto
<1>4. ASSUME NEW n \in Nat PROVE f[n + 1] = step[<<n, f[n]>>]
  <2>1. prefix[n][n] = prefix[n + 1][n]
    <3>1. /\ n + 1 \in Nat /\ n <= n + 1
          /\ Upto(prefix[n], n, A, a, step) /\ Upto(prefix[n + 1], n + 1, A, a, step)
      BY <1>1
    <3>2. \A g, h : \A m \in Nat :
            n <= m /\ Upto(g, n, A, a, step) /\ Upto(h, m, A, a, step) => g[n] = h[n]
      BY PrefixesAgree
    <3> HIDE DEF f
    <3> QED
      BY <3>1, <3>2
  <2>2. prefix[n + 1][n + 1] = step[<<n, prefix[n + 1][n]>>]
    BY <1>1, n + 1 \in Nat, n \in 0..(n + 1 - 1) DEF Upto
  <2> QED
    BY <2>1, <2>2
<1> HIDE DEF f
<1>5. Recursive(f, a, step)
  BY <1>3, <1>4 DEF Recursive
<1> QED
  BY <1>2, <1>5

-----------------------------------------------------------------------------
(***************************************************************************)
(* The rank of a place numbers the places of a finite set from 1 on.       *)
(***************************************************************************)
LEMMA RankRange ==
    ASSUME NEW P \in SUBSET Nat, IsFiniteSet(P), NEW i \in P
    PROVE  Rank(P, i) \in 1..Cardinality(P)
<1> DEFINE upto == {j \in P : j <= i}
<1>1. IsFiniteSet(upto) /\ Cardinality(upto) <= Cardinality(P)
  BY FS_Subset, upto \in SUBSET P
<1>2. Cardinality(upto) \in Nat /\ Cardinality(P) \in Nat
  BY <1>1, FS_CardinalityType
<1>3. Cardinality(upto) # 0
  <2>1. i \in upto
    OBVIOUS
  <2> HIDE DEF upto
  <2> QED
    BY <1>1, <2>1, FS_EmptySet
<1> QED
  BY <1>1, <1>2, <1>3 DEF Rank

LEMMA RankGrows ==
    ASSUME NEW P \in SUBSET Nat, IsFiniteSet(P), NEW i \in P, NEW k \in P, i < k
    PROVE  Rank(P, i) # Rank(P, k)
<1> DEFINE lower == {j \in P : j <= i}
           upper == {j \in P : j <= k}
<1>1. lower \in SUBSET upper /\ k \in upper /\ k \notin lower
  <2>1. \A j \in P : j <= i => j <= k
    OBVIOUS
  <2>2. k <= k /\ ~(k <= i)
    OBVIOUS
  <2> QED
    BY <2>1, <2>2
<1>2. IsFiniteSet(upper)
  BY FS_Subset, upper \in SUBSET P
<1>3. Rank(P, i) = Cardinality(lower) /\ Rank(P, k) = Cardinality(upper)
  BY DEF Rank
<1> HIDE DEF lower, upper
<1> QED
  BY <1>1, <1>2, <1>3, FS_Subset

\* InOrder gives the place of each rank.
LEMMA InOrderRank ==
    ASSUME NEW P \in SUBSET Nat, IsFiniteSet(P), NEW n \in 1..Cardinality(P)
    PROVE  InOrder(P)[n] \in P /\ Rank(P, InOrder(P)[n]) = n
<1> DEFINE rank == [i \in P |-> Rank(P, i)]
           T == 1..Cardinality(P)
<1>1. Cardinality(P) \in Nat
  BY FS_CardinalityType
<1>2. IsFiniteSet(T) /\ Cardinality(T) = Cardinality(P)
  <2>1. 1 \in Int /\ Cardinality(P) \in Int
    BY <1>1
  <2> QED
    BY <1>1, <2>1, FS_Interval
<1>3. rank \in Injection(P, T)
  <2>1. \A i, k \in P : Rank(P, i) = Rank(P, k) => i = k
    <3>1. \A i, k \in P : i # k => i < k \/ k < i
      OBVIOUS
    <3> QED
      BY <3>1, RankGrows
  <2> QED
    BY <2>1, RankRange DEF Injection, IsInjective
<1>4. rank \in Surjection(P, T)
  <2> HIDE DEF rank, T
  <2> QED
    BY <1>2, <1>3, FS_Injection
<1>5. \E i \in P : Rank(P, i) = n
  BY <1>4 DEF Surjection
<1> QED
  BY <1>5 DEF InOrder

LEMMA InOrderSeq ==
    ASSUME NEW P \in SUBSET Nat, IsFiniteSet(P)
    PROVE  InOrder(P) \in Seq(P) /\ Len(InOrder(P)) = Cardinality(P)
<1>1. Cardinality(P) \in Nat
  BY FS_CardinalityType
<1>2. InOrder(P) \in [1..Cardinality(P) -> P]
  BY InOrderRank DEF InOrder
<1> QED
  BY <1>1, <1>2

LEMMA InOrderEmpty == InOrder({}) = <<>>
<1>1. Cardinality({}) = 0 /\ IsFiniteSet({})
  BY FS_EmptySet
<1>2. InOrder({}) \in Seq({}) /\ Len(InOrder({})) = 0
  BY <1>1, InOrderSeq
<1> QED
  BY <1>2

(***************************************************************************)
(* A place behind all others comes last.                                   *)
(***************************************************************************)
LEMMA InOrderNext ==
    ASSUME NEW P \in SUBSET Nat, IsFiniteSet(P), NEW m \in Nat, \A i \in P : i < m
    PROVE  InOrder(P \cup {m}) = Append(InOrder(P), m)
<1> DEFINE Q == P \cup {m}
<1>1. m \notin P /\ Q \in SUBSET Nat
  OBVIOUS
<1>2. /\ IsFiniteSet(Q) /\ Cardinality(Q) = Cardinality(P) + 1
      /\ Cardinality(P) \in Nat
  BY <1>1, FS_AddElement, FS_CardinalityType
<1>3. \A i \in P : Rank(Q, i) = Rank(P, i)
  <2>1. ASSUME NEW i \in P PROVE {j \in Q : j <= i} = {j \in P : j <= i}
    OBVIOUS
  <2> QED
    BY <2>1 DEF Rank
<1>4. Rank(Q, m) = Cardinality(Q)
  <2>1. \A j \in Q : j <= m
    <3>1. \A j \in P : j \in Nat /\ j < m
      OBVIOUS
    <3>2. \A j \in Nat : j < m => j <= m
      OBVIOUS
    <3> QED
      BY <3>1, <3>2
  <2>2. {j \in Q : j <= m} = Q
    BY <2>1
  <2> QED
    BY <2>2 DEF Rank
<1> HIDE DEF Q
<1>5. /\ InOrder(Q) \in Seq(Nat) /\ Len(InOrder(Q)) = Cardinality(P) + 1
      /\ InOrder(P) \in Seq(Nat) /\ Len(InOrder(P)) = Cardinality(P)
  <2>1. \A S \in SUBSET Nat : \A s \in Seq(S) : s \in Seq(Nat)
    BY SeqMonotonic
  <2> QED
    BY <1>1, <1>2, <2>1, InOrderSeq
<1>6. InOrder(Q)[Cardinality(Q)] = m
  <2> DEFINE last == InOrder(Q)[Cardinality(Q)]
  <2>1. last \in Q /\ Rank(Q, last) = Cardinality(Q)
    <3>1. Cardinality(Q) \in 1..Cardinality(Q)
      BY <1>2
    <3> QED
      BY <3>1, <1>1, <1>2, InOrderRank
  <2>2. last \notin P
    <3>1. \A i \in P : Rank(P, i) \in 1..Cardinality(P)
      BY RankRange
    <3>2. Cardinality(P) + 1 \notin 1..Cardinality(P)
      BY <1>2
    <3> QED
      BY <2>1, <3>1, <3>2, <1>2, <1>3
  <2> QED
    BY <2>1, <2>2 DEF Q
<1>7. ASSUME NEW n \in 1..Cardinality(P) PROVE InOrder(Q)[n] = InOrder(P)[n]
  <2> DEFINE old == InOrder(P)[n]
             i == InOrder(Q)[n]
  <2>1. old \in P /\ Rank(P, old) = n
    BY InOrderRank
  <2>2. i \in Q /\ Rank(Q, i) = n
    <3>1. n \in 1..Cardinality(Q)
      BY <1>2
    <3> QED
      BY <3>1, <1>1, <1>2, InOrderRank
  <2>3. i \in P
    <3>1. n # Cardinality(Q)
      BY <1>2
    <3> QED
      BY <2>2, <3>1, <1>4 DEF Q
  <2>4. Rank(P, i) = Rank(P, old)
    BY <2>1, <2>2, <2>3, <1>3
  <2>5. i < old \/ old < i \/ i = old
    <3>1. \A x, y \in Nat : x < y \/ y < x \/ x = y
      OBVIOUS
    <3>2. \A x \in P : x \in Nat
      OBVIOUS
    <3> HIDE DEF i, old
    <3> QED
      BY <2>1, <2>3, <3>1, <3>2
  <2> HIDE DEF i, old
  <2>6. i = old
    BY <2>1, <2>3, <2>4, <2>5, RankGrows
  <2> QED
    BY <2>6 DEF i, old
<1> DEFINE new == Append(InOrder(P), m)
<1>8. /\ new \in Seq(Nat) /\ Len(new) = Cardinality(P) + 1
      /\ new[Cardinality(P) + 1] = m
      /\ \A n \in 1..Cardinality(P) : new[n] = InOrder(P)[n]
  BY <1>5, AppendProperties
<1>9. \A n \in 1..Len(InOrder(Q)) : InOrder(Q)[n] = new[n]
  <2>1. ASSUME NEW n \in 1..(Cardinality(P) + 1)
        PROVE  n \in 1..Cardinality(P) \/ n = Cardinality(P) + 1
    BY <1>2
  <2> HIDE DEF new
  <2> QED
    BY <1>2, <1>5, <1>6, <1>7, <1>8, <2>1
<1> HIDE DEF new
<1>10. InOrder(Q) = new
  BY <1>5, <1>8, <1>9, SeqEqual
<1> QED
  BY <1>10 DEF new, Q

LEMMA PlacesFinite ==
    ASSUME NEW n \in Nat, NEW P \in SUBSET (1..n)
    PROVE  P \in SUBSET Nat /\ IsFiniteSet(P)
<1>1. IsFiniteSet(1..n)
  BY FS_Interval
<1>2. P \in SUBSET Nat
  OBVIOUS
<1> QED
  BY <1>1, <1>2, FS_Subset

(***************************************************************************)
(* What a sequence holds at some places: nothing at none, and one more     *)
(* element for a place behind all others.                                  *)
(***************************************************************************)
LEMMA PickedEmpty == \A s : Picked(s, {}) = <<>>
  BY InOrderEmpty DEF Picked

LEMMA PickedNext ==
    ASSUME NEW s, NEW n \in Nat, NEW P \in SUBSET (1..n)
    PROVE  Picked(s, P \cup {n + 1}) = Append(Picked(s, P), s[n + 1])
<1>1. P \in SUBSET Nat /\ \A i \in P : i < n + 1
  OBVIOUS
<1>2. IsFiniteSet(P)
  BY PlacesFinite
<1>3. InOrder(P) \in Seq(Nat)
  BY <1>1, <1>2, InOrderSeq, SeqMonotonic
<1>4. InOrder(P \cup {n + 1}) = Append(InOrder(P), n + 1)
  BY <1>1, <1>2, InOrderNext
<1> DEFINE at(order) == [k \in DOMAIN order |-> s[order[k]]]
<1>5. \A order \in Seq(Nat) : at(Append(order, n + 1)) = Append(at(order), s[n + 1])
  OBVIOUS
<1>6. Picked(s, P) = at(InOrder(P)) /\ Picked(s, P \cup {n + 1}) = at(InOrder(P \cup {n + 1}))
  BY DEF Picked
<1> QED
  BY <1>3, <1>4, <1>5, <1>6

LEMMA PickedTyped ==
    ASSUME NEW S, NEW s, NEW n \in Nat, NEW P \in SUBSET (1..n), \A i \in P : s[i] \in S
    PROVE  Picked(s, P) \in Seq(S)
<1>1. P \in SUBSET Nat /\ IsFiniteSet(P)
  BY PlacesFinite
<1> DEFINE order == InOrder(P)
<1>2. order \in Seq(P) /\ Len(order) \in Nat /\ DOMAIN order = 1..Len(order)
  BY <1>1, InOrderSeq
<1>3. \A k \in 1..Len(order) : s[order[k]] \in S
  BY <1>2, ElementOfSeq
<1>4. Picked(s, P) = [k \in DOMAIN order |-> s[order[k]]]
  BY DEF Picked
<1> HIDE DEF order
<1> QED
  BY <1>2, <1>3, <1>4

(***************************************************************************)
(* Every finite set of places has a last one, the one of the highest rank. *)
(***************************************************************************)
LEMMA LatestIsLast ==
    ASSUME NEW P \in SUBSET Nat, IsFiniteSet(P), P # {}
    PROVE  Latest(P) \in P /\ \A j \in P : j <= Latest(P)
<1>1. Cardinality(P) \in 1..Cardinality(P)
  BY FS_CardinalityType, FS_EmptySet
<1>2. PICK i \in P : Rank(P, i) = Cardinality(P)
  BY <1>1, InOrderRank
<1>3. {j \in P : j <= i} = P
  <2>1. {j \in P : j <= i} \in SUBSET P
    OBVIOUS
  <2> QED
    BY <1>2, <2>1, FS_Subset DEF Rank
<1> QED
  BY <1>3 DEF Latest

LEMMA LatestIs ==
    ASSUME NEW P \in SUBSET Nat, NEW i \in P, \A j \in P : j <= i
    PROVE  Latest(P) = i
<1>1. Latest(P) \in P /\ \A j \in P : j <= Latest(P)
  BY DEF Latest
<1>2. Latest(P) <= i /\ i <= Latest(P) /\ Latest(P) \in Nat /\ i \in Nat
  BY <1>1
<1> HIDE DEF Latest
<1> QED
  BY <1>2

-----------------------------------------------------------------------------
(***************************************************************************)
(* A loop over a list takes the next element as long as there is one.      *)
(***************************************************************************)
LEMMA RestOfList ==
    ASSUME NEW S, NEW s \in Seq(S), NEW r \in 0..Len(s), NEW n \in 0..r
    PROVE  /\ n = r => SubSeq(s, n + 1, r) = <<>>
           /\ n # r => /\ SubSeq(s, n + 1, r) # <<>>
                       /\ Head(SubSeq(s, n + 1, r)) = s[n + 1]
                       /\ Tail(SubSeq(s, n + 1, r)) = SubSeq(s, n + 1 + 1, r)
<1>1. CASE n = r
  BY <1>1, SubSeqEmpty
<1>2. CASE n # r
  <2>1. n + 1 \in 1..Len(s) /\ r \in (n + 1)..Len(s)
    BY <1>2
  <2>2. \A i \in (n + 1)..r : s[i] \in S
    BY <2>1
  <2>3. Len(SubSeq(s, n + 1, r)) # 0
    BY <2>1, <2>2, SubSeqProperties
  <2> QED
    BY <1>2, <2>1, <2>3, HeadTailOfSubSeq
<1> QED
  BY <1>1, <1>2

=============================================================================
