----------------------------- MODULE AdapterProofs -----------------------------
(***************************************************************************)
(* What holds of the evaluations of a run for any number of engines, cases *)
(* and observers, any injections and any policies.                         *)
(***************************************************************************)
EXTENDS AdapterBatch, EventDispatchProofs, NaturalsInduction

----------------------------------------------------------------------------
(* Numbers in order *)

LEMMA FunctionIsSequence ==
  ASSUME NEW n \in Nat, NEW S, NEW f \in [1..n -> S]
  PROVE  f \in Seq(S) /\ Len(f) = n
<1>1. f \in Seq(S)
  BY SeqDef
<1>2. DOMAIN f = 1..Len(f) /\ DOMAIN f = 1..n /\ Len(f) \in Nat
  BY <1>1, LenProperties
<1>3. \A m \in Nat : 1..m = 1..n => m = n
  <2> SUFFICES ASSUME NEW m \in Nat, 1..m = 1..n, m # n PROVE FALSE
    OBVIOUS
  <2>1. m \in 1..m <=> m \in 1..n
    OBVIOUS
  <2>2. n \in 1..m <=> n \in 1..n
    OBVIOUS
  <2> QED
    BY <2>1, <2>2
<1> QED
  BY <1>1, <1>2, <1>3

LEMMA SmallestNumber ==
  ASSUME NEW S, S \subseteq Nat, S # {}
  PROVE  \E k \in S : \A l \in S : k <= l
<1>1. PICK k \in S : \A l \in S : ~(<<l, k>> \in OpToRel(<, Nat))
  BY NatLessThanWellFounded, WFMin
<1>2. ASSUME NEW l \in S PROVE k <= l
  <2>1. k \in Nat /\ l \in Nat
    OBVIOUS
  <2>2. ~(l < k)
    BY <1>1, <2>1 DEF OpToRel
  <2> QED
    BY <2>1, <2>2
<1> QED
  BY <1>2

\* Numbers one after the other
LEMMA CountingUp ==
  ASSUME NEW n \in Nat, NEW G, 0 \in G, \A k \in 1..n : k - 1 \in G => k \in G
  PROVE  \A k \in 0..n : k \in G
<1> DEFINE Bad == {k \in 0..n : k \notin G}
<1> SUFFICES ASSUME Bad # {} PROVE FALSE
  OBVIOUS
<1>1. Bad \subseteq Nat
  OBVIOUS
<1> HIDE DEF Bad
<1>2. PICK k \in Bad : \A l \in Bad : k <= l
  BY <1>1, SmallestNumber
<1>3. k \in 1..n /\ k \notin G /\ k - 1 \in 0..n /\ ~(k <= k - 1)
  BY <1>2 DEF Bad
<1> QED
  BY <1>2, <1>3 DEF Bad

\* f is computed from b by n steps.
Computed(f, n, S, b, step) ==
  /\ f \in [0..n -> S] /\ f[0] = b
  /\ \A k \in 1..n : f[k] = step[<<k, f[k - 1]>>]

\* A recursion over the first numbers has a solution,
LEMMA RecursionExists ==
  ASSUME NEW n \in Nat, NEW S, NEW b \in S, NEW step \in [(1..n) \X S -> S]
  PROVE  \E f : Computed(f, n, S, b, step)
<1> DEFINE Solves(f, m) == Computed(f, m, S, b, step)
           G == {m \in 0..n : \E f : Solves(f, m)}
<1>1. 0 \in G
  <2>1. Solves([k \in 0..0 |-> b], 0) /\ 0 \in 0..n
    BY DEF Computed
  <2> HIDE DEF Solves
  <2> QED
    BY <2>1
<1>2. ASSUME NEW m \in 1..n, m - 1 \in G PROVE m \in G
  <2>1. PICK g : Solves(g, m - 1)
    BY <1>2
  <2> DEFINE h == [k \in 0..m |-> IF k = m THEN step[<<m, g[m - 1]>>] ELSE g[k]]
  <2>2. /\ g \in [0..m - 1 -> S] /\ m - 1 \in 0..m - 1 /\ g[0] = b
        /\ \A k \in 1..m - 1 : g[k] = step[<<k, g[k - 1]>>]
    BY <2>1 DEF Computed
  <2>3. step[<<m, g[m - 1]>>] \in S
    BY <2>2
  <2>4. h \in [0..m -> S]
    <3> SUFFICES ASSUME NEW k \in 0..m PROVE h[k] \in S
      OBVIOUS
    <3>1. k = m \/ k \in 0..m - 1
      OBVIOUS
    <3> QED
      BY <3>1, <2>2, <2>3
  <2>5. h[0] = b
    BY <2>2
  <2>6. ASSUME NEW k \in 1..m PROVE h[k] = step[<<k, h[k - 1]>>]
    <3>1. k - 1 \in 0..m /\ k - 1 # m
      OBVIOUS
    <3>2. h[k - 1] = g[k - 1]
      BY <3>1
    <3>3. CASE k = m
      <4>1. m \in 0..m /\ h[m] = step[<<m, g[m - 1]>>]
        OBVIOUS
      <4> QED
        BY <4>1, <3>2, <3>3
    <3>4. CASE k # m
      <4>1. k \in 1..m - 1 /\ k \in 0..m
        BY <3>4
      <4>2. h[k] = g[k]
        BY <3>4, <4>1
      <4> QED
        BY <4>1, <4>2, <3>2, <2>2
    <3> QED
      BY <3>3, <3>4
  <2> HIDE DEF h
  <2> QED
    BY <2>4, <2>5, <2>6 DEF Computed
<1> HIDE DEF G
<1>3. n \in G
  BY <1>1, <1>2, CountingUp
<1> QED
  BY <1>3 DEF G

\* and only one.
Agree(f, g, n) == f[0] = g[0] /\ \A k \in 1..n : f[k - 1] = g[k - 1] => f[k] = g[k]

LEMMA RecursionUnique ==
  ASSUME NEW n \in Nat, NEW f, NEW g, Agree(f, g, n)
  PROVE  \A k \in 0..n : f[k] = g[k]
<1> DEFINE G == {k \in 0..n : f[k] = g[k]}
<1>1. 0 \in G /\ \A k \in 1..n : k - 1 \in G => k \in G
  BY DEF Agree
<1> HIDE DEF G
<1>2. \A k \in 0..n : k \in G
  BY <1>1, CountingUp
<1> QED
  BY <1>2 DEF G

\* The elements of S before i in an order A
Preceding(A, S, i) == {j \in S : <<j, i>> \in A}

IsOrder(A, S) ==
  /\ \A i \in S : <<i, i>> \notin A
  /\ \A i, j, k \in S : <<i, j>> \in A /\ <<j, k>> \in A => <<i, k>> \in A
  /\ \A i, j \in S : i = j \/ <<i, j>> \in A \/ <<j, i>> \in A

\* What is behind another has more before it.
LEMMA PrecedingGrows ==
  ASSUME NEW S, IsFiniteSet(S), NEW A, IsOrder(A, S), NEW i \in S, NEW k \in S, <<i, k>> \in A
  PROVE  Cardinality(Preceding(A, S, i)) < Cardinality(Preceding(A, S, k))
<1>1. /\ Preceding(A, S, i) \subseteq Preceding(A, S, k)
      /\ i \in Preceding(A, S, k) /\ i \notin Preceding(A, S, i)
  BY DEF Preceding, IsOrder
<1>2. Preceding(A, S, i) \subseteq S /\ Preceding(A, S, k) \subseteq S
  BY DEF Preceding
<1>3. /\ IsFiniteSet(Preceding(A, S, k)) /\ IsFiniteSet(Preceding(A, S, i))
      /\ Cardinality(Preceding(A, S, i)) \in Nat /\ Cardinality(Preceding(A, S, k)) \in Nat
  BY <1>2, FS_Subset, FS_CardinalityType
<1>4. /\ Cardinality(Preceding(A, S, i)) <= Cardinality(Preceding(A, S, k))
      /\ Cardinality(Preceding(A, S, i)) = Cardinality(Preceding(A, S, k))
           => Preceding(A, S, i) = Preceding(A, S, k)
  BY <1>1, <1>3, FS_Subset
<1> QED
  BY <1>1, <1>3, <1>4

\* Every element has a number of its own before it, and every number below that
\* of the elements is one of these.
LEMMA PrecedingFills ==
  ASSUME NEW S, IsFiniteSet(S), NEW A, IsOrder(A, S)
  PROVE  /\ Cardinality(S) \in Nat
         /\ \A i \in S : Cardinality(Preceding(A, S, i)) \in 0..Cardinality(S) - 1
         /\ \A k \in 1..Cardinality(S) :
              \E i \in S : Cardinality(Preceding(A, S, i)) = k - 1
<1> DEFINE n == Cardinality(S)
           rank(i) == Cardinality(Preceding(A, S, i))
           f == [i \in S |-> rank(i) + 1]
<1>1. n \in Nat
  BY FS_CardinalityType
<1>2. ASSUME NEW i \in S PROVE rank(i) \in 0..n - 1
  <2>1. Preceding(A, S, i) \in SUBSET S /\ i \notin Preceding(A, S, i)
    BY DEF Preceding, IsOrder
  <2>2. /\ IsFiniteSet(Preceding(A, S, i)) /\ rank(i) \in Nat
        /\ rank(i) <= n /\ (n = rank(i) => S = Preceding(A, S, i))
    BY <2>1, FS_Subset, FS_CardinalityType
  <2> QED
    BY <1>1, <2>1, <2>2
<1>3. \A i, k \in S : <<i, k>> \in A => rank(i) < rank(k)
  BY PrecedingGrows
<1> HIDE DEF n, rank
<1>4. f \in [S -> 1..n]
  BY <1>1, <1>2
<1>5. \A i, k \in S : f[i] = f[k] => i = k
  <2> TAKE i, k \in S
  <2>1. f[i] = rank(i) + 1 /\ f[k] = rank(k) + 1 /\ rank(i) \in Int /\ rank(k) \in Int
    BY <1>1, <1>2
  <2>2. <<i, k>> \in A \/ <<k, i>> \in A \/ i = k
    BY DEF IsOrder
  <2> QED
    BY <2>1, <2>2, <1>3
<1> HIDE DEF f
<1>6. f \in Injection(S, 1..n)
  BY <1>4, <1>5 DEF Injection, IsInjective
<1>7. IsFiniteSet(1..n) /\ Cardinality(1..n) = n
  BY <1>1, FS_Interval
<1>8. f \in Surjection(S, 1..n)
  <2>1. Cardinality(S) = Cardinality(1..n)
    BY <1>7 DEF n
  <2> QED
    BY <2>1, <1>6, <1>7, FS_Injection
<1>9. ASSUME NEW k \in 1..n PROVE \E i \in S : rank(i) = k - 1
  <2>1. PICK i \in S : f[i] = k
    BY <1>8 DEF Surjection
  <2>2. rank(i) + 1 = k /\ rank(i) \in Int
    BY <2>1, <1>1, <1>2 DEF f
  <2> QED
    BY <2>2
<1> QED
  BY <1>1, <1>2, <1>9 DEF n, rank

\* Numbers are in an order.
LEMMA NumbersInOrder ==
  ASSUME NEW S, S \subseteq Nat
  PROVE  /\ IsOrder({p \in S \X S : p[1] < p[2]}, S)
         /\ \A i \in S : Rank(S, i) = Cardinality(Preceding({p \in S \X S : p[1] < p[2]}, S, i))
<1> DEFINE A == {p \in S \X S : p[1] < p[2]}
<1>1. \A i, j \in S : <<i, j>> \in A <=> i < j
  OBVIOUS
<1>2. \A i \in S : i \in Nat
  OBVIOUS
<1> HIDE DEF A
<1>3. \A i \in S : <<i, i>> \notin A
  BY <1>1, <1>2
<1>4. \A i, j, k \in S : <<i, j>> \in A /\ <<j, k>> \in A => <<i, k>> \in A
  <2> TAKE i, j, k \in S
  <2>1. i \in Nat /\ j \in Nat /\ k \in Nat
    BY <1>2
  <2> QED
    BY <2>1, <1>1
<1>5. \A i, j \in S : i = j \/ <<i, j>> \in A \/ <<j, i>> \in A
  <2> TAKE i, j \in S
  <2>1. i \in Nat /\ j \in Nat
    BY <1>2
  <2> QED
    BY <2>1, <1>1
<1>6. \A i \in S : {j \in S : j < i} = {j \in S : <<j, i>> \in A}
  BY <1>1
<1>7. \A i \in S : Rank(S, i) = Cardinality(Preceding(A, S, i))
  BY <1>6 DEF Rank, Preceding
<1> QED
  BY <1>3, <1>4, <1>5, <1>7 DEF A, IsOrder

LEMMA RankGrows ==
  ASSUME NEW S, IsFiniteSet(S), S \subseteq Nat, NEW i \in S, NEW k \in S, i < k
  PROVE  Rank(S, i) < Rank(S, k)
<1> DEFINE A == {p \in S \X S : p[1] < p[2]}
<1>1. <<i, k>> \in A
  OBVIOUS
<1>2. IsOrder(A, S) /\ \A j \in S : Rank(S, j) = Cardinality(Preceding(A, S, j))
  BY NumbersInOrder
<1> HIDE DEF A
<1>3. Cardinality(Preceding(A, S, i)) < Cardinality(Preceding(A, S, k))
  BY <1>1, <1>2, PrecedingGrows
<1> QED
  BY <1>2, <1>3

LEMMA RanksFill ==
  ASSUME NEW S, IsFiniteSet(S), S \subseteq Nat
  PROVE  /\ Cardinality(S) \in Nat
         /\ \A i \in S : Rank(S, i) \in 0..Cardinality(S) - 1
         /\ \A k \in 1..Cardinality(S) : \E i \in S : Rank(S, i) = k - 1
<1> DEFINE A == {p \in S \X S : p[1] < p[2]}
<1>1. IsOrder(A, S) /\ \A i \in S : Rank(S, i) = Cardinality(Preceding(A, S, i))
  BY NumbersInOrder
<1> HIDE DEF A
<1>2. /\ Cardinality(S) \in Nat
      /\ \A i \in S : Cardinality(Preceding(A, S, i)) \in 0..Cardinality(S) - 1
      /\ \A k \in 1..Cardinality(S) : \E i \in S : Cardinality(Preceding(A, S, i)) = k - 1
  BY <1>1, PrecedingFills
<1> QED
  BY <1>1, <1>2

\* The elements in order are all of them, and in order.
LEMMA AscendingProps ==
  ASSUME NEW S, IsFiniteSet(S), S \subseteq Nat
  PROVE  /\ Cardinality(S) \in Nat
         /\ Ascending(S) \in Seq(S) /\ Len(Ascending(S)) = Cardinality(S)
         /\ DOMAIN Ascending(S) = 1..Cardinality(S)
         /\ \A k, l \in 1..Cardinality(S) : k < l => Ascending(S)[k] < Ascending(S)[l]
         /\ \A i \in S : \E k \in 1..Cardinality(S) : Ascending(S)[k] = i
<1> DEFINE n == Cardinality(S)
           a == Ascending(S)
<1>1. /\ n \in Nat /\ \A i \in S : Rank(S, i) \in 0..n - 1
      /\ \A k \in 1..n : \E i \in S : Rank(S, i) = k - 1
  BY RanksFill
<1>2. \A i, k \in S : i < k => Rank(S, i) < Rank(S, k)
  BY RankGrows
<1>3. a = [k \in 1..n |-> CHOOSE i \in S : Rank(S, i) = k - 1]
  BY DEF Ascending
<1> HIDE DEF n, a
<1>4. \A k \in 1..n : a[k] \in S /\ Rank(S, a[k]) = k - 1
  BY <1>1, <1>3
<1>5. a \in Seq(S) /\ Len(a) = n /\ DOMAIN a = 1..n
  <2>1. a \in [1..n -> S]
    BY <1>3, <1>4
  <2> QED
    BY <2>1, <1>1, FunctionIsSequence
<1>6. ASSUME NEW k \in 1..n, NEW l \in 1..n, k < l PROVE a[k] < a[l]
  <2>1. a[k] \in Nat /\ a[l] \in Nat
    BY <1>4
  <2>2. Rank(S, a[k]) < Rank(S, a[l])
    BY <1>4, <1>6
  <2>3. ~(a[l] < a[k]) /\ a[l] # a[k]
    <3>1. ASSUME a[l] < a[k] PROVE FALSE
      <4>1. Rank(S, a[l]) < Rank(S, a[k])
        BY <3>1, <1>2, <1>4
      <4>2. l - 1 < k - 1
        BY <4>1, <1>4
      <4> QED
        BY <4>2, <1>6
    <3>2. a[l] # a[k]
      <4>1. k - 1 # l - 1
        BY <1>6
      <4> QED
        BY <4>1, <1>4
    <3> QED
      BY <3>1, <3>2
  <2> QED
    BY <2>1, <2>3
<1>7. ASSUME NEW i \in S PROVE \E k \in 1..n : a[k] = i
  <2> DEFINE k == Rank(S, i) + 1
  <2>1. Rank(S, i) \in 0..n - 1
    BY <1>1
  <2>2. k \in 1..n /\ k - 1 = Rank(S, i)
    BY <2>1, <1>1
  <2> HIDE DEF k
  <2>3. a[k] \in S /\ Rank(S, a[k]) = Rank(S, i)
    BY <2>2, <1>4
  <2>4. a[k] \in Nat /\ i \in Nat
    BY <2>3
  <2>5. a[k] < i \/ i < a[k] \/ a[k] = i
    BY <2>4
  <2> QED
    BY <2>2, <2>3, <2>4, <2>5, <1>2
<1> QED
  BY <1>1, <1>5, <1>6, <1>7 DEF n, a

\* All of 1..n in order is every number at its own place.
LEMMA InOrderIsIdentity ==
  ASSUME NEW n \in Nat, NEW r \in [1..n -> 1..n],
         \A k, l \in 1..n : k < l => r[k] < r[l],
         \A i \in 1..n : \E k \in 1..n : r[k] = i
  PROVE  r = [k \in 1..n |-> k]
<1> DEFINE Off == {k \in 1..n : r[k] # k}
<1> SUFFICES ASSUME Off # {} PROVE FALSE
  OBVIOUS
<1>1. IsFiniteSet(1..n)
  BY FS_Interval
<1>2. IsFiniteSet(Off) /\ Off \subseteq Nat /\ Cardinality(Off) # 0
  <2>1. IsFiniteSet(Off)
    BY <1>1, FS_Subset
  <2> HIDE DEF Off
  <2>2. Cardinality(Off) # 0
    BY <2>1, FS_EmptySet
  <2> QED
    BY <2>1, <2>2 DEF Off
<1> DEFINE a == Ascending(Off)
           k == a[1]
<1>3. k \in Off /\ \A l \in Off : k <= l
  <2> HIDE DEF Off
  <2>1. /\ Cardinality(Off) \in Nat /\ a \in Seq(Off) /\ Len(a) = Cardinality(Off)
        /\ \A x, y \in 1..Cardinality(Off) : x < y => a[x] < a[y]
        /\ \A i \in Off : \E x \in 1..Cardinality(Off) : a[x] = i
    BY <1>2, AscendingProps
  <2> HIDE DEF a
  <2>2. 1 \in 1..Len(a)
    BY <2>1, <1>2
  <2>3. k \in Off
    BY <2>1, <2>2, ElementOfSeq
  <2>4. ASSUME NEW l \in Off PROVE k <= l
    <3>1. PICK x \in 1..Cardinality(Off) : a[x] = l
      BY <2>1
    <3>2. x = 1 \/ 1 < x
      BY <2>1
    <3>3. 1 \in 1..Cardinality(Off) /\ k \in Nat /\ l \in Nat
      BY <2>1, <2>2, <2>3, <1>2
    <3> QED
      BY <3>1, <3>2, <3>3, <2>1
  <2> QED
    BY <2>3, <2>4
<1> HIDE DEF k
<1>4. k \in 1..n /\ r[k] \in 1..n /\ r[k] # k
  BY <1>3 DEF Off
<1>5. \A i \in 1..n : i < k => r[i] = i
  <2> TAKE i \in 1..n
  <2>1. i \in Off => k <= i
    BY <1>3
  <2> QED
    BY <2>1, <1>4 DEF Off
<1>6. r[k] > k
  <2>1. ~(r[k] < k)
    <3> SUFFICES ASSUME r[k] < k PROVE FALSE
      OBVIOUS
    <3>1. r[r[k]] = r[k]
      BY <1>4, <1>5
    <3>2. r[r[k]] < r[k]
      BY <1>4
    <3> QED
      BY <3>1, <3>2, <1>4
  <2> QED
    BY <2>1, <1>4
<1>7. PICK l \in 1..n : r[l] = k
  BY <1>4
<1>8. CASE l < k
  BY <1>4, <1>5, <1>7, <1>8
<1>9. CASE l = k
  BY <1>4, <1>7, <1>9
<1>10. CASE k < l
  <2>1. r[k] < r[l]
    BY <1>4, <1>10
  <2> QED
    BY <2>1, <1>4, <1>6, <1>7
<1> QED
  BY <1>4, <1>8, <1>9, <1>10

LEMMA WithoutProps ==
  ASSUME NEW S, NEW s \in Seq(S), Distinct(s), NEW x
  PROVE  Without(s, x) \in Seq(S) /\ Distinct(Without(s, x))
<1> DEFINE I == {i \in DOMAIN s : s[i] # x}
           kept == Ascending(I)
           t == Without(s, x)
<1>1. DOMAIN s = 1..Len(s) /\ Len(s) \in Nat
  BY LenProperties
<1>2. IsFiniteSet(I) /\ I \subseteq 1..Len(s) /\ I \subseteq Nat
  <2>1. IsFiniteSet(1..Len(s))
    BY <1>1, FS_Interval
  <2> QED
    BY <2>1, <1>1, FS_Subset
<1>3. t = [k \in DOMAIN kept |-> s[kept[k]]]
  BY DEF Without
<1> HIDE DEF I, t
<1> DEFINE n == Cardinality(I)
<1>4. /\ n \in Nat /\ kept \in Seq(I) /\ Len(kept) = n /\ DOMAIN kept = 1..n
      /\ \A k, l \in 1..n : k < l => kept[k] < kept[l]
  BY <1>2, AscendingProps
<1> HIDE DEF n, kept
<1>5. \A k \in 1..n : kept[k] \in 1..Len(s)
  BY <1>2, <1>4, ElementOfSeq
<1>6. t \in [1..n -> S]
  BY <1>3, <1>4, <1>5, ElementOfSeq
<1>7. t \in Seq(S) /\ Len(t) = n
  BY <1>4, <1>6, FunctionIsSequence
<1>8. ASSUME NEW k \in 1..n, NEW l \in 1..n, t[k] = t[l] PROVE k = l
  <2>1. s[kept[k]] = s[kept[l]]
    BY <1>3, <1>4, <1>8
  <2>2. kept[k] = kept[l]
    BY <2>1, <1>5 DEF Distinct
  <2>3. kept[k] \in Nat /\ kept[l] \in Nat
    BY <1>1, <1>5
  <2>4. k < l \/ l < k \/ k = l
    BY <1>4
  <2> QED
    BY <2>2, <2>3, <2>4, <1>4
<1>9. Distinct(t)
  BY <1>7, <1>8 DEF Distinct
<1> QED
  BY <1>7, <1>9 DEF t
----------------------------------------------------------------------------
(* The inductive invariant: the dispatcher and the run *)

\* Nobody is told twice, in whatever context.
Subscribed ==
  /\ subscribers = [c \in Contexts |-> subscribers[c]]
  /\ \A c \in Contexts : subscribers[c] \in Seq(Subscribers) /\ Distinct(subscribers[c])

\* The lock is held for an emission.
LockInv == lock \in Contexts \cup {None} /\ (lock # None => calls[lock] # <<>>)

\* The scope the run is started in, filled in or not.
OuterParent == IF outer = None THEN None ELSE outer.parent
OuterStage == IF outer = None THEN None ELSE outer.stage
OuterField(f) == IF outer = None THEN None ELSE outer.fields[f]

Started == run \in {"running", "over"}

RunInv ==
  /\ run \in {"idle", "around", "running", "over"}
  /\ outer \in Outers \cup {None} /\ lifecycle \in Lifecycles \cup {None}
  /\ run = "idle" <=> ~Started /\ outer = None
  /\ Started <=> dispatcher # None
  /\ ~Started => told = {} /\ \A w \in Engines : phase[w] = "ready"

\* What an engine's events are stamped with.
ScopeInv ==
  /\ scopes = [c \in Contexts |-> scopes[c]]
  /\ ~Started =>
       /\ IsSequence(scopes[Main])
       /\ Scope(Main).execution = IF outer = None THEN None ELSE "outer"
       /\ Scope(Main).parent = OuterParent /\ Scope(Main).stage = OuterStage
       /\ \A f \in Fields : Scope(Main).fields[f] = OuterField(f)
  /\ Started =>
       /\ dispatcher.parent = IF outer = None THEN None ELSE "outer"
       /\ dispatcher.stage = OuterStage
       /\ \A w \in Engines :
            /\ Scope(w).parent = OuterParent /\ Scope(w).stage = OuterStage
            /\ \A f \in Fields : Scope(w).fields[f] = Given(RunFields[f], OuterField(f))

\* An event as it should be told.
Correlated(e) ==
  /\ e.parent = IF outer = None THEN None ELSE Given(outer.parent, "outer")
  /\ e.stage = OuterStage
  /\ \A f \in Fields :
       e.fields[f] = Given(IF e.from = "bridge" THEN BridgeFields[f] ELSE None,
                           Given(RunFields[f], OuterField(f)))

FrameInv == \A c \in Contexts : \A i \in DOMAIN calls[c] : Correlated(calls[c][i].event)

----------------------------------------------------------------------------
(* The inductive invariant: the engines *)

Shapes ==
  /\ phase \in [Engines -> Phases]
  /\ why \in [Engines -> {"", "rollouts", "scoring", "told"}]
  /\ rolled = [w \in Engines |-> rolled[w]] /\ queue = [w \in Engines |-> queue[w]]
  /\ entered = [w \in Engines |-> entered[w]] /\ result = [w \in Engines |-> result[w]]
  /\ tricks \in 0..MaxTricks

\* What may be about to be told, by where the evaluation is.
Upcoming(w, e) ==
  \/ /\ phase[w] = "called"
     /\ \E k : /\ e = Event(w, "bridge", k, 0, BridgeFields)
               /\ k \notin {"RunCompleted", "RunFailed"}
               /\ k = "RunStarted" => lifecycle = "full"
  \/ phase[w] = "starting" /\ e = SinkEvent(w, "EvaluationStarted", 0)
  \/ /\ phase[w] = "failing"
     /\ \E k \in {"EvaluationSkipped", "BackendError"} : e = SinkEvent(w, k, 0)
  \/ /\ phase[w] = "completing"
     /\ \E k \in {"CaseEvaluated", "MetricCompleted", "EvaluationCompleted",
                  "CandidateEvaluated"}, at \in Nat : e = SinkEvent(w, k, at)
  \/ /\ phase[w] = "reporting"
     /\ \E k : /\ e = Event(w, "bridge", k, 0, BridgeFields)
               /\ k # "RunStarted"
               /\ k \in RunKinds => lifecycle = "full"

QueueInv(w) ==
  /\ IsSequence(queue[w])
  /\ \A i \in 1..Len(queue[w]) : Upcoming(w, queue[w][i])

\* The queue is the end of what is told of a completed evaluation, and the rest
\* was told.
CompletingInv(w) ==
  LET all == CompletedEvents(w) IN
  /\ Len(queue[w]) <= Len(all)
  /\ \A i \in 1..Len(queue[w]) : queue[w][i] = all[Len(all) - Len(queue[w]) + i]
  /\ \A i \in 1..Len(all) - Len(queue[w]) : Sunk(w, all[i].kind, all[i].at)

\* The rollouts and what is in force for them
RolloutInv(w) ==
  /\ IsSequence(entered[w]) /\ Len(entered[w]) <= Len(Injections)
  /\ phase[w] \notin {"injecting", "rolling"} => entered[w] = <<>>
  /\ rolled[w] \in [DOMAIN BatchOf[w] -> OutcomesOf[w] \cup {None}]
  /\ phase[w] \in {"ready", "called", "starting", "injecting", "rolling", "failing"}
       => result[w] = None
  /\ phase[w] \in {"scored", "completing", "returned"} => result[w] = EvaluationBatch(w)
  /\ result[w] # None => result[w] = EvaluationBatch(w)

\* What was told of the evaluation
SinkInv(w) ==
  /\ ~Idle(w) => phase[w] \in {"called", "starting", "failing", "completing", "reporting"}
  /\ phase[w] \in {"injecting", "rolling", "failing", "scored", "completing", "returned"}
       => Sunk(w, "EvaluationStarted", 0)
  /\ phase[w] = "starting" => queue[w] # <<>> \/ Sunk(w, "EvaluationStarted", 0)
  /\ Sunk(w, "EvaluationCompleted", 0) =>
       /\ phase[w] \in {"completing", "returned", "raised", "reporting", "over"}
       /\ Sunk(w, "EvaluationStarted", 0) /\ ~Sunk(w, "EvaluationSkipped", 0)
       /\ \A i \in DOMAIN BatchOf[w] : Sunk(w, "CaseEvaluated", i) /\ Sunk(w, "MetricCompleted", i)
  /\ Sunk(w, "EvaluationSkipped", 0) => phase[w] \in {"failing", "raised", "reporting", "over"}
  /\ phase[w] = "completing" => CompletingInv(w)
  /\ phase[w] = "returned" =>
       Sunk(w, "EvaluationCompleted", 0) /\ Sunk(w, "CandidateEvaluated", 0)
  /\ phase[w] = "failing" =>
       (queue[w] = FailedEvents(w) /\ Idle(w)) \/ Sunk(w, "EvaluationSkipped", 0)
  /\ why[w] = "rollouts" => phase[w] \in {"failing", "raised", "reporting", "over"}
  /\ phase[w] = "raised" /\ why[w] = "rollouts" => Sunk(w, "EvaluationSkipped", 0)

\* An end of the run that was told or is about to be
Ends(w, kind) ==
  \/ Bridged(w, kind)
  \/ \E i \in 1..Len(queue[w]) : queue[w][i] = Event(w, "bridge", kind, 0, BridgeFields)

\* What was told of the run
BridgeInv(w) ==
  /\ phase[w] = "ready" => \A k : ~Bridged(w, k)
  /\ lifecycle # "full" => \A k \in RunKinds : ~Bridged(w, k)
  /\ phase[w] = "called" /\ lifecycle = "full" =>
       \/ Bridged(w, "RunStarted")
       \/ queue[w] # <<>> /\ queue[w][1] = Event(w, "bridge", "RunStarted", 0, BridgeFields)
  /\ phase[w] \notin {"ready", "called", "over"} /\ lifecycle = "full" => Bridged(w, "RunStarted")
  /\ Bridged(w, "RunCompleted") \/ Bridged(w, "RunFailed") =>
       phase[w] \in {"reporting", "over"} /\ Bridged(w, "RunStarted")
  /\ ~(Ends(w, "RunCompleted") /\ Ends(w, "RunFailed"))

EngineInv(w) == QueueInv(w) /\ RolloutInv(w) /\ SinkInv(w) /\ BridgeInv(w)

IInv ==
  /\ DispatchInv /\ CountInv /\ Subscribed /\ LockInv
  /\ RunInv /\ ScopeInv /\ FrameInv
  /\ Shapes /\ \A w \in Engines : EngineInv(w)

----------------------------------------------------------------------------
(* Every step is one of the dispatcher, or none of its business *)

\* The steps of an evaluation other than emissions
Works(w) ==
  \/ \E c \in CandidatesOf[w] : Begin(w, c)
  \/ Evaluate(w) \/ Announced(w) \/ Inject(w)
  \/ \E i \in DOMAIN BatchOf[w], o \in OutcomesOf[w] : Roll(w, i, o)
  \/ RolloutsRaise(w) \/ Score(w) \/ Record(w) \/ ScoringRaises(w)
  \/ Return(w) \/ Raise(w) \/ Reflect(w) \/ Report(w) \/ Done(w)

Emits(w) == Tell(w) \/ TellReturns(w) \/ Observes(w) \/ Interrupted(w)

LEMMA EngineSteps == ASSUME NEW w, EngineNext(w) PROVE Works(w) \/ Emits(w)
BY DEF EngineNext, Works, Emits

LEMMA WorkIsQuiet ==
  ASSUME NEW w, Works(w)
  PROVE  /\ UNCHANGED progress /\ UNCHANGED <<subscribers, scopes>>
         /\ UNCHANGED <<run, outer, lifecycle, told>>
         /\ tricks' = tricks \/ (tricks < MaxTricks /\ tricks' = tricks + 1)
<1> USE DEF progress, subscription, delivery
<1>1. CASE \E c \in CandidatesOf[w] : Begin(w, c)
  BY <1>1 DEF Begin, dispatchVars
<1>2. CASE Evaluate(w) \/ Announced(w)
  BY <1>2 DEF Evaluate, Announced, Go
<1>3. CASE Inject(w)
  BY <1>3 DEF Inject, Go
<1>4. CASE \E i \in DOMAIN BatchOf[w], o \in OutcomesOf[w] : Roll(w, i, o)
  BY <1>4 DEF Roll, Go
<1>5. CASE RolloutsRaise(w) \/ ScoringRaises(w)
  BY <1>5 DEF RolloutsRaise, ScoringRaises, Go, Fault
<1>6. CASE Score(w) \/ Record(w) \/ Return(w) \/ Raise(w)
  BY <1>6 DEF Score, Record, Return, Raise, Go
<1>7. CASE Reflect(w) \/ Report(w) \/ Done(w)
  BY <1>7 DEF Reflect, Report, Done, Go
<1> QED
  BY <1>1, <1>2, <1>3, <1>4, <1>5, <1>6, <1>7 DEF Works

\* What is said of an emission below holds of all that an observer may do.
LEMMA EmissionDelivers ==
  ASSUME NEW w, Emits(w)
  PROVE  Delivers(w) /\ UNCHANGED <<scopes, dispatcher, run, outer, lifecycle>>
<1>1. CASE Tell(w)
  BY <1>1 DEF Tell, Delivers
<1>2. CASE TellReturns(w)
  BY <1>2 DEF TellReturns, Delivers
<1>3. CASE Observes(w)
  BY <1>3 DEF Observes, Delivers
<1>4. CASE Interrupted(w)
  BY <1>4 DEF Interrupted, Delivers
<1> QED
  BY <1>1, <1>2, <1>3, <1>4 DEF Emits

\* Whoever emits does so in a run.
LEMMA EmissionInRun ==
  ASSUME DispatchInv, RunInv, NEW w \in Engines, QueueInv(w), Emits(w)
  PROVE  dispatcher # None /\ w \in Contexts
<1>1. w \in Contexts
  BY AdapterAssumption
<1>2. CASE Tell(w)
  <2>1. IsSequence(queue[w]) /\ queue[w] # <<>>
    BY <1>2 DEF Tell, QueueInv
  <2>2. 1 \in 1..Len(queue[w])
    BY <2>1, LengthAny
  <2>3. phase[w] # "ready"
    BY <2>2 DEF QueueInv, Upcoming
  <2> QED
    BY <1>1, <2>3 DEF RunInv
<1>3. CASE TellReturns(w) \/ Observes(w) \/ Interrupted(w)
  <2>1. calls[w] # <<>>
    BY <1>3 DEF TellReturns, Observes, Interrupted, Leave, Returns, Raises, ClosesItself,
       NestedReturns, EmitsItself, Interrupts, Trick, Telling, Told, Idle
  <2> QED
    BY <1>1, <2>1 DEF DispatchInv, Untouched
<1> QED
  BY <1>2, <1>3 DEF Emits

\* A dispatcher tells its own observers and the subscribers of the moment, each
\* of them once.
LEMMA StartMakes ==
  ASSUME RunInv, ScopeInv, Subscribed, NEW l, StartRun(l)
  PROVE  Made
<1> DEFINE d == Dispatcher(Main, "run")
           t == Locals \o subscribers[Main]
<1>1. /\ dispatcher = None /\ dispatcher' = d
      /\ UNCHANGED <<number, lock, calls, heard, nested, missed>>
  BY DEF StartRun, RunInv, Started, delivery
<1>2. /\ Locals \in Seq(Observers) /\ subscribers[Main] \in Seq(Subscribers)
      /\ Distinct(subscribers[Main]) /\ Subscribers \subseteq Observers
  BY AdapterAssumption DEF Subscribed, Observers
<1>3. subscribers[Main] \in Seq(Observers)
  BY <1>2, SeqMonotonic
<1>4. /\ t \in Seq(Observers) /\ Len(t) = Len(Locals) + Len(subscribers[Main])
      /\ \A i \in 1..Len(Locals) + Len(subscribers[Main]) :
           t[i] = IF i <= Len(Locals) THEN Locals[i] ELSE subscribers[Main][i - Len(Locals)]
  BY <1>2, <1>3, ConcatProperties
<1>5. /\ Len(Locals) \in Nat /\ Len(subscribers[Main]) \in Nat
      /\ DOMAIN Locals = 1..Len(Locals)
  BY <1>2, LenProperties
<1>6. \A j \in 1..Len(subscribers[Main]) : subscribers[Main][j] \in Subscribers
  BY <1>2, ElementOfSeq
<1>7. Distinct(t)
  <2> HIDE DEF t
  <2> SUFFICES ASSUME NEW i \in 1..Len(t), NEW j \in 1..Len(t), t[i] = t[j] PROVE i = j
    BY DEF Distinct
  <2>1. CASE i <= Len(Locals) /\ j <= Len(Locals)
    <3>1. i \in DOMAIN Locals /\ j \in DOMAIN Locals /\ Locals[i] = Locals[j]
      BY <2>1, <1>4, <1>5
    <3> QED
      BY <3>1, AdapterAssumption
  <2>2. CASE i <= Len(Locals) /\ ~(j <= Len(Locals))
    <3>1. /\ i \in DOMAIN Locals /\ j - Len(Locals) \in 1..Len(subscribers[Main])
          /\ Locals[i] = subscribers[Main][j - Len(Locals)]
      BY <2>2, <1>4, <1>5
    <3> QED
      BY <3>1, <1>6, AdapterAssumption
  <2>3. CASE ~(i <= Len(Locals)) /\ j <= Len(Locals)
    <3>1. /\ j \in DOMAIN Locals /\ i - Len(Locals) \in 1..Len(subscribers[Main])
          /\ Locals[j] = subscribers[Main][i - Len(Locals)]
      BY <2>3, <1>4, <1>5
    <3> QED
      BY <3>1, <1>6, AdapterAssumption
  <2>4. CASE ~(i <= Len(Locals)) /\ ~(j <= Len(Locals))
    <3>1. /\ i - Len(Locals) \in 1..Len(subscribers[Main])
          /\ j - Len(Locals) \in 1..Len(subscribers[Main])
          /\ subscribers[Main][i - Len(Locals)] = subscribers[Main][j - Len(Locals)]
      BY <2>4, <1>4, <1>5
    <3>2. i - Len(Locals) = j - Len(Locals)
      BY <3>1, <1>2 DEF Distinct
    <3> QED
      BY <3>2, <1>4, <1>5
  <2> QED
    BY <2>1, <2>2, <2>3, <2>4
<1>8. d.told = t
  BY DEF Dispatcher
<1> HIDE DEF t
<1>9. d # None
  <2>1. Scope(Main).stage \in {None} \cup {s.stage : s \in Outers}
    BY DEF StartRun, ScopeInv, RunInv, Started, OuterStage
  <2>2. Scope(Main).execution \in {None, "outer"}
    BY DEF StartRun, ScopeInv, RunInv, Started
  <2>3. d \in [execution: {"run"}, parent: {None, "outer"},
               stage: {None} \cup {s.stage : s \in Outers}, told: Seq(Observers)]
    BY <2>1, <2>2, <1>4, <1>8 DEF Dispatcher
  <2> QED
    BY <2>3, NoneAssumption
<1> QED
  BY <1>1, <1>4, <1>7, <1>8, <1>9 DEF Made

\* The kinds of steps
Settles == Setting \/ (\E s \in Outers : EnterAround(s)) \/ EndRun \/ UNCHANGED vars

LEMMA StepKinds ==
  ASSUME [Next]_vars
  PROVE  \/ Settles \/ (\E l \in Lifecycles : StartRun(l))
         \/ \E w \in Engines : Works(w) \/ Emits(w)
BY EngineSteps DEF Next, Rest, Settles

LEMMA SettlesQuietly == Settles => UNCHANGED progress /\ UNCHANGED <<engineVars, told, tricks>>
<1> USE DEF progress, delivery
<1>1. CASE Setting
  BY <1>1 DEF Setting
<1>2. CASE \E s \in Outers : EnterAround(s)
  BY <1>2 DEF EnterAround
<1>3. CASE EndRun
  BY <1>3 DEF EndRun
<1>4. CASE UNCHANGED vars
  BY <1>4 DEF vars, dispatchVars
<1> QED
  BY <1>1, <1>2, <1>3, <1>4 DEF Settles

LEMMA NextDispatches ==
  ASSUME IInv, [Next]_vars
  PROVE  [DispatchNext]_progress
<1>1. CASE Settles
  BY <1>1, SettlesQuietly
<1>2. CASE \E l \in Lifecycles : StartRun(l)
  BY <1>2, StartMakes DEF IInv, DispatchNext
<1>3. ASSUME NEW w \in Engines, Works(w) PROVE UNCHANGED progress
  BY <1>3, WorkIsQuiet
<1>4. ASSUME NEW w \in Engines, Emits(w) PROVE DispatchNext
  <2>1. dispatcher # None /\ w \in Contexts
    BY <1>4, EmissionInRun DEF IInv, EngineInv
  <2>2. Delivers(w) /\ UNCHANGED dispatcher
    BY <1>4, EmissionDelivers
  <2> QED
    BY <2>1, <2>2 DEF DispatchNext
<1> QED
  BY <1>1, <1>2, <1>3, <1>4, StepKinds

LEMMA DispatchKept == IInv /\ [Next]_vars => DispatchInv' /\ CountInv'
BY NextDispatches, NextKeeps, NextCounts DEF IInv

----------------------------------------------------------------------------
(* Subscriptions *)

LEMMA SubscribeKeeps ==
  ASSUME Subscribed, NEW c \in Contexts, NEW o \in Subscribers, Subscribe(c, o)
  PROVE  Subscribed'
<1> DEFINE s == subscribers[c]
           t == Append(s, o)
<1>1. s \in Seq(Subscribers) /\ Distinct(s) /\ ~Holds(s, o)
      /\ subscribers' = [subscribers EXCEPT ![c] = t]
  BY DEF Subscribed, Subscribe
<1> HIDE DEF s
<1>2. /\ t \in Seq(Subscribers) /\ Len(t) = Len(s) + 1
      /\ \A i \in 1..Len(s) : t[i] = s[i]
      /\ t[Len(s) + 1] = o
  BY <1>1, AppendProperties
<1>3. Len(s) \in Nat /\ DOMAIN s = 1..Len(s)
  BY <1>1, LenProperties
<1> HIDE DEF t
<1>4. ASSUME NEW i \in 1..Len(t), NEW j \in 1..Len(t), t[i] = t[j] PROVE i = j
  <2>1. (i \in 1..Len(s) \/ i = Len(s) + 1) /\ (j \in 1..Len(s) \/ j = Len(s) + 1)
    BY <1>2, <1>3
  <2>2. \A k \in 1..Len(s) : t[k] # o
    BY <1>1, <1>2, <1>3 DEF Holds
  <2> QED
    BY <2>1, <2>2, <1>1, <1>2, <1>4 DEF Distinct
<1>5. Distinct(t)
  BY <1>4 DEF Distinct
<1>6. /\ \A d \in Contexts : subscribers'[d] \in Seq(Subscribers) /\ Distinct(subscribers'[d])
      /\ subscribers' = [d \in Contexts |-> subscribers'[d]]
  BY <1>1, <1>2, <1>5 DEF Subscribed
<1> QED
  BY <1>6 DEF Subscribed, Distinct

LEMMA CloseKeeps ==
  ASSUME Subscribed, NEW c \in Contexts, NEW o, Close(c, o)
  PROVE  Subscribed'
<1>1. CASE closed[o] # None
  BY <1>1 DEF Close, subscription, Subscribed, Distinct
<1>2. CASE closed[o] = None
  <2> DEFINE t == Without(subscribers[c], o)
  <2>1. subscribers' = [subscribers EXCEPT ![c] = t]
    BY <1>2 DEF Close
  <2>2. t \in Seq(Subscribers) /\ Distinct(t)
    BY WithoutProps DEF Subscribed
  <2> HIDE DEF t
  <2>3. /\ \A d \in Contexts : subscribers'[d] \in Seq(Subscribers) /\ Distinct(subscribers'[d])
        /\ subscribers' = [d \in Contexts |-> subscribers'[d]]
    BY <2>1, <2>2 DEF Subscribed
  <2> QED
    BY <2>3 DEF Subscribed, Distinct
<1> QED
  BY <1>1, <1>2

LEMMA SubscribedKept ==
  ASSUME IInv, [Next]_vars
  PROVE  Subscribed'
<1>1. Subscribed /\ Main \in Contexts
  BY AdapterAssumption DEF IInv
<1>2. ASSUME UNCHANGED subscribers PROVE Subscribed'
  BY <1>1, <1>2 DEF Subscribed, Distinct
<1>3. CASE Settles
  <2>1. CASE Setting
    BY <2>1, <1>1, SubscribeKeeps, CloseKeeps DEF Setting
  <2>2. CASE (\E s \in Outers : EnterAround(s)) \/ EndRun \/ UNCHANGED vars
    BY <2>2, <1>2 DEF EnterAround, EndRun, vars, dispatchVars, subscription
  <2> QED
    BY <1>3, <2>1, <2>2 DEF Settles
<1>4. CASE \E l \in Lifecycles : StartRun(l)
  <2>1. subscribers' = [k \in Contexts |-> subscribers[Main]]
    BY <1>4 DEF StartRun
  <2>2. \A k \in Contexts : subscribers'[k] \in Seq(Subscribers) /\ Distinct(subscribers'[k])
    BY <2>1, <1>1 DEF Subscribed
  <2> QED
    BY <2>1, <2>2 DEF Subscribed, Distinct
<1>5. ASSUME NEW w \in Engines, Works(w) PROVE Subscribed'
  BY <1>5, <1>2, WorkIsQuiet
<1>6. ASSUME NEW w \in Engines, Emits(w) PROVE Subscribed'
  <2>1. w \in Contexts
    BY AdapterAssumption
  <2>2. CASE ClosesItself(w)
    BY <2>1, <2>2, <1>1, CloseKeeps DEF ClosesItself
  <2>3. CASE ~ClosesItself(w)
    <3>1. UNCHANGED subscribers
      BY <1>6, <2>3 DEF Emits, Tell, TellReturns, Observes, Interrupted, Emit, Leave, Returns,
         Raises, NestedReturns, EmitsItself, Interrupts, subscription
    <3> QED
      BY <3>1, <1>2
  <2> QED
    BY <2>2, <2>3
<1> QED
  BY <1>3, <1>4, <1>5, <1>6, StepKinds

----------------------------------------------------------------------------
(* The lock *)

\* What an emission makes of the stack of its context, and who holds the lock
LEMMA StackAndLock ==
  ASSUME DispatchInv, LockInv, NEW c \in Contexts, Delivers(c)
  PROVE  \E s : /\ calls' = [calls EXCEPT ![c] = s]
                /\ \/ s # <<>> /\ lock' = c
                   \/ s = <<>> /\ lock' = None
<1>1. IsSequence(calls[c])
  BY EmptyAny DEF DispatchInv, GoodStack, Untouched
<1>2. calls[c] # <<>> => lock = c
  BY DEF DispatchInv, Exclusive
<1>3. \A s, x : IsSequence(s) => Append(s, x) # <<>>
  <2> TAKE s, x
  <2> SUFFICES ASSUME IsSequence(s) PROVE Append(s, x) # <<>>
    OBVIOUS
  <2>1. Len(Append(s, x)) = Len(s) + 1 /\ Len(s) \in Nat
    BY AppendAny, LengthAny
  <2> QED
    BY <2>1, EmptyAny
<1>4. \A s : IsSequence(s) /\ s # <<>> => IsSequence(Below(s))
  BY BelowAny
<1>5. CASE \E e : Emit(c, e, None)
  <2>1. PICK e : Emit(c, e, None)
    BY <1>5
  <2> DEFINE s == Append(calls[c], Frame(c, e, None))
  <2>2. calls' = [calls EXCEPT ![c] = s] /\ lock' = c
    BY <2>1 DEF Emit
  <2>3. s # <<>>
    BY <1>1, <1>3
  <2> QED
    BY <2>2, <2>3
<1>6. CASE Returns(c) \/ Raises(c) \/ ClosesItself(c)
  <2>1. /\ \E g : calls' = [calls EXCEPT ![c] = Append(Below(calls[c]), g)]
        /\ lock' = lock /\ calls[c] # <<>>
    BY <1>6 DEF Returns, Raises, ClosesItself, WithTop, Trick, Telling, Idle
  <2>2. PICK g : calls' = [calls EXCEPT ![c] = Append(Below(calls[c]), g)]
    BY <2>1
  <2>3. Append(Below(calls[c]), g) # <<>>
    BY <2>1, <1>1, <1>3, <1>4
  <2> QED
    BY <2>1, <2>2, <2>3, <1>2
<1>7. CASE \E e : EmitsItself(c, e)
  <2>1. PICK e : EmitsItself(c, e)
    BY <1>7
  <2> DEFINE s == Append(Append(Below(calls[c]), After(c)), Frame(c, e, Head(Top(calls[c]).todo)))
  <2>2. calls' = [calls EXCEPT ![c] = s] /\ lock' = c /\ calls[c] # <<>>
    BY <2>1 DEF EmitsItself, Trick, Telling, Idle
  <2>3. IsSequence(Append(Below(calls[c]), After(c)))
    BY <2>2, <1>1, <1>4, AppendAny
  <2>4. s # <<>>
    BY <2>3, <1>3
  <2> QED
    BY <2>2, <2>4
<1>8. CASE NestedReturns(c)
  <2>1. /\ \E g : calls' = [calls EXCEPT ![c] = Append(Below(Below(calls[c])), g)]
        /\ lock' = lock /\ calls[c] # <<>> /\ Len(calls[c]) > 1
    BY <1>8 DEF NestedReturns, Told, Idle
  <2>2. PICK g : calls' = [calls EXCEPT ![c] = Append(Below(Below(calls[c])), g)]
    BY <2>1
  <2>3. IsSequence(Below(calls[c])) /\ Len(Below(calls[c])) = Len(calls[c]) - 1
        /\ Len(calls[c]) \in Nat
    BY <2>1, <1>1, BelowAny
  <2>4. Below(calls[c]) # <<>>
    BY <2>1, <2>3, EmptyAny
  <2>5. Append(Below(Below(calls[c])), g) # <<>>
    BY <2>3, <2>4, <1>3, <1>4
  <2> QED
    BY <2>1, <2>2, <2>5, <1>2
<1>9. CASE Leave(c) \/ Interrupts(c)
  BY <1>9 DEF Leave, Interrupts
<1> QED
  BY <1>5, <1>6, <1>7, <1>8, <1>9 DEF Delivers

LEMMA LockKept ==
  ASSUME IInv, [Next]_vars
  PROVE  LockInv'
<1>1. DispatchInv /\ LockInv
  BY DEF IInv
<1>2. ASSUME UNCHANGED progress PROVE LockInv'
  BY <1>1, <1>2 DEF progress, LockInv
<1>3. ASSUME NEW l, StartRun(l) PROVE LockInv'
  BY <1>1, <1>3 DEF StartRun, delivery, LockInv
<1>4. ASSUME NEW w \in Engines, Emits(w) PROVE LockInv'
  <2>1. w \in Contexts
    BY AdapterAssumption
  <2>2. PICK s : /\ calls' = [calls EXCEPT ![w] = s]
                 /\ \/ s # <<>> /\ lock' = w
                    \/ s = <<>> /\ lock' = None
    BY <2>1, <1>1, <1>4, EmissionDelivers, StackAndLock
  <2>3. calls'[w] = s
    BY <2>1, <2>2, <1>1 DEF DispatchInv
  <2> QED
    BY <2>1, <2>2, <2>3 DEF LockInv
<1> QED
  BY <1>2, <1>3, <1>4, StepKinds, SettlesQuietly, WorkIsQuiet

----------------------------------------------------------------------------
(* The run and its scopes *)

LEMMA WorkInRun ==
  ASSUME RunInv, NEW w \in Engines, Works(w)
  PROVE  Started
<1>1. CASE \E c \in CandidatesOf[w] : Begin(w, c)
  BY <1>1 DEF Begin, Started
<1>2. ASSUME phase[w] # "ready" PROVE Started
  BY <1>2 DEF RunInv
<1>3. CASE ~ \E c \in CandidatesOf[w] : Begin(w, c)
  <2>1. phase[w] # "ready"
    BY <1>3 DEF Works, Evaluate, Announced, Inject, Roll, RolloutsRaise, Score, Record,
       ScoringRaises, Return, Raise, Reflect, Report, Done, Go
  <2> QED
    BY <2>1, <1>2
<1> QED
  BY <1>1, <1>3

LEMMA RunKept ==
  ASSUME IInv, [Next]_vars
  PROVE  RunInv'
<1>1. RunInv /\ ScopeInv /\ Subscribed /\ DispatchInv /\ \A w \in Engines : QueueInv(w)
  BY DEF IInv, EngineInv
<1>2. CASE Settles
  <2>1. UNCHANGED <<dispatcher, phase, told>>
    BY <1>2, SettlesQuietly DEF progress, engineVars
  <2>2. CASE Setting \/ UNCHANGED vars
    <3>1. UNCHANGED <<run, outer, lifecycle>>
      BY <2>2 DEF Setting, vars
    <3> QED
      BY <1>1, <2>1, <3>1 DEF RunInv, Started
  <2>3. CASE \E s \in Outers : EnterAround(s)
    BY <1>1, <2>1, <2>3, NoneAssumption DEF EnterAround, RunInv, Started
  <2>4. CASE EndRun
    BY <1>1, <2>1, <2>4 DEF EndRun, RunInv, Started
  <2> QED
    BY <1>2, <2>2, <2>3, <2>4 DEF Settles
<1>3. ASSUME NEW l \in Lifecycles, StartRun(l) PROVE RunInv'
  <2>1. dispatcher' # None
    BY <1>1, <1>3, StartMakes DEF Made
  <2>2. /\ run' = "running" /\ outer' = outer /\ lifecycle' = l
    BY <1>3 DEF StartRun
  <2> QED
    BY <1>1, <2>1, <2>2 DEF RunInv, Started
<1>4. ASSUME NEW w \in Engines, Works(w) PROVE RunInv'
  <2>1. Started /\ UNCHANGED <<run, outer, lifecycle, dispatcher>>
    BY <1>1, <1>4, WorkInRun, WorkIsQuiet DEF progress
  <2> QED
    BY <1>1, <2>1 DEF RunInv, Started
<1>5. ASSUME NEW w \in Engines, Emits(w) PROVE RunInv'
  <2>1. dispatcher # None /\ UNCHANGED <<run, outer, lifecycle, dispatcher>>
    BY <1>1, <1>5, EmissionInRun, EmissionDelivers
  <2> QED
    BY <1>1, <2>1 DEF RunInv, Started
<1> QED
  BY <1>2, <1>3, <1>4, <1>5, StepKinds

\* The scope that somebody else runs around a run
LEMMA AroundScope ==
  ASSUME RunInv, ScopeInv, NEW s \in Outers, EnterAround(s)
  PROVE  ScopeInv'
<1> DEFINE x == Entered(Main, Around, s.stage, s.parent, s.fields)
<1>1. /\ run = "idle" /\ run' = "around" /\ outer' = s /\ dispatcher' = dispatcher
      /\ scopes' = [scopes EXCEPT ![Main] = Append(scopes[Main], x)] /\ Main \in Contexts
  BY AdapterAssumption DEF EnterAround, EnterScope
<1>2. /\ IsSequence(scopes[Main]) /\ outer = None
      /\ Scope(Main).stage = None /\ Scope(Main).parent = None
      /\ \A f \in Fields : Scope(Main).fields[f] = None
  BY <1>1 DEF ScopeInv, RunInv, Started, OuterParent, OuterStage, OuterField
<1>3. /\ IsSequence(scopes'[Main]) /\ scopes'[Main] # <<>>
      /\ scopes'[Main][Len(scopes'[Main])] = x
  <2>1. scopes'[Main] = Append(scopes[Main], x)
    BY <1>1 DEF ScopeInv
  <2> HIDE DEF x
  <2>2. /\ IsSequence(Append(scopes[Main], x)) /\ Len(scopes[Main]) \in Nat
        /\ Len(Append(scopes[Main], x)) = Len(scopes[Main]) + 1
        /\ Append(scopes[Main], x)[Len(scopes[Main]) + 1] = x
    BY <1>2, AppendAny, LengthAny
  <2> QED
    BY <2>1, <2>2, EmptyAny
<1>4. Scope(Main)' = x
  BY <1>3 DEF Scope, Top
<1>5. /\ x.execution = "outer" /\ x.stage = s.stage /\ x.parent = s.parent
      /\ \A f \in Fields : x.fields[f] = s.fields[f]
  BY <1>2 DEF Entered, Around, Given
<1>6. outer' # None /\ ~Started'
  BY <1>1, NoneAssumption DEF Started
<1>7. scopes' = [c \in Contexts |-> scopes'[c]]
  BY <1>1 DEF ScopeInv
<1> HIDE DEF x
<1> QED
  BY <1>1, <1>3, <1>4, <1>5, <1>6, <1>7 DEF ScopeInv, OuterParent, OuterStage, OuterField

\* The scope of the run, in the copies the engines get
LEMMA StartScope ==
  ASSUME RunInv, ScopeInv, NEW l, StartRun(l)
  PROVE  ScopeInv'
<1> DEFINE d == Dispatcher(Main, "run")
           x == Entered(Main, d, None, None, RunFields)
           s == Append(scopes[Main], x)
<1>1. /\ ~Started /\ Started' /\ outer' = outer /\ dispatcher' = d
      /\ scopes' = [k \in Contexts |-> s] /\ Engines \subseteq Contexts
  BY AdapterAssumption DEF StartRun, Started
<1>2. /\ IsSequence(scopes[Main])
      /\ Scope(Main).execution = (IF outer = None THEN None ELSE "outer")
      /\ Scope(Main).parent = OuterParent /\ Scope(Main).stage = OuterStage
      /\ \A f \in Fields : Scope(Main).fields[f] = OuterField(f)
  BY <1>1 DEF ScopeInv
<1>3. d.parent = (IF outer = None THEN None ELSE "outer") /\ d.stage = OuterStage
  BY <1>2 DEF Dispatcher
<1>4. /\ x.stage = OuterStage /\ x.parent = OuterParent
      /\ \A f \in Fields : x.fields[f] = Given(RunFields[f], OuterField(f))
  BY <1>2, <1>3 DEF Entered, Given
<1> HIDE DEF d, x
<1>5. s # <<>> /\ s[Len(s)] = x
  <2>1. /\ IsSequence(s) /\ Len(scopes[Main]) \in Nat /\ Len(s) = Len(scopes[Main]) + 1
        /\ s[Len(scopes[Main]) + 1] = x
    BY <1>2, AppendAny, LengthAny
  <2> HIDE DEF s
  <2> QED
    BY <2>1, EmptyAny
<1> HIDE DEF s
<1>6. ASSUME NEW w \in Engines PROVE Scope(w)' = x
  <2>1. scopes'[w] = s
    BY <1>1
  <2> QED
    BY <2>1, <1>5 DEF Scope, Top
<1>7. OuterParent' = OuterParent /\ OuterStage' = OuterStage /\ \A f : OuterField(f)' = OuterField(f)
  BY <1>1 DEF OuterParent, OuterStage, OuterField
<1>8. scopes' = [c \in Contexts |-> scopes'[c]]
  BY <1>1
<1> QED
  BY <1>1, <1>3, <1>4, <1>6, <1>7, <1>8 DEF ScopeInv

LEMMA ScopeKept ==
  ASSUME IInv, [Next]_vars
  PROVE  ScopeInv'
<1>1. RunInv /\ ScopeInv /\ DispatchInv /\ \A w \in Engines : QueueInv(w)
  BY DEF IInv, EngineInv
<1>2. ASSUME UNCHANGED <<run, outer, scopes, dispatcher>> PROVE ScopeInv'
  BY <1>1, <1>2 DEF ScopeInv, Started, Scope, OuterParent, OuterStage, OuterField
<1>3. CASE Settles
  <2>1. CASE Setting \/ UNCHANGED vars
    BY <2>1, <1>2 DEF Setting, vars, dispatchVars
  <2>2. CASE \E s \in Outers : EnterAround(s)
    BY <2>2, <1>1, AroundScope
  <2>3. CASE EndRun
    <3>1. /\ scopes' = [scopes EXCEPT ![Main] = <<>>] /\ UNCHANGED <<outer, dispatcher>>
          /\ Started /\ Started'
      BY <2>3 DEF EndRun, ExitScopes, Started
    <3>2. ASSUME NEW w \in Engines PROVE Scope(w)' = Scope(w)
      <4>1. scopes'[w] = scopes[w]
        BY <3>1, AdapterAssumption
      <4> QED
        BY <4>1 DEF Scope
    <3>3. /\ OuterParent' = OuterParent /\ OuterStage' = OuterStage
          /\ \A f : OuterField(f)' = OuterField(f)
      BY <3>1 DEF OuterParent, OuterStage, OuterField
    <3>4. scopes' = [c \in Contexts |-> scopes'[c]]
      BY <1>1, <3>1 DEF ScopeInv
    <3> QED
      BY <1>1, <3>1, <3>2, <3>3, <3>4 DEF ScopeInv
  <2> QED
    BY <1>3, <2>1, <2>2, <2>3 DEF Settles
<1>4. ASSUME NEW l, StartRun(l) PROVE ScopeInv'
  BY <1>1, <1>4, StartScope
<1>5. ASSUME NEW w \in Engines, Works(w) PROVE ScopeInv'
  BY <1>5, <1>2, WorkIsQuiet DEF progress
<1>6. ASSUME NEW w \in Engines, Emits(w) PROVE ScopeInv'
  BY <1>6, <1>2, EmissionDelivers
<1> QED
  BY <1>3, <1>4, <1>5, <1>6, StepKinds

----------------------------------------------------------------------------
(* The events of the emissions in progress *)

EventsOf(s) == {s[i].event : i \in 1..Len(s)}

LEMMA EventsAppended ==
  ASSUME NEW s, IsSequence(s), NEW f
  PROVE  EventsOf(Append(s, f)) = EventsOf(s) \cup {f.event}
<1> DEFINE t == Append(s, f)
<1>1. /\ Len(t) = Len(s) + 1 /\ \A i \in 1..Len(s) : t[i] = s[i]
      /\ t[Len(s) + 1] = f /\ Len(s) \in Nat
  BY AppendAny, LengthAny
<1> HIDE DEF t
<1>2. \A i \in 1..Len(t) : i \in 1..Len(s) \/ i = Len(s) + 1
  BY <1>1
<1>3. \A i \in 1..Len(s) : i \in 1..Len(t)
  BY <1>1
<1>4. Len(s) + 1 \in 1..Len(t)
  BY <1>1
<1>5. EventsOf(t) \subseteq EventsOf(s) \cup {f.event}
  BY <1>1, <1>2 DEF EventsOf
<1>6. EventsOf(s) \cup {f.event} \subseteq EventsOf(t)
  BY <1>1, <1>3, <1>4 DEF EventsOf
<1>7. EventsOf(t) = EventsOf(s) \cup {f.event}
  BY <1>5, <1>6
<1> QED
  BY <1>7 DEF t

LEMMA EventsBelow ==
  ASSUME NEW s, IsSequence(s), s # <<>>
  PROVE  /\ IsSequence(Below(s)) /\ EventsOf(Below(s)) \subseteq EventsOf(s)
         /\ Top(s).event \in EventsOf(s)
<1>1. /\ IsSequence(Below(s)) /\ Len(Below(s)) = Len(s) - 1
      /\ \A i \in 1..Len(s) - 1 : Below(s)[i] = s[i]
      /\ Len(s) \in Nat \ {0}
  BY BelowAny
<1>2. \A i \in 1..Len(s) - 1 : i \in 1..Len(s)
  BY <1>1
<1>3. Len(s) \in 1..Len(s)
  BY <1>1
<1> QED
  BY <1>1, <1>2, <1>3 DEF EventsOf, Top

LEMMA HeadAny == ASSUME NEW s, IsSequence(s), s # <<>> PROVE Head(s) = s[1]
<1>1. PICK S : s \in Seq(S)
  BY DEF IsSequence
<1> QED
  BY <1>1, HeadTailProperties

\* A context emits event e, its first or one of an observer.
EmitsEvent(c, e) == Emit(c, e, None) \/ EmitsItself(c, e)

LEMMA EventsDelivered ==
  ASSUME DispatchInv, dispatcher # None, NEW c \in Contexts
  PROVE  /\ (\/ Returns(c) \/ Raises(c) \/ ClosesItself(c) \/ NestedReturns(c)
             \/ Leave(c) \/ Interrupts(c)) => EventsOf(calls'[c]) \subseteq EventsOf(calls[c])
         /\ \A e : EmitsEvent(c, e) =>
              EventsOf(calls'[c]) \subseteq EventsOf(calls[c]) \cup {Stamp(c, e)}
<1> DEFINE s == calls[c]
<1>1. IsSequence(s) /\ \A t : calls' = [calls EXCEPT ![c] = t] => calls'[c] = t
  BY DEF DispatchInv, GoodStack
<1>2. ASSUME s # <<>> PROVE /\ IsSequence(Below(s)) /\ EventsOf(Below(s)) \subseteq EventsOf(s)
                            /\ Top(s).event \in EventsOf(s)
  BY <1>1, <1>2, EventsBelow
<1>3. \A f, o : Failure(f, o).event = f.event \/ ~IsFrame(f)
  BY DEF Failure, IsFrame
<1>4. ASSUME Telling(c) PROVE IsFrame(After(c)) /\ After(c).event = Top(s).event /\ s # <<>>
  <2>1. s # <<>> /\ IsFrame(Top(s)) /\ IsFrame(After(c))
    <3>1. s # <<>> /\ IsFrame(After(c))
      BY <1>4, AfterFrame DEF Telling, Idle
    <3>2. Len(s) \in 1..Len(s)
      <4>1. Len(s) \in Nat \ {0}
        BY <3>1, <1>1, BelowAny
      <4> QED
        BY <4>1
    <3>3. GoodFrame(s[Len(s)], heard, nested, number)
      BY <3>2 DEF DispatchInv, GoodStack
    <3> QED
      BY <3>1, <3>3 DEF GoodFrame, Top
  <2>2. After(c).event = Top(s).event
    BY <2>1 DEF After, IsFrame
  <2> QED
    BY <2>1, <2>2
<1> HIDE DEF s
<1>5. ASSUME NEW g, s # <<>>, g.event = Top(s).event, calls' = [calls EXCEPT ![c] = Append(Below(s), g)]
      PROVE  EventsOf(calls'[c]) \subseteq EventsOf(s)
  <2>1. EventsOf(Append(Below(s), g)) = EventsOf(Below(s)) \cup {g.event}
    BY <1>2, <1>5, EventsAppended
  <2> QED
    BY <2>1, <1>1, <1>2, <1>5
<1>6. ASSUME Returns(c) \/ ClosesItself(c) PROVE EventsOf(calls'[c]) \subseteq EventsOf(calls[c])
  <2>1. Telling(c) /\ calls' = [calls EXCEPT ![c] = Append(Below(s), After(c))]
    BY <1>6 DEF Returns, ClosesItself, WithTop, Trick, s
  <2> QED
    BY <2>1, <1>4, <1>5 DEF s
<1>7. ASSUME Raises(c) PROVE EventsOf(calls'[c]) \subseteq EventsOf(calls[c])
  <2> DEFINE g == Failure(After(c), Head(Top(calls[c]).todo))
  <2>1. Telling(c) /\ calls' = [calls EXCEPT ![c] = Append(Below(s), g)]
    BY <1>7 DEF Raises, WithTop, Trick, s
  <2>2. g.event = Top(s).event
    BY <2>1, <1>3, <1>4
  <2> HIDE DEF g
  <2> QED
    BY <2>1, <2>2, <1>4, <1>5 DEF s
<1>8. ASSUME NEW e, Emit(c, e, None)
      PROVE  EventsOf(calls'[c]) \subseteq EventsOf(calls[c]) \cup {Stamp(c, e)}
  <2> DEFINE f == Frame(c, e, None)
  <2>2. calls' = [calls EXCEPT ![c] = Append(s, f)] /\ f.event = Stamp(c, e)
    BY <1>8 DEF Emit, Frame, s
  <2> HIDE DEF f
  <2>3. EventsOf(Append(s, f)) = EventsOf(s) \cup {f.event}
    BY <1>1, EventsAppended
  <2>4. EventsOf(calls'[c]) \subseteq EventsOf(s) \cup {Stamp(c, e)}
    BY <2>2, <2>3, <1>1
  <2> QED
    BY <2>4 DEF s
<1>9. ASSUME NEW e, EmitsItself(c, e)
      PROVE  EventsOf(calls'[c]) \subseteq EventsOf(calls[c]) \cup {Stamp(c, e)}
  <2> DEFINE f == Frame(c, e, Head(Top(calls[c]).todo))
             b == Append(Below(s), After(c))
  <2>2. /\ calls' = [calls EXCEPT ![c] = Append(b, f)] /\ f.event = Stamp(c, e) /\ Telling(c)
    BY <1>9 DEF EmitsItself, Trick, Frame, s
  <2> HIDE DEF f
  <2>3. IsSequence(b) /\ EventsOf(b) = EventsOf(Below(s)) \cup {After(c).event}
    BY <2>2, <1>2, <1>4, EventsAppended, AppendAny
  <2>4. EventsOf(Append(b, f)) = EventsOf(b) \cup {f.event}
    BY <2>3, EventsAppended
  <2>5. EventsOf(calls'[c]) \subseteq EventsOf(s) \cup {Stamp(c, e)}
    BY <2>2, <2>3, <2>4, <1>1, <1>2, <1>4
  <2> QED
    BY <2>5 DEF s
<1>10. ASSUME NestedReturns(c) PROVE EventsOf(calls'[c]) \subseteq EventsOf(calls[c])
  <2> DEFINE b == Below(s)
             x == Top(b)
             g == IF Top(s).failed THEN Failure(x, Top(s).by) ELSE x
  <2>1. s # <<>> /\ Len(s) > 1 /\ calls' = [calls EXCEPT ![c] = Append(Below(b), g)]
    BY <1>10 DEF NestedReturns, Told, Idle, s
  <2>2. /\ IsSequence(b) /\ Len(b) = Len(s) - 1 /\ \A i \in 1..Len(s) - 1 : b[i] = s[i]
        /\ Len(s) \in Nat
    BY <2>1, <1>1, BelowAny
  <2>3. b # <<>> /\ x = s[Len(s) - 1] /\ Len(s) - 1 \in 1..Len(s)
    BY <2>1, <2>2, EmptyAny DEF Top
  <2>4. IsFrame(x)
    <3>1. GoodFrame(s[Len(s) - 1], heard, nested, number)
      BY <2>3 DEF DispatchInv, GoodStack, s
    <3> QED
      BY <2>3, <3>1 DEF GoodFrame
  <2>5. g.event = x.event
    BY <2>4, <1>3
  <2>6. EventsOf(b) \subseteq EventsOf(s)
    BY <2>1, <1>2
  <2>7. IsSequence(Below(b)) /\ EventsOf(Below(b)) \subseteq EventsOf(b) /\ x.event \in EventsOf(b)
    <3> HIDE DEF b
    <3> QED
      BY <2>2, <2>3, EventsBelow
  <2> HIDE DEF b, x, g
  <2>8. EventsOf(Append(Below(b), g)) = EventsOf(Below(b)) \cup {g.event}
    BY <2>7, EventsAppended
  <2>9. EventsOf(calls'[c]) \subseteq EventsOf(s)
    BY <2>1, <2>5, <2>6, <2>7, <2>8, <1>1
  <2> QED
    BY <2>9 DEF s
<1>11. ASSUME Leave(c) \/ Interrupts(c) PROVE EventsOf(calls'[c]) \subseteq EventsOf(calls[c])
  <2>1. calls' = [calls EXCEPT ![c] = <<>>]
    BY <1>11 DEF Leave, Interrupts
  <2>2. calls'[c] = <<>>
    BY <2>1, <1>1
  <2>3. 1..0 = {}
    OBVIOUS
  <2> QED
    BY <2>2, <2>3, EmptyAny DEF EventsOf
<1> QED
  BY <1>6, <1>7, <1>8, <1>9, <1>10, <1>11 DEF EmitsEvent

\* What an engine or an observer sends is stamped as it should be.
LEMMA StampCorrelates ==
  ASSUME ScopeInv, Started, NEW w \in Engines, NEW from, NEW kind, NEW at, NEW fields,
         \A f \in Fields : fields[f] = IF from = "bridge" THEN BridgeFields[f] ELSE None
  PROVE  Correlated(Stamp(w, Event(w, from, kind, at, fields)))
<1> DEFINE x == Stamp(w, Event(w, from, kind, at, fields))
<1>1. /\ dispatcher.parent = (IF outer = None THEN None ELSE "outer")
      /\ dispatcher.stage = OuterStage
      /\ Scope(w).parent = OuterParent /\ Scope(w).stage = OuterStage
      /\ \A f \in Fields : Scope(w).fields[f] = Given(RunFields[f], OuterField(f))
  BY DEF ScopeInv
<1>2. /\ x.from = from
      /\ x.parent = Given(None, Given(Scope(w).parent, dispatcher.parent))
      /\ x.stage = Given(None, Given(Scope(w).stage, dispatcher.stage))
      /\ x.fields = [f \in Fields |-> Given(fields[f], Scope(w).fields[f])]
  BY DEF Stamp, Event
<1> HIDE DEF x
<1>3. x.parent = IF outer = None THEN None ELSE Given(outer.parent, "outer")
  BY <1>1, <1>2 DEF Given, OuterParent
<1>4. x.stage = OuterStage
  BY <1>1, <1>2 DEF Given
<1>5. Correlated(x)
  BY <1>1, <1>2, <1>3, <1>4 DEF Correlated
<1> QED
  BY <1>5 DEF x

LEMMA UpcomingCorrelates ==
  ASSUME ScopeInv, Started, NEW w \in Engines, NEW e, Upcoming(w, e)
  PROVE  Correlated(Stamp(w, e))
<1>1. CASE \E kind : e = Event(w, "bridge", kind, 0, BridgeFields)
  BY <1>1, StampCorrelates
<1>2. CASE \E kind, at : e = SinkEvent(w, kind, at)
  BY <1>2, StampCorrelates DEF SinkEvent, Open
<1> QED
  BY <1>1, <1>2 DEF Upcoming

LEMMA FrameKept ==
  ASSUME IInv, [Next]_vars
  PROVE  FrameInv'
<1>1. /\ FrameInv /\ DispatchInv /\ DispatchInv' /\ RunInv /\ ScopeInv
      /\ \A w \in Engines : QueueInv(w)
  BY DispatchKept DEF IInv, EngineInv
<1>2. ASSUME UNCHANGED <<calls, outer>> PROVE FrameInv'
  BY <1>1, <1>2 DEF FrameInv, Correlated, OuterStage, OuterField
<1>3. CASE Settles
  <2>1. UNCHANGED calls
    BY <1>3, SettlesQuietly DEF progress
  <2>2. CASE Setting \/ EndRun \/ UNCHANGED vars
    BY <2>1, <2>2, <1>2 DEF Setting, EndRun, vars
  <2>3. CASE \E s \in Outers : EnterAround(s)
    <3>1. \A c \in Contexts : calls'[c] = <<>>
      BY <1>1, <2>1, <2>3 DEF EnterAround, RunInv, Started, DispatchInv, Untouched
    <3> QED
      BY <3>1 DEF FrameInv
  <2> QED
    BY <1>3, <2>2, <2>3 DEF Settles
<1>4. ASSUME NEW l, StartRun(l) PROVE FrameInv'
  BY <1>4, <1>2 DEF StartRun, delivery
<1>5. ASSUME NEW w \in Engines, Works(w) PROVE FrameInv'
  BY <1>5, <1>2, WorkIsQuiet DEF progress
<1>6. ASSUME NEW w \in Engines, Emits(w) PROVE FrameInv'
  <2>1. /\ w \in Contexts /\ dispatcher # None /\ Started /\ Delivers(w)
        /\ UNCHANGED <<dispatcher, outer>>
    BY <1>1, <1>6, EmissionInRun, EmissionDelivers DEF RunInv
  <2>2. \A x \in EventsOf(calls[w]) : Correlated(x)
    <3>1. DOMAIN calls[w] = 1..Len(calls[w])
      BY <1>1, <2>1, LengthAny DEF DispatchInv, GoodStack
    <3> QED
      BY <3>1, <1>1, <2>1 DEF FrameInv, EventsOf
  <2>3. \A x \in EventsOf(calls'[w]) : Correlated(x)
    <3>1. CASE Tell(w)
      <4>1. Head(queue[w]) = queue[w][1] /\ 1 \in 1..Len(queue[w])
        <5>1. IsSequence(queue[w]) /\ queue[w] # <<>>
          BY <1>1, <3>1 DEF Tell, QueueInv
        <5> QED
          BY <5>1, LengthAny, HeadAny
      <4>2. Correlated(Stamp(w, Head(queue[w])))
        BY <4>1, <1>1, <2>1, UpcomingCorrelates DEF QueueInv
      <4>3. EmitsEvent(w, Head(queue[w]))
        BY <3>1 DEF Tell, EmitsEvent
      <4> QED
        BY <4>2, <4>3, <1>1, <2>1, <2>2, EventsDelivered
    <3>2. CASE EmitsItself(w, ObserverEvent(w))
      <4>1. Correlated(Stamp(w, ObserverEvent(w)))
        BY <1>1, <2>1, StampCorrelates DEF ObserverEvent, Open
      <4> QED
        BY <3>2, <4>1, <1>1, <2>1, <2>2, EventsDelivered DEF EmitsEvent
    <3>3. CASE ~Tell(w) /\ ~EmitsItself(w, ObserverEvent(w))
      <4>1. \/ Returns(w) \/ Raises(w) \/ ClosesItself(w) \/ NestedReturns(w)
            \/ Leave(w) \/ Interrupts(w)
        BY <1>6, <3>3 DEF Emits, TellReturns, Observes, Interrupted
      <4> QED
        BY <4>1, <1>1, <2>1, <2>2, EventsDelivered
    <3> QED
      BY <3>1, <3>2, <3>3
  <2>4. \A c \in Contexts : c # w => calls'[c] = calls[c]
    <3>1. PICK s : calls' = [calls EXCEPT ![w] = s]
      BY <2>1, StackAndLock DEF IInv
    <3> QED
      BY <3>1, <1>1 DEF DispatchInv
  <2>6. ASSUME NEW c \in Contexts, NEW i \in DOMAIN calls'[c]
        PROVE  Correlated(calls'[c][i].event)
    <3>1. CASE c = w
      <4>1. DOMAIN calls'[w] = 1..Len(calls'[w])
        BY <1>1, <2>1, LengthAny DEF DispatchInv, GoodStack
      <4> QED
        BY <3>1, <4>1, <2>3 DEF EventsOf
    <3>2. CASE c # w
      BY <3>2, <2>4, <1>1 DEF FrameInv
    <3> QED
      BY <3>1, <3>2
  <2>7. ASSUME NEW c \in Contexts, NEW i \in DOMAIN calls'[c]
        PROVE  Correlated(calls[c][i].event)'
    <3>1. Correlated(calls'[c][i].event)
      BY <2>6
    <3> QED
      BY <3>1, <2>1 DEF Correlated, OuterStage, OuterField
  <2> QED
    BY <2>7 DEF FrameInv
<1> QED
  BY <1>3, <1>4, <1>5, <1>6, StepKinds

----------------------------------------------------------------------------
(* The engines, and what one of them leaves of another *)

SameTold(v) ==
  \A from, kind, at :
    [of |-> v, from |-> from, kind |-> kind, at |-> at] \in told'
      <=> [of |-> v, from |-> from, kind |-> kind, at |-> at] \in told

SameEngine(v) ==
  /\ phase'[v] = phase[v] /\ queue'[v] = queue[v] /\ entered'[v] = entered[v]
  /\ rolled'[v] = rolled[v] /\ result'[v] = result[v] /\ why'[v] = why[v]

LEMMA SameEngineKeeps ==
  ASSUME NEW v, EngineInv(v), SameEngine(v), SameTold(v), lifecycle' = lifecycle,
         Idle(v)' <=> Idle(v)
  PROVE  EngineInv(v)'
<1> USE DEF SameEngine
<1>1. \A kind, at : Sunk(v, kind, at)' <=> Sunk(v, kind, at)
  BY DEF SameTold, Sunk
<1>2. \A kind : Bridged(v, kind)' <=> Bridged(v, kind)
  BY DEF SameTold, Bridged
<1>3. CompletedEvents(v)' = CompletedEvents(v)
  BY DEF CompletedEvents, SinkEvent, Event
<1>4. FailedEvents(v)' = FailedEvents(v)
  BY DEF FailedEvents, SinkEvent, Event
<1>5. EvaluationBatch(v)' = EvaluationBatch(v)
  BY DEF EvaluationBatch, Records, ScoreOf
<1>6. \A e : Upcoming(v, e)' <=> Upcoming(v, e)
  BY DEF Upcoming
<1>7. QueueInv(v)'
  BY <1>6 DEF EngineInv, QueueInv
<1>8. RolloutInv(v)'
  BY <1>5 DEF EngineInv, RolloutInv
<1>9. CompletingInv(v) => CompletingInv(v)'
  BY <1>1, <1>3 DEF CompletingInv
<1>10. SinkInv(v)'
  BY <1>1, <1>4, <1>9 DEF EngineInv, SinkInv
<1>11. \A kind : Ends(v, kind)' <=> Ends(v, kind)
  BY <1>2 DEF Ends
<1>12. BridgeInv(v)'
  BY <1>2, <1>11 DEF EngineInv, BridgeInv
<1> QED
  BY <1>7, <1>8, <1>10, <1>12 DEF EngineInv

\* An engine's own state is all that its evaluation changes.
LEMMA WorkIsOwn ==
  ASSUME Shapes, NEW w \in Engines, Works(w), NEW v \in Engines, v # w
  PROVE  SameEngine(v)
<1> USE DEF Shapes, SameEngine
<1>1. CASE \E c \in CandidatesOf[w] : Begin(w, c)
  BY <1>1 DEF Begin
<1>2. CASE Evaluate(w) \/ Announced(w)
  BY <1>2 DEF Evaluate, Announced, Go
<1>3. CASE Inject(w)
  BY <1>3 DEF Inject, Go, Fail
<1>4. CASE \E i \in DOMAIN BatchOf[w], o \in OutcomesOf[w] : Roll(w, i, o)
  BY <1>4 DEF Roll, Go
<1>5. CASE RolloutsRaise(w) \/ ScoringRaises(w)
  BY <1>5 DEF RolloutsRaise, ScoringRaises, Go, Fail
<1>6. CASE Score(w) \/ Record(w) \/ Return(w) \/ Raise(w)
  BY <1>6 DEF Score, Record, Return, Raise, Go
<1>7. CASE Reflect(w)
  BY <1>7 DEF Reflect, Go
<1>8. CASE Report(w)
  BY <1>8 DEF Report, Go
<1>9. CASE Done(w)
  BY <1>9 DEF Done, Go
<1> QED
  BY <1>1, <1>2, <1>3, <1>4, <1>5, <1>6, <1>7, <1>8, <1>9 DEF Works

LEMMA EmissionIsOwn ==
  ASSUME Shapes, NEW w \in Engines, Emits(w), NEW v \in Engines, v # w
  PROVE  SameEngine(v) /\ SameTold(v)
<1> USE DEF Shapes, SameEngine, SameTold
<1>1. CASE Tell(w)
  BY <1>1 DEF Tell
<1>2. CASE TellReturns(w)
  BY <1>2 DEF TellReturns, Undone, engineVars
<1>3. CASE Observes(w)
  BY <1>3 DEF Observes, engineVars
<1>4. CASE Interrupted(w)
  BY <1>4 DEF Interrupted, Undone
<1> QED
  BY <1>1, <1>2, <1>3, <1>4 DEF Emits

\* The shape of the engines' state
LEMMA ShapesKept ==
  ASSUME IInv, [Next]_vars
  PROVE  Shapes'
<1>1. Shapes /\ RunInv
  BY DEF IInv
<1>0. \A t : t = tricks \/ (tricks < MaxTricks /\ t = tricks + 1) => t \in 0..MaxTricks
  <2>1. MaxTricks \in Nat /\ tricks \in 0..MaxTricks
    BY <1>1, AdapterAssumption DEF Shapes
  <2> QED
    BY <2>1
<1>2. ASSUME UNCHANGED <<engineVars, tricks>> PROVE Shapes'
  BY <1>1, <1>2 DEF Shapes, engineVars
<1>3. CASE Settles
  BY <1>3, <1>2, SettlesQuietly
<1>4. ASSUME NEW l, StartRun(l) PROVE Shapes'
  BY <1>4, <1>2 DEF StartRun, delivery
<1>5. ASSUME NEW w \in Engines, Works(w) PROVE Shapes'
  <2> SUFFICES /\ phase' \in [Engines -> Phases]
               /\ why' \in [Engines -> {"", "rollouts", "scoring", "told"}]
               /\ rolled' = [v \in Engines |-> rolled'[v]]
               /\ queue' = [v \in Engines |-> queue'[v]]
               /\ entered' = [v \in Engines |-> entered'[v]]
               /\ result' = [v \in Engines |-> result'[v]]
    <3>1. tricks' = tricks \/ (tricks < MaxTricks /\ tricks' = tricks + 1)
      BY <1>5, WorkIsQuiet
    <3>2. tricks' \in 0..MaxTricks
      BY <3>1, <1>0
    <3> QED
      BY <3>2 DEF Shapes
  <2> USE <1>1 DEF Shapes, Phases
  <2>1. CASE \E c \in CandidatesOf[w] : Begin(w, c)
    BY <2>1 DEF Begin
  <2>2. CASE Evaluate(w) \/ Announced(w)
    BY <2>2 DEF Evaluate, Announced, Go
  <2>3. CASE Inject(w)
    BY <2>3 DEF Inject, Go, Fail
  <2>4. CASE \E i \in DOMAIN BatchOf[w], o \in OutcomesOf[w] : Roll(w, i, o)
    BY <2>4 DEF Roll, Go
  <2>5. CASE RolloutsRaise(w) \/ ScoringRaises(w)
    BY <2>5 DEF RolloutsRaise, ScoringRaises, Go, Fail
  <2>6. CASE Score(w) \/ Record(w) \/ Return(w) \/ Raise(w)
    BY <2>6 DEF Score, Record, Return, Raise, Go
  <2>7. CASE Reflect(w)
    BY <2>7 DEF Reflect, Go
  <2>8. CASE Report(w)
    BY <2>8 DEF Report, Go
  <2>9. CASE Done(w)
    BY <2>9 DEF Done, Go
  <2> QED
    BY <1>5, <2>1, <2>2, <2>3, <2>4, <2>5, <2>6, <2>7, <2>8, <2>9 DEF Works
<1>6. ASSUME NEW w \in Engines, Emits(w) PROVE Shapes'
  <2>1. tricks' = tricks \/ (tricks < MaxTricks /\ tricks' = tricks + 1)
    BY <1>6 DEF Emits, Tell, TellReturns, Observes, Interrupted, Emit, Leave, Returns, Raises,
       ClosesItself, NestedReturns, EmitsItself, Interrupts, Trick
  <2>2. tricks' \in 0..MaxTricks
    BY <2>1, <1>0
  <2>3. CASE Tell(w)
    BY <2>2, <2>3, <1>1 DEF Tell, Shapes
  <2>4. CASE UNCHANGED engineVars
    BY <2>2, <2>4, <1>1 DEF Shapes, engineVars
  <2>5. CASE Undone(w)
    BY <2>2, <2>5, <1>1 DEF Shapes, Undone, Phases
  <2> QED
    BY <1>6, <2>3, <2>4, <2>5 DEF Emits, TellReturns, Observes, Interrupted
<1> QED
  BY <1>3, <1>4, <1>5, <1>6, StepKinds

----------------------------------------------------------------------------
(* What a bridge makes of the callbacks *)

LEMMA ConcatAny ==
  ASSUME NEW s, IsSequence(s), NEW t, IsSequence(t)
  PROVE  /\ IsSequence(s \o t) /\ Len(s \o t) = Len(s) + Len(t)
         /\ \A i \in 1..Len(s) : (s \o t)[i] = s[i]
         /\ \A i \in 1..Len(t) : (s \o t)[Len(s) + i] = t[i]
<1>1. PICK S, T : s \in Seq(S) /\ t \in Seq(T)
  BY DEF IsSequence
<1> DEFINE U == S \cup T
<1>2. s \in Seq(U) /\ t \in Seq(U)
  BY <1>1, SeqMonotonic
<1> HIDE DEF U
<1>3. /\ s \o t \in Seq(U) /\ Len(s \o t) = Len(s) + Len(t)
      /\ \A i \in 1..Len(s) + Len(t) :
           (s \o t)[i] = IF i <= Len(s) THEN s[i] ELSE t[i - Len(s)]
  BY <1>2, ConcatProperties
<1>4. Len(s) \in Nat /\ Len(t) \in Nat
  BY LengthAny
<1>5. ASSUME NEW i \in 1..Len(s) PROVE (s \o t)[i] = s[i]
  BY <1>3, <1>4
<1>6. ASSUME NEW i \in 1..Len(t) PROVE (s \o t)[Len(s) + i] = t[i]
  <2>1. Len(s) + i \in 1..Len(s) + Len(t) /\ ~(Len(s) + i <= Len(s)) /\ Len(s) + i - Len(s) = i
    BY <1>4
  <2> QED
    BY <2>1, <1>3
<1> QED
  BY <1>3, <1>5, <1>6 DEF IsSequence

LEMMA OneAny ==
  ASSUME NEW x
  PROVE  IsSequence(<<x>>) /\ Len(<<x>>) = 1 /\ <<x>>[1] = x
<1>1. <<x>> \in Seq({x})
  OBVIOUS
<1> QED
  BY <1>1 DEF IsSequence

LEMMA TwoAny ==
  ASSUME NEW x, NEW y
  PROVE  IsSequence(<<x, y>>) /\ Len(<<x, y>>) = 2 /\ <<x, y>>[1] = x /\ <<x, y>>[2] = y
<1>1. <<x, y>> \in Seq({x, y})
  OBVIOUS
<1> QED
  BY <1>1 DEF IsSequence

\* Kinds that are about a part of the search, not about the run
Partial(s) == IsSequence(s) /\ \A i \in 1..Len(s) : s[i] \notin RunKinds

LEMMA PartialOne == ASSUME NEW k, k \notin RunKinds PROVE Partial(<<k>>)
<1>1. \A i \in 1..1 : i = 1
  OBVIOUS
<1> QED
  BY <1>1, OneAny DEF Partial

LEMMA PartialTwo ==
  ASSUME NEW k, k \notin RunKinds, NEW l, l \notin RunKinds PROVE Partial(<<k, l>>)
<1>1. \A i \in 1..2 : i = 1 \/ i = 2
  OBVIOUS
<1> QED
  BY <1>1, TwoAny DEF Partial

\* Only the callbacks of the run's beginning, end and fatal error are told as
\* the run's.
LEMMA OtherCallbacksPartial ==
  ASSUME NEW x, x \in OtherCallbacks \cup {"on_evaluation_start", "on_evaluation_end"}
  PROVE  Partial(Translated(x, lifecycle))
<1> USE PartialOne, PartialTwo DEF RunKinds
<1>1. \A y \in DOMAIN EvaluationCallback : Partial(EvaluationCallback[y])
  BY DEF EvaluationCallback
<1>2. \A y \in DOMAIN ProgressCallback : Partial(ProgressCallback[y])
  BY DEF ProgressCallback
<1>3. \A y \in DOMAIN ProposalCallback : Partial(ProposalCallback[y])
  BY DEF ProposalCallback
<1>4. \A y \in DOMAIN SearchCallback : Partial(SearchCallback[y])
  BY DEF SearchCallback
<1>5. {"on_evaluation_start", "on_evaluation_end"} \subseteq DOMAIN EvaluationCallback
  BY DEF EvaluationCallback
<1>6. OtherCallbacks \subseteq DOMAIN EvaluationCallback \cup DOMAIN ProgressCallback
                            \cup DOMAIN ProposalCallback \cup DOMAIN SearchCallback
  BY AdapterAssumption
<1> QED
  BY ONLY <1>1, <1>2, <1>3, <1>4, <1>5, <1>6, x \in OtherCallbacks \cup {"on_evaluation_start", "on_evaluation_end"} DEF Translated

LEMMA RunCallbackKinds ==
  /\ Translated("on_optimization_start", lifecycle)
       = IF lifecycle = "full" THEN <<"RunStarted">> ELSE <<>>
  /\ Translated("on_optimization_end", lifecycle)
       = IF lifecycle = "full" THEN <<"RunCompleted">> ELSE <<>>
  /\ Translated("on_error", lifecycle) = <<"BackendError">>
  /\ Translated("on_fatal_error", lifecycle)
       = IF lifecycle = "full" THEN <<"RunFailed">> ELSE <<"BackendError">>
BY DEF Translated, RunCallback, ErrorCallback, EvaluationCallback, ProgressCallback,
       ProposalCallback, SearchCallback

LEMMA BridgeEventsAny ==
  ASSUME NEW w, NEW x, NEW s, s = Translated(x, lifecycle), IsSequence(s)
  PROVE  /\ IsSequence(BridgeEvents(w, x)) /\ Len(BridgeEvents(w, x)) = Len(s)
         /\ \A i \in 1..Len(s) :
              BridgeEvents(w, x)[i] = Event(w, "bridge", s[i], 0, BridgeFields)
<1>1. Len(s) \in Nat /\ DOMAIN s = 1..Len(s)
  BY LengthAny
<1> DEFINE b == BridgeEvents(w, x)
           S == {Event(w, "bridge", s[i], 0, BridgeFields) : i \in 1..Len(s)}
<1>2. b = [i \in 1..Len(s) |-> Event(w, "bridge", s[i], 0, BridgeFields)]
  BY <1>1 DEF BridgeEvents
<1>3. b \in [1..Len(s) -> S]
  BY <1>2
<1> HIDE DEF b, S
<1>4. b \in Seq(S) /\ Len(b) = Len(s)
  BY <1>1, <1>3, FunctionIsSequence
<1>5. IsSequence(b) /\ Len(b) = Len(s)
      /\ \A i \in 1..Len(s) : b[i] = Event(w, "bridge", s[i], 0, BridgeFields)
  BY <1>2, <1>4 DEF IsSequence
<1> QED
  BY <1>5 DEF b


\* Events of one engine's bridge, of which only those of kinds K are the run's
FromBridge(w, q, K) ==
  /\ IsSequence(q)
  /\ \A i \in 1..Len(q) : \E k : /\ q[i] = Event(w, "bridge", k, 0, BridgeFields)
                                 /\ k \in RunKinds => k \in K

LEMMA TwoFromBridge ==
  ASSUME NEW w, NEW K, NEW q, FromBridge(w, q, K), NEW r, FromBridge(w, r, K)
  PROVE  FromBridge(w, q \o r, K)
<1>1. IsSequence(q) /\ IsSequence(r) /\ Len(q) \in Nat /\ Len(r) \in Nat
  BY LengthAny DEF FromBridge
<1> DEFINE s == q \o r
<1>2. /\ IsSequence(s) /\ Len(s) = Len(q) + Len(r)
      /\ \A i \in 1..Len(q) : s[i] = q[i]
      /\ \A i \in 1..Len(r) : s[Len(q) + i] = r[i]
  BY <1>1, ConcatAny
<1> HIDE DEF s
<1>3. ASSUME NEW i \in 1..Len(s)
      PROVE  \E k : s[i] = Event(w, "bridge", k, 0, BridgeFields) /\ (k \in RunKinds => k \in K)
  <2>1. CASE i \in 1..Len(q)
    BY <2>1, <1>2 DEF FromBridge
  <2>2. CASE i \notin 1..Len(q)
    <3>1. i - Len(q) \in 1..Len(r) /\ Len(q) + (i - Len(q)) = i
      BY <2>2, <1>1, <1>2
    <3>2. s[i] = r[i - Len(q)]
      BY <3>1, <1>2
    <3> QED
      BY <3>1, <3>2 DEF FromBridge
  <2> QED
    BY <2>1, <2>2
<1>4. FromBridge(w, s, K)
  BY <1>2, <1>3 DEF FromBridge
<1> QED
  BY <1>4 DEF s

LEMMA PartialFromBridge ==
  ASSUME NEW w, NEW x \in OtherCallbacks \cup {"on_evaluation_start", "on_evaluation_end"}, NEW K
  PROVE  FromBridge(w, BridgeEvents(w, x), K)
<1> DEFINE s == Translated(x, lifecycle)
<1>1. IsSequence(s) /\ \A i \in 1..Len(s) : s[i] \notin RunKinds
  BY OtherCallbacksPartial DEF Partial
<1> HIDE DEF s
<1>2. /\ IsSequence(BridgeEvents(w, x)) /\ Len(BridgeEvents(w, x)) = Len(s)
      /\ \A i \in 1..Len(s) : BridgeEvents(w, x)[i] = Event(w, "bridge", s[i], 0, BridgeFields)
  BY <1>1, BridgeEventsAny DEF s
<1> QED
  BY <1>1, <1>2 DEF FromBridge

\* The kinds that a bridge may tell the run as: none if somebody else tells it
Own(kind) == IF lifecycle = "full" THEN {kind} ELSE {}

LEMMA SingleFromBridge ==
  ASSUME NEW w, NEW x, NEW k, Translated(x, lifecycle) = <<k>>
  PROVE  /\ BridgeEvents(w, x) # <<>>
         /\ BridgeEvents(w, x)[1] = Event(w, "bridge", k, 0, BridgeFields)
         /\ \A K : (k \in RunKinds => k \in K) => FromBridge(w, BridgeEvents(w, x), K)
<1>1. IsSequence(<<k>>) /\ Len(<<k>>) = 1 /\ <<k>>[1] = k
  BY OneAny
<1> DEFINE b == BridgeEvents(w, x)
           s == <<k>>
<1> HIDE DEF s
<1>2. /\ IsSequence(b) /\ Len(b) = Len(s)
      /\ \A i \in 1..Len(s) : b[i] = Event(w, "bridge", s[i], 0, BridgeFields)
  BY <1>1, BridgeEventsAny DEF s
<1> HIDE DEF b
<1>3. Len(b) = 1 /\ s[1] = k
  BY <1>1, <1>2 DEF s
<1>4. 1 \in 1..Len(s) /\ \A i \in 1..Len(b) : i = 1
  BY <1>2, <1>3
<1>5. b[1] = Event(w, "bridge", k, 0, BridgeFields)
  BY <1>2, <1>3, <1>4
<1>6. b # <<>>
  BY <1>3, EmptyAny
<1>7. ASSUME NEW K, k \in RunKinds => k \in K PROVE FromBridge(w, b, K)
  BY <1>2, <1>4, <1>5, <1>7 DEF FromBridge
<1> QED
  BY <1>5, <1>6, <1>7 DEF b

LEMMA NoneFromBridge ==
  ASSUME NEW w, NEW x, Translated(x, lifecycle) = <<>>, NEW K
  PROVE  FromBridge(w, BridgeEvents(w, x), K)
<1>1. /\ IsSequence(BridgeEvents(w, x)) /\ Len(BridgeEvents(w, x)) = 0
  BY EmptyAny, BridgeEventsAny
<1>2. 1..0 = {}
  OBVIOUS
<1> QED
  BY <1>1, <1>2 DEF FromBridge

\* The callbacks that are, or may be, the run's
LEMMA RunFromBridge ==
  ASSUME NEW w
  PROVE  /\ FromBridge(w, BridgeEvents(w, "on_optimization_start"), Own("RunStarted"))
         /\ FromBridge(w, BridgeEvents(w, "on_optimization_end"), Own("RunCompleted"))
         /\ FromBridge(w, BridgeEvents(w, "on_error"), Own("RunCompleted"))
         /\ FromBridge(w, BridgeEvents(w, "on_fatal_error"), Own("RunFailed"))
         /\ lifecycle = "full" =>
              /\ BridgeEvents(w, "on_optimization_start") # <<>>
              /\ BridgeEvents(w, "on_optimization_start")[1]
                   = Event(w, "bridge", "RunStarted", 0, BridgeFields)
<1>1. "BackendError" \notin RunKinds
  BY DEF RunKinds
<1>2. \A K : FromBridge(w, BridgeEvents(w, "on_error"), K)
  BY <1>1, RunCallbackKinds, SingleFromBridge
<1>3. CASE lifecycle = "full"
  <2>1. \A k : k \in Own(k)
    BY <1>3 DEF Own
  <2>2. /\ Translated("on_optimization_start", lifecycle) = <<"RunStarted">>
        /\ Translated("on_optimization_end", lifecycle) = <<"RunCompleted">>
        /\ Translated("on_fatal_error", lifecycle) = <<"RunFailed">>
    BY <1>3, RunCallbackKinds
  <2> QED
    BY <2>1, <2>2, <1>2, SingleFromBridge
<1>4. CASE lifecycle # "full"
  <2>1. /\ Translated("on_optimization_start", lifecycle) = <<>>
        /\ Translated("on_optimization_end", lifecycle) = <<>>
        /\ Translated("on_fatal_error", lifecycle) = <<"BackendError">>
    BY <1>4, RunCallbackKinds
  <2> QED
    BY <2>1, <1>1, <1>2, <1>4, SingleFromBridge, NoneFromBridge
<1> QED
  BY <1>3, <1>4

----------------------------------------------------------------------------
(* An evaluation goes on *)

\* Where something may be about to be told
Speaking == {"called", "starting", "failing", "completing", "reporting"}

LEMMA NothingUpcoming ==
  ASSUME NEW w, QueueInv(w), phase[w] \notin Speaking
  PROVE  queue[w] = <<>>
<1>1. \A e : ~Upcoming(w, e)
  BY DEF Upcoming, Speaking
<1>2. \A i \in 1..Len(queue[w]) : FALSE
  BY <1>1 DEF QueueInv
<1>3. Len(queue[w]) \in Nat /\ (queue[w] = <<>> <=> Len(queue[w]) = 0)
  BY LengthAny DEF QueueInv
<1> QED
  BY <1>2, <1>3

LEMMA NothingQueued ==
  ASSUME NEW w, queue'[w] = <<>>
  PROVE  QueueInv(w)' /\ Len(queue'[w]) = 0 /\ 1..Len(queue'[w]) = {}
<1>1. IsSequence(queue'[w]) /\ Len(queue'[w]) = 0
  BY EmptyAny
<1>2. 1..0 = {}
  OBVIOUS
<1> QED
  BY <1>1, <1>2 DEF QueueInv

\* What a bridge has told, while the evaluation is under way.
LEMMA BridgeWaits ==
  ASSUME NEW w, EngineInv(w), queue[w] = <<>>, UNCHANGED <<told, lifecycle>>,
         phase[w] \notin {"ready", "reporting", "over"}, phase'[w] \notin {"ready", "called"},
         \A i \in 1..Len(queue'[w]) : queue'[w][i].from = "sink"
  PROVE  BridgeInv(w)'
<1>1. BridgeInv(w)
  BY DEF EngineInv
<1>2. \A kind : Bridged(w, kind)' <=> Bridged(w, kind)
  BY DEF Bridged
<1>3. lifecycle = "full" => Bridged(w, "RunStarted")
  BY <1>1 DEF BridgeInv
<1>4. ~Bridged(w, "RunCompleted") /\ ~Bridged(w, "RunFailed")
  BY <1>1 DEF BridgeInv
<1>5. \A kind : Ends(w, kind)' => Bridged(w, kind)
  <2>1. \A kind : Event(w, "bridge", kind, 0, BridgeFields).from = "bridge"
    BY DEF Event
  <2> QED
    BY <2>1, <1>2 DEF Ends
<1> QED
  BY <1>1, <1>2, <1>3, <1>4, <1>5 DEF BridgeInv

\* What a bridge is about to tell
LEMMA BridgeSpeaks ==
  ASSUME NEW w, NEW K, FromBridge(w, queue'[w], K)
  PROVE  /\ IsSequence(queue'[w])
         /\ \A kind \in RunKinds : Ends(w, kind)' => Bridged(w, kind)' \/ kind \in K
<1>1. IsSequence(queue'[w])
  BY DEF FromBridge
<1>2. ASSUME NEW kind \in RunKinds, NEW i \in 1..Len(queue'[w]),
             queue'[w][i] = Event(w, "bridge", kind, 0, BridgeFields)
      PROVE  kind \in K
  <2>1. PICK k : /\ queue'[w][i] = Event(w, "bridge", k, 0, BridgeFields)
                 /\ k \in RunKinds => k \in K
    BY <1>2 DEF FromBridge
  <2>2. Event(w, "bridge", k, 0, BridgeFields).kind = k
        /\ Event(w, "bridge", kind, 0, BridgeFields).kind = kind
    BY DEF Event
  <2> QED
    BY <2>1, <2>2, <1>2
<1> QED
  BY <1>1, <1>2 DEF Ends

LEMMA SinkUnchanged ==
  ASSUME NEW w, UNCHANGED told
  PROVE  /\ \A kind, at : Sunk(w, kind, at)' <=> Sunk(w, kind, at)
         /\ \A kind : Bridged(w, kind)' <=> Bridged(w, kind)
BY DEF Sunk, Bridged

\* The engine calls.
LEMMA BeginKeeps ==
  ASSUME Shapes, NEW w \in Engines, EngineInv(w), NEW c, Begin(w, c)
  PROVE  EngineInv(w)'
<1> DEFINE q == BridgeEvents(w, "on_optimization_start") \o BridgeEvents(w, "on_evaluation_start")
<1>1. /\ phase[w] = "ready" /\ phase'[w] = "called" /\ queue'[w] = q
      /\ UNCHANGED <<dispatchVars, lifecycle, entered, rolled, result, why, told>>
  BY DEF Begin, Shapes
<1>2. calls' = calls
  BY <1>1 DEF dispatchVars, delivery
<1>3. FromBridge(w, q, Own("RunStarted"))
  BY RunFromBridge, PartialFromBridge, TwoFromBridge
<1>4. lifecycle = "full" =>
        q # <<>> /\ q[1] = Event(w, "bridge", "RunStarted", 0, BridgeFields)
  <2> DEFINE s == BridgeEvents(w, "on_optimization_start")
             r == BridgeEvents(w, "on_evaluation_start")
  <2>1. SUFFICES ASSUME lifecycle = "full"
                 PROVE q # <<>> /\ q[1] = Event(w, "bridge", "RunStarted", 0, BridgeFields)
    OBVIOUS
  <2>2. /\ IsSequence(s) /\ IsSequence(r) /\ s # <<>>
        /\ s[1] = Event(w, "bridge", "RunStarted", 0, BridgeFields)
    BY <2>1, RunFromBridge, PartialFromBridge DEF FromBridge
  <2> HIDE DEF s, r
  <2>3. /\ IsSequence(s \o r) /\ Len(s \o r) = Len(s) + Len(r)
        /\ \A i \in 1..Len(s) : (s \o r)[i] = s[i]
        /\ Len(s) \in Nat \ {0} /\ Len(r) \in Nat
    BY <2>2, ConcatAny, LengthAny
  <2>4. 1 \in 1..Len(s) /\ Len(s) + Len(r) # 0
    BY <2>3
  <2>5. s \o r # <<>> /\ (s \o r)[1] = Event(w, "bridge", "RunStarted", 0, BridgeFields)
    BY <2>2, <2>3, <2>4, LengthAny
  <2> QED
    BY <2>5 DEF s, r
<1> HIDE DEF q
<1>5. \A kind, at : Sunk(w, kind, at)' <=> Sunk(w, kind, at)
  BY <1>1, SinkUnchanged
<1>6. \A kind : ~Bridged(w, kind)'
  BY <1>1, SinkUnchanged DEF EngineInv, BridgeInv
<1>7. QueueInv(w)'
  <2>1. "RunCompleted" \in RunKinds /\ "RunFailed" \in RunKinds /\ "RunStarted" \in RunKinds
    BY DEF RunKinds
  <2>2. ASSUME NEW e, NEW i \in 1..Len(queue'[w]), queue'[w][i] = e PROVE Upcoming(w, e)'
    <3>1. PICK k : /\ e = Event(w, "bridge", k, 0, BridgeFields)
                   /\ k \in RunKinds => k \in Own("RunStarted")
      BY <2>2, <1>1, <1>3 DEF FromBridge
    <3>2. k \notin {"RunCompleted", "RunFailed"} /\ (k = "RunStarted" => lifecycle' = "full")
      BY <2>1, <3>1, <1>1 DEF Own
    <3> QED
      BY <3>1, <3>2, <1>1 DEF Upcoming, Event
  <2>3. IsSequence(queue'[w])
    BY <1>1, <1>3 DEF FromBridge
  <2> QED
    BY <2>2, <2>3 DEF QueueInv
<1>8. RolloutInv(w)'
  <2>1. entered[w] = <<>> /\ result[w] = None
    BY <1>1 DEF EngineInv, RolloutInv
  <2> QED
    BY <2>1, <1>1 DEF EngineInv, RolloutInv, EvaluationBatch, Records, ScoreOf
<1>9. SinkInv(w)'
  <2>1. /\ ~Sunk(w, "EvaluationCompleted", 0) /\ ~Sunk(w, "EvaluationSkipped", 0)
        /\ why[w] # "rollouts"
    BY <1>1 DEF EngineInv, SinkInv
  <2> QED
    BY <2>1, <1>1, <1>5 DEF SinkInv
<1>10. BridgeInv(w)'
  <2>1. ~Ends(w, "RunCompleted")' /\ ~Ends(w, "RunFailed")'
    <3>1. "RunCompleted" \notin Own("RunStarted") /\ "RunFailed" \notin Own("RunStarted")
      BY DEF Own
    <3>2. "RunCompleted" \in RunKinds /\ "RunFailed" \in RunKinds
      BY DEF RunKinds
    <3>3. FromBridge(w, queue'[w], Own("RunStarted"))
      BY <1>1, <1>3
    <3> QED
      BY <3>1, <3>2, <3>3, <1>6, BridgeSpeaks
  <2> QED
    BY <2>1, <1>1, <1>4, <1>6 DEF BridgeInv, Event
<1> QED
  BY <1>7, <1>8, <1>9, <1>10 DEF EngineInv

\* The steps up to the rollouts, and the rollouts
LEMMA AnnounceKeeps ==
  ASSUME Shapes, NEW w \in Engines, EngineInv(w), Evaluate(w) \/ Announced(w)
  PROVE  EngineInv(w)'
<1>1. /\ queue[w] = <<>> /\ Idle(w)
      /\ UNCHANGED <<lifecycle, told, calls, entered, rolled, result, why>>
      /\ \/ phase[w] = "called" /\ phase'[w] = "starting"
            /\ queue'[w] = <<SinkEvent(w, "EvaluationStarted", 0)>>
         \/ phase[w] = "starting" /\ phase'[w] \in {"injecting", "rolling"} /\ queue'[w] = <<>>
  BY DEF Evaluate, Announced, Go, Quiet, Shapes, delivery
<1>2. \A kind, at : Sunk(w, kind, at)' <=> Sunk(w, kind, at)
  BY <1>1, SinkUnchanged
<1>3. /\ QueueInv(w)'
      /\ \A i \in 1..Len(queue'[w]) : queue'[w][i].from = "sink"
      /\ phase'[w] = "starting" => queue'[w] # <<>>
  <2>1. CASE phase'[w] = "starting"
    <3> DEFINE e == SinkEvent(w, "EvaluationStarted", 0)
    <3>1. IsSequence(<<e>>) /\ Len(<<e>>) = 1 /\ <<e>>[1] = e
      BY OneAny
    <3>2. queue'[w] = <<e>>
      BY <1>1, <2>1
    <3>3. e.from = "sink"
      BY DEF SinkEvent, Event
    <3>4. Upcoming(w, e)'
      BY <2>1 DEF Upcoming, SinkEvent, Event, Open
    <3> HIDE DEF e
    <3>5. IsSequence(queue'[w]) /\ Len(queue'[w]) = 1 /\ queue'[w][1] = e
      BY <3>1, <3>2
    <3>6. \A i \in 1..Len(queue'[w]) : i = 1
      BY <3>5
    <3>7. e = e'
      BY DEF e, SinkEvent, Event, Open
    <3>8. QueueInv(w)'
      BY <3>4, <3>5, <3>6, <3>7 DEF QueueInv
    <3> QED
      BY <3>3, <3>5, <3>6, <3>8, EmptyAny
  <2>2. CASE phase'[w] # "starting"
    BY <1>1, <2>2, NothingQueued
  <2> QED
    BY <2>1, <2>2
<1>4. entered[w] = <<>> /\ result[w] = None
  BY <1>1 DEF EngineInv, RolloutInv
<1>5. RolloutInv(w)'
  BY <1>1, <1>4 DEF EngineInv, RolloutInv
<1>6. SinkInv(w)'
  <2>1. /\ ~Sunk(w, "EvaluationCompleted", 0) /\ ~Sunk(w, "EvaluationSkipped", 0)
        /\ why[w] # "rollouts"
        /\ phase[w] = "starting" => Sunk(w, "EvaluationStarted", 0)
    BY <1>1 DEF EngineInv, SinkInv
  <2>2. Idle(w)'
    BY <1>1 DEF Idle
  <2> QED
    BY <2>1, <2>2, <1>1, <1>2, <1>3 DEF SinkInv
<1>7. BridgeInv(w)'
  BY <1>1, <1>3, BridgeWaits
<1> QED
  BY <1>3, <1>5, <1>6, <1>7 DEF EngineInv

\* Rollouts that raise, before their first case or later
LEMMA FailKeeps ==
  ASSUME Shapes, NEW w \in Engines, EngineInv(w), NEW from \in {"injecting", "rolling"},
         Go(w, from, "failing"), Fail(w), UNCHANGED calls
  PROVE  EngineInv(w)'
<1>1. /\ queue[w] = <<>> /\ Idle(w) /\ phase[w] = from /\ phase'[w] = "failing"
      /\ queue'[w] = FailedEvents(w) /\ entered'[w] = <<>> /\ why'[w] = "rollouts"
      /\ UNCHANGED <<lifecycle, told, rolled, result>>
  BY DEF Go, Fail, Quiet, Shapes
<1>2. \A kind, at : Sunk(w, kind, at)' <=> Sunk(w, kind, at)
  BY <1>1, SinkUnchanged
<1>3. QueueInv(w)' /\ \A i \in 1..Len(queue'[w]) : queue'[w][i].from = "sink"
  <2> DEFINE d == SinkEvent(w, "EvaluationSkipped", 0)
             e == SinkEvent(w, "BackendError", 0)
  <2>1. IsSequence(<<d, e>>) /\ Len(<<d, e>>) = 2 /\ <<d, e>>[1] = d /\ <<d, e>>[2] = e
    BY TwoAny
  <2>2. queue'[w] = <<d, e>>
    BY <1>1 DEF FailedEvents
  <2>3. d.from = "sink" /\ e.from = "sink"
    BY DEF SinkEvent, Event
  <2>4. \A x : x = d \/ x = e => Upcoming(w, x)'
    BY <1>1 DEF Upcoming, SinkEvent, Event, Open
  <2> HIDE DEF d, e
  <2>5. /\ IsSequence(queue'[w]) /\ Len(queue'[w]) = 2
        /\ queue'[w][1] = d /\ queue'[w][2] = e
    BY <2>1, <2>2
  <2>6. \A i \in 1..Len(queue'[w]) : i = 1 \/ i = 2
    BY <2>5
  <2>7. \A x, i : i \in 1..Len(queue'[w]) /\ queue'[w][i] = x => Upcoming(w, x)'
    BY <2>4, <2>5, <2>6
  <2>8. QueueInv(w)'
    BY <2>5, <2>7 DEF QueueInv
  <2> QED
    BY <2>3, <2>5, <2>6, <2>8
<1>4. RolloutInv(w)'
  <2>1. result[w] = None
    BY <1>1 DEF EngineInv, RolloutInv
  <2>2. Len(<<>>) <= Len(Injections) /\ IsSequence(<<>>)
    <3>1. Len(entered[w]) \in Nat /\ Len(entered[w]) <= Len(Injections)
      BY LengthAny DEF EngineInv, RolloutInv
    <3>2. Len(Injections) \in Nat
      BY AdapterAssumption, LenProperties
    <3> QED
      BY <3>1, <3>2, EmptyAny
  <2> QED
    BY <2>1, <2>2, <1>1 DEF EngineInv, RolloutInv
<1>5. SinkInv(w)'
  <2>1. /\ ~Sunk(w, "EvaluationCompleted", 0) /\ ~Sunk(w, "EvaluationSkipped", 0)
        /\ Sunk(w, "EvaluationStarted", 0)
    BY <1>1 DEF EngineInv, SinkInv
  <2>2. Idle(w)' /\ FailedEvents(w)' = FailedEvents(w)
    BY <1>1 DEF Idle, FailedEvents, SinkEvent, Event, Open
  <2> QED
    BY <2>1, <2>2, <1>1, <1>2 DEF SinkInv
<1>6. BridgeInv(w)'
  BY <1>1, <1>3, BridgeWaits
<1> QED
  BY <1>3, <1>4, <1>5, <1>6 DEF EngineInv

\* The steps between the announcement and the report, none of which is told
LEMMA RolloutKeeps ==
  ASSUME NEW w \in Engines, EngineInv(w), Quiet(w),
         phase[w] \in {"injecting", "rolling"},
         phase'[w] \in {"injecting", "rolling", "scored"},
         queue'[w] = queue[w], why'[w] = why[w], UNCHANGED <<calls, told, lifecycle>>,
         RolloutInv(w)'
  PROVE  EngineInv(w)'
<1>1. queue'[w] = <<>> /\ queue[w] = <<>>
  BY DEF Quiet
<1>2. QueueInv(w)' /\ 1..Len(queue'[w]) = {}
  BY <1>1, NothingQueued
<1>3. \A kind, at : Sunk(w, kind, at)' <=> Sunk(w, kind, at)
  BY SinkUnchanged
<1>4. SinkInv(w)'
  <2>1. /\ ~Sunk(w, "EvaluationCompleted", 0) /\ ~Sunk(w, "EvaluationSkipped", 0)
        /\ Sunk(w, "EvaluationStarted", 0) /\ why[w] # "rollouts"
    BY DEF EngineInv, SinkInv
  <2>2. Idle(w)'
    BY DEF Idle, Quiet
  <2> QED
    BY <2>1, <2>2, <1>3 DEF SinkInv
<1>5. BridgeInv(w)'
  BY <1>1, <1>2, BridgeWaits
<1> QED
  BY <1>2, <1>4, <1>5 DEF EngineInv

----------------------------------------------------------------------------
(* The report and what is told of it *)

\* The report has every case of the batch once, and in the batch's order unless
\* a case failed before one that did not.
LEMMA RecordsProps ==
  ASSUME NEW w \in Engines
  PROVE  /\ Len(BatchOf[w]) \in Nat /\ DOMAIN BatchOf[w] = 1..Len(BatchOf[w])
         /\ Records(w) \in Seq(DOMAIN BatchOf[w]) /\ Len(Records(w)) = Len(BatchOf[w])
         /\ DOMAIN Records(w) = 1..Len(BatchOf[w])
         /\ \A i \in DOMAIN BatchOf[w] : \E k \in DOMAIN Records(w) : Records(w)[k] = i
         /\ (\A i, j \in DOMAIN BatchOf[w] : i < j /\ rolled[w][i].failed => rolled[w][j].failed)
              => Records(w) = Batch(w)
<1> DEFINE D == DOMAIN BatchOf[w]
           F == {i \in D : rolled[w][i].failed}
           n == Len(BatchOf[w])
           a == Ascending(D \ F)
           b == Ascending(F)
           r == a \o b
<1>1. n \in Nat /\ D = 1..n
  BY AdapterAssumption, LenProperties
<1>2. Records(w) = r
  BY DEF Records
<1>3. Batch(w) = [i \in D |-> i]
  BY DEF Batch
<1>4. F \subseteq D /\ \A i \in D : i \in F <=> rolled[w][i].failed
  OBVIOUS
<1> HIDE DEF D, F, n
<1>5. /\ IsFiniteSet(D) /\ Cardinality(D) = n /\ D \subseteq Nat
      /\ IsFiniteSet(F) /\ IsFiniteSet(D \ F) /\ F \subseteq Nat /\ D \ F \subseteq Nat
  <2>1. IsFiniteSet(D) /\ Cardinality(D) = n
    BY <1>1, FS_Interval
  <2>2. D \subseteq Nat
    BY <1>1
  <2>3. IsFiniteSet(F) /\ IsFiniteSet(D \ F)
    BY <2>1, <1>4, FS_Subset
  <2> QED
    BY <2>1, <2>2, <2>3, <1>4
<1> DEFINE x == Cardinality(D \ F)
           y == Cardinality(F)
<1>6. x + y = n /\ x \in Nat /\ y \in Nat
  <2>1. Cardinality(D \ F) = Cardinality(D) - Cardinality(D \cap F)
    BY <1>5, FS_Difference
  <2>2. D \cap F = F
    BY <1>4
  <2>3. x \in Nat /\ y \in Nat
    BY <1>5, FS_CardinalityType
  <2>4. x = n - y
    BY <2>1, <2>2, <1>5
  <2> HIDE DEF x, y
  <2> QED
    BY <2>3, <2>4, <1>1
<1>7. /\ a \in Seq(D \ F) /\ Len(a) = x /\ \A k, l \in 1..x : k < l => a[k] < a[l]
      /\ \A i \in D \ F : \E k \in 1..x : a[k] = i
  BY <1>5, AscendingProps
<1>8. /\ b \in Seq(F) /\ Len(b) = y /\ \A k, l \in 1..y : k < l => b[k] < b[l]
      /\ \A i \in F : \E k \in 1..y : b[k] = i
  BY <1>5, AscendingProps
<1> HIDE DEF a, b, x, y
<1>9. a \in Seq(D) /\ b \in Seq(D)
  BY <1>4, <1>7, <1>8, SeqMonotonic
<1>10. /\ r \in Seq(D) /\ Len(r) = x + y
       /\ \A k \in 1..x + y : r[k] = IF k <= x THEN a[k] ELSE b[k - x]
  <2>1. /\ a \o b \in Seq(D) /\ Len(a \o b) = Len(a) + Len(b)
        /\ \A k \in 1..Len(a) + Len(b) :
             (a \o b)[k] = IF k <= Len(a) THEN a[k] ELSE b[k - Len(a)]
    BY <1>9, ConcatProperties
  <2>2. Len(a) = x /\ Len(b) = y
    BY <1>7, <1>8
  <2> QED
    BY <2>1, <2>2
<1> HIDE DEF r
<1>11. DOMAIN r = 1..n /\ Len(r) = n
  BY <1>6, <1>10, LenProperties
<1>12. \A k \in 1..x : k \in 1..n /\ r[k] = a[k]
  BY <1>6, <1>10
<1>13. \A k \in 1..y : x + k \in 1..n /\ r[x + k] = b[k]
  <2> TAKE k \in 1..y
  <2>1. x + k \in 1..x + y /\ ~(x + k <= x) /\ x + k - x = k
    BY <1>6
  <2> QED
    BY <2>1, <1>6, <1>10
<1>14. \A i \in D : \E k \in 1..n : r[k] = i
  <2> TAKE i \in D
  <2>1. CASE i \in F
    BY <2>1, <1>8, <1>13
  <2>2. CASE i \notin F
    <3>1. PICK k \in 1..x : a[k] = i
      BY <2>2, <1>7
    <3> QED
      BY <3>1, <1>12
  <2> QED
    BY <2>1, <2>2
<1>15. ASSUME \A i, j \in D : i < j /\ i \in F => j \in F
       PROVE  r = [i \in D |-> i]
  <2>1. ASSUME NEW k \in 1..n, NEW l \in 1..n, k < l PROVE r[k] < r[l]
    <3>1. (k \in 1..x \/ k - x \in 1..y) /\ (l \in 1..x \/ l - x \in 1..y)
      BY <1>6
    <3>2. CASE k \in 1..x /\ l \in 1..x
      BY <3>2, <2>1, <1>7, <1>12
    <3>3. CASE k \in 1..x /\ l - x \in 1..y
      <4>1. r[k] \in D \ F
        BY <3>3, <1>7, <1>12, ElementOfSeq
      <4>2. r[l] \in F
        <5>1. x + (l - x) = l
          BY <1>6
        <5> QED
          BY <5>1, <3>3, <1>8, <1>13, ElementOfSeq
      <4>3. r[k] \in Nat /\ r[l] \in Nat /\ r[k] # r[l]
        BY <4>1, <4>2, <1>5
      <4>4. ~(r[l] < r[k])
        BY <4>1, <4>2, <1>4, <1>15
      <4> QED
        BY <4>3, <4>4
    <3>4. CASE k - x \in 1..y /\ l \in 1..x
      BY <3>4, <2>1, <1>6
    <3>5. CASE k - x \in 1..y /\ l - x \in 1..y
      <4>1. x + (k - x) = k /\ x + (l - x) = l /\ k - x < l - x
        BY <2>1, <1>6
      <4> QED
        BY <4>1, <3>5, <1>8, <1>13
    <3> QED
      BY <3>1, <3>2, <3>3, <3>4, <3>5
  <2>2. r \in [1..n -> 1..n]
    <3>1. r \in [1..Len(r) -> D]
      BY <1>10, LenProperties
    <3> QED
      BY <3>1, <1>1, <1>11
  <2>3. r = [k \in 1..n |-> k]
    BY <2>1, <2>2, <1>1, <1>14, InOrderIsIdentity
  <2> QED
    BY <2>3, <1>1
<1> QED
  BY <1>1, <1>2, <1>3, <1>4, <1>10, <1>11, <1>14, <1>15 DEF D, n

\* What is told of a report of n records: the case and the metric of each, and
\* then that the evaluation and the candidate's are complete.
LEMMA CompletedProps ==
  ASSUME NEW w, NEW n \in Nat, Len(result[w].records) = n
  PROVE  /\ IsSequence(CompletedEvents(w)) /\ Len(CompletedEvents(w)) = 2 * n + 2
         /\ \A i \in 1..n :
              /\ CompletedEvents(w)[2 * i - 1] = SinkEvent(w, "CaseEvaluated", i)
              /\ CompletedEvents(w)[2 * i] = SinkEvent(w, "MetricCompleted", i)
         /\ \A j \in 1..2 * n : \E at \in Nat : \E k \in {"CaseEvaluated", "MetricCompleted"} :
              CompletedEvents(w)[j] = SinkEvent(w, k, at)
         /\ CompletedEvents(w)[2 * n + 1] = SinkEvent(w, "EvaluationCompleted", 0)
         /\ CompletedEvents(w)[2 * n + 2] = SinkEvent(w, "CandidateEvaluated", 0)
<1> DEFINE f == [j \in 1..2 * n |->
                   SinkEvent(w, IF j % 2 = 1 THEN "CaseEvaluated" ELSE "MetricCompleted", (j + 1) \div 2)]
           e == SinkEvent(w, "EvaluationCompleted", 0)
           d == SinkEvent(w, "CandidateEvaluated", 0)
           all == f \o <<e, d>>
<1>1. CompletedEvents(w) = all
  BY DEF CompletedEvents
<1>2. \A j \in 1..2 * n : (j + 1) \div 2 \in Nat
  OBVIOUS
<1>3. \A i \in 1..n : /\ 2 * i - 1 \in 1..2 * n /\ 2 * i \in 1..2 * n
                      /\ (2 * i - 1) % 2 = 1 /\ (2 * i) % 2 # 1
                      /\ (2 * i - 1 + 1) \div 2 = i /\ (2 * i + 1) \div 2 = i
  OBVIOUS
<1>4. \A i \in 1..n : /\ f[2 * i - 1] = SinkEvent(w, "CaseEvaluated", i)
                      /\ f[2 * i] = SinkEvent(w, "MetricCompleted", i)
  BY <1>3
<1>5. \A j \in 1..2 * n : \E at \in Nat : \E k \in {"CaseEvaluated", "MetricCompleted"} :
        f[j] = SinkEvent(w, k, at)
  <2> TAKE j \in 1..2 * n
  <2>1. f[j] = SinkEvent(w, IF j % 2 = 1 THEN "CaseEvaluated" ELSE "MetricCompleted", (j + 1) \div 2)
    OBVIOUS
  <2> HIDE DEF f
  <2> QED
    BY <2>1, <1>2
<1>6. IsSequence(f) /\ Len(f) = 2 * n
  <2> DEFINE S == {f[j] : j \in 1..2 * n}
  <2>1. f \in [1..2 * n -> S] /\ 2 * n \in Nat
    OBVIOUS
  <2> HIDE DEF f, S
  <2>2. f \in Seq(S) /\ Len(f) = 2 * n
    BY <2>1, FunctionIsSequence
  <2> QED
    BY <2>2 DEF IsSequence
<1> HIDE DEF f, e, d
<1>7. IsSequence(<<e, d>>) /\ Len(<<e, d>>) = 2 /\ <<e, d>>[1] = e /\ <<e, d>>[2] = d
  BY TwoAny
<1>8. /\ IsSequence(all) /\ Len(all) = 2 * n + 2
      /\ \A j \in 1..2 * n : all[j] = f[j]
      /\ \A j \in 1..2 : all[2 * n + j] = <<e, d>>[j]
  BY <1>6, <1>7, ConcatAny
<1> HIDE DEF all
<1>9. all[2 * n + 1] = e /\ all[2 * n + 2] = d
  BY <1>7, <1>8
<1>10. \A i \in 1..n : /\ all[2 * i - 1] = SinkEvent(w, "CaseEvaluated", i)
                       /\ all[2 * i] = SinkEvent(w, "MetricCompleted", i)
  BY <1>3, <1>4, <1>8
<1>11. \A j \in 1..2 * n : \E at \in Nat : \E k \in {"CaseEvaluated", "MetricCompleted"} :
        all[j] = SinkEvent(w, k, at)
  BY <1>5, <1>8
<1> QED
  BY <1>1, <1>8, <1>9, <1>10, <1>11 DEF e, d

----------------------------------------------------------------------------
(* The rest of an evaluation *)

\* Injections enter one after the other, or the scope is left.
LEMMA InjectKeeps ==
  ASSUME Shapes, NEW w \in Engines, EngineInv(w), Inject(w)
  PROVE  EngineInv(w)'
<1>1. UNCHANGED calls /\ Len(entered[w]) < Len(Injections)
  BY DEF Inject, delivery
<1>2. CASE Go(w, "injecting", "failing") /\ Fail(w)
  BY <1>1, <1>2, FailKeeps
<1>3. CASE ~(Go(w, "injecting", "failing") /\ Fail(w))
  <2>1. /\ Quiet(w) /\ phase[w] = "injecting" /\ phase'[w] \in {"injecting", "rolling"}
        /\ \E x : entered'[w] = Append(entered[w], x)
        /\ UNCHANGED <<queue, rolled, result, why, told, lifecycle>>
    BY <1>3 DEF Inject, Go, Shapes
  <2>2. PICK x : entered'[w] = Append(entered[w], x)
    BY <2>1
  <2>3. /\ IsSequence(entered[w]) /\ Len(entered[w]) \in Nat
        /\ IsSequence(entered'[w]) /\ Len(entered'[w]) = Len(entered[w]) + 1
    BY <2>2, AppendAny, LengthAny DEF EngineInv, RolloutInv
  <2>4. Len(Injections) \in Nat
    BY AdapterAssumption, LenProperties
  <2>5. Len(entered'[w]) <= Len(Injections)
    BY <1>1, <2>3, <2>4
  <2>6. result[w] = None
    BY <2>1 DEF EngineInv, RolloutInv
  <2>7. RolloutInv(w)'
    BY <2>1, <2>3, <2>5, <2>6 DEF EngineInv, RolloutInv
  <2> QED
    BY <1>1, <2>1, <2>7, RolloutKeeps
<1> QED
  BY <1>2, <1>3

LEMMA RollKeeps ==
  ASSUME Shapes, NEW w \in Engines, EngineInv(w),
         NEW i \in DOMAIN BatchOf[w], NEW o \in OutcomesOf[w], Roll(w, i, o)
  PROVE  EngineInv(w)'
<1>1. /\ Quiet(w) /\ phase[w] = "rolling" /\ phase'[w] = "rolling"
      /\ rolled'[w] = [rolled[w] EXCEPT ![i] = o]
      /\ UNCHANGED <<calls, queue, entered, result, why, told, lifecycle>>
  BY DEF Roll, Go, Shapes, delivery
<1>2. rolled'[w] \in [DOMAIN BatchOf[w] -> OutcomesOf[w] \cup {None}]
  BY <1>1 DEF EngineInv, RolloutInv
<1>3. result[w] = None
  BY <1>1 DEF EngineInv, RolloutInv
<1>4. RolloutInv(w)'
  BY <1>1, <1>2, <1>3 DEF EngineInv, RolloutInv
<1> QED
  BY <1>1, <1>4, RolloutKeeps

LEMMA EmptyEntered == IsSequence(<<>>) /\ Len(<<>>) <= Len(Injections)
<1>1. Len(Injections) \in Nat
  BY AdapterAssumption, LenProperties
<1> QED
  BY <1>1, EmptyAny

\* The scope is left, and the report is of what was rolled.
LEMMA ScoreKeeps ==
  ASSUME Shapes, NEW w \in Engines, EngineInv(w), Score(w)
  PROVE  EngineInv(w)'
<1>1. /\ Quiet(w) /\ phase[w] = "rolling" /\ phase'[w] = "scored"
      /\ entered'[w] = <<>> /\ result'[w] = EvaluationBatch(w)
      /\ UNCHANGED <<calls, queue, rolled, why, told, lifecycle>>
  BY DEF Score, Go, Shapes, delivery
<1>2. EvaluationBatch(w)' = EvaluationBatch(w)
  BY <1>1 DEF EvaluationBatch, Records, ScoreOf
<1>3. RolloutInv(w)'
  BY <1>1, <1>2, EmptyEntered DEF EngineInv, RolloutInv
<1> QED
  BY <1>1, <1>3, RolloutKeeps

LEMMA RolloutsRaiseKeeps ==
  ASSUME Shapes, NEW w \in Engines, EngineInv(w), RolloutsRaise(w)
  PROVE  EngineInv(w)'
BY FailKeeps DEF RolloutsRaise, Fault

\* The observers are about to be told of every case.
LEMMA RecordKeeps ==
  ASSUME Shapes, NEW w \in Engines, EngineInv(w), Record(w)
  PROVE  EngineInv(w)'
<1>1. /\ queue[w] = <<>> /\ Idle(w) /\ phase[w] = "scored" /\ phase'[w] = "completing"
      /\ queue'[w] = CompletedEvents(w)
      /\ UNCHANGED <<calls, entered, rolled, result, why, told, lifecycle>>
  BY DEF Record, Go, Quiet, Shapes, delivery
<1>2. \A kind, at : Sunk(w, kind, at)' <=> Sunk(w, kind, at)
  BY <1>1, SinkUnchanged
<1>3. /\ CompletedEvents(w)' = CompletedEvents(w) /\ EvaluationBatch(w)' = EvaluationBatch(w)
  BY <1>1 DEF CompletedEvents, SinkEvent, Event, Open, EvaluationBatch, Records, ScoreOf
<1> DEFINE n == Len(BatchOf[w])
           all == CompletedEvents(w)
<1>4. n \in Nat /\ Len(result[w].records) = n
  <2>1. result[w] = EvaluationBatch(w)
    BY <1>1 DEF EngineInv, RolloutInv
  <2>2. result[w].records = Records(w)
    BY <2>1 DEF EvaluationBatch
  <2> QED
    BY <2>2, RecordsProps
<1> HIDE DEF n
<1>5. /\ IsSequence(all) /\ Len(all) = 2 * n + 2
      /\ \A j \in 1..2 * n : \E at \in Nat : \E k \in {"CaseEvaluated", "MetricCompleted"} :
              all[j] = SinkEvent(w, k, at)
      /\ all[2 * n + 1] = SinkEvent(w, "EvaluationCompleted", 0)
      /\ all[2 * n + 2] = SinkEvent(w, "CandidateEvaluated", 0)
  BY <1>4, CompletedProps
<1> HIDE DEF all
<1>6. ASSUME NEW j \in 1..Len(all)
      PROVE  \E k \in {"CaseEvaluated", "MetricCompleted", "EvaluationCompleted",
                       "CandidateEvaluated"} : \E at \in Nat : all[j] = SinkEvent(w, k, at)
  <2>1. j \in 1..2 * n \/ j = 2 * n + 1 \/ j = 2 * n + 2
    BY <1>4, <1>5
  <2> QED
    BY <2>1, <1>5
<1>7. QueueInv(w)'
  <2>1. ASSUME NEW e, NEW j \in 1..Len(queue'[w]), queue'[w][j] = e PROVE Upcoming(w, e)'
    <3>1. PICK k \in {"CaseEvaluated", "MetricCompleted", "EvaluationCompleted",
                       "CandidateEvaluated"}, at \in Nat : e = SinkEvent(w, k, at)
      BY <2>1, <1>1, <1>6 DEF all
    <3> QED
      BY <3>1, <1>1 DEF Upcoming, SinkEvent, Event, Open
  <2>2. IsSequence(queue'[w])
    BY <1>1, <1>5 DEF all
  <2> QED
    BY <2>1, <2>2 DEF QueueInv
<1>8. \A j \in 1..Len(queue'[w]) : queue'[w][j].from = "sink"
  <2>1. \A k, at : SinkEvent(w, k, at).from = "sink"
    BY DEF SinkEvent, Event
  <2> QED
    BY <2>1, <1>1, <1>6 DEF all
<1>9. CompletingInv(w)'
  <2>1. queue'[w] = all /\ CompletedEvents(w)' = all /\ Len(all) \in Nat
    BY <1>1, <1>3, <1>4, <1>5 DEF all
  <2>2. Len(all) <= Len(all) /\ Len(all) - Len(all) = 0 /\ 1..0 = {}
        /\ \A i \in 1..Len(all) : Len(all) - Len(all) + i = i
    BY <2>1
  <2> QED
    BY <2>1, <2>2 DEF CompletingInv
<1>10. RolloutInv(w)'
  BY <1>1, <1>3 DEF EngineInv, RolloutInv
<1>11. SinkInv(w)'
  <2>1. /\ ~Sunk(w, "EvaluationCompleted", 0) /\ ~Sunk(w, "EvaluationSkipped", 0)
        /\ Sunk(w, "EvaluationStarted", 0) /\ why[w] # "rollouts"
    BY <1>1 DEF EngineInv, SinkInv
  <2>2. Idle(w)'
    BY <1>1 DEF Idle
  <2> QED
    BY <2>1, <2>2, <1>1, <1>2, <1>9 DEF SinkInv
<1>12. BridgeInv(w)'
  BY <1>1, <1>8, BridgeWaits
<1> QED
  BY <1>7, <1>10, <1>11, <1>12 DEF EngineInv

\* An evaluation ends: it returns when all was told, or raises.
LEMMA EndKeeps ==
  ASSUME Shapes, NEW w \in Engines, EngineInv(w), Return(w) \/ Raise(w) \/ ScoringRaises(w)
  PROVE  EngineInv(w)'
<1>1. /\ queue[w] = <<>> /\ queue'[w] = <<>> /\ Idle(w)
      /\ UNCHANGED <<calls, entered, rolled, told, lifecycle>>
      /\ \/ /\ phase[w] = "completing" /\ phase'[w] = "returned"
            /\ result'[w] = result[w] /\ why'[w] = why[w]
         \/ /\ phase[w] = "failing" /\ phase'[w] = "raised"
            /\ result'[w] = result[w] /\ why'[w] = why[w]
         \/ /\ phase[w] = "scored" /\ phase'[w] = "raised"
            /\ result'[w] = None /\ why'[w] = "scoring"
  BY DEF Return, Raise, ScoringRaises, Go, Fault, Quiet, Shapes, delivery
<1>2. \A kind, at : Sunk(w, kind, at)' <=> Sunk(w, kind, at)
  BY <1>1, SinkUnchanged
<1>3. QueueInv(w)' /\ 1..Len(queue'[w]) = {}
  BY <1>1, NothingQueued
<1>4. RolloutInv(w)'
  <2>1. EvaluationBatch(w)' = EvaluationBatch(w)
    BY <1>1 DEF EvaluationBatch, Records, ScoreOf
  <2> QED
    BY <2>1, <1>1 DEF EngineInv, RolloutInv
<1>5. phase'[w] = "returned" =>
        Sunk(w, "EvaluationCompleted", 0) /\ Sunk(w, "CandidateEvaluated", 0)
  <2> SUFFICES ASSUME phase'[w] = "returned"
               PROVE  Sunk(w, "EvaluationCompleted", 0) /\ Sunk(w, "CandidateEvaluated", 0)
    OBVIOUS
  <2> DEFINE n == Len(BatchOf[w])
             all == CompletedEvents(w)
  <2>1. CompletingInv(w) /\ result[w] = EvaluationBatch(w)
    BY <1>1 DEF EngineInv, SinkInv, RolloutInv
  <2>2. result[w].records = Records(w)
    BY <2>1 DEF EvaluationBatch
  <2>3. n \in Nat /\ Len(result[w].records) = n
    BY <2>2, RecordsProps
  <2> HIDE DEF n
  <2>4. /\ Len(all) = 2 * n + 2
        /\ all[2 * n + 1] = SinkEvent(w, "EvaluationCompleted", 0)
        /\ all[2 * n + 2] = SinkEvent(w, "CandidateEvaluated", 0)
    BY <2>3, CompletedProps
  <2>5. \A i \in 1..Len(all) - 0 : Sunk(w, all[i].kind, all[i].at)
    <3>1. Len(queue[w]) = 0
      BY <1>1, EmptyAny
    <3> QED
      BY <3>1, <2>1 DEF CompletingInv
  <2> HIDE DEF all
  <2>6. 2 * n + 1 \in 1..Len(all) - 0 /\ 2 * n + 2 \in 1..Len(all) - 0
    BY <2>3, <2>4
  <2>7. \A k, at : SinkEvent(w, k, at).kind = k /\ SinkEvent(w, k, at).at = at
    BY DEF SinkEvent, Event
  <2> QED
    BY <2>4, <2>5, <2>6, <2>7
<1>6. phase[w] = "failing" => Sunk(w, "EvaluationSkipped", 0)
  <2>1. FailedEvents(w) # <<>>
    BY EmptyAny, TwoAny DEF FailedEvents
  <2> QED
    BY <2>1, <1>1 DEF EngineInv, SinkInv
<1>7. SinkInv(w)'
  <2>1. phase[w] = "scored" => ~Sunk(w, "EvaluationCompleted", 0) /\ ~Sunk(w, "EvaluationSkipped", 0)
    BY DEF EngineInv, SinkInv
  <2>2. phase[w] = "completing" => why[w] # "rollouts" /\ ~Sunk(w, "EvaluationSkipped", 0)
    BY DEF EngineInv, SinkInv
  <2>3. phase[w] = "failing" => ~Sunk(w, "EvaluationCompleted", 0)
    BY DEF EngineInv, SinkInv
  <2>4. Idle(w)'
    BY <1>1 DEF Idle
  <2>5. /\ phase[w] = "completing" => Sunk(w, "EvaluationStarted", 0)
        /\ Sunk(w, "EvaluationCompleted", 0) =>
             \A i \in DOMAIN BatchOf[w] : Sunk(w, "CaseEvaluated", i) /\ Sunk(w, "MetricCompleted", i)
    BY DEF EngineInv, SinkInv
  <2> QED
    BY <2>1, <2>2, <2>3, <2>4, <2>5, <1>1, <1>2, <1>5, <1>6 DEF SinkInv
<1>8. BridgeInv(w)'
  BY <1>1, <1>3, BridgeWaits
<1> QED
  BY <1>3, <1>4, <1>7, <1>8 DEF EngineInv

\* The engine reports, and its bridge tells how the run ended.
LEMMA ReportKeeps ==
  ASSUME Shapes, NEW w \in Engines, EngineInv(w), Reflect(w) \/ Report(w)
  PROVE  EngineInv(w)'
<1>1. /\ queue[w] = <<>> /\ Idle(w)
      /\ phase[w] \in {"returned", "raised"} /\ phase'[w] = "reporting"
      /\ UNCHANGED <<calls, entered, rolled, result, why, told, lifecycle>>
  BY DEF Reflect, Report, Go, Quiet, Shapes, delivery
<1>2. \A kind, at : Sunk(w, kind, at)' <=> Sunk(w, kind, at)
  BY <1>1, SinkUnchanged
<1>3. \A kind : Bridged(w, kind)' <=> Bridged(w, kind)
  BY <1>1, SinkUnchanged
<1>4. \E end \in {"RunCompleted", "RunFailed"} : FromBridge(w, queue'[w], Own(end))
  <2>1. CASE Reflect(w)
    <3>1. PICK x \in OtherCallbacks :
            queue'[w] = BridgeEvents(w, "on_evaluation_end")
                        \o BridgeEvents(w, x) \o BridgeEvents(w, "on_optimization_end")
      BY <2>1 DEF Reflect, Shapes
    <3>2. /\ FromBridge(w, BridgeEvents(w, "on_evaluation_end"), Own("RunCompleted"))
          /\ FromBridge(w, BridgeEvents(w, x), Own("RunCompleted"))
          /\ FromBridge(w, BridgeEvents(w, "on_optimization_end"), Own("RunCompleted"))
      BY PartialFromBridge, RunFromBridge
    <3>3. FromBridge(w, queue'[w], Own("RunCompleted"))
      BY <3>1, <3>2, TwoFromBridge
    <3> QED
      BY <3>3
  <2>2. CASE Report(w)
    <3>1. \/ queue'[w] = BridgeEvents(w, "on_fatal_error")
          \/ queue'[w] = BridgeEvents(w, "on_error") \o BridgeEvents(w, "on_optimization_end")
      BY <2>2 DEF Report, Shapes
    <3> QED
      BY <3>1, RunFromBridge, TwoFromBridge
  <2> QED
    BY <2>1, <2>2
<1>5. PICK end \in {"RunCompleted", "RunFailed"} : FromBridge(w, queue'[w], Own(end))
  BY <1>4
<1>6. QueueInv(w)'
  <2>1. ASSUME NEW e, NEW j \in 1..Len(queue'[w]), queue'[w][j] = e PROVE Upcoming(w, e)'
    <3>1. PICK k : /\ e = Event(w, "bridge", k, 0, BridgeFields)
                   /\ k \in RunKinds => k \in Own(end)
      BY <2>1, <1>5 DEF FromBridge
    <3>2. k # "RunStarted" /\ (k \in RunKinds => lifecycle' = "full")
      BY <3>1, <1>1 DEF Own, RunKinds
    <3> QED
      BY <3>1, <3>2, <1>1 DEF Upcoming, Event
  <2>2. IsSequence(queue'[w])
    BY <1>5 DEF FromBridge
  <2> QED
    BY <2>1, <2>2 DEF QueueInv
<1>7. RolloutInv(w)'
  <2>1. EvaluationBatch(w)' = EvaluationBatch(w)
    BY <1>1 DEF EvaluationBatch, Records, ScoreOf
  <2> QED
    BY <2>1, <1>1 DEF EngineInv, RolloutInv
<1>8. SinkInv(w)'
  <2>1. Idle(w)'
    BY <1>1 DEF Idle
  <2>2. SinkInv(w)
    BY DEF EngineInv
  <2> QED
    BY <2>1, <2>2, <1>1, <1>2 DEF SinkInv
<1>9. BridgeInv(w)'
  <2>1. /\ ~Bridged(w, "RunCompleted") /\ ~Bridged(w, "RunFailed")
        /\ lifecycle = "full" => Bridged(w, "RunStarted")
        /\ lifecycle # "full" => \A k \in RunKinds : ~Bridged(w, k)
    BY <1>1 DEF EngineInv, BridgeInv
  <2>2. ~(Ends(w, "RunCompleted")' /\ Ends(w, "RunFailed")')
    <3>1. "RunCompleted" \in RunKinds /\ "RunFailed" \in RunKinds
      BY DEF RunKinds
    <3>2. ~("RunCompleted" \in Own(end) /\ "RunFailed" \in Own(end))
      BY DEF Own
    <3> QED
      BY <3>1, <3>2, <1>3, <1>5, <2>1, BridgeSpeaks
  <2> QED
    BY <2>1, <2>2, <1>1, <1>3 DEF BridgeInv
<1> QED
  BY <1>6, <1>7, <1>8, <1>9 DEF EngineInv

LEMMA DoneKeeps ==
  ASSUME Shapes, NEW w \in Engines, EngineInv(w), Done(w)
  PROVE  EngineInv(w)'
<1>1. /\ queue[w] = <<>> /\ queue'[w] = <<>> /\ Idle(w)
      /\ phase[w] = "reporting" /\ phase'[w] = "over"
      /\ rolled'[w] = [i \in DOMAIN BatchOf[w] |-> None] /\ result'[w] = None /\ why'[w] = ""
      /\ UNCHANGED <<calls, entered, told, lifecycle>>
  BY DEF Done, Go, Quiet, Shapes, delivery
<1>2. \A kind, at : Sunk(w, kind, at)' <=> Sunk(w, kind, at)
  BY <1>1, SinkUnchanged
<1>3. \A kind : Bridged(w, kind)' <=> Bridged(w, kind)
  BY <1>1, SinkUnchanged
<1>4. QueueInv(w)' /\ 1..Len(queue'[w]) = {}
  BY <1>1, NothingQueued
<1>5. RolloutInv(w)'
  BY <1>1 DEF EngineInv, RolloutInv
<1>6. SinkInv(w)'
  <2>1. Idle(w)' /\ SinkInv(w)
    BY <1>1 DEF Idle, EngineInv
  <2> QED
    BY <2>1, <1>1, <1>2 DEF SinkInv
<1>7. BridgeInv(w)'
  <2>1. BridgeInv(w) /\ \A kind : Ends(w, kind)' => Ends(w, kind)
    BY <1>3, <1>4 DEF EngineInv, Ends
  <2> QED
    BY <2>1, <1>1, <1>3 DEF BridgeInv
<1> QED
  BY <1>4, <1>5, <1>6, <1>7 DEF EngineInv

LEMMA WorkKeeps ==
  ASSUME Shapes, NEW w \in Engines, EngineInv(w), Works(w)
  PROVE  EngineInv(w)'
BY BeginKeeps, AnnounceKeeps, InjectKeeps, RollKeeps, ScoreKeeps, RolloutsRaiseKeeps, RecordKeeps,
   EndKeeps, ReportKeeps, DoneKeeps DEF Works

----------------------------------------------------------------------------
(* What is told of an evaluation *)

\* An observer that is told returns, or emits, within the emission.
LEMMA ObservesWithin ==
  ASSUME DispatchInv, LockInv, NEW w \in Contexts, Observes(w)
  PROVE  ~Idle(w) /\ ~Idle(w)'
<1>1. Delivers(w)
  BY DEF Observes, Delivers
<1>2. PICK s : /\ calls' = [calls EXCEPT ![w] = s]
               /\ \/ s # <<>> /\ lock' = w
                  \/ s = <<>> /\ lock' = None
  BY <1>1, StackAndLock
<1>3. ~Idle(w)
  BY DEF Observes, Returns, Raises, ClosesItself, NestedReturns, EmitsItself, Trick, Telling, Told
<1>4. lock = w
  BY <1>3 DEF DispatchInv, Exclusive, Idle
<1>5. lock' = w
  BY <1>4 DEF Observes, Returns, Raises, ClosesItself, NestedReturns, EmitsItself
<1>6. s # <<>>
  BY <1>2, <1>5, DispatchAssumption
<1>7. calls'[w] = s
  BY <1>2 DEF DispatchInv
<1> QED
  BY <1>3, <1>6, <1>7 DEF Idle

\* An emission that raises ends what it was made in.
LEMMA UndoneKeeps ==
  ASSUME Shapes, NEW w \in Engines, EngineInv(w), ~Idle(w), Idle(w)', Undone(w),
         UNCHANGED <<told, lifecycle>>
  PROVE  EngineInv(w)'
<1>1. /\ queue'[w] = <<>>
      /\ phase'[w] = (IF phase[w] \in {"starting", "failing", "completing"} THEN "raised" ELSE "over")
      /\ why'[w] = (IF why[w] = "" THEN "told" ELSE why[w])
      /\ UNCHANGED <<entered, rolled, result>>
  BY DEF Undone, Shapes
<1>2. \A kind, at : Sunk(w, kind, at)' <=> Sunk(w, kind, at)
  BY SinkUnchanged
<1>3. \A kind : Bridged(w, kind)' <=> Bridged(w, kind)
  BY SinkUnchanged
<1>4. phase[w] \in {"called", "starting", "failing", "completing", "reporting"}
  BY DEF EngineInv, SinkInv
<1>5. QueueInv(w)' /\ 1..Len(queue'[w]) = {}
  BY <1>1, NothingQueued
<1>6. RolloutInv(w)'
  <2>1. EvaluationBatch(w)' = EvaluationBatch(w)
    BY <1>1 DEF EvaluationBatch, Records, ScoreOf
  <2> QED
    BY <2>1, <1>1, <1>4 DEF EngineInv, RolloutInv
<1>7. SinkInv(w)'
  <2>1. SinkInv(w)
    BY DEF EngineInv
  <2>2. phase[w] = "failing" => Sunk(w, "EvaluationSkipped", 0)
    BY <2>1 DEF SinkInv
  <2>3. phase'[w] = "raised" => phase[w] \in {"starting", "failing", "completing"}
    BY <1>1
  <2>4. phase'[w] \in {"raised", "over"}
    BY <1>1
  <2>5. why'[w] = "rollouts" => why[w] = "rollouts"
    BY <1>1
  <2>6. why[w] = "rollouts" => phase[w] \in {"failing", "reporting"}
    BY <2>1, <1>4 DEF SinkInv
  <2>7. Sunk(w, "EvaluationCompleted", 0) =>
          /\ Sunk(w, "EvaluationStarted", 0) /\ ~Sunk(w, "EvaluationSkipped", 0)
          /\ \A i \in DOMAIN BatchOf[w] : Sunk(w, "CaseEvaluated", i) /\ Sunk(w, "MetricCompleted", i)
    BY <2>1 DEF SinkInv
  <2> QED
    BY <2>2, <2>3, <2>4, <2>5, <2>6, <2>7, <1>2 DEF SinkInv
<1>8. BridgeInv(w)'
  <2>1. BridgeInv(w) /\ \A kind : Ends(w, kind)' => Ends(w, kind)
    BY <1>3, <1>5 DEF EngineInv, Ends
  <2>2. phase'[w] \in {"raised", "over"} /\ (phase[w] = "reporting" => phase'[w] = "over")
        /\ (phase'[w] = "raised" => phase[w] \notin {"ready", "called", "over"})
    BY <1>1
  <2> QED
    BY <2>1, <2>2, <1>3, <1>4 DEF BridgeInv
<1> QED
  BY <1>5, <1>6, <1>7, <1>8 DEF EngineInv

\* What is told when the first event of the queue is
LEMMA TellTells ==
  ASSUME Shapes, DispatchInv, NEW w \in Engines, EngineInv(w), Tell(w)
  PROVE  /\ IsSequence(queue[w]) /\ Len(queue[w]) \in Nat \ {0} /\ 1 \in 1..Len(queue[w])
         /\ IsSequence(queue'[w]) /\ Len(queue'[w]) = Len(queue[w]) - 1
         /\ \A i \in 1..Len(queue'[w]) : queue'[w][i] = queue[w][i + 1] /\ i + 1 \in 1..Len(queue[w])
         /\ UNCHANGED <<lifecycle, phase, entered, rolled, result, why>>
         /\ Upcoming(w, queue[w][1]) /\ Idle(w) /\ ~Idle(w)'
         /\ \A kind, at : Sunk(w, kind, at)' <=>
              \/ Sunk(w, kind, at)
              \/ queue[w][1].from = "sink" /\ queue[w][1].kind = kind /\ queue[w][1].at = at
         /\ \A kind : Bridged(w, kind)' <=>
              \/ Bridged(w, kind)
              \/ queue[w][1].from = "bridge" /\ queue[w][1].kind = kind /\ queue[w][1].at = 0
<1> DEFINE q == queue[w]
<1>1. IsSequence(q) /\ q # <<>>
  BY DEF Tell, EngineInv, QueueInv
<1>2. PICK S : q \in Seq(S)
  BY <1>1 DEF IsSequence
<1>3. Len(q) \in Nat \ {0} /\ 1 \in 1..Len(q)
  BY <1>1, LengthAny
<1>4. /\ Head(q) = q[1] /\ Tail(q) \in Seq(S) /\ Len(Tail(q)) = Len(q) - 1
      /\ \A i \in 1..Len(q) - 1 : Tail(q)[i] = q[i + 1]
  BY <1>1, <1>2, HeadTailProperties
<1>5. queue'[w] = Tail(q)
  BY DEF Tell, Shapes
<1>6. \A i \in 1..Len(q) - 1 : i + 1 \in 1..Len(q)
  BY <1>3
<1>7. Upcoming(w, q[1])
  BY <1>3 DEF EngineInv, QueueInv
<1>8. Idle(w) /\ ~Idle(w)'
  <2>1. w \in Contexts
    BY AdapterAssumption
  <2>2. calls'[w] = Append(calls[w], Frame(w, Head(q), None))
    BY <2>1 DEF Tell, Emit, DispatchInv
  <2>3. Idle(w) /\ calls[w] = <<>>
    BY DEF Tell, Idle
  <2> DEFINE f == Frame(w, Head(q), None)
  <2> HIDE DEF f
  <2>4. Append(<<>>, f) # <<>>
    <3>1. Len(Append(<<>>, f)) = 0 + 1
      BY EmptyAny, AppendAny
    <3> QED
      BY <3>1, EmptyAny
  <2>5. calls'[w] # <<>>
    BY <2>2, <2>3, <2>4 DEF f
  <2> QED
    BY <2>3, <2>5 DEF Idle
<1>9. told' = told \cup {[of |-> w, from |-> q[1].from, kind |-> q[1].kind, at |-> q[1].at]}
  BY <1>4 DEF Tell
<1>10. UNCHANGED <<lifecycle, phase, entered, rolled, result, why>>
  BY DEF Tell
<1>11. \A kind, at : Sunk(w, kind, at)' <=>
         \/ Sunk(w, kind, at)
         \/ q[1].from = "sink" /\ q[1].kind = kind /\ q[1].at = at
  BY <1>9 DEF Sunk
<1>12. \A kind : Bridged(w, kind)' <=>
         \/ Bridged(w, kind)
         \/ q[1].from = "bridge" /\ q[1].kind = kind /\ q[1].at = 0
  BY <1>9 DEF Bridged
<1>13. IsSequence(queue'[w])
  BY <1>4, <1>5 DEF IsSequence
<1> HIDE DEF q
<1>14. q = queue[w]
  BY DEF q
<1> QED
  BY <1>1, <1>3, <1>4, <1>5, <1>6, <1>7, <1>8, <1>10, <1>11, <1>12, <1>13, <1>14

\* When the completion is told, every case and every metric has been.
LEMMA CompletionLast ==
  ASSUME NEW w \in Engines, CompletingInv(w), result[w] = EvaluationBatch(w),
         IsSequence(queue[w]), Len(queue[w]) \in Nat \ {0},
         queue[w][1].kind = "EvaluationCompleted"
  PROVE  \A i \in DOMAIN BatchOf[w] : Sunk(w, "CaseEvaluated", i) /\ Sunk(w, "MetricCompleted", i)
<1> DEFINE n == Len(BatchOf[w])
           all == CompletedEvents(w)
           m == Len(queue[w])
<1>1. result[w].records = Records(w)
  BY DEF EvaluationBatch
<1>2. n \in Nat /\ DOMAIN BatchOf[w] = 1..n /\ Len(result[w].records) = n
  BY <1>1, RecordsProps
<1> HIDE DEF n
<1>3. /\ Len(all) = 2 * n + 2
      /\ \A i \in 1..n : /\ all[2 * i - 1] = SinkEvent(w, "CaseEvaluated", i)
                         /\ all[2 * i] = SinkEvent(w, "MetricCompleted", i)
      /\ \A j \in 1..2 * n : \E at \in Nat : \E k \in {"CaseEvaluated", "MetricCompleted"} :
              all[j] = SinkEvent(w, k, at)
      /\ all[2 * n + 1] = SinkEvent(w, "EvaluationCompleted", 0)
      /\ all[2 * n + 2] = SinkEvent(w, "CandidateEvaluated", 0)
  BY <1>2, CompletedProps
<1>4. /\ m <= Len(all) /\ \A i \in 1..m : queue[w][i] = all[Len(all) - m + i]
      /\ \A i \in 1..Len(all) - m : Sunk(w, all[i].kind, all[i].at)
  BY DEF CompletingInv
<1>5. \A k, at : SinkEvent(w, k, at).kind = k /\ SinkEvent(w, k, at).at = at
  BY DEF SinkEvent, Event
<1> HIDE DEF all, m
<1>6. m \in Nat \ {0}
  BY DEF m
<1>7. all[Len(all) - m + 1].kind = "EvaluationCompleted"
  <2>1. queue[w][1] = all[Len(all) - m + 1]
    BY <1>4, <1>6
  <2> QED
    BY <2>1
<1>8. Len(all) - m + 1 \notin 1..2 * n
  <2>1. ASSUME NEW j \in 1..2 * n PROVE all[j].kind # "EvaluationCompleted"
    BY <1>3, <1>5
  <2> QED
    BY <2>1, <1>7
<1>9. Len(all) - m >= 2 * n
  BY <1>2, <1>3, <1>4, <1>6, <1>8
<1>10. ASSUME NEW i \in 1..n PROVE Sunk(w, "CaseEvaluated", i) /\ Sunk(w, "MetricCompleted", i)
  <2>1. 2 * i - 1 \in 1..Len(all) - m /\ 2 * i \in 1..Len(all) - m
    BY <1>2, <1>3, <1>6, <1>9
  <2>2. /\ all[2 * i - 1].kind = "CaseEvaluated" /\ all[2 * i - 1].at = i
        /\ all[2 * i].kind = "MetricCompleted" /\ all[2 * i].at = i
    <3>1. /\ all[2 * i - 1] = SinkEvent(w, "CaseEvaluated", i)
          /\ all[2 * i] = SinkEvent(w, "MetricCompleted", i)
      BY <1>3
    <3> QED
      BY <3>1, <1>5
  <2> QED
    BY <2>1, <2>2, <1>4
<1> QED
  BY <1>2, <1>10

LEMMA TellKeepsCompleting ==
  ASSUME Shapes, DispatchInv, NEW w \in Engines, EngineInv(w), Tell(w), phase[w] = "completing"
  PROVE  CompletingInv(w)'
<1> DEFINE n == Len(BatchOf[w])
           all == CompletedEvents(w)
           q == queue[w]
           r == queue'[w]
<1>1. /\ Len(q) \in Nat \ {0} /\ 1 \in 1..Len(q) /\ Len(r) = Len(q) - 1
      /\ \A i \in 1..Len(r) : r[i] = q[i + 1] /\ i + 1 \in 1..Len(q)
      /\ UNCHANGED result
      /\ \A kind, at : Sunk(w, kind, at)' <=>
           Sunk(w, kind, at) \/ (q[1].from = "sink" /\ q[1].kind = kind /\ q[1].at = at)
      /\ Upcoming(w, q[1])
  BY TellTells
<1>2. CompletingInv(w) /\ result[w] = EvaluationBatch(w)
  BY DEF EngineInv, SinkInv, RolloutInv
<1>3. result[w].records = Records(w)
  BY <1>2 DEF EvaluationBatch
<1>4. n \in Nat /\ Len(result[w].records) = n
  BY <1>3, RecordsProps
<1> HIDE DEF n
<1>5. Len(all) \in Nat
  <2>1. Len(all) = 2 * n + 2
    BY <1>4, CompletedProps
  <2> HIDE DEF all
  <2> QED
    BY <2>1, <1>4
<1>6. /\ Len(q) <= Len(all) /\ \A i \in 1..Len(q) : q[i] = all[Len(all) - Len(q) + i]
      /\ \A i \in 1..Len(all) - Len(q) : Sunk(w, all[i].kind, all[i].at)
  BY <1>2 DEF CompletingInv
<1>7. all = CompletedEvents(w)'
  BY <1>1 DEF CompletedEvents, SinkEvent, Event, Open
<1>8. q[1].from = "sink"
  <2>1. \E k, at : q[1] = SinkEvent(w, k, at)
    <3>1. Upcoming(w, q[1])
      BY <1>1
    <3> HIDE DEF q
    <3> QED
      BY <3>1 DEF Upcoming
  <2>2. \A k, at : SinkEvent(w, k, at).from = "sink"
    BY DEF SinkEvent, Event
  <2> QED
    BY <2>1, <2>2
<1> HIDE DEF all, q
<1>9. Len(r) <= Len(all)
  BY <1>1, <1>5, <1>6
<1>10. ASSUME NEW i \in 1..Len(r) PROVE r[i] = all[Len(all) - Len(r) + i]
  <2>1. Len(all) - Len(q) + (i + 1) = Len(all) - Len(r) + i
    BY <1>1, <1>5
  <2> QED
    BY <2>1, <1>1, <1>6
<1>11. ASSUME NEW i \in 1..Len(all) - Len(r), NEW k, NEW t, k = all[i].kind, t = all[i].at
       PROVE  Sunk(w, k, t)'
  <2>1. i \in 1..Len(all) - Len(q) \/ i = Len(all) - Len(q) + 1
    <3>1. Len(r) = Len(q) - 1 /\ Len(q) \in Nat
      BY <1>1
    <3> HIDE DEF r
    <3> QED
      BY <3>1, <1>5
  <2>2. all[Len(all) - Len(q) + 1] = q[1]
    BY <1>1, <1>6
  <2>3. CASE i \in 1..Len(all) - Len(q)
    BY <2>3, <1>1, <1>6, <1>11
  <2>4. CASE i = Len(all) - Len(q) + 1
    BY <2>2, <2>4, <1>1, <1>8, <1>11
  <2> QED
    BY <2>1, <2>3, <2>4
<1> QED
  BY <1>7, <1>9, <1>10, <1>11 DEF CompletingInv

LEMMA TellKeeps ==
  ASSUME Shapes, DispatchInv, NEW w \in Engines, EngineInv(w), Tell(w)
  PROVE  EngineInv(w)'
<1> DEFINE e == queue[w][1]
<1>1. /\ IsSequence(queue[w]) /\ Len(queue[w]) \in Nat \ {0} /\ 1 \in 1..Len(queue[w])
      /\ IsSequence(queue'[w]) /\ Len(queue'[w]) = Len(queue[w]) - 1
      /\ \A i \in 1..Len(queue'[w]) : queue'[w][i] = queue[w][i + 1] /\ i + 1 \in 1..Len(queue[w])
      /\ UNCHANGED <<lifecycle, phase, entered, rolled, result, why>>
      /\ Upcoming(w, e) /\ Idle(w) /\ ~Idle(w)'
  BY TellTells
<1>2. \A kind, at : Sunk(w, kind, at)' <=>
        Sunk(w, kind, at) \/ (e.from = "sink" /\ e.kind = kind /\ e.at = at)
  BY TellTells
<1>3. \A kind : Bridged(w, kind)' <=>
        Bridged(w, kind) \/ (e.from = "bridge" /\ e.kind = kind /\ e.at = 0)
  BY TellTells
<1>4. QueueInv(w)'
  <2>1. \A x : Upcoming(w, x) => Upcoming(w, x)'
    BY <1>1 DEF Upcoming
  <2> QED
    BY <2>1, <1>1 DEF EngineInv, QueueInv
<1>5. RolloutInv(w)'
  <2>1. EvaluationBatch(w)' = EvaluationBatch(w)
    BY <1>1 DEF EvaluationBatch, Records, ScoreOf
  <2> QED
    BY <2>1, <1>1 DEF EngineInv, RolloutInv
<1>6. /\ \A k, at : SinkEvent(w, k, at).from = "sink" /\ SinkEvent(w, k, at).kind = k
                    /\ SinkEvent(w, k, at).at = at
      /\ \A k : Event(w, "bridge", k, 0, BridgeFields).from = "bridge"
                /\ Event(w, "bridge", k, 0, BridgeFields).kind = k
  BY DEF SinkEvent, Event
<1> HIDE DEF e
<1>7. \/ /\ phase[w] = "called" /\ e.from = "bridge" /\ e.kind \notin {"RunCompleted", "RunFailed"}
         /\ e.kind = "RunStarted" => lifecycle = "full"
      \/ phase[w] = "starting" /\ e = SinkEvent(w, "EvaluationStarted", 0)
      \/ phase[w] = "failing" /\ e.from = "sink" /\ e.kind \in {"EvaluationSkipped", "BackendError"}
      \/ phase[w] = "completing" /\ e.from = "sink"
         /\ e.kind \in {"CaseEvaluated", "MetricCompleted", "EvaluationCompleted", "CandidateEvaluated"}
      \/ /\ phase[w] = "reporting" /\ e.from = "bridge" /\ e.kind # "RunStarted"
         /\ e.kind \in RunKinds => lifecycle = "full"
  BY <1>1, <1>6 DEF Upcoming
<1>8. SinkInv(w)'
  <2>1. SinkInv(w) /\ RolloutInv(w)
    BY DEF EngineInv
  <2>2. phase[w] = "completing" => CompletingInv(w)'
    BY TellKeepsCompleting
  <2>3. Sunk(w, "EvaluationCompleted", 0)' =>
          /\ phase[w] \in {"completing", "returned", "raised", "reporting", "over"}
          /\ Sunk(w, "EvaluationStarted", 0) /\ ~Sunk(w, "EvaluationSkipped", 0)'
          /\ \A i \in DOMAIN BatchOf[w] : Sunk(w, "CaseEvaluated", i) /\ Sunk(w, "MetricCompleted", i)
    <3>1. CASE Sunk(w, "EvaluationCompleted", 0)
      <4>1. phase[w] \notin {"called", "starting", "failing"}
        BY <3>1, <2>1 DEF SinkInv
      <4>2. ~Sunk(w, "EvaluationSkipped", 0)'
        BY <3>1, <4>1, <2>1, <1>2, <1>7 DEF SinkInv
      <4> QED
        BY <3>1, <4>2, <2>1 DEF SinkInv
    <3>2. CASE e.from = "sink" /\ e.kind = "EvaluationCompleted"
      <4>1. phase[w] = "completing"
        BY <3>2, <1>6, <1>7
      <4>2. CompletingInv(w) /\ result[w] = EvaluationBatch(w) /\ Sunk(w, "EvaluationStarted", 0)
            /\ ~Sunk(w, "EvaluationSkipped", 0)
        BY <4>1, <2>1 DEF SinkInv, RolloutInv
      <4>3. \A i \in DOMAIN BatchOf[w] : Sunk(w, "CaseEvaluated", i) /\ Sunk(w, "MetricCompleted", i)
        BY <3>2, <4>2, <1>1, CompletionLast DEF e
      <4>4. ~Sunk(w, "EvaluationSkipped", 0)'
        BY <4>2, <3>2, <1>2
      <4> QED
        BY <4>1, <4>2, <4>3, <4>4
    <3> QED
      BY <3>1, <3>2, <1>2
  <2>4. Sunk(w, "EvaluationSkipped", 0)' => phase[w] \in {"failing", "raised", "reporting", "over"}
    BY <2>1, <1>2, <1>6, <1>7 DEF SinkInv
  <2>5. phase[w] = "failing" => Sunk(w, "EvaluationSkipped", 0)'
    <3> SUFFICES ASSUME phase[w] = "failing", queue[w] = FailedEvents(w)
                 PROVE  Sunk(w, "EvaluationSkipped", 0)'
      BY <2>1, <1>2 DEF SinkInv
    <3>1. e = SinkEvent(w, "EvaluationSkipped", 0)
      BY TwoAny DEF FailedEvents, e
    <3> QED
      BY <3>1, <1>2, <1>6
  <2>6. phase[w] = "starting" => Sunk(w, "EvaluationStarted", 0)'
    BY <1>2, <1>6, <1>7
  <2>7. phase[w] \in {"called", "starting", "failing", "completing", "reporting"}
    BY <1>7
  <2>8. /\ phase[w] \in {"failing", "completing"} => Sunk(w, "EvaluationStarted", 0)
        /\ why[w] = "rollouts" => phase[w] \in {"failing", "raised", "reporting", "over"}
    BY <2>1 DEF SinkInv
  <2> QED
    BY <2>2, <2>3, <2>4, <2>5, <2>6, <2>7, <2>8, <1>1, <1>2 DEF SinkInv
<1>9. BridgeInv(w)'
  <2>1. BridgeInv(w)
    BY DEF EngineInv
  <2>2. \A kind \in RunKinds : Bridged(w, kind)' => Bridged(w, kind) \/ lifecycle = "full"
    BY <1>3, <1>6, <1>7 DEF RunKinds
  <2>3. phase[w] = "called" /\ lifecycle = "full" => Bridged(w, "RunStarted")'
    <3> SUFFICES ASSUME phase[w] = "called", lifecycle = "full", ~Bridged(w, "RunStarted")
                 PROVE  Bridged(w, "RunStarted")'
      BY <1>3
    <3>1. e = Event(w, "bridge", "RunStarted", 0, BridgeFields)
      BY <2>1 DEF BridgeInv, e
    <3>2. e.at = 0
      BY <3>1 DEF Event
    <3> QED
      BY <3>1, <3>2, <1>3, <1>6
  <2>4. Bridged(w, "RunCompleted")' \/ Bridged(w, "RunFailed")' =>
          phase[w] \in {"reporting", "over"} /\ Bridged(w, "RunStarted")
    <3>1. CASE Bridged(w, "RunCompleted") \/ Bridged(w, "RunFailed")
      BY <3>1, <2>1 DEF BridgeInv
    <3>2. CASE e.from = "bridge" /\ e.kind \in {"RunCompleted", "RunFailed"}
      <4>1. phase[w] = "reporting" /\ lifecycle = "full"
        BY <3>2, <1>6, <1>7 DEF RunKinds
      <4> QED
        BY <4>1, <2>1 DEF BridgeInv
    <3> QED
      BY <3>1, <3>2, <1>3
  <2>5. \A kind : Ends(w, kind)' => Ends(w, kind)
    <3> TAKE kind
    <3>1. ASSUME NEW i \in 1..Len(queue'[w]),
                 queue'[w][i] = Event(w, "bridge", kind, 0, BridgeFields)
          PROVE  Ends(w, kind)
      BY <3>1, <1>1 DEF Ends
    <3>2. ASSUME e.from = "bridge", e.kind = kind PROVE Ends(w, kind)
      <4>1. e = Event(w, "bridge", kind, 0, BridgeFields)
        BY <3>2, <1>1, <1>6 DEF Upcoming
      <4> QED
        BY <4>1, <1>1 DEF Ends, e
    <3>3. Bridged(w, kind) => Ends(w, kind)
      BY DEF Ends
    <3> QED
      BY <3>1, <3>2, <3>3, <1>3 DEF Ends
  <2>6. phase[w] # "ready"
    BY <1>7
  <2>7. \A kind : Bridged(w, kind) => Bridged(w, kind)'
    BY <1>3
  <2> QED
    BY <2>1, <2>2, <2>3, <2>4, <2>5, <2>6, <2>7, <1>1 DEF BridgeInv
<1> QED
  BY <1>4, <1>5, <1>8, <1>9 DEF EngineInv

LEMMA EmissionKeeps ==
  ASSUME Shapes, DispatchInv, LockInv, NEW w \in Engines, EngineInv(w), Emits(w)
  PROVE  EngineInv(w)'
<1>1. w \in Contexts /\ UNCHANGED lifecycle
  BY AdapterAssumption, EmissionDelivers
<1>2. CASE Tell(w)
  BY <1>2, TellKeeps
<1>3. CASE TellReturns(w) \/ Interrupted(w)
  <2>1. ~Idle(w) /\ UNCHANGED told /\ calls' = [calls EXCEPT ![w] = <<>>]
        /\ (Undone(w) \/ UNCHANGED engineVars)
    BY <1>3 DEF TellReturns, Interrupted, Leave, Interrupts, Trick, Telling, Told
  <2>2. Idle(w)'
    BY <2>1, <1>1 DEF Idle, DispatchInv
  <2>3. CASE Undone(w)
    BY <2>1, <2>2, <2>3, <1>1, UndoneKeeps
  <2>4. CASE UNCHANGED engineVars
    <3>1. UNCHANGED <<phase, queue, entered, rolled, result, why, told, lifecycle>>
      BY <2>1, <2>4, <1>1 DEF engineVars
    <3>2. \A kind, at : Sunk(w, kind, at)' <=> Sunk(w, kind, at)
      BY <3>1, SinkUnchanged
    <3>3. \A kind : Bridged(w, kind)' <=> Bridged(w, kind)
      BY <3>1, SinkUnchanged
    <3>4. QueueInv(w)'
      BY <3>1 DEF EngineInv, QueueInv, Upcoming
    <3>5. RolloutInv(w)'
      <4>1. EvaluationBatch(w)' = EvaluationBatch(w)
        BY <3>1 DEF EvaluationBatch, Records, ScoreOf
      <4> QED
        BY <4>1, <3>1 DEF EngineInv, RolloutInv
    <3>6. SinkInv(w)'
      <4>1. CompletingInv(w) => CompletingInv(w)'
        <5>1. CompletedEvents(w)' = CompletedEvents(w)
          BY <3>1 DEF CompletedEvents, SinkEvent, Event, Open
        <5> QED
          BY <5>1, <3>1, <3>2 DEF CompletingInv
      <4>2. phase[w] = "failing" => Sunk(w, "EvaluationSkipped", 0)
        BY <2>1 DEF EngineInv, SinkInv
      <4> QED
        BY <4>1, <4>2, <2>2, <3>1, <3>2 DEF EngineInv, SinkInv
    <3>7. BridgeInv(w)'
      <4>1. \A kind : Ends(w, kind)' <=> Ends(w, kind)
        BY <3>1, <3>3 DEF Ends
      <4> QED
        BY <4>1, <3>1, <3>3 DEF EngineInv, BridgeInv
    <3> QED
      BY <3>4, <3>5, <3>6, <3>7 DEF EngineInv
  <2> QED
    BY <2>1, <2>3, <2>4
<1>4. CASE Observes(w)
  <2>1. ~Idle(w) /\ ~Idle(w)'
    BY <1>1, <1>4, ObservesWithin
  <2>2. UNCHANGED <<phase, queue, entered, rolled, result, why, told>>
    BY <1>4 DEF Observes, engineVars
  <2>3. SameEngine(w) /\ SameTold(w)
    BY <2>2 DEF SameEngine, SameTold
  <2> QED
    BY <2>1, <2>3, <1>1, SameEngineKeeps
<1> QED
  BY <1>2, <1>3, <1>4 DEF Emits

\* The dispatcher and its scope are made before anything is told.
LEMMA StartKeeps ==
  ASSUME RunInv, NEW l, StartRun(l), NEW w \in Engines, EngineInv(w)
  PROVE  EngineInv(w)'
<1>1. /\ phase[w] = "ready" /\ told = {}
      /\ UNCHANGED <<calls, phase, queue, entered, rolled, result, why, told>>
  BY DEF StartRun, RunInv, Started, delivery, engineVars
<1>2. queue[w] = <<>>
  BY <1>1, NothingUpcoming DEF EngineInv, Speaking
<1>3. QueueInv(w)' /\ 1..Len(queue'[w]) = {}
  BY <1>1, <1>2, NothingQueued
<1>4. RolloutInv(w)'
  <2>1. EvaluationBatch(w)' = EvaluationBatch(w)
    BY <1>1 DEF EvaluationBatch, Records, ScoreOf
  <2> QED
    BY <2>1, <1>1 DEF EngineInv, RolloutInv
<1>5. SinkInv(w)'
  <2>1. SinkInv(w) /\ \A kind, at : Sunk(w, kind, at)' <=> Sunk(w, kind, at)
    BY <1>1, SinkUnchanged DEF EngineInv
  <2>2. Idle(w)' <=> Idle(w)
    BY <1>1 DEF Idle
  <2> QED
    BY <2>1, <2>2, <1>1 DEF SinkInv
<1>6. BridgeInv(w)'
  <2>1. \A kind : ~Bridged(w, kind)' /\ ~Ends(w, kind)'
    BY <1>1, <1>3 DEF Bridged, Ends
  <2> QED
    BY <2>1, <1>1 DEF BridgeInv
<1> QED
  BY <1>3, <1>4, <1>5, <1>6 DEF EngineInv

LEMMA EnginesKept ==
  ASSUME IInv, [Next]_vars
  PROVE  \A v \in Engines : EngineInv(v)'
<1> TAKE v \in Engines
<1>1. /\ EngineInv(v) /\ Shapes /\ DispatchInv /\ LockInv /\ RunInv /\ v \in Contexts
  BY AdapterAssumption DEF IInv
<1>2. CASE Settles
  <2>1. UNCHANGED <<phase, queue, entered, rolled, result, why, told, calls>>
    BY <1>2, SettlesQuietly DEF progress, engineVars
  <2>2. UNCHANGED lifecycle
    BY <1>2 DEF Settles, Setting, EnterAround, EndRun, vars
  <2>3. SameEngine(v) /\ SameTold(v) /\ (Idle(v)' <=> Idle(v))
    BY <2>1 DEF SameEngine, SameTold, Idle
  <2> QED
    BY <2>2, <2>3, <1>1, SameEngineKeeps
<1>3. CASE \E l \in Lifecycles : StartRun(l)
  BY <1>1, <1>3, StartKeeps
<1>4. ASSUME NEW w \in Engines, Works(w) PROVE EngineInv(v)'
  <2>1. CASE w = v
    BY <2>1, <1>1, <1>4, WorkKeeps
  <2>2. CASE w # v
    <3>1. SameEngine(v) /\ UNCHANGED <<lifecycle, told, calls>>
      BY <2>2, <1>1, <1>4, WorkIsOwn, WorkIsQuiet DEF progress
    <3>2. SameTold(v) /\ (Idle(v)' <=> Idle(v))
      BY <3>1 DEF SameTold, Idle
    <3> QED
      BY <3>1, <3>2, <1>1, SameEngineKeeps
  <2> QED
    BY <2>1, <2>2
<1>5. ASSUME NEW w \in Engines, Emits(w) PROVE EngineInv(v)'
  <2>1. CASE w = v
    BY <2>1, <1>1, <1>5, EmissionKeeps
  <2>2. CASE w # v
    <3>1. SameEngine(v) /\ SameTold(v) /\ UNCHANGED lifecycle /\ Delivers(w) /\ w \in Contexts
      BY <2>2, <1>1, <1>5, EmissionIsOwn, EmissionDelivers, AdapterAssumption
    <3>2. \E s : calls' = [calls EXCEPT ![w] = s]
      BY <3>1, <1>1, StackAndLock
    <3>3. calls'[v] = calls[v]
      BY <3>2, <2>2, <1>1 DEF DispatchInv
    <3>4. Idle(v)' <=> Idle(v)
      BY <3>3 DEF Idle
    <3> QED
      BY <3>1, <3>4, <1>1, SameEngineKeeps
  <2> QED
    BY <2>1, <2>2
<1> QED
  BY <1>2, <1>3, <1>4, <1>5, StepKinds

LEMMA NothingYet == 1..0 = {} /\ Distinct(<<>>)
<1>1. 1..0 = {}
  OBVIOUS
<1> QED
  BY <1>1, EmptyAny DEF Distinct

LEMMA InitInv == Init => IInv
<1> SUFFICES ASSUME Init PROVE IInv
  OBVIOUS
<1>1. DispatchInv /\ CountInv
  BY InitHolds, InitCounts DEF Init
<1>2. /\ subscribers = [c \in Contexts |-> <<>>] /\ scopes = [c \in Contexts |-> <<>>]
      /\ dispatcher = None /\ lock = None /\ tricks = 0 /\ calls = [c \in Contexts |-> <<>>]
  BY DEF Init, DispatchInit
<1>3. run = "idle" /\ outer = None /\ lifecycle = None /\ told = {}
  BY DEF Init
<1>4. /\ phase = [w \in Engines |-> "ready"] /\ queue = [w \in Engines |-> <<>>]
      /\ entered = [w \in Engines |-> <<>>] /\ result = [w \in Engines |-> None]
      /\ rolled = [w \in Engines |-> [i \in DOMAIN BatchOf[w] |-> None]]
      /\ why = [w \in Engines |-> ""]
  BY DEF Init
<1> HIDE DEF Init
<1>5. Subscribed
  <2>1. <<>> \in Seq(Subscribers)
    OBVIOUS
  <2> QED
    BY <2>1, <1>2, NothingYet DEF Subscribed
<1>6. LockInv
  BY <1>2 DEF LockInv
<1>7. RunInv
  BY <1>2, <1>3, <1>4 DEF RunInv, Started
<1>8. ScopeInv
  <2>1. scopes[Main] = <<>> /\ scopes = [c \in Contexts |-> scopes[c]]
    BY <1>2, AdapterAssumption
  <2>2. Scope(Main) = NoScope
    BY <2>1 DEF Scope
  <2>3. /\ Scope(Main).execution = None /\ Scope(Main).parent = None /\ Scope(Main).stage = None
        /\ \A f \in Fields : Scope(Main).fields[f] = None
    BY <2>2 DEF NoScope
  <2>4. ~Started
    BY <1>3 DEF Started
  <2>5. OuterParent = None /\ OuterStage = None /\ \A f : OuterField(f) = None
    BY <1>3 DEF OuterParent, OuterStage, OuterField
  <2> QED
    BY <2>1, <2>3, <2>4, <2>5, <1>3, EmptyAny DEF ScopeInv
<1>9. FrameInv
  <2>1. \A c \in Contexts : DOMAIN calls[c] = {}
    <3>1. DOMAIN <<>> = {}
      OBVIOUS
    <3> QED
      BY <3>1, <1>2
  <2> QED
    BY <2>1 DEF FrameInv
<1>10. Shapes
  <2>1. tricks \in 0..MaxTricks
    <3>1. MaxTricks \in Nat
      BY AdapterAssumption
    <3> QED
      BY <3>1, <1>2
  <2> QED
    BY <2>1, <1>4 DEF Shapes, Phases
<1>11. ASSUME NEW w \in Engines PROVE EngineInv(w)
  <2>1. /\ phase[w] = "ready" /\ queue[w] = <<>> /\ entered[w] = <<>> /\ result[w] = None
        /\ rolled[w] = [i \in DOMAIN BatchOf[w] |-> None] /\ why[w] = ""
    BY <1>4
  <2>2. 1..Len(queue[w]) = {}
    BY <2>1, EmptyAny, NothingYet
  <2>3. QueueInv(w)
    BY <2>1, <2>2, EmptyAny DEF QueueInv
  <2>4. RolloutInv(w)
    BY <2>1, EmptyEntered DEF RolloutInv
  <2>5. \A kind, at : ~Sunk(w, kind, at) /\ ~Bridged(w, kind)
    BY <1>3 DEF Sunk, Bridged
  <2>6. Idle(w)
    BY <1>2, AdapterAssumption DEF Idle
  <2>7. SinkInv(w)
    BY <2>1, <2>5, <2>6 DEF SinkInv
  <2>8. \A kind : ~Ends(w, kind)
    BY <2>2, <2>5 DEF Ends
  <2>9. BridgeInv(w)
    BY <2>1, <2>5, <2>8 DEF BridgeInv
  <2> QED
    BY <2>3, <2>4, <2>7, <2>9 DEF EngineInv
<1> QED
  BY <1>1, <1>5, <1>6, <1>7, <1>8, <1>9, <1>10, <1>11 DEF IInv

LEMMA NextInv == IInv /\ [Next]_vars => IInv'
<1> SUFFICES ASSUME IInv, [Next]_vars PROVE IInv'
  OBVIOUS
<1>1. DispatchInv' /\ CountInv'
  BY DispatchKept
<1>2. Subscribed' /\ LockInv' /\ RunInv' /\ ScopeInv' /\ FrameInv' /\ Shapes'
  BY SubscribedKept, LockKept, RunKept, ScopeKept, FrameKept, ShapesKept
<1>3. \A w \in Engines : EngineInv(w)'
  BY EnginesKept
<1> QED
  BY <1>1, <1>2, <1>3 DEF IInv

----------------------------------------------------------------------------
(* The records a reflection is shown *)

Scored(r) == r.score \in Int

\* Before is a weak order of records.
LEMMA BeforeOrders ==
  ASSUME NEW b, NEW r, Scored(r), NEW q, Scored(q), NEW p, Scored(p)
  PROVE  /\ ~Before(b, r, r)
         /\ Before(b, r, q) => ~Before(b, q, r)
         /\ Before(b, r, q) /\ Before(b, q, p) => Before(b, r, p)
         /\ ~Before(b, q, r) /\ ~Before(b, p, q) => ~Before(b, p, r)
<1> DEFINE lower(x, y) == x.score < y.score
<1>1. /\ ~lower(r, r)
      /\ lower(r, q) => ~lower(q, r)
      /\ lower(r, q) /\ lower(q, p) => lower(r, p)
      /\ ~lower(q, r) /\ ~lower(p, q) => ~lower(p, r)
      /\ lower(r, q) /\ ~lower(p, q) => lower(r, p)
      /\ ~lower(q, r) /\ lower(q, p) => lower(r, p)
  BY DEF Scored
<1>2. CASE b.sample_selection = "lowest_score"
  <2>1. \A x, y : Before(b, x, y) <=> lower(x, y)
    BY <1>2 DEF Before
  <2> HIDE DEF lower
  <2> QED
    BY <2>1, <1>1
<1>3. CASE b.sample_selection = "failure_first"
  <2>1. \A x, y : Before(b, x, y) <=>
          \/ Failing(x) /\ ~Failing(y)
          \/ (Failing(x) <=> Failing(y)) /\ lower(x, y)
    BY <1>3 DEF Before, Failing
  <2> HIDE DEF lower
  <2>2. ~Before(b, r, r)
    BY <2>1, <1>1
  <2>3. Before(b, r, q) => ~Before(b, q, r)
    BY <2>1, <1>1
  <2>4. Before(b, r, q) /\ Before(b, q, p) => Before(b, r, p)
    BY <2>1, <1>1
  <2>5. ~Before(b, q, r) /\ ~Before(b, p, q) => ~Before(b, p, r)
    BY <2>1, <1>1
  <2> QED
    BY <2>2, <2>3, <2>4, <2>5
<1>4. CASE b.sample_selection \notin {"lowest_score", "failure_first"}
  <2>1. ~Before(b, r, r) /\ ~Before(b, r, q) /\ ~Before(b, p, r)
    BY <1>4 DEF Before
  <2> QED
    BY <2>1
<1> QED
  BY <1>2, <1>3, <1>4

LEMMA AheadOrders ==
  ASSUME NEW b, NEW R, \A r \in R : Scored(r), NEW s \in Seq(R)
  PROVE  /\ IsOrder({p \in (1..Len(s)) \X (1..Len(s)) : Ahead(b, s, p[1], p[2])}, 1..Len(s))
         /\ \A i \in 1..Len(s) :
              /\ Preceding({p \in (1..Len(s)) \X (1..Len(s)) : Ahead(b, s, p[1], p[2])}, 1..Len(s), i)
                   = {j \in 1..Len(s) : Ahead(b, s, j, i)}
              /\ Place(b, s, i) = Cardinality({j \in 1..Len(s) : Ahead(b, s, j, i)})
<1> DEFINE I == 1..Len(s)
           A == {p \in I \X I : Ahead(b, s, p[1], p[2])}
<1>1. \A i, j \in I : <<i, j>> \in A <=> Ahead(b, s, i, j)
  OBVIOUS
<1>2. Len(s) \in Nat /\ DOMAIN s = I /\ \A i \in I : i \in Int
  BY LenProperties
<1>3. \A i \in I : Scored(s[i])
  <2> TAKE i \in I
  <2>1. s[i] \in R
    BY ElementOfSeq
  <2> QED
    BY <2>1
<1> HIDE DEF I, A
<1>4. ASSUME NEW i \in I, NEW j \in I, NEW k \in I
      PROVE  /\ ~Ahead(b, s, i, i) /\ (i = j \/ Ahead(b, s, i, j) \/ Ahead(b, s, j, i))
             /\ Ahead(b, s, i, j) /\ Ahead(b, s, j, k) => Ahead(b, s, i, k)
  <2>1. i \in Int /\ j \in Int /\ k \in Int /\ Scored(s[i]) /\ Scored(s[j]) /\ Scored(s[k])
    BY <1>2, <1>3
  <2>2. ~Before(b, s[i], s[i]) /\ (Before(b, s[i], s[j]) => ~Before(b, s[j], s[i]))
    BY <2>1, BeforeOrders
  <2>3. /\ Before(b, s[i], s[j]) /\ Before(b, s[j], s[k]) => Before(b, s[i], s[k])
        /\ ~Before(b, s[j], s[i]) /\ ~Before(b, s[k], s[j]) => ~Before(b, s[k], s[i])
    BY <2>1, BeforeOrders
  <2>4. /\ Before(b, s[i], s[j]) /\ ~Before(b, s[k], s[j]) => Before(b, s[i], s[k])
    <3>1. ~Before(b, s[k], s[j]) /\ ~Before(b, s[i], s[k]) => ~Before(b, s[i], s[j])
      BY <2>1, BeforeOrders
    <3> QED
      BY <3>1
  <2>5. /\ ~Before(b, s[j], s[i]) /\ Before(b, s[j], s[k]) => Before(b, s[i], s[k])
    <3>1. ~Before(b, s[i], s[k]) /\ ~Before(b, s[j], s[i]) => ~Before(b, s[j], s[k])
      BY <2>1, BeforeOrders
    <3> QED
      BY <3>1
  <2>6. ~Ahead(b, s, i, i) /\ (i = j \/ Ahead(b, s, i, j) \/ Ahead(b, s, j, i))
    BY <2>1, <2>2 DEF Ahead
  <2>7. i < j /\ j < k => i < k
    BY <2>1
  <2>8. Ahead(b, s, i, j) /\ Ahead(b, s, j, k) => Ahead(b, s, i, k)
    BY <2>3, <2>4, <2>5, <2>7 DEF Ahead
  <2> QED
    BY <2>6, <2>8
<1>5. IsOrder(A, I)
  BY <1>1, <1>4 DEF IsOrder
<1>6. \A i \in I : Preceding(A, I, i) = {j \in I : Ahead(b, s, j, i)}
  BY <1>1 DEF Preceding
<1>7. \A i \in I : Place(b, s, i) = Cardinality({j \in I : Ahead(b, s, j, i)})
  BY <1>2 DEF Place
<1> QED
  BY <1>5, <1>6, <1>7 DEF I, A

\* How the records come to be in order: o gives the place each comes from.
Places(b, s, o) ==
  /\ o \in [1..Len(s) -> 1..Len(s)]
  /\ Sorted(b, s) = [k \in 1..Len(s) |-> s[o[k]]]
  /\ \A k \in 1..Len(s) : Place(b, s, o[k]) = k - 1
  /\ \A k, l \in 1..Len(s) : Ahead(b, s, o[k], o[l]) <=> k < l
  /\ \A i \in 1..Len(s) : \E k \in 1..Len(s) : o[k] = i

\* Sorting leaves every record, once, behind those that are ahead of it.
LEMMA SortedPlaces ==
  ASSUME NEW b, NEW R, \A r \in R : Scored(r), NEW s \in Seq(R)
  PROVE  \E o : Places(b, s, o)
<1> DEFINE n == Len(s)
           I == 1..Len(s)
           A == {p \in I \X I : Ahead(b, s, p[1], p[2])}
           o == [k \in I |-> CHOOSE i \in I : Place(b, s, i) = k - 1]
<1>1. n \in Nat /\ DOMAIN s = I /\ IsFiniteSet(I) /\ Cardinality(I) = n
  <2>1. n \in Nat /\ DOMAIN s = I
    BY LenProperties
  <2> QED
    BY <2>1, FS_Interval
<1>2. /\ IsOrder(A, I)
      /\ \A i \in I : /\ Preceding(A, I, i) = {j \in I : Ahead(b, s, j, i)}
                      /\ Place(b, s, i) = Cardinality({j \in I : Ahead(b, s, j, i)})
  BY AheadOrders
<1>3. \A i, j \in I : <<i, j>> \in A <=> Ahead(b, s, i, j)
  OBVIOUS
<1>4. Sorted(b, s) = [k \in I |-> s[o[k]]]
  BY <1>1 DEF Sorted
<1> HIDE DEF A
<1>5. /\ \A i \in I : Place(b, s, i) \in 0..n - 1
      /\ \A k \in I : \E i \in I : Place(b, s, i) = k - 1
  <2>1. IsFiniteSet(I) /\ IsOrder(A, I)
    BY <1>1, <1>2
  <2>2. /\ \A i \in I : Cardinality(Preceding(A, I, i)) \in 0..Cardinality(I) - 1
        /\ \A k \in 1..Cardinality(I) : \E i \in I : Cardinality(Preceding(A, I, i)) = k - 1
    <3> HIDE DEF I
    <3> QED
      BY <2>1, PrecedingFills
  <2> QED
    BY <2>2, <1>1, <1>2
<1>6. \A i, k \in I : Ahead(b, s, i, k) => Place(b, s, i) < Place(b, s, k)
  <2> TAKE i, k \in I
  <2>1. <<i, k>> \in A => Cardinality(Preceding(A, I, i)) < Cardinality(Preceding(A, I, k))
    <3> HIDE DEF I
    <3> QED
      BY <1>1, <1>2, PrecedingGrows
  <2> QED
    BY <2>1, <1>2, <1>3
<1>7. \A i, k \in I : i = k \/ Ahead(b, s, i, k) \/ Ahead(b, s, k, i)
  BY <1>2, <1>3 DEF IsOrder
<1>8. \A k \in I : o[k] \in I /\ Place(b, s, o[k]) = k - 1
  BY <1>5
<1> HIDE DEF o
<1>9. ASSUME NEW k \in I, NEW l \in I PROVE Ahead(b, s, o[k], o[l]) <=> k < l
  <2>1. /\ o[k] \in I /\ o[l] \in I /\ k \in Int /\ l \in Int
        /\ Place(b, s, o[k]) = k - 1 /\ Place(b, s, o[l]) = l - 1
    BY <1>8
  <2>2. Ahead(b, s, o[k], o[l]) => k - 1 < l - 1
    BY <2>1, <1>6
  <2>3. Ahead(b, s, o[l], o[k]) => l - 1 < k - 1
    BY <2>1, <1>6
  <2>4. o[k] = o[l] => k - 1 = l - 1
    BY <2>1
  <2>5. o[k] = o[l] \/ Ahead(b, s, o[k], o[l]) \/ Ahead(b, s, o[l], o[k])
    BY <2>1, <1>7
  <2> HIDE DEF I
  <2> QED
    BY <2>1, <2>2, <2>3, <2>4, <2>5
<1>10. ASSUME NEW i \in I PROVE \E k \in I : o[k] = i
  <2> DEFINE k == Place(b, s, i) + 1
  <2>1. Place(b, s, i) \in 0..n - 1
    BY <1>5
  <2>2. k \in I /\ k - 1 = Place(b, s, i)
    BY <2>1, <1>1
  <2>3. o[k] \in I /\ Place(b, s, o[k]) = Place(b, s, i)
    BY <2>2, <1>8
  <2>4. ~(Place(b, s, i) < Place(b, s, i))
    BY <2>1, <1>1
  <2> HIDE DEF I, k
  <2>5. ~Ahead(b, s, o[k], i) /\ ~Ahead(b, s, i, o[k])
    BY <2>3, <2>4, <1>6
  <2> QED
    BY <2>2, <2>3, <2>5, <1>7
<1>11. o \in [I -> I]
  <2>1. o = [k \in I |-> o[k]]
    BY DEF o
  <2> QED
    BY <2>1, <1>8
<1>12. Places(b, s, o)
  BY <1>4, <1>8, <1>9, <1>10, <1>11 DEF Places
<1> QED
  BY <1>12

Sized(r) == r.size \in Nat

\* What the recursion of Size computes
LEMMA SizeUpto ==
  ASSUME NEW R, \A r \in R : Sized(r), NEW s \in Seq(R)
  PROVE  \E u \in [0..Len(s) -> Nat] :
           /\ u[0] = 0 /\ \A k \in 1..Len(s) : u[k] = u[k - 1] + s[k].size
           /\ Size(s) = u[Len(s)]
<1> DEFINE n == Len(s)
           Solves(g) == g = [k \in 0..n |-> IF k = 0 THEN 0 ELSE g[k - 1] + s[k].size]
           step == [p \in (1..n) \X Nat |-> p[2] + s[p[1]].size]
           u == CHOOSE g : Solves(g)
<1>1. n \in Nat /\ \A k \in 1..n : s[k].size \in Nat
  <2>1. n \in Nat
    BY LenProperties
  <2>2. ASSUME NEW k \in 1..n PROVE s[k].size \in Nat
    <3>1. s[k] \in R
      BY ElementOfSeq
    <3> QED
      BY <3>1 DEF Sized
  <2> QED
    BY <2>1, <2>2
<1>2. Size(s) = u[n]
  BY DEF Size
<1> HIDE DEF n
<1>3. step \in [(1..n) \X Nat -> Nat]
  BY <1>1
<1>4. \A k \in 1..n, x \in Nat : step[<<k, x>>] = x + s[k].size
  OBVIOUS
<1> HIDE DEF step
<1>5. PICK f \in [0..n -> Nat] : f[0] = 0 /\ \A k \in 1..n : f[k] = step[<<k, f[k - 1]>>]
  <2>1. PICK f : Computed(f, n, Nat, 0, step)
    BY <1>1, <1>3, RecursionExists
  <2> QED
    BY <2>1 DEF Computed
<1>6. ASSUME NEW k \in 1..n PROVE f[k] = f[k - 1] + s[k].size
  <2>1. k - 1 \in 0..n
    BY <1>1
  <2>2. f[k - 1] \in Nat
    BY <2>1
  <2> QED
    BY <2>2, <1>4, <1>5
<1>7. Solves(f)
  <2>1. ASSUME NEW k \in 0..n PROVE f[k] = IF k = 0 THEN 0 ELSE f[k - 1] + s[k].size
    <3>1. k = 0 \/ k \in 1..n
      BY <1>1
    <3> QED
      BY <3>1, <1>5, <1>6
  <2> QED
    BY <2>1
<1>8. Solves(u)
  BY <1>7
<1> HIDE DEF u
<1>9. u[0] = 0 /\ \A k \in 1..n : u[k] = u[k - 1] + s[k].size
  BY <1>8, <1>1
<1>10. \A k \in 0..n : u[k] = f[k]
  <2>1. u[0] = f[0]
    BY <1>9, <1>5
  <2>2. \A k \in 1..n : u[k - 1] = f[k - 1] => u[k] = f[k]
    BY <1>6, <1>9
  <2>3. Agree(u, f, n)
    BY <2>1, <2>2 DEF Agree
  <2> QED
    BY <2>3, <1>1, RecursionUnique
<1>11. Size(s) = f[n]
  BY <1>1, <1>2, <1>10
<1> QED
  BY <1>5, <1>6, <1>11 DEF n

LEMMA SizeProps ==
  ASSUME NEW R, \A r \in R : Sized(r), NEW s \in Seq(R)
  PROVE  /\ Size(s) \in Nat /\ Size(<<>>) = 0
         /\ \A r \in R : Size(Append(s, r)) = Size(s) + r.size
<1>1. Size(s) \in Nat
  <2>1. PICK u \in [0..Len(s) -> Nat] : Size(s) = u[Len(s)]
    BY SizeUpto
  <2>2. Len(s) \in 0..Len(s)
    BY LenProperties
  <2> QED
    BY <2>1, <2>2
<1>2. Size(<<>>) = 0
  <2>1. <<>> \in Seq(R) /\ Len(<<>>) = 0
    BY EmptySeq
  <2>2. PICK u \in [0..Len(<<>>) -> Nat] : u[0] = 0 /\ Size(<<>>) = u[Len(<<>>)]
    BY <2>1, SizeUpto
  <2> QED
    BY <2>1, <2>2
<1>3. ASSUME NEW r \in R PROVE Size(Append(s, r)) = Size(s) + r.size
  <2> DEFINE n == Len(s)
             t == Append(s, r)
  <2>1. n \in Nat /\ t \in Seq(R) /\ Len(t) = n + 1
    BY LenProperties, AppendProperties
  <2>2. t[n + 1] = r /\ \A k \in 1..n : t[k] = s[k]
    BY LenProperties, AppendProperties
  <2>3. PICK u \in [0..n -> Nat] :
          /\ u[0] = 0 /\ \A k \in 1..n : u[k] = u[k - 1] + s[k].size
          /\ Size(s) = u[n]
    BY SizeUpto
  <2> HIDE DEF t
  <2>4. PICK v \in [0..Len(t) -> Nat] :
          /\ v[0] = 0 /\ \A k \in 1..Len(t) : v[k] = v[k - 1] + t[k].size
          /\ Size(t) = v[Len(t)]
    BY <2>1, SizeUpto
  <2> HIDE DEF n
  <2>5. \A k \in 0..n : u[k] = v[k]
    <3>1. u[0] = v[0]
      BY <2>3, <2>4
    <3>2. ASSUME NEW k \in 1..n, u[k - 1] = v[k - 1] PROVE u[k] = v[k]
      <4>1. k \in 1..Len(t)
        BY <2>1
      <4>2. v[k] = v[k - 1] + t[k].size /\ t[k] = s[k]
        BY <4>1, <2>2, <2>4
      <4> QED
        BY <4>2, <2>3, <3>2
    <3>3. n \in Nat
      BY <2>1
    <3>4. Agree(u, v, n)
      BY <3>1, <3>2 DEF Agree
    <3> QED
      BY <3>3, <3>4, RecursionUnique
  <2>6. n + 1 \in 1..Len(t) /\ (n + 1) - 1 = n /\ n \in 0..n
    BY <2>1
  <2>7. Size(t) = v[n] + t[n + 1].size
    BY <2>1, <2>4, <2>6
  <2> QED
    BY <2>2, <2>3, <2>5, <2>6, <2>7 DEF t
<1> QED
  BY <1>1, <1>2, <1>3

\* What the recursion of Bounded computes
LEMMA BoundedTaken ==
  ASSUME NEW b, NEW R, NEW s \in Seq(R)
  PROVE  \E t \in [0..Len(s) -> Seq(R)] :
           /\ t[0] = <<>>
           /\ \A k \in 1..Len(s) :
                t[k] = IF Size(t[k - 1]) + s[k].size > b.max_encoded_chars
                       THEN t[k - 1] ELSE Append(t[k - 1], s[k])
           /\ Bounded(b, s) = IF b.max_encoded_chars = Unlimited THEN s ELSE t[Len(s)]
<1> DEFINE n == Len(s)
           next(k, x) == IF Size(x) + s[k].size > b.max_encoded_chars
                         THEN x ELSE Append(x, s[k])
           Solves(g) == g = [k \in 0..n |->
             IF k = 0 THEN <<>>
             ELSE IF Size(g[k - 1]) + s[k].size > b.max_encoded_chars
               THEN g[k - 1]
             ELSE Append(g[k - 1], s[k])]
           step == [p \in (1..n) \X Seq(R) |-> next(p[1], p[2])]
           u == CHOOSE g : Solves(g)
<1>1. n \in Nat /\ <<>> \in Seq(R)
  BY LenProperties, EmptySeq
<1>2. Bounded(b, s) = IF b.max_encoded_chars = Unlimited THEN s ELSE u[n]
  BY DEF Bounded
<1>3. \A g, k : next(k, g[k - 1]) = IF Size(g[k - 1]) + s[k].size > b.max_encoded_chars
                                    THEN g[k - 1] ELSE Append(g[k - 1], s[k])
  OBVIOUS
<1>4. \A k \in 1..n, x \in Seq(R) : next(k, x) \in Seq(R)
  <2> TAKE k \in 1..n, x \in Seq(R)
  <2>1. s[k] \in R
    BY ElementOfSeq
  <2>2. Append(x, s[k]) \in Seq(R)
    BY <2>1, AppendProperties
  <2> QED
    BY <2>2
<1>5. \A g : Solves(g) <=> g = [k \in 0..n |-> IF k = 0 THEN <<>> ELSE next(k, g[k - 1])]
  OBVIOUS
<1> HIDE DEF next, Solves
<1>6. step \in [(1..n) \X Seq(R) -> Seq(R)]
  BY <1>4
<1>7. \A k \in 1..n, x \in Seq(R) : step[<<k, x>>] = next(k, x)
  OBVIOUS
<1> HIDE DEF step, n
<1>8. PICK f \in [0..n -> Seq(R)] : f[0] = <<>> /\ \A k \in 1..n : f[k] = step[<<k, f[k - 1]>>]
  <2>1. PICK f : Computed(f, n, Seq(R), <<>>, step)
    BY <1>1, <1>6, RecursionExists
  <2> QED
    BY <2>1 DEF Computed
<1>9. ASSUME NEW k \in 1..n PROVE f[k] = next(k, f[k - 1])
  <2>1. k - 1 \in 0..n
    BY <1>1
  <2>2. f[k - 1] \in Seq(R)
    BY <2>1
  <2> QED
    BY <2>2, <1>7, <1>8
<1>10. Solves(f)
  <2>1. ASSUME NEW k \in 0..n PROVE f[k] = IF k = 0 THEN <<>> ELSE next(k, f[k - 1])
    <3>1. k = 0 \/ k \in 1..n
      BY <1>1
    <3> QED
      BY <3>1, <1>8, <1>9
  <2>2. f = [k \in 0..n |-> IF k = 0 THEN <<>> ELSE next(k, f[k - 1])]
    BY <2>1
  <2> QED
    BY <2>2, <1>5
<1>11. Solves(u)
  BY <1>10
<1> HIDE DEF u
<1>12. u[0] = <<>> /\ \A k \in 1..n : u[k] = next(k, u[k - 1])
  <2>1. u = [k \in 0..n |-> IF k = 0 THEN <<>> ELSE next(k, u[k - 1])]
    BY <1>5, <1>11
  <2> QED
    BY <2>1, <1>1
<1>13. \A k \in 0..n : u[k] = f[k]
  <2>1. Agree(u, f, n)
    BY <1>8, <1>9, <1>12 DEF Agree
  <2> QED
    BY <2>1, <1>1, RecursionUnique
<1>14. Bounded(b, s) = IF b.max_encoded_chars = Unlimited THEN s ELSE f[n]
  BY <1>1, <1>2, <1>13
<1> QED
  BY <1>3, <1>8, <1>9, <1>14 DEF n

LEMMA AppendedPrefix ==
  ASSUME NEW R, NEW t \in Seq(R), NEW r \in R, NEW m \in 0..Len(t)
  PROVE  SubSeq(Append(t, r), 1, m) = SubSeq(t, 1, m)
<1> DEFINE a == Append(t, r)
<1>1. /\ Len(t) \in Nat /\ a \in Seq(R) /\ Len(a) = Len(t) + 1
      /\ \A i \in 1..Len(t) : a[i] = t[i]
  BY LenProperties, AppendProperties
<1> HIDE DEF a
<1>2. m \in Int /\ \A i \in 1..m : a[i] = t[i] /\ t[i] \in R
  BY <1>1, ElementOfSeq
<1>3. /\ SubSeq(t, 1, m) \in Seq(R) /\ Len(SubSeq(t, 1, m)) = m
      /\ \A i \in 1..m : SubSeq(t, 1, m)[i] = t[i]
  <2>1. \A i \in 1..m : t[i] \in R
    BY <1>2
  <2>2. /\ SubSeq(t, 1, m) \in Seq(R)
        /\ Len(SubSeq(t, 1, m)) = IF 1 <= m THEN m - 1 + 1 ELSE 0
        /\ \A i \in 1..m - 1 + 1 : SubSeq(t, 1, m)[i] = t[1 + i - 1]
    BY <1>2, <2>1, SubSeqProperties
  <2> QED
    BY <1>1, <2>2
<1>4. /\ SubSeq(a, 1, m) \in Seq(R) /\ Len(SubSeq(a, 1, m)) = m
      /\ \A i \in 1..m : SubSeq(a, 1, m)[i] = a[i]
  <2>1. \A i \in 1..m : a[i] \in R
    BY <1>2
  <2>2. /\ SubSeq(a, 1, m) \in Seq(R)
        /\ Len(SubSeq(a, 1, m)) = IF 1 <= m THEN m - 1 + 1 ELSE 0
        /\ \A i \in 1..m - 1 + 1 : SubSeq(a, 1, m)[i] = a[1 + i - 1]
    BY <1>2, <2>1, SubSeqProperties
  <2> QED
    BY <1>1, <2>2
<1>5. \A i \in 1..m : SubSeq(a, 1, m)[i] = SubSeq(t, 1, m)[i]
  BY <1>2, <1>3, <1>4
<1> QED
  BY <1>3, <1>4, <1>5, SeqEqual DEF a

\* What was taken of the first k records, and where each was.
Crowded(b, t, q, p, size) ==
  \E m \in 0..Len(t) :
    /\ \A j \in 1..Len(t) : j <= m <=> q[j] < p
    /\ Size(SubSeq(t, 1, m)) + size > b.max_encoded_chars

TakenFrom(b, t, s, k, q) ==
  /\ q \in [1..Len(t) -> 1..k]
  /\ \A j \in 1..Len(t) : t[j] = s[q[j]]
  /\ \A i, j \in 1..Len(t) : i < j => q[i] < q[j]
  /\ Size(t) \in Nat /\ Size(t) <= b.max_encoded_chars
  /\ \A p \in 1..k : (\E j \in 1..Len(t) : q[j] = p) \/ Crowded(b, t, q, p, s[p].size)

TakenOf(b, t, s, k) == \E q : TakenFrom(b, t, s, k, q)

LEMMA TakenNext ==
  ASSUME NEW b, NEW R, \A r \in R : Sized(r), NEW s \in Seq(R),
         b.max_encoded_chars \in Nat,
         NEW k \in 1..Len(s), NEW t \in Seq(R), TakenOf(b, t, s, k - 1)
  PROVE  TakenOf(b, IF Size(t) + s[k].size > b.max_encoded_chars
                    THEN t ELSE Append(t, s[k]), s, k)
<1> DEFINE n == Len(t)
           max == b.max_encoded_chars
<1>1. Len(s) \in Nat /\ n \in Nat /\ k \in Nat /\ k - 1 \in Nat
  BY LenProperties
<1>2. s[k] \in R /\ s[k].size \in Nat
  <2>1. s[k] \in R
    BY ElementOfSeq
  <2> QED
    BY <2>1 DEF Sized
<1>3. PICK q : TakenFrom(b, t, s, k - 1, q)
  BY DEF TakenOf
<1>4. /\ q \in [1..n -> 1..k - 1] /\ \A j \in 1..n : t[j] = s[q[j]]
      /\ \A i, j \in 1..n : i < j => q[i] < q[j]
      /\ Size(t) \in Nat /\ Size(t) <= max
      /\ \A p \in 1..k - 1 : (\E j \in 1..n : q[j] = p) \/ Crowded(b, t, q, p, s[p].size)
  BY <1>3 DEF TakenFrom
<1> HIDE DEF max
<1>5. \A p \in 1..k : p = k \/ p \in 1..k - 1
  BY <1>1
<1>6. \A j \in 1..n : q[j] \in 1..k /\ q[j] < k
  <2> TAKE j \in 1..n
  <2>1. q[j] \in 1..k - 1
    BY <1>4
  <2> QED
    BY <2>1, <1>1
<1>7. CASE Size(t) + s[k].size > max
  <2>1. Crowded(b, t, q, k, s[k].size)
    <3>1. n \in 0..n /\ SubSeq(t, 1, n) = t
      BY <1>1, SubSeqFull
    <3>2. \A j \in 1..n : j <= n <=> q[j] < k
      BY <1>1, <1>6
    <3> QED
      BY <3>1, <3>2, <1>7 DEF Crowded, max
  <2>2. q \in [1..n -> 1..k]
    BY <1>4, <1>6
  <2>3. \A p \in 1..k : (\E j \in 1..n : q[j] = p) \/ Crowded(b, t, q, p, s[p].size)
    BY <2>1, <1>4, <1>5
  <2>4. TakenFrom(b, t, s, k, q)
    BY <2>2, <2>3, <1>4 DEF TakenFrom, max
  <2>5. TakenOf(b, t, s, k)
    BY <2>4 DEF TakenOf
  <2> QED
    BY <2>5, <1>7 DEF max
<1>8. CASE ~(Size(t) + s[k].size > max)
  <2> DEFINE a == Append(t, s[k])
             r == [j \in 1..n + 1 |-> IF j = n + 1 THEN k ELSE q[j]]
  <2>1. /\ Len(a) = n + 1 /\ a[n + 1] = s[k] /\ \A i \in 1..n : a[i] = t[i]
    BY <1>2, AppendProperties
  <2>2. Size(a) = Size(t) + s[k].size
    BY <1>2, SizeProps
  <2>3. \A m \in 0..n : SubSeq(a, 1, m) = SubSeq(t, 1, m)
    BY <1>2, AppendedPrefix
  <2>4. r[n + 1] = k /\ \A j \in 1..n : r[j] = q[j]
    BY <1>1
  <2>5. \A j \in 1..n + 1 : j = n + 1 \/ j \in 1..n
    BY <1>1
  <2>6. r \in [1..n + 1 -> 1..k]
    <3>1. k \in 1..k
      BY <1>1
    <3> QED
      BY <3>1, <2>4, <2>5, <1>6
  <2> HIDE DEF a, r
  <2>7. \A j \in 1..n + 1 : a[j] = s[r[j]]
    BY <2>1, <2>4, <2>5, <1>4
  <2>8. \A i, j \in 1..n + 1 : i < j => r[i] < r[j]
    <3> SUFFICES ASSUME NEW i \in 1..n + 1, NEW j \in 1..n + 1, i < j PROVE r[i] < r[j]
      OBVIOUS
    <3>1. i \in 1..n
      BY <1>1
    <3>2. CASE j = n + 1
      BY <3>1, <3>2, <2>4, <1>6
    <3>3. CASE j \in 1..n
      BY <3>1, <3>3, <2>4, <1>4
    <3> QED
      BY <3>2, <3>3, <2>5
  <2>9. Size(a) \in Nat /\ Size(a) <= max
    <3>1. max \in Nat
      BY DEF max
    <3> QED
      BY <3>1, <2>2, <1>2, <1>4, <1>8
  <2>10. ASSUME NEW p \in 1..k - 1, Crowded(b, t, q, p, s[p].size)
         PROVE  Crowded(b, a, r, p, s[p].size)
    <3>1. PICK m \in 0..n :
            /\ \A j \in 1..n : j <= m <=> q[j] < p
            /\ Size(SubSeq(t, 1, m)) + s[p].size > b.max_encoded_chars
      BY <2>10 DEF Crowded
    <3>2. m \in 0..n + 1 /\ ~(n + 1 <= m) /\ ~(k < p)
      BY <1>1
    <3>3. \A j \in 1..n + 1 : j <= m <=> r[j] < p
      <4> TAKE j \in 1..n + 1
      <4>1. CASE j = n + 1
        BY <4>1, <3>2, <2>4
      <4>2. CASE j \in 1..n
        BY <4>2, <3>1, <2>4
      <4> QED
        BY <4>1, <4>2, <2>5
    <3>4. Size(SubSeq(a, 1, m)) + s[p].size > b.max_encoded_chars
      BY <3>1, <2>3
    <3> QED
      BY <3>2, <3>3, <3>4, <2>1 DEF Crowded
  <2>11. ASSUME NEW p \in 1..k
         PROVE  (\E j \in 1..n + 1 : r[j] = p) \/ Crowded(b, a, r, p, s[p].size)
    <3>1. n + 1 \in 1..n + 1 /\ \A j \in 1..n : j \in 1..n + 1
      BY <1>1
    <3>2. CASE p = k
      BY <3>1, <3>2, <2>4
    <3>3. CASE p \in 1..k - 1
      BY <3>1, <3>3, <2>4, <2>10, <1>4
    <3> QED
      BY <3>2, <3>3, <1>5
  <2>12. TakenFrom(b, a, s, k, r)
    BY <2>1, <2>6, <2>7, <2>8, <2>9, <2>11 DEF TakenFrom, max
  <2>13. TakenOf(b, a, s, k)
    BY <2>12 DEF TakenOf
  <2> QED
    BY <2>13, <1>8 DEF a, max
<1> QED
  BY <1>7, <1>8

LEMMA BoundedProps ==
  ASSUME NEW b \in Builders, NEW R, \A r \in R : Sized(r), NEW s \in Seq(R),
         b.max_encoded_chars # Unlimited
  PROVE  Bounded(b, s) \in Seq(R) /\ TakenOf(b, Bounded(b, s), s, Len(s))
<1>1. b.max_encoded_chars \in Nat /\ Len(s) \in Nat
  BY BuilderAssumption, LenProperties
<1>2. PICK t \in [0..Len(s) -> Seq(R)] :
        /\ t[0] = <<>>
        /\ \A k \in 1..Len(s) :
             t[k] = IF Size(t[k - 1]) + s[k].size > b.max_encoded_chars
                    THEN t[k - 1] ELSE Append(t[k - 1], s[k])
        /\ Bounded(b, s) = t[Len(s)]
  BY BoundedTaken
<1> DEFINE G == {k \in 0..Len(s) : TakenOf(b, t[k], s, k)}
<1>3. 0 \in G
  <2>1. Len(<<>>) = 0 /\ <<>> \in Seq(R)
    BY EmptySeq
  <2>2. Size(<<>>) = 0
    BY SizeProps
  <2> DEFINE q == [j \in 1..0 |-> j]
  <2>3. q \in [1..Len(<<>>) -> 1..0] /\ 1..0 = {}
    BY <2>1
  <2> HIDE DEF q
  <2>4. TakenFrom(b, <<>>, s, 0, q)
    BY <2>1, <2>2, <2>3, <1>1 DEF TakenFrom
  <2>5. TakenOf(b, <<>>, s, 0)
    BY <2>4 DEF TakenOf
  <2>6. 0 \in 0..Len(s)
    BY <1>1
  <2> QED
    BY <2>5, <2>6, <1>2
<1>4. ASSUME NEW k \in 1..Len(s), k - 1 \in G PROVE k \in G
  <2>1. k - 1 \in 0..Len(s) /\ k \in 0..Len(s)
    BY <1>1
  <2>2. t[k - 1] \in Seq(R) /\ TakenOf(b, t[k - 1], s, k - 1)
    BY <2>1, <1>4
  <2>3. TakenOf(b, IF Size(t[k - 1]) + s[k].size > b.max_encoded_chars
                   THEN t[k - 1] ELSE Append(t[k - 1], s[k]), s, k)
    BY <2>2, <1>1, TakenNext
  <2>4. TakenOf(b, t[k], s, k)
    BY <2>3, <1>2
  <2> QED
    BY <2>1, <2>4
<1> HIDE DEF G
<1>5. Len(s) \in G
  <2>1. \A k \in 0..Len(s) : k \in G
    BY <1>1, <1>3, <1>4, CountingUp
  <2>2. Len(s) \in 0..Len(s)
    BY <1>1
  <2> QED
    BY <2>1, <2>2
<1>6. Bounded(b, s) \in Seq(R)
  <2>1. Len(s) \in 0..Len(s)
    BY <1>1
  <2> QED
    BY <2>1, <1>2
<1> QED
  BY <1>2, <1>5, <1>6 DEF G

\* The records that count as examples are the first in order.
LEMMA LimitedProps ==
  ASSUME NEW b \in Builders, NEW R, NEW records \in Seq(R), NEW s \in Seq(R),
         Len(s) = Len(records), NEW o, Places(b, records, o)
  PROVE  /\ Limited(b, s) \in Seq(R) /\ Len(Limited(b, s)) \in 0..Len(s)
         /\ \A k \in 1..Len(Limited(b, s)) : Limited(b, s)[k] = s[k]
         /\ \A k \in 1..Len(s) : Admitted(b, records, o[k]) <=> k <= Len(Limited(b, s))
<1> DEFINE n == Len(s)
           x == Limited(b, s)
           limit == Limit(b, n)
<1>1. n \in Nat /\ Len(records) = n /\ DOMAIN records = 1..n
  BY LenProperties
<1>2. \A k \in 1..n : Admitted(b, records, o[k]) <=> (b.max_examples # Unlimited => k - 1 < limit)
  <2> TAKE k \in 1..n
  <2>1. Place(b, records, o[k]) = k - 1
    BY DEF Places
  <2> QED
    BY <2>1, <1>1 DEF Admitted, Place
<1>3. b.max_examples # Unlimited => limit \in Int
  <2> SUFFICES ASSUME b.max_examples # Unlimited PROVE limit \in Int
    OBVIOUS
  <2>1. b.max_examples \in Int
    BY BuilderAssumption
  <2> QED
    BY <2>1, <1>1 DEF Limit
<1>4. CASE b.max_examples = Unlimited \/ n <= limit
  <2>1. x = s
    BY <1>4 DEF Limited
  <2>2. \A k \in 1..n : (b.max_examples # Unlimited => k - 1 < limit) /\ k <= n
    <3> HIDE DEF limit
    <3> QED
      BY <1>1, <1>3, <1>4
  <2>3. n \in 0..n
    BY <1>1
  <2> HIDE DEF x
  <2> QED
    BY <2>1, <2>2, <2>3, <1>2 DEF x
<1>5. CASE ~(b.max_examples = Unlimited \/ n <= limit)
  <2>1. x = SubSeq(s, 1, limit)
    BY <1>5 DEF Limited
  <2>2. limit \in Int /\ limit < n
    <3> HIDE DEF limit
    <3> QED
      BY <1>1, <1>3, <1>5
  <2> HIDE DEF limit, x
  <2>3. \A i \in 1..limit : s[i] \in R
    <3> TAKE i \in 1..limit
    <3>1. i \in 1..n
      BY <2>2, <1>1
    <3> QED
      BY <3>1, ElementOfSeq
  <2>4. /\ x \in Seq(R) /\ Len(x) = IF 1 <= limit THEN limit - 1 + 1 ELSE 0
        /\ \A i \in 1..limit - 1 + 1 : x[i] = s[1 + i - 1]
    BY <2>1, <2>2, <2>3, SubSeqProperties
  <2>5. Len(x) = (IF 1 <= limit THEN limit ELSE 0) /\ \A i \in 1..limit : x[i] = s[i]
    BY <2>2, <2>4
  <2>6. Len(x) \in 0..n /\ \A k \in 1..Len(x) : k \in 1..limit
    BY <2>2, <2>5, <1>1
  <2>7. \A k \in 1..n : k - 1 < limit <=> k <= Len(x)
    BY <2>2, <2>5, <1>1
  <2> QED
    BY <2>4, <2>5, <2>6, <2>7, <1>2, <1>5 DEF x
<1> QED
  BY <1>4, <1>5

\* What a reflection is shown of the records is a selection of them.
LEMMA SelectProps ==
  ASSUME NEW b \in Builders, NEW R, \A r \in R : Scored(r) /\ Sized(r),
         NEW records \in Seq(R)
  PROVE  IsSelection(b, Select(b, records), records)
<1> DEFINE n == Len(records)
           s == Sorted(b, records)
           x == Limited(b, s)
           c == Len(x)
           shown == Select(b, records)
           max == b.max_encoded_chars
<1>1. n \in Nat /\ DOMAIN records = 1..n
  BY LenProperties
<1>2. PICK o : Places(b, records, o)
  BY SortedPlaces
<1>3. /\ o \in [1..n -> 1..n] /\ s = [k \in 1..n |-> records[o[k]]]
      /\ \A k, l \in 1..n : Ahead(b, records, o[k], o[l]) <=> k < l
      /\ \A i \in 1..n : \E k \in 1..n : o[k] = i
  BY <1>2 DEF Places
<1>4. s \in Seq(R) /\ Len(s) = n
  <2> HIDE DEF s, n
  <2>1. \A k \in 1..n : records[o[k]] \in R
    BY <1>1, <1>3, ElementOfSeq
  <2>2. s \in [1..n -> R]
    BY <2>1, <1>3
  <2> QED
    BY <2>2, <1>1, FunctionIsSequence
<1>5. shown = Bounded(b, x)
  BY DEF Select
<1> HIDE DEF s
<1>6. /\ x \in Seq(R) /\ c \in 0..n /\ \A k \in 1..c : x[k] = s[k]
      /\ \A k \in 1..n : Admitted(b, records, o[k]) <=> k <= c
  BY <1>2, <1>4, LimitedProps
<1> HIDE DEF shown, x, c
<1>7. /\ shown \in Seq(R)
      /\ max # Unlimited => Size(shown) <= max
      /\ \E q : /\ q \in [1..Len(shown) -> 1..c]
                /\ \A j \in 1..Len(shown) : shown[j] = x[q[j]]
                /\ \A i, j \in 1..Len(shown) : i < j => q[i] < q[j]
                /\ \A p \in 1..c : \/ \E j \in 1..Len(shown) : q[j] = p
                                   \/ /\ max # Unlimited
                                      /\ Crowded(b, shown, q, p, x[p].size)
  <2>1. CASE max = Unlimited
    <3>1. shown = x
      BY <2>1, <1>5 DEF Bounded
    <3> DEFINE q == [j \in 1..c |-> j]
    <3>2. q \in [1..c -> 1..c] /\ \A j \in 1..c : q[j] = j
      OBVIOUS
    <3> HIDE DEF q
    <3> QED
      BY <3>1, <3>2, <2>1, <1>6 DEF c
  <2>2. CASE max # Unlimited
    <3>1. shown \in Seq(R) /\ TakenOf(b, shown, x, c)
      BY <2>2, <1>5, <1>6, BoundedProps DEF c
    <3>2. PICK q : TakenFrom(b, shown, x, c, q)
      BY <3>1 DEF TakenOf
    <3> QED
      BY <3>1, <3>2, <2>2 DEF TakenFrom
  <2> QED
    BY <2>1, <2>2
<1>8. Len(shown) \in Nat /\ DOMAIN shown = 1..Len(shown)
  BY <1>7, LenProperties
<1> DEFINE m == Len(shown)
<1>9. PICK q : /\ q \in [1..m -> 1..c]
               /\ \A j \in 1..m : shown[j] = x[q[j]]
               /\ \A i, j \in 1..m : i < j => q[i] < q[j]
               /\ \A p \in 1..c : \/ \E j \in 1..m : q[j] = p
                                  \/ /\ max # Unlimited
                                     /\ Crowded(b, shown, q, p, x[p].size)
  BY <1>7
<1> DEFINE at == [k \in 1..m |-> o[q[k]]]
<1>10. \A k \in 1..m : q[k] \in 1..c /\ q[k] \in 1..n /\ o[q[k]] \in 1..n
  <2> TAKE k \in 1..m
  <2>1. q[k] \in 1..c
    BY <1>9
  <2>2. q[k] \in 1..n
    BY <2>1, <1>1, <1>6
  <2> QED
    BY <2>1, <2>2, <1>3
<1>11. at \in [1..m -> 1..n] /\ \A k \in 1..m : at[k] = o[q[k]]
  BY <1>10
<1> HIDE DEF n, m, at, max
<1>12. \A k \in 1..c : k \in 1..n /\ x[k] = records[o[k]] /\ Admitted(b, records, o[k])
  <2> TAKE k \in 1..c
  <2>1. k \in 1..n /\ k <= c
    BY <1>1, <1>6
  <2> QED
    BY <2>1, <1>3, <1>6
<1>13. \A k \in 1..m : shown[k] = records[at[k]] /\ Admitted(b, records, at[k])
  BY <1>9, <1>10, <1>11, <1>12
<1>14. \A k, l \in 1..m : k < l => Ahead(b, records, at[k], at[l])
  BY <1>3, <1>9, <1>10, <1>11
<1>15. ASSUME NEW i \in 1..n, Admitted(b, records, i)
       PROVE  \/ \E k \in 1..m : at[k] = i
              \/ /\ max # Unlimited
                 /\ \E l \in 0..Len(shown) :
                      /\ \A k \in 1..m : k <= l <=> Ahead(b, records, at[k], i)
                      /\ Size(SubSeq(shown, 1, l)) + records[i].size > b.max_encoded_chars
  <2>1. PICK p \in 1..n : o[p] = i
    BY <1>3
  <2>2. p \in 1..c
    BY <2>1, <1>1, <1>6, <1>15
  <2>3. CASE \E j \in 1..m : q[j] = p
    BY <2>1, <2>3, <1>11
  <2>4. CASE max # Unlimited /\ Crowded(b, shown, q, p, x[p].size)
    <3>1. PICK l \in 0..Len(shown) :
            /\ \A j \in 1..m : j <= l <=> q[j] < p
            /\ Size(SubSeq(shown, 1, l)) + x[p].size > b.max_encoded_chars
      BY <2>4 DEF Crowded, m
    <3>2. x[p] = records[i]
      BY <2>1, <2>2, <1>12
    <3>3. \A k \in 1..m : k <= l <=> Ahead(b, records, at[k], i)
      BY <3>1, <2>1, <1>3, <1>10, <1>11
    <3> QED
      BY <3>1, <3>2, <3>3, <2>4
  <2> QED
    BY <2>2, <2>3, <2>4, <1>9
<1>16. IsSelection(b, shown, records)
  <2>1. DOMAIN shown = 1..m /\ DOMAIN records = 1..n
    BY <1>1, <1>8 DEF m
  <2>2. max # Unlimited => Size(shown) <= max
    BY <1>7
  <2>3. at \in [DOMAIN shown -> DOMAIN records]
    BY <2>1, <1>11
  <2>4. \A i \in DOMAIN records : Admitted(b, records, i) =>
          \/ \E k \in DOMAIN shown : at[k] = i
          \/ /\ max # Unlimited
             /\ \E l \in 0..Len(shown) :
                  /\ \A k \in DOMAIN shown : k <= l <=> Ahead(b, records, at[k], i)
                  /\ Size(SubSeq(shown, 1, l)) + records[i].size > max
    BY <2>1, <1>15 DEF max
  <2>5. \A k, l \in DOMAIN shown : k < l => Ahead(b, records, at[k], at[l])
    BY <2>1, <1>14
  <2>6. \A k \in DOMAIN shown : shown[k] = records[at[k]] /\ Admitted(b, records, at[k])
    BY <2>1, <1>13
  <2> QED
    BY <2>2, <2>3, <2>4, <2>5, <2>6 DEF IsSelection, max
<1> QED
  BY <1>16 DEF shown

LEMMA RoutedIsRecords ==
  ASSUME NEW b, NEW R, NEW records \in Seq(R), NEW components, NEW c,
         \A r \in R : Times(b, r, components, c) \in Nat
  PROVE  Routed(b, records, components, c) \in Seq(R)
<1> DEFINE n == Len(records)
           next(k, x) == x \o [j \in 1..Times(b, records[k], components, c) |-> records[k]]
           Solves(g) == g = [k \in 0..n |->
             IF k = 0 THEN <<>>
             ELSE g[k - 1] \o [j \in 1..Times(b, records[k], components, c) |-> records[k]]]
           step == [p \in (1..n) \X Seq(R) |-> next(p[1], p[2])]
           u == CHOOSE g : Solves(g)
<1>1. n \in Nat /\ <<>> \in Seq(R)
  BY LenProperties, EmptySeq
<1>2. Routed(b, records, components, c) = u[n]
  BY DEF Routed
<1>3. \A k \in 1..n, x \in Seq(R) : next(k, x) \in Seq(R)
  <2> TAKE k \in 1..n, x \in Seq(R)
  <2> DEFINE m == Times(b, records[k], components, c)
             y == [j \in 1..m |-> records[k]]
  <2>1. records[k] \in R /\ m \in Nat
    BY ElementOfSeq
  <2> HIDE DEF m
  <2>2. y \in [1..m -> R]
    BY <2>1
  <2>3. y \in Seq(R)
    BY <2>1, <2>2, FunctionIsSequence
  <2> HIDE DEF y
  <2>4. x \o y \in Seq(R)
    BY <2>3, ConcatProperties
  <2> QED
    BY <2>4 DEF y, m
<1>4. \A g : Solves(g) <=> g = [k \in 0..n |-> IF k = 0 THEN <<>> ELSE next(k, g[k - 1])]
  OBVIOUS
<1> HIDE DEF next, Solves
<1>5. step \in [(1..n) \X Seq(R) -> Seq(R)]
  BY <1>3
<1>6. \A k \in 1..n, x \in Seq(R) : step[<<k, x>>] = next(k, x)
  OBVIOUS
<1> HIDE DEF step, n
<1>7. PICK f \in [0..n -> Seq(R)] : f[0] = <<>> /\ \A k \in 1..n : f[k] = step[<<k, f[k - 1]>>]
  <2>1. PICK f : Computed(f, n, Seq(R), <<>>, step)
    BY <1>1, <1>5, RecursionExists
  <2> QED
    BY <2>1 DEF Computed
<1>8. ASSUME NEW k \in 1..n PROVE f[k] = next(k, f[k - 1])
  <2>1. k - 1 \in 0..n
    BY <1>1
  <2>2. f[k - 1] \in Seq(R)
    BY <2>1
  <2> QED
    BY <2>2, <1>6, <1>7
<1>9. Solves(f)
  <2>1. ASSUME NEW k \in 0..n PROVE f[k] = IF k = 0 THEN <<>> ELSE next(k, f[k - 1])
    <3>1. k = 0 \/ k \in 1..n
      BY <1>1
    <3> QED
      BY <3>1, <1>7, <1>8
  <2>2. f = [k \in 0..n |-> IF k = 0 THEN <<>> ELSE next(k, f[k - 1])]
    BY <2>1
  <2> QED
    BY <2>2, <1>4
<1>10. Solves(u)
  BY <1>9
<1> HIDE DEF u
<1>11. u[0] = <<>> /\ \A k \in 1..n : u[k] = next(k, u[k - 1])
  <2>1. u = [k \in 0..n |-> IF k = 0 THEN <<>> ELSE next(k, u[k - 1])]
    BY <1>4, <1>10
  <2> QED
    BY <2>1, <1>1
<1>12. \A k \in 0..n : u[k] = f[k]
  <2>1. Agree(u, f, n)
    BY <1>7, <1>8, <1>11 DEF Agree
  <2> QED
    BY <2>1, <1>1, RecursionUnique
<1>13. n \in 0..n
  BY <1>1
<1> QED
  BY <1>2, <1>7, <1>12, <1>13

LEMMA TimesIsNat ==
  ASSUME NEW b, NEW r, NEW components, NEW c,
         r.selected = NoScore \/ r.selected \in Seq(ToSet(r.selected)),
         r.hints \in Seq(ToSet(r.hints)), components \in Seq(ToSet(components))
  PROVE  Times(b, r, components, c) \in Nat
<1>1. ASSUME NEW S, NEW names \in Seq(S) PROVE Count(names, c) \in Nat
  <2> DEFINE Q == {i \in DOMAIN names : names[i] = c}
  <2>1. IsFiniteSet(DOMAIN names) /\ Q \subseteq DOMAIN names
    BY LenProperties, FS_Interval
  <2> HIDE DEF Q
  <2>2. IsFiniteSet(Q)
    BY <2>1, FS_Subset
  <2>3. Cardinality(Q) \in Nat
    BY <2>2, FS_CardinalityType
  <2> QED
    BY <2>3 DEF Count, Q
<1>2. r.selected # NoScore => Count(r.selected, c) \in Nat
  BY <1>1
<1>3. Count(r.hints, c) \in Nat /\ Count(components, c) \in Nat
  BY <1>1
<1> QED
  BY <1>2, <1>3 DEF Times

----------------------------------------------------------------------------
(* What a reflection is shown *)

RolledOut(w) == \A i \in DOMAIN BatchOf[w] : rolled[w][i] # None

\* The evidence is that of a report of cases that all were run; it is made once
\* the report has been told, and goes with it.
Reflected(w) ==
  /\ phase[w] \in {"scored", "completing", "returned"} => RolledOut(w)
  /\ evidence[w] \notin {None, <<>>} =>
       /\ phase[w] \in {"reporting", "over"} /\ RolledOut(w)
       /\ result[w] = EvaluationBatch(w)
       /\ \E b \in Builders :
            evidence[w] = [builder |-> b, shown |-> Evidence(b, RecordsOf(w), Updates)]

EvidenceInv ==
  /\ evidence = [w \in Engines |-> evidence[w]]
  /\ \A w \in Engines : Reflected(w)

\* The reports, and what is made of them
LEMMA SameReflected ==
  ASSUME NEW w, rolled'[w] = rolled[w], result'[w] = result[w], evidence'[w] = evidence[w],
         phase'[w] \in {"scored", "completing", "returned"}
           => phase[w] \in {"scored", "completing", "returned"},
         phase[w] \in {"reporting", "over"} => phase'[w] \in {"reporting", "over"},
         Reflected(w)
  PROVE  Reflected(w)'
<1>1. EvaluationBatch(w)' = EvaluationBatch(w)
  BY DEF EvaluationBatch, Records, ScoreOf
<1>2. RolledOut(w)' <=> RolledOut(w)
  BY DEF RolledOut
<1>3. \A k : RecordOf(w, k)' = RecordOf(w, k)
  BY DEF RecordOf
<1>4. RecordsOf(w)' = RecordsOf(w)
  BY <1>3 DEF RecordsOf
<1>5. \A b : Evidence(b, RecordsOf(w), Updates)' = Evidence(b, RecordsOf(w), Updates)
  BY <1>4
<1>6. phase'[w] \in {"scored", "completing", "returned"} => RolledOut(w)'
  BY <1>2 DEF Reflected
<1>7. ASSUME evidence'[w] \notin {None, <<>>}
      PROVE  /\ phase'[w] \in {"reporting", "over"} /\ RolledOut(w)'
             /\ result'[w] = EvaluationBatch(w)'
             /\ \E b \in Builders :
                  evidence'[w] = [builder |-> b, shown |-> Evidence(b, RecordsOf(w), Updates)']
  <2>1. /\ phase[w] \in {"reporting", "over"} /\ RolledOut(w)
        /\ result[w] = EvaluationBatch(w)
        /\ \E b \in Builders :
             evidence[w] = [builder |-> b, shown |-> Evidence(b, RecordsOf(w), Updates)]
    BY <1>7 DEF Reflected
  <2>2. phase'[w] \in {"reporting", "over"}
    BY <1>7, <2>1
  <2> HIDE DEF Reflected
  <2> QED
    BY <2>1, <2>2, <1>1, <1>2, <1>5
<1> QED
  BY <1>6, <1>7 DEF Reflected

\* Nobody but the engine itself changes what it is shown.
LEMMA EvidenceIsOwn ==
  ASSUME Shapes, evidence = [u \in Engines |-> evidence[u]],
         NEW w \in Engines, Works(w) \/ Emits(w)
  PROVE  /\ evidence' = [u \in Engines |-> evidence'[u]]
         /\ \A v \in Engines : v # w => evidence'[v] = evidence[v]
<1>1. CASE UNCHANGED evidence
  BY <1>1
<1>2. CASE Reflect(w) \/ Done(w)
  BY <1>2 DEF Reflect, Done
<1>3. CASE Emits(w)
  <2>1. UNCHANGED evidence
    BY <1>3 DEF Emits, Tell, TellReturns, Observes, Interrupted, Undone, engineVars
  <2> QED
    BY <2>1, <1>1
<1>4. CASE Works(w) /\ ~(Reflect(w) \/ Done(w))
  <2>1. CASE \E c \in CandidatesOf[w] : Begin(w, c)
    BY <2>1, <1>1 DEF Begin
  <2>2. CASE Evaluate(w) \/ Announced(w) \/ Inject(w)
    BY <2>2, <1>1 DEF Evaluate, Announced, Inject, Fail
  <2>3. CASE \E i \in DOMAIN BatchOf[w], o \in OutcomesOf[w] : Roll(w, i, o)
    BY <2>3, <1>1 DEF Roll
  <2>4. CASE RolloutsRaise(w) \/ ScoringRaises(w)
    BY <2>4, <1>1 DEF RolloutsRaise, ScoringRaises, Fail
  <2>5. CASE Score(w) \/ Record(w) \/ Return(w) \/ Raise(w) \/ Report(w)
    BY <2>5, <1>1 DEF Score, Record, Return, Raise, Report
  <2> QED
    BY <1>4, <2>1, <2>2, <2>3, <2>4, <2>5 DEF Works
<1> QED
  BY <1>2, <1>3, <1>4

\* A step of an evaluation keeps it.
LEMMA WorkReflects ==
  ASSUME Shapes, evidence = [u \in Engines |-> evidence[u]],
         NEW w \in Engines, EngineInv(w), Reflected(w), Works(w)
  PROVE  Reflected(w)'
<1>1. phase[w] \notin {"reporting", "over"} => evidence[w] \in {None, <<>>}
  BY DEF Reflected
<1>2. ASSUME evidence'[w] \in {None, <<>>},
             phase'[w] \in {"scored", "completing", "returned"} => RolledOut(w)'
      PROVE  Reflected(w)'
  BY <1>2 DEF Reflected
<1>3. CASE \E c \in CandidatesOf[w] : Begin(w, c)
  <2>1. /\ phase[w] = "ready" /\ phase'[w] = "called"
        /\ UNCHANGED <<rolled, result, evidence>>
    BY <1>3 DEF Begin, Shapes
  <2> QED
    BY <2>1, SameReflected
<1>4. CASE Evaluate(w) \/ Announced(w)
  <2>1. /\ phase[w] \in {"called", "starting"} /\ phase'[w] \in {"starting", "injecting", "rolling"}
        /\ UNCHANGED <<rolled, result, evidence>>
    BY <1>4 DEF Evaluate, Announced, Go, Shapes
  <2> QED
    BY <2>1, SameReflected
<1>5. CASE Inject(w) \/ RolloutsRaise(w)
  <2>1. /\ phase[w] \in {"injecting", "rolling"}
        /\ phase'[w] \in {"injecting", "rolling", "failing"}
        /\ UNCHANGED <<rolled, result, evidence>>
    BY <1>5 DEF Inject, RolloutsRaise, Go, Fail, Shapes
  <2> QED
    BY <2>1, SameReflected
<1>6. CASE Record(w) \/ Return(w) \/ Raise(w) \/ Report(w)
  <2>1. /\ phase[w] \in {"scored", "completing", "failing", "raised"}
        /\ phase'[w] \in {"completing", "returned"} => phase[w] \in {"scored", "completing"}
        /\ phase'[w] \in {"completing", "returned", "raised", "reporting"}
        /\ UNCHANGED <<rolled, result, evidence>>
    BY <1>6 DEF Record, Return, Raise, Report, Go, Shapes
  <2> QED
    BY <2>1, SameReflected
<1>7. CASE \E i \in DOMAIN BatchOf[w], o \in OutcomesOf[w] : Roll(w, i, o)
  <2>1. phase[w] = "rolling" /\ phase'[w] = "rolling" /\ UNCHANGED evidence
    BY <1>7 DEF Roll, Go, Shapes
  <2> QED
    BY <2>1, <1>1, <1>2
<1>8. CASE ScoringRaises(w)
  <2>1. phase[w] = "scored" /\ phase'[w] = "raised" /\ UNCHANGED evidence
    BY <1>8 DEF ScoringRaises, Go, Shapes
  <2> QED
    BY <2>1, <1>1, <1>2
<1>9. CASE Score(w)
  <2>1. /\ phase[w] = "rolling" /\ UNCHANGED <<rolled, evidence>>
        /\ \A i \in DOMAIN BatchOf[w] : rolled[w][i] # None
    BY <1>9 DEF Score, Go
  <2>2. RolledOut(w)'
    BY <2>1 DEF RolledOut
  <2> QED
    BY <2>1, <2>2, <1>1, <1>2
<1>10. CASE Reflect(w)
  <2>1. /\ phase[w] = "returned" /\ phase'[w] = "reporting"
        /\ UNCHANGED <<rolled, result>>
        /\ \E b \in Builders :
             evidence'[w] = IF w \in Captures
                            THEN [builder |-> b, shown |-> Evidence(b, RecordsOf(w), Updates)]
                            ELSE <<>>
    BY <1>10 DEF Reflect, Go, Shapes
  <2>2. RolledOut(w) /\ result[w] = EvaluationBatch(w)
    BY <2>1 DEF Reflected, EngineInv, RolloutInv
  <2>3. RolledOut(w)' /\ EvaluationBatch(w)' = EvaluationBatch(w)
    BY <2>1, <2>2 DEF RolledOut, EvaluationBatch, Records, ScoreOf
  <2>4. RecordsOf(w)' = RecordsOf(w)
    BY <2>1 DEF RecordsOf, RecordOf
  <2>5. \A b : Evidence(b, RecordsOf(w), Updates)' = Evidence(b, RecordsOf(w), Updates)
    BY <2>4
  <2>6. evidence'[w] \notin {None, <<>>} =>
          \E b \in Builders :
            evidence'[w] = [builder |-> b, shown |-> Evidence(b, RecordsOf(w), Updates)]
    BY <2>1
  <2> QED
    BY <2>1, <2>2, <2>3, <2>5, <2>6 DEF Reflected
<1>11. CASE Done(w)
  <2>1. phase'[w] = "over" /\ evidence'[w] = None
    BY <1>11 DEF Done, Go, Shapes
  <2> QED
    BY <2>1, <1>2
<1> QED
  BY <1>3, <1>4, <1>5, <1>6, <1>7, <1>8, <1>9, <1>10, <1>11 DEF Works

\* So does what the observers do to it.
LEMMA EmissionReflects ==
  ASSUME Shapes, NEW w \in Engines, EngineInv(w), Reflected(w), Emits(w)
  PROVE  Reflected(w)'
<1>1. UNCHANGED <<rolled, result, evidence>>
  BY DEF Emits, Tell, TellReturns, Observes, Interrupted, Undone, engineVars
<1>2. \/ phase'[w] = phase[w]
      \/ phase'[w] = IF phase[w] \in {"starting", "failing", "completing"}
                     THEN "raised" ELSE "over"
  BY DEF Emits, Tell, TellReturns, Observes, Interrupted, Undone, engineVars, Shapes
<1>3. /\ phase'[w] \in {"scored", "completing", "returned"}
           => phase[w] \in {"scored", "completing", "returned"}
      /\ phase[w] \in {"reporting", "over"} => phase'[w] \in {"reporting", "over"}
  BY <1>2
<1> QED
  BY <1>1, <1>3, SameReflected

LEMMA EvidenceKept ==
  ASSUME IInv, EvidenceInv, [Next]_vars
  PROVE  EvidenceInv'
<1>1. Shapes /\ RunInv /\ \A w \in Engines : EngineInv(w)
  BY DEF IInv
<1>2. evidence = [w \in Engines |-> evidence[w]] /\ \A w \in Engines : Reflected(w)
  BY DEF EvidenceInv
<1>3. ASSUME UNCHANGED <<phase, rolled, result, evidence>> PROVE EvidenceInv'
  <2>1. \A w \in Engines : Reflected(w)'
    BY <1>2, <1>3, SameReflected
  <2> QED
    BY <2>1, <1>2, <1>3 DEF EvidenceInv
<1>4. CASE Settles
  BY <1>3, <1>4, SettlesQuietly DEF engineVars
<1>5. CASE \E l \in Lifecycles : StartRun(l)
  BY <1>3, <1>5 DEF StartRun, engineVars
<1>6. ASSUME NEW w \in Engines, Works(w) \/ Emits(w) PROVE EvidenceInv'
  <2>1. /\ evidence' = [u \in Engines |-> evidence'[u]]
        /\ \A v \in Engines : v # w => evidence'[v] = evidence[v]
    BY <1>1, <1>2, <1>6, EvidenceIsOwn
  <2>2. \A v \in Engines : v # w => SameEngine(v)
    BY <1>1, <1>6, WorkIsOwn, EmissionIsOwn
  <2>3. \A v \in Engines : v # w => Reflected(v)'
    BY <2>1, <2>2, <1>2, SameReflected DEF SameEngine
  <2>4. Reflected(w)'
    BY <1>1, <1>2, <1>6, WorkReflects, EmissionReflects
  <2> QED
    BY <2>1, <2>3, <2>4 DEF EvidenceInv
<1> QED
  BY <1>4, <1>5, <1>6, StepKinds

\* What a record may be for the builder to sort, to count and to route it
Readable(r) == Scored(r) /\ Sized(r) /\ \A b, n : Times(b, r, Updates, n) \in Nat

LEMMA ScoreIsNumber ==
  ASSUME NEW w \in Engines, RolloutInv(w), RolledOut(w), NEW i \in DOMAIN BatchOf[w]
  PROVE  ScoreOf(w, i) \in Int
<1>1. rolled[w][i] \in OutcomesOf[w]
  BY DEF RolloutInv, RolledOut
<1>2. rolled[w][i].score \in {NoScore} \cup Int /\ Objective.failure_score \in Int
  BY <1>1, RecordAssumption, BuilderAssumption
<1> DEFINE x == rolled[w][i].score
<1>3. Extract(x) \in Int
  <2>1. CASE x = NoScore
    BY <2>1, <1>2 DEF Extract
  <2>2. CASE x # NoScore
    <3>1. x \in Int
      BY <2>2, <1>2
    <3> HIDE DEF x
    <3>2. -x \in Int
      BY <3>1
    <3> QED
      BY <2>2, <3>1, <3>2 DEF Extract
  <2> QED
    BY <2>1, <2>2
<1> QED
  BY <1>2, <1>3 DEF ScoreOf

LEMMA RecordsReadable ==
  ASSUME NEW w \in Engines, RolloutInv(w), RolledOut(w), result[w] = EvaluationBatch(w)
  PROVE  \E R : RecordsOf(w) \in Seq(R) /\ \A r \in R : Readable(r)
<1> DEFINE D == DOMAIN BatchOf[w]
           n == Len(BatchOf[w])
           R == {RecordOf(w, k) : k \in 1..n}
<1>1. /\ n \in Nat /\ D = 1..n /\ Records(w) \in Seq(D)
      /\ DOMAIN Records(w) = 1..n /\ Len(Records(w)) = n
  BY RecordsProps
<1>2. /\ result[w].records = Records(w)
      /\ result[w].scores = [k \in DOMAIN Records(w) |-> ScoreOf(w, Records(w)[k])]
  BY DEF EvaluationBatch
<1>3. RecordsOf(w) = [k \in 1..n |-> RecordOf(w, k)]
  BY <1>1, <1>2 DEF RecordsOf
<1>4. RecordsOf(w) \in Seq(R)
  <2>1. RecordsOf(w) \in [1..n -> R]
    BY <1>3
  <2> HIDE DEF R, n
  <2> QED
    BY <2>1, <1>1, FunctionIsSequence
<1>5. ASSUME NEW k \in 1..n PROVE Readable(RecordOf(w, k))
  <2> DEFINE i == Records(w)[k]
             c == CaseOf[BatchOf[w][i]]
             r == RecordOf(w, k)
  <2>1. i \in D
    <3> HIDE DEF D
    <3> QED
      BY <1>1, ElementOfSeq
  <2>2. BatchOf[w][i] \in DOMAIN CaseOf
    BY <2>1, <1>1, AdapterAssumption, ElementOfSeq
  <2>3. /\ c.size \in Nat /\ c.hints \in Seq(ToSet(c.hints))
        /\ c.selected = NoScore \/ c.selected \in Seq(ToSet(c.selected))
    BY <2>2, RecordAssumption
  <2>4. /\ r.size = c.size /\ r.hints = c.hints /\ r.selected = c.selected
        /\ r.score = result[w].scores[k]
    BY <1>2 DEF RecordOf
  <2>5. result[w].scores[k] = ScoreOf(w, i) /\ ScoreOf(w, i) \in Int
    BY <2>1, <1>1, <1>2, ScoreIsNumber
  <2>6. Updates \in Seq(ToSet(Updates))
    BY RecordAssumption
  <2> HIDE DEF r, c, i
  <2>7. \A b, m : Times(b, r, Updates, m) \in Nat
    BY <2>3, <2>4, <2>6, TimesIsNat
  <2>8. Scored(r) /\ Sized(r)
    BY <2>3, <2>4, <2>5 DEF Scored, Sized
  <2> QED
    BY <2>7, <2>8 DEF Readable, r
<1> QED
  BY <1>4, <1>5

----------------------------------------------------------------------------
(* The texts of a schema *)

\* t is s with other descriptions.
Reworded(s, t) ==
  /\ IsSchema(t) /\ DOMAIN t = DOMAIN s
  /\ \A n \in DOMAIN s : t[n].ref = s[n].ref /\ t[n].props = s[n].props /\ t[n].items = s[n].items

LEMMA ResolveStays ==
  ASSUME NEW s, IsSchema(s), NEW n \in DOMAIN s
  PROVE  Resolve(s, n) \in DOMAIN s
<1>1. s[n].ref \in DOMAIN s \cup {NoText}
  BY DEF IsSchema
<1> QED
  BY <1>1 DEF Resolve

\* A step from a node leads to a node or nowhere, whatever the descriptions are.
LEMMA StepStays ==
  ASSUME NEW s, IsSchema(s), NEW n \in DOMAIN s \cup {NoText}, NEW x
  PROVE  /\ Step(s, n, x) \in DOMAIN s \cup {NoText}
         /\ \A t : Reworded(s, t) => Step(t, n, x) = Step(s, n, x)
<1> DEFINE D == DOMAIN s
<1>1. CASE n = NoText
  BY <1>1 DEF Step
<1>2. CASE n # NoText
  <2> DEFINE here == s[Resolve(s, n)]
             named == {i \in DOMAIN here.props : here.props[i][1] = x}
             i == CHOOSE j \in named : TRUE
  <2>1. n \in D /\ Resolve(s, n) \in D
    BY <1>2, ResolveStays
  <2>2. /\ here.items \in D \cup {NoText}
        /\ \A j \in DOMAIN here.props : here.props[j][2] \in D
    BY <2>1 DEF IsSchema
  <2>3. \A m \in D \cup {NoText} : Resolve(s, m) \in D \cup {NoText}
    <3> TAKE m \in D \cup {NoText}
    <3>1. CASE m = NoText
      BY <3>1 DEF Resolve
    <3> QED
      BY <3>1, ResolveStays
  <2>4. named # {} => i \in DOMAIN here.props
    OBVIOUS
  <2>5. Step(s, n, x) = IF x = Item THEN Resolve(s, here.items)
                        ELSE IF named = {} THEN NoText ELSE Resolve(s, here.props[i][2])
    BY <1>2 DEF Step
  <2>6. ASSUME NEW t, Reworded(s, t) PROVE Step(t, n, x) = Step(s, n, x)
    <3> DEFINE there == t[Resolve(t, n)]
               called == {j \in DOMAIN there.props : there.props[j][1] = x}
               l == CHOOSE j \in called : TRUE
    <3>1. \A m \in D \cup {NoText} : Resolve(t, m) = Resolve(s, m)
      BY <2>6 DEF Reworded, Resolve
    <3>2. there.props = here.props /\ there.items = here.items
      BY <2>1, <2>6, <3>1 DEF Reworded
    <3>3. Step(t, n, x) = IF x = Item THEN Resolve(t, there.items)
                          ELSE IF called = {} THEN NoText ELSE Resolve(t, there.props[l][2])
      BY <1>2 DEF Step
    <3>4. called = named /\ l = i
      BY <3>2
    <3>5. Resolve(t, there.items) = Resolve(s, here.items)
      BY <3>1, <3>2, <2>2
    <3> HIDE DEF here, there, named, called, i, l
    <3>6. named # {} => Resolve(t, there.props[l][2]) = Resolve(s, here.props[i][2])
      BY <3>1, <3>2, <3>4, <2>2, <2>4
    <3> QED
      BY <2>5, <3>3, <3>4, <3>5, <3>6
  <2>7. Step(s, n, x) \in D \cup {NoText}
    <3> HIDE DEF here, named, i
    <3> QED
      BY <2>2, <2>3, <2>4, <2>5
  <2> QED
    BY <2>6, <2>7
<1> QED
  BY <1>1, <1>2

\* What the recursion of NodeAt computes
LEMMA NodeAtSteps ==
  ASSUME NEW s, IsSchema(s), NEW root \in DOMAIN s, NEW path, Len(path) \in Nat
  PROVE  \E f \in [0..Len(path) -> DOMAIN s \cup {NoText}] :
           /\ f[0] = root /\ \A k \in 1..Len(path) : f[k] = Step(s, f[k - 1], path[k])
           /\ NodeAt(s, root, path) = f[Len(path)]
<1> DEFINE n == Len(path)
           S == DOMAIN s \cup {NoText}
           Solves(g) == g = [k \in 0..n |-> IF k = 0 THEN root ELSE Step(s, g[k - 1], path[k])]
           step == [p \in (1..n) \X S |-> Step(s, p[2], path[p[1]])]
           u == CHOOSE g : Solves(g)
<1>1. n \in Nat /\ root \in S /\ \A x \in S : \A y : Step(s, x, y) \in S
  BY StepStays
<1>2. NodeAt(s, root, path) = u[n]
  BY DEF NodeAt
<1>3. step \in [(1..n) \X S -> S]
  BY <1>1
<1>4. \A k \in 1..n, x \in S : step[<<k, x>>] = Step(s, x, path[k])
  OBVIOUS
<1> HIDE DEF n, S, step
<1>5. PICK f \in [0..n -> S] : f[0] = root /\ \A k \in 1..n : f[k] = step[<<k, f[k - 1]>>]
  <2>1. PICK f : Computed(f, n, S, root, step)
    BY <1>1, <1>3, RecursionExists
  <2> QED
    BY <2>1 DEF Computed
<1>6. ASSUME NEW k \in 1..n PROVE f[k] = Step(s, f[k - 1], path[k])
  <2>1. k - 1 \in 0..n
    BY <1>1
  <2>2. f[k - 1] \in S
    BY <2>1
  <2> QED
    BY <2>2, <1>4, <1>5
<1>7. Solves(f)
  <2>1. ASSUME NEW k \in 0..n PROVE f[k] = IF k = 0 THEN root ELSE Step(s, f[k - 1], path[k])
    <3>1. k = 0 \/ k \in 1..n
      BY <1>1
    <3> QED
      BY <3>1, <1>5, <1>6
  <2> QED
    BY <2>1
<1>8. Solves(u)
  BY <1>7
<1> HIDE DEF u
<1>9. u[0] = root /\ \A k \in 1..n : u[k] = Step(s, u[k - 1], path[k])
  BY <1>8, <1>1
<1>10. \A k \in 0..n : u[k] = f[k]
  <2>1. u[0] = f[0]
    BY <1>9, <1>5
  <2>2. \A k \in 1..n : u[k - 1] = f[k - 1] => u[k] = f[k]
    BY <1>6, <1>9
  <2>3. Agree(u, f, n)
    BY <2>1, <2>2 DEF Agree
  <2> QED
    BY <2>3, <1>1, RecursionUnique
<1>11. NodeAt(s, root, path) = f[n]
  BY <1>1, <1>2, <1>10
<1> QED
  BY <1>5, <1>6, <1>11 DEF n, S

\* A path leads to the same node whatever the descriptions are.
LEMMA NodeAtSame ==
  ASSUME NEW s, IsSchema(s), NEW root \in DOMAIN s, NEW path, Len(path) \in Nat,
         NEW t, Reworded(s, t)
  PROVE  NodeAt(t, root, path) = NodeAt(s, root, path)
<1> DEFINE n == Len(path)
<1>1. IsSchema(t) /\ root \in DOMAIN t
  BY DEF Reworded
<1>2. PICK f \in [0..n -> DOMAIN s \cup {NoText}] :
        /\ f[0] = root /\ \A k \in 1..n : f[k] = Step(s, f[k - 1], path[k])
        /\ NodeAt(s, root, path) = f[n]
  BY NodeAtSteps
<1>3. PICK g \in [0..n -> DOMAIN t \cup {NoText}] :
        /\ g[0] = root /\ \A k \in 1..n : g[k] = Step(t, g[k - 1], path[k])
        /\ NodeAt(t, root, path) = g[n]
  BY <1>1, NodeAtSteps
<1> HIDE DEF n
<1>4. ASSUME NEW k \in 1..n, g[k - 1] = f[k - 1] PROVE g[k] = f[k]
  <2>1. k - 1 \in 0..n
    BY DEF n
  <2>2. f[k - 1] \in DOMAIN s \cup {NoText}
    BY <2>1
  <2>3. Step(t, f[k - 1], path[k]) = Step(s, f[k - 1], path[k])
    BY <2>2, StepStays
  <2> QED
    BY <2>3, <1>2, <1>3, <1>4
<1>5. Agree(g, f, n) /\ n \in Nat
  BY <1>2, <1>3, <1>4 DEF Agree, n
<1>6. g[n] = f[n]
  BY <1>5, RecursionUnique
<1> QED
  BY <1>2, <1>3, <1>6

\* What writing one text does
LEMMA SetKeeps ==
  ASSUME NEW s, IsSchema(s), NEW root \in DOMAIN s, NEW path, Len(path) \in Nat,
         NEW t, Reworded(s, t), NEW text
  PROVE  LET m == NodeAt(s, root, path)
             new == SetDescription(t, root, path, text) IN
         /\ Sets(t, root, path, text) <=> m # NoText /\ t[m].description # text
         /\ Reworded(s, new)
         /\ \A n \in DOMAIN s : new[n].description = t[n].description
                                  \/ (n = m /\ new[n].description = text)
         /\ \A n \in DOMAIN s : new[n].type = t[n].type
<1> DEFINE m == NodeAt(s, root, path)
           new == SetDescription(t, root, path, text)
<1>1. NodeAt(t, root, path) = m
  BY NodeAtSame
<1>2. Sets(t, root, path, text) <=> m # NoText /\ t[m].description # text
  BY <1>1 DEF Sets
<1>3. new = t \/ new = [t EXCEPT ![m].description = text]
  BY <1>1 DEF SetDescription
<1> HIDE DEF m, new
<1>4. CASE new = t
  BY <1>2, <1>4 DEF m, new
<1>5. CASE new = [t EXCEPT ![m].description = text]
  <2>1. /\ DOMAIN t = DOMAIN s /\ NoText \notin DOMAIN t
        /\ \A n \in DOMAIN t :
             t[n] = [type |-> t[n].type, description |-> t[n].description, ref |-> t[n].ref,
                     named |-> t[n].named, props |-> t[n].props, items |-> t[n].items]
    <3>1. t = [n \in DOMAIN t |->
                 [type |-> t[n].type, description |-> t[n].description, ref |-> t[n].ref,
                  named |-> t[n].named, props |-> t[n].props, items |-> t[n].items]]
      BY DEF Reworded, IsSchema
    <3> QED
      BY <3>1 DEF Reworded, IsSchema
  <2>2. DOMAIN new = DOMAIN t /\ \A n \in DOMAIN t : n # m => new[n] = t[n]
    BY <1>5
  <2>3. m \in DOMAIN t =>
          new[m] = [type |-> t[m].type, description |-> text, ref |-> t[m].ref,
                    named |-> t[m].named, props |-> t[m].props, items |-> t[m].items]
    <3> SUFFICES ASSUME m \in DOMAIN t
                 PROVE  new[m] = [type |-> t[m].type, description |-> text, ref |-> t[m].ref,
                                  named |-> t[m].named, props |-> t[m].props, items |-> t[m].items]
      OBVIOUS
    <3>1. new[m] = [t[m] EXCEPT !.description = text]
      BY <1>5
    <3>2. t[m] = [type |-> t[m].type, description |-> t[m].description, ref |-> t[m].ref,
                  named |-> t[m].named, props |-> t[m].props, items |-> t[m].items]
      BY <2>1
    <3> QED
      BY <3>1, <3>2
  <2>4. \A n \in DOMAIN t :
          /\ new[n] = [type |-> new[n].type, description |-> new[n].description,
                       ref |-> new[n].ref, named |-> new[n].named,
                       props |-> new[n].props, items |-> new[n].items]
          /\ new[n].type = t[n].type /\ new[n].ref = t[n].ref
          /\ new[n].props = t[n].props /\ new[n].items = t[n].items
          /\ new[n].description = t[n].description \/ (n = m /\ new[n].description = text)
    <3> TAKE n \in DOMAIN t
    <3>1. CASE n = m
      BY <3>1, <2>3
    <3>2. CASE n # m
      BY <3>2, <2>1, <2>2
    <3> QED
      BY <3>1, <3>2
  <2>5. IsSchema(new)
    <3>1. \A n \in DOMAIN t :
            /\ {t[n].ref, t[n].items} \subseteq DOMAIN t \cup {NoText}
            /\ \A i \in DOMAIN t[n].props : t[n].props[i][2] \in DOMAIN t
      BY DEF Reworded, IsSchema
    <3>2. new = [n \in DOMAIN new |-> new[n]]
      BY <1>5
    <3>3. new = [n \in DOMAIN new |->
                   [type |-> new[n].type, description |-> new[n].description,
                    ref |-> new[n].ref, named |-> new[n].named,
                    props |-> new[n].props, items |-> new[n].items]]
      BY <3>2, <2>2, <2>4
    <3>4. \A n \in DOMAIN new :
            /\ {new[n].ref, new[n].items} \subseteq DOMAIN new \cup {NoText}
            /\ \A i \in DOMAIN new[n].props : new[n].props[i][2] \in DOMAIN new
      BY <3>1, <2>2, <2>4
    <3> QED
      BY <3>3, <3>4, <2>1, <2>2 DEF IsSchema
  <2>6. Reworded(s, new)
    BY <2>1, <2>2, <2>4, <2>5 DEF Reworded
  <2> QED
    BY <1>2, <2>1, <2>4, <2>6 DEF m, new
<1> QED
  BY <1>3, <1>4, <1>5

\* P is a set of paths.
ArePaths(P) == \A p \in P : Len(p) \in Nat

\* Of the paths P, only p leads to its node.
OwnNode(s, root, P, p) ==
  /\ NodeAt(s, root, p) \in DOMAIN s
  /\ \A q \in P : q # p => NodeAt(s, root, q) # NodeAt(s, root, p)

\* After the texts of the paths in seen: the text of a path with a node of its own
\* is an override, or its node has the description it had.
Rewrites(d, s, root, P, texts, seen) ==
  /\ Reworded(s, d.schema)
  /\ \A p \in P : OwnNode(s, root, P, p) =>
       \/ p \in d.overrides
       \/ /\ d.schema[NodeAt(s, root, p)].description = s[NodeAt(s, root, p)].description
          /\ p \in seen /\ p \in DOMAIN texts /\ p \notin {Whole, Masked}
               => s[NodeAt(s, root, p)].description = texts[p]

LEMMA AppliedRewrites ==
  ASSUME NEW s, IsSchema(s), NEW root \in DOMAIN s, NEW P, ArePaths(P),
         NEW texts, NEW seen, NEW q \in P, NEW d, Rewrites(d, s, root, P, texts, seen)
  PROVE  Rewrites(Applied(d, root, q, texts), s, root, P, texts, seen \cup {q})
<1>1. CASE q \notin DOMAIN texts \/ q \in {Whole, Masked}
  <2>1. Applied(d, root, q, texts) = d
    BY <1>1 DEF Applied
  <2> QED
    BY <2>1, <1>1 DEF Rewrites
<1>2. CASE q \in DOMAIN texts /\ q \notin {Whole, Masked}
  <2> DEFINE e == Applied(d, root, q, texts)
             at(p) == NodeAt(s, root, p)
             new == SetDescription(d.schema, root, q, texts[q])
             sets == Sets(d.schema, root, q, texts[q])
  <2>1. /\ e.schema = new
        /\ e.overrides = IF sets THEN d.overrides \cup {q} ELSE d.overrides
    BY <1>2 DEF Applied
  <2>2. Reworded(s, d.schema)
    BY DEF Rewrites
  <2>3. /\ sets <=> at(q) # NoText /\ d.schema[at(q)].description # texts[q]
        /\ Reworded(s, new)
        /\ \A n \in DOMAIN s : new[n].description = d.schema[n].description
                                 \/ (n = at(q) /\ new[n].description = texts[q])
    BY <2>2, SetKeeps DEF ArePaths
  <2> HIDE DEF e, at, new, sets
  <2>4. ASSUME NEW p \in P, OwnNode(s, root, P, p)
        PROVE  \/ p \in e.overrides
               \/ /\ e.schema[at(p)].description = s[at(p)].description
                  /\ p \in seen \cup {q} /\ p \in DOMAIN texts /\ p \notin {Whole, Masked}
                       => s[at(p)].description = texts[p]
    <3>1. /\ at(p) \in DOMAIN s /\ at(p) # NoText
          /\ q # p => at(q) # at(p)
      BY <2>4 DEF OwnNode, at, IsSchema
    <3>2. \/ p \in d.overrides
          \/ /\ d.schema[at(p)].description = s[at(p)].description
             /\ p \in seen /\ p \in DOMAIN texts /\ p \notin {Whole, Masked}
                  => s[at(p)].description = texts[p]
      BY <2>4 DEF Rewrites, at
    <3>3. p \in d.overrides => p \in e.overrides
      BY <2>1
    <3>4. CASE q # p
      <4>1. new[at(p)].description = d.schema[at(p)].description
        BY <3>1, <3>4, <2>3
      <4> QED
        BY <4>1, <3>2, <3>3, <3>4, <2>1
    <3>5. CASE q = p /\ sets
      BY <3>5, <2>1
    <3>6. CASE q = p /\ ~sets
      <4>1. d.schema[at(p)].description = texts[p]
        BY <3>1, <3>6, <2>3
      <4>2. new[at(p)].description = d.schema[at(p)].description
        BY <4>1, <3>1, <3>6, <2>3
      <4> QED
        BY <4>1, <4>2, <3>2, <3>3, <2>1
    <3> QED
      BY <3>4, <3>5, <3>6
  <2> QED
    BY <2>1, <2>3, <2>4 DEF Rewrites, at, e
<1> QED
  BY <1>1, <1>2

LEMMA SetTyped ==
  ASSUME NEW D, NEW T, NEW X, NEW R, NEW N, NEW P, NEW I,
         NEW t \in [D -> [type : T, description : X, ref : R, named : N, props : P, items : I]],
         NEW root, NEW path, NEW text \in X
  PROVE  SetDescription(t, root, path, text)
           \in [D -> [type : T, description : X, ref : R, named : N, props : P, items : I]]
<1> DEFINE m == NodeAt(t, root, path)
           V == [type : T, description : X, ref : R, named : N, props : P, items : I]
           new == [t EXCEPT ![m].description = text]
<1>1. SetDescription(t, root, path, text) = t \/ SetDescription(t, root, path, text) = new
  BY DEF SetDescription
<1> HIDE DEF m
<1>2. m \in D => [t[m] EXCEPT !.description = text] \in V
  OBVIOUS
<1> HIDE DEF V
<1>3. new \in [D -> V]
  BY <1>2 DEF V
<1> QED
  BY <1>1, <1>3 DEF V

\* What the recursion of ApplyTexts computes
OneByOne(f, s, root, components, texts) ==
  /\ f[0] = [schema |-> s, overrides |-> {}]
  /\ \A k \in 1..Len(components) : f[k] = Applied(f[k - 1], root, components[k], texts)
  /\ ApplyTexts(s, root, components, texts) = f[Len(components)]

LEMMA ApplyTextsSteps ==
  ASSUME NEW s, IsSchema(s), NEW root \in DOMAIN s,
         NEW P, NEW texts, NEW components \in Seq(P)
  PROVE  \E f : OneByOne(f, s, root, components, texts)
<1> DEFINE D == DOMAIN s
           n == Len(components)
           X == {s[m].description : m \in D} \cup {texts[q] : q \in DOMAIN texts}
           V == [type : {s[m].type : m \in D}, description : X, ref : {s[m].ref : m \in D},
                 named : {s[m].named : m \in D}, props : {s[m].props : m \in D}, items : {s[m].items : m \in D}]
           S == [schema : [D -> V], overrides : SUBSET P]
           b == [schema |-> s, overrides |-> {}]
           next(k, x) == Applied(x, root, components[k], texts)
           Solves(g) == g = [k \in 0..n |-> IF k = 0 THEN b ELSE next(k, g[k - 1])]
           step == [p \in (1..n) \X S |-> next(p[1], p[2])]
           u == CHOOSE g : Solves(g)
<1>1. n \in Nat /\ b \in S
  <2>1. s = [m \in D |-> [type |-> s[m].type, description |-> s[m].description,
                          ref |-> s[m].ref, named |-> s[m].named,
                          props |-> s[m].props, items |-> s[m].items]]
    BY DEF IsSchema
  <2>2. s \in [D -> V]
    BY <2>1
  <2>3. n \in Nat
    BY LenProperties
  <2> QED
    BY <2>2, <2>3
<1>2. ApplyTexts(s, root, components, texts) = u[n]
  BY DEF ApplyTexts
<1>3. \A k \in 1..n, x \in S : next(k, x) \in S
  <2> TAKE k \in 1..n, x \in S
  <2> DEFINE q == components[k]
  <2>1. q \in P
    BY ElementOfSeq
  <2>2. CASE q \notin DOMAIN texts \/ q \in {Whole, Masked}
    BY <2>2 DEF Applied
  <2>3. CASE ~(q \notin DOMAIN texts \/ q \in {Whole, Masked})
    <3> DEFINE new == SetDescription(x.schema, root, q, texts[q])
               o == IF Sets(x.schema, root, q, texts[q]) THEN x.overrides \cup {q} ELSE x.overrides
    <3>1. x.schema \in [D -> V] /\ texts[q] \in X /\ x.overrides \in SUBSET P
      BY <2>3
    <3>2. new \in [D -> V]
      BY <3>1, SetTyped
    <3>3. o \in SUBSET P
      BY <3>1, <2>1
    <3>4. next(k, x) = [schema |-> new, overrides |-> o]
      BY <2>3 DEF Applied
    <3> HIDE DEF new, o, V, next
    <3> QED
      BY <3>2, <3>3, <3>4
  <2> QED
    BY <2>2, <2>3
<1> HIDE DEF next, Solves, S, b
<1>4. step \in [(1..n) \X S -> S]
  BY <1>3
<1>5. \A k \in 1..n, x \in S : step[<<k, x>>] = next(k, x)
  OBVIOUS
<1> HIDE DEF step, n
<1>6. PICK f \in [0..n -> S] : f[0] = b /\ \A k \in 1..n : f[k] = step[<<k, f[k - 1]>>]
  <2>1. PICK f : Computed(f, n, S, b, step)
    BY <1>1, <1>4, RecursionExists
  <2> QED
    BY <2>1 DEF Computed
<1>7. ASSUME NEW k \in 1..n PROVE f[k] = next(k, f[k - 1])
  <2>1. k - 1 \in 0..n
    BY <1>1
  <2>2. f[k - 1] \in S
    BY <2>1
  <2> QED
    BY <2>2, <1>5, <1>6
<1>8. Solves(f)
  <2>1. ASSUME NEW k \in 0..n PROVE f[k] = IF k = 0 THEN b ELSE next(k, f[k - 1])
    <3>1. k = 0 \/ k \in 1..n
      BY <1>1
    <3> QED
      BY <3>1, <1>6, <1>7
  <2> QED
    BY <2>1 DEF Solves
<1>9. Solves(u)
  BY <1>8
<1> HIDE DEF u
<1>10. u[0] = b /\ \A k \in 1..n : u[k] = next(k, u[k - 1])
  <2>1. u = [k \in 0..n |-> IF k = 0 THEN b ELSE next(k, u[k - 1])]
    BY <1>9 DEF Solves
  <2>2. \A k \in 0..n : u[k] = IF k = 0 THEN b ELSE next(k, u[k - 1])
    BY <2>1
  <2>3. 0 \in 0..n /\ \A k \in 1..n : k \in 0..n /\ k # 0
    BY <1>1
  <2> QED
    BY <2>2, <2>3
<1>11. \A k \in 0..n : u[k] = f[k]
  <2>1. u[0] = f[0]
    BY <1>10, <1>6
  <2>2. \A k \in 1..n : u[k - 1] = f[k - 1] => u[k] = f[k]
    BY <1>7, <1>10
  <2>3. Agree(u, f, n)
    BY <2>1, <2>2 DEF Agree
  <2> QED
    BY <2>3, <1>1, RecursionUnique
<1>12. ApplyTexts(s, root, components, texts) = f[n]
  BY <1>1, <1>2, <1>11
<1>13. OneByOne(f, s, root, components, texts)
  BY <1>6, <1>7, <1>12 DEF OneByOne, n, b, next
<1> QED
  BY <1>13

\* A text whose path has a node of its own is an override or was there before.
LEMMA TextsApplied ==
  ASSUME NEW s, IsSchema(s), NEW root \in DOMAIN s,
         NEW P, ArePaths(P), NEW texts, NEW components \in Seq(P),
         NEW i \in 1..Len(components), OwnNode(s, root, P, components[i]),
         components[i] \in DOMAIN texts, components[i] \notin {Whole, Masked}
  PROVE  \/ components[i] \in ApplyTexts(s, root, components, texts).overrides
         \/ s[NodeAt(s, root, components[i])].description = texts[components[i]]
<1> DEFINE n == Len(components)
           Seen(k) == {components[j] : j \in 1..k}
<1>0. PICK f : OneByOne(f, s, root, components, texts)
  BY ApplyTextsSteps
<1>1. /\ f[0] = [schema |-> s, overrides |-> {}]
      /\ \A k \in 1..n : f[k] = Applied(f[k - 1], root, components[k], texts)
      /\ ApplyTexts(s, root, components, texts) = f[n]
  BY <1>0 DEF OneByOne
<1> DEFINE G == {k \in 0..n : Rewrites(f[k], s, root, P, texts, Seen(k))}
<1>2. n \in Nat
  BY LenProperties
<1> HIDE DEF n
<1>3. 0 \in G
  <2>1. Reworded(s, s)
    BY DEF Reworded
  <2>2. Seen(0) = {}
    BY <1>2
  <2>3. f[0].schema = s
    BY <1>1
  <2> QED
    BY <1>2, <2>1, <2>2, <2>3 DEF Rewrites
<1>4. ASSUME NEW k \in 1..n, k - 1 \in G PROVE k \in G
  <2>1. components[k] \in P
    BY ElementOfSeq DEF n
  <2>2. Rewrites(f[k - 1], s, root, P, texts, Seen(k - 1))
    BY <1>4
  <2>3. Rewrites(f[k], s, root, P, texts, Seen(k - 1) \cup {components[k]})
    BY <2>1, <2>2, <1>1, AppliedRewrites
  <2>4. Seen(k) = Seen(k - 1) \cup {components[k]}
    <3>1. 1..k = (1..k - 1) \cup {k}
      BY <1>2
    <3> QED
      BY <3>1
  <2>5. k \in 0..n
    BY <1>2
  <2>6. Rewrites(f[k], s, root, P, texts, Seen(k))
    <3> HIDE DEF Seen
    <3> QED
      BY <2>3, <2>4
  <2> HIDE DEF Seen
  <2> QED
    BY <2>5, <2>6
<1>5. \A k \in 0..n : k \in G
  <2> HIDE DEF G
  <2> QED
    BY <1>2, <1>3, <1>4, CountingUp
<1>6. Rewrites(f[n], s, root, P, texts, Seen(n))
  <2>1. n \in 0..n
    BY <1>2
  <2> HIDE DEF Seen
  <2> QED
    BY <2>1, <1>5
<1>7. components[i] \in P /\ components[i] \in Seen(n)
  BY ElementOfSeq DEF n
<1> HIDE DEF Seen
<1> QED
  BY <1>1, <1>6, <1>7 DEF Rewrites

\* A reader of the output type finds a candidate's text, unless it went to a
\* definition of several fields or with another text, or to a field that the
\* output type does not reach.
LEMMA TextsShown ==
  ASSUME NEW s, IsSchema(s), NEW root \in DOMAIN s,
         NEW entries, entries \in Seq(ToSet(entries)),
         ArePaths({entries[i].path : i \in DOMAIN entries}),
         NEW texts, NEW p \in {entries[i].path : i \in DOMAIN entries}, p \in DOMAIN texts,
         p # Whole => /\ p # Masked /\ texts[p] # NoText
                      /\ NodeAt(s, root, p) # NoText
                      /\ ~SharesNode(s, root, entries, p) /\ ~Overlays(s, root, entries, p),
         Reaches(s, root, p)
  PROVE  OutputTexts(s, root, entries, texts)[p] = texts[p]
<1> DEFINE n == Len(entries)
           P == {entries[i].path : i \in DOMAIN entries}
           shown == Shown(s, root, PathsOf(entries), texts)
<1>1. OutputTexts(s, root, entries, texts)[p] =
        IF p = Whole /\ Whole \in DOMAIN texts THEN texts[Whole]
        ELSE IF p \in DOMAIN shown THEN shown[p] ELSE TextAt(entries, p)
  BY DEF OutputTexts
<1>2. CASE p = Whole
  BY <1>1, <1>2
<1>3. CASE p # Whole
  <2> DEFINE components == PathsOf(entries)
             overrides == ApplyTexts(s, root, components, texts).overrides
  <2>1. n \in Nat /\ DOMAIN entries = 1..n
    BY LenProperties
  <2>2. components \in Seq(P) /\ Len(components) = n
    <3>1. components \in [1..n -> P]
      BY <2>1 DEF PathsOf
    <3> HIDE DEF components, P
    <3> QED
      BY <2>1, <3>1, FunctionIsSequence
  <2>3. PICK i \in 1..n : components[i] = p
    BY <2>1 DEF PathsOf
  <2>4. OwnNode(s, root, P, p)
    <3>1. NodeAt(s, root, p) \in DOMAIN s
      <4>1. Len(p) \in Nat
        BY DEF ArePaths
      <4>2. NodeAt(s, root, p) \in DOMAIN s \cup {NoText}
        BY <4>1, NodeAtSteps
      <4> QED
        BY <4>2, <1>3
    <3>2. \A j \in DOMAIN entries : entries[j].path # p =>
            NodeAt(s, root, entries[j].path) # NodeAt(s, root, p)
      BY <1>3 DEF SharesNode
    <3> QED
      BY <3>1, <3>2 DEF OwnNode
  <2>5. p \in overrides \/ s[NodeAt(s, root, p)].description = texts[p]
    <3> HIDE DEF P, components
    <3>1. ArePaths(P) /\ i \in 1..Len(components)
      BY <2>2 DEF P
    <3>4. OwnNode(s, root, P, components[i])
      BY <2>3, <2>4
    <3>2. components[i] \in DOMAIN texts /\ components[i] \notin {Whole, Masked}
      BY <2>3, <1>3
    <3>3. \/ components[i] \in ApplyTexts(s, root, components, texts).overrides
          \/ s[NodeAt(s, root, components[i])].description = texts[components[i]]
      BY <3>1, <3>2, <3>4, <2>2, TextsApplied
    <3> QED
      BY <3>3, <2>3
  <2>6. shown = [q \in {r \in overrides : Reaches(s, root, r)} |-> texts[q]]
    BY DEF Shown
  <2> HIDE DEF overrides, shown
  <2>7. CASE p \in overrides
    BY <2>6, <2>7, <1>1, <1>3
  <2>8. CASE s[NodeAt(s, root, p)].description = texts[p]
    <3>1. TextAt(entries, p) = texts[p]
      BY <2>8, <1>3 DEF Overlays
    <3>2. p \in DOMAIN shown => shown[p] = texts[p]
      BY <2>6
    <3> QED
      BY <3>1, <3>2, <1>1, <1>3
  <2> QED
    BY <2>5, <2>7, <2>8
<1> QED
  BY <1>2, <1>3

----------------------------------------------------------------------------
(* What a rollout sees *)

\* What is in force in a context is what the injections make of the candidate, one
\* after the other.
InjectionInv(w) ==
  /\ phase[w] = "called" => candidate[w] \in CandidatesOf[w]
  /\ phase[w] \in {"starting", "injecting", "rolling"} =>
       \E c \in CandidatesOf[w] : candidate[w] = Normalize(c)
  /\ phase[w] \in {"injecting", "rolling"} =>
       \A i \in 1..Len(entered[w]) :
         /\ Applies(Injections[i], candidate[w])
         /\ entered[w][i].slot = Injections[i].slot
         /\ entered[w][i].value = Injected(Injections[i], candidate[w])
  /\ phase[w] = "rolling" => Len(entered[w]) = Len(Injections)

InForceInv ==
  /\ candidate = [w \in Engines |-> candidate[w]]
  /\ \A w \in Engines : InjectionInv(w)

LEMMA SameInjection ==
  ASSUME NEW w, candidate'[w] = candidate[w], entered'[w] = entered[w],
         phase'[w] = phase[w]
           \/ phase'[w] \notin {"called", "starting", "injecting", "rolling"},
         InjectionInv(w)
  PROVE  InjectionInv(w)'
<1>1. CASE phase'[w] = phase[w]
  <2>1. \A i : Applies(Injections[i], candidate[w])' <=> Applies(Injections[i], candidate[w])
    BY DEF Applies, Decodes
  <2>2. \A i : Injected(Injections[i], candidate[w])' = Injected(Injections[i], candidate[w])
    BY DEF Injected
  <2> QED
    BY <1>1, <2>1, <2>2 DEF InjectionInv
<1>2. CASE phase'[w] \notin {"called", "starting", "injecting", "rolling"}
  BY <1>2 DEF InjectionInv
<1> QED
  BY <1>1, <1>2

\* Nobody but the engine itself changes its candidate.
LEMMA CandidateIsOwn ==
  ASSUME Shapes, candidate = [u \in Engines |-> candidate[u]],
         NEW w \in Engines, Works(w) \/ Emits(w)
  PROVE  /\ candidate' = [u \in Engines |-> candidate'[u]]
         /\ \A v \in Engines : v # w => candidate'[v] = candidate[v]
<1>1. CASE UNCHANGED candidate
  BY <1>1
<1>2. CASE (\E c \in CandidatesOf[w] : Begin(w, c)) \/ Evaluate(w) \/ Done(w)
  BY <1>2 DEF Begin, Evaluate, Done
<1>3. CASE Emits(w)
  <2>1. UNCHANGED candidate
    BY <1>3 DEF Emits, Tell, TellReturns, Observes, Interrupted, Undone, engineVars
  <2> QED
    BY <2>1, <1>1
<1>4. CASE Works(w) /\ ~((\E c \in CandidatesOf[w] : Begin(w, c)) \/ Evaluate(w) \/ Done(w))
  <2>1. CASE Announced(w) \/ Inject(w)
    BY <2>1, <1>1 DEF Announced, Inject, Fail
  <2>2. CASE \E i \in DOMAIN BatchOf[w], o \in OutcomesOf[w] : Roll(w, i, o)
    BY <2>2, <1>1 DEF Roll
  <2>3. CASE RolloutsRaise(w) \/ ScoringRaises(w)
    BY <2>3, <1>1 DEF RolloutsRaise, ScoringRaises, Fail
  <2>4. CASE Score(w) \/ Record(w) \/ Return(w) \/ Raise(w) \/ Report(w) \/ Reflect(w)
    BY <2>4, <1>1 DEF Score, Record, Return, Raise, Report, Reflect
  <2> QED
    BY <1>4, <2>1, <2>2, <2>3, <2>4 DEF Works
<1> QED
  BY <1>2, <1>3, <1>4

LEMMA InjectInjects ==
  ASSUME Shapes, NEW w \in Engines, EngineInv(w), InjectionInv(w), Inject(w),
         candidate = [u \in Engines |-> candidate[u]]
  PROVE  InjectionInv(w)'
<1> DEFINE s == entered[w]
           k == Len(entered[w]) + 1
           inj == Injections[k]
           e == [slot |-> inj.slot, value |-> Injected(inj, candidate[w])]
<1>1. IsSequence(s) /\ Len(s) \in Nat /\ Len(Injections) \in Nat
  <2>1. IsSequence(s)
    BY DEF EngineInv, RolloutInv
  <2> QED
    BY <2>1, LengthAny, AdapterAssumption, LenProperties
<1>2. phase[w] = "injecting" /\ candidate'[w] = candidate[w] /\ Len(s) < Len(Injections)
  BY DEF Inject, Go, Fail
<1>3. CASE ~Applies(inj, candidate[w])
  <2>1. phase'[w] = "failing"
    BY <1>3 DEF Inject, Go, Shapes
  <2> QED
    BY <2>1 DEF InjectionInv
<1>4. CASE Applies(inj, candidate[w])
  <2>1. /\ phase'[w] = IF k = Len(Injections) THEN "rolling" ELSE "injecting"
        /\ entered'[w] = Append(s, e) /\ candidate' = candidate
    BY <1>4 DEF Inject, Go, Shapes
  <2>2. /\ Len(entered'[w]) = k /\ entered'[w][k] = e
        /\ \A i \in 1..Len(s) : entered'[w][i] = s[i]
    BY <2>1, <1>1, AppendAny
  <2>3. \A i \in 1..Len(s) :
          /\ Applies(Injections[i], candidate[w])
          /\ s[i].slot = Injections[i].slot
          /\ s[i].value = Injected(Injections[i], candidate[w])
    BY <1>2 DEF InjectionInv
  <2> DEFINE Good(i, x) == /\ Applies(Injections[i], candidate[w])
                           /\ x.slot = Injections[i].slot
                           /\ x.value = Injected(Injections[i], candidate[w])
  <2>4. \A i \in 1..k : Good(i, entered'[w][i])
    <3> TAKE i \in 1..k
    <3>1. i \in 1..Len(s) \/ i = k
      BY <1>1
    <3>2. Good(k, e)
      BY <1>4
    <3> HIDE DEF e, k
    <3> QED
      BY <3>1, <3>2, <2>2, <2>3
  <2>5. \A i : Applies(Injections[i], candidate[w])' <=> Applies(Injections[i], candidate[w])
    BY <2>1 DEF Applies, Decodes
  <2>6. \A i : Injected(Injections[i], candidate[w])' = Injected(Injections[i], candidate[w])
    BY <2>1 DEF Injected
  <2>7. \A i \in 1..Len(entered'[w]) :
          /\ Applies(Injections[i], candidate[w])'
          /\ entered'[w][i].slot = Injections[i].slot
          /\ entered'[w][i].value = Injected(Injections[i], candidate[w])'
    BY <2>2, <2>4, <2>5, <2>6
  <2>8. \E c \in CandidatesOf[w] : candidate'[w] = Normalize(c)
    BY <1>2 DEF InjectionInv
  <2> QED
    BY <2>1, <2>2, <2>7, <2>8, <1>2 DEF InjectionInv
<1> QED
  BY <1>3, <1>4

LEMMA WorkInjects ==
  ASSUME Shapes, NEW w \in Engines, EngineInv(w), InjectionInv(w), Works(w),
         candidate = [u \in Engines |-> candidate[u]]
  PROVE  InjectionInv(w)'
<1>1. ASSUME phase'[w] \notin {"called", "starting", "injecting", "rolling"}
      PROVE  InjectionInv(w)'
  BY <1>1 DEF InjectionInv
<1>2. CASE \E c \in CandidatesOf[w] : Begin(w, c)
  <2>1. phase'[w] = "called" /\ candidate'[w] \in CandidatesOf[w]
    BY <1>2 DEF Begin, Shapes
  <2> QED
    BY <2>1 DEF InjectionInv
<1>3. CASE Evaluate(w)
  <2>1. /\ phase[w] = "called" /\ phase'[w] = "starting"
        /\ candidate'[w] = Normalize(candidate[w])
    BY <1>3 DEF Evaluate, Go, Shapes
  <2> QED
    BY <2>1 DEF InjectionInv
<1>4. CASE Announced(w)
  <2>1. /\ phase[w] = "starting" /\ candidate'[w] = candidate[w] /\ entered'[w] = entered[w]
        /\ phase'[w] = IF Injections = <<>> THEN "rolling" ELSE "injecting"
    BY <1>4 DEF Announced, Go, Shapes
  <2>2. entered[w] = <<>> /\ Len(<<>>) = 0
    BY <2>1 DEF EngineInv, RolloutInv
  <2>3. 1..Len(entered'[w]) = {}
    BY <2>1, <2>2
  <2>4. Injections = <<>> => Len(entered'[w]) = Len(Injections)
    BY <2>1, <2>2
  <2> QED
    BY <2>1, <2>3, <2>4 DEF InjectionInv
<1>5. CASE Inject(w)
  BY <1>5, InjectInjects
<1>6. CASE \E i \in DOMAIN BatchOf[w], o \in OutcomesOf[w] : Roll(w, i, o)
  <2>1. /\ phase'[w] = phase[w] /\ candidate'[w] = candidate[w] /\ entered'[w] = entered[w]
    BY <1>6 DEF Roll, Go, Shapes
  <2> QED
    BY <2>1, SameInjection
<1>7. CASE RolloutsRaise(w) \/ Score(w) \/ Record(w) \/ ScoringRaises(w)
  <2>1. phase'[w] \in {"failing", "scored", "completing", "raised"}
    BY <1>7 DEF RolloutsRaise, Score, Record, ScoringRaises, Go, Shapes
  <2> QED
    BY <2>1, <1>1
<1>8. CASE Return(w) \/ Raise(w) \/ Reflect(w) \/ Report(w) \/ Done(w)
  <2>1. phase'[w] \in {"returned", "raised", "reporting", "over"}
    BY <1>8 DEF Return, Raise, Reflect, Report, Done, Go, Shapes
  <2> QED
    BY <2>1, <1>1
<1> QED
  BY <1>2, <1>3, <1>4, <1>5, <1>6, <1>7, <1>8 DEF Works

LEMMA EmissionInjects ==
  ASSUME Shapes, NEW w \in Engines, InjectionInv(w), Emits(w)
  PROVE  InjectionInv(w)'
<1>1. UNCHANGED <<candidate, entered>>
  BY DEF Emits, Tell, TellReturns, Observes, Interrupted, Undone, engineVars
<1>2. \/ phase'[w] = phase[w]
      \/ phase'[w] = IF phase[w] \in {"starting", "failing", "completing"}
                     THEN "raised" ELSE "over"
  BY DEF Emits, Tell, TellReturns, Observes, Interrupted, Undone, engineVars, Shapes
<1> QED
  BY <1>1, <1>2, SameInjection

LEMMA InForceKept ==
  ASSUME IInv, InForceInv, [Next]_vars
  PROVE  InForceInv'
<1>1. Shapes /\ RunInv /\ \A w \in Engines : EngineInv(w)
  BY DEF IInv
<1>2. candidate = [w \in Engines |-> candidate[w]] /\ \A w \in Engines : InjectionInv(w)
  BY DEF InForceInv
<1>3. ASSUME UNCHANGED <<phase, candidate, entered>> PROVE InForceInv'
  <2>1. \A w \in Engines : InjectionInv(w)'
    BY <1>2, <1>3, SameInjection
  <2> QED
    BY <2>1, <1>2, <1>3 DEF InForceInv
<1>4. CASE Settles
  BY <1>3, <1>4, SettlesQuietly DEF engineVars
<1>5. CASE \E l \in Lifecycles : StartRun(l)
  BY <1>3, <1>5 DEF StartRun, engineVars
<1>6. ASSUME NEW w \in Engines, Works(w) \/ Emits(w) PROVE InForceInv'
  <2>1. /\ candidate' = [u \in Engines |-> candidate'[u]]
        /\ \A v \in Engines : v # w => candidate'[v] = candidate[v]
    BY <1>1, <1>2, <1>6, CandidateIsOwn
  <2>2. \A v \in Engines : v # w => SameEngine(v)
    BY <1>1, <1>6, WorkIsOwn, EmissionIsOwn
  <2>3. \A v \in Engines : v # w => InjectionInv(v)'
    BY <2>1, <2>2, <1>2, SameInjection DEF SameEngine
  <2>4. InjectionInv(w)'
    BY <1>1, <1>2, <1>6, WorkInjects, EmissionInjects
  <2> QED
    BY <2>1, <2>3, <2>4 DEF InForceInv
<1> QED
  BY <1>4, <1>5, <1>6, StepKinds

\* In force in a slot is what the last injection into it made.
LEMMA LastInForce ==
  ASSUME NEW w \in Engines, EngineInv(w), InjectionInv(w), phase[w] = "rolling",
         NEW i \in DOMAIN Injections
  PROVE  \E j \in DOMAIN Injections :
           /\ j >= i /\ Injections[j].slot = Injections[i].slot
           /\ \A l \in DOMAIN Injections :
                l > j => Injections[l].slot # Injections[i].slot
           /\ Applies(Injections[j], candidate[w])
           /\ InForce(w, Injections[i].slot) = Injected(Injections[j], candidate[w])
<1> DEFINE n == Len(Injections)
           slot == Injections[i].slot
           set == {l \in 1..n : Injections[l].slot = slot}
           j == Max(set)
<1>1. n \in Nat /\ DOMAIN Injections = 1..n
  BY AdapterAssumption, LenProperties
<1>2. /\ DOMAIN entered[w] = 1..n
      /\ \A l \in 1..n : /\ Applies(Injections[l], candidate[w])
                         /\ entered[w][l].slot = Injections[l].slot
                         /\ entered[w][l].value = Injected(Injections[l], candidate[w])
  <2>1. IsSequence(entered[w])
    BY DEF EngineInv, RolloutInv
  <2>2. DOMAIN entered[w] = 1..Len(entered[w]) /\ Len(entered[w]) = n
    BY <2>1, LengthAny DEF InjectionInv
  <2> QED
    BY <2>2 DEF InjectionInv
<1>3. {l \in DOMAIN entered[w] : entered[w][l].slot = slot} = set
  BY <1>2
<1>4. i \in set /\ set \subseteq 1..n
  BY <1>1
<1> HIDE DEF n, slot
<1>5. j \in set /\ \A l \in set : j >= l
  <2>1. \E m \in set : \A l \in set : m >= l
    <3> DEFINE T == {n - l : l \in set}
    <3>1. T \subseteq Nat /\ T # {}
      BY <1>1, <1>4
    <3> HIDE DEF T
    <3>2. PICK t \in T : \A l \in T : t <= l
      BY <3>1, SmallestNumber
    <3>3. PICK m \in set : t = n - m
      BY DEF T
    <3>4. \A l \in set : n - m <= n - l
      BY <3>2, <3>3 DEF T
    <3>5. m \in Int /\ \A l \in set : l \in Int
      BY <1>4
    <3>6. \A l \in set : m >= l
      BY <3>4, <3>5, <1>1
    <3> QED
      BY <3>6
  <2>2. j = CHOOSE x \in set : \A l \in set : x >= l
    BY DEF Max
  <2> HIDE DEF set, j
  <2> QED
    BY <2>1, <2>2
<1>6. InForce(w, slot) = entered[w][j].value
  <2>1. {l \in DOMAIN entered[w] : entered[w][l].slot = slot} # {}
    BY <1>3, <1>4
  <2> QED
    BY <2>1, <1>3 DEF InForce
<1> HIDE DEF j
<1>7. j \in 1..n /\ Injections[j].slot = slot /\ j >= i
  BY <1>4, <1>5
<1>8. \A l \in 1..n : l > j => Injections[l].slot # slot
  <2> SUFFICES ASSUME NEW l \in 1..n, l > j, Injections[l].slot = slot PROVE FALSE
    OBVIOUS
  <2>1. l \in set /\ j >= l
    BY <1>5
  <2> QED
    BY <2>1, <1>1, <1>7
<1> QED
  BY <1>1, <1>2, <1>6, <1>7, <1>8 DEF slot

\* A text of a candidate, quoted once or not at all
OwnWords(c, n, v) == \E k \in {0, 1} : v = [text |-> c[n].text, quotes |-> k]

LEMMA NormalizeKeeps ==
  ASSUME NEW w \in Engines, NEW c \in CandidatesOf[w], NEW n \in DOMAIN c
  PROVE  /\ OwnWords(c, n, Normalize(c)[n])
         /\ n \in DOMAIN Serialization /\ Serialization[n] = "json_string"
              => Normalize(c)[n].quotes = 1
<1>1. c[n] = [text |-> c[n].text, quotes |-> c[n].quotes] /\ c[n].quotes \in {0, 1}
  BY CandidateAssumption
<1>2. OwnWords(c, n, c[n])
  BY <1>1 DEF OwnWords
<1>3. CASE n \notin DOMAIN Serialization
  <2>1. Normalize(c)[n] = c[n]
    BY <1>3 DEF Normalize
  <2> QED
    BY <2>1, <1>2, <1>3
<1>4. CASE n \in DOMAIN Serialization
  <2> DEFINE mode == Serialization[n]
  <2>1. Normalize(c)[n] =
          Encode(mode, IF Decodes(mode, c[n]) THEN Decode(mode, c[n]) ELSE c[n])
    BY <1>4 DEF Normalize
  <2>2. mode \in {"raw", "json_string"}
    BY <1>4, CandidateAssumption
  <2>3. CASE mode = "raw"
    <3>1. Normalize(c)[n] = c[n]
      BY <2>1, <2>3 DEF Encode, Decode
    <3> QED
      BY <3>1, <1>2, <2>3
  <2>4. CASE mode = "json_string"
    <3>1. PICK k \in {0, 1} : c[n] = [text |-> c[n].text, quotes |-> k]
      BY <1>2 DEF OwnWords
    <3>2. Normalize(c)[n] = Quoted(IF k > 0 THEN [c[n] EXCEPT !.quotes = @ - 1] ELSE c[n])
      BY <2>1, <2>4, <3>1 DEF Encode, Decodes, Decode
    <3> DEFINE t == c[n].text
    <3>3. c[n] = [text |-> t, quotes |-> k]
      BY <3>1
    <3> HIDE DEF t
    <3>4. Normalize(c)[n] = [text |-> t, quotes |-> 1]
      BY <3>2, <3>3 DEF Quoted
    <3> QED
      BY <3>4 DEF OwnWords, t
  <2> QED
    BY <2>2, <2>3, <2>4
<1> QED
  BY <1>3, <1>4

\* The texts of the output type that a normalised candidate has are texts.
LEMMA OutputTextIsText ==
  ASSUME NEW w \in Engines, NEW c \in CandidatesOf[w], NEW p \in Paths,
         <<"output">> \o p \in DOMAIN c
  PROVE  /\ p \in DOMAIN Texts("output", Paths, Normalize(c))
         /\ Texts("output", Paths, Normalize(c))[p] # NoText
<1> DEFINE n == <<"output">> \o p
           v == Normalize(c)[n]
<1>1. DOMAIN Normalize(c) = DOMAIN c
  BY DEF Normalize
<1>2. /\ p \in DOMAIN Texts("output", Paths, Normalize(c))
      /\ Texts("output", Paths, Normalize(c))[p] = Decode(Serialization[n], v)
  BY <1>1 DEF Texts
<1>3. n \in DOMAIN Serialization
  BY SchemaAssumption
<1>4. Serialization[n] \in {"raw", "json_string"}
  BY <1>3, CandidateAssumption
<1>5. \A k \in {0, 1} : NoText # [text |-> c[n].text, quotes |-> k]
  BY CandidateAssumption
<1>6. OwnWords(c, n, v) /\ (Serialization[n] = "json_string" => v.quotes = 1)
  BY <1>3, NormalizeKeeps
<1> HIDE DEF v, n
<1>7. CASE Serialization[n] = "raw"
  <2>1. Decode(Serialization[n], v) = v
    BY <1>7 DEF Decode
  <2> QED
    BY <2>1, <1>2, <1>5, <1>6 DEF OwnWords
<1>8. CASE Serialization[n] = "json_string"
  <2> DEFINE t == c[n].text
  <2>1. v = [text |-> t, quotes |-> 1]
    BY <1>6, <1>8 DEF OwnWords
  <2> HIDE DEF t
  <2>2. Decode(Serialization[n], v) = [text |-> t, quotes |-> 0]
    BY <2>1, <1>8 DEF Decode
  <2> QED
    BY <2>2, <1>2, <1>5 DEF t
<1> QED
  BY <1>4, <1>7, <1>8

\* The output type of a normalised candidate has its texts.
LEMMA OutputShows ==
  ASSUME NEW w \in Engines, NEW c \in CandidatesOf[w],
         NEW p \in Paths \ (Sharing \cup Overlaying \cup Unreached \cup {Masked}),
         <<"output">> \o p \in DOMAIN c
  PROVE  Output(Normalize(c))[p] = Texts("output", Paths, Normalize(c))[p]
<1> DEFINE texts == Texts("output", Paths, Normalize(c))
           s == Model.schema
           P == {Entries[i].path : i \in DOMAIN Entries}
<1>1. IsSchema(s) /\ Model.root \in DOMAIN s /\ Entries \in Seq(ToSet(Entries))
  BY SchemaAssumption
<1>2. ArePaths(P)
  <2> SUFFICES ASSUME NEW q \in Paths PROVE Len(q) \in Nat
    BY DEF ArePaths, Paths
  <2>1. q \in Seq(ToSet(q))
    BY SchemaAssumption
  <2> QED
    BY <2>1, LenProperties
<1>3. p \in P /\ p \in DOMAIN texts /\ texts[p] # NoText
  BY OutputTextIsText DEF Paths
<1>4. p # Whole => /\ p # Masked /\ texts[p] # NoText
                   /\ NodeAt(s, Model.root, p) # NoText
                   /\ ~SharesNode(s, Model.root, Entries, p)
                   /\ ~Overlays(s, Model.root, Entries, p)
  <2> SUFFICES ASSUME p # Whole
               PROVE  /\ p # Masked /\ texts[p] # NoText
                      /\ NodeAt(s, Model.root, p) # NoText
                      /\ ~SharesNode(s, Model.root, Entries, p)
                      /\ ~Overlays(s, Model.root, Entries, p)
    OBVIOUS
  <2>1. NodeAt(s, Model.root, p) # NoText
    BY SchemaAssumption DEF Unreached, Reaches
  <2>2. p \notin Sharing /\ p \notin Overlaying /\ p # Masked
    OBVIOUS
  <2> QED
    BY <1>3, <2>1, <2>2 DEF Sharing, Overlaying
<1>5. Output(Normalize(c)) = OutputTexts(s, Model.root, Entries, texts)
  BY DEF Output
<1> HIDE DEF texts, s
<1> DEFINE entries == Entries
           root == Model.root
<1>6. IsSchema(s) /\ root \in DOMAIN s /\ entries \in Seq(ToSet(entries))
  BY <1>1
<1>7. ArePaths({entries[i].path : i \in DOMAIN entries})
  BY <1>2
<1>8. p \in {entries[i].path : i \in DOMAIN entries} /\ p \in DOMAIN texts
  BY <1>3
<1>9. p # Whole => /\ p # Masked /\ texts[p] # NoText
                   /\ NodeAt(s, root, p) # NoText
                   /\ ~SharesNode(s, root, entries, p) /\ ~Overlays(s, root, entries, p)
  BY <1>4
<1>10. Output(Normalize(c)) = OutputTexts(s, root, entries, texts) /\ Reaches(s, root, p)
  BY <1>5 DEF Unreached, s
<1> HIDE DEF entries, root
<1>11. OutputTexts(s, root, entries, texts)[p] = texts[p]
  BY <1>6, <1>7, <1>8, <1>9, <1>10, TextsShown
<1>12. Output(Normalize(c))[p] = texts[p]
  BY <1>10, <1>11
<1> QED
  BY <1>12 DEF texts

----------------------------------------------------------------------------
(* What the runs check *)

\* Whatever the engines and the observers do, and in whatever order: the queue
\* of an engine is what its evaluation has still to tell, what it has told is
\* what came before, and nothing of a candidate is in force outside its
\* rollouts (PydanticGEPAAdapter.evaluate, EvaluationEventSink, injection_scope).
THEOREM InvariantCorrect == Spec => []IInv
BY InitInv, NextInv, PTL DEF Spec

\* The engines use the dispatcher as EventDispatchProofs assumes of whoever
\* emits: what is proved there of any emitters holds of them (emit).
THEOREM DispatchUsed == Spec => DispatchSpec
<1>1. Init => DispatchInit
  BY DEF Init
<1>2. IInv /\ [Next]_vars => [DispatchNext]_progress
  BY NextDispatches
<1> QED
  BY <1>1, <1>2, InvariantCorrect, PTL DEF Spec, DispatchSpec

\* While nobody emits, every observer of the run was told as many events as the
\* engines, their bridges and the observers emitted, less those an interrupt cut
\* off (emit, _deliver).
THEOREM RunToldCorrect == Spec => []EachIsTold
BY DispatchUsed, ToldCorrect, PTL

\* In a run an observer is told an event late only if one before it in the list
\* emitted while it was being told (emit under an RLock).
THEOREM RunLateCorrect == Spec => []LateNeedsNesting
BY DispatchUsed, LateCorrect, PTL

\* The lock is held by the one context that is telling, which tells observers of
\* the run only; every case of a batch has one of its outcomes or none yet
\* (EventDispatcher, EvaluationHarness).
THEOREM TypeCorrect == Spec => []TypeOK
<1>1. IInv => TypeOK
  <2> SUFFICES ASSUME IInv PROVE TypeOK
    OBVIOUS
  <2>1. /\ run \in {"idle", "around", "running", "over"}
        /\ outer \in Outers \cup {None} /\ lifecycle \in Lifecycles \cup {None}
    BY DEF IInv, RunInv
  <2>2. /\ phase \in [Engines -> Phases]
        /\ why \in [Engines -> {"", "rollouts", "scoring", "told"}] /\ tricks \in 0..MaxTricks
    BY DEF IInv, Shapes
  <2>3. lock \in Contexts \cup {None} /\ number \in Nat
    BY DEF IInv, LockInv, DispatchInv
  <2>4. ASSUME NEW c \in Contexts PROVE ~Idle(c) <=> lock = c
    <3>1. c # None
      BY DispatchAssumption
    <3>2. (calls[c] # <<>> => lock = c) /\ (lock # None => calls[lock] # <<>>)
      BY DEF IInv, DispatchInv, Exclusive, LockInv
    <3> QED
      BY <3>1, <3>2 DEF Idle
  <2>5. ASSUME NEW c \in Contexts, NEW i \in DOMAIN calls[c]
        PROVE  ToSet(calls[c][i].todo) \subseteq Observers
    <3>1. dispatcher # None
      <4>1. DOMAIN <<>> = {}
        OBVIOUS
      <4> QED
        BY <4>1 DEF IInv, DispatchInv, Untouched
    <3>2. GoodStack(calls[c], heard, nested, number)
      BY <3>1 DEF IInv, DispatchInv
    <3>3. i \in 1..Len(calls[c])
      BY <3>2, LengthAny DEF GoodStack
    <3>4. calls[c][i].todo \in Seq(Observers)
      BY <3>2, <3>3 DEF GoodStack, GoodFrame, IsFrame
    <3> QED
      BY <3>4, LenProperties, ElementOfSeq DEF ToSet
  <2>6. ASSUME NEW w \in Engines
        PROVE  /\ Len(entered[w]) <= Len(Injections)
               /\ rolled[w] \in [DOMAIN BatchOf[w] -> OutcomesOf[w] \cup {None}]
    BY DEF IInv, EngineInv, RolloutInv
  <2> QED
    BY <2>1, <2>2, <2>3, <2>4, <2>5, <2>6 DEF TypeOK
<1> QED
  BY <1>1, InvariantCorrect, PTL

\* An event is told on behalf of the execution the run was started in and with
\* the step and engine of its sender's scope, whoever sends it and wherever the
\* run was started (emit, _event_scope, GEPAEventBridge._emit).
THEOREM CorrelatedCorrect == Spec => []CorrelatedByScope
<1>1. IInv => CorrelatedByScope
  BY DEF IInv, FrameInv, Correlated, OuterStage, OuterField, CorrelatedByScope
<1> QED
  BY <1>1, InvariantCorrect, PTL

\* An evaluation told as completed was told case by case first and never as
\* skipped; one that returned was told as completed, one whose rollouts raised as
\* skipped; the run's end is told by its own bridge only, after its beginning, and
\* in one way (PydanticGEPAAdapter.evaluate, EvaluationEventSink, GEPAEventBridge).
THEOREM StreamCorrect == Spec => []StreamWellFormed
<1>1. IInv => StreamWellFormed
  <2> SUFFICES ASSUME IInv, NEW w \in Engines
               PROVE  /\ Sunk(w, "EvaluationCompleted", 0) =>
                           /\ Sunk(w, "EvaluationStarted", 0) /\ ~Sunk(w, "EvaluationSkipped", 0)
                           /\ \A i \in DOMAIN BatchOf[w] :
                                Sunk(w, "CaseEvaluated", i) /\ Sunk(w, "MetricCompleted", i)
                      /\ phase[w] = "returned" =>
                           Sunk(w, "EvaluationCompleted", 0) /\ Sunk(w, "CandidateEvaluated", 0)
                      /\ phase[w] = "raised" /\ why[w] = "rollouts" => Sunk(w, "EvaluationSkipped", 0)
                      /\ lifecycle = "backend_only" => \A k \in RunKinds : ~Bridged(w, k)
                      /\ Bridged(w, "RunCompleted") \/ Bridged(w, "RunFailed") => Bridged(w, "RunStarted")
                      /\ ~(Bridged(w, "RunCompleted") /\ Bridged(w, "RunFailed"))
    BY DEF StreamWellFormed
  <2>1. SinkInv(w) /\ BridgeInv(w)
    BY DEF IInv, EngineInv
  <2>2. \A kind : Bridged(w, kind) => Ends(w, kind)
    BY DEF Ends
  <2>3. lifecycle = "backend_only" => \A k \in RunKinds : ~Bridged(w, k)
    BY <2>1 DEF BridgeInv
  <2>4. /\ Bridged(w, "RunCompleted") \/ Bridged(w, "RunFailed") => Bridged(w, "RunStarted")
        /\ ~(Bridged(w, "RunCompleted") /\ Bridged(w, "RunFailed"))
    BY <2>1, <2>2 DEF BridgeInv
  <2> QED
    BY <2>1, <2>3, <2>4 DEF SinkInv
<1> QED
  BY <1>1, InvariantCorrect, PTL

\* The outputs, scores and records of a batch are those of one case at every
\* position, every case has a position, and it is the batch's own unless a case
\* failed before one that did not (PydanticGEPAAdapter.evaluate).
THEOREM RowsCorrect == Spec => []RowsBelongTogether
<1>1. IInv => RowsBelongTogether
  <2> SUFFICES ASSUME IInv, NEW w \in Engines, result[w] # None
               PROVE  LET r == result[w]
                          failed(i) == rolled[w][i].failed IN
                      /\ Len(r.scores) = Len(BatchOf[w]) /\ ToSet(r.records) = DOMAIN BatchOf[w]
                      /\ \A k \in DOMAIN r.records :
                           /\ r.scores[k] = ScoreOf(w, r.records[k])
                           /\ r.outputs[k] = IF failed(r.records[k]) THEN None ELSE r.records[k]
                      /\ (\A i, j \in DOMAIN BatchOf[w] : i < j /\ failed(i) => failed(j)) =>
                           r.records = Batch(w)
    BY DEF RowsBelongTogether
  <2>1. result[w] = EvaluationBatch(w)
    BY DEF IInv, EngineInv, RolloutInv
  <2> DEFINE n == Len(BatchOf[w])
             s == [k \in DOMAIN Records(w) |-> ScoreOf(w, Records(w)[k])]
  <2>2. /\ result[w].records = Records(w) /\ result[w].scores = s
        /\ result[w].outputs = [k \in DOMAIN Records(w) |->
                                  IF rolled[w][Records(w)[k]].failed THEN None ELSE Records(w)[k]]
    BY <2>1 DEF EvaluationBatch
  <2>3. /\ n \in Nat /\ DOMAIN BatchOf[w] = 1..n
        /\ Records(w) \in Seq(DOMAIN BatchOf[w]) /\ DOMAIN Records(w) = 1..n /\ Len(Records(w)) = n
        /\ \A i \in DOMAIN BatchOf[w] : \E k \in DOMAIN Records(w) : Records(w)[k] = i
        /\ (\A i, j \in DOMAIN BatchOf[w] : i < j /\ rolled[w][i].failed => rolled[w][j].failed)
             => Records(w) = Batch(w)
    BY RecordsProps
  <2> HIDE DEF n
  <2>4. Len(s) = n
    <3> DEFINE S == {ScoreOf(w, Records(w)[k]) : k \in 1..n}
    <3>1. s \in [1..n -> S]
      BY <2>3
    <3> HIDE DEF s, S
    <3> QED
      BY <3>1, <2>3, FunctionIsSequence
  <2>5. ToSet(Records(w)) = DOMAIN BatchOf[w]
    <3>1. \A k \in DOMAIN Records(w) : Records(w)[k] \in DOMAIN BatchOf[w]
      BY <2>3, ElementOfSeq
    <3> QED
      BY <3>1, <2>3 DEF ToSet
  <2>6. ASSUME NEW k \in DOMAIN Records(w)
        PROVE  /\ result[w].scores[k] = ScoreOf(w, Records(w)[k])
               /\ result[w].outputs[k] =
                    IF rolled[w][Records(w)[k]].failed THEN None ELSE Records(w)[k]
    BY <2>2
  <2> QED
    BY <2>2, <2>3, <2>4, <2>5, <2>6 DEF n
<1> QED
  BY <1>1, InvariantCorrect, PTL

\* A component's reflection is shown the first of the records routed to it, in
\* the order asked for, that are within the bounds, and a record is left out only
\* for that (PydanticEvalsASIBuilder.build, make_reflective_dataset).
THEOREM EvidenceCorrect == Spec => []EvidenceIsSelection
<1>1. Init => EvidenceInv
  <2> SUFFICES ASSUME Init PROVE EvidenceInv
    OBVIOUS
  <2>1. /\ evidence = [w \in Engines |-> None]
        /\ phase = [w \in Engines |-> "ready"]
    BY DEF Init
  <2> QED
    BY <2>1 DEF EvidenceInv, Reflected
<1>2. IInv /\ EvidenceInv /\ [Next]_vars => EvidenceInv'
  BY EvidenceKept
<1>3. IInv /\ EvidenceInv => EvidenceIsSelection
  <2> SUFFICES ASSUME IInv, EvidenceInv, NEW w \in Engines, evidence[w] \notin {None, <<>>},
                      NEW n \in ToSet(Updates)
               PROVE  IsSelection(evidence[w].builder, evidence[w].shown[n],
                                  Routed(evidence[w].builder, RecordsOf(w), Updates, n))
    BY DEF EvidenceIsSelection
  <2>1. RolledOut(w) /\ result[w] = EvaluationBatch(w) /\ RolloutInv(w)
    BY DEF EvidenceInv, Reflected, IInv, EngineInv
  <2>2. PICK b \in Builders :
          evidence[w] = [builder |-> b, shown |-> Evidence(b, RecordsOf(w), Updates)]
    BY DEF EvidenceInv, Reflected
  <2>3. PICK R : RecordsOf(w) \in Seq(R) /\ \A r \in R : Readable(r)
    BY <2>1, RecordsReadable
  <2>4. /\ \A r \in R : Scored(r) /\ Sized(r)
        /\ \A r \in R : Times(b, r, Updates, n) \in Nat
    BY <2>3 DEF Readable
  <2> DEFINE records == Routed(b, RecordsOf(w), Updates, n)
  <2>5. records \in Seq(R)
    BY <2>3, <2>4, RoutedIsRecords
  <2>6. evidence[w].builder = b /\ evidence[w].shown[n] = Select(b, records)
    BY <2>2 DEF Evidence
  <2> HIDE DEF records
  <2>7. IsSelection(b, Select(b, records), records)
    BY <2>4, <2>5, SelectProps
  <2> QED
    BY <2>6, <2>7 DEF records
<1> QED
  BY <1>1, <1>2, <1>3, InvariantCorrect, PTL DEF Spec

\* Nothing of a candidate is in force outside the rollouts it was entered for,
\* whether the evaluation returned, raised or was interrupted (injection_scope).
NothingStays ==
  \A w \in Engines : phase[w] \notin {"injecting", "rolling"} => entered[w] = <<>>

THEOREM ScopeLeft == Spec => []NothingStays
<1>1. IInv => NothingStays
  BY DEF IInv, EngineInv, RolloutInv, NothingStays
<1> QED
  BY <1>1, InvariantCorrect, PTL

\* Rollouts see the candidate's own texts while they run, and nothing of it is in
\* force when the evaluation is left: what injection_scope entered is what
\* Injection.apply made of the normalised candidate, one injection after the other,
\* and the output type _candidate_model_output_type makes has every text that went
\* to a node of its own.
THEOREM InjectionsCorrect == Spec => []InjectionsScoped
<1>1. Init => InForceInv
  <2> SUFFICES ASSUME Init PROVE InForceInv
    OBVIOUS
  <2>1. /\ candidate = [w \in Engines |-> None]
        /\ phase = [w \in Engines |-> "ready"]
    BY DEF Init
  <2> QED
    BY <2>1 DEF InForceInv, InjectionInv
<1>2. IInv /\ InForceInv /\ [Next]_vars => InForceInv'
  BY InForceKept
<1>3. IInv /\ InForceInv => InjectionsScoped
  <2> SUFFICES ASSUME IInv, InForceInv, NEW w \in Engines
               PROVE  /\ phase[w] = "rolling" =>
                         /\ \A i \in DOMAIN Injections :
                              /\ Injections[i].kind = "agent"
                              /\ Injections[i].serialization = "json_string"
                              /\ \A j \in DOMAIN Injections :
                                   j > i => Injections[j].slot # Injections[i].slot
                              => InForce(w, Injections[i].slot).quotes = 0
                         /\ (\E i \in DOMAIN Injections : Injections[i].kind = "output") =>
                              \A p \in Paths \ (Sharing \cup Overlaying \cup Unreached \cup {Masked}) :
                                <<"output">> \o p \in DOMAIN candidate[w]
                                => InForce(w, "output")[p]
                                     = Texts("output", Paths, candidate[w])[p]
                      /\ phase[w] \notin {"injecting", "rolling"} => entered[w] = <<>>
    BY DEF InjectionsScoped
  <2>1. EngineInv(w) /\ InjectionInv(w)
    BY DEF IInv, InForceInv
  <2>2. phase[w] \notin {"injecting", "rolling"} => entered[w] = <<>>
    BY <2>1 DEF EngineInv, RolloutInv
  <2>3. ASSUME phase[w] = "rolling", NEW i \in DOMAIN Injections,
               Injections[i].kind = "agent", Injections[i].serialization = "json_string",
               \A j \in DOMAIN Injections : j > i => Injections[j].slot # Injections[i].slot
        PROVE  InForce(w, Injections[i].slot).quotes = 0
    <3>1. PICK j \in DOMAIN Injections :
            /\ j >= i /\ Injections[j].slot = Injections[i].slot
            /\ Applies(Injections[j], candidate[w])
            /\ InForce(w, Injections[i].slot) = Injected(Injections[j], candidate[w])
      BY <2>1, <2>3, LastInForce
    <3>2. j = i
      <4>1. i \in Nat /\ j \in Nat
        BY AdapterAssumption, LenProperties
      <4>2. ~(j > i)
        BY <2>3, <3>1
      <4> QED
        BY <4>1, <4>2, <3>1
    <3> DEFINE m == Injections[i].component
               v == candidate[w][m]
    <3>3. /\ m \in DOMAIN candidate[w] /\ v.quotes > 0
          /\ InForce(w, Injections[i].slot) = [v EXCEPT !.quotes = @ - 1]
      BY <2>3, <3>1, <3>2 DEF Applies, Injected, Decodes, Decode
    <3>4. PICK c \in CandidatesOf[w] : candidate[w] = Normalize(c)
      BY <2>1, <2>3 DEF InjectionInv
    <3>5. m \in DOMAIN c
      BY <3>3, <3>4 DEF Normalize
    <3>6. OwnWords(c, m, v)
      BY <3>4, <3>5, NormalizeKeeps
    <3> HIDE DEF v, m
    <3>7. PICK k \in {0, 1} : v = [text |-> c[m].text, quotes |-> k]
      BY <3>6 DEF OwnWords
    <3>8. k = 1
      BY <3>7, <3>3
    <3> QED
      BY <3>3, <3>7, <3>8
  <2>4. ASSUME phase[w] = "rolling", NEW i \in DOMAIN Injections, Injections[i].kind = "output",
               NEW p \in Paths \ (Sharing \cup Overlaying \cup Unreached \cup {Masked}),
               <<"output">> \o p \in DOMAIN candidate[w]
        PROVE  InForce(w, "output")[p] = Texts("output", Paths, candidate[w])[p]
    <3>1. Injections[i].slot = "output"
      BY <2>4, CandidateAssumption
    <3>2. PICK j \in DOMAIN Injections :
            /\ Injections[j].slot = "output"
            /\ InForce(w, "output") = Injected(Injections[j], candidate[w])
      BY <2>1, <2>4, <3>1, LastInForce
    <3>3. Injections[j].kind = "output"
      BY <3>2, CandidateAssumption
    <3>4. InForce(w, "output") = Output(candidate[w])
      BY <3>2, <3>3 DEF Injected
    <3>5. PICK c \in CandidatesOf[w] : candidate[w] = Normalize(c)
      BY <2>1, <2>4 DEF InjectionInv
    <3>6. <<"output">> \o p \in DOMAIN c
      BY <2>4, <3>5 DEF Normalize
    <3>7. Output(Normalize(c))[p] = Texts("output", Paths, Normalize(c))[p]
      BY <2>4, <3>6, OutputShows
    <3> QED
      BY <3>4, <3>5, <3>7
  <2> QED
    BY <2>2, <2>3, <2>4
<1> QED
  BY <1>1, <1>2, <1>3, InvariantCorrect, PTL DEF Spec
=============================================================================
