--------------------------- MODULE CompositionProofs ---------------------------
(***************************************************************************)
(* What holds of compositions of engines for any engines, any pipelines,   *)
(* any budgets and any number of calls of optimize on one directory.       *)
(***************************************************************************)
EXTENDS Composition, WellFoundedInduction, FiniteSetTheorems, SequenceTheorems,
        TLAPS

----------------------------------------------------------------------------
(* Sums.  What FoldFunction computes is determined by its recursion over    *)
(* the subsets of the function's domain; that the recursion has a solution *)
(* is shown for the smallest set for which it might have none.             *)

\* The recursion of Total(f) over the subsets of S, with it for the sums of
\* smaller subsets
SumsOver(f, S, it) ==
  [s \in SUBSET S |->
     IF s = {} THEN 0
     ELSE LET x == CHOOSE x \in s : TRUE IN f[x] + it[s \ {x}]]

\* g holds the sums of f over the subsets of S.
AreSums(f, S, g) == g = SumsOver(f, S, g)

\* A family of subsets of a finite set has a smallest member.
LEMMA SmallestSubset ==
  ASSUME NEW S, IsFiniteSet(S), NEW T \in SUBSET SUBSET S, T # {}
  PROVE  \E s \in T : \A u \in SUBSET s : u # s => u \notin T
<1>1. IsWellFoundedOn(StrictSubsetOrdering(S), FiniteSubsetsOf(S))
  BY FS_StrictSubsetOrderingWellFounded
<1>2. T \subseteq FiniteSubsetsOf(S)
  BY FS_Subset DEF FiniteSubsetsOf
<1>3. PICK s \in T : \A u \in T : <<u, s>> \notin StrictSubsetOrdering(S)
  BY <1>1, <1>2, WFMin
<1> QED BY <1>3 DEF StrictSubsetOrdering

\* Two solutions agree.
LEMMA SumsUnique ==
  ASSUME NEW f, NEW S, IsFiniteSet(S), NEW T, IsFiniteSet(T), NEW g, NEW h,
         AreSums(f, S, g), AreSums(f, T, h), NEW w \in SUBSET (S \cap T)
  PROVE  g[w] = h[w]
<1> DEFINE Bad == {s \in SUBSET (S \cap T) : g[s] # h[s]}
<1>1. SUFFICES ASSUME Bad # {} PROVE FALSE
  OBVIOUS
<1>2. IsFiniteSet(S \cap T) /\ Bad \in SUBSET SUBSET (S \cap T)
  BY FS_Subset, S \cap T \subseteq S
<1>3. PICK s \in Bad : \A u \in SUBSET s : u # s => u \notin Bad
  <2> HIDE DEF Bad
  <2> QED BY <1>1, <1>2, SmallestSubset
<1> DEFINE x == CHOOSE x \in s : TRUE
<1>4. s # {} => x \in s /\ s \ {x} \in SUBSET s /\ s \ {x} # s
  OBVIOUS
<1>5. s # {} => g[s \ {x}] = h[s \ {x}]
  BY <1>3, <1>4
<1>6. g[s] = (IF s = {} THEN 0 ELSE f[x] + g[s \ {x}])
  BY <1>3 DEF AreSums, SumsOver
<1>7. h[s] = (IF s = {} THEN 0 ELSE f[x] + h[s \ {x}])
  BY <1>3 DEF AreSums, SumsOver
<1> QED BY <1>3, <1>5, <1>6, <1>7

\* There is a solution.
LEMMA SumsExist ==
  ASSUME NEW f, NEW S, IsFiniteSet(S)
  PROVE  \E g : AreSums(f, S, g)
<1> DEFINE Bad == {s \in SUBSET S : ~ \E g : AreSums(f, s, g)}
<1>1. SUFFICES ASSUME Bad # {} PROVE FALSE
  OBVIOUS
<1>2. PICK s \in Bad : \A u \in SUBSET s : u # s => u \notin Bad
  <2>1. Bad \in SUBSET SUBSET S
    OBVIOUS
  <2> HIDE DEF Bad
  <2> QED BY <1>1, <2>1, SmallestSubset
<1> DEFINE Sums(u) == CHOOSE g : AreSums(f, u, g)
           It == [u \in SUBSET s |-> Sums(u)[u]]
           g == SumsOver(f, s, It)
<1>3. \A u \in SUBSET s : u # s => AreSums(f, u, Sums(u))
  BY <1>2
<1>4. \A u \in SUBSET s : IsFiniteSet(u)
  BY FS_Subset
<1>5. \A u \in SUBSET s : u # s => g[u] = It[u]
  <2> SUFFICES ASSUME NEW u \in SUBSET s, u # s PROVE g[u] = It[u]
    OBVIOUS
  <2>1. AreSums(f, u, Sums(u)) /\ It[u] = Sums(u)[u]
    BY <1>3
  <2> DEFINE x == CHOOSE x \in u : TRUE
  <2>2. It[u] = (IF u = {} THEN 0 ELSE f[x] + Sums(u)[u \ {x}])
    BY <2>1 DEF AreSums, SumsOver
  <2>3. u # {} => Sums(u)[u \ {x}] = It[u \ {x}]
    <3> SUFFICES ASSUME u # {} PROVE Sums(u)[u \ {x}] = It[u \ {x}]
      OBVIOUS
    <3> DEFINE w == u \ {x}
    <3>1. w \in SUBSET s /\ w # s /\ w \in SUBSET (u \cap w)
      OBVIOUS
    <3>2. AreSums(f, w, Sums(w)) /\ It[w] = Sums(w)[w]
      BY <1>3, <3>1
    <3>3. IsFiniteSet(u) /\ IsFiniteSet(w)
      BY <1>4, <3>1
    <3> HIDE DEF Sums, It, w
    <3>4. Sums(u)[w] = Sums(w)[w]
      BY <2>1, <3>1, <3>2, <3>3, SumsUnique
    <3> QED BY <3>2, <3>4 DEF w
  <2>4. g[u] = (IF u = {} THEN 0 ELSE f[x] + It[u \ {x}])
    BY DEF SumsOver
  <2> HIDE DEF It, g, Sums
  <2> QED BY <2>2, <2>3, <2>4
<1>6. \A u \in SUBSET s : u # {} =>
         LET x == CHOOSE x \in u : TRUE IN It[u \ {x}] = g[u \ {x}]
  <2> SUFFICES ASSUME NEW u \in SUBSET s, u # {}
               PROVE  It[u \ {CHOOSE x \in u : TRUE}] = g[u \ {CHOOSE x \in u : TRUE}]
    OBVIOUS
  <2> DEFINE w == u \ {CHOOSE x \in u : TRUE}
  <2>1. w \in SUBSET s /\ w # s
    OBVIOUS
  <2> HIDE DEF It, g
  <2> QED BY <1>5, <2>1
<1>7. AreSums(f, s, g)
  <2> HIDE DEF It
  <2>1. SumsOver(f, s, It) = SumsOver(f, s, g)
    <3> HIDE DEF g
    <3> QED BY <1>6 DEF SumsOver
  <2> QED BY <2>1 DEF AreSums
<1> QED BY <1>2, <1>7

\* Sums of natural numbers are natural numbers.
LEMMA SumsAreNat ==
  ASSUME NEW f, NEW S, IsFiniteSet(S), \A x \in S : f[x] \in Nat,
         NEW g, AreSums(f, S, g)
  PROVE  g \in [SUBSET S -> Nat]
<1> DEFINE Bad == {s \in SUBSET S : g[s] \notin Nat}
<1>1. SUFFICES ASSUME Bad # {} PROVE FALSE
  BY DEF AreSums, SumsOver
<1>2. PICK s \in Bad : \A u \in SUBSET s : u # s => u \notin Bad
  <2>1. Bad \in SUBSET SUBSET S
    OBVIOUS
  <2> HIDE DEF Bad
  <2> QED BY <1>1, <2>1, SmallestSubset
<1> DEFINE x == CHOOSE x \in s : TRUE
<1>3. s # {} => x \in S /\ s \ {x} \in SUBSET s /\ s \ {x} # s
  BY <1>2
<1>4. s # {} => f[x] \in Nat /\ g[s \ {x}] \in Nat
  BY <1>2, <1>3
<1>5. g[s] = (IF s = {} THEN 0 ELSE f[x] + g[s \ {x}])
  BY <1>2 DEF AreSums, SumsOver
<1> HIDE DEF x
<1> QED BY <1>2, <1>4, <1>5

\* Total is one of these sums.
LEMMA TotalIsSum ==
  ASSUME NEW f, IsFiniteSet(DOMAIN f)
  PROVE  \E g : AreSums(f, DOMAIN f, g) /\ Total(f) = g[DOMAIN f]
<1> DEFINE S == DOMAIN f
           it == CHOOSE g : g = SumsOver(f, S, g)
<1>1. PICK g : AreSums(f, S, g)
  BY SumsExist
<1>2. AreSums(f, S, it)
  BY <1>1 DEF AreSums
<1>3. Total(f) = it[S]
  BY DEF Total, FoldFunction, FoldFunctionOnSet, MapThenFoldSet, SumsOver
<1> QED BY <1>2, <1>3

\* A total is a natural number.
LEMMA TotalType ==
  ASSUME NEW f, IsFiniteSet(DOMAIN f), \A x \in DOMAIN f : f[x] \in Nat
  PROVE  Total(f) \in Nat
<1>1. PICK g : AreSums(f, DOMAIN f, g) /\ Total(f) = g[DOMAIN f]
  BY TotalIsSum
<1>2. g \in [SUBSET DOMAIN f -> Nat]
  BY <1>1, SumsAreNat
<1> QED BY <1>1, <1>2

\* The total of nothing is 0.
LEMMA TotalOfNone == ASSUME NEW f, DOMAIN f = {} PROVE Total(f) = 0
<1>1. IsFiniteSet(DOMAIN f)
  BY FS_EmptySet
<1>2. PICK g : AreSums(f, DOMAIN f, g) /\ Total(f) = g[DOMAIN f]
  BY <1>1, TotalIsSum
<1> QED BY <1>2 DEF AreSums, SumsOver

\* Only the values on the set count.
LEMMA SumsSame ==
  ASSUME NEW f, NEW h, NEW S, NEW g, AreSums(f, S, g), \A x \in S : f[x] = h[x]
  PROVE  AreSums(h, S, g)
<1>1. \A s \in SUBSET S :
        (IF s = {} THEN 0
         ELSE LET x == CHOOSE x \in s : TRUE IN f[x] + g[s \ {x}])
        = (IF s = {} THEN 0
           ELSE LET x == CHOOSE x \in s : TRUE IN h[x] + g[s \ {x}])
  <2> SUFFICES ASSUME NEW s \in SUBSET S, s # {}
               PROVE  f[CHOOSE x \in s : TRUE] = h[CHOOSE x \in s : TRUE]
    OBVIOUS
  <2>1. (CHOOSE x \in s : TRUE) \in s
    OBVIOUS
  <2> QED BY <2>1
<1>2. SumsOver(f, S, g) = SumsOver(h, S, g)
  BY <1>1 DEF SumsOver
<1> QED BY <1>2 DEF AreSums

\* Any member may be taken out first.
LEMMA SumsRemove ==
  ASSUME NEW f, NEW S, IsFiniteSet(S), \A x \in S : f[x] \in Nat,
         NEW g, AreSums(f, S, g), NEW s \in SUBSET S, NEW y \in s
  PROVE  g[s] = f[y] + g[s \ {y}]
<1> DEFINE Bad == {u \in SUBSET S : \E x \in u : g[u] # f[x] + g[u \ {x}]}
<1>1. SUFFICES ASSUME Bad # {} PROVE FALSE
  OBVIOUS
<1>2. PICK u \in Bad : \A v \in SUBSET u : v # u => v \notin Bad
  <2>1. Bad \in SUBSET SUBSET S
    OBVIOUS
  <2> HIDE DEF Bad
  <2> QED BY <1>1, <2>1, SmallestSubset
<1>3. PICK x \in u : g[u] # f[x] + g[u \ {x}]
  BY <1>2
<1> DEFINE c == CHOOSE z \in u : TRUE
<1>4. c \in u /\ g[u] = f[c] + g[u \ {c}]
  BY <1>2, <1>3 DEF AreSums, SumsOver
<1> HIDE DEF c
<1>5. c # x
  BY <1>3, <1>4
<1>6. /\ u \ {c} \in SUBSET u /\ u \ {c} # u /\ x \in u \ {c}
      /\ u \ {x} \in SUBSET u /\ u \ {x} # u /\ c \in u \ {x}
      /\ (u \ {c}) \ {x} = (u \ {x}) \ {c}
      /\ u \ {c} \in SUBSET S /\ u \ {x} \in SUBSET S
  BY <1>2, <1>4, <1>5
<1>7. g[u \ {c}] = f[x] + g[(u \ {c}) \ {x}] /\ g[u \ {x}] = f[c] + g[(u \ {x}) \ {c}]
  BY <1>2, <1>6
<1>8. f[x] \in Nat /\ f[c] \in Nat /\ g[(u \ {c}) \ {x}] \in Nat
  <2>1. g \in [SUBSET S -> Nat]
    BY SumsAreNat
  <2>2. (u \ {c}) \ {x} \in SUBSET S /\ x \in S /\ c \in S
    BY <1>2, <1>4
  <2> QED BY <2>1, <2>2
<1> DEFINE w == (u \ {c}) \ {x}
<1>9. g[u \ {c}] = f[x] + g[w] /\ g[u \ {x}] = f[c] + g[w] /\ g[w] \in Nat
  BY <1>6, <1>7, <1>8
<1> HIDE DEF w, Bad
<1> QED BY <1>3, <1>4, <1>8, <1>9

----------------------------------------------------------------------------
(* The sum of f over a set S of its arguments, and of the rows of a table.  *)

\* The sum of f over S
SumOf(f, S) == Total([x \in S |-> f[x]])

\* It is a natural number.
LEMMA SumOfType ==
  ASSUME NEW f, NEW S, IsFiniteSet(S), \A x \in S : f[x] \in Nat
  PROVE  SumOf(f, S) \in Nat
BY TotalType DEF SumOf

\* Over no elements it is 0.
LEMMA SumOfNone == ASSUME NEW f PROVE SumOf(f, {}) = 0
BY TotalOfNone DEF SumOf

\* Only the values on the set count.
LEMMA SumOfSame ==
  ASSUME NEW f, NEW h, NEW S, \A x \in S : f[x] = h[x]
  PROVE  SumOf(f, S) = SumOf(h, S)
<1>1. [x \in S |-> f[x]] = [x \in S |-> h[x]]
  OBVIOUS
<1> QED BY <1>1 DEF SumOf

\* An element contributes its value.
LEMMA SumOfRemoved ==
  ASSUME NEW f, NEW S, IsFiniteSet(S), \A x \in S : f[x] \in Nat, NEW y \in S
  PROVE  SumOf(f, S) = f[y] + SumOf(f, S \ {y})
<1> DEFINE W == S \ {y}
           a == [x \in S |-> f[x]]
           b == [x \in W |-> f[x]]
<1>1. IsFiniteSet(W)
  BY FS_Subset
<1>2. /\ DOMAIN a = S /\ DOMAIN b = W /\ \A x \in S : a[x] = f[x] /\ a[x] \in Nat
      /\ \A x \in W : b[x] = a[x]
  OBVIOUS
<1> HIDE DEF a, b
<1>3. PICK g : AreSums(a, S, g) /\ Total(a) = g[S]
  BY <1>2, TotalIsSum
<1>4. PICK h : AreSums(b, W, h) /\ Total(b) = h[W]
  BY <1>1, <1>2, TotalIsSum
<1>5. AreSums(a, W, h)
  BY <1>2, <1>4, SumsSame
<1>6. g[W] = h[W]
  <2>1. W \in SUBSET (S \cap W)
    OBVIOUS
  <2> HIDE DEF W
  <2> QED BY <1>1, <1>3, <1>5, <2>1, SumsUnique
<1>7. g[S] = a[y] + g[S \ {y}]
  <2>1. S \in SUBSET S
    OBVIOUS
  <2> QED BY <1>2, <1>3, <2>1, SumsRemove
<1> QED BY <1>2, <1>3, <1>4, <1>6, <1>7 DEF SumOf, a, b

\* The cells B of row k
Row(k, B) == {<<k, i>> : i \in B}

\* A row is finite, and its elements are pairs.
LEMMA RowFinite ==
  ASSUME NEW B, IsFiniteSet(B), NEW k PROVE IsFiniteSet(Row(k, B))
<1> DEFINE T == Row(k, B)
           pair == [i \in B |-> <<k, i>>]
<1>1. pair \in Surjection(B, T)
  BY DEF Surjection, Row
<1> HIDE DEF T, pair
<1>2. IsFiniteSet(T)
  BY <1>1, FS_Surjection
<1> QED BY <1>2 DEF T

\* One row more, B of row k, whose values are those of h.
LEMMA SumOfRow ==
  ASSUME NEW f, NEW A, IsFiniteSet(A), NEW B, IsFiniteSet(B), NEW k, NEW h,
         \A i \in B : <<k, i>> \notin A /\ f[<<k, i>>] = h[i] /\ h[i] \in Nat,
         \A x \in A : f[x] \in Nat
  PROVE  SumOf(f, A \cup Row(k, B)) = SumOf(f, A) + SumOf(h, B)
<1> DEFINE With(C) == A \cup Row(k, C)
           Bad == {C \in SUBSET B : SumOf(f, With(C)) # SumOf(f, A) + SumOf(h, C)}
<1>1. SUFFICES ASSUME Bad # {} PROVE FALSE
  <2>1. B \notin Bad => SumOf(f, With(B)) = SumOf(f, A) + SumOf(h, B)
    OBVIOUS
  <2> HIDE DEF Bad
  <2>2. Bad = {} \/ Bad # {}
    OBVIOUS
  <2> QED BY <2>1, <2>2
<1>2. PICK C \in Bad : \A u \in SUBSET C : u # C => u \notin Bad
  <2>1. Bad \in SUBSET SUBSET B
    OBVIOUS
  <2> HIDE DEF Bad
  <2> QED BY <1>1, <2>1, SmallestSubset
<1>3. C \in SUBSET B /\ SumOf(f, With(C)) # SumOf(f, A) + SumOf(h, C)
  BY <1>2
<1>4. SumOf(f, A) \in Nat
  BY SumOfType
<1>5. C # {}
  <2>1. With({}) = A
    BY DEF Row
  <2>2. SumOf(h, {}) = 0
    BY SumOfNone
  <2> HIDE DEF With, Bad
  <2> QED BY <1>3, <1>4, <2>1, <2>2
<1>6. PICK y \in C : TRUE
  BY <1>5
<1> DEFINE W == C \ {y}
<1>7. SumOf(f, With(W)) = SumOf(f, A) + SumOf(h, W)
  <2>1. W \in SUBSET C /\ W # C /\ W \in SUBSET B
    BY <1>3, <1>6
  <2>2. W \notin Bad
    BY <1>2, <2>1
  <2> QED BY <2>1, <2>2
<1>8. IsFiniteSet(C) /\ IsFiniteSet(W)
  BY <1>3, FS_Subset
<1>9. IsFiniteSet(With(C))
  <2>1. IsFiniteSet(Row(k, C))
    BY <1>8, RowFinite
  <2> QED BY <2>1, FS_Union
<1>10. SumOf(h, C) = h[y] + SumOf(h, W) /\ h[y] \in Nat
  <2>1. \A x \in C : h[x] \in Nat
    BY <1>3
  <2> HIDE DEF Bad
  <2> QED BY <1>6, <1>8, <2>1, SumOfRemoved
<1>11. SumOf(f, With(C)) = f[<<k, y>>] + SumOf(f, With(C) \ {<<k, y>>})
  <2>1. <<k, y>> \in With(C) /\ \A x \in With(C) : f[x] \in Nat
    BY <1>3, <1>6 DEF Row
  <2> HIDE DEF With
  <2> QED BY <1>9, <2>1, SumOfRemoved
<1>12. With(C) \ {<<k, y>>} = With(W)
  BY <1>3, <1>6 DEF Row
<1>13. SumOf(h, W) \in Nat
  BY <1>3, <1>8, SumOfType
<1>14. f[<<k, y>>] = h[y]
  BY <1>3, <1>6
<1> HIDE DEF With, W, Bad
<1> QED BY <1>3, <1>4, <1>7, <1>10, <1>11, <1>12, <1>13, <1>14

\* The cells of the rows in S, of which row k has those in R[k]
Cells(S, R) == UNION {Row(k, R[k]) : k \in S}

\* Finitely many finite rows have finitely many cells.
LEMMA CellsFinite ==
  ASSUME NEW S, IsFiniteSet(S), NEW R, \A k \in S : IsFiniteSet(R[k])
  PROVE  IsFiniteSet(Cells(S, R))
<1> DEFINE row == [k \in S |-> Row(k, R[k])]
           rows == {row[k] : k \in S}
<1>1. row \in Surjection(S, rows)
  BY DEF Surjection
<1>2. IsFiniteSet(rows)
  <2> HIDE DEF row, rows
  <2> QED BY <1>1, FS_Surjection
<1>3. \A T \in rows : IsFiniteSet(T)
  BY RowFinite
<1>4. Cells(S, R) = UNION rows
  BY DEF Cells
<1> HIDE DEF rows
<1> QED BY <1>2, <1>3, <1>4, FS_UNION

\* The sum of a table is the sum of the sums of its rows.
LEMMA SumOfRows ==
  ASSUME NEW S, IsFiniteSet(S), NEW R, \A k \in S : IsFiniteSet(R[k]),
         NEW f, \A k \in S : \A i \in R[k] : f[<<k, i>>] \in Nat,
         NEW t, \A k \in S : t[k] = Total([i \in R[k] |-> f[<<k, i>>]])
  PROVE  SumOf(f, Cells(S, R)) = SumOf(t, S)
<1> DEFINE Bad == {T \in SUBSET S : SumOf(f, Cells(T, R)) # SumOf(t, T)}
<1>1. SUFFICES ASSUME Bad # {} PROVE FALSE
  <2>1. S \notin Bad => SumOf(f, Cells(S, R)) = SumOf(t, S)
    OBVIOUS
  <2> HIDE DEF Bad
  <2>2. Bad = {} \/ Bad # {}
    OBVIOUS
  <2> QED BY <2>1, <2>2
<1>2. PICK T \in Bad : \A u \in SUBSET T : u # T => u \notin Bad
  <2>1. Bad \in SUBSET SUBSET S
    OBVIOUS
  <2> HIDE DEF Bad
  <2> QED BY <1>1, <2>1, SmallestSubset
<1>3. T \in SUBSET S /\ SumOf(f, Cells(T, R)) # SumOf(t, T)
  BY <1>2
<1>4. T # {}
  <2>1. Cells({}, R) = {}
    BY DEF Cells
  <2>2. SumOf(f, {}) = 0 /\ SumOf(t, {}) = 0
    BY SumOfNone
  <2> HIDE DEF Bad
  <2> QED BY <1>3, <2>1, <2>2
<1>5. PICK k \in T : TRUE
  BY <1>4
<1> DEFINE U == T \ {k}
           h == [i \in R[k] |-> f[<<k, i>>]]
<1>6. SumOf(f, Cells(U, R)) = SumOf(t, U)
  <2>1. U \in SUBSET T /\ U # T /\ U \in SUBSET S
    BY <1>3, <1>5
  <2>2. U \notin Bad
    BY <1>2, <2>1
  <2> QED BY <2>1, <2>2
<1>7. IsFiniteSet(T) /\ IsFiniteSet(U) /\ IsFiniteSet(Cells(U, R))
  <2>1. IsFiniteSet(T) /\ IsFiniteSet(U)
    BY <1>3, FS_Subset
  <2>2. \A j \in U : IsFiniteSet(R[j])
    BY <1>3
  <2> QED BY <2>1, <2>2, CellsFinite
<1>8. Cells(T, R) = Cells(U, R) \cup Row(k, R[k])
  BY <1>5 DEF Cells
<1>9. /\ \A i \in R[k] : <<k, i>> \notin Cells(U, R) /\ f[<<k, i>>] = h[i] /\ h[i] \in Nat
      /\ \A x \in Cells(U, R) : f[x] \in Nat
      /\ IsFiniteSet(R[k])
  BY <1>3, <1>5 DEF Cells, Row
<1>10. SumOf(f, Cells(T, R)) = SumOf(f, Cells(U, R)) + SumOf(h, R[k])
  <2> HIDE DEF h, U, Bad
  <2> QED BY <1>7, <1>8, <1>9, SumOfRow
<1>11. SumOf(h, R[k]) = t[k]
  <2>1. [i \in R[k] |-> h[i]] = h
    OBVIOUS
  <2> QED BY <1>3, <1>5, <2>1 DEF SumOf
<1>12. \A j \in T : t[j] \in Nat
  <2> SUFFICES ASSUME NEW j \in T PROVE t[j] \in Nat
    OBVIOUS
  <2> DEFINE c == [i \in R[j] |-> f[<<j, i>>]]
  <2>1. IsFiniteSet(R[j]) /\ DOMAIN c = R[j] /\ \A i \in R[j] : c[i] \in Nat
    BY <1>3
  <2>2. t[j] = Total(c)
    BY <1>3
  <2> HIDE DEF c
  <2> QED BY <2>1, <2>2, TotalType
<1>13. SumOf(t, T) = t[k] + SumOf(t, U) /\ SumOf(t, U) \in Nat /\ t[k] \in Nat
  <2>1. SumOf(t, T) = t[k] + SumOf(t, T \ {k})
    BY <1>5, <1>7, <1>12, SumOfRemoved
  <2>2. SumOf(t, U) \in Nat
    BY <1>7, <1>12, SumOfType
  <2> QED BY <1>5, <1>12, <2>1, <2>2
<1> HIDE DEF U, h, Bad
<1> QED BY <1>3, <1>6, <1>10, <1>11, <1>13

\* A set has as many members as ones add up to.
LEMMA SumOfOnes ==
  ASSUME NEW S, IsFiniteSet(S), NEW f, \A x \in S : f[x] = 1
  PROVE  SumOf(f, S) = Cardinality(S)
<1> DEFINE Bad == {T \in SUBSET S : SumOf(f, T) # Cardinality(T)}
<1>1. SUFFICES ASSUME Bad # {} PROVE FALSE
  <2>1. S \notin Bad => SumOf(f, S) = Cardinality(S)
    OBVIOUS
  <2> HIDE DEF Bad
  <2>2. Bad = {} \/ Bad # {}
    OBVIOUS
  <2> QED BY <2>1, <2>2
<1>2. PICK T \in Bad : \A u \in SUBSET T : u # T => u \notin Bad
  <2>1. Bad \in SUBSET SUBSET S
    OBVIOUS
  <2> HIDE DEF Bad
  <2> QED BY <1>1, <2>1, SmallestSubset
<1>3. T \in SUBSET S /\ SumOf(f, T) # Cardinality(T) /\ IsFiniteSet(T)
  BY <1>2, FS_Subset
<1>4. T # {}
  BY <1>3, SumOfNone, FS_EmptySet
<1>5. PICK k \in T : TRUE
  BY <1>4
<1>6. SumOf(f, T \ {k}) = Cardinality(T \ {k})
  BY <1>2, <1>3, <1>5
<1>7. SumOf(f, T) = f[k] + SumOf(f, T \ {k}) /\ f[k] = 1
  <2>1. \A x \in T : f[x] = 1 /\ f[x] \in Nat
    BY <1>3
  <2> QED BY <1>3, <1>5, <2>1, SumOfRemoved
<1>8. Cardinality(T \ {k}) = Cardinality(T) - 1 /\ Cardinality(T) \in Nat
  BY <1>3, <1>5, FS_RemoveElement, FS_CardinalityType
<1> QED BY <1>3, <1>6, <1>7, <1>8

----------------------------------------------------------------------------
(* Selection, and the types of what the operators give.                    *)

\* A best member exists, and FirstBest is one.
LEMMA FirstBestIsBest ==
  ASSUME NEW S \in SUBSET Nat, IsFiniteSet(S), S # {},
         NEW score, \A j \in S : score[j] \in Nat
  PROVE  /\ FirstBest(S, score) \in S
         /\ \A j \in S : score[j] <= score[FirstBest(S, score)]
<1> DEFINE Better(i, j) == score[j] < score[i] \/ (score[j] = score[i] /\ i <= j)
           Bad == {T \in SUBSET S : T # {} /\ ~ \E i \in T : \A j \in T : Better(i, j)}
<1>1. ASSUME Bad # {} PROVE FALSE
  <2>1. PICK T \in Bad : \A U \in SUBSET T : U # T => U \notin Bad
    <3>1. Bad \in SUBSET SUBSET S
      OBVIOUS
    <3> HIDE DEF Bad
    <3> QED BY <1>1, <3>1, SmallestSubset
  <2>2. PICK x \in T : TRUE
    BY <2>1
  <2>3. T \ {x} \notin Bad /\ T \ {x} \in SUBSET S
    BY <2>1, <2>2
  <2>4. \A j \in T : j \in Nat /\ score[j] \in Nat
    BY <2>1
  <2>5. Better(x, x)
    BY <2>2, <2>4
  <2>6. T \ {x} # {}
    BY <2>1, <2>2, <2>5
  <2>7. PICK i \in T \ {x} : \A j \in T \ {x} : Better(i, j)
    BY <2>3, <2>6
  <2>8. CASE Better(i, x)
    <3>1. \A j \in T : Better(i, j)
      BY <2>7, <2>8
    <3> QED BY <3>1, <2>1
  <2>9. CASE ~Better(i, x)
    <3>1. \A j \in T : Better(x, j)
      BY <2>2, <2>4, <2>7, <2>9
    <3> QED BY <3>1, <2>1, <2>2
  <2> QED BY <2>8, <2>9
<1>2. \E i \in S : \A j \in S : Better(i, j)
  BY <1>1
<1>3. PICK b : b = FirstBest(S, score)
  OBVIOUS
<1>4. b \in S /\ \A j \in S : Better(b, j)
  BY <1>2, <1>3 DEF FirstBest
<1>5. \A j \in S : j \in Nat /\ score[j] \in Nat
  OBVIOUS
<1> QED BY <1>3, <1>4, <1>5

\* What is selected by score has the best score.
LEMMA SelectIsBest ==
  ASSUME NEW n \in Nat, n # 0, NEW scores, DOMAIN scores = 1..n,
         \A j \in 1..n : scores[j] \in Nat
  PROVE  /\ Select(scores) \in 1..n
         /\ \A j \in 1..n : scores[j] <= scores[Select(scores)]
<1>1. 1..n \in SUBSET Nat /\ 1 \in 1..n
  OBVIOUS
<1>2. IsFiniteSet(1..n)
  BY FS_Interval
<1> QED BY <1>1, <1>2, FirstBestIsBest DEF Select

\* A sequence has a finite domain and elements of its set.
LEMMA FiniteDomain ==
  ASSUME NEW S, NEW s \in Seq(S)
  PROVE  IsFiniteSet(DOMAIN s) /\ \A i \in DOMAIN s : s[i] \in S
<1>1. PICK n \in Nat : n = Len(s) /\ DOMAIN s = 1..n
  OBVIOUS
<1>2. IsFiniteSet(1..n)
  BY FS_Interval
<1> QED BY <1>1, <1>2

\* A cost is a natural number, or not known.
LEMMA TotalKnownType ==
  ASSUME NEW f, IsFiniteSet(DOMAIN f), \A x \in DOMAIN f : f[x] \in Nat \cup {None}
  PROVE  TotalKnown(f) \in Nat \cup {None}
<1> DEFINE reported == {i \in DOMAIN f : f[i] # None}
<1>1. IsFiniteSet(reported)
  BY FS_Subset
<1>2. DOMAIN Restrict(f, reported) = reported
      /\ \A x \in reported : Restrict(f, reported)[x] \in Nat
  BY DEF Restrict
<1>3. Total(Restrict(f, reported)) \in Nat
  BY <1>1, <1>2, TotalType
<1> QED BY <1>3 DEF TotalKnown

\* The budget of a composition
LEMMA CompositionBudgetType ==
  ASSUME NEW rs \in Seq(Runs), NEW c \in Nat
  PROVE  CompositionBudget(rs, c) \in Budgets
<1>1. IsFiniteSet(DOMAIN rs) /\ \A i \in DOMAIN rs : rs[i] \in Runs
  BY FiniteDomain
<1>2. Total([i \in DOMAIN rs |-> rs[i].calls]) \in Nat
  BY <1>1, TotalType DEF Runs
<1>3. TotalKnown([i \in DOMAIN rs |-> rs[i].cost]) \in Nat \cup {None}
  BY <1>1, TotalKnownType DEF Runs
<1> QED BY <1>2, <1>3 DEF CompositionBudget, Budgets

\* The budget of a pipeline
LEMMA PipelineBudgetType ==
  ASSUME NEW ss \in Seq(StepResults)
  PROVE  PipelineBudget(ss) \in Budgets /\ CallsOf(ss) \in Nat
<1>1. IsFiniteSet(DOMAIN ss) /\ \A k \in DOMAIN ss : ss[k] \in StepResults
  BY FiniteDomain
<1>0. \A k \in DOMAIN ss : ss[k].budget \in Budgets
  BY <1>1 DEF StepResults
<1>2. /\ Total([k \in DOMAIN ss |-> ss[k].budget.calls]) \in Nat
      /\ Total([k \in DOMAIN ss |-> ss[k].budget.rescored]) \in Nat
      /\ Total([k \in DOMAIN ss |-> ss[k].budget.heldout]) \in Nat
  BY <1>0, <1>1, TotalType DEF Budgets
<1>3. TotalKnown([k \in DOMAIN ss |-> ss[k].budget.cost]) \in Nat \cup {None}
  BY <1>0, <1>1, TotalKnownType DEF Budgets
<1> QED BY <1>2, <1>3 DEF PipelineBudget, CallsOf, Budgets

\* The seed of a call is a candidate.
LEMMA SeedType == Seed \in Candidates
BY CompositionAssumption DEF Seed, Candidates

\* A result is one.
LEMMA FinishedType ==
  ASSUME NEW best \in Candidates, NEW final \in Candidates,
         NEW ss \in Seq(StepResults), NEW budget \in Budgets,
         composition \in Compositions
  PROVE  Finished(best, final, ss, budget) \in Results
<1>1. composition.tests \in Nat
  BY CompositionAssumption
<1>2. Heldout(final) \in Nat
  BY <1>1 DEF Heldout
<1>3. [budget EXCEPT !.heldout = Heldout(final)] \in Budgets
  BY <1>2 DEF Budgets
<1> QED BY <1>3 DEF Finished, Results

\* The run that is chosen is one of the step's.
LEMMA ChosenRun ==
  ASSUME runs \in Seq(Runs), runs # <<>>, selected \in 0..Len(runs)
  PROVE  Best \in DOMAIN runs
<1>1. DOMAIN runs = 1..Len(runs) /\ Len(runs) \in Nat \ {0}
  BY EmptySeq
<1>2. \A j \in 1..Len(runs) : runs[j] \in Runs
  OBVIOUS
<1>4. \A j \in 1..Len(runs) : runs[j].score \in Nat
  BY <1>2 DEF Runs
<1>3. Select([i \in DOMAIN runs |-> runs[i].score]) \in 1..Len(runs)
  BY <1>1, <1>4, SelectIsBest
<1> QED BY <1>1, <1>3 DEF Best

\* The result of a step is one.
LEMMA StepResultType ==
  ASSUME runs \in Seq(Runs), runs # <<>>, selected \in 0..Len(runs),
         step \in Steps, rescored \in Nat
  PROVE  /\ StepResult \in StepResults
         /\ StepResult.output \in Candidates
<1>1. Best \in DOMAIN runs /\ runs[Best] \in Runs
  BY ChosenRun
<1>2. runs[Best].id \in Ids /\ runs[Best].output \in Candidates
  BY <1>1 DEF Runs
<1>3. CompositionBudget(runs, rescored) \in Budgets
  BY CompositionBudgetType
<1>4. runs[1].input \in Candidates
  <2>1. 1 \in DOMAIN runs
    BY EmptySeq
  <2>2. runs[1] \in Runs
    BY <2>1
  <2> QED BY <2>2 DEF Runs
<1> QED BY <1>2, <1>3, <1>4 DEF StepResult, StepResults

\* What appending does to a sequence
LEMMA AppendFacts ==
  ASSUME NEW S, NEW q \in Seq(S), NEW x \in S
  PROVE  /\ DOMAIN Append(q, x) = DOMAIN q \cup {Len(q) + 1}
         /\ Len(q) + 1 \notin DOMAIN q /\ Append(q, x)[Len(q) + 1] = x
         /\ \A m \in DOMAIN q : Append(q, x)[m] = q[m]
         /\ Append(q, x) \in Seq(S) /\ Len(Append(q, x)) = Len(q) + 1
OBVIOUS

\* What replacing an element does to a sequence
LEMMA UpdateFacts ==
  ASSUME NEW S, NEW q \in Seq(S), NEW i \in DOMAIN q, NEW x \in S,
         NEW r, r = [j \in DOMAIN q |-> IF j = i THEN x ELSE q[j]]
  PROVE  /\ r \in Seq(S) /\ DOMAIN r = DOMAIN q /\ r[i] = x
         /\ \A j \in DOMAIN q \ {i} : r[j] = q[j]
OBVIOUS

----------------------------------------------------------------------------
(* The inductive invariant.                                                *)

\* Where the directory is claimed, a step is under way, and where the call is over
InTry == {"prepared", "stepping", "executing", "resolving", "recording",
          "saving", "closing"}
InSteps == {"stepping", "executing", "resolving", "recording"}
InStep == {"executing", "resolving", "recording"}
Over == {"saving", "closing", "announcing", "reporting"}

\* Where a call can be
Places ==
  {"down", "preparing", "claiming", "beginning", "prepared", "stepping",
   "executing", "resolving", "recording", "saving", "closing", "announcing",
   "reporting", "handling", "raising", "ended"}

\* The types of what a call holds and of the directory
CallType ==
  /\ composition \in Compositions /\ pc \in Places
  /\ config \in Configs \cup {None} /\ held \in RunState \cup {None}
  /\ steps \in Seq(StepResults) /\ candidate \in Candidates \cup {None}
  /\ result \in Results \cup {None} /\ answer \in Results \cup {None}
  /\ failure \in Failures \cup {None} /\ outcome \in {None, "returned", "raised"}
  /\ terminals \subseteq {"run.completed", "run.failed", "run.cancelled"}
  /\ spoiled \in BOOLEAN /\ owned \in BOOLEAN
  /\ savedState \in RunState \cup {None} /\ savedResult \in Results \cup {None}

\* Where the call is, its locals are there.
CallInvariant ==
  /\ pc # "down" => config \in Configs
  /\ Durable /\ pc \in InTry => held \in RunState
  /\ pc \in InSteps => candidate \in Candidates
  /\ pc \in Over => result \in Results
  /\ ~Durable => /\ pc \notin {"claiming", "beginning", "prepared", "saving", "closing"}
                 /\ ~owned /\ savedState = None /\ savedResult = None

\* What the tracker knows of an invocation
Invocations ==
  [engine: Engines, run: Nat, input: Candidates, parent: Ids \cup {None},
   state: Tracker!States, raw: RawResults \cup {None}]

\* Outside of a step there is no tracker.
Idle ==
  /\ step = 0 /\ seed = None /\ parent = None /\ invocations = <<>>
  /\ active = None /\ pending = None /\ completed = {}
  /\ known = None /\ producers = None
  /\ results = <<>> /\ runs = <<>> /\ selected = 0 /\ rescored = 0

\* In a step the tracker is that of the step after those recorded, and seeded
\* with the active candidate.
StepInvariant ==
  /\ pc \notin InStep => Idle
  /\ pc \in InStep =>
       /\ step = Len(steps) + 1 /\ step <= Len(composition.steps)
       /\ seed = candidate /\ parent = candidate.id
       /\ active \in [Engines -> Nat]
       /\ pending \in [Engines -> Seq(Nat)]
       /\ results \in Seq(Nat) /\ runs \in Seq(Runs)
       /\ rescored \in Nat
  /\ pc = "executing" => results = <<>> /\ runs = <<>>
  /\ pc # "recording" => selected = 0

\* The engines of a step.  An engine that runs is in the invocation it was
\* started for; slices run one at a time.
EngineInvariant ==
  pc \in InStep =>
    /\ \A i \in Tracker!Numbers :
         invocations[i].state = "running" => active[invocations[i].engine] = i
    /\ pc # "executing" => Tracker!Running = {}
    /\ pc = "executing" /\ Kind = "adaptive" =>
       \A e \in Engines : active[e] # 0 =>
         /\ active[e] \in Tracker!Numbers
         /\ invocations[active[e]].engine = e
         /\ invocations[active[e]].state \in {"running", "broken"}
         /\ invocations[active[e]].state = "running" =>
              \A d \in Engines \ {e} : active[d] = 0
         /\ invocations[active[e]].state = "broken" => Tracker!Running = {}

\* V is a list of invocations, C the pairs of a completed result and its
\* invocation, K and P what is known of values and of who made them, s the
\* step and sd its seed.

\* The invocations of engine e, and the id and the output of invocation i
Of(V, e) == {i \in DOMAIN V : V[i].engine = e}
IdAt(s, V, i) == <<s, V[i].engine, V[i].run>>
OutputAt(s, V, o, i) == [value |-> V[o].raw.value, id |-> IdAt(s, V, i)]

\* The id of an invocation is its own.
Distinct(V) ==
  /\ \A i \in DOMAIN V : V[i].run < Cardinality(Of(V, V[i].engine))
  /\ \A i, j \in DOMAIN V :
       i # j => V[i].engine # V[j].engine \/ V[i].run # V[j].run

\* A completed result belongs to one invocation and an invocation to one
\* result, and the result is there.
Matched(V, C) ==
  \A p \in C :
    /\ p[1] \in DOMAIN V /\ p[2] \in DOMAIN V
    /\ V[p[1]].raw # None
    /\ V[p[2]].state \in {"completed", "broken"}
    /\ \A q \in C : p[1] = q[1] <=> p[2] = q[2]

\* What is known of a value was made by a completed invocation or is the seed.
Known(s, sd, V, C, K, P) ==
  \A v \in Values :
    \/ P[v] = None /\ K[v] = IF v = sd.value THEN sd ELSE None
    \/ \E p \in C : /\ V[p[1]].raw.value = v
                   /\ P[v] = IdAt(s, V, p[2])
                   /\ K[v] = OutputAt(s, V, p[1], p[2])

\* What an invocation was given is the seed or the output of another one, and
\* its parent says which.
Lineage(s, sd, V, C) ==
  \A i \in DOMAIN V :
    \/ V[i].input.id \in {None, sd.id} /\ V[i].parent = sd.id
    \/ \E p \in C : /\ p[2] # i
                   /\ V[i].parent = IdAt(s, V, p[2])
                   /\ V[i].input = OutputAt(s, V, p[1], p[2])

\* All of it, with the types
Books(s, sd, V, C, K, P) ==
  /\ s \in Steps /\ sd \in Candidates
  /\ V \in Seq(Invocations) /\ C \in SUBSET (Nat \X Nat)
  /\ K \in [Values -> Candidates \cup {None}]
  /\ P \in [Values -> Ids \cup {None}]
  /\ Distinct(V) /\ Matched(V, C) /\ Known(s, sd, V, C, K, P)
  /\ Lineage(s, sd, V, C)

\* In a step the tracker's books are in order.
BooksInvariant ==
  pc \in InStep => Books(step, seed, invocations, completed, known, producers)

\* While engines run a result is that of the invocation that made it.
CompletedInvariant ==
  pc = "executing" =>
    /\ \A p \in completed : p[1] = p[2]
    /\ \A i \in Tracker!Numbers :
         /\ invocations[i].state = "completed" => <<i, i>> \in completed
         /\ invocations[i].state \in {"completed", "deferred"} => invocations[i].raw # None

\* Invocations whose result is pending are not completed.
PendingInvariant ==
  pc \in InStep =>
    \A e \in Engines : \A k \in DOMAIN pending[e] :
      /\ pending[e][k] \in Tracker!Numbers
      /\ invocations[pending[e][k]].engine = e
      /\ invocations[pending[e][k]].state = "deferred"
      /\ \A l \in DOMAIN pending[e] : pending[e][k] = pending[e][l] => k = l

\* The run of the result named o, that belongs to invocation i
RunAt(o, i) ==
  [id |-> IdAt(step, invocations, i), parent |-> invocations[i].parent,
   input |-> invocations[i].input, output |-> OutputAt(step, invocations, o, i),
   score |-> invocations[o].raw.score, calls |-> invocations[o].raw.calls,
   cost |-> invocations[o].raw.cost]

\* Results are resolved in the order of the list, and nothing but results is.
ResultsInvariant ==
  pc \in InStep \ {"executing"} =>
    /\ results # <<>> /\ Len(runs) <= Len(results)
    /\ \A k \in DOMAIN results :
         /\ results[k] \in Tracker!Numbers
         /\ invocations[results[k]].raw # None
         /\ \A l \in DOMAIN results : results[k] = results[l] => k = l
    /\ \A k \in DOMAIN runs :
         \E p \in completed : p[1] = results[k] /\ runs[k] = RunAt(p[1], p[2])
    /\ \A p \in completed : \E k \in DOMAIN results : p[1] = results[k]

\* Siblings and engines one after the other run once each, so none of their
\* results goes to another invocation.
SiblingInvariant ==
  pc \in InStep /\ Kind # "adaptive" =>
    /\ \A i, j \in Tracker!Numbers :
         invocations[i].engine = invocations[j].engine => i = j
    /\ \A i \in Tracker!Numbers :
         /\ invocations[i].engine <= composition.steps[step].engines
         /\ Kind = "sequential" => invocations[i].engine = i
         /\ invocations[i].state = "deferred" =>
              pending[invocations[i].engine] = <<i>>
    /\ pc # "executing" =>
         /\ \A p \in completed : p[1] = p[2]
         /\ \A i \in Tracker!Numbers :
              /\ \E k \in DOMAIN results : results[k] = i
              /\ invocations[i].state \in {"completed", "broken", "deferred"}
              /\ invocations[i].state = "deferred" \/ <<i, i>> \in completed
         /\ \A k \in DOMAIN results : k <= Len(runs) =>
              invocations[results[k]].state # "deferred"

\* A step is selected by its scores, or by its votes.
SelectedInvariant ==
  pc = "recording" =>
    /\ selected \in 0..Len(runs)
    /\ Len(runs) = Len(results) /\ ~Tracker!Halted
    /\ Kind # "parallel" => selected # 0
    /\ Kind \notin {"parallel", "vote"} =>
         \A j \in DOMAIN runs : runs[j].score <= runs[selected].score

\* The outputs of the completed results
Outputs(s, V, C) == {OutputAt(s, V, p[1], p[2]) : p \in C}

\* Where the value of sd comes from: it is sd itself or was made since.
IsGiven(x, s, sd, V, C) == x.value = sd.value => x = sd \/ x \in Outputs(s, V, C)

\* What invocations were given.  Siblings are given the value of the step's
\* candidate and the first invocation the candidate itself; and the results are
\* listed in the order of the engines, or of the slices.
InputInvariant ==
  pc \in InStep =>
    /\ Kind \notin {"sequential", "adaptive"} =>
         \A i \in DOMAIN invocations : invocations[i].input.value = seed.value
    /\ \A i \in DOMAIN invocations :
         /\ i = 1 => invocations[i].input = seed
         /\ IsGiven(invocations[i].input, step, seed, invocations, completed)
    /\ pc # "executing" => \A k \in DOMAIN results :
         IF Kind = "adaptive" THEN results[k] = k
         ELSE invocations[results[k]].engine = k

\* A result that was whole precedes that of invocation n of the same engine.
Preceded(V, C, n) ==
  \E q \in C : q[1] = q[2] /\ q[1] < n /\ V[q[1]].engine = V[n].engine

\* The result of an invocation went to a later one of the same engine.
IsLate(V, C, p) ==
  p[2] > p[1] /\ V[p[2]].engine = V[p[1]].engine /\ Preceded(V, C, p[1])

\* Invocation n is in the queue of its engine.
IsPending(V, queue, n) == \E k \in DOMAIN queue[V[n].engine] : queue[V[n].engine][k] = n

\* Slices.  The queues are in the order of the slices and what is in one has a
\* result that is not resolved yet; so the result of a slice goes to the slice,
\* unless the slice was taken off when a whole one was resolved.
SliceInvariant ==
  pc \in InStep /\ Kind = "adaptive" =>
    /\ \A e \in Engines : \A k, l \in DOMAIN pending[e] :
         k < l => pending[e][k] < pending[e][l]
    /\ pc = "executing" =>
         \A i \in DOMAIN invocations :
           /\ invocations[i].state = "running" => i = Len(invocations)
           /\ invocations[i].state = "deferred" => IsPending(invocations, pending, i)
    /\ pc # "executing" =>
         /\ \A e \in Engines : \A k \in DOMAIN pending[e] : pending[e][k] > Len(runs)
         /\ \A p \in completed : p[1] = p[2] \/ IsLate(invocations, completed, p)
         /\ \A n \in DOMAIN results : n > Len(runs) =>
              \/ <<n, n>> \in completed \/ IsPending(invocations, pending, n)
              \/ Preceded(invocations, completed, n)

\* Where inputs come from and where results go
FlowInvariant == InputInvariant /\ SliceInvariant

\* All that holds of the tracker
TrackerInvariant ==
  /\ StepInvariant /\ EngineInvariant /\ BooksInvariant /\ CompletedInvariant
  /\ PendingInvariant /\ ResultsInvariant /\ SiblingInvariant /\ SelectedInvariant

\* The result of a pipeline whose steps are all recorded
ResultOf(ss) ==
  Finished(ss[Len(ss)].output, ss[Len(ss)].output, ss, PipelineBudget(ss))

\* Every step of the pipeline is recorded.
Complete(ss) == Len(ss) = Len(composition.steps)

\* The directory and the memory of the call that owns it.
MemoryInvariant ==
  Durable =>
    /\ pc = "prepared" => savedState # None /\ held = savedState
    /\ pc \in InSteps \cup {"saving", "closing"} =>
         /\ savedState # None /\ savedState.status # "completed"
         /\ composition.pipeline => steps = savedState.stages
    /\ pc \in InSteps /\ composition.pipeline => candidate = savedState.accepted
    /\ pc \in {"saving", "closing"} /\ composition.pipeline =>
         Complete(steps) /\ result = ResultOf(steps)
    /\ pc \in {"closing", "announcing", "reporting"} =>
         savedState # None /\ savedResult = result
    /\ pc \in {"announcing", "reporting"} => savedState.status = "completed"

\* The result of a pipeline is that of its recorded steps, and what a caller
\* was given is what is saved.
AnswerInvariant ==
  Durable =>
    /\ composition.pipeline /\ savedResult # None =>
         /\ savedState # None /\ Complete(savedState.stages)
         /\ savedResult = ResultOf(savedState.stages)
    /\ answer # None /\ (composition.pipeline \/ ~spoiled) =>
         /\ answer = savedResult
         /\ ~composition.pipeline =>
              savedState # None /\ savedState.status = "completed"

----------------------------------------------------------------------------
(* The call and the directory.                                             *)

\* What a step records has its type.
LEMMA RecordedType ==
  ASSUME CallType, CallInvariant, StepInvariant, ResultsInvariant,
         SelectedInvariant, pc = "recording"
  PROVE  StepResult \in StepResults /\ StepResult.output \in Candidates
<1>1. /\ runs \in Seq(Runs) /\ rescored \in Nat
      /\ step = Len(steps) + 1 /\ step <= Len(composition.steps)
  BY DEF StepInvariant, InStep
<1>2. Len(results) # 0
  <2>1. results # <<>> /\ results \in Seq(Nat)
    BY DEF ResultsInvariant, StepInvariant, InStep
  <2> QED BY <2>1, EmptySeq
<1>3. runs # <<>> /\ selected \in 0..Len(runs)
  BY <1>1, <1>2 DEF SelectedInvariant
<1>4. step \in Steps
  BY <1>1, CompositionAssumption DEF CallType, Steps
<1> QED BY <1>1, <1>3, <1>4, StepResultType

\* What is proved of the call and the directory
CallInv == CallType /\ CallInvariant

\* It holds at first.
LEMMA CallInitially == Init => CallInv
<1> SUFFICES ASSUME Init PROVE CallInv
  OBVIOUS
<1>1. <<>> \in Seq(StepResults)
  BY EmptySeq
<1> QED BY <1>1 DEF Init, Store!StoreInit, CallInv, CallType, CallInvariant,
                    Places, InTry, InSteps, Over

\* A checkpoint is a state of a run.
LEMMA CheckpointType ==
  ASSUME CallInv, TrackerInvariant, pc = "recording", Durable
  PROVE  Checkpoint(Append(steps, StepResult), StepResult.output) \in RunState
<1>1. StepResult \in StepResults /\ StepResult.output \in Candidates
  BY RecordedType DEF CallInv, TrackerInvariant
<1>2. Append(steps, StepResult) \in Seq(StepResults)
  BY <1>1 DEF CallInv, CallType
<1>3. held \in RunState
  BY DEF CallInv, CallInvariant, InTry
<1> QED BY <1>1, <1>2, <1>3, PipelineBudgetType DEF Checkpoint, RunState

\* Every step keeps the types and the locals of a call.
LEMMA CallStep ==
  ASSUME CallInv, TrackerInvariant, Next PROVE CallInv'
<1> USE DEF AtHome, progress, resolution, tracker, frame, ending, storeVars, history
<1>1. ASSUME NEW c \in Configs, StartCall(c) PROVE CallInv'
  BY <1>1 DEF CallInv, CallType, CallInvariant, StartCall, InTry, InSteps, Over,
     Places, Durable
<1>2. ASSUME RejectCall PROVE CallInv'
  BY <1>2 DEF CallInv, CallType, CallInvariant, RejectCall, InTry, InSteps, Over,
     Places, Durable
<1>3. ASSUME ClaimDirectory PROVE CallInv'
  BY <1>3 DEF CallInv, CallType, CallInvariant, ClaimDirectory, Store!Claim,
     InTry, InSteps, Over, Places, Durable
<1>4. ASSUME ResetDirectory PROVE CallInv'
  BY <1>4 DEF CallInv, CallType, CallInvariant, ResetDirectory, Store!Release,
     InTry, InSteps, Over, Places, Durable
<1>5. ASSUME BeginRun PROVE CallInv'
  <2>1. config \in Configs
    BY <1>5 DEF CallInv, CallInvariant, BeginRun
  <2>2. NewState \in RunState
    BY <2>1, SeedType, EmptySeq DEF NewState, RunState, Configs
  <2> QED BY <1>5, <2>1, <2>2 DEF CallInv, CallType, CallInvariant, BeginRun,
      Store!Begin, Failures, InTry, InSteps, Over, Places, Durable
<1>6. ASSUME ResumeRun PROVE CallInv'
  BY <1>6 DEF CallInv, CallType, CallInvariant, ResumeRun, InTry, InSteps, Over,
     Places, Durable
<1>7. ASSUME ReturnSaved PROVE CallInv'
  BY <1>7 DEF CallInv, CallType, CallInvariant, ReturnSaved, InTry, InSteps,
     Over, Places, Durable
<1>8. ASSUME BeginSteps PROVE CallInv'
  <2>1. Durable => held.stages \in Seq(StepResults) /\ held.accepted \in Candidates /\ held \in RunState
    BY <1>8 DEF CallInv, CallInvariant, BeginSteps, InTry, RunState
  <2>2. steps' \in Seq(StepResults) /\ candidate' \in Candidates
    BY <1>8, <2>1, SeedType, EmptySeq DEF BeginSteps
  <2>3. ~Durable => pc = "preparing"
    BY <1>8 DEF CallInv, CallInvariant, BeginSteps
  <2> QED BY <1>8, <2>1, <2>2, <2>3 DEF CallInv, CallType, CallInvariant,
      BeginSteps, InTry, InSteps, Over, Places, Durable
<1>9. ASSUME StartStep PROVE CallInv'
  BY <1>9 DEF CallInv, CallType, CallInvariant, StartStep, InTry, InSteps, Over,
     Places, Durable
<1>10. ASSUME \/ \E e \in Engines : RunEngine(e)
              \/ \E i \in Tracker!Numbers :
                   \/ EngineRaises(i)
                   \/ \E raw \in RawResults : EngineReturns(i, raw) \/ EngineExhausted(i, raw)
       PROVE  CallInv'
  <2>1. InExecute
    BY <1>10 DEF RunEngine, EngineRaises, EngineReturns, EngineExhausted
  <2> QED BY <2>1 DEF CallInv, CallType, CallInvariant, InExecute, Durable
<1>11. ASSUME ExecuteReturns \/ ResolveResult PROVE CallInv'
  <2>1. /\ pc \in {"executing", "resolving"} /\ pc' = "resolving"
        /\ UNCHANGED progress /\ AtHome
    BY <1>11 DEF ExecuteReturns, ResolveResult
  <2> QED BY <2>1 DEF CallInv, CallType, CallInvariant, InTry, InSteps, Over,
      Places, Durable
<1>22. ASSUME NEW votes \in [DOMAIN runs -> VoteScores], SelectRun(votes) PROVE CallInv'
  BY <1>22 DEF CallInv, CallType, CallInvariant, SelectRun, InTry, InSteps, Over,
     Places, Durable
<1>12. ASSUME RecordStep PROVE CallInv'
  <2>1. StepResult \in StepResults /\ StepResult.output \in Candidates
    BY <1>12, RecordedType DEF RecordStep, CallInv, TrackerInvariant
  <2>2. steps' \in Seq(StepResults) /\ candidate' \in Candidates
    BY <1>12, <2>1 DEF CallInv, CallType, RecordStep
  <2>4. Durable => Checkpoint(steps', candidate') \in RunState
    BY <1>12, CheckpointType DEF RecordStep
  <2>5. /\ pc = "recording" /\ pc' = "stepping"
        /\ UNCHANGED <<composition, config, held, result, failure, terminals, outcome, answer, spoiled, owned, savedResult>>
        /\ savedState' \in RunState \cup {None}
        /\ ~Durable => UNCHANGED savedState
    BY <1>12, <2>4 DEF CallInv, CallType, RecordStep, Store!SaveState
  <2> QED BY <2>2, <2>5 DEF CallInv, CallType, CallInvariant, InSteps, InTry,
      InSteps, Over, Places, Durable
<1>13. ASSUME FinishComposition PROVE CallInv'
  <2>1. StepResult \in StepResults /\ StepResult.output \in Candidates
    BY <1>13, RecordedType DEF FinishComposition, CallInv, TrackerInvariant
  <2>2. <<StepResult>> \in Seq(StepResults) /\ StepResult.budget \in Budgets
    BY <2>1 DEF StepResults
  <2>3. result' \in Results
    BY <1>13, <2>1, <2>2, SeedType, FinishedType DEF FinishComposition, CallInv,
       CallType
  <2> QED BY <1>13, <2>3 DEF CallInv, CallType, CallInvariant, FinishComposition,
      Finish, InTry, InSteps, Over, Places, Durable
<1>14. ASSUME FinishPipeline PROVE CallInv'
  <2>1. Len(steps) # 0 /\ Len(steps) \in Nat /\ steps \in Seq(StepResults)
    BY <1>14, CompositionAssumption DEF CallInv, CallType, FinishPipeline, Steps
  <2>2. steps[Len(steps)] \in StepResults
    BY <2>1
  <2>3. result' \in Results
    BY <1>14, <2>1, <2>2, PipelineBudgetType, FinishedType DEF FinishPipeline,
       CallInv, CallType, StepResults
  <2> QED BY <1>14, <2>3 DEF CallInv, CallType, CallInvariant, FinishPipeline,
      Finish, InTry, InSteps, Over, Places, Durable
<1>15. ASSUME SaveResult PROVE CallInv'
  BY <1>15 DEF CallInv, CallType, CallInvariant, SaveResult, Store!SaveResult,
     InTry, InSteps, Over, Places, Durable
<1>16. ASSUME CloseRun PROVE CallInv'
  <2>1. savedState \in RunState /\ result \in Results
    BY <1>16 DEF CallInv, CallType, CallInvariant, CloseRun, Store!SaveState, Over
  <2>2. result.best \in Candidates /\ result.budget.calls \in Nat
    BY <2>1 DEF Results, Budgets
  <2>3. Closed(savedState) \in RunState
    BY <2>1, <2>2 DEF Closed, RunState
  <2> QED BY <1>16, <2>3 DEF CallInv, CallType, CallInvariant, CloseRun,
      Store!SaveState, InTry, InSteps, Over, Places, Durable
<1>17. ASSUME Raise PROVE CallInv'
  BY <1>17 DEF CallInv, CallType, CallInvariant, Raise, Unwound, InTry, InSteps,
     Over, Places, Durable
<1>18. ASSUME RecordFailure PROVE CallInv'
  <2>1. savedState \in RunState => [savedState EXCEPT !.status = "failed"] \in RunState
    BY DEF RunState
  <2>2. \/ UNCHANGED savedState
        \/ Durable /\ savedState' \in RunState
    BY <1>18, <2>1 DEF RecordFailure, Store!SaveState, CallInv, CallType
  <2>3. UNCHANGED <<owned, savedResult>> /\ pc = "handling" /\ pc' \in {"raising", "ended"}
    BY <1>18 DEF RecordFailure, Store!SaveState
  <2>4. spoiled' \in BOOLEAN /\ outcome' \in {None, "returned", "raised"}
    BY <1>18 DEF RecordFailure, CallInv, CallType
  <2>5. UNCHANGED <<composition, config, held, steps, candidate, result, failure, terminals, answer>>
    BY <1>18 DEF RecordFailure
  <2> QED BY <2>2, <2>3, <2>4, <2>5 DEF CallInv, CallType, CallInvariant, InTry,
      InTry, InSteps, Over, Places, Durable
<1>19. ASSUME EndRaising PROVE CallInv'
  <2>1. terminals' \subseteq {"run.completed", "run.failed", "run.cancelled"}
    BY <1>19 DEF EndRaising, CallInv, CallType
  <2> QED BY <1>19, <2>1 DEF CallInv, CallType, CallInvariant, EndRaising, InTry,
      InSteps, Over, Places, Durable
<1>23. ASSUME Announce PROVE CallInv'
  BY <1>23 DEF CallInv, CallType, CallInvariant, Announce, InTry, InSteps, Over,
     Places, Durable
<1>20. ASSUME Report PROVE CallInv'
  BY <1>20 DEF CallInv, CallType, CallInvariant, Report, InTry, InSteps, Over,
     Places, Durable
<1>21. ASSUME Crash PROVE CallInv'
  BY <1>21 DEF CallInv, CallType, CallInvariant, Crash, Unwound, InTry, InSteps,
     Over, Places, Durable
<1> QED BY <1>1, <1>2, <1>3, <1>4, <1>5, <1>6, <1>7, <1>8, <1>9, <1>10, <1>11,
    <1>12, <1>13, <1>14, <1>15, <1>16, <1>17, <1>18, <1>19, <1>20, <1>21, <1>22,
    <1>23 DEF Next

----------------------------------------------------------------------------
(* The directory, the memory of the call that owns it, and what callers    *)
(* were given.                                                             *)

\* What is proved of directory, memory and answers
StoreInv == MemoryInvariant /\ AnswerInvariant /\ CheckpointIsChain

\* What it is about
Recorded == <<composition, savedState, savedResult>>

\* It stays while these do not change.
LEMMA ChainStays ==
  ASSUME CheckpointIsChain, UNCHANGED Recorded PROVE CheckpointIsChain'
BY DEF CheckpointIsChain, Chained, CallsOf, Recorded

\* An answer stays what it was.
LEMMA AnswerStays ==
  ASSUME AnswerInvariant, UNCHANGED <<Recorded, answer, spoiled>>
  PROVE  AnswerInvariant'
BY DEF AnswerInvariant, Complete, ResultOf, Finished, Heldout, Durable, Recorded

\* It holds at first.
LEMMA StoreInitially == Init => StoreInv
BY DEF Init, Store!StoreInit, StoreInv, MemoryInvariant, AnswerInvariant,
       CheckpointIsChain, InSteps

\* Actions that record nothing.
LEMMA StoreStill ==
  ASSUME CallInv, TrackerInvariant, StoreInv,
         \/ \E c \in Configs : StartCall(c)
         \/ RejectCall \/ ClaimDirectory \/ ResumeRun \/ BeginSteps \/ StartStep
         \/ \E e \in Engines : RunEngine(e)
         \/ \E i \in Tracker!Numbers :
              \/ EngineRaises(i)
              \/ \E raw \in RawResults : EngineReturns(i, raw) \/ EngineExhausted(i, raw)
         \/ ExecuteReturns \/ ResolveResult
         \/ \E votes \in [DOMAIN runs -> VoteScores] : SelectRun(votes)
         \/ FinishComposition \/ FinishPipeline
         \/ Raise \/ EndRaising \/ Announce \/ Crash
  PROVE  StoreInv'
<1> USE DEF AtHome, progress, resolution, tracker, frame, ending, storeVars, history
<1>1. UNCHANGED <<Recorded, answer, spoiled>>
  BY DEF StoreInv, StartCall, RejectCall, ClaimDirectory, Store!Claim, ResumeRun,
         BeginSteps, StartStep, RunEngine, EngineRaises, EngineReturns,
         EngineExhausted, InExecute, ExecuteReturns, ResolveResult, SelectRun,
         FinishComposition, FinishPipeline, Raise, EndRaising, Announce, Crash,
         Recorded
<1>2. CheckpointIsChain' /\ AnswerInvariant'
  BY <1>1, ChainStays, AnswerStays DEF StoreInv
<1>3. MemoryInvariant'
  <2> USE <1>1 DEF StoreInv, Recorded
  <2>1. CASE \/ \E c \in Configs : StartCall(c)
             \/ RejectCall \/ ClaimDirectory \/ Raise \/ EndRaising \/ Crash
    <3>1. pc' \notin {"prepared", "saving", "closing", "announcing", "reporting"} \cup InSteps
      BY <2>1 DEF StartCall, RejectCall, ClaimDirectory, Raise, EndRaising,
         Crash, InSteps
    <3> QED BY <3>1 DEF MemoryInvariant, InSteps
  <2>2. CASE ResumeRun
    BY <2>2 DEF ResumeRun, MemoryInvariant, InSteps
  <2>3. CASE BeginSteps
    BY <2>3 DEF BeginSteps, MemoryInvariant, InSteps, Durable, CallInv,
       CallInvariant
  <2>4. CASE StartStep
    BY <2>4 DEF StartStep, MemoryInvariant, InSteps, Durable
  <2>5. CASE \/ \E e \in Engines : RunEngine(e)
             \/ \E i \in Tracker!Numbers :
                  \/ EngineRaises(i)
                  \/ \E raw \in RawResults : EngineReturns(i, raw) \/ EngineExhausted(i, raw)
    <3>1. InExecute
      BY <2>5 DEF RunEngine, EngineRaises, EngineReturns, EngineExhausted
    <3> QED BY <3>1 DEF InExecute, MemoryInvariant, InSteps, Durable, Complete,
        ResultOf, Finished, Heldout
  <2>6. CASE \/ ExecuteReturns \/ ResolveResult
             \/ \E votes \in [DOMAIN runs -> VoteScores] : SelectRun(votes)
    <3>1. pc \in InSteps /\ pc' \in {"resolving", "recording"} /\ UNCHANGED progress
      BY <2>6 DEF ExecuteReturns, ResolveResult, SelectRun, InSteps
    <3> QED BY <3>1 DEF MemoryInvariant, InSteps, Durable
  <2>7. CASE FinishComposition
    BY <2>7 DEF FinishComposition, Finish, MemoryInvariant, InSteps, Durable
  <2>8. CASE FinishPipeline
    <3>1. Durable => pc' = "saving"
      BY <2>8 DEF FinishPipeline, Finish
    <3>2. result' = ResultOf(steps) /\ Complete(steps) /\ UNCHANGED steps /\ pc = "stepping"
      BY <2>8 DEF FinishPipeline, ResultOf, Complete
    <3>3. ResultOf(steps)' = ResultOf(steps) /\ Complete(steps)' = Complete(steps)
      BY <3>2 DEF ResultOf, Complete, Finished, Heldout
    <3> QED BY <3>1, <3>2, <3>3 DEF MemoryInvariant, InSteps, Durable
  <2>9. CASE Announce
    BY <2>9 DEF Announce, MemoryInvariant, InSteps, Durable
  <2> QED BY <2>1, <2>2, <2>3, <2>4, <2>5, <2>6, <2>7, <2>8, <2>9
<1> QED BY <1>2, <1>3 DEF StoreInv

\* One step of a chain
ChainedAt(ss, k) ==
  LET given == IF k = 1 THEN Seed ELSE ss[k - 1].output IN
  /\ ss[k].step = k
  /\ ss[k].input.value = given.value
  /\ \/ ss[k].input = given
     \/ \E i \in DOMAIN ss[k].runs : ss[k].runs[i].output = ss[k].input
  /\ \E i \in DOMAIN ss[k].runs :
       /\ ss[k].selected = ss[k].runs[i].id
       /\ ss[k].output = ss[k].runs[i].output
       /\ composition.steps[k].kind # "vote" =>
            \A j \in DOMAIN ss[k].runs : ss[k].runs[j].score <= ss[k].runs[i].score

\* A chain is made of them.
LEMMA ChainedIsEach ==
  ASSUME NEW ss PROVE Chained(ss) <=> \A k \in DOMAIN ss : ChainedAt(ss, k)
BY DEF Chained, ChainedAt

\* The first run of a step was given the step's candidate, or a sibling's output
\* with the same value.
LEMMA FirstRun ==
  ASSUME CallInv, TrackerInvariant, FlowInvariant, pc = "recording"
  PROVE  /\ runs[1].input.value = candidate.value
         /\ \/ runs[1].input = candidate
            \/ \E i \in DOMAIN runs : runs[i].output = runs[1].input
<1>0. pc \in InStep \ {"executing"}
  BY DEF InStep
<1>1. /\ Books(step, seed, invocations, completed, known, producers)
      /\ seed = candidate /\ runs \in Seq(Runs) /\ results \in Seq(Nat)
  BY <1>0 DEF TrackerInvariant, BooksInvariant, StepInvariant
<1>2. /\ invocations \in Seq(Invocations) /\ Matched(invocations, completed)
      /\ \A i \in DOMAIN invocations : i \in Nat /\ i > 0
  BY <1>1 DEF Books
<1>3. results # <<>> /\ Len(runs) = Len(results)
  BY <1>0 DEF TrackerInvariant, ResultsInvariant, SelectedInvariant
<1>4. 1 \in DOMAIN runs /\ DOMAIN runs = DOMAIN results
  BY <1>1, <1>3, EmptySeq
<1>5. /\ \A k \in DOMAIN runs :
           \E p \in completed : p[1] = results[k] /\ runs[k] = RunAt(p[1], p[2])
      /\ \A p \in completed : \E k \in DOMAIN results : p[1] = results[k]
  BY <1>0 DEF TrackerInvariant, ResultsInvariant
<1>6. PICK p \in completed : p[1] = results[1] /\ runs[1] = RunAt(p[1], p[2])
  BY <1>4, <1>5
<1>7. p[2] \in DOMAIN invocations /\ runs[1].input = invocations[p[2]].input
  BY <1>2, <1>6 DEF Matched, RunAt
<1>8. invocations[p[2]].input.value = seed.value
  <2>1. CASE Kind \notin {"sequential", "adaptive"}
    BY <1>0, <1>7, <2>1 DEF FlowInvariant, InputInvariant
  <2>2. CASE Kind = "sequential"
    <3>1. p[1] = p[2]
      BY <1>0, <2>2 DEF TrackerInvariant, SiblingInvariant
    <3>2. invocations[p[2]].engine = 1
      BY <1>0, <1>4, <1>6, <2>2, <3>1 DEF FlowInvariant, InputInvariant
    <3>3. Tracker!Numbers = DOMAIN invocations
      BY <1>2 DEF Tracker!Numbers
    <3>4. p[2] = 1
      BY <1>0, <1>7, <2>2, <3>2, <3>3 DEF TrackerInvariant, SiblingInvariant
    <3> QED BY <1>0, <1>7, <3>4 DEF FlowInvariant, InputInvariant
  <2>3. CASE Kind = "adaptive"
    <3>1. p[1] = 1
      BY <1>0, <1>4, <1>6, <2>3 DEF FlowInvariant, InputInvariant
    <3>2. p[1] = p[2] \/ IsLate(invocations, completed, p)
      BY <1>0, <2>3 DEF FlowInvariant, SliceInvariant
    <3>3. \A q \in completed : q[1] \in DOMAIN invocations
      BY <1>2 DEF Matched
    <3>4. ~Preceded(invocations, completed, 1)
      BY <1>2, <3>3 DEF Preceded
    <3>5. p[2] = 1
      BY <3>1, <3>2, <3>4 DEF IsLate
    <3> QED BY <1>0, <1>7, <3>5 DEF FlowInvariant, InputInvariant
  <2> QED BY <2>1, <2>2, <2>3
<1>9. invocations[p[2]].input = seed
        \/ invocations[p[2]].input \in Outputs(step, invocations, completed)
  BY <1>0, <1>7, <1>8 DEF FlowInvariant, InputInvariant, IsGiven
<1>10. ASSUME invocations[p[2]].input \in Outputs(step, invocations, completed)
       PROVE  \E i \in DOMAIN runs : runs[i].output = runs[1].input
  <2>1. PICK q \in completed : invocations[p[2]].input = OutputAt(step, invocations, q[1], q[2])
    BY <1>10 DEF Outputs
  <2>2. PICK j \in DOMAIN results : q[1] = results[j]
    BY <1>5
  <2>3. PICK r \in completed : r[1] = results[j] /\ runs[j] = RunAt(r[1], r[2])
    BY <1>4, <1>5
  <2>4. r[1] = q[1] /\ r[2] = q[2]
    BY <1>2, <2>2, <2>3 DEF Matched
  <2>5. runs[j].output = OutputAt(step, invocations, q[1], q[2])
    BY <2>3, <2>4 DEF RunAt
  <2> QED BY <1>4, <1>7, <2>1, <2>5
<1> QED BY <1>1, <1>7, <1>8, <1>9, <1>10

\* The step a pipeline records follows those before it.
LEMMA ChainExtends ==
  ASSUME CallInv, TrackerInvariant, FlowInvariant, pc = "recording",
         composition.pipeline,
         Chained(steps),
         candidate = IF steps = <<>> THEN Seed ELSE steps[Len(steps)].output
  PROVE  Chained(Append(steps, StepResult))
<1> DEFINE n == Len(steps) + 1
           ss == Append(steps, StepResult)
<1>1. steps \in Seq(StepResults) /\ Len(steps) \in Nat
  BY DEF CallInv, CallType
<1>2. /\ step = n /\ seed = candidate /\ runs \in Seq(Runs)
      /\ n <= Len(composition.steps)
  BY DEF TrackerInvariant, StepInvariant, InStep
<1>3. Len(results) # 0
  <2>1. results # <<>> /\ results \in Seq(Nat)
    BY DEF TrackerInvariant, ResultsInvariant, StepInvariant, InStep
  <2> QED BY <2>1, EmptySeq
<1>4. /\ selected \in 0..Len(runs) /\ Len(runs) # 0
      /\ Kind # "parallel" => selected # 0
      /\ Kind \notin {"parallel", "vote"} =>
           \A j \in DOMAIN runs : runs[j].score <= runs[selected].score
  BY <1>3 DEF TrackerInvariant, SelectedInvariant
<1>5. composition.steps \in Seq([kind: Kinds, engines: Engines])
  BY CompositionAssumption DEF CallInv, CallType
<1>6. Kind # "parallel"
  BY <1>1, <1>2, <1>5, CompositionAssumption DEF CallInv, CallType, Kind
<1>7. selected \in DOMAIN runs /\ Best = selected
  BY <1>2, <1>4, <1>6 DEF Best
<1>8. /\ StepResult.step = n /\ StepResult.runs = runs
      /\ StepResult.input = runs[1].input
      /\ StepResult.selected = runs[selected].id
      /\ StepResult.output = runs[selected].output
  BY <1>2, <1>7 DEF StepResult
<1>9. StepResult \in StepResults
  BY RecordedType DEF CallInv, TrackerInvariant
<1>10. /\ DOMAIN ss = 1..n /\ ss[n] = StepResult
       /\ \A k \in 1..n : k # n => k \in DOMAIN steps /\ ss[k] = steps[k]
  BY <1>1, <1>9
<1>11. candidate = IF n = 1 THEN Seed ELSE ss[n - 1].output
  <2>1. n = 1 <=> steps = <<>>
    BY <1>1, EmptySeq
  <2>2. n # 1 => n - 1 \in 1..n /\ n - 1 # n /\ n - 1 = Len(steps)
    BY <1>1
  <2>3. n # 1 => ss[n - 1] = steps[Len(steps)]
    BY <2>2, <1>10
  <2> HIDE DEF ss, n
  <2> QED BY <2>1, <2>3
<1>12. ChainedAt(ss, n)
  <2>1. /\ runs[1].input.value = candidate.value
        /\ \/ runs[1].input = candidate
           \/ \E i \in DOMAIN runs : runs[i].output = runs[1].input
    BY FirstRun
  <2>2. composition.steps[n].kind # "vote" =>
          \A j \in DOMAIN runs : runs[j].score <= runs[selected].score
    BY <1>2, <1>4, <1>6 DEF Kind
  <2> HIDE DEF ss, n
  <2> QED BY <1>7, <1>8, <1>10, <1>11, <2>1, <2>2 DEF ChainedAt
<1>13. \A k \in 1..n : k # n => ChainedAt(ss, k)
  <2> SUFFICES ASSUME NEW k \in 1..n, k # n PROVE ChainedAt(ss, k)
    OBVIOUS
  <2>1. k \in DOMAIN steps /\ ss[k] = steps[k]
    BY <1>10
  <2>2. k # 1 => ss[k - 1] = steps[k - 1]
    <3>1. k # 1 => k - 1 \in 1..n /\ k - 1 # n
      BY <1>1
    <3> QED BY <3>1, <1>10
  <2>3. ChainedAt(steps, k)
    BY <2>1, ChainedIsEach
  <2> HIDE DEF ss, n
  <2> QED BY <2>1, <2>2, <2>3 DEF ChainedAt
<1> HIDE DEF n, ss
<1> QED BY <1>10, <1>12, <1>13, ChainedIsEach DEF ss

\* A step that is recorded extends memory and checkpoint alike.
LEMMA StoreRecords ==
  ASSUME CallInv, TrackerInvariant, FlowInvariant, StoreInv, RecordStep
  PROVE  StoreInv'
<1> USE DEF StoreInv
<1>1. CASE ~Durable
  BY <1>1 DEF RecordStep, storeVars, history, MemoryInvariant, AnswerInvariant,
              CheckpointIsChain, Durable, CallInv, CallInvariant
<1>2. CASE Durable
  <2>1. /\ pc = "recording" /\ composition.pipeline /\ savedState # None
        /\ savedState.stages = steps /\ savedState.accepted = candidate
        /\ step = Len(steps) + 1 /\ step <= Len(composition.steps)
        /\ steps \in Seq(StepResults)
    BY <1>2 DEF RecordStep, MemoryInvariant, InSteps, TrackerInvariant,
       StepInvariant,
                InStep, CallInv, CallType
  <2>2. savedResult = None /\ answer = None
    <3>1. ~Complete(steps)
      BY <2>1 DEF Complete
    <3> QED BY <1>2, <2>1, <3>1 DEF AnswerInvariant
  <2>3. /\ steps' = Append(steps, StepResult) /\ candidate' = StepResult.output
        /\ pc' = "stepping"
        /\ UNCHANGED <<composition, savedResult, answer, spoiled>>
        /\ savedState' = Checkpoint(steps', candidate')
    BY <1>2 DEF RecordStep, Store!SaveState, history
  <2>4. /\ savedState'.stages = steps' /\ savedState'.accepted = candidate'
        /\ savedState'.status = "running" /\ savedState'.calls = CallsOf(steps')
    BY <2>3 DEF Checkpoint
  <2>5. savedState' # None
    BY <1>2, <2>3, CheckpointType, NoneAssumption DEF RecordStep
  <2>6. Chained(steps')
    <3>1. /\ Chained(steps)
          /\ candidate = IF steps = <<>> THEN Seed ELSE steps[Len(steps)].output
      BY <2>1 DEF CheckpointIsChain
    <3> QED BY <2>1, <2>3, <3>1, ChainExtends
  <2>7. Chained(savedState.stages)'
    BY <2>3, <2>4, <2>6 DEF Chained
  <2>8. steps' # <<>> /\ candidate' = steps'[Len(steps')].output
    <3>1. StepResult \in StepResults
      BY <2>1, RecordedType DEF CallInv, TrackerInvariant
    <3> QED BY <2>1, <2>3, <3>1
  <2>9. MemoryInvariant'
    BY <2>3, <2>4, <2>5 DEF MemoryInvariant, InSteps
  <2>10. AnswerInvariant'
    BY <2>2, <2>3 DEF AnswerInvariant
  <2>11. CheckpointIsChain'
    BY <2>3, <2>4, <2>7, <2>8 DEF CheckpointIsChain, CallsOf
  <2> QED BY <2>9, <2>10, <2>11
<1> QED BY <1>1, <1>2

\* A directory that is prepared
LEMMA StorePrepares ==
  ASSUME CallInv, StoreInv, ResetDirectory \/ BeginRun PROVE StoreInv'
<1> USE DEF StoreInv
<1>1. CASE ResetDirectory
  BY <1>1 DEF ResetDirectory, Store!Release, MemoryInvariant, AnswerInvariant,
              CheckpointIsChain, InSteps, Durable
<1>2. CASE BeginRun
  <2>1. /\ savedState = None /\ savedResult = None /\ savedState' = NewState
        /\ UNCHANGED <<composition, savedResult, answer, spoiled>>
        /\ \/ pc' = "prepared" /\ held' = NewState
           \/ pc' = "raising"
    BY <1>2 DEF BeginRun, Store!Begin, history
  <2>2. NewState \in RunState
    <3>1. config \in Configs
      BY <1>2 DEF CallInv, CallInvariant, BeginRun
    <3> QED BY <3>1, SeedType, EmptySeq DEF NewState, RunState, Configs
  <2>3. MemoryInvariant'
    BY <2>1, <2>2, NoneAssumption DEF MemoryInvariant, InSteps
  <2>4. AnswerInvariant'
    BY <2>1, NoneAssumption DEF AnswerInvariant, Durable, CallInv, CallType
  <2>5. /\ savedState'.stages = <<>> /\ savedState'.accepted = Seed
        /\ savedState'.status = "running" /\ savedState'.calls = 0
    BY <2>1 DEF NewState
  <2>6. Chained(savedState.stages)'
    BY <2>5 DEF Chained
  <2>7. CallsOf(<<>>) = 0
    <3>1. DOMAIN [k \in DOMAIN <<>> |-> <<>>[k].budget.calls] = {}
      OBVIOUS
    <3> QED BY <3>1, TotalOfNone DEF CallsOf
  <2>8. CheckpointIsChain'
    BY <2>5, <2>6, <2>7 DEF CheckpointIsChain
  <2> QED BY <2>3, <2>4, <2>8
<1> QED BY <1>1, <1>2

\* A caller is given a result.
LEMMA StoreAnswers ==
  ASSUME CallInv, StoreInv, ReturnSaved \/ Report PROVE StoreInv'
<1> USE DEF StoreInv
<1>1. UNCHANGED <<Recorded, spoiled>>
  BY DEF ReturnSaved, Report, storeVars, Recorded
<1>2. CheckpointIsChain'
  BY <1>1, ChainStays
<1>3. MemoryInvariant'
  BY DEF ReturnSaved, Report, MemoryInvariant, InSteps
<1>4. AnswerInvariant'
  <2>1. Durable => UNCHANGED answer \/ answer' = savedResult \/ answer' = result
    BY DEF ReturnSaved, Report
  <2>2. Durable /\ answer' # answer =>
          answer' = savedResult /\ savedState # None /\ savedState.status = "completed"
    BY DEF ReturnSaved, Report, MemoryInvariant
  <2>3. AnswerInvariant /\ UNCHANGED answer => AnswerInvariant'
    BY <1>1, AnswerStays
  <2>4. CASE Durable /\ answer' # answer
    BY <1>1, <2>2, <2>4 DEF AnswerInvariant, Complete, ResultOf, Finished,
       Heldout, Durable, Recorded
  <2>5. CASE ~Durable
    BY <1>1, <2>5 DEF AnswerInvariant, Durable, Recorded
  <2> QED BY <2>3, <2>4, <2>5
<1> QED BY <1>2, <1>3, <1>4

\* A run is closed: its result, and then its state.
LEMMA StoreCloses ==
  ASSUME CallInv, StoreInv, SaveResult \/ CloseRun PROVE StoreInv'
<1> USE DEF StoreInv
<1>0. /\ Durable /\ composition \in Compositions /\ result \in Results
      /\ savedState # None /\ savedState.status # "completed"
  BY DEF CallInv, CallInvariant, CallType, SaveResult, CloseRun, Durable, Over,
     MemoryInvariant
<1>1. CASE SaveResult
  <2>1. /\ pc = "saving" /\ pc' = "closing" /\ savedResult' = result
        /\ UNCHANGED <<composition, savedState, answer, spoiled, steps, result, candidate>>
    BY <1>1 DEF SaveResult, Store!SaveResult, frame, progress, history
  <2>2. composition.pipeline =>
          /\ Complete(steps) /\ result = ResultOf(steps) /\ steps = savedState.stages
    BY <1>0, <2>1 DEF MemoryInvariant
  <2>3. (Complete(steps)' <=> Complete(steps)) /\ ResultOf(steps)' = ResultOf(steps)
    BY <2>1 DEF Complete, ResultOf, Finished, Heldout
  <2>4. (Complete(savedState.stages)' <=> Complete(savedState.stages))
        /\ ResultOf(savedState.stages)' = ResultOf(savedState.stages)
    BY <2>1 DEF Complete, ResultOf, Finished, Heldout
  <2>5. MemoryInvariant'
    BY <1>0, <2>1, <2>2, <2>3 DEF MemoryInvariant, InSteps, Durable
  <2>6. answer # None /\ (composition.pipeline \/ ~spoiled) => composition.pipeline /\ answer = savedResult'
    BY <1>0, <2>1, <2>2 DEF AnswerInvariant
  <2>7. AnswerInvariant'
    BY <1>0, <2>1, <2>2, <2>4, <2>6 DEF AnswerInvariant, Durable
  <2>8. CheckpointIsChain'
    BY <1>0, <2>1 DEF CheckpointIsChain, Chained, CallsOf
  <2> QED BY <2>5, <2>7, <2>8
<1>2. CASE CloseRun
  <2>1. /\ pc = "closing" /\ pc' = "announcing" /\ savedState' = Closed(savedState)
        /\ UNCHANGED <<composition, savedResult, answer, spoiled, steps, result>>
    BY <1>2 DEF CloseRun, Store!SaveState, frame, progress, history
  <2>2. savedState \in RunState
    BY <1>0 DEF CallInv, CallType
  <2>3. /\ savedState'.stages = savedState.stages /\ savedState'.status = "completed"
        /\ savedState'.accepted = result.best /\ savedState'.calls = result.budget.calls
    BY <2>1, <2>2 DEF Closed, RunState
  <2>4. savedState' # None
    <3>1. result.best \in Candidates /\ result.budget.calls \in Nat
      BY <1>0 DEF Results, Budgets
    <3>2. Closed(savedState) \in RunState
      BY <2>2, <3>1 DEF Closed, RunState
    <3> QED BY <2>1, <3>2, NoneAssumption
  <2>5. savedResult = result /\ savedResult # None
    BY <1>0, <2>1, NoneAssumption DEF MemoryInvariant
  <2>6. composition.pipeline =>
          /\ Complete(steps) /\ result = ResultOf(steps) /\ steps = savedState.stages
    BY <1>0, <2>1 DEF MemoryInvariant
  <2>7. MemoryInvariant'
    BY <2>1, <2>3, <2>4, <2>5 DEF MemoryInvariant, InSteps
  <2>8. (Complete(savedState.stages)' <=> Complete(savedState.stages))
        /\ ResultOf(savedState.stages)' = ResultOf(savedState.stages)
    BY <2>1, <2>3 DEF Complete, ResultOf, Finished, Heldout
  <2>9. AnswerInvariant'
    BY <1>0, <2>1, <2>3, <2>4, <2>8 DEF AnswerInvariant, Durable
  <2>10. composition.pipeline =>
           /\ steps # <<>>
           /\ result.best = steps[Len(steps)].output /\ result.steps = steps
           /\ result.budget.calls = CallsOf(steps)
    <3>1. steps \in Seq(StepResults)
      BY DEF CallInv, CallType
    <3>2. composition.pipeline => Len(steps) # 0
      BY <1>0, <2>6, CompositionAssumption DEF Complete, Steps
    <3>3. composition.pipeline => PipelineBudget(steps) \in Budgets /\ PipelineBudget(steps).calls = CallsOf(steps)
      BY <3>1, PipelineBudgetType DEF PipelineBudget, CallsOf
    <3> QED BY <2>6, <3>1, <3>2, <3>3 DEF ResultOf, Finished, Budgets
  <2>11. Chained(savedState.stages)' <=> Chained(savedState.stages)
    BY <2>1, <2>3 DEF Chained
  <2>12. CheckpointIsChain'
    BY <1>0, <2>1, <2>3, <2>5, <2>6, <2>10, <2>11 DEF CheckpointIsChain, CallsOf,
       Complete
  <2> QED BY <2>7, <2>9, <2>12
<1> QED BY <1>1, <1>2

\* A failure is recorded.
LEMMA StoreFails ==
  ASSUME CallInv, StoreInv, RecordFailure PROVE StoreInv'
<1> USE DEF StoreInv
<1>1. MemoryInvariant'
  BY DEF RecordFailure, MemoryInvariant, InSteps
<1>2. CASE UNCHANGED <<savedState, spoiled>>
  <2>1. UNCHANGED <<Recorded, answer, spoiled>>
    BY <1>2 DEF RecordFailure, Store!SaveState, storeVars, Recorded
  <2> QED BY <1>1, <2>1, ChainStays, AnswerStays
<1>3. CASE ~UNCHANGED <<savedState, spoiled>>
  <2>1. /\ Durable /\ savedState # None
        /\ savedState' = [savedState EXCEPT !.status = "failed"]
        /\ spoiled' = (spoiled \/ savedState.status = "completed")
        /\ UNCHANGED <<composition, savedResult, answer>>
    BY <1>3 DEF RecordFailure, Store!SaveState, storeVars
  <2>2. savedState \in RunState
    BY <2>1 DEF CallInv, CallType
  <2>3. /\ savedState'.stages = savedState.stages /\ savedState'.status = "failed"
        /\ savedState'.accepted = savedState.accepted /\ savedState'.calls = savedState.calls
    BY <2>1, <2>2 DEF RunState
  <2>4. savedState' # None
    <3>1. [savedState EXCEPT !.status = "failed"] \in RunState
      BY <2>2 DEF RunState
    <3> QED BY <2>1, <3>1, NoneAssumption
  <2>5. (Complete(savedState.stages)' <=> Complete(savedState.stages))
        /\ ResultOf(savedState.stages)' = ResultOf(savedState.stages)
    BY <2>1, <2>3 DEF Complete, ResultOf, Finished, Heldout
  <2>6. AnswerInvariant'
    <3>1. spoiled \in BOOLEAN
      BY DEF CallInv, CallType
    <3>2. ~spoiled' => ~spoiled /\ savedState.status # "completed"
      BY <2>1, <3>1
    <3> QED BY <2>1, <2>3, <2>4, <2>5, <3>2 DEF AnswerInvariant, Durable
  <2>7. Chained(savedState.stages)' <=> Chained(savedState.stages)
    BY <2>1, <2>3 DEF Chained
  <2>8. CheckpointIsChain'
    BY <2>1, <2>3, <2>7 DEF CheckpointIsChain, CallsOf
  <2> QED BY <1>1, <2>6, <2>8
<1> QED BY <1>2, <1>3

\* Every step keeps directory, memory and answers in agreement.
LEMMA StoreStep ==
  ASSUME CallInv, TrackerInvariant, FlowInvariant, StoreInv, Next PROVE StoreInv'
BY StoreStill, StorePrepares, StoreAnswers, StoreRecords, StoreCloses, StoreFails
   DEF Next

----------------------------------------------------------------------------
(* The books of a step: what an invocation that is started, one whose      *)
(* state or result changes before it is completed, and one that is         *)
(* completed do to them.                                                   *)

\* The entry of a new invocation of engine e with the value v
Entry(sd, V, K, P, e, v, state) ==
  [engine |-> e, run |-> Cardinality(Of(V, e)),
   input |-> IF K[v] = None THEN [value |-> v, id |-> None] ELSE K[v],
   parent |-> IF P[v] = None THEN sd.id ELSE P[v],
   state |-> state, raw |-> None]

\* An engine has finitely many invocations.
LEMMA OfFinite ==
  ASSUME NEW V \in Seq(Invocations), NEW e
  PROVE  IsFiniteSet(Of(V, e)) /\ Cardinality(Of(V, e)) \in Nat
<1>1. IsFiniteSet(DOMAIN V)
  BY FiniteDomain
<1>2. IsFiniteSet(Of(V, e))
  BY <1>1, FS_Subset DEF Of
<1> QED BY <1>2, FS_CardinalityType

\* What is started is an invocation.
LEMMA EntryType ==
  ASSUME NEW V \in Seq(Invocations), NEW sd \in Candidates,
         NEW K \in [Values -> Candidates \cup {None}],
         NEW P \in [Values -> Ids \cup {None}],
         NEW e \in Engines, NEW v \in Values, NEW state \in Tracker!States
  PROVE  Entry(sd, V, K, P, e, v, state) \in Invocations
<1>1. Cardinality(Of(V, e)) \in Nat
  BY OfFinite
<1>2. K[v] \in Candidates \cup {None} /\ [value |-> v, id |-> None] \in Candidates
  BY DEF Candidates
<1>3. P[v] \in Ids \cup {None} /\ sd.id \in Ids \cup {None}
  BY DEF Candidates
<1> QED BY <1>1, <1>2, <1>3 DEF Entry, Invocations

\* The number of a new invocation is new.
LEMMA DistinctStarted ==
  ASSUME NEW V \in Seq(Invocations), Distinct(V), NEW x \in Invocations,
         x.run = Cardinality(Of(V, x.engine))
  PROVE  Distinct(Append(V, x))
<1> DEFINE n == Len(V) + 1
           W == Append(V, x)
<1>1. /\ DOMAIN W = DOMAIN V \cup {n} /\ n \notin DOMAIN V /\ W[n] = x
      /\ \A i \in DOMAIN V : W[i] = V[i] /\ V[i] \in Invocations
  OBVIOUS
<1>2. \A d : d # x.engine => Of(W, d) = Of(V, d)
  BY <1>1 DEF Of
<1>3. Of(W, x.engine) = Of(V, x.engine) \cup {n} /\ n \notin Of(V, x.engine)
  BY <1>1 DEF Of
<1>4. \A d : IsFiniteSet(Of(V, d)) /\ Cardinality(Of(V, d)) \in Nat
  BY OfFinite
<1>5. Cardinality(Of(W, x.engine)) = Cardinality(Of(V, x.engine)) + 1
  BY <1>3, <1>4, FS_AddElement
<1> HIDE DEF W, n
<1>6. \A i \in DOMAIN W : W[i].run < Cardinality(Of(W, W[i].engine))
  <2>1. \A i \in DOMAIN V : V[i].run \in Nat
    BY <1>1 DEF Invocations
  <2> QED BY <1>1, <1>2, <1>4, <1>5, <2>1 DEF Distinct
<1>7. \A i, j \in DOMAIN W :
        i # j => W[i].engine # W[j].engine \/ W[i].run # W[j].run
  <2>1. \A i \in DOMAIN V : V[i].run \in Nat /\ (V[i].engine = x.engine => V[i].run < x.run)
    BY <1>1 DEF Invocations, Distinct
  <2>2. \A i \in DOMAIN V : V[i].engine = x.engine => V[i].run # x.run
    BY <2>1, <1>4
  <2> QED BY <1>1, <2>2 DEF Distinct
<1> QED BY <1>6, <1>7 DEF Distinct, W

\* An invocation is started.
LEMMA BooksStarted ==
  ASSUME NEW s, NEW sd, NEW V, NEW C, NEW K, NEW P, Books(s, sd, V, C, K, P),
         NEW e \in Engines, NEW v \in Values, NEW state \in Tracker!States
  PROVE  Books(s, sd, Append(V, Entry(sd, V, K, P, e, v, state)), C, K, P)
<1> DEFINE x == Entry(sd, V, K, P, e, v, state)
           n == Len(V) + 1
           W == Append(V, x)
<1>1. /\ V \in Seq(Invocations) /\ sd \in Candidates /\ s \in Steps
      /\ K \in [Values -> Candidates \cup {None}]
      /\ P \in [Values -> Ids \cup {None}] /\ C \in SUBSET (Nat \X Nat)
  BY DEF Books
<1>2. x \in Invocations
  BY <1>1, EntryType
<1>3. /\ x.engine = e /\ x.run = Cardinality(Of(V, e)) /\ x.raw = None
      /\ x.input = IF K[v] = None THEN [value |-> v, id |-> None] ELSE K[v]
      /\ x.parent = IF P[v] = None THEN sd.id ELSE P[v]
  BY DEF Entry
<1> HIDE DEF x
<1>4. /\ DOMAIN W = DOMAIN V \cup {n} /\ n \notin DOMAIN V /\ W[n] = x
      /\ \A i \in DOMAIN V : W[i] = V[i]
      /\ W \in Seq(Invocations)
  BY <1>1, <1>2
<1> HIDE DEF W, n
<1>5. Distinct(W)
  BY <1>1, <1>2, <1>3, DistinctStarted DEF Books, W
<1>6. Matched(W, C)
  BY <1>4 DEF Books, Matched
<1>7. \A p \in C : /\ p[1] \in DOMAIN V /\ p[2] \in DOMAIN V
                   /\ IdAt(s, W, p[2]) = IdAt(s, V, p[2])
                   /\ OutputAt(s, W, p[1], p[2]) = OutputAt(s, V, p[1], p[2])
                   /\ W[p[1]].raw = V[p[1]].raw
  BY <1>4 DEF Books, Matched, IdAt, OutputAt
<1>8. Known(s, sd, W, C, K, P)
  BY <1>7 DEF Books, Known
<1>9. Lineage(s, sd, W, C)
  <2>1. \A i \in DOMAIN V :
          \/ W[i].input.id \in {None, sd.id} /\ W[i].parent = sd.id
          \/ \E p \in C : /\ p[2] # i
                          /\ W[i].parent = IdAt(s, W, p[2])
                          /\ W[i].input = OutputAt(s, W, p[1], p[2])
    BY <1>4, <1>7 DEF Books, Lineage
  <2>2. \/ x.input.id \in {None, sd.id} /\ x.parent = sd.id
        \/ \E p \in C : /\ p[2] # n
                        /\ x.parent = IdAt(s, W, p[2])
                        /\ x.input = OutputAt(s, W, p[1], p[2])
    <3>1. CASE P[v] = None /\ K[v] = IF v = sd.value THEN sd ELSE None
      BY <1>3, <3>1
    <3>2. ASSUME NEW p \in C, P[v] = IdAt(s, V, p[2]), K[v] = OutputAt(s, V, p[1], p[2])
          PROVE  x.parent = IdAt(s, W, p[2]) /\ x.input = OutputAt(s, W, p[1], p[2]) /\ p[2] # n
      <4>1. p[1] \in DOMAIN V /\ p[2] \in DOMAIN V /\ V[p[1]] \in Invocations /\ V[p[2]] \in Invocations
        BY <1>1, <1>7
      <4>2. IdAt(s, V, p[2]) \in Ids
        BY <1>1, <4>1 DEF IdAt, Ids, Invocations
      <4>3. OutputAt(s, V, p[1], p[2]) \in Candidates
        <5>1. V[p[1]].raw \in RawResults
          BY <4>1 DEF Books, Matched, Invocations
        <5> QED BY <4>2, <5>1, CompositionAssumption DEF OutputAt, Candidates
      <4> QED BY <1>3, <1>4, <1>7, <3>2, <4>1, <4>2, <4>3, NoneAssumption
    <3> QED BY <3>1, <3>2 DEF Books, Known
  <2> QED BY <1>4, <2>1, <2>2 DEF Lineage
<1> QED BY <1>1, <1>4, <1>5, <1>6, <1>8, <1>9 DEF Books, W, x

\* An invocation i of V that has no result yet becomes x.
Becomes(V, i, x, W) ==
  /\ DOMAIN W = DOMAIN V /\ W \in Seq(Invocations)
  /\ \A j \in DOMAIN V \ {i} : W[j] = V[j]
  /\ W[i] = x
  /\ x.engine = V[i].engine /\ x.run = V[i].run
  /\ x.input = V[i].input /\ x.parent = V[i].parent

\* An invocation that changes keeps its id, as all others do.
LEMMA SameIds ==
  ASSUME NEW V, NEW i \in DOMAIN V, NEW x, NEW W, Becomes(V, i, x, W), NEW s
  PROVE  /\ Distinct(V) => Distinct(W)
         /\ \A j \in DOMAIN V : IdAt(s, W, j) = IdAt(s, V, j)
                                /\ W[j].input = V[j].input /\ W[j].parent = V[j].parent
<1>1. \A j \in DOMAIN V : W[j].engine = V[j].engine /\ W[j].run = V[j].run
                          /\ W[j].input = V[j].input /\ W[j].parent = V[j].parent
  BY DEF Becomes
<1>2. DOMAIN W = DOMAIN V
  BY DEF Becomes
<1>3. \A e : Of(W, e) = Of(V, e)
  BY <1>1, <1>2 DEF Of
<1> QED BY <1>1, <1>2, <1>3 DEF Distinct, IdAt

\* The state of an invocation may change as long as it is not completed.
LEMMA BooksChanged ==
  ASSUME NEW s, NEW sd, NEW V, NEW C, NEW K, NEW P, Books(s, sd, V, C, K, P),
         NEW i \in DOMAIN V, \A p \in C : p[1] # i /\ p[2] # i,
         NEW x, NEW W, Becomes(V, i, x, W)
  PROVE  Books(s, sd, W, C, K, P)
<1>1. Distinct(W)
  BY SameIds DEF Books
<1>2. \A p \in C : /\ p[1] \in DOMAIN V /\ p[2] \in DOMAIN V
                   /\ W[p[1]] = V[p[1]] /\ W[p[2]] = V[p[2]]
  BY DEF Books, Matched, Becomes
<1>3. DOMAIN W = DOMAIN V /\ W \in Seq(Invocations)
  BY DEF Becomes
<1>4. Matched(W, C)
  BY <1>2, <1>3 DEF Books, Matched
<1>5. \A p \in C : /\ IdAt(s, W, p[2]) = IdAt(s, V, p[2])
                   /\ OutputAt(s, W, p[1], p[2]) = OutputAt(s, V, p[1], p[2])
  BY <1>2 DEF IdAt, OutputAt
<1>6. Known(s, sd, W, C, K, P)
  BY <1>2, <1>5 DEF Books, Known
<1>7. \A j \in DOMAIN V : W[j].input = V[j].input /\ W[j].parent = V[j].parent
  BY SameIds
<1>8. Lineage(s, sd, W, C)
  BY <1>3, <1>5, <1>7 DEF Books, Lineage
<1> QED BY <1>1, <1>3, <1>4, <1>6, <1>8 DEF Books

\* The result named o is completed: it belongs to invocation i.
LEMMA BooksCompleted ==
  ASSUME NEW s, NEW sd, NEW V, NEW C, NEW K, NEW P, Books(s, sd, V, C, K, P),
         NEW i \in DOMAIN V, NEW o \in DOMAIN V, V[o].raw # None,
         \A p \in C : p[1] # o /\ p[2] # i,
         NEW state \in {"completed", "broken"}
  PROVE  LET v == V[o].raw.value IN
         Books(s, sd, [V EXCEPT ![i].state = state], C \cup {<<o, i>>},
               [K EXCEPT ![v] = OutputAt(s, V, o, i)],
               [P EXCEPT ![v] = IdAt(s, V, i)])
<1> DEFINE v == V[o].raw.value
           W == [V EXCEPT ![i].state = state]
           D == C \cup {<<o, i>>}
           L == [K EXCEPT ![v] = OutputAt(s, V, o, i)]
           Q == [P EXCEPT ![v] = IdAt(s, V, i)]
<1>1. /\ V \in Seq(Invocations) /\ sd \in Candidates /\ s \in Steps
      /\ K \in [Values -> Candidates \cup {None}]
      /\ P \in [Values -> Ids \cup {None}] /\ C \in SUBSET (Nat \X Nat)
  BY DEF Books
<1>2. /\ V[i] \in Invocations /\ V[o] \in Invocations
      /\ V[o].raw \in RawResults /\ v \in Values
  <2>1. V[i] \in Invocations /\ V[o] \in Invocations
    BY <1>1
  <2>2. V[o].raw \in RawResults
    BY <2>1 DEF Invocations
  <2> QED BY <2>1, <2>2, CompositionAssumption
<1>3. IdAt(s, V, i) \in Ids /\ OutputAt(s, V, o, i) \in Candidates
  BY <1>1, <1>2 DEF IdAt, Ids, Invocations, OutputAt, Candidates
<1>4. Becomes(V, i, [V[i] EXCEPT !.state = state], W)
  <2>1. [V[i] EXCEPT !.state = state] \in Invocations
    BY <1>2 DEF Invocations, Tracker!States
  <2>2. W \in Seq(Invocations) /\ DOMAIN W = DOMAIN V /\ W[i] = [V[i] EXCEPT !.state = state]
        /\ \A j \in DOMAIN V \ {i} : W[j] = V[j]
    BY <1>1, <2>1
  <2> HIDE DEF W
  <2> QED BY <1>2, <2>2 DEF Becomes, Invocations
<1>5. W[i].state = state /\ \A j \in DOMAIN V : W[j].raw = V[j].raw
  <2>1. [V[i] EXCEPT !.state = state].state = state /\ [V[i] EXCEPT !.state = state].raw = V[i].raw
    BY <1>2 DEF Invocations
  <2> HIDE DEF W
  <2> QED BY <1>4, <2>1 DEF Becomes
<1> HIDE DEF W
<1>6. DOMAIN W = DOMAIN V /\ W \in Seq(Invocations) /\ Distinct(W)
      /\ \A j \in DOMAIN V : IdAt(s, W, j) = IdAt(s, V, j)
                             /\ W[j].input = V[j].input /\ W[j].parent = V[j].parent
  <2> DEFINE x == [V[i] EXCEPT !.state = state]
  <2>1. Becomes(V, i, x, W)
    BY <1>4
  <2> HIDE DEF x
  <2>2. DOMAIN W = DOMAIN V /\ W \in Seq(Invocations)
    BY <2>1 DEF Becomes
  <2>3. Distinct(V)
    BY DEF Books
  <2> QED BY <2>1, <2>2, <2>3, SameIds
<1>7. \A j \in DOMAIN V : j # i => W[j].state = V[j].state
  BY <1>4 DEF Becomes
<1>8. Matched(W, D)
  <2>1. \A p \in C : p[1] \in DOMAIN V /\ p[2] \in DOMAIN V
    BY DEF Books, Matched
  <2>2. \A p \in D : p \in C \/ (p[1] = o /\ p[2] = i)
    OBVIOUS
  <2> HIDE DEF D
  <2> QED BY <1>5, <1>6, <1>7, <2>1, <2>2 DEF Books, Matched
<1>9. \A p, q \in DOMAIN V : OutputAt(s, W, p, q) = OutputAt(s, V, p, q)
  BY <1>5, <1>6 DEF OutputAt
<1>10. \A p \in C : p \in D /\ p[1] \in DOMAIN V /\ p[2] \in DOMAIN V
  BY DEF Books, Matched
<1>11. <<o, i>> \in D /\ <<o, i>>[1] = o /\ <<o, i>>[2] = i
  OBVIOUS
<1>12. /\ L \in [Values -> Candidates \cup {None}] /\ Q \in [Values -> Ids \cup {None}]
       /\ L[v] = OutputAt(s, V, o, i) /\ Q[v] = IdAt(s, V, i)
       /\ \A u \in Values \ {v} : L[u] = K[u] /\ Q[u] = P[u]
  BY <1>1, <1>2, <1>3
<1>13. D \in SUBSET (Nat \X Nat)
  <2>1. o \in Nat /\ i \in Nat
    BY <1>1
  <2> QED BY <1>1, <2>1
<1>14. v = V[o].raw.value
  OBVIOUS
<1> HIDE DEF D, L, Q, v
<1>15. Known(s, sd, W, D, L, Q)
  <2> SUFFICES ASSUME NEW u \in Values
               PROVE  \/ Q[u] = None /\ L[u] = IF u = sd.value THEN sd ELSE None
                      \/ \E p \in D : /\ W[p[1]].raw.value = u
                                      /\ Q[u] = IdAt(s, W, p[2])
                                      /\ L[u] = OutputAt(s, W, p[1], p[2])
    BY DEF Known
  <2>1. CASE u = v
    BY <1>5, <1>6, <1>9, <1>11, <1>12, <1>14, <2>1
  <2>2. CASE u # v
    BY <1>5, <1>6, <1>9, <1>10, <1>12, <2>2 DEF Books, Known
  <2> QED BY <2>1, <2>2
<1>16. Lineage(s, sd, W, D)
  <2> SUFFICES ASSUME NEW j \in DOMAIN V
               PROVE  \/ W[j].input.id \in {None, sd.id} /\ W[j].parent = sd.id
                      \/ \E p \in D : /\ p[2] # j
                                      /\ W[j].parent = IdAt(s, W, p[2])
                                      /\ W[j].input = OutputAt(s, W, p[1], p[2])
    BY <1>6 DEF Lineage
  <2>1. W[j].input = V[j].input /\ W[j].parent = V[j].parent
    BY <1>6
  <2>2. CASE V[j].input.id \in {None, sd.id} /\ V[j].parent = sd.id
    BY <2>1, <2>2
  <2>3. ASSUME NEW p \in C, p[2] # j, V[j].parent = IdAt(s, V, p[2]),
               V[j].input = OutputAt(s, V, p[1], p[2])
        PROVE  /\ p \in D /\ W[j].parent = IdAt(s, W, p[2])
               /\ W[j].input = OutputAt(s, W, p[1], p[2])
    BY <1>6, <1>9, <1>10, <2>1, <2>3
  <2> QED BY <2>2, <2>3 DEF Books, Lineage
<1>17. Books(s, sd, W, D, L, Q)
  BY <1>1, <1>6, <1>8, <1>12, <1>13, <1>15, <1>16 DEF Books
<1> QED BY <1>17 DEF W, D, L, Q, v

----------------------------------------------------------------------------
(* The steps of the tracker.                                               *)

\* What is proved of the tracker, with what it rests on
TrackerInv == CallInv /\ TrackerInvariant

\* What a step knows of its invocations, in the words of the tracker
LEMMA StepFacts ==
  ASSUME TrackerInv, pc \in InStep
  PROVE  /\ composition \in Compositions /\ Kind \in Kinds
         /\ composition.steps[step].engines \in Engines
         /\ step \in Steps /\ step # 0 /\ candidate \in Candidates /\ seed = candidate
         /\ parent = seed.id
         /\ Books(step, seed, invocations, completed, known, producers)
         /\ invocations \in Seq(Invocations) /\ Tracker!Numbers = DOMAIN invocations
         /\ \A i \in DOMAIN invocations : invocations[i] \in Invocations
         /\ active \in [Engines -> Nat] /\ pending \in [Engines -> Seq(Nat)]
         /\ completed \in SUBSET (Nat \X Nat)
         /\ known \in [Values -> Candidates \cup {None}]
         /\ producers \in [Values -> Ids \cup {None}]
         /\ runs \in Seq(Runs) /\ results \in Seq(Nat) /\ rescored \in Nat
         /\ pc # "recording" => selected = 0
         /\ pc = "executing" => runs = <<>> /\ results = <<>>
<1>1. /\ step = Len(steps) + 1 /\ step <= Len(composition.steps)
      /\ seed = candidate /\ parent = candidate.id
      /\ active \in [Engines -> Nat] /\ pending \in [Engines -> Seq(Nat)]
      /\ runs \in Seq(Runs) /\ results \in Seq(Nat) /\ rescored \in Nat
      /\ pc # "recording" => selected = 0
      /\ pc = "executing" => runs = <<>> /\ results = <<>>
  BY DEF TrackerInv, TrackerInvariant, StepInvariant
<1>2. steps \in Seq(StepResults) /\ composition \in Compositions /\ candidate \in Candidates
  BY DEF TrackerInv, CallInv, CallType, CallInvariant, InStep, InSteps
<1>3. composition.steps \in Seq([kind: Kinds, engines: Engines]) /\ Len(composition.steps) \in Steps
  BY <1>2, CompositionAssumption
<1>4. step \in Steps /\ step # 0 /\ step \in DOMAIN composition.steps
  BY <1>1, <1>2, <1>3, CompositionAssumption DEF Steps
<1>5. composition.steps[step] \in [kind: Kinds, engines: Engines]
  <2> DEFINE R == [kind: Kinds, engines: Engines]
             ss == composition.steps
  <2>1. ss \in Seq(R) /\ step \in DOMAIN ss
    BY <1>3, <1>4
  <2> HIDE DEF R, ss
  <2>2. ss[step] \in R
    BY <2>1
  <2> QED BY <2>2 DEF R, ss
<1>6. Books(step, seed, invocations, completed, known, producers)
  BY DEF TrackerInv, TrackerInvariant, BooksInvariant
<1>7. /\ invocations \in Seq(Invocations) /\ completed \in SUBSET (Nat \X Nat)
      /\ known \in [Values -> Candidates \cup {None}]
      /\ producers \in [Values -> Ids \cup {None}]
  BY <1>6 DEF Books
<1>8. Tracker!Numbers = DOMAIN invocations
  BY <1>7 DEF Tracker!Numbers
<1>9. \A i \in DOMAIN invocations : invocations[i] \in Invocations
  BY <1>7
<1>10. Kind \in Kinds /\ composition.steps[step].engines \in Engines
  BY <1>5 DEF Kind
<1> QED BY <1>1, <1>2, <1>4, <1>6, <1>7, <1>8, <1>9, <1>10

\* Outside of a step.
LEMMA TrackerGone ==
  ASSUME pc' \notin InStep, Idle' PROVE TrackerInvariant'
BY DEF TrackerInvariant, StepInvariant, EngineInvariant, BooksInvariant,
       CompletedInvariant, PendingInvariant, ResultsInvariant, SiblingInvariant,
       SelectedInvariant, InStep, Idle

\* There is no tracker at first.
LEMMA TrackerInitially == Init => TrackerInvariant
BY DEF Init, TrackerInvariant, StepInvariant, EngineInvariant, BooksInvariant,
       CompletedInvariant, PendingInvariant, ResultsInvariant, SiblingInvariant,
       SelectedInvariant, InStep, Idle

\* Outside of a step, and when one ends, there is none.
LEMMA TrackerOutside ==
  ASSUME TrackerInv,
         \/ \E c \in Configs : StartCall(c)
         \/ RejectCall \/ ClaimDirectory \/ ResetDirectory \/ BeginRun \/ ResumeRun
         \/ ReturnSaved \/ BeginSteps \/ RecordStep \/ FinishComposition
         \/ FinishPipeline \/ SaveResult \/ CloseRun \/ Raise \/ RecordFailure
         \/ EndRaising \/ Announce \/ Report \/ Crash
  PROVE  TrackerInvariant'
<1> USE DEF AtHome, progress, resolution, tracker, frame, ending, storeVars, history
<1>1. CASE \/ \E c \in Configs : StartCall(c)
           \/ RejectCall \/ ClaimDirectory \/ ResetDirectory \/ BeginRun \/ ResumeRun
           \/ ReturnSaved \/ BeginSteps \/ FinishPipeline \/ SaveResult \/ CloseRun
           \/ RecordFailure \/ EndRaising \/ Announce \/ Report
  <2>1. pc \notin InStep /\ pc' \notin InStep /\ UNCHANGED <<resolution, tracker>>
    BY <1>1 DEF StartCall, RejectCall, ClaimDirectory, ResetDirectory, BeginRun,
         ResumeRun, ReturnSaved, BeginSteps, FinishPipeline, Finish, SaveResult,
         CloseRun, RecordFailure, EndRaising, Announce, Report, InStep
  <2>2. Idle
    BY <2>1 DEF TrackerInv, TrackerInvariant, StepInvariant
  <2>3. Idle'
    BY <2>1, <2>2 DEF Idle
  <2> QED BY <2>1, <2>3, TrackerGone
<1>2. CASE RecordStep \/ FinishComposition \/ Raise \/ Crash
  <2>1. pc' \notin InStep /\ StepIsOver
    BY <1>2 DEF RecordStep, FinishComposition, Finish, Raise, Crash, Unwound, InStep
  <2>2. Idle'
    BY <2>1 DEF Idle, StepIsOver, Tracker!NoTracker
  <2> QED BY <2>1, <2>2, TrackerGone
<1> QED BY <1>1, <1>2

\* A step is started.
LEMMA TrackerStarts ==
  ASSUME TrackerInv, StartStep PROVE TrackerInvariant'
<1>1. /\ pc = "stepping" /\ pc' = "executing" /\ UNCHANGED <<composition, steps, candidate>>
      /\ UNCHANGED <<results, runs, selected, rescored>>
      /\ step' = Len(steps) + 1 /\ Len(steps) < Len(composition.steps)
      /\ seed' = candidate /\ parent' = candidate.id /\ invocations' = <<>>
      /\ active' = [e \in Engines |-> 0] /\ pending' = [e \in Engines |-> <<>>]
      /\ completed' = {} /\ producers' = [v \in Values |-> None]
      /\ known' = [v \in Values |-> IF v = candidate.value THEN candidate ELSE None]
  BY DEF StartStep, Tracker!NewTracker, progress, resolution, AtHome
<1>2. candidate \in Candidates /\ steps \in Seq(StepResults) /\ composition \in Compositions
  BY <1>1 DEF TrackerInv, CallInv, CallType, CallInvariant, InSteps
<1>3. step' \in Steps /\ step' <= Len(composition.steps)
  BY <1>1, <1>2, CompositionAssumption DEF Steps
<1>4. results = <<>> /\ runs = <<>> /\ selected = 0 /\ rescored = 0
  BY <1>1 DEF TrackerInv, TrackerInvariant, StepInvariant, InStep, Idle
<1>5. active' \in [Engines -> Nat] /\ pending' \in [Engines -> Seq(Nat)]
  BY <1>1, EmptySeq
<1>6. StepInvariant'
  BY <1>1, <1>3, <1>4, <1>5, EmptySeq DEF StepInvariant, InStep
<1>7. Books(step', seed', <<>>, {}, known', producers')
  <2>1. <<>> \in Seq(Invocations) /\ DOMAIN <<>> = {}
    BY EmptySeq
  <2>2. Distinct(<<>>) /\ Matched(<<>>, {}) /\ Lineage(step', seed', <<>>, {})
    BY <2>1 DEF Distinct, Matched, Lineage
  <2>3. Known(step', seed', <<>>, {}, known', producers')
    BY <1>1 DEF Known
  <2> QED BY <1>1, <1>2, <1>3, <2>1, <2>2, <2>3 DEF Books
<1>8. BooksInvariant'
  BY <1>1, <1>7 DEF BooksInvariant
<1>9. Tracker!Numbers' = {}
  BY <1>1 DEF Tracker!Numbers
<1>10. EngineInvariant'
  BY <1>1, <1>9 DEF EngineInvariant
<1>11. CompletedInvariant' /\ SiblingInvariant' /\ ResultsInvariant' /\ SelectedInvariant'
  BY <1>1, <1>9 DEF CompletedInvariant, SiblingInvariant, ResultsInvariant,
     SelectedInvariant
<1>12. PendingInvariant'
  BY <1>1 DEF PendingInvariant
<1> QED BY <1>6, <1>8, <1>10, <1>11, <1>12 DEF TrackerInvariant

\* The value an engine is started with is one of the values.
LEMMA NextSeedType ==
  ASSUME TrackerInv, pc = "executing" PROVE NextSeed \in Values
<1>1. pc \in InStep
  BY DEF InStep
<1> USE <1>1, StepFacts
<1>2. seed.value \in Values
  BY DEF Candidates
<1>3. \A i \in Ended : i \in DOMAIN invocations /\ invocations[i].raw \in RawResults
  BY DEF Ended, Invocations
<1>4. \A i \in Ended : invocations[i].raw.score \in Nat /\ invocations[i].raw.value \in Values
  BY <1>3, CompositionAssumption
<1>5. Ended # {} => FirstBest(Ended, [i \in Ended |-> invocations[i].raw.score]) \in Ended
  <2>1. IsFiniteSet(Ended) /\ Ended \in SUBSET Nat
    <3>1. IsFiniteSet(DOMAIN invocations)
      BY FiniteDomain
    <3>2. Ended \subseteq DOMAIN invocations
      BY <1>3
    <3> QED BY <3>1, <3>2, FS_Subset
  <2> DEFINE score == [i \in Ended |-> invocations[i].raw.score]
  <2>2. \A i \in Ended : score[i] \in Nat
    BY <1>4
  <2> HIDE DEF score
  <2>3. Ended # {} => FirstBest(Ended, score) \in Ended
    BY <2>1, <2>2, FirstBestIsBest
  <2> QED BY <2>3 DEF score
<1> QED BY <1>2, <1>4, <1>5 DEF NextSeed

\* What the tracker starts is the entry the books speak of.
LEMMA InvocationIsEntry ==
  ASSUME TrackerInv, pc \in InStep, NEW e, NEW v, NEW state
  PROVE  /\ Tracker!Invocation(e, v) = Entry(seed, invocations, known, producers, e, v, "running")
         /\ [Tracker!Invocation(e, v) EXCEPT !.state = state]
              = Entry(seed, invocations, known, producers, e, v, state)
<1>1. Tracker!RunsOf(e) = Of(invocations, e)
  BY StepFacts DEF Tracker!RunsOf, Of
<1>2. parent = seed.id
  BY StepFacts
<1>3. Tracker!Invocation(e, v) = Entry(seed, invocations, known, producers, e, v, "running")
  <2>1. Tracker!Cardinality(Tracker!RunsOf(e)) = Cardinality(Of(invocations, e))
    BY <1>1 DEF Tracker!Cardinality, Cardinality, Tracker!IsFiniteSet, IsFiniteSet
  <2>2. Tracker!ParentOf(v) = IF producers[v] = None THEN seed.id ELSE producers[v]
    BY <1>2 DEF Tracker!ParentOf
  <2>3. Tracker!InputCandidate(v) = IF known[v] = None THEN [value |-> v, id |-> None] ELSE known[v]
    BY DEF Tracker!InputCandidate
  <2> QED BY <2>1, <2>2, <2>3 DEF Tracker!Invocation, Entry
<1>4. [Entry(seed, invocations, known, producers, e, v, "running") EXCEPT !.state = state]
        = Entry(seed, invocations, known, producers, e, v, state)
  BY DEF Entry
<1> QED BY <1>3, <1>4

\* What a step of an engine leaves alone
Quiet == UNCHANGED <<composition, pc, steps, candidate, results, runs, selected,
                     rescored, step, seed, parent>>

\* An engine is started.
LEMMA TrackerRuns ==
  ASSUME TrackerInv, NEW e \in Engines, RunEngine(e) PROVE TrackerInvariant'
<1> DEFINE n == Len(invocations) + 1
           x(state) == Entry(seed, invocations, known, producers, e, NextSeed, state)
<1>0. pc = "executing" /\ pc \in InStep
  BY DEF RunEngine, InStep
<1>1. NextSeed \in Values
  BY <1>0, NextSeedType
<1>2. /\ Quiet /\ UNCHANGED <<pending, completed, known, producers>>
      /\ active' = [active EXCEPT ![e] = n] /\ MayRun(e)
  BY DEF RunEngine, Tracker!StartEngine, InExecute, AtHome, progress, resolution,
     Quiet
<1>3. PICK state \in {"running", "broken"} : invocations' = Append(invocations, x(state))
  BY <1>0, InvocationIsEntry DEF RunEngine, Tracker!StartEngine
<1>4. x(state) \in Invocations
  BY <1>0, <1>1, StepFacts, EntryType DEF Books, Tracker!States
<1>5. x(state).state = state /\ x(state).engine = e /\ x(state).raw = None
  BY DEF Entry
<1>6. Books(step, seed, invocations', completed, known, producers)
  BY <1>0, <1>1, <1>3, StepFacts, BooksStarted DEF Tracker!States
<1> DEFINE y == x(state)
<1>7. invocations' = Append(invocations, y) /\ y \in Invocations
      /\ y.state = state /\ y.engine = e /\ y.raw = None
  BY <1>3, <1>4, <1>5
<1> HIDE DEF y, x
<1>8. /\ Tracker!Numbers = DOMAIN invocations
      /\ Tracker!Numbers' = DOMAIN invocations \cup {n} /\ n \notin DOMAIN invocations
      /\ invocations'[n] = y /\ \A i \in DOMAIN invocations : invocations'[i] = invocations[i]
      /\ n # 0
  BY <1>0, <1>7, StepFacts DEF Tracker!Numbers
<1>9. /\ active' \in [Engines -> Nat] /\ active'[e] = n
      /\ \A d \in Engines \ {e} : active'[d] = active[d]
  BY <1>0, <1>2, <1>8, StepFacts
<1>10. \A i \in DOMAIN invocations : invocations[i].engine = e => invocations[i].state # "running"
  BY <1>0, <1>2, StepFacts DEF MayRun, Tracker!RunsOf, Tracker!Running,
     Tracker!InState
<1>11. Kind = "adaptive" \/ Kind = "sequential" => Tracker!Running = {}
  BY <1>2 DEF MayRun
<1>12. Kind' = Kind
  BY <1>2 DEF Quiet, Kind
<1>13. \A i \in DOMAIN invocations : invocations[i].state \notin {"failed", "broken"}
  BY <1>0, <1>2, StepFacts DEF MayRun, Tracker!Halted, Tracker!InState
<1>14. StepInvariant'
  <2>1. StepInvariant
    BY DEF TrackerInv, TrackerInvariant
  <2> QED BY <1>0, <1>2, <1>9, <2>1 DEF StepInvariant, Quiet
<1>15. BooksInvariant'
  BY <1>2, <1>6 DEF BooksInvariant, Quiet
<1>16. CompletedInvariant'
  <2>1. CompletedInvariant
    BY DEF TrackerInv, TrackerInvariant
  <2> QED BY <1>0, <1>2, <1>7, <1>8, <2>1 DEF CompletedInvariant, Quiet
<1>17. PendingInvariant'
  <2>1. PendingInvariant
    BY DEF TrackerInv, TrackerInvariant
  <2> QED BY <1>0, <1>2, <1>8, <2>1 DEF PendingInvariant, Quiet
<1>18. ResultsInvariant' /\ SelectedInvariant'
  BY <1>0, <1>2 DEF ResultsInvariant, SelectedInvariant, Quiet
<1>19. EngineInvariant'
  <2>1. EngineInvariant
    BY DEF TrackerInv, TrackerInvariant
  <2>2. \A i \in Tracker!Numbers' :
          invocations'[i].state = "running" => active'[invocations'[i].engine] = i
    <3> SUFFICES ASSUME NEW i \in DOMAIN invocations, invocations[i].state = "running"
                 PROVE  active'[invocations[i].engine] = i
      BY <1>7, <1>8, <1>9
    <3>1. invocations[i] \in Invocations /\ i \in Tracker!Numbers
      BY <1>0, StepFacts
    <3>2. invocations[i].engine \in Engines \ {e} /\ active[invocations[i].engine] = i
      BY <1>0, <1>10, <2>1, <3>1 DEF EngineInvariant, Invocations
    <3> QED BY <1>9, <3>2
  <2>3. ASSUME Kind = "adaptive"
        PROVE  \A d \in Engines : active'[d] # 0 => d = e
    <3>1. \A i \in DOMAIN invocations : invocations[i].state # "running"
      BY <1>8, <1>11, <2>3 DEF Tracker!Running, Tracker!InState
    <3> QED BY <1>0, <1>8, <1>9, <1>13, <2>1, <2>3, <3>1 DEF EngineInvariant
  <2>4. ASSUME Kind = "adaptive", state = "broken" PROVE Tracker!Running' = {}
    BY <1>7, <1>8, <1>11, <2>4 DEF Tracker!Running, Tracker!InState
  <2> QED BY <1>0, <1>2, <1>7, <1>8, <1>9, <1>12, <2>2, <2>3, <2>4
      DEF EngineInvariant, Quiet
<1>20. SiblingInvariant'
  <2>1. SiblingInvariant
    BY DEF TrackerInv, TrackerInvariant
  <2>2. ASSUME Kind # "adaptive"
        PROVE  /\ e <= composition.steps[step].engines
               /\ Kind = "sequential" => e = n
               /\ \A i \in DOMAIN invocations : invocations[i].engine # e
    <3>1. e <= composition.steps[step].engines
      BY <1>2 DEF MayRun
    <3>2. CASE Kind = "sequential"
      <4>1. e = n
        BY <1>2, <3>2 DEF MayRun
      <4> QED BY <1>0, <1>8, <3>1, <3>2, <4>1, <2>1 DEF SiblingInvariant
    <3>3. CASE Kind # "sequential"
      BY <1>0, <1>2, <2>2, <3>1, <3>3, StepFacts DEF MayRun, Tracker!RunsOf
    <3> QED BY <3>2, <3>3
  <2>3. composition.steps[step]' = composition.steps[step]
    BY <1>2 DEF Quiet
  <2> SUFFICES ASSUME Kind # "adaptive" PROVE SiblingInvariant'
    BY <1>12 DEF SiblingInvariant
  <2>4. \A i, j \in Tracker!Numbers' :
          invocations'[i].engine = invocations'[j].engine => i = j
    <3>1. \A i, j \in DOMAIN invocations :
            invocations[i].engine = invocations[j].engine => i = j
      BY <1>0, <1>8, <2>1 DEF SiblingInvariant
    <3>2. \A i \in DOMAIN invocations : invocations'[i].engine # e
      BY <1>8, <2>2
    <3> QED BY <1>7, <1>8, <3>1, <3>2
  <2>5. \A i \in Tracker!Numbers' :
          /\ invocations'[i].engine <= composition.steps[step].engines
          /\ Kind = "sequential" => invocations'[i].engine = i
          /\ invocations'[i].state = "deferred" =>
               pending[invocations'[i].engine] = <<i>>
    <3>1. \A i \in DOMAIN invocations :
            /\ invocations[i].engine <= composition.steps[step].engines
            /\ Kind = "sequential" => invocations[i].engine = i
            /\ invocations[i].state = "deferred" =>
                 pending[invocations[i].engine] = <<i>>
      BY <1>0, <1>8, <2>1 DEF SiblingInvariant
    <3>2. /\ invocations'[n].engine <= composition.steps[step].engines
          /\ Kind = "sequential" => invocations'[n].engine = n
          /\ invocations'[n].state # "deferred"
      BY <1>7, <1>8, <2>2
    <3> HIDE DEF n
    <3> QED BY <1>8, <3>1, <3>2
  <2> QED BY <1>0, <1>2, <1>12, <2>3, <2>4, <2>5 DEF SiblingInvariant, Quiet
<1> QED BY <1>14, <1>15, <1>16, <1>17, <1>18, <1>19, <1>20 DEF TrackerInvariant

----------------------------------------------------------------------------
(* An invocation that runs stops.                                          *)

\* An invocation that runs is in no other part of the books.
LEMMA RunningFacts ==
  ASSUME TrackerInv, pc = "executing", NEW i \in Tracker!Numbers,
         invocations[i].state = "running"
  PROVE  /\ i \in DOMAIN invocations /\ invocations[i] \in Invocations
         /\ active[invocations[i].engine] = i /\ i # 0 /\ i \in Nat
         /\ \A p \in completed : p[1] # i /\ p[2] # i
         /\ \A e \in Engines : \A k \in DOMAIN pending[e] : pending[e][k] # i
<1>1. pc \in InStep
  BY DEF InStep
<1>2. /\ i \in DOMAIN invocations /\ invocations[i] \in Invocations /\ i # 0 /\ i \in Nat
  BY <1>1, StepFacts
<1>3. active[invocations[i].engine] = i
  BY <1>1 DEF TrackerInv, TrackerInvariant, EngineInvariant
<1>4. \A p \in completed : p[1] = p[2] /\ invocations[p[2]].state \in {"completed", "broken"}
  BY <1>1 DEF TrackerInv, TrackerInvariant, CompletedInvariant, BooksInvariant,
     Books, Matched
<1>5. \A e \in Engines : \A k \in DOMAIN pending[e] : invocations[pending[e][k]].state = "deferred"
  BY <1>1 DEF TrackerInv, TrackerInvariant, PendingInvariant
<1> QED BY <1>2, <1>3, <1>4, <1>5

\* An engine that stops leaves the others as they are.
LEMMA EngineStops ==
  ASSUME TrackerInv, pc = "executing", NEW i \in Tracker!Numbers,
         invocations[i].state = "running", Quiet,
         active' = [active EXCEPT ![invocations[i].engine] = 0],
         NEW x, Becomes(invocations, i, x, invocations'), x.state # "running"
  PROVE  /\ EngineInvariant' /\ active' \in [Engines -> Nat]
         /\ Tracker!Numbers' = DOMAIN invocations
         /\ \A j \in DOMAIN invocations : invocations'[j].engine = invocations[j].engine
         /\ \A j \in DOMAIN invocations \ {i} : invocations'[j] = invocations[j]
<1>0. pc \in InStep
  BY DEF InStep
<1> USE <1>0, StepFacts
<1>1. /\ DOMAIN invocations' = DOMAIN invocations /\ invocations' \in Seq(Invocations)
      /\ \A j \in DOMAIN invocations \ {i} : invocations'[j] = invocations[j]
      /\ invocations'[i] = x /\ x.engine = invocations[i].engine
  BY DEF Becomes
<1>2. Tracker!Numbers' = DOMAIN invocations
  BY <1>1 DEF Tracker!Numbers
<1>3. \A j \in DOMAIN invocations : invocations'[j].engine = invocations[j].engine
  BY <1>1
<1>4. invocations[i].engine \in Engines /\ active[invocations[i].engine] = i /\ i # 0
  BY RunningFacts DEF Invocations
<1>5. /\ active' \in [Engines -> Nat] /\ active'[invocations[i].engine] = 0
      /\ \A e \in Engines \ {invocations[i].engine} : active'[e] = active[e]
  BY <1>4
<1>6. EngineInvariant
  BY DEF TrackerInv, TrackerInvariant
<1>7. \A j \in DOMAIN invocations :
        invocations'[j].state = "running" => active'[invocations'[j].engine] = j
  <2> SUFFICES ASSUME NEW j \in DOMAIN invocations, invocations'[j].state = "running"
               PROVE  active'[invocations'[j].engine] = j
    OBVIOUS
  <2>1. j # i /\ invocations[j].state = "running" /\ invocations[j] \in Invocations
    BY <1>1
  <2>2. active[invocations[j].engine] = j
    BY <1>6, <2>1 DEF EngineInvariant
  <2>3. invocations[j].engine \in Engines /\ invocations[j].engine # invocations[i].engine
    BY <1>4, <2>1, <2>2 DEF Invocations
  <2> QED BY <1>3, <1>5, <2>2, <2>3
<1>8. ASSUME Kind = "adaptive" PROVE \A e \in Engines : active'[e] = 0
  BY <1>4, <1>5, <1>6, <1>8 DEF EngineInvariant
<1>9. Kind' = Kind
  BY DEF Kind, Quiet
<1> QED BY <1>1, <1>2, <1>3, <1>5, <1>7, <1>8, <1>9 DEF EngineInvariant, Quiet

\* An invocation that ends without being deferred leaves the queues alone.
LEMMA QueuesStay ==
  ASSUME TrackerInv, pc = "executing", NEW i \in Tracker!Numbers,
         invocations[i].state = "running", Quiet, UNCHANGED pending,
         NEW x, Becomes(invocations, i, x, invocations'), x.state # "deferred"
  PROVE  PendingInvariant' /\ SiblingInvariant'
<1>0. pc \in InStep
  BY DEF InStep
<1> USE <1>0, StepFacts
<1>1. /\ DOMAIN invocations' = DOMAIN invocations /\ invocations' \in Seq(Invocations)
      /\ \A j \in DOMAIN invocations \ {i} : invocations'[j] = invocations[j]
      /\ invocations'[i].engine = invocations[i].engine
      /\ invocations'[i].state # "deferred"
  BY DEF Becomes
<1>2. Tracker!Numbers' = DOMAIN invocations
  BY <1>1 DEF Tracker!Numbers
<1>3. PendingInvariant'
  <2>1. \A e \in Engines : \A k \in DOMAIN pending[e] : pending[e][k] \in DOMAIN invocations \ {i}
    BY RunningFacts DEF TrackerInv, TrackerInvariant, PendingInvariant
  <2>2. \A e \in Engines : \A k \in DOMAIN pending[e] : invocations'[pending[e][k]] = invocations[pending[e][k]]
    BY <1>1, <2>1
  <2>3. PendingInvariant
    BY DEF TrackerInv, TrackerInvariant
  <2>4. UNCHANGED pending
    OBVIOUS
  <2> QED BY <1>2, <2>1, <2>2, <2>3, <2>4 DEF PendingInvariant
<1>4. SiblingInvariant'
  <2>1. Kind' = Kind /\ composition.steps[step]' = composition.steps[step]
    BY DEF Quiet, Kind
  <2>2. SiblingInvariant
    BY DEF TrackerInv, TrackerInvariant
  <2> SUFFICES ASSUME Kind # "adaptive" PROVE SiblingInvariant'
    BY <2>1 DEF SiblingInvariant
  <2>3. \A j \in DOMAIN invocations : invocations'[j].engine = invocations[j].engine
    BY <1>1
  <2>4. \A j, l \in DOMAIN invocations : invocations'[j].engine = invocations'[l].engine => j = l
    BY <2>2, <2>3 DEF SiblingInvariant
  <2>5. \A j \in DOMAIN invocations :
          /\ invocations'[j].engine <= composition.steps[step].engines
          /\ Kind = "sequential" => invocations'[j].engine = j
          /\ invocations'[j].state = "deferred" =>
               pending[invocations'[j].engine] = <<j>>
    BY <1>1, <2>2, <2>3 DEF SiblingInvariant
  <2>6. pc' = "executing"
    BY DEF Quiet
  <2> QED BY <1>2, <2>1, <2>4, <2>5, <2>6 DEF SiblingInvariant
<1> QED BY <1>3, <1>4

\* It returns: its result is completed.
LEMMA TrackerReturns ==
  ASSUME TrackerInv, NEW i \in Tracker!Numbers, NEW raw \in RawResults,
         EngineReturns(i, raw)
  PROVE  TrackerInvariant'
<1> DEFINE U == [invocations EXCEPT ![i].raw = raw]
<1>0. pc = "executing" /\ pc \in InStep /\ invocations[i].state = "running"
  BY DEF EngineReturns, Tracker!EngineReturns, InStep
<1> USE <1>0, StepFacts
<1>1. i \in DOMAIN invocations /\ invocations[i] \in Invocations
  BY RunningFacts
<1>2. Quiet /\ UNCHANGED pending
  BY DEF EngineReturns, Tracker!EngineReturns, InExecute, AtHome, progress,
     resolution, Quiet
<1>3. /\ U \in Seq(Invocations) /\ DOMAIN U = DOMAIN invocations
      /\ U[i] = [invocations[i] EXCEPT !.raw = raw]
      /\ \A j \in DOMAIN invocations \ {i} : U[j] = invocations[j]
  <2>1. [invocations[i] EXCEPT !.raw = raw] \in Invocations
    BY <1>1 DEF Invocations
  <2> QED BY <1>1, <2>1
<1>4. /\ U[i].raw = raw /\ U[i].engine = invocations[i].engine
      /\ U[i].run = invocations[i].run /\ U[i].input = invocations[i].input
      /\ U[i].parent = invocations[i].parent /\ U[i] \in Invocations
  BY <1>1, <1>3 DEF Invocations
<1>5. PICK state \in {"completed", "broken"} : invocations' = [U EXCEPT ![i].state = state]
  BY DEF EngineReturns, Tracker!EngineReturns, Tracker!Complete
<1>6. /\ completed' = completed \cup {<<i, i>>}
      /\ known' = [known EXCEPT ![raw.value] =
                     [value |-> raw.value, id |-> <<step, U[i].engine, U[i].run>>]]
      /\ producers' = [producers EXCEPT ![raw.value] = <<step, U[i].engine, U[i].run>>]
      /\ active' = [active EXCEPT ![U[i].engine] = 0]
  BY DEF EngineReturns, Tracker!EngineReturns, Tracker!Complete
<1> HIDE DEF U
<1>7. Becomes(invocations, i, U[i], U)
  BY <1>3, <1>4 DEF Becomes
<1>8. Books(step, seed, U, completed, known, producers)
  BY <1>1, <1>7, RunningFacts, BooksChanged
<1>9. Books(step, seed, invocations', completed', known', producers')
  <2>1. raw # None /\ \A p \in completed : p[1] # i /\ p[2] # i
    BY RunningFacts, NoneAssumption
  <2>2. LET v == U[i].raw.value IN
        Books(step, seed, [U EXCEPT ![i].state = state], completed \cup {<<i, i>>},
              [known EXCEPT ![v] = OutputAt(step, U, i, i)],
              [producers EXCEPT ![v] = IdAt(step, U, i)])
    BY <1>1, <1>3, <1>4, <1>8, <2>1, BooksCompleted
  <2>3. /\ OutputAt(step, U, i, i) = [value |-> raw.value, id |-> <<step, U[i].engine, U[i].run>>]
        /\ IdAt(step, U, i) = <<step, U[i].engine, U[i].run>>
    BY <1>4 DEF OutputAt, IdAt
  <2> QED BY <1>4, <1>5, <1>6, <2>2, <2>3
<1>10. /\ invocations' \in Seq(Invocations) /\ DOMAIN invocations' = DOMAIN invocations
       /\ invocations'[i] = [U[i] EXCEPT !.state = state]
       /\ \A j \in DOMAIN invocations \ {i} : invocations'[j] = invocations[j]
  BY <1>1, <1>3, <1>5, <1>9 DEF Books
<1>11. /\ invocations'[i].state = state /\ invocations'[i].raw = raw
       /\ Becomes(invocations, i, invocations'[i], invocations')
  BY <1>4, <1>10 DEF Becomes, Invocations
<1>12. /\ EngineInvariant' /\ active' \in [Engines -> Nat]
       /\ Tracker!Numbers' = DOMAIN invocations
       /\ \A j \in DOMAIN invocations : invocations'[j].engine = invocations[j].engine
  BY <1>2, <1>4, <1>6, <1>11, EngineStops
<1>13. StepInvariant'
  BY <1>2, <1>12 DEF TrackerInv, TrackerInvariant, StepInvariant, Quiet
<1>14. BooksInvariant'
  BY <1>2, <1>9 DEF BooksInvariant, Quiet
<1>15. CompletedInvariant'
  <2>1. CompletedInvariant
    BY DEF TrackerInv, TrackerInvariant
  <2>2. \A p \in completed' : p[1] = p[2]
    BY <1>6, <2>1 DEF CompletedInvariant
  <2>3. invocations'[i].raw # None /\ <<i, i>> \in completed'
    BY <1>6, <1>11, NoneAssumption
  <2>4. \A j \in DOMAIN invocations :
          /\ invocations'[j].state = "completed" => <<j, j>> \in completed'
          /\ invocations'[j].state \in {"completed", "deferred"} => invocations'[j].raw # None
    BY <1>6, <1>10, <2>1, <2>3 DEF CompletedInvariant
  <2> QED BY <1>12, <2>2, <2>4 DEF CompletedInvariant
<1>16. PendingInvariant' /\ SiblingInvariant'
  BY <1>2, <1>11, QueuesStay
<1>17. ResultsInvariant' /\ SelectedInvariant'
  BY <1>2 DEF ResultsInvariant, SelectedInvariant, Quiet
<1> QED BY <1>12, <1>13, <1>14, <1>15, <1>16, <1>17 DEF TrackerInvariant

\* It raises.
LEMMA TrackerRaises ==
  ASSUME TrackerInv, NEW i \in Tracker!Numbers, EngineRaises(i)
  PROVE  TrackerInvariant'
<1>0. pc = "executing" /\ pc \in InStep /\ invocations[i].state = "running"
  BY DEF EngineRaises, Tracker!EngineRaises, InStep
<1> USE <1>0, StepFacts
<1>1. i \in DOMAIN invocations /\ invocations[i] \in Invocations
  BY RunningFacts
<1>2. /\ Quiet /\ UNCHANGED <<pending, completed, known, producers>>
      /\ invocations' = [invocations EXCEPT ![i].state = "failed"]
      /\ active' = [active EXCEPT ![invocations[i].engine] = 0]
  BY DEF EngineRaises, Tracker!EngineRaises, InExecute, AtHome, progress,
     resolution, Quiet
<1>3. /\ invocations' \in Seq(Invocations) /\ DOMAIN invocations' = DOMAIN invocations
      /\ invocations'[i] = [invocations[i] EXCEPT !.state = "failed"]
      /\ \A j \in DOMAIN invocations \ {i} : invocations'[j] = invocations[j]
  <2>1. [invocations[i] EXCEPT !.state = "failed"] \in Invocations
    BY <1>1 DEF Invocations, Tracker!States
  <2> QED BY <1>1, <1>2, <2>1
<1>4. /\ invocations'[i].state = "failed"
      /\ Becomes(invocations, i, invocations'[i], invocations')
  BY <1>1, <1>3 DEF Becomes, Invocations
<1>5. Books(step, seed, invocations', completed, known, producers)
  BY <1>1, <1>4, RunningFacts, BooksChanged
<1>12. /\ EngineInvariant' /\ active' \in [Engines -> Nat]
       /\ Tracker!Numbers' = DOMAIN invocations
       /\ \A j \in DOMAIN invocations : invocations'[j].engine = invocations[j].engine
  BY <1>2, <1>4, EngineStops
<1>13. StepInvariant'
  BY <1>2, <1>12 DEF TrackerInv, TrackerInvariant, StepInvariant, Quiet
<1>14. BooksInvariant'
  BY <1>2, <1>5 DEF BooksInvariant, Quiet
<1>15. CompletedInvariant'
  BY <1>2, <1>3, <1>4, <1>12 DEF TrackerInv, TrackerInvariant,
     CompletedInvariant, Quiet
<1>16. PendingInvariant' /\ SiblingInvariant'
  BY <1>2, <1>4, QueuesStay
<1>17. ResultsInvariant' /\ SelectedInvariant'
  BY <1>2 DEF ResultsInvariant, SelectedInvariant, Quiet
<1> QED BY <1>12, <1>13, <1>14, <1>15, <1>16, <1>17 DEF TrackerInvariant

\* It is cut off by its budget: its result is pending.
LEMMA TrackerExhausted ==
  ASSUME TrackerInv, NEW i \in Tracker!Numbers, NEW raw \in RawResults,
         EngineExhausted(i, raw)
  PROVE  TrackerInvariant'
<1> DEFINE e == invocations[i].engine
<1>0. pc = "executing" /\ pc \in InStep /\ invocations[i].state = "running"
  BY DEF EngineExhausted, Tracker!EngineExhausted, InStep
<1> USE <1>0, StepFacts
<1>1. i \in DOMAIN invocations /\ invocations[i] \in Invocations /\ e \in Engines
      /\ i \in Nat
  BY RunningFacts DEF Invocations
<1>2. /\ Quiet /\ UNCHANGED <<completed, known, producers>>
      /\ invocations' = [invocations EXCEPT ![i].state = "deferred", ![i].raw = raw]
      /\ active' = [active EXCEPT ![invocations[i].engine] = 0]
      /\ pending' = [pending EXCEPT ![invocations[i].engine] = Append(@, i)]
  BY DEF EngineExhausted, Tracker!EngineExhausted, InExecute, AtHome, progress,
     resolution, Quiet
<1>3. /\ invocations' \in Seq(Invocations) /\ DOMAIN invocations' = DOMAIN invocations
      /\ invocations'[i] = [invocations[i] EXCEPT !.state = "deferred", !.raw = raw]
      /\ \A j \in DOMAIN invocations \ {i} : invocations'[j] = invocations[j]
  <2>1. [invocations[i] EXCEPT !.state = "deferred", !.raw = raw] \in Invocations
    BY <1>1 DEF Invocations, Tracker!States
  <2> DEFINE x == [invocations[i] EXCEPT !.state = "deferred", !.raw = raw]
  <2>2. invocations' = [j \in DOMAIN invocations |-> IF j = i THEN x ELSE invocations[j]]
    BY <1>1, <1>2
  <2>3. x \in Invocations
    BY <2>1
  <2>5. invocations \in Seq(Invocations) /\ i \in DOMAIN invocations
    BY <1>1
  <2> HIDE StepFacts
  <2> HIDE DEF x
  <2>4. /\ invocations' \in Seq(Invocations) /\ DOMAIN invocations' = DOMAIN invocations
        /\ invocations'[i] = x
        /\ \A j \in DOMAIN invocations \ {i} : invocations'[j] = invocations[j]
    BY <2>5, <2>2, <2>3, UpdateFacts
  <2> QED BY <2>4 DEF x
<1>4. /\ invocations'[i].state = "deferred" /\ invocations'[i].raw = raw
      /\ Becomes(invocations, i, invocations'[i], invocations')
  BY <1>1, <1>3 DEF Becomes, Invocations
<1>5. Books(step, seed, invocations', completed, known, producers)
  BY <1>1, <1>4, RunningFacts, BooksChanged
<1>6. pending[e] \in Seq(Nat) /\ \A d \in Engines : \A k \in DOMAIN pending[d] : pending[d][k] # i
  BY <1>1, RunningFacts
<1>7. /\ pending' \in [Engines -> Seq(Nat)] /\ pending'[e] = Append(pending[e], i)
      /\ \A d \in Engines \ {e} : pending'[d] = pending[d]
  BY <1>1, <1>2, <1>6
<1>12. /\ EngineInvariant' /\ active' \in [Engines -> Nat]
       /\ Tracker!Numbers' = DOMAIN invocations
       /\ \A j \in DOMAIN invocations : invocations'[j].engine = invocations[j].engine
  BY <1>2, <1>4, EngineStops
<1>13. StepInvariant'
  BY <1>2, <1>7, <1>12 DEF TrackerInv, TrackerInvariant, StepInvariant, Quiet
<1>14. BooksInvariant'
  BY <1>2, <1>5 DEF BooksInvariant, Quiet
<1>15. CompletedInvariant'
  BY <1>2, <1>3, <1>4, <1>12, NoneAssumption DEF TrackerInv, TrackerInvariant,
     CompletedInvariant, Quiet
<1> HIDE DEF e
<1>16. PendingInvariant'
  <2>1. PendingInvariant
    BY DEF TrackerInv, TrackerInvariant
  <2> SUFFICES ASSUME NEW d \in Engines, NEW k \in DOMAIN pending'[d]
               PROVE  /\ pending'[d][k] \in DOMAIN invocations
                      /\ invocations'[pending'[d][k]].engine = d
                      /\ invocations'[pending'[d][k]].state = "deferred"
                      /\ \A l \in DOMAIN pending'[d] : pending'[d][k] = pending'[d][l] => k = l
    BY <1>12 DEF PendingInvariant
  <2>2. \A c \in Engines : \A m \in DOMAIN pending[c] :
          /\ pending[c][m] \in DOMAIN invocations
          /\ invocations'[pending[c][m]].engine = c
          /\ invocations'[pending[c][m]].state = "deferred"
          /\ \A l \in DOMAIN pending[c] : pending[c][m] = pending[c][l] => m = l
    BY <1>3, <1>6, <2>1 DEF PendingInvariant
  <2>3. CASE d # e
    BY <1>7, <2>2, <2>3
  <2>4. CASE d = e
    <3>1. /\ DOMAIN pending'[e] = DOMAIN pending[e] \cup {Len(pending[e]) + 1}
          /\ Len(pending[e]) + 1 \notin DOMAIN pending[e]
          /\ pending'[e][Len(pending[e]) + 1] = i
          /\ \A m \in DOMAIN pending[e] : pending'[e][m] = pending[e][m]
      <4> DEFINE q == pending[e]
      <4>1. q \in Seq(Nat) /\ pending'[e] = Append(q, i)
        BY <1>6, <1>7
      <4> HIDE StepFacts
      <4> HIDE DEF q
      <4>2. /\ DOMAIN Append(q, i) = DOMAIN q \cup {Len(q) + 1} /\ Len(q) + 1 \notin DOMAIN q
            /\ Append(q, i)[Len(q) + 1] = i
            /\ \A m \in DOMAIN q : Append(q, i)[m] = q[m]
        BY <1>1, <4>1, AppendFacts
      <4> QED BY <4>1, <4>2 DEF q
    <3>2. invocations'[i].engine = e
      BY <1>1, <1>12 DEF e
    <3> QED BY <1>1, <1>4, <1>6, <2>2, <2>4, <3>1, <3>2
  <2> QED BY <2>3, <2>4
<1>17. ResultsInvariant' /\ SelectedInvariant'
  BY <1>2 DEF ResultsInvariant, SelectedInvariant, Quiet
<1>18. SiblingInvariant'
  <2>1. Kind' = Kind /\ composition.steps[step]' = composition.steps[step]
    BY <1>2 DEF Quiet, Kind
  <2>2. SiblingInvariant /\ PendingInvariant
    BY DEF TrackerInv, TrackerInvariant
  <2> SUFFICES ASSUME Kind # "adaptive" PROVE SiblingInvariant'
    BY <2>1 DEF SiblingInvariant
  <2>3. \A k \in DOMAIN pending[e] :
          pending[e][k] \in DOMAIN invocations /\ invocations[pending[e][k]].engine = e
    BY <1>1, <2>2 DEF PendingInvariant
  <2>4. DOMAIN pending[e] = {}
    BY <1>1, <1>6, <2>2, <2>3 DEF SiblingInvariant, e
  <2>5. pending'[e] = <<i>>
    <3> DEFINE q == pending[e]
    <3>1. q \in Seq(Nat) /\ DOMAIN q = {} /\ pending'[e] = Append(q, i)
      BY <1>6, <1>7, <2>4
    <3> HIDE DEF q
    <3>2. q = <<>>
      BY <3>1
    <3> QED BY <1>1, <3>1, <3>2
  <2>6. \A j \in DOMAIN invocations \ {i} : invocations[j].engine # e /\ invocations[j].engine \in Engines
    BY <1>1, <2>2 DEF SiblingInvariant, e, Invocations
  <2>7. \A j \in DOMAIN invocations :
          /\ invocations'[j].engine <= composition.steps[step].engines
          /\ Kind = "sequential" => invocations'[j].engine = j
    BY <1>12, <2>2 DEF SiblingInvariant
  <2>8. \A j \in DOMAIN invocations :
          invocations'[j].state = "deferred" => pending'[invocations'[j].engine] = <<j>>
    <3>1. invocations'[i].engine = e
      BY <1>1, <1>12 DEF e
    <3>2. \A j \in DOMAIN invocations \ {i} :
            invocations[j].state = "deferred" => pending[invocations[j].engine] = <<j>>
      BY <2>2 DEF SiblingInvariant
    <3> SUFFICES ASSUME NEW j \in DOMAIN invocations, invocations'[j].state = "deferred"
                 PROVE  pending'[invocations'[j].engine] = <<j>>
      OBVIOUS
    <3>3. CASE j = i
      BY <2>5, <3>1, <3>3
    <3>4. CASE j # i
      <4>1. invocations'[j] = invocations[j] /\ invocations[j].engine \in Engines \ {e}
        BY <1>3, <2>6, <3>4
      <4> QED BY <1>7, <3>2, <3>4, <4>1
    <3> QED BY <3>3, <3>4
  <2>9. \A j, l \in DOMAIN invocations : invocations'[j].engine = invocations'[l].engine => j = l
    BY <1>12, <2>2 DEF SiblingInvariant
  <2>10. pc' = "executing"
    BY <1>2 DEF Quiet
  <2> QED BY <1>12, <2>1, <2>7, <2>8, <2>9, <2>10 DEF SiblingInvariant
<1> QED BY <1>12, <1>13, <1>14, <1>15, <1>16, <1>17, <1>18 DEF TrackerInvariant

----------------------------------------------------------------------------
(* The engines are done: their results are resolved and one is selected.   *)

\* What an ensemble lists, and what is made of it
LEMMA ListedFacts ==
  ASSUME TrackerInv, ExecuteReturns
  PROVE  /\ Listed \in Seq(Nat) /\ Len(Listed) \in Nat \ {0}
         /\ \A k \in DOMAIN Listed :
              /\ Listed[k] \in DOMAIN invocations
              /\ \A l \in DOMAIN Listed : Listed[k] = Listed[l] => k = l
         /\ \A i \in DOMAIN invocations : \E k \in DOMAIN Listed : Listed[k] = i
<1>0. pc = "executing" /\ pc \in InStep
  BY DEF ExecuteReturns, InStep
<1>1. /\ invocations \in Seq(Invocations) /\ Tracker!Numbers = DOMAIN invocations
      /\ DOMAIN invocations = 1..Len(invocations) /\ Len(invocations) \in Nat
      /\ \A i \in DOMAIN invocations : i \in Nat
  BY <1>0, StepFacts
<1>2. CASE Kind = "adaptive"
  <2>1. Listed = [i \in 1..Len(invocations) |-> i]
    BY <1>1, <1>2 DEF Listed
  <2>2. Len(invocations) # 0
    BY <1>1, <1>2, EmptySeq DEF ExecuteReturns
  <2> QED BY <1>1, <2>1, <2>2
<1>3. CASE Kind # "adaptive"
  <2> DEFINE m == composition.steps[step].engines
             Of1(e) == CHOOSE i \in DOMAIN invocations : invocations[i].engine = e
  <2>1. m \in Nat \ {0}
    BY <1>0, StepFacts, CompositionAssumption
  <2>2. Listed = [e \in 1..m |-> Of1(e)]
    BY <1>1, <1>3 DEF Listed
  <2>3. \A e \in 1..m : \E i \in DOMAIN invocations : invocations[i].engine = e
    BY <1>1, <1>3 DEF ExecuteReturns, Tracker!RunsOf
  <2>4. \A e \in 1..m : Of1(e) \in DOMAIN invocations /\ invocations[Of1(e)].engine = e
    BY <2>3
  <2>5. SiblingInvariant
    BY DEF TrackerInv, TrackerInvariant
  <2>6. \A i \in DOMAIN invocations : invocations[i].engine \in 1..m
    <3> SUFFICES ASSUME NEW i \in DOMAIN invocations PROVE invocations[i].engine \in 1..m
      OBVIOUS
    <3>1. invocations[i].engine \in Nat \ {0}
      <4>1. invocations[i].engine \in Engines
        BY <1>0, StepFacts DEF Invocations
      <4> QED BY <4>1, CompositionAssumption
    <3>2. invocations[i].engine <= m
      BY <1>0, <1>1, <1>3, <2>5 DEF SiblingInvariant
    <3> QED BY <2>1, <3>1, <3>2
  <2>7. \A i \in DOMAIN invocations : Of1(invocations[i].engine) = i
    BY <1>0, <1>1, <1>3, <2>4, <2>5, <2>6 DEF SiblingInvariant
  <2> HIDE DEF m, Of1
  <2>8. Listed \in Seq(Nat) /\ Len(Listed) = m /\ DOMAIN Listed = 1..m
        /\ \A e \in 1..m : Listed[e] = Of1(e)
    BY <1>1, <2>1, <2>2, <2>4
  <2> QED BY <2>1, <2>4, <2>6, <2>7, <2>8
<1> QED BY <1>2, <1>3

\* The engines are done and their results are to be resolved.
LEMMA TrackerExecuted ==
  ASSUME TrackerInv, ExecuteReturns PROVE TrackerInvariant'
<1>0. pc = "executing" /\ pc \in InStep /\ pc' = "resolving" /\ pc' \in InStep
  BY DEF ExecuteReturns, InStep
<1>1. /\ UNCHANGED <<composition, steps, candidate, runs, selected, tracker>>
      /\ results' = Listed /\ (rescored' = Len(Listed) \/ rescored' = 0)
      /\ Tracker!Running = {} /\ ~Tracker!Halted
  BY DEF ExecuteReturns, AtHome, progress
<1>2. UNCHANGED <<step, seed, parent, invocations, active, pending, completed, known, producers>>
  BY <1>1 DEF tracker
<1>3. Kind' = Kind
  BY <1>1, <1>2 DEF Kind
<1>4. /\ Tracker!Numbers = DOMAIN invocations /\ Tracker!Numbers' = DOMAIN invocations
      /\ \A i \in DOMAIN invocations : invocations[i].state \in {"completed", "deferred"}
  <2>1. Tracker!Numbers = DOMAIN invocations
        /\ \A i \in DOMAIN invocations : invocations[i] \in Invocations
    BY <1>0, StepFacts
  <2>2. Tracker!Numbers' = Tracker!Numbers
    BY <1>2 DEF Tracker!Numbers
  <2> QED BY <1>1, <2>1, <2>2 DEF Tracker!Running, Tracker!Halted,
      Tracker!InState, Invocations, Tracker!States
<1>5. /\ results' \in Seq(Nat) /\ Len(results') \in Nat \ {0} /\ rescored' \in Nat
      /\ \A k \in DOMAIN results' :
           /\ results'[k] \in DOMAIN invocations
           /\ \A l \in DOMAIN results' : results'[k] = results'[l] => k = l
      /\ \A i \in DOMAIN invocations : \E k \in DOMAIN results' : results'[k] = i
  BY <1>1, ListedFacts
<1>6. StepInvariant'
  BY <1>0, <1>1, <1>2, <1>5 DEF TrackerInv, TrackerInvariant, StepInvariant
<1>7. EngineInvariant'
  BY <1>0, <1>1, <1>2, <1>4 DEF EngineInvariant, Tracker!Running, Tracker!InState
<1>8. BooksInvariant' /\ PendingInvariant'
  BY <1>0, <1>2, <1>4 DEF TrackerInv, TrackerInvariant, BooksInvariant,
     PendingInvariant
<1>9. CompletedInvariant' /\ SelectedInvariant'
  BY <1>0 DEF CompletedInvariant, SelectedInvariant
<1>10. CompletedInvariant /\ SiblingInvariant
  BY DEF TrackerInv, TrackerInvariant
<1>11. runs = <<>> /\ completed \in SUBSET (Nat \X Nat)
  BY <1>0, StepFacts
<1>12. \A p \in completed : p[1] = p[2] /\ p[1] \in DOMAIN invocations
  BY <1>0, <1>10, StepFacts DEF CompletedInvariant, Books, Matched
<1>13. ResultsInvariant'
  <2>1. results' # <<>> /\ Len(runs') <= Len(results') /\ DOMAIN runs' = {}
    BY <1>1, <1>5, <1>11
  <2>2. \A k \in DOMAIN results' : invocations[results'[k]].raw # None
    BY <1>0, <1>4, <1>5, <1>10 DEF CompletedInvariant
  <2>3. \A p \in completed : \E k \in DOMAIN results' : p[1] = results'[k]
    BY <1>5, <1>12
  <2> QED BY <1>0, <1>2, <1>4, <1>5, <2>1, <2>2, <2>3 DEF ResultsInvariant
<1>14. SiblingInvariant'
  <2> SUFFICES ASSUME Kind # "adaptive" PROVE SiblingInvariant'
    BY <1>3 DEF SiblingInvariant
  <2>1. \A i \in DOMAIN invocations : invocations[i].state = "deferred" \/ <<i, i>> \in completed
    BY <1>0, <1>4, <1>10 DEF CompletedInvariant
  <2>2. \A k \in DOMAIN results' : ~(k <= Len(runs'))
    BY <1>1, <1>5, <1>11
  <2>3. composition.steps[step]' = composition.steps[step]
    BY <1>1, <1>2
  <2> QED BY <1>0, <1>2, <1>3, <1>4, <1>5, <1>10, <1>12, <2>1, <2>2, <2>3
      DEF SiblingInvariant
<1> QED BY <1>6, <1>7, <1>8, <1>9, <1>13, <1>14 DEF TrackerInvariant

\* A run is selected, by its score or its votes.
LEMMA TrackerSelects ==
  ASSUME TrackerInv, NEW votes \in [DOMAIN runs -> VoteScores], SelectRun(votes)
  PROVE  TrackerInvariant'
<1>0. pc = "resolving" /\ pc \in InStep /\ pc' = "recording" /\ pc' \in InStep
  BY DEF SelectRun, InStep
<1>1. /\ UNCHANGED <<composition, steps, candidate, results, runs, rescored, tracker>>
      /\ Len(runs) = Len(results) /\ ~Tracker!Halted
  BY DEF SelectRun, AtHome, progress
<1>2. UNCHANGED <<step, seed, parent, invocations, active, pending, completed, known, producers>>
  BY <1>1 DEF tracker
<1>3. Kind' = Kind
  BY <1>1, <1>2 DEF Kind
<1>4. Tracker!Numbers' = Tracker!Numbers /\ Tracker!Running' = Tracker!Running /\ Tracker!Halted' = Tracker!Halted
  BY <1>2 DEF Tracker!Numbers, Tracker!Running, Tracker!Halted, Tracker!InState
<1>5. StepInvariant'
  BY <1>0, <1>1, <1>2 DEF TrackerInv, TrackerInvariant, StepInvariant
<1>6. EngineInvariant' /\ BooksInvariant' /\ CompletedInvariant' /\ PendingInvariant'
  BY <1>0, <1>2, <1>4 DEF TrackerInv, TrackerInvariant, EngineInvariant,
     BooksInvariant,
     CompletedInvariant, PendingInvariant
<1>7. ResultsInvariant'
  BY <1>0, <1>1, <1>2, <1>4 DEF TrackerInv, TrackerInvariant, ResultsInvariant,
     RunAt, IdAt, OutputAt, InStep
<1>8. SiblingInvariant'
  <2>1. composition.steps[step]' = composition.steps[step]
    BY <1>1, <1>2
  <2> QED BY <1>0, <1>1, <1>2, <1>3, <1>4, <2>1 DEF TrackerInv, TrackerInvariant,
      SiblingInvariant
<1>9. SelectedInvariant'
  <2>1. PICK n \in Nat \ {0} : n = Len(runs) /\ DOMAIN runs = 1..n
    <3>1. results # <<>> /\ results \in Seq(Nat) /\ runs \in Seq(Runs)
      BY <1>0, StepFacts DEF TrackerInv, TrackerInvariant, ResultsInvariant
    <3> QED BY <1>1, <3>1, EmptySeq
  <2>2. \A j \in 1..n : runs[j] \in Runs
    BY <1>0, <2>1, StepFacts
  <2> DEFINE scores == [i \in DOMAIN runs |-> runs[i].score]
  <2>3. DOMAIN scores = 1..n /\ \A j \in 1..n : scores[j] \in Nat /\ scores[j] = runs[j].score
    BY <2>1, <2>2 DEF Runs
  <2>4. DOMAIN votes = 1..n /\ \A j \in 1..n : votes[j] \in Nat
    BY <2>1, CompositionAssumption
  <2> HIDE DEF scores
  <2>5. Select(votes) \in 1..n
    BY <2>4, SelectIsBest
  <2>6. Select(scores) \in 1..n /\ \A j \in 1..n : scores[j] <= scores[Select(scores)]
    BY <2>3, SelectIsBest
  <2>7. selected' = IF Kind = "parallel" THEN 0 ELSE IF Kind = "vote" THEN Select(votes) ELSE Select(scores)
    BY DEF SelectRun, scores
  <2>8. Kind # "parallel" => selected' \in 1..n
    BY <2>5, <2>6, <2>7
  <2>9. Kind \notin {"parallel", "vote"} => \A j \in 1..n : runs[j].score <= runs[selected'].score
    BY <2>3, <2>6, <2>7
  <2>10. selected' \in 0..n
    BY <2>7, <2>8
  <2> QED BY <1>1, <1>3, <1>4, <2>1, <2>8, <2>9, <2>10 DEF SelectedInvariant
<1> QED BY <1>5, <1>6, <1>7, <1>8, <1>9 DEF TrackerInvariant

----------------------------------------------------------------------------
(* A result is resolved.                                                   *)

\* The result named o is next, and belongs to invocation i.
Resolved(o, i) ==
  /\ o = results[Len(runs) + 1] /\ o \in DOMAIN invocations
  /\ i \in DOMAIN invocations'
  /\ Books(step, seed, invocations', completed', known', producers')
  /\ <<o, i>> \in completed' /\ completed \subseteq completed'
  /\ completed' \subseteq completed \cup {<<o, i>>}
  /\ DOMAIN invocations \subseteq DOMAIN invocations'
  /\ DOMAIN invocations' \subseteq DOMAIN invocations \cup {i}
  /\ \A j \in DOMAIN invocations :
       /\ invocations'[j].engine = invocations[j].engine
       /\ invocations'[j].run = invocations[j].run
       /\ invocations'[j].input = invocations[j].input
       /\ invocations'[j].parent = invocations[j].parent
       /\ invocations'[j].raw = invocations[j].raw
       /\ j # i => invocations'[j].state = invocations[j].state
  /\ active' \in [Engines -> Nat]
  /\ i \notin DOMAIN invocations =>
       /\ i = Len(invocations) + 1
       /\ invocations'[i].engine = invocations[o].engine
       /\ invocations'[i].input =
            Entry(seed, invocations, known, producers, invocations[o].engine,
                  seed.value, "running").input
  /\ \/ UNCHANGED <<invocations, completed>>
     \/ /\ \A p \in completed : p[1] # o
        /\ LET q == pending[invocations[o].engine] IN
           \/ q = <<>> /\ i \notin DOMAIN invocations
           \/ q # <<>> /\ i = Head(q)

\* The oldest of the pending invocations of an engine
LEMMA HeadFacts ==
  ASSUME TrackerInv, pc \in InStep, NEW e \in Engines, pending[e] # <<>>
  PROVE  /\ 1 \in DOMAIN pending[e] /\ Head(pending[e]) = pending[e][1]
         /\ Head(pending[e]) \in DOMAIN invocations
         /\ invocations[Head(pending[e])].engine = e
         /\ invocations[Head(pending[e])].state = "deferred"
<1>1. pending[e] \in Seq(Nat)
  BY StepFacts
<1>2. 1 \in DOMAIN pending[e] /\ Head(pending[e]) = pending[e][1]
  BY <1>1
<1>3. PendingInvariant /\ Tracker!Numbers = DOMAIN invocations
  BY StepFacts DEF TrackerInv, TrackerInvariant
<1> QED BY <1>2, <1>3 DEF PendingInvariant

\* The result that is resolved has not been before.
LEMMA ResolveFacts ==
  ASSUME TrackerInv, ResolveResult
  PROVE  \E o, i : Resolved(o, i)
<1> DEFINE o == results[Len(runs) + 1]
           e == invocations[o].engine
           i == Tracker!ResolvedTo(o)
           raw == invocations[o].raw
<1>0. pc = "resolving" /\ pc \in InStep /\ Len(runs) < Len(results)
  BY DEF ResolveResult, InStep
<1>1. Len(runs) + 1 \in DOMAIN results
  <2>1. runs \in Seq(Runs) /\ results \in Seq(Nat)
    BY <1>0, StepFacts
  <2> QED BY <1>0, <2>1
<1>2. o \in DOMAIN invocations /\ raw # None
  <2>1. ResultsInvariant /\ Tracker!Numbers = DOMAIN invocations
    BY <1>0, StepFacts DEF TrackerInv, TrackerInvariant
  <2> QED BY <1>0, <1>1, <2>1 DEF ResultsInvariant
<1>3. invocations[o] \in Invocations
  BY <1>0, <1>2, StepFacts
<1>4. e \in Engines /\ raw \in RawResults
  BY <1>2, <1>3 DEF Invocations
<1>5. /\ Tracker!Resolve(o) /\ UNCHANGED <<step, seed>>
  BY DEF ResolveResult, Tracker!Resolve
<1>6. Books(step, seed, invocations, completed, known, producers)
      /\ invocations \in Seq(Invocations) /\ Tracker!Numbers = DOMAIN invocations
      /\ active \in [Engines -> Nat] /\ completed \in SUBSET (Nat \X Nat)
  BY <1>0, StepFacts
<1>7. Tracker!Found(o) = {j \in DOMAIN invocations : <<o, j>> \in completed}
  BY <1>6 DEF Tracker!Found
<1>8. i = IF Tracker!Found(o) # {} THEN CHOOSE j \in Tracker!Found(o) : TRUE
          ELSE IF pending[e] = <<>> THEN Len(invocations) + 1 ELSE Head(pending[e])
  BY DEF Tracker!ResolvedTo
<1> HIDE DEF o, e, i, raw
<1>9. CASE Tracker!Found(o) # {}
  <2>1. i \in Tracker!Found(o)
    BY <1>8, <1>9
  <2>2. UNCHANGED <<invocations, active, completed, known, producers>>
    BY <1>5, <1>9 DEF Tracker!Resolve
  <2> QED BY <1>2, <1>6, <1>7, <2>1, <2>2 DEF Resolved, o
<1>10. CASE Tracker!Found(o) = {}
  <2> DEFINE started == IF i \in Tracker!Numbers THEN invocations
                        ELSE Append(invocations, Tracker!Invocation(e, seed.value))
  <2>1. Tracker!Complete(started, i, o, raw)
    BY <1>5, <1>10 DEF Tracker!Resolve, Tracker!Raw, o, e, i, raw
  <2>2. /\ i \in DOMAIN started /\ started \in Seq(Invocations)
        /\ Books(step, seed, started, completed, known, producers)
        /\ \A p \in completed : p[2] # i
        /\ DOMAIN invocations \subseteq DOMAIN started
        /\ DOMAIN started \subseteq DOMAIN invocations \cup {i}
        /\ \A j \in DOMAIN invocations : started[j] = invocations[j]
        /\ \/ pending[e] = <<>> /\ i \notin DOMAIN invocations
           \/ pending[e] # <<>> /\ i = Head(pending[e])
        /\ i \notin DOMAIN invocations =>
             /\ i = Len(invocations) + 1 /\ started[i].engine = e
             /\ started[i].input =
                  Entry(seed, invocations, known, producers, e, seed.value, "running").input
    <3>1. CASE pending[e] # <<>>
      <4>1. i = Head(pending[e]) /\ i \in DOMAIN invocations
            /\ invocations[i].state = "deferred"
        BY <1>0, <1>4, <1>8, <1>10, <3>1, HeadFacts
      <4>2. started = invocations
        BY <1>6, <4>1
      <4>3. \A p \in completed : p[2] # i
        BY <1>6, <4>1 DEF Books, Matched
      <4> QED BY <1>6, <3>1, <4>1, <4>2, <4>3
    <3>2. CASE pending[e] = <<>>
      <4> DEFINE x == Entry(seed, invocations, known, producers, e, seed.value, "running")
      <4>1. i = Len(invocations) + 1 /\ i \notin DOMAIN invocations
        BY <1>6, <1>8, <1>10, <3>2
      <4>2. seed.value \in Values /\ "running" \in Tracker!States
        BY <1>6 DEF Books, Candidates, Tracker!States
      <4>3. started = Append(invocations, x)
        BY <1>0, <1>6, <4>1, InvocationIsEntry
      <4>4. x \in Invocations
        BY <1>4, <1>6, <4>2, EntryType DEF Books
      <4>5. Books(step, seed, started, completed, known, producers)
        BY <1>4, <1>6, <4>2, <4>3, BooksStarted
      <4>8. x.engine = e
        BY DEF Entry
      <4> HIDE DEF x, started
      <4>9. started[i] = x
        BY <1>6, <4>1, <4>3, <4>4, AppendFacts
      <4>10. started[i].engine = e /\ started[i].input =
               Entry(seed, invocations, known, producers, e, seed.value, "running").input
        BY <4>8, <4>9 DEF x
      <4>6. /\ DOMAIN started = DOMAIN invocations \cup {i} /\ started \in Seq(Invocations)
            /\ \A j \in DOMAIN invocations : started[j] = invocations[j]
        BY <1>6, <4>1, <4>3, <4>4, AppendFacts
      <4>7. \A p \in completed : p[2] # i
        BY <1>6, <4>1 DEF Books, Matched
      <4> QED BY <3>2, <4>1, <4>5, <4>6, <4>7, <4>10
    <3> QED BY <3>1, <3>2
  <2>3. \A p \in completed : p[1] # o
    BY <1>6, <1>7, <1>10 DEF Books, Matched
  <2>4. PICK state \in {"completed", "broken"} : invocations' = [started EXCEPT ![i].state = state]
    BY <2>1 DEF Tracker!Complete
  <2>5. /\ completed' = completed \cup {<<o, i>>}
        /\ known' = [known EXCEPT ![raw.value] =
             [value |-> raw.value, id |-> <<step, started[i].engine, started[i].run>>]]
        /\ producers' = [producers EXCEPT ![raw.value] = <<step, started[i].engine, started[i].run>>]
        /\ active' = [active EXCEPT ![started[i].engine] = 0]
    BY <2>1 DEF Tracker!Complete
  <2> HIDE DEF started
  <2>6. o \in DOMAIN started /\ started[o].raw = raw
    BY <1>2, <2>2 DEF raw
  <2>7. Books(step, seed, invocations', completed', known', producers')
    <3>1. LET v == started[o].raw.value IN
          Books(step, seed, [started EXCEPT ![i].state = state], completed \cup {<<o, i>>},
                [known EXCEPT ![v] = OutputAt(step, started, o, i)],
                [producers EXCEPT ![v] = IdAt(step, started, i)])
      BY <1>2, <2>2, <2>3, <2>6, BooksCompleted
    <3>2. /\ OutputAt(step, started, o, i) =
               [value |-> raw.value, id |-> <<step, started[i].engine, started[i].run>>]
          /\ IdAt(step, started, i) = <<step, started[i].engine, started[i].run>>
      BY <2>6 DEF OutputAt, IdAt
    <3> QED BY <2>4, <2>5, <2>6, <3>1, <3>2
  <2>8. /\ DOMAIN invocations' = DOMAIN started
        /\ \A j \in DOMAIN started \ {i} : invocations'[j] = started[j]
        /\ invocations'[i] = [started[i] EXCEPT !.state = state]
    BY <2>2, <2>4
  <2>9. started[i] \in Invocations
    BY <2>2
  <2>10. /\ invocations'[i].engine = started[i].engine /\ invocations'[i].run = started[i].run
         /\ invocations'[i].input = started[i].input /\ invocations'[i].parent = started[i].parent
         /\ invocations'[i].raw = started[i].raw
    BY <2>8, <2>9 DEF Invocations
  <2>11. \A j \in DOMAIN invocations :
           /\ invocations'[j].engine = invocations[j].engine
           /\ invocations'[j].run = invocations[j].run
           /\ invocations'[j].input = invocations[j].input
           /\ invocations'[j].parent = invocations[j].parent
           /\ invocations'[j].raw = invocations[j].raw
           /\ j # i => invocations'[j].state = invocations[j].state
    <3> SUFFICES ASSUME NEW j \in DOMAIN invocations
                 PROVE  /\ invocations'[j].engine = invocations[j].engine
                        /\ invocations'[j].run = invocations[j].run
                        /\ invocations'[j].input = invocations[j].input
                        /\ invocations'[j].parent = invocations[j].parent
                        /\ invocations'[j].raw = invocations[j].raw
                        /\ j # i => invocations'[j].state = invocations[j].state
      OBVIOUS
    <3>1. CASE j = i
      BY <2>2, <2>10, <3>1
    <3>2. CASE j # i
      BY <2>2, <2>8, <3>2
    <3> QED BY <3>1, <3>2
  <2>12. active' \in [Engines -> Nat]
    BY <1>6, <2>5
  <2>13. i \notin DOMAIN invocations =>
           /\ i = Len(invocations) + 1 /\ invocations'[i].engine = e
           /\ invocations'[i].input =
                Entry(seed, invocations, known, producers, e, seed.value, "running").input
    BY <2>2, <2>10
  <2>14. /\ o = results[Len(runs) + 1] /\ o \in DOMAIN invocations /\ i \in DOMAIN invocations'
         /\ <<o, i>> \in completed' /\ completed \subseteq completed'
         /\ completed' \subseteq completed \cup {<<o, i>>}
         /\ DOMAIN invocations \subseteq DOMAIN invocations'
         /\ DOMAIN invocations' \subseteq DOMAIN invocations \cup {i}
    BY <1>2, <2>2, <2>5, <2>8 DEF o
  <2>15. \/ pending[e] = <<>> /\ i \notin DOMAIN invocations
         \/ pending[e] # <<>> /\ i = Head(pending[e])
    BY <2>2
  <2> HIDE DEF o
  <2> QED BY <2>3, <2>7, <2>11, <2>12, <2>13, <2>14, <2>15 DEF Resolved, e
<1> QED BY <1>9, <1>10

\* A resolved result belongs to one invocation, and is the next run.
LEMMA TrackerResolves ==
  ASSUME TrackerInv, ResolveResult PROVE TrackerInvariant'
<1>0. pc = "resolving" /\ pc \in InStep /\ pc' = "resolving"
  BY DEF ResolveResult, InStep
<1>1. PICK o, i : Resolved(o, i)
  BY ResolveFacts
<1> DEFINE e == invocations[o].engine
<1>2. /\ UNCHANGED <<composition, steps, candidate, results, selected, rescored, step, seed, parent>>
      /\ Len(runs) < Len(results) /\ ~Tracker!Halted
      /\ pending' = [pending EXCEPT ![e] = IF @ = <<>> THEN @ ELSE Tail(@)]
  BY <1>1 DEF ResolveResult, Tracker!Resolve, AtHome, progress, Resolved
<1>3. /\ invocations \in Seq(Invocations) /\ Tracker!Numbers = DOMAIN invocations
      /\ \A j \in DOMAIN invocations : invocations[j] \in Invocations
      /\ pending \in [Engines -> Seq(Nat)] /\ runs \in Seq(Runs)
      /\ Kind \in Kinds
  BY <1>0, StepFacts
<1>4. /\ invocations' \in Seq(Invocations) /\ Tracker!Numbers' = DOMAIN invocations'
      /\ \A j \in DOMAIN invocations' : invocations'[j] \in Invocations
      /\ Matched(invocations', completed')
  <2>1. invocations' \in Seq(Invocations) /\ Matched(invocations', completed')
    BY <1>1 DEF Resolved, Books
  <2>2. Tracker!Numbers' = DOMAIN invocations'
    BY <2>1 DEF Tracker!Numbers
  <2>3. \A j \in DOMAIN invocations' : invocations'[j] \in Invocations
    BY <2>1
  <2> QED BY <2>1, <2>2, <2>3
<1>5. /\ o \in DOMAIN invocations /\ o \in DOMAIN invocations' /\ i \in DOMAIN invocations'
      /\ DOMAIN invocations \subseteq DOMAIN invocations'
      /\ DOMAIN invocations' \subseteq DOMAIN invocations \cup {i}
      /\ <<o, i>> \in completed' /\ completed \subseteq completed'
      /\ completed' \subseteq completed \cup {<<o, i>>}
      /\ o = results[Len(runs) + 1] /\ active' \in [Engines -> Nat]
  BY <1>1 DEF Resolved
<1>6. \A j \in DOMAIN invocations :
        /\ invocations'[j].engine = invocations[j].engine
        /\ invocations'[j].run = invocations[j].run
        /\ invocations'[j].input = invocations[j].input
        /\ invocations'[j].parent = invocations[j].parent
        /\ invocations'[j].raw = invocations[j].raw
        /\ j # i => invocations'[j].state = invocations[j].state
  BY <1>1 DEF Resolved
<1>7. \/ UNCHANGED <<invocations, completed>>
      \/ /\ \A p \in completed : p[1] # o
         /\ \/ pending[e] = <<>> /\ i \notin DOMAIN invocations
            \/ pending[e] # <<>> /\ i = Head(pending[e])
  BY <1>1 DEF Resolved
<1>8. invocations'[i].state \in {"completed", "broken"} /\ invocations'[o].raw \in RawResults
  <2>1. invocations'[<<o, i>>[2]].state \in {"completed", "broken"}
        /\ invocations'[<<o, i>>[1]].raw # None
    BY <1>4, <1>5 DEF Matched
  <2> QED BY <1>4, <1>5, <2>1 DEF Invocations
<1>9. e \in Engines
  BY <1>3, <1>5 DEF Invocations
<1>10. Kind' = Kind /\ composition.steps[step]' = composition.steps[step]
  BY <1>2 DEF Kind
<1> HIDE DEF e
\* The run of it
<1>11. runs' = Append(runs, RunAt(o, i)')
  <2>1. i = Tracker!ResolvedTo(o)
    <3>1. CASE Tracker!Found(o) # {}
      <4>1. Tracker!ResolvedTo(o) \in Tracker!Found(o)
        BY <3>1 DEF Tracker!ResolvedTo
      <4>2. <<o, Tracker!ResolvedTo(o)>> \in completed
        BY <4>1 DEF Tracker!Found
      <4>3. <<o, Tracker!ResolvedTo(o)>> \in completed'
        BY <1>5, <4>2
      <4> QED BY <1>4, <1>5, <4>3 DEF Matched
    <3>2. CASE Tracker!Found(o) = {}
      <4>1. <<o, i>> \notin completed
        <5>1. i \in DOMAIN invocations => <<o, i>> \notin completed
          BY <1>3, <3>2 DEF Tracker!Found
        <5>2. \A p \in completed : p[2] \in DOMAIN invocations
          BY <1>0, StepFacts DEF Books, Matched
        <5> QED BY <5>1, <5>2
      <4>2. \/ pending[e] = <<>> /\ i \notin DOMAIN invocations
            \/ pending[e] # <<>> /\ i = Head(pending[e])
        BY <1>5, <1>7, <4>1
      <4>3. i \notin DOMAIN invocations => i = Len(invocations) + 1
        <5> DEFINE n == Len(invocations)
                   m == Len(invocations')
        <5>1. n \in Nat /\ m \in Nat /\ DOMAIN invocations = 1..n /\ DOMAIN invocations' = 1..m
          BY <1>3, <1>4
        <5> HIDE DEF n, m
        <5>2. ASSUME i \notin 1..n PROVE i = n + 1
          <6>1. i \in 1..m /\ 1..m \subseteq 1..n \cup {i}
            BY <1>5, <5>1
          <6>2. i > n
            BY <5>1, <5>2, <6>1
          <6>3. n + 1 \in 1..m
            BY <5>1, <6>1, <6>2
          <6> QED BY <5>1, <6>1, <6>3
        <5> QED BY <5>1, <5>2 DEF n
      <4> QED BY <3>2, <4>2, <4>3 DEF Tracker!ResolvedTo, e
    <3> QED BY <3>1, <3>2
  <2>2. runs' = Append(runs, RunOf(o, i))
    BY <1>5, <2>1 DEF ResolveResult
  <2>3. RunOf(o, i) = RunAt(o, i)'
    BY <1>2, <1>5, <1>6 DEF RunOf, RunAt, IdAt, OutputAt
  <2> QED BY <2>2, <2>3
<1>12. RunAt(o, i)' \in Runs
  <2>1. invocations'[i] \in Invocations
    BY <1>4, <1>5
  <2>2. step' \in Steps
    BY <1>0, <1>2, StepFacts
  <2>3. /\ invocations'[i].engine \in Engines /\ invocations'[i].run \in Nat
        /\ invocations'[i].input \in Candidates /\ invocations'[i].parent \in Ids \cup {None}
    BY <2>1 DEF Invocations
  <2>4. /\ invocations'[o].raw.value \in Values /\ invocations'[o].raw.score \in Nat
        /\ invocations'[o].raw.calls \in Nat /\ invocations'[o].raw.cost \in Nat \cup {None}
    <3> DEFINE r == invocations'[o].raw
    <3>1. r \in [value: Values, score: Nat, calls: Nat, cost: Nat \cup {None}]
      BY <1>8, CompositionAssumption
    <3> HIDE DEF r
    <3>2. r.value \in Values /\ r.score \in Nat /\ r.calls \in Nat /\ r.cost \in Nat \cup {None}
      BY <3>1
    <3> QED BY <3>2 DEF r
  <2>5. IdAt(step', invocations', i) \in Ids
    BY <2>2, <2>3 DEF IdAt, Ids
  <2>6. OutputAt(step', invocations', o, i) \in Candidates
    BY <2>4, <2>5 DEF OutputAt, Candidates
  <2>7. RunAt(o, i)' =
          [id |-> IdAt(step', invocations', i), parent |-> invocations'[i].parent,
           input |-> invocations'[i].input, output |-> OutputAt(step', invocations', o, i),
           score |-> invocations'[o].raw.score, calls |-> invocations'[o].raw.calls,
           cost |-> invocations'[o].raw.cost]
    BY DEF RunAt
  <2> QED BY <2>3, <2>4, <2>5, <2>6, <2>7 DEF Runs
<1>13. /\ DOMAIN runs' = DOMAIN runs \cup {Len(runs) + 1} /\ runs' \in Seq(Runs)
       /\ Len(runs') = Len(runs) + 1 /\ Len(runs) + 1 \notin DOMAIN runs
       /\ runs'[Len(runs) + 1] = RunAt(o, i)'
       /\ \A k \in DOMAIN runs : runs'[k] = runs[k]
  <2> DEFINE x == RunAt(o, i)'
  <2>1. x \in Runs /\ runs' = Append(runs, x) /\ runs \in Seq(Runs)
    BY <1>3, <1>11, <1>12
  <2> HIDE DEF x
  <2>2. /\ DOMAIN runs' = DOMAIN runs \cup {Len(runs) + 1} /\ runs' \in Seq(Runs)
        /\ Len(runs') = Len(runs) + 1 /\ Len(runs) + 1 \notin DOMAIN runs
        /\ runs'[Len(runs) + 1] = x
        /\ \A k \in DOMAIN runs : runs'[k] = runs[k]
    BY <2>1, AppendFacts
  <2> QED BY <2>2 DEF x
\* The pending invocations of its engine
<1>14. /\ pending' \in [Engines -> Seq(Nat)]
       /\ \A d \in Engines \ {e} : pending'[d] = pending[d]
       /\ pending[e] = <<>> => pending'[e] = <<>>
       /\ pending[e] # <<>> => pending'[e] = Tail(pending[e])
  <2>1. pending[e] \in Seq(Nat)
    BY <1>3, <1>9
  <2>2. (IF pending[e] = <<>> THEN pending[e] ELSE Tail(pending[e])) \in Seq(Nat)
    BY <2>1
  <2> QED BY <1>2, <1>3, <1>9, <2>2
<1>15. StepInvariant'
  <2>1. StepInvariant
    BY DEF TrackerInv, TrackerInvariant
  <2> QED BY <1>0, <1>2, <1>5, <1>13, <1>14, <2>1 DEF StepInvariant
<1>16. EngineInvariant'
  <2>1. \A j \in DOMAIN invocations : invocations[j].state # "running"
    BY <1>0, <1>3 DEF TrackerInv, TrackerInvariant, EngineInvariant,
       Tracker!Running, Tracker!InState
  <2>2. \A j \in DOMAIN invocations' : invocations'[j].state # "running"
    BY <1>5, <1>6, <1>8, <2>1
  <2> QED BY <1>0, <1>4, <2>2 DEF EngineInvariant, Tracker!Running, Tracker!InState
<1>17. BooksInvariant'
  BY <1>0, <1>1, <1>2 DEF Resolved, BooksInvariant
<1>18. CompletedInvariant' /\ SelectedInvariant'
  BY <1>0 DEF CompletedInvariant, SelectedInvariant
<1>19. PendingInvariant'
  <2>1. \A d \in Engines : \A k \in DOMAIN pending[d] :
          /\ pending[d][k] \in DOMAIN invocations
          /\ invocations[pending[d][k]].engine = d
          /\ invocations[pending[d][k]].state = "deferred"
          /\ \A l \in DOMAIN pending[d] : pending[d][k] = pending[d][l] => k = l
    BY <1>0, <1>3 DEF TrackerInv, TrackerInvariant, PendingInvariant
  <2> SUFFICES ASSUME NEW d \in Engines, NEW k \in DOMAIN pending'[d]
               PROVE  /\ pending'[d][k] \in DOMAIN invocations'
                      /\ invocations'[pending'[d][k]].engine = d
                      /\ invocations'[pending'[d][k]].state = "deferred"
                      /\ \A l \in DOMAIN pending'[d] : pending'[d][k] = pending'[d][l] => k = l
    BY <1>4 DEF PendingInvariant
  <2>2. CASE d # e
    <3>1. pending'[d] = pending[d] /\ k \in DOMAIN pending[d]
      BY <1>14, <2>2
    <3>2. pending[d][k] # i \/ UNCHANGED invocations
      <4>1. pending[e] # <<>> => invocations[Head(pending[e])].engine = e
        BY <1>0, <1>9, HeadFacts
      <4> QED BY <1>7, <2>1, <2>2, <3>1, <4>1
    <3> QED BY <1>5, <1>6, <2>1, <3>1, <3>2
  <2>3. CASE d = e /\ pending[e] = <<>>
    <3>1. DOMAIN pending'[e] = {}
      BY <1>14, <2>3
    <3> QED BY <2>3, <3>1
  <2>4. CASE d = e /\ pending[e] # <<>>
    <3> DEFINE q == pending[e]
    <3>1. q \in Seq(Nat) /\ q # <<>> /\ pending'[e] = Tail(q)
      BY <1>3, <1>9, <1>14, <2>4
    <3> HIDE DEF q
    <3>2. /\ \A l \in DOMAIN Tail(q) : l \in Nat /\ l # 0 /\ l + 1 \in DOMAIN q /\ Tail(q)[l] = q[l + 1]
          /\ 1 \in DOMAIN q /\ Head(q) = q[1]
      BY <3>1
    <3>3. k \in DOMAIN Tail(q)
      BY <2>4, <3>1
    <3>4. q[k + 1] # Head(q)
      BY <1>9, <2>1, <3>2, <3>3 DEF q
    <3>5. q[k + 1] # i \/ UNCHANGED invocations
      BY <1>7, <2>4, <3>4 DEF q
    <3>6. /\ q[k + 1] \in DOMAIN invocations /\ invocations[q[k + 1]].engine = e
          /\ invocations[q[k + 1]].state = "deferred"
          /\ \A l \in DOMAIN q : q[k + 1] = q[l] => k + 1 = l
      BY <1>9, <2>1, <3>2, <3>3 DEF q
    <3>7. \A l \in DOMAIN Tail(q) : Tail(q)[k] = Tail(q)[l] => k = l
      BY <3>2, <3>3, <3>6
    <3> QED BY <1>5, <1>6, <2>4, <3>1, <3>2, <3>3, <3>5, <3>6, <3>7
  <2> QED BY <2>2, <2>3, <2>4
<1>20. Len(runs) + 1 \in DOMAIN results /\ results \in Seq(Nat) /\ Len(runs) \in Nat
       /\ DOMAIN runs = 1..Len(runs) /\ DOMAIN results = 1..Len(results)
  <2>1. results \in Seq(Nat)
    BY <1>0, StepFacts
  <2> QED BY <1>2, <1>3, <2>1
<1>21. ResultsInvariant
  BY DEF TrackerInv, TrackerInvariant
<1>22. ResultsInvariant'
  <2>1. \A k \in DOMAIN results :
          /\ results[k] \in DOMAIN invocations'
          /\ invocations'[results[k]].raw # None
          /\ \A l \in DOMAIN results : results[k] = results[l] => k = l
    BY <1>0, <1>3, <1>5, <1>6, <1>21 DEF ResultsInvariant
  <2>2. \A k \in DOMAIN runs' :
          \E p \in completed' : p[1] = results[k] /\ runs'[k] = RunAt(p[1], p[2])'
    <3>1. \A p \in completed : p[1] \in DOMAIN invocations /\ p[2] \in DOMAIN invocations
      BY <1>0, StepFacts DEF Books, Matched
    <3>2. \A p \in completed : RunAt(p[1], p[2])' = RunAt(p[1], p[2])
      BY <1>2, <1>6, <3>1 DEF RunAt, IdAt, OutputAt
    <3>3. \A k \in DOMAIN runs :
            \E p \in completed' : p[1] = results[k] /\ runs'[k] = RunAt(p[1], p[2])'
      <4> SUFFICES ASSUME NEW k \in DOMAIN runs
                   PROVE  \E p \in completed' : p[1] = results[k] /\ runs'[k] = RunAt(p[1], p[2])'
        OBVIOUS
      <4>1. PICK p \in completed : p[1] = results[k] /\ runs[k] = RunAt(p[1], p[2])
        BY <1>0, <1>21 DEF ResultsInvariant, InStep
      <4> QED BY <1>5, <1>13, <3>2, <4>1
    <3>4. <<o, i>>[1] = results[Len(runs) + 1]
          /\ runs'[Len(runs) + 1] = RunAt(<<o, i>>[1], <<o, i>>[2])'
      BY <1>5, <1>13
    <3> QED BY <1>5, <1>13, <3>3, <3>4
  <2>3. \A p \in completed' : \E k \in DOMAIN results : p[1] = results[k]
    <3>1. \A p \in completed : \E k \in DOMAIN results : p[1] = results[k]
      BY <1>0, <1>21 DEF ResultsInvariant, InStep
    <3>2. <<o, i>>[1] = results[Len(runs) + 1]
      BY <1>5
    <3> QED BY <1>5, <1>20, <3>1, <3>2
  <2>4. results # <<>> /\ Len(runs') <= Len(results)
    BY <1>0, <1>2, <1>13, <1>20, <1>21 DEF ResultsInvariant, InStep
  <2>5. results' = results
    BY <1>2
  <2> QED BY <1>4, <2>1, <2>2, <2>3, <2>4, <2>5 DEF ResultsInvariant
<1>23. SiblingInvariant'
  <2> SUFFICES ASSUME Kind # "adaptive" PROVE SiblingInvariant'
    BY <1>10 DEF SiblingInvariant
  <2>1. /\ \A j, l \in DOMAIN invocations :
             invocations[j].engine = invocations[l].engine => j = l
        /\ \A j \in DOMAIN invocations :
             /\ invocations[j].engine <= composition.steps[step].engines
             /\ Kind = "sequential" => invocations[j].engine = j
             /\ invocations[j].state = "deferred" =>
                  pending[invocations[j].engine] = <<j>>
             /\ \E k \in DOMAIN results : results[k] = j
             /\ invocations[j].state \in {"completed", "broken", "deferred"}
             /\ invocations[j].state = "deferred" \/ <<j, j>> \in completed
        /\ \A p \in completed : p[1] = p[2]
        /\ \A k \in DOMAIN results : k <= Len(runs) =>
              invocations[results[k]].state # "deferred"
    BY <1>0, <1>3 DEF TrackerInv, TrackerInvariant, SiblingInvariant
  <2>2. i = o
    <3>1. CASE UNCHANGED <<invocations, completed>>
      <4>1. <<o, i>> \in completed
        BY <1>5, <3>1
      <4> QED BY <2>1, <4>1
    <3>2. CASE \A p \in completed : p[1] # o
      <4>1. <<o, o>> \notin completed
        BY <3>2
      <4>2. pending[e] = <<o>>
        BY <1>5, <2>1, <4>1 DEF e
      <4>3. Head(<<o>>) = o /\ <<o>> # <<>>
        BY <1>3, <1>5
      <4>4. <<o, i>> \notin completed
        BY <3>2
      <4>5. i = Head(pending[e])
        BY <1>5, <1>7, <4>2, <4>3, <4>4
      <4> QED BY <4>2, <4>3, <4>5
    <3> QED BY <1>7, <3>1, <3>2
  <2>3. DOMAIN invocations' = DOMAIN invocations
    BY <1>5, <2>2
  <2>4. \A p \in completed' : p[1] = p[2]
    BY <1>5, <2>1, <2>2
  <2>5. \A j, l \in DOMAIN invocations :
          invocations'[j].engine = invocations'[l].engine => j = l
    BY <1>6, <2>1
  <2>6. \A j \in DOMAIN invocations :
          /\ invocations'[j].engine <= composition.steps[step].engines
          /\ Kind = "sequential" => invocations'[j].engine = j
          /\ \E k \in DOMAIN results : results[k] = j
    BY <1>6, <2>1
  <2>7. \A j \in DOMAIN invocations :
          invocations'[j].state \in {"completed", "broken", "deferred"}
    BY <1>6, <1>8, <2>1
  <2>8. \A j \in DOMAIN invocations : invocations'[j].state = "deferred" \/ <<j, j>> \in completed'
    BY <1>5, <1>6, <2>1, <2>2
  <2>9. \A j \in DOMAIN invocations :
          invocations'[j].state = "deferred" => pending'[invocations'[j].engine] = <<j>>
    <3> SUFFICES ASSUME NEW j \in DOMAIN invocations, invocations'[j].state = "deferred"
                 PROVE  pending'[invocations'[j].engine] = <<j>>
      OBVIOUS
    <3>1. j # o /\ invocations[j].state = "deferred"
      BY <1>6, <1>8, <2>2
    <3>2. invocations[j].engine \in Engines \ {e}
      BY <1>3, <1>5, <2>1, <3>1 DEF e, Invocations
    <3> QED BY <1>6, <1>14, <2>1, <3>1, <3>2
  <2>10. \A k \in DOMAIN results : k <= Len(runs') =>
           invocations'[results[k]].state # "deferred"
    <3> SUFFICES ASSUME NEW k \in DOMAIN results, k <= Len(runs')
                 PROVE  invocations'[results[k]].state # "deferred"
      OBVIOUS
    <3>1. CASE k = Len(runs) + 1
      BY <1>5, <1>8, <2>2, <3>1
    <3>2. CASE k # Len(runs) + 1
      <4>1. k <= Len(runs)
        BY <1>13, <1>20, <3>2
      <4>2. results[k] \in DOMAIN invocations
        BY <1>0, <1>3, <1>21 DEF ResultsInvariant, InStep
      <4> QED BY <1>6, <1>8, <2>1, <4>1, <4>2
    <3> QED BY <3>1, <3>2
  <2>11. results' = results
    BY <1>2
  <2> QED BY <1>4, <1>10, <2>3, <2>4, <2>5, <2>6, <2>7, <2>8, <2>9, <2>10,
      <2>11 DEF SiblingInvariant
<1> QED BY <1>15, <1>16, <1>17, <1>18, <1>19, <1>22, <1>23 DEF TrackerInvariant

----------------------------------------------------------------------------
(* Where inputs come from and where results go.                            *)

\* What is started is given the value asked for, as a candidate that is known.
LEMMA EntryInput ==
  ASSUME NEW s, NEW sd, NEW V, NEW C, NEW K, NEW P, Books(s, sd, V, C, K, P),
         NEW e, NEW v \in Values, NEW state,
         NEW x, x = Entry(sd, V, K, P, e, v, state).input
  PROVE  /\ x.value = v /\ IsGiven(x, s, sd, V, C)
         /\ C = {} /\ v = sd.value => x = sd
<1>1. x = IF K[v] = None THEN [value |-> v, id |-> None] ELSE K[v]
  BY DEF Entry
<1>2. sd \in Candidates /\ sd # None
  BY NoneAssumption DEF Books
<1>3. CASE K[v] = IF v = sd.value THEN sd ELSE None
  BY <1>1, <1>2, <1>3 DEF IsGiven
<1>4. ASSUME NEW p \in C, V[p[1]].raw.value = v, K[v] = OutputAt(s, V, p[1], p[2])
      PROVE  x.value = v /\ x \in Outputs(s, V, C)
  <2>1. K[v] # None
    <3>1. /\ p[1] \in DOMAIN V /\ p[2] \in DOMAIN V /\ V[p[1]].raw # None
          /\ V \in Seq(Invocations) /\ s \in Steps
      BY DEF Books, Matched
    <3>2. V[p[1]] \in Invocations /\ V[p[2]] \in Invocations
      BY <3>1
    <3>3. IdAt(s, V, p[2]) \in Ids
      BY <3>1, <3>2 DEF IdAt, Ids, Invocations
    <3>4. OutputAt(s, V, p[1], p[2]) \in Candidates
      BY <1>4, <3>3 DEF OutputAt, Candidates
    <3> QED BY <1>4, <3>4, NoneAssumption
  <2>2. x = OutputAt(s, V, p[1], p[2])
    BY <1>1, <1>4, <2>1
  <2> QED BY <1>4, <2>2 DEF OutputAt, Outputs
<1> QED BY <1>3, <1>4 DEF Books, Known, IsGiven

\* An output stays one.
LEMMA OutputsStay ==
  ASSUME NEW s, NEW V, NEW C, NEW W, NEW D, Matched(V, C), C \subseteq D,
         \A j \in DOMAIN V : W[j].engine = V[j].engine /\ W[j].run = V[j].run,
         \A p \in C : W[p[1]].raw = V[p[1]].raw
  PROVE  Outputs(s, V, C) \subseteq Outputs(s, W, D)
<1>1. \A p \in C : /\ p \in D
                   /\ OutputAt(s, W, p[1], p[2]) = OutputAt(s, V, p[1], p[2])
  BY DEF Matched, OutputAt, IdAt
<1> QED BY <1>1 DEF Outputs

\* Inputs stay, and what is new has its input from the same places.
LEMMA InputsKept ==
  ASSUME TrackerInv, InputInvariant, pc \in InStep,
         UNCHANGED <<composition, step, seed>>,
         DOMAIN invocations \subseteq DOMAIN invocations',
         \A j \in DOMAIN invocations :
           /\ invocations'[j].engine = invocations[j].engine
           /\ invocations'[j].run = invocations[j].run
           /\ invocations'[j].input = invocations[j].input,
         \A j \in DOMAIN invocations' \ DOMAIN invocations :
           /\ Kind \notin {"sequential", "adaptive"} => invocations'[j].input.value = seed.value
           /\ j = 1 => invocations'[j].input = seed
           /\ IsGiven(invocations'[j].input, step, seed, invocations, completed),
         completed \subseteq completed',
         \A p \in completed : invocations'[p[1]].raw = invocations[p[1]].raw,
         pc' # "executing" => \A k \in DOMAIN results' :
           /\ results'[k] \in DOMAIN invocations
           /\ IF Kind = "adaptive" THEN results'[k] = k
              ELSE invocations[results'[k]].engine = k
  PROVE  InputInvariant'
<1>1. Kind' = Kind
  BY DEF Kind
<1>2. Outputs(step, invocations, completed) \subseteq Outputs(step, invocations', completed')
  <2>1. Matched(invocations, completed)
    BY StepFacts DEF Books
  <2> QED BY <2>1, OutputsStay
<1>3. \A j \in DOMAIN invocations' :
        /\ Kind \notin {"sequential", "adaptive"} => invocations'[j].input.value = seed.value
        /\ j = 1 => invocations'[j].input = seed
        /\ IsGiven(invocations'[j].input, step, seed, invocations, completed)
  BY DEF InputInvariant
<1>4. \A j \in DOMAIN invocations' :
        IsGiven(invocations'[j].input, step, seed, invocations', completed')
  BY <1>2, <1>3 DEF IsGiven
<1>5. pc' # "executing" => \A k \in DOMAIN results' :
        IF Kind = "adaptive" THEN results'[k] = k
        ELSE invocations'[results'[k]].engine = k
  OBVIOUS
<1> QED BY <1>1, <1>3, <1>4, <1>5 DEF InputInvariant

\* There is nothing of it outside of a step.
LEMMA FlowGone == ASSUME pc' \notin InStep PROVE FlowInvariant'
BY DEF FlowInvariant, InputInvariant, SliceInvariant

\* Nor at first.
LEMMA FlowInitially == Init => FlowInvariant
BY DEF Init, FlowInvariant, InputInvariant, SliceInvariant, InStep

\* A step is started.
LEMMA FlowStarts == ASSUME TrackerInv, StartStep PROVE FlowInvariant'
<1>1. /\ pc' = "executing" /\ invocations' = <<>> /\ pending' = [e \in Engines |-> <<>>]
  BY DEF StartStep, Tracker!NewTracker
<1> QED BY <1>1 DEF FlowInvariant, InputInvariant, SliceInvariant

\* An engine is started.
LEMMA FlowRuns ==
  ASSUME TrackerInv, FlowInvariant, NEW e \in Engines, RunEngine(e)
  PROVE  FlowInvariant'
<1> DEFINE n == Len(invocations) + 1
<1>0. pc = "executing" /\ pc \in InStep
  BY DEF RunEngine, InStep
<1>1. /\ NextSeed \in Values /\ Quiet /\ UNCHANGED <<pending, completed, known, producers>>
      /\ MayRun(e)
  BY <1>0, NextSeedType DEF RunEngine, Tracker!StartEngine, InExecute, AtHome,
     progress, resolution, Quiet
<1>2. PICK state \in {"running", "broken"} :
        invocations' = Append(invocations,
                              Entry(seed, invocations, known, producers, e, NextSeed, state))
  BY <1>0, InvocationIsEntry DEF RunEngine, Tracker!StartEngine
<1> DEFINE x == Entry(seed, invocations, known, producers, e, NextSeed, state)
<1>3. x \in Invocations /\ x.engine = e /\ x.state = state
  <2>1. x \in Invocations
    BY <1>0, <1>1, StepFacts, EntryType DEF Books, Tracker!States
  <2>2. x.engine = e /\ x.state = state
    BY DEF Entry
  <2> QED BY <2>1, <2>2
<1>4. /\ x.input.value = NextSeed
      /\ IsGiven(x.input, step, seed, invocations, completed)
      /\ completed = {} /\ NextSeed = seed.value => x.input = seed
  <2> DEFINE y == x.input
  <2>1. y = Entry(seed, invocations, known, producers, e, NextSeed, state).input
    OBVIOUS
  <2>2. Books(step, seed, invocations, completed, known, producers)
    BY <1>0, StepFacts
  <2> HIDE DEF y, x
  <2>3. /\ y.value = NextSeed /\ IsGiven(y, step, seed, invocations, completed)
        /\ completed = {} /\ NextSeed = seed.value => y = seed
    BY <1>1, <2>1, <2>2, EntryInput
  <2> QED BY <2>3 DEF y
<1>5. invocations' = Append(invocations, x)
  BY <1>2
<1> HIDE DEF x
<1>6. /\ DOMAIN invocations' = DOMAIN invocations \cup {n} /\ n \notin DOMAIN invocations
      /\ invocations'[n] = x /\ n = Len(invocations') /\ n \in Nat /\ n > 0
      /\ \A i \in DOMAIN invocations : invocations'[i] = invocations[i] /\ i < n
  BY <1>0, <1>3, <1>5, StepFacts
<1>7. Kind \notin {"sequential", "adaptive"} => NextSeed = seed.value
  BY DEF NextSeed
<1>8. n = 1 => completed = {} /\ NextSeed = seed.value
  <2> SUFFICES ASSUME n = 1 PROVE completed = {} /\ NextSeed = seed.value
    OBVIOUS
  <2>1. DOMAIN invocations = {}
    BY <1>0, <1>6, StepFacts
  <2>2. completed = {}
    BY <1>0, <2>1, StepFacts DEF Books, Matched
  <2>3. Ended = {}
    BY <1>0, <2>1, StepFacts DEF Ended
  <2> QED BY <2>2, <2>3 DEF NextSeed
<1> HIDE DEF n
<1>9. \A p \in completed : p[1] \in DOMAIN invocations
  BY <1>0, StepFacts DEF Books, Matched
<1>10. InputInvariant'
  <2>1. pc' = "executing" /\ UNCHANGED <<composition, step, seed>>
    BY <1>0, <1>1 DEF Quiet
  <2>2. InputInvariant
    BY DEF FlowInvariant
  <2> QED BY <1>0, <1>1, <1>4, <1>6, <1>7, <1>8, <1>9, <2>1, <2>2, InputsKept
<1>11. SliceInvariant'
  <2> SUFFICES ASSUME Kind = "adaptive" PROVE SliceInvariant'
    BY <1>1 DEF SliceInvariant, Kind, Quiet
  <2>1. SliceInvariant /\ pc' = "executing" /\ pc' \in InStep
    BY <1>0, <1>1 DEF FlowInvariant, Quiet
  <2>2. \A i \in DOMAIN invocations : invocations[i].state # "running"
    BY <1>0, <1>1, StepFacts DEF MayRun, Tracker!Running, Tracker!InState
  <2>3. \A i \in DOMAIN invocations :
          invocations[i].state = "deferred" => IsPending(invocations, pending, i)
    BY <1>0, <2>1 DEF SliceInvariant
  <2>4. \A i \in DOMAIN invocations' :
          /\ invocations'[i].state = "running" => i = Len(invocations')
          /\ invocations'[i].state = "deferred" => IsPending(invocations', pending, i)
    BY <1>3, <1>6, <2>2, <2>3 DEF IsPending
  <2>5. \A d \in Engines : \A k, l \in DOMAIN pending[d] :
          k < l => pending[d][k] < pending[d][l]
    BY <1>0, <2>1 DEF SliceInvariant
  <2> QED BY <1>1, <2>1, <2>4, <2>5 DEF SliceInvariant
<1> QED BY <1>10, <1>11 DEF FlowInvariant

\* What an invocation that stops leaves alone
LEMMA EngineEnds ==
  ASSUME TrackerInv, NEW i \in Tracker!Numbers,
         \/ EngineRaises(i)
         \/ \E raw \in RawResults : EngineReturns(i, raw) \/ EngineExhausted(i, raw)
  PROVE  /\ Quiet /\ pc = "executing" /\ i \in DOMAIN invocations
         /\ invocations[i].state = "running"
         /\ DOMAIN invocations' = DOMAIN invocations
         /\ Len(invocations') = Len(invocations)
         /\ \A j \in DOMAIN invocations \ {i} : invocations'[j] = invocations[j]
         /\ invocations'[i].engine = invocations[i].engine
         /\ invocations'[i].run = invocations[i].run
         /\ invocations'[i].input = invocations[i].input
         /\ completed \subseteq completed'
         /\ invocations'[i].state # "running"
         /\ \/ UNCHANGED pending /\ invocations'[i].state # "deferred"
            \/ pending' = [pending EXCEPT ![invocations[i].engine] = Append(@, i)]
<1>1. /\ pc = "executing" /\ pc \in InStep /\ invocations[i].state = "running" /\ Quiet
  BY DEF EngineRaises, EngineReturns, EngineExhausted, Tracker!EngineRaises,
     Tracker!EngineReturns, Tracker!EngineExhausted, InExecute, AtHome, progress,
     resolution, Quiet, InStep
<1>2. i \in DOMAIN invocations /\ invocations[i] \in Invocations
      /\ invocations \in Seq(Invocations)
  BY <1>1, RunningFacts, StepFacts
<1>3. CASE EngineRaises(i)
  BY <1>1, <1>2, <1>3 DEF EngineRaises, Tracker!EngineRaises, Invocations
<1>4. ASSUME NEW raw \in RawResults, EngineExhausted(i, raw)
      PROVE  /\ invocations' = [invocations EXCEPT ![i].state = "deferred", ![i].raw = raw]
             /\ UNCHANGED completed
             /\ pending' = [pending EXCEPT ![invocations[i].engine] = Append(@, i)]
  BY <1>4 DEF EngineExhausted, Tracker!EngineExhausted
<1>5. ASSUME NEW raw \in RawResults, EngineReturns(i, raw)
      PROVE  /\ \E state \in {"completed", "broken"} :
                  invocations' = [[invocations EXCEPT ![i].raw = raw] EXCEPT ![i].state = state]
             /\ completed' = completed \cup {<<i, i>>} /\ UNCHANGED pending
  BY <1>5 DEF EngineReturns, Tracker!EngineReturns, Tracker!Complete
<1>6. CASE \E raw \in RawResults : EngineExhausted(i, raw)
  <2>1. PICK raw \in RawResults : EngineExhausted(i, raw)
    BY <1>6
  <2>2. invocations' = [invocations EXCEPT ![i].state = "deferred", ![i].raw = raw]
    BY <1>4, <2>1
  <2>3. completed' = completed /\
        pending' = [pending EXCEPT ![invocations[i].engine] = Append(@, i)]
    BY <1>4, <2>1
  <2> QED BY <1>1, <1>2, <2>2, <2>3 DEF Invocations
<1>7. CASE \E raw \in RawResults : EngineReturns(i, raw)
  <2>1. PICK raw \in RawResults : EngineReturns(i, raw)
    BY <1>7
  <2>2. PICK state \in {"completed", "broken"} :
          invocations' = [[invocations EXCEPT ![i].raw = raw] EXCEPT ![i].state = state]
    BY <1>5, <2>1
  <2>3. completed' = completed \cup {<<i, i>>} /\ UNCHANGED pending
    BY <1>5, <2>1
  <2> DEFINE W == [invocations EXCEPT ![i].raw = raw]
  <2>4. /\ DOMAIN W = DOMAIN invocations /\ Len(W) = Len(invocations)
        /\ \A j \in DOMAIN invocations \ {i} : W[j] = invocations[j]
        /\ W[i] = [invocations[i] EXCEPT !.raw = raw]
    BY <1>2
  <2>5. invocations' = [W EXCEPT ![i] = [@ EXCEPT !.state = state]]
    BY <2>2
  <2> HIDE DEF W
  <2>6. /\ DOMAIN invocations' = DOMAIN W /\ \A j \in DOMAIN W \ {i} : invocations'[j] = W[j]
        /\ invocations'[i] = [[invocations[i] EXCEPT !.raw = raw] EXCEPT !.state = state]
    BY <1>2, <2>4, <2>5
  <2>7. Len(invocations') = Len(invocations)
    BY <1>2, <2>4, <2>5
  <2>8. /\ invocations'[i].engine = invocations[i].engine
        /\ invocations'[i].run = invocations[i].run
        /\ invocations'[i].input = invocations[i].input
        /\ invocations'[i].state = state
    BY <1>2, <2>6 DEF Invocations
  <2> QED BY <1>1, <1>2, <2>3, <2>4, <2>6, <2>7, <2>8
<1> QED BY <1>3, <1>6, <1>7

\* An engine stops.
LEMMA FlowEnds ==
  ASSUME TrackerInv, FlowInvariant, NEW i \in Tracker!Numbers,
         \/ EngineRaises(i)
         \/ \E raw \in RawResults : EngineReturns(i, raw) \/ EngineExhausted(i, raw)
  PROVE  FlowInvariant'
<1> DEFINE e == invocations[i].engine
<1>1. /\ Quiet /\ pc = "executing" /\ i \in DOMAIN invocations
      /\ invocations[i].state = "running"
      /\ DOMAIN invocations' = DOMAIN invocations /\ Len(invocations') = Len(invocations)
      /\ \A j \in DOMAIN invocations \ {i} : invocations'[j] = invocations[j]
      /\ invocations'[i].engine = e
      /\ invocations'[i].run = invocations[i].run
      /\ invocations'[i].input = invocations[i].input
      /\ completed \subseteq completed' /\ invocations'[i].state # "running"
      /\ \/ UNCHANGED pending /\ invocations'[i].state # "deferred"
         \/ pending' = [pending EXCEPT ![e] = Append(@, i)]
  BY EngineEnds
<1>0. pc \in InStep /\ pc' = "executing" /\ UNCHANGED <<composition, step, seed>>
  BY <1>1 DEF InStep, Quiet
<1>2. /\ e \in Engines /\ i \in Nat /\ i # 0
      /\ \A p \in completed : p[1] # i
      /\ \A d \in Engines : \A k \in DOMAIN pending[d] : pending[d][k] # i
  BY <1>1, RunningFacts DEF Invocations
<1> HIDE DEF e
<1>3. /\ \A j \in DOMAIN invocations : /\ invocations'[j].engine = invocations[j].engine
                                       /\ invocations'[j].run = invocations[j].run
                                       /\ invocations'[j].input = invocations[j].input
      /\ \A p \in completed : invocations'[p[1]].raw = invocations[p[1]].raw
  <2>1. \A p \in completed : p[1] \in DOMAIN invocations
    BY <1>0, StepFacts DEF Books, Matched
  <2> QED BY <1>1, <1>2, <2>1 DEF e
<1>4. InputInvariant'
  BY <1>0, <1>1, <1>3, InputsKept DEF FlowInvariant
<1>5. SliceInvariant'
  <2> SUFFICES ASSUME Kind = "adaptive" PROVE SliceInvariant'
    BY <1>0 DEF SliceInvariant, Kind
  <2>1. SliceInvariant
    BY DEF FlowInvariant
  <2>2. /\ \A d \in Engines : \A k, l \in DOMAIN pending[d] :
             k < l => pending[d][k] < pending[d][l]
        /\ \A j \in DOMAIN invocations :
             /\ invocations[j].state = "running" => j = Len(invocations)
             /\ invocations[j].state = "deferred" => IsPending(invocations, pending, j)
    BY <1>0, <1>1, <2>1 DEF SliceInvariant
  <2>3. /\ pending \in [Engines -> Seq(Nat)]
        /\ \A j \in DOMAIN invocations : j \in Nat /\ invocations[j].engine \in Engines
        /\ \A d \in Engines : \A k \in DOMAIN pending[d] : pending[d][k] \in DOMAIN invocations
    <3>1. PendingInvariant /\ Tracker!Numbers = DOMAIN invocations
      BY <1>0, StepFacts DEF TrackerInv, TrackerInvariant
    <3>2. /\ pending \in [Engines -> Seq(Nat)] /\ invocations \in Seq(Invocations)
          /\ \A j \in DOMAIN invocations : invocations[j] \in Invocations
      BY <1>0, StepFacts
    <3>3. \A j \in DOMAIN invocations : j \in Nat /\ invocations[j].engine \in Engines
      BY <3>2 DEF Invocations
    <3>4. \A d \in Engines : \A k \in DOMAIN pending[d] : pending[d][k] \in DOMAIN invocations
      BY <1>0, <3>1 DEF PendingInvariant
    <3> QED BY <3>2, <3>3, <3>4
  <2>4. \A d \in Engines : \A k \in DOMAIN pending[d] : pending[d][k] < i
    <3>1. i = Len(invocations) /\ DOMAIN invocations = 1..Len(invocations)
      BY <1>0, <1>1, <2>2, StepFacts
    <3> QED BY <1>2, <2>3, <3>1
  <2>5. CASE UNCHANGED pending /\ invocations'[i].state # "deferred"
    <3>1. \A j \in DOMAIN invocations' :
            /\ invocations'[j].state = "running" => j = Len(invocations')
            /\ invocations'[j].state = "deferred" => IsPending(invocations', pending, j)
      BY <1>1, <1>3, <2>2, <2>5 DEF IsPending
    <3> QED BY <1>0, <2>2, <2>5, <3>1 DEF SliceInvariant
  <2>6. CASE pending' = [pending EXCEPT ![e] = Append(@, i)]
    <3> DEFINE q == pending[e]
               m == Len(q) + 1
    <3>1. /\ q \in Seq(Nat) /\ pending'[e] = Append(q, i)
          /\ \A d \in Engines \ {e} : pending'[d] = pending[d]
      BY <1>2, <2>3, <2>6
    <3>2. /\ DOMAIN Append(q, i) = DOMAIN q \cup {m} /\ m \notin DOMAIN q
          /\ Append(q, i)[m] = i /\ \A k \in DOMAIN q : Append(q, i)[k] = q[k]
          /\ \A k \in DOMAIN q : k \in Nat /\ k < m
          /\ m \in Nat
      BY <1>2, <3>1
    <3>3. /\ \A k \in DOMAIN q : q[k] < i
          /\ \A k, l \in DOMAIN q : k < l => q[k] < q[l]
      BY <1>2, <2>2, <2>4
    <3> HIDE DEF q, m
    <3>4. \A k, l \in DOMAIN Append(q, i) : k < l => Append(q, i)[k] < Append(q, i)[l]
      <4> SUFFICES ASSUME NEW k \in DOMAIN Append(q, i), NEW l \in DOMAIN Append(q, i), k < l
                   PROVE  Append(q, i)[k] < Append(q, i)[l]
        OBVIOUS
      <4>1. k \in DOMAIN q
        <5>1. k = m => l \in DOMAIN q \cup {m} /\ ~(l < m) /\ l # m
          BY <3>2
        <5> QED BY <3>2, <5>1
      <4> QED BY <3>2, <3>3, <4>1
    <3>5. \A d \in Engines : \A k, l \in DOMAIN pending'[d] :
            k < l => pending'[d][k] < pending'[d][l]
      BY <2>2, <3>1, <3>4
    <3>6. \A d \in Engines : \A k \in DOMAIN pending[d] :
            k \in DOMAIN pending'[d] /\ pending'[d][k] = pending[d][k]
      BY <3>1, <3>2 DEF q
    <3>7. \A j \in DOMAIN invocations \ {i} :
            invocations'[j].state = "deferred" => IsPending(invocations', pending', j)
      BY <1>1, <1>3, <2>2, <2>3, <3>6 DEF IsPending
    <3>8. IsPending(invocations', pending', i)
      BY <1>1, <3>1, <3>2 DEF IsPending
    <3>9. \A j \in DOMAIN invocations' :
            /\ invocations'[j].state = "running" => j = Len(invocations')
            /\ invocations'[j].state = "deferred" => IsPending(invocations', pending', j)
      BY <1>1, <2>2, <3>7, <3>8
    <3> QED BY <1>0, <3>5, <3>9 DEF SliceInvariant
  <2> QED BY <1>1, <2>5, <2>6
<1> QED BY <1>4, <1>5 DEF FlowInvariant

\* The engines are done.
LEMMA FlowExecuted ==
  ASSUME TrackerInv, FlowInvariant, ExecuteReturns PROVE FlowInvariant'
<1>0. /\ pc = "executing" /\ pc \in InStep /\ pc' = "resolving" /\ pc' \in InStep
      /\ results' = Listed /\ UNCHANGED <<composition, runs>>
      /\ UNCHANGED <<step, seed, invocations, pending, completed>>
      /\ Tracker!Running = {} /\ ~Tracker!Halted
      /\ IF Kind = "adaptive" THEN TRUE
         ELSE \A e \in 1..composition.steps[step].engines : Tracker!RunsOf(e) # {}
  BY DEF ExecuteReturns, AtHome, tracker, InStep
<1>1. /\ Tracker!Numbers = DOMAIN invocations /\ invocations \in Seq(Invocations)
      /\ \A j \in DOMAIN invocations : invocations[j] \in Invocations /\ j \in Nat
  BY <1>0, StepFacts
<1>2. \A k \in DOMAIN results' :
        /\ results'[k] \in DOMAIN invocations
        /\ IF Kind = "adaptive" THEN results'[k] = k
           ELSE invocations[results'[k]].engine = k
  <2>1. CASE Kind = "adaptive"
    BY <1>0, <1>1, <2>1 DEF Listed
  <2>2. CASE Kind # "adaptive"
    <3>1. Listed = [e \in 1..composition.steps[step].engines |->
                      CHOOSE i \in DOMAIN invocations : invocations[i].engine = e]
      BY <1>1, <2>2 DEF Listed
    <3>2. \A e \in 1..composition.steps[step].engines :
            \E i \in DOMAIN invocations : invocations[i].engine = e
      BY <1>0, <1>1, <2>2 DEF Tracker!RunsOf
    <3> QED BY <1>0, <2>2, <3>1, <3>2
  <2> QED BY <2>1, <2>2
<1>3. InputInvariant'
  <2>1. InputInvariant
    BY DEF FlowInvariant
  <2> QED BY <1>0, <1>2, <2>1, InputsKept
<1>4. SliceInvariant'
  <2> SUFFICES ASSUME Kind = "adaptive" PROVE SliceInvariant'
    BY <1>0 DEF SliceInvariant, Kind
  <2>1. /\ \A d \in Engines : \A k, l \in DOMAIN pending[d] :
             k < l => pending[d][k] < pending[d][l]
        /\ \A j \in DOMAIN invocations :
             invocations[j].state = "deferred" => IsPending(invocations, pending, j)
    BY <1>0 DEF FlowInvariant, SliceInvariant
  <2>2. runs = <<>> /\ Len(runs) = 0
    BY <1>0, StepFacts
  <2>3. \A d \in Engines : \A k \in DOMAIN pending[d] : pending[d][k] > 0
    <3>1. PendingInvariant
      BY DEF TrackerInv, TrackerInvariant
    <3>2. \A d \in Engines : \A k \in DOMAIN pending[d] : pending[d][k] \in DOMAIN invocations
      BY <1>0, <1>1, <3>1 DEF PendingInvariant
    <3>3. \A j \in DOMAIN invocations : j > 0
      BY <1>1
    <3> QED BY <3>2, <3>3
  <2>4. CompletedInvariant
    BY DEF TrackerInv, TrackerInvariant
  <2>5. \A p \in completed : p[1] = p[2]
    BY <1>0, <2>4 DEF CompletedInvariant
  <2>6. \A n \in DOMAIN results' : <<n, n>> \in completed \/ IsPending(invocations, pending, n)
    <3> SUFFICES ASSUME NEW n \in DOMAIN results'
                 PROVE  <<n, n>> \in completed \/ IsPending(invocations, pending, n)
      OBVIOUS
    <3>1. n \in DOMAIN invocations
      BY <1>2
    <3>2. invocations[n].state \in {"completed", "deferred"}
      BY <1>0, <1>1, <3>1 DEF Tracker!Running, Tracker!Halted, Tracker!InState,
         Invocations, Tracker!States
    <3> QED BY <1>0, <1>1, <2>1, <2>4, <3>1, <3>2 DEF CompletedInvariant
  <2> QED BY <1>0, <2>1, <2>2, <2>3, <2>5, <2>6 DEF SliceInvariant
<1> QED BY <1>3, <1>4 DEF FlowInvariant

\* A run is selected.
LEMMA FlowSelects ==
  ASSUME TrackerInv, FlowInvariant,
         NEW votes \in [DOMAIN runs -> VoteScores], SelectRun(votes)
  PROVE  FlowInvariant'
<1>1. /\ pc = "resolving" /\ pc' = "recording" /\ UNCHANGED <<composition, results, runs>>
      /\ UNCHANGED <<step, seed, invocations, pending, completed>>
  BY DEF SelectRun, AtHome, tracker
<1>2. Kind' = Kind /\ pc \in InStep /\ pc' \in InStep
  BY <1>1 DEF Kind, InStep
<1> QED BY <1>1, <1>2 DEF FlowInvariant, InputInvariant, SliceInvariant, IsGiven,
        Outputs, OutputAt, IdAt, IsLate, Preceded, IsPending

\* The oldest of the pending slices, when the result of slice o is resolved to
\* invocation i: either the result goes to the slice that made it, or a whole
\* slice of the engine went before.
LEMMA SliceResolves ==
  ASSUME TrackerInv, FlowInvariant, pc = "resolving", Kind = "adaptive",
         Len(runs) < Len(results), NEW o, NEW i, Resolved(o, i)
  PROVE  /\ o = Len(runs) + 1
         /\ o # i => /\ Preceded(invocations, completed, o) /\ i > o
                     /\ invocations'[i].engine = invocations[o].engine
<1> DEFINE e == invocations[o].engine
<1>0. pc \in InStep
  BY DEF InStep
<1>1. /\ invocations \in Seq(Invocations) /\ pending \in [Engines -> Seq(Nat)]
      /\ results \in Seq(Nat) /\ runs \in Seq(Runs)
      /\ Matched(invocations, completed)
  BY <1>0, StepFacts DEF Books
<1>2. /\ o = results[Len(runs) + 1] /\ o \in DOMAIN invocations /\ e \in Engines
      /\ <<o, i>> \in completed'
      /\ \A j \in DOMAIN invocations : invocations'[j].engine = invocations[j].engine
  <2>1. /\ o = results[Len(runs) + 1] /\ o \in DOMAIN invocations
        /\ <<o, i>> \in completed'
        /\ \A j \in DOMAIN invocations : invocations'[j].engine = invocations[j].engine
    BY DEF Resolved
  <2>2. invocations[o] \in Invocations
    BY <1>0, <2>1, StepFacts
  <2> QED BY <2>1, <2>2 DEF Invocations
<1>3. Len(runs) \in Nat /\ Len(runs) + 1 \in DOMAIN results
  BY <1>1
<1>4. o = Len(runs) + 1
  BY <1>0, <1>2, <1>3 DEF FlowInvariant, InputInvariant
<1>5. o \in Nat /\ o > Len(runs) /\ o \in DOMAIN results
  BY <1>2, <1>3, <1>4
<1>6. /\ \A k, l \in DOMAIN pending[e] : k < l => pending[e][k] < pending[e][l]
      /\ \A k \in DOMAIN pending[e] : pending[e][k] > Len(runs)
      /\ \A p \in completed : p[1] = p[2] \/ IsLate(invocations, completed, p)
      /\ \/ <<o, o>> \in completed \/ IsPending(invocations, pending, o)
         \/ Preceded(invocations, completed, o)
  BY <1>0, <1>2, <1>5 DEF FlowInvariant, SliceInvariant
<1>7. pending[e] # <<>> =>
        /\ 1 \in DOMAIN pending[e] /\ Head(pending[e]) = pending[e][1]
        /\ Head(pending[e]) \in DOMAIN invocations
        /\ invocations[Head(pending[e])].engine = e
  BY <1>0, <1>2, HeadFacts
<1>8. /\ \/ UNCHANGED <<invocations, completed>>
         \/ /\ \A p \in completed : p[1] # o
            /\ \/ pending[e] = <<>> /\ i \notin DOMAIN invocations
               \/ pending[e] # <<>> /\ i = Head(pending[e])
      /\ i \notin DOMAIN invocations =>
           i = Len(invocations) + 1 /\ invocations'[i].engine = e
  BY DEF Resolved
<1>9. \A k \in DOMAIN pending[e] : k \in Nat /\ k > 0 /\ pending[e][k] \in Nat
  <2>1. pending[e] \in Seq(Nat)
    BY <1>1, <1>2
  <2> QED BY <2>1
<1>10. Len(invocations) \in Nat /\ DOMAIN invocations = 1..Len(invocations)
  BY <1>1
<1> HIDE DEF e
<1>11. ASSUME o # i
       PROVE  /\ Preceded(invocations, completed, o) /\ i > o /\ invocations'[i].engine = e
  <2>1. CASE UNCHANGED <<invocations, completed>>
    <3>1. <<o, i>> \in completed
      BY <1>2, <2>1
    <3>2. IsLate(invocations, completed, <<o, i>>)
      BY <1>6, <1>11, <3>1
    <3> QED BY <2>1, <3>2 DEF IsLate, e
  <2>2. CASE \A p \in completed : p[1] # o
    <3>0. <<o, i>> \notin completed /\ <<o, o>> \notin completed
      BY <2>2
    <3>1. \/ pending[e] = <<>> /\ i \notin DOMAIN invocations
          \/ pending[e] # <<>> /\ i = Head(pending[e])
      BY <1>2, <1>8, <3>0
    <3>2. ~IsPending(invocations, pending, o)
      <4> SUFFICES ASSUME NEW k \in DOMAIN pending[e], pending[e][k] = o PROVE FALSE
        BY DEF IsPending, e
      <4>1. pending[e] # <<>> /\ i = pending[e][1] /\ 1 \in DOMAIN pending[e]
        <5>1. pending[e] # <<>>
          OBVIOUS
        <5> QED BY <1>7, <3>1, <5>1
      <4>2. k > 1
        BY <1>9, <1>11, <4>1
      <4>3. i < o /\ i > Len(runs) /\ i \in Nat
        BY <1>6, <1>9, <4>1, <4>2
      <4> QED BY <1>3, <1>4, <4>3
    <3>3. Preceded(invocations, completed, o)
      BY <1>6, <3>0, <3>2
    <3>4. CASE i \notin DOMAIN invocations
      BY <1>2, <1>5, <1>8, <1>10, <3>3, <3>4
    <3>5. CASE pending[e] # <<>> /\ i = Head(pending[e])
      <4>1. i > Len(runs) /\ i \in Nat /\ i \in DOMAIN invocations /\ invocations[i].engine = e
        BY <1>6, <1>7, <1>9, <3>5
      <4>2. i > o
        BY <1>3, <1>4, <1>11, <4>1
      <4> QED BY <1>2, <3>3, <4>1, <4>2
    <3> QED BY <3>1, <3>4, <3>5
  <2> QED BY <1>8, <2>1, <2>2
<1> QED BY <1>4, <1>11 DEF e

\* Whole slices stay before the later ones of their engine.
LEMMA PrecededStays ==
  ASSUME NEW V, NEW C, NEW W, NEW D, Matched(V, C), C \subseteq D,
         \A j \in DOMAIN V : W[j].engine = V[j].engine,
         NEW n \in DOMAIN V, Preceded(V, C, n)
  PROVE  Preceded(W, D, n)
BY DEF Preceded, Matched

\* A result is resolved.
LEMMA FlowResolves ==
  ASSUME TrackerInv, FlowInvariant, ResolveResult PROVE FlowInvariant'
<1>0. /\ pc = "resolving" /\ pc \in InStep /\ pc' = "resolving" /\ pc' \in InStep
      /\ Len(runs) < Len(results)
  BY DEF ResolveResult, InStep
<1>1. PICK o, i : Resolved(o, i)
  BY ResolveFacts
<1> DEFINE e == invocations[o].engine
<1>2. /\ UNCHANGED <<composition, results, step, seed>>
      /\ pending' = [pending EXCEPT ![e] = IF @ = <<>> THEN @ ELSE Tail(@)]
      /\ Len(runs') = Len(runs) + 1
  <2>1. /\ UNCHANGED <<composition, results, step, seed>>
        /\ pending' = [pending EXCEPT ![e] = IF @ = <<>> THEN @ ELSE Tail(@)]
        /\ \E r : runs' = Append(runs, r)
    BY <1>1 DEF ResolveResult, Tracker!Resolve, AtHome, progress, Resolved
  <2>2. runs \in Seq(Runs)
    BY <1>0, StepFacts
  <2> QED BY <2>1, <2>2
<1>3. /\ o \in DOMAIN invocations /\ i \in DOMAIN invocations'
      /\ <<o, i>> \in completed' /\ completed \subseteq completed'
      /\ completed' \subseteq completed \cup {<<o, i>>}
      /\ DOMAIN invocations \subseteq DOMAIN invocations'
      /\ DOMAIN invocations' \subseteq DOMAIN invocations \cup {i}
      /\ \A j \in DOMAIN invocations :
           /\ invocations'[j].engine = invocations[j].engine
           /\ invocations'[j].run = invocations[j].run
           /\ invocations'[j].input = invocations[j].input
           /\ invocations'[j].raw = invocations[j].raw
  BY <1>1 DEF Resolved
<1>4. /\ invocations \in Seq(Invocations) /\ results \in Seq(Nat) /\ runs \in Seq(Runs)
      /\ Books(step, seed, invocations, completed, known, producers)
      /\ Matched(invocations, completed) /\ pending \in [Engines -> Seq(Nat)]
      /\ \A j \in DOMAIN invocations : invocations[j] \in Invocations
  BY <1>0, StepFacts DEF Books
<1>5. e \in Engines /\ seed.value \in Values
  BY <1>3, <1>4 DEF Invocations, Books, Candidates
<1>6. /\ pending'[e] = IF pending[e] = <<>> THEN pending[e] ELSE Tail(pending[e])
      /\ \A d \in Engines \ {e} : pending'[d] = pending[d]
  BY <1>2, <1>4, <1>5
<1>7. Kind' = Kind
  BY <1>2 DEF Kind
<1>8. \A k \in DOMAIN results : results[k] \in DOMAIN invocations
  <2>1. ResultsInvariant /\ Tracker!Numbers = DOMAIN invocations
    BY <1>0, StepFacts DEF TrackerInv, TrackerInvariant
  <2> QED BY <1>0, <2>1 DEF ResultsInvariant
<1>9. InputInvariant'
  <2>1. InputInvariant
    BY DEF FlowInvariant
  <2>2. ASSUME NEW j \in DOMAIN invocations' \ DOMAIN invocations
        PROVE  /\ invocations'[j].input.value = seed.value /\ j # 1
               /\ IsGiven(invocations'[j].input, step, seed, invocations, completed)
    <3> DEFINE x == invocations'[j].input
    <3>1. j = i /\ i \notin DOMAIN invocations
      BY <1>3
    <3>2. /\ i = Len(invocations) + 1
          /\ x = Entry(seed, invocations, known, producers, e, seed.value, "running").input
      BY <1>1, <3>1 DEF Resolved
    <3>3. j # 1
      <4>1. Len(invocations) \in Nat /\ DOMAIN invocations = 1..Len(invocations)
        BY <1>4
      <4>2. Len(invocations) # 0
        BY <1>3, <4>1
      <4> QED BY <3>1, <3>2, <4>1, <4>2
    <3> HIDE DEF x, e
    <3>4. x.value = seed.value /\ IsGiven(x, step, seed, invocations, completed)
      BY <1>4, <1>5, <3>2, EntryInput
    <3> QED BY <3>3, <3>4 DEF x
  <2>3. \A p \in completed : invocations'[p[1]].raw = invocations[p[1]].raw
    BY <1>3, <1>4 DEF Matched
  <2>4. \A k \in DOMAIN results :
          IF Kind = "adaptive" THEN results[k] = k ELSE invocations[results[k]].engine = k
    BY <1>0, <2>1 DEF InputInvariant
  <2> HIDE DEF e
  <2> QED BY <1>0, <1>2, <1>3, <1>8, <2>1, <2>2, <2>3, <2>4, InputsKept
<1>10. SliceInvariant'
  <2> SUFFICES ASSUME Kind = "adaptive" PROVE SliceInvariant'
    BY <1>7 DEF SliceInvariant
  <2>1. /\ o = Len(runs) + 1
        /\ o # i => /\ Preceded(invocations, completed, o) /\ i > o
                    /\ invocations'[i].engine = e
    BY <1>0, <1>1, SliceResolves
  <2> HIDE DEF e
  <2>2. /\ \A d \in Engines : \A k, l \in DOMAIN pending[d] :
             k < l => pending[d][k] < pending[d][l]
        /\ \A d \in Engines : \A k \in DOMAIN pending[d] : pending[d][k] > Len(runs)
        /\ \A p \in completed : p[1] = p[2] \/ IsLate(invocations, completed, p)
        /\ \A n \in DOMAIN results : n > Len(runs) =>
             \/ <<n, n>> \in completed \/ IsPending(invocations, pending, n)
             \/ Preceded(invocations, completed, n)
    BY <1>0 DEF FlowInvariant, SliceInvariant
  <2>3. \A d \in Engines : \A k \in DOMAIN pending[d] :
          /\ k \in Nat /\ k > 0 /\ pending[d][k] \in Nat
          /\ invocations[pending[d][k]].engine = d
    <3>1. PendingInvariant
      BY DEF TrackerInv, TrackerInvariant
    <3>2. \A d \in Engines : pending[d] \in Seq(Nat)
      BY <1>4
    <3>3. \A d \in Engines : \A k \in DOMAIN pending[d] :
            k \in Nat /\ k > 0 /\ pending[d][k] \in Nat
      BY <3>2
    <3> QED BY <1>0, <3>1, <3>3 DEF PendingInvariant
  <2>4. Len(runs) \in Nat
    BY <1>4
  \* The queues
  <2>5. pending[e] # <<>> =>
          /\ 1 \in DOMAIN pending[e]
          /\ \A k \in DOMAIN Tail(pending[e]) :
               /\ k \in Nat /\ k > 0 /\ k + 1 \in DOMAIN pending[e]
               /\ Tail(pending[e])[k] = pending[e][k + 1]
          /\ \A k \in DOMAIN pending[e] \ {1} :
               k - 1 \in DOMAIN Tail(pending[e]) /\ Tail(pending[e])[k - 1] = pending[e][k]
    <3> DEFINE q == pending[e]
    <3>1. q \in Seq(Nat)
      BY <1>4, <1>5
    <3> HIDE DEF q
    <3>2. q # <<>> =>
            /\ 1 \in DOMAIN q
            /\ \A k \in DOMAIN Tail(q) :
                 k \in Nat /\ k > 0 /\ k + 1 \in DOMAIN q /\ Tail(q)[k] = q[k + 1]
            /\ \A k \in DOMAIN q \ {1} : k - 1 \in DOMAIN Tail(q) /\ Tail(q)[k - 1] = q[k]
      BY <3>1
    <3> QED BY <3>2 DEF q
  <2>6. \A d \in Engines : \A k, l \in DOMAIN pending'[d] :
          k < l => pending'[d][k] < pending'[d][l]
    <3>1. CASE pending[e] = <<>>
      BY <1>6, <2>2, <3>1
    <3>2. CASE pending[e] # <<>>
      <4>1. ASSUME NEW k \in DOMAIN Tail(pending[e]), NEW l \in DOMAIN Tail(pending[e]), k < l
            PROVE  Tail(pending[e])[k] < Tail(pending[e])[l]
        <5>1. /\ k \in Nat /\ k + 1 \in DOMAIN pending[e] /\ l \in Nat /\ l + 1 \in DOMAIN pending[e]
              /\ Tail(pending[e])[k] = pending[e][k + 1]
              /\ Tail(pending[e])[l] = pending[e][l + 1]
          BY <2>5, <3>2
        <5>2. k + 1 < l + 1
          BY <4>1, <5>1
        <5> QED BY <1>5, <2>2, <5>1, <5>2
      <4> QED BY <1>6, <2>2, <3>2, <4>1
    <3> QED BY <3>1, <3>2
  <2>7. \A d \in Engines : \A k \in DOMAIN pending'[d] : pending'[d][k] > Len(runs')
    <3> SUFFICES ASSUME NEW d \in Engines, NEW k \in DOMAIN pending'[d]
                 PROVE  pending'[d][k] > Len(runs')
      OBVIOUS
    <3>1. CASE d # e
      <4>1. pending'[d] = pending[d] /\ k \in DOMAIN pending[d]
        BY <1>6, <3>1
      <4>2. pending[d][k] # o
        BY <2>3, <3>1, <4>1 DEF e
      <4>3. pending[d][k] \in Nat /\ pending[d][k] > Len(runs)
        BY <2>2, <2>3, <4>1
      <4>4. Len(runs') = Len(runs) + 1
        BY <1>2
      <4> QED BY <2>1, <2>4, <4>1, <4>2, <4>3, <4>4
    <3>2. CASE d = e
      <4>1. pending[e] # <<>>
        BY <1>6, <3>2
      <4>2. /\ k + 1 \in DOMAIN pending[e] /\ pending'[e][k] = pending[e][k + 1]
            /\ 1 \in DOMAIN pending[e] /\ k \in Nat /\ k > 0
        BY <1>6, <2>5, <3>2, <4>1
      <4>3. pending[e][1] < pending[e][k + 1] /\ pending[e][1] > Len(runs)
        BY <1>5, <2>2, <4>2
      <4>4. pending[e][1] \in Nat /\ pending[e][k + 1] \in Nat
        BY <1>5, <2>3, <4>2
      <4> QED BY <1>2, <2>4, <3>2, <4>2, <4>3, <4>4
    <3> QED BY <3>1, <3>2
  \* Where results went
  <2>8. \A n \in DOMAIN invocations :
          Preceded(invocations, completed, n) => Preceded(invocations', completed', n)
    BY <1>3, <1>4, PrecededStays
  <2>9. \A p \in completed' : p[1] = p[2] \/ IsLate(invocations', completed', p)
    <3> SUFFICES ASSUME NEW p \in completed', p[1] # p[2]
                 PROVE  IsLate(invocations', completed', p)
      OBVIOUS
    <3>1. CASE p \in completed
      <4>1. p[1] \in DOMAIN invocations /\ p[2] \in DOMAIN invocations
        BY <1>4, <3>1 DEF Matched
      <4>2. IsLate(invocations, completed, p)
        BY <2>2, <3>1
      <4> QED BY <1>3, <2>8, <4>1, <4>2 DEF IsLate
    <3>2. CASE p = <<o, i>>
      <4>1. p[1] = o /\ p[2] = i /\ o # i
        BY <3>2
      <4>2. invocations'[o].engine = e
        BY <1>3 DEF e
      <4> QED BY <1>3, <2>1, <2>8, <4>1, <4>2 DEF IsLate
    <3> QED BY <1>3, <3>1, <3>2
  \* A later slice of the engine has a whole one before it, now at the latest.
  <2>10. ASSUME NEW n \in DOMAIN invocations, invocations[n].engine = e, n > o
         PROVE  Preceded(invocations', completed', n)
    <3>0. invocations'[n].engine = e /\ invocations'[o].engine = e
      BY <1>3, <2>10 DEF e
    <3>1. CASE o = i
      <4>1. <<o, o>> \in completed'
        BY <1>3, <3>1
      <4>2. <<o, o>>[1] = o /\ <<o, o>>[2] = o /\ o < n
        BY <2>1, <2>4, <2>10
      <4> QED BY <3>0, <4>1, <4>2 DEF Preceded
    <3>2. CASE o # i
      <4>1. Preceded(invocations', completed', o)
        BY <1>3, <2>1, <2>8, <3>2
      <4>2. PICK q \in completed' : q[1] = q[2] /\ q[1] < o /\ invocations'[q[1]].engine = e
        BY <3>0, <4>1 DEF Preceded
      <4>3. q[1] < n
        <5>1. q[1] \in Nat
          <6>1. Matched(invocations', completed') /\ invocations' \in Seq(Invocations)
            BY <1>1 DEF Resolved, Books
          <6> QED BY <6>1 DEF Matched
        <5>2. n \in Nat /\ o \in Nat
          BY <1>4, <2>1, <2>4
        <5> QED BY <2>10, <4>2, <5>1, <5>2
      <4> QED BY <3>0, <4>2, <4>3 DEF Preceded
    <3> QED BY <3>1, <3>2
  <2>11. ASSUME NEW n \in DOMAIN results, n > Len(runs')
         PROVE  \/ <<n, n>> \in completed' \/ IsPending(invocations', pending', n)
                \/ Preceded(invocations', completed', n)
    <3>1. n \in Nat /\ n \in DOMAIN invocations /\ n > o /\ n > Len(runs)
      <4>1. n \in Nat
        BY <1>4
      <4>2. results[n] = n
        BY <1>0 DEF FlowInvariant, InputInvariant
      <4> QED BY <1>2, <1>8, <2>1, <2>4, <2>11, <4>1, <4>2
    <3>2. CASE <<n, n>> \in completed \/ Preceded(invocations, completed, n)
      BY <1>3, <2>8, <3>1, <3>2
    <3>3. CASE IsPending(invocations, pending, n)
      <4> DEFINE d == invocations[n].engine
      <4>1. PICK k \in DOMAIN pending[d] : pending[d][k] = n
        BY <3>3 DEF IsPending
      <4>2. d \in Engines /\ invocations'[n].engine = d
        BY <1>3, <1>4, <3>1 DEF Invocations
      <4>3. CASE d = e
        BY <2>10, <3>1, <4>3
      <4>4. CASE d # e
        <5>1. pending'[d] = pending[d]
          BY <1>6, <4>2, <4>4
        <5> QED BY <4>1, <4>2, <5>1 DEF IsPending
      <4> QED BY <4>3, <4>4
    <3> QED BY <2>2, <3>1, <3>2, <3>3
  <2> QED BY <1>0, <1>2, <2>6, <2>7, <2>9, <2>11 DEF SliceInvariant
<1> QED BY <1>9, <1>10 DEF FlowInvariant

\* Every step keeps where inputs come from and where results go.
LEMMA FlowStep ==
  ASSUME TrackerInv, FlowInvariant, Next PROVE FlowInvariant'
<1>1. CASE \/ \E c \in Configs : StartCall(c)
           \/ RejectCall \/ ClaimDirectory \/ ResetDirectory \/ BeginRun
           \/ ResumeRun \/ ReturnSaved \/ BeginSteps \/ RecordStep
           \/ FinishComposition \/ FinishPipeline \/ SaveResult \/ CloseRun
           \/ Raise \/ RecordFailure \/ EndRaising \/ Announce \/ Report \/ Crash
  <2>1. pc' \notin InStep
    BY <1>1 DEF InStep, StartCall, RejectCall, ClaimDirectory, ResetDirectory, BeginRun,
       ResumeRun, ReturnSaved, BeginSteps, RecordStep, FinishComposition, FinishPipeline,
       Finish, SaveResult, CloseRun, Raise, RecordFailure, EndRaising, Announce, Report,
       Crash
  <2> QED BY <2>1, FlowGone
<1>2. CASE StartStep
  BY <1>2, FlowStarts
<1>3. CASE \E e \in Engines : RunEngine(e)
  BY <1>3, FlowRuns
<1>4. CASE \E i \in Tracker!Numbers :
             \/ EngineRaises(i)
             \/ \E raw \in RawResults : EngineReturns(i, raw) \/ EngineExhausted(i, raw)
  BY <1>4, FlowEnds
<1>5. CASE ExecuteReturns
  BY <1>5, FlowExecuted
<1>6. CASE ResolveResult
  BY <1>6, FlowResolves
<1>7. CASE \E votes \in [DOMAIN runs -> VoteScores] : SelectRun(votes)
  BY <1>7, FlowSelects
<1> QED BY <1>1, <1>2, <1>3, <1>4, <1>5, <1>6, <1>7 DEF Next

----------------------------------------------------------------------------
(* All of it is an invariant.                                              *)

\* Every step keeps the tracker's books.
LEMMA TrackerStep ==
  ASSUME TrackerInv, Next PROVE TrackerInvariant'
BY TrackerOutside, TrackerStarts, TrackerRuns, TrackerReturns, TrackerRaises,
   TrackerExhausted, TrackerExecuted, TrackerResolves, TrackerSelects
   DEF Next

\* The inductive invariant
Inv == CallInv /\ TrackerInvariant /\ FlowInvariant /\ StoreInv

\* It speaks of the variables alone.
LEMMA InvStutters ==
  ASSUME Inv, UNCHANGED vars PROVE Inv'
<1> USE DEF Inv, vars, frame, progress, resolution, tracker, ending, storeVars, history
<1>1. CallInv'
  BY DEF CallInv, CallType, CallInvariant, Durable
<1>2. StoreInv'
  <2>1. UNCHANGED <<Recorded, answer, spoiled>>
    BY DEF Recorded
  <2>2. CheckpointIsChain' /\ AnswerInvariant'
    BY <2>1, ChainStays, AnswerStays DEF StoreInv
  <2>3. MemoryInvariant'
    BY DEF StoreInv, MemoryInvariant, Durable, Complete, ResultOf, Finished, Heldout
  <2> QED BY <2>2, <2>3 DEF StoreInv
<1>3. /\ Tracker!Numbers' = Tracker!Numbers /\ Tracker!Running' = Tracker!Running
      /\ Tracker!Halted' = Tracker!Halted /\ Kind' = Kind
  BY DEF Tracker!Numbers, Tracker!Running, Tracker!Halted, Tracker!InState, Kind
<1>4. StepInvariant' /\ EngineInvariant' /\ BooksInvariant'
  BY <1>3 DEF TrackerInvariant, StepInvariant, Idle, EngineInvariant, BooksInvariant
<1>5. CompletedInvariant' /\ PendingInvariant' /\ SiblingInvariant' /\ SelectedInvariant'
  BY <1>3 DEF TrackerInvariant, CompletedInvariant, PendingInvariant,
     SiblingInvariant, SelectedInvariant
<1>6. ResultsInvariant'
  BY <1>3 DEF TrackerInvariant, ResultsInvariant, RunAt, IdAt, OutputAt
<1>7. FlowInvariant'
  BY <1>3 DEF FlowInvariant, InputInvariant, SliceInvariant, IsGiven, Outputs,
     OutputAt, IdAt, IsLate, Preceded, IsPending
<1> QED BY <1>1, <1>2, <1>4, <1>5, <1>6, <1>7 DEF TrackerInvariant

\* The invariant holds in every state of the system: it is the books of the
\* tracker, the locals of optimize and the agreement of both with the
\* directory, and everything below follows from it.
THEOREM InvariantCorrect == Spec => []Inv
<1>1. Init => Inv
  BY CallInitially, TrackerInitially, FlowInitially, StoreInitially DEF Inv
<1>2. Inv /\ [Next]_vars => Inv'
  <2>1. ASSUME Inv, Next PROVE Inv'
    BY <2>1, CallStep, TrackerStep, FlowStep, StoreStep DEF Inv, TrackerInv
  <2> QED BY <2>1, InvStutters
<1> QED BY <1>1, <1>2, PTL DEF Spec

----------------------------------------------------------------------------
(* What follows from it.                                                   *)

\* An evaluation asked for by an engine is told under its own invocation.
LEMMA ScopeIsOwn ==
  ASSUME Inv, NEW i \in Tracker!Numbers, invocations[i].state = "running"
  PROVE  ScopeOf(i) = i
<1>1. pc \in InStep
  <2>1. ASSUME invocations = <<>> PROVE FALSE
    BY <2>1, EmptySeq DEF Tracker!Numbers
  <2> QED BY <2>1 DEF Inv, TrackerInvariant, StepInvariant, Idle
<1>2. /\ i \in DOMAIN invocations /\ invocations[i] \in Invocations /\ i # 0
      /\ active \in [Engines -> Nat] /\ Tracker!Numbers = DOMAIN invocations
  BY <1>1, StepFacts DEF Inv, TrackerInv
<1>3. EngineInvariant
  BY DEF Inv, TrackerInvariant
<1>4. invocations[i].engine \in Engines /\ active[invocations[i].engine] = i
  BY <1>1, <1>2, <1>3 DEF EngineInvariant, Invocations
<1>5. pc = "executing"
  BY <1>1, <1>3 DEF EngineInvariant, Tracker!Running, Tracker!InState
<1>6. CASE Kind # "adaptive"
  BY <1>4, <1>6 DEF ScopeOf
<1>7. CASE Kind = "adaptive"
  <2> DEFINE c == invocations[i].engine
             busy == {e \in Engines : active[e] # 0}
  <2>1. \A d \in Engines \ {c} : active[d] = 0
    BY <1>1, <1>2, <1>3, <1>4, <1>5, <1>7 DEF EngineInvariant
  <2>2. busy = {c}
    BY <1>2, <1>4, <2>1
  <2>3. c <= c
    BY <1>4, CompositionAssumption
  <2> HIDE DEF c
  <2>4. (CHOOSE e \in busy : \A d \in busy : e <= d) = c
    BY <2>2, <2>3
  <2>5. ScopeOf(i) = active[CHOOSE e \in busy : \A d \in busy : e <= d]
    BY <1>7, <2>2 DEF ScopeOf
  <2> QED BY <1>4, <2>4, <2>5 DEF c
<1> QED BY <1>6, <1>7

\* Every variable of the call, of the step and of the directory keeps its type,
\* and evaluations are told under the invocation that asked for them.
THEOREM TypeCorrect == Spec => []TypeOK
<1>1. ASSUME Inv PROVE TypeOK
  <2>1. CallType /\ StepInvariant /\ ResultsInvariant /\ SelectedInvariant
    BY <1>1 DEF Inv, CallInv, TrackerInvariant
  <2>2. Store!StoreType
    BY <2>1 DEF CallType, Store!StoreType
  <2>3. results \in Seq(Tracker!Numbers) /\ runs \in Seq(Runs)
        /\ selected \in 0..Len(runs) /\ rescored \in Nat
    <3>1. CASE pc \notin InStep
      BY <2>1, <3>1, EmptySeq DEF StepInvariant, Idle
    <3>2. CASE pc \in InStep
      <4>1. /\ runs \in Seq(Runs) /\ rescored \in Nat /\ results \in Seq(Nat)
            /\ pc # "recording" => selected = 0
        BY <2>1, <3>2 DEF StepInvariant
      <4>2. selected \in 0..Len(runs)
        BY <2>1, <4>1 DEF SelectedInvariant
      <4>3. \A k \in DOMAIN results : results[k] \in Tracker!Numbers
        <5>1. CASE pc = "executing"
          BY <2>1, <5>1, EmptySeq DEF StepInvariant
        <5>2. CASE pc # "executing"
          BY <2>1, <3>2, <5>2 DEF ResultsInvariant
        <5> QED BY <5>1, <5>2
      <4> QED BY <4>1, <4>2, <4>3
    <3> QED BY <3>1, <3>2
  <2>4. \A i \in Tracker!Numbers :
          /\ invocations[i].engine \in Engines /\ invocations[i].state \in Tracker!States
          /\ invocations[i].input \in Candidates
    <3>1. CASE pc \notin InStep
      BY <2>1, <3>1, EmptySeq DEF StepInvariant, Idle, Tracker!Numbers
    <3>2. CASE pc \in InStep
      BY <1>1, <3>2, StepFacts DEF Inv, TrackerInv, Invocations
    <3> QED BY <3>1, <3>2
  <2>5. \A i \in Tracker!Numbers : invocations[i].state = "running" => ScopeOf(i) = i
    BY <1>1, ScopeIsOwn
  <2> QED BY <2>1, <2>2, <2>3, <2>4, <2>5 DEF TypeOK, CallType, Places
<1> QED BY <1>1, InvariantCorrect, PTL

\* A crash at any point leaves a checkpoint that a pipeline can go on from.
THEOREM ChainCorrect == Spec => []CheckpointIsChain
<1>1. Inv => CheckpointIsChain
  BY DEF Inv, StoreInv
<1> QED BY <1>1, InvariantCorrect, PTL

\* The lineage a step reports is what happened: every result is listed under
\* the invocation that made it, save for slices cut off after a whole one.
THEOREM LineageCorrect == Spec => []LineageSound
<1>1. ASSUME Inv PROVE LineageSound
  <2> SUFFICES ASSUME pc = "recording" PROVE LineageSound
    BY DEF LineageSound
  <2>0. pc \in InStep \ {"executing"}
    BY DEF InStep
  <2>1. /\ Tracker!Numbers = DOMAIN invocations /\ seed = candidate
        /\ Distinct(invocations) /\ Matched(invocations, completed)
        /\ Lineage(step, seed, invocations, completed)
        /\ runs \in Seq(Runs) /\ results \in Seq(Nat)
    BY <1>1, <2>0, StepFacts DEF Inv, TrackerInv, Books
  <2>2. Len(runs) = Len(results)
    BY <1>1 DEF Inv, TrackerInvariant, SelectedInvariant
  <2>3. DOMAIN runs = DOMAIN results /\ \A k \in DOMAIN results : k <= Len(runs)
    BY <2>1, <2>2
  <2>4. /\ \A k, l \in DOMAIN results : results[k] = results[l] => k = l
        /\ \A k \in DOMAIN runs :
             \E p \in completed : p[1] = results[k] /\ runs[k] = RunAt(p[1], p[2])
        /\ \A p \in completed : \E k \in DOMAIN results : p[1] = results[k]
    BY <1>1, <2>0 DEF Inv, TrackerInvariant, ResultsInvariant
  <2>6. \A p \in completed : RunAt(p[1], p[2]).id = IdAt(step, invocations, p[2])
    BY DEF RunAt
  <2>7. \A i, j \in DOMAIN runs : i # j => runs[i].id # runs[j].id
    <3> SUFFICES ASSUME NEW i \in DOMAIN runs, NEW j \in DOMAIN runs, i # j
                 PROVE  runs[i].id # runs[j].id
      OBVIOUS
    <3>1. PICK p \in completed : p[1] = results[i] /\ runs[i] = RunAt(p[1], p[2])
      BY <2>4
    <3>2. PICK q \in completed : q[1] = results[j] /\ runs[j] = RunAt(q[1], q[2])
      BY <2>4
    <3>3. p[1] # q[1]
      BY <2>3, <2>4, <3>1, <3>2
    <3>4. p[2] # q[2] /\ p[2] \in DOMAIN invocations /\ q[2] \in DOMAIN invocations
      BY <2>1, <3>3 DEF Matched
    <3>5. IdAt(step, invocations, p[2]) # IdAt(step, invocations, q[2])
      BY <2>1, <3>4 DEF Distinct, IdAt
    <3> QED BY <2>6, <3>1, <3>2, <3>5
  <2>8. ASSUME NEW i \in DOMAIN runs
        PROVE  \/ /\ runs[i].input.id \in {None, candidate.id}
                  /\ runs[i].parent = candidate.id
               \/ /\ runs[i].input.id = runs[i].parent
                  /\ \E j \in DOMAIN runs :
                       /\ j # i /\ runs[j].id = runs[i].parent
                       /\ runs[j].output = runs[i].input
    <3>1. PICK p \in completed : p[1] = results[i] /\ runs[i] = RunAt(p[1], p[2])
      BY <2>4
    <3>2. /\ runs[i].parent = invocations[p[2]].parent
          /\ runs[i].input = invocations[p[2]].input
          /\ p[2] \in DOMAIN invocations
      BY <2>1, <3>1 DEF RunAt, Matched
    <3>3. CASE invocations[p[2]].input.id \in {None, seed.id} /\ invocations[p[2]].parent = seed.id
      BY <2>1, <3>2, <3>3
    <3>4. ASSUME NEW q \in completed, q[2] # p[2],
                 invocations[p[2]].parent = IdAt(step, invocations, q[2]),
                 invocations[p[2]].input = OutputAt(step, invocations, q[1], q[2])
          PROVE  /\ runs[i].input.id = runs[i].parent
                 /\ \E j \in DOMAIN runs :
                      /\ j # i /\ runs[j].id = runs[i].parent
                      /\ runs[j].output = runs[i].input
      <4>1. PICK j \in DOMAIN results : q[1] = results[j]
        BY <2>4
      <4>2. PICK r \in completed : r[1] = results[j] /\ runs[j] = RunAt(r[1], r[2])
        BY <2>3, <2>4
      <4>3. r[2] = q[2] /\ r[1] = q[1] /\ q[1] # p[1]
        BY <2>1, <3>4, <4>1, <4>2 DEF Matched
      <4>4. runs[j].id = IdAt(step, invocations, q[2])
            /\ runs[j].output = OutputAt(step, invocations, q[1], q[2])
        BY <4>2, <4>3 DEF RunAt
      <4>5. j # i
        BY <3>1, <4>1, <4>3
      <4>6. OutputAt(step, invocations, q[1], q[2]).id = IdAt(step, invocations, q[2])
        BY DEF OutputAt
      <4> QED BY <2>3, <3>2, <3>4, <4>4, <4>5, <4>6
    <3> QED BY <2>1, <3>2, <3>3, <3>4 DEF Lineage
  \* The run of a result that went to its own invocation
  <2>9. ASSUME NEW p \in completed, p[1] = p[2], NEW j \in DOMAIN runs,
               runs[j] = RunAt(p[1], p[2]), results[j] = p[1]
        PROVE  Attributed(j, p[1])
    BY <2>9 DEF Attributed, RunAt, OutputAt, IdAt, Tracker!ExecutionId
  <2>10. Kind # "adaptive" => \A p \in completed : p[1] = p[2]
    BY <1>1, <2>0 DEF Inv, TrackerInvariant, SiblingInvariant
  <2>11. Kind = "adaptive" =>
           \A p \in completed : p[1] = p[2] \/ IsLate(invocations, completed, p)
    BY <1>1, <2>0 DEF Inv, FlowInvariant, SliceInvariant
  <2>12. ASSUME NEW i \in DOMAIN runs
         PROVE  Attributed(i, results[i]) \/ Misattributed(i, results[i])
    <3>1. PICK p \in completed : p[1] = results[i] /\ runs[i] = RunAt(p[1], p[2])
      BY <2>4
    <3>2. CASE p[1] = p[2]
      BY <2>9, <3>1, <3>2
    <3>3. CASE p[1] # p[2]
      <4>1. Kind = "adaptive" /\ IsLate(invocations, completed, p)
        BY <2>10, <2>11, <3>3
      <4>2. PICK q \in completed :
              q[1] = q[2] /\ q[1] < p[1] /\ invocations[q[1]].engine = invocations[p[1]].engine
        BY <4>1 DEF IsLate, Preceded
      <4>3. PICK j \in DOMAIN results : q[1] = results[j]
        BY <2>4
      <4>4. PICK r \in completed : r[1] = results[j] /\ runs[j] = RunAt(r[1], r[2])
        BY <2>3, <2>4
      <4>5. r[1] = r[2] /\ r[1] = q[1]
        BY <2>1, <4>2, <4>3, <4>4 DEF Matched
      <4>6. Attributed(j, q[1])
        BY <2>3, <2>9, <4>3, <4>4, <4>5
      <4>7. /\ p[2] \in DOMAIN invocations /\ p[2] > p[1]
            /\ invocations[p[2]].engine = invocations[p[1]].engine
            /\ runs[i].id = Tracker!ExecutionId(p[2])
        BY <2>1, <3>1, <4>1 DEF IsLate, Matched, RunAt, IdAt, Tracker!ExecutionId
      <4>8. q[1] \in 1..(p[1] - 1)
        <5>1. invocations \in Seq(Invocations)
          BY <1>1, <2>0, StepFacts DEF Inv, TrackerInv
        <5>2. p[1] \in DOMAIN invocations /\ q[1] \in DOMAIN invocations
          BY <2>1 DEF Matched
        <5>3. p[1] \in Nat /\ q[1] \in Nat /\ q[1] > 0
          BY <5>1, <5>2
        <5> QED BY <4>2, <5>3
      <4> QED BY <2>1, <2>3, <3>1, <4>1, <4>2, <4>3, <4>6, <4>7, <4>8 DEF Misattributed
    <3> QED BY <3>2, <3>3
  <2>13. Kind \notin {"sequential", "adaptive"} =>
           \A i \in DOMAIN runs : runs[i].input.value = candidate.value
    <3>1. \A i \in DOMAIN runs : \E p \in completed :
            p[2] \in DOMAIN invocations /\ runs[i].input = invocations[p[2]].input
      BY <2>1, <2>4 DEF Matched, RunAt
    <3>2. InputInvariant
      BY <1>1 DEF Inv, FlowInvariant
    <3> QED BY <2>0, <2>1, <3>1, <3>2 DEF InputInvariant
  <2> QED BY <2>7, <2>8, <2>12, <2>13 DEF LineageSound
<1> QED BY <1>1, InvariantCorrect, PTL

\* What a directory has recorded is never executed again.
THEOREM NoStepRepeatedCorrect == Spec => NoStepRepeated
<1> USE DEF AtHome, progress, resolution, tracker, frame, ending, storeVars, history
<1>1. ASSUME Inv, Next, composition.pipeline, savedState # None, step = 0, step' # 0
      PROVE  step' = Len(savedState.stages) + 1 /\ seed' = savedState.accepted
  <2>1. StartStep
    <3>1. CASE \/ \E c \in Configs : StartCall(c)
               \/ RejectCall \/ ClaimDirectory \/ ResetDirectory \/ BeginRun \/ ResumeRun
               \/ ReturnSaved \/ BeginSteps \/ FinishPipeline \/ SaveResult \/ CloseRun
               \/ RecordFailure \/ EndRaising \/ Announce \/ Report
      <4>1. UNCHANGED step
        BY <3>1 DEF StartCall, RejectCall, ClaimDirectory, ResetDirectory, BeginRun,
           ResumeRun, ReturnSaved, BeginSteps, FinishPipeline, SaveResult,
           CloseRun, RecordFailure, EndRaising, Announce, Report
      <4> QED BY <1>1, <4>1
    <3>2. CASE RecordStep \/ FinishComposition \/ Raise \/ Crash
      <4>1. step' = 0
        BY <3>2 DEF RecordStep, FinishComposition, Raise, Crash, Unwound,
           StepIsOver, Tracker!NoTracker
      <4> QED BY <1>1, <4>1
    <3>3. CASE \/ \E e \in Engines : RunEngine(e)
               \/ \E i \in Tracker!Numbers :
                    \/ EngineRaises(i)
                    \/ \E raw \in RawResults : EngineReturns(i, raw) \/ EngineExhausted(i, raw)
               \/ ExecuteReturns \/ ResolveResult
               \/ \E votes \in [DOMAIN runs -> VoteScores] : SelectRun(votes)
      <4>1. UNCHANGED step
        BY <3>3 DEF RunEngine, Tracker!StartEngine, EngineRaises,
           Tracker!EngineRaises,
           EngineReturns, Tracker!EngineReturns, EngineExhausted,
               Tracker!EngineExhausted,
           ExecuteReturns, ResolveResult, Tracker!Resolve, SelectRun
      <4> QED BY <1>1, <4>1
    <3> QED BY <1>1, <3>1, <3>2, <3>3 DEF Next
  <2>2. /\ pc = "stepping" /\ step' = Len(steps) + 1 /\ seed' = candidate
    BY <2>1 DEF StartStep, Tracker!NewTracker
  <2>3. Durable
    BY <1>1 DEF Inv, CallInv, CallInvariant
  <2>4. steps = savedState.stages /\ candidate = savedState.accepted
    BY <1>1, <2>2, <2>3 DEF Inv, StoreInv, MemoryInvariant, InSteps
  <2> QED BY <2>2, <2>4
<1>2. ASSUME Inv, [Next]_vars
      PROVE  [composition.pipeline /\ savedState # None /\ step = 0 /\ step' # 0
                => /\ step' = Len(savedState.stages) + 1
                   /\ seed' = savedState.accepted]_vars
  BY <1>1, <1>2
<1> QED BY <1>2, InvariantCorrect, PTL DEF Spec, NoStepRepeated

\* All callers of a directory's run are given one result.
THEOREM AnswerCorrect == Spec => AnswerIsKept
<1> USE DEF AtHome, progress, resolution, tracker, frame, ending, storeVars, history
<1>1. ASSUME Inv, Next, Durable, answer # None, answer' # answer
      PROVE  answer' = None \/ (spoiled /\ ~composition.pipeline)
  <2>1. ResetDirectory \/ ReturnSaved \/ Report
    <3>1. CASE \/ \E c \in Configs : StartCall(c)
               \/ RejectCall \/ ClaimDirectory \/ BeginRun \/ ResumeRun
               \/ BeginSteps \/ StartStep
               \/ RecordStep \/ FinishComposition \/ FinishPipeline \/ SaveResult \/ CloseRun
               \/ Raise \/ RecordFailure \/ EndRaising \/ Announce \/ Crash
      <4>1. UNCHANGED answer
        BY <3>1 DEF StartCall, RejectCall, ClaimDirectory, BeginRun, ResumeRun,
           BeginSteps, StartStep, RecordStep, FinishComposition, FinishPipeline,
           SaveResult, CloseRun, Raise, RecordFailure, EndRaising, Announce, Crash
      <4> QED BY <1>1, <4>1
    <3>2. CASE \/ \E e \in Engines : RunEngine(e)
               \/ \E i \in Tracker!Numbers :
                    \/ EngineRaises(i)
                    \/ \E raw \in RawResults : EngineReturns(i, raw) \/ EngineExhausted(i, raw)
               \/ ExecuteReturns \/ ResolveResult
               \/ \E votes \in [DOMAIN runs -> VoteScores] : SelectRun(votes)
      <4>1. UNCHANGED answer
        BY <3>2 DEF RunEngine, EngineRaises, EngineReturns, EngineExhausted,
           InExecute,
           ExecuteReturns, ResolveResult, SelectRun
      <4> QED BY <1>1, <4>1
    <3> QED BY <1>1, <3>1, <3>2 DEF Next
  <2>2. CASE ResetDirectory
    BY <2>2 DEF ResetDirectory
  <2>3. CASE ReturnSaved \/ Report
    <3>1. answer' = savedResult
      BY <1>1, <2>3 DEF ReturnSaved, Report, Inv, StoreInv, MemoryInvariant
    <3> QED BY <1>1, <3>1 DEF Inv, StoreInv, AnswerInvariant
  <2> QED BY <2>1, <2>2, <2>3
<1>2. ASSUME Inv, [Next]_vars
      PROVE  [Durable /\ answer # None /\ answer' # answer
                => answer' = None \/ (spoiled /\ ~composition.pipeline)]_vars
  BY <1>1, <1>2
<1> QED BY <1>2, InvariantCorrect, PTL DEF Spec, AnswerIsKept

----------------------------------------------------------------------------
(* The budget of a composition.                                            *)

\* Each step has the budget of its own runs, and a vote evaluates all of them.
Counted(ss) ==
  \A k \in DOMAIN ss :
    ss[k].budget =
      CompositionBudget(ss[k].runs,
                        IF composition.steps[k].kind = "vote" THEN Len(ss[k].runs) ELSE 0)

\* With what is rescored and the budgets of the recorded steps it is inductive.
BudgetInvariant ==
  /\ Counted(steps)
  /\ savedState # None => Counted(savedState.stages)
  /\ pc \in {"resolving", "recording"} =>
       rescored = IF Kind = "vote" THEN Len(results) ELSE 0
  /\ BudgetIsSumOfRuns

\* What is known of the costs is a sum over those that are known.
LEMMA TotalKnownIsSum ==
  ASSUME NEW f, NEW S, S = {i \in DOMAIN f : f[i] # None}
  PROVE  TotalKnown(f) = IF S = {} THEN None ELSE SumOf(f, S)
BY DEF TotalKnown, SumOf, Restrict

\* A step has finitely many runs, of which each has its calls and cost.
LEMMA StepFiniteRuns ==
  ASSUME NEW ss \in Seq(StepResults), NEW k \in DOMAIN ss
  PROVE  /\ ss[k].runs \in Seq(Runs) /\ IsFiniteSet(DOMAIN ss[k].runs)
         /\ \A i \in DOMAIN ss[k].runs :
              ss[k].runs[i].calls \in Nat /\ ss[k].runs[i].cost \in Nat \cup {None}
<1>1. ss[k] \in StepResults
  BY FiniteDomain
<1>2. ss[k].runs \in Seq(Runs)
  BY <1>1 DEF StepResults
<1>3. IsFiniteSet(DOMAIN ss[k].runs) /\ \A i \in DOMAIN ss[k].runs : ss[k].runs[i] \in Runs
  BY <1>2, FiniteDomain
<1> QED BY <1>2, <1>3 DEF Runs

\* The parts of a counted budget
LEMMA CountedFacts ==
  ASSUME NEW ss, Counted(ss), NEW k \in DOMAIN ss
  PROVE  /\ ss[k].budget.calls = Total([i \in DOMAIN ss[k].runs |-> ss[k].runs[i].calls])
         /\ ss[k].budget.cost = TotalKnown([i \in DOMAIN ss[k].runs |-> ss[k].runs[i].cost])
         /\ ss[k].budget.rescored =
              IF composition.steps[k].kind = "vote" THEN Len(ss[k].runs) ELSE 0
<1> DEFINE n == IF composition.steps[k].kind = "vote" THEN Len(ss[k].runs) ELSE 0
<1>1. ss[k].budget = CompositionBudget(ss[k].runs, n)
  BY DEF Counted
<1> HIDE DEF n
<1> QED BY <1>1 DEF CompositionBudget, n

\* The calls of a pipeline are those of all runs.
LEMMA CallsAreSum ==
  ASSUME NEW ss \in Seq(StepResults), Counted(ss)
  PROVE  PipelineBudget(ss).calls =
           Total([at \in DOMAIN AllRuns(ss) |-> AllRuns(ss)[at].calls])
<1> DEFINE S == DOMAIN ss
           R == [k \in S |-> DOMAIN ss[k].runs]
           all == AllRuns(ss)
           f == [at \in DOMAIN all |-> all[at].calls]
           t == [k \in S |-> ss[k].budget.calls]
<1>1. IsFiniteSet(S) /\ \A k \in S : IsFiniteSet(R[k])
  BY FiniteDomain, StepFiniteRuns
<1>2. DOMAIN all = Cells(S, R)
  BY DEF AllRuns, Cells, Row
<1>3. \A k \in S : \A i \in R[k] : <<k, i>> \in DOMAIN all /\ all[<<k, i>>] = ss[k].runs[i]
  BY DEF AllRuns
<1>4. \A k \in S : \A i \in R[k] : f[<<k, i>>] = ss[k].runs[i].calls /\ f[<<k, i>>] \in Nat
  <2> HIDE DEF all
  <2> QED BY <1>3, StepFiniteRuns
<1>5. \A k \in S : t[k] = Total([i \in R[k] |-> f[<<k, i>>]])
  <2> SUFFICES ASSUME NEW k \in S PROVE t[k] = Total([i \in R[k] |-> f[<<k, i>>]])
    OBVIOUS
  <2>1. t[k] = Total([i \in DOMAIN ss[k].runs |-> ss[k].runs[i].calls])
    BY CountedFacts
  <2>2. [i \in R[k] |-> f[<<k, i>>]] = [i \in DOMAIN ss[k].runs |-> ss[k].runs[i].calls]
    <3> HIDE DEF f
    <3> QED BY <1>4
  <2> HIDE DEF t, R, f
  <2> QED BY <2>1, <2>2
<1>6. /\ PipelineBudget(ss).calls = SumOf(t, S)
      /\ Total(f) = SumOf(f, Cells(S, R))
  <2>1. [k \in S |-> t[k]] = t /\ PipelineBudget(ss).calls = Total(t)
    BY DEF PipelineBudget
  <2>2. [at \in Cells(S, R) |-> f[at]] = f
    BY <1>2
  <2> HIDE DEF t, R, S, f
  <2> QED BY <2>1, <2>2 DEF SumOf
<1> HIDE DEF S, R, f, t
<1>7. SumOf(f, Cells(S, R)) = SumOf(t, S)
  BY <1>1, <1>4, <1>5, SumOfRows
<1> QED BY <1>6, <1>7 DEF f

\* Its cost is that of the runs that have reported one.
LEMMA CostIsSum ==
  ASSUME NEW ss \in Seq(StepResults), Counted(ss)
  PROVE  LET all == AllRuns(ss)
             costs == {at \in DOMAIN all : all[at].cost # None} IN
         PipelineBudget(ss).cost =
           IF costs = {} THEN None ELSE Total([at \in costs |-> all[at].cost])
<1> DEFINE S == DOMAIN ss
           all == AllRuns(ss)
           costs == {at \in DOMAIN all : all[at].cost # None}
           Q == [k \in S |-> {i \in DOMAIN ss[k].runs : ss[k].runs[i].cost # None}]
           t == [k \in S |-> ss[k].budget.cost]
           T == {k \in S : t[k] # None}
           f == [at \in costs |-> all[at].cost]
<1>1. IsFiniteSet(T) /\ \A k \in S : IsFiniteSet(Q[k])
  <2>1. IsFiniteSet(S) /\ \A k \in S : IsFiniteSet(DOMAIN ss[k].runs)
    BY FiniteDomain, StepFiniteRuns
  <2>2. T \subseteq S /\ \A k \in S : Q[k] \subseteq DOMAIN ss[k].runs
    OBVIOUS
  <2> HIDE DEF T, Q
  <2> QED BY <2>1, <2>2, FS_Subset
<1>2. \A k \in S : \A i \in Q[k] : ss[k].runs[i].cost \in Nat
  BY StepFiniteRuns
<1>3. ASSUME NEW k \in S
      PROVE  t[k] = IF Q[k] = {} THEN None ELSE Total([i \in Q[k] |-> ss[k].runs[i].cost])
  <2> DEFINE c == [i \in DOMAIN ss[k].runs |-> ss[k].runs[i].cost]
  <2>1. t[k] = TotalKnown(c)
    BY CountedFacts
  <2>2. Q[k] = {i \in DOMAIN c : c[i] # None}
    OBVIOUS
  <2>3. [i \in Q[k] |-> c[i]] = [i \in Q[k] |-> ss[k].runs[i].cost]
    BY <2>2
  <2> HIDE DEF t, Q, c
  <2> QED BY <2>1, <2>2, <2>3, TotalKnownIsSum DEF SumOf
<1>4. ASSUME NEW k \in S
      PROVE  /\ k \in T <=> Q[k] # {}
             /\ k \in T => t[k] = Total([i \in Q[k] |-> ss[k].runs[i].cost])
  <2> DEFINE c == [i \in Q[k] |-> ss[k].runs[i].cost]
  <2>1. Total(c) \in Nat
    <3>1. DOMAIN c = Q[k] /\ \A i \in Q[k] : c[i] \in Nat
      BY <1>2
    <3> HIDE DEF c
    <3> QED BY <1>1, <3>1, TotalType
  <2> HIDE DEF c, t, Q
  <2> QED BY <1>3, <2>1, NoneAssumption DEF c
<1>5. \A k \in S : \A i \in DOMAIN ss[k].runs : <<k, i>> \in DOMAIN all /\ all[<<k, i>>] = ss[k].runs[i]
  BY DEF AllRuns
<1>6. \A at \in DOMAIN all : \E k \in S : \E i \in DOMAIN ss[k].runs : at = <<k, i>>
  BY DEF AllRuns
<1>7. costs = Cells(T, Q)
  <2>1. \A k \in T : k \in S
    OBVIOUS
  <2>2. \A k \in S : \A i : i \in Q[k] <=> i \in DOMAIN ss[k].runs /\ ss[k].runs[i].cost # None
    OBVIOUS
  <2>3. ASSUME NEW at \in costs PROVE at \in Cells(T, Q)
    <3>1. PICK k \in S : \E i \in DOMAIN ss[k].runs : at = <<k, i>>
      BY <1>6
    <3>2. PICK i \in DOMAIN ss[k].runs : at = <<k, i>>
      BY <3>1
    <3>3. i \in Q[k]
      <4>1. all[at].cost # None
        OBVIOUS
      <4> HIDE DEF all
      <4> QED BY <1>5, <2>2, <3>2, <4>1
    <3>4. k \in T
      BY <1>4, <3>3
    <3> HIDE DEF costs, T, Q
    <3> QED BY <3>2, <3>3, <3>4 DEF Cells, Row
  <2>4. ASSUME NEW at \in Cells(T, Q) PROVE at \in costs
    <3>1. PICK k \in T : at \in Row(k, Q[k])
      BY DEF Cells
    <3>2. PICK i \in Q[k] : at = <<k, i>>
      BY <3>1 DEF Row
    <3>3. at \in DOMAIN all /\ all[at].cost # None
      <4> HIDE DEF all, Q, T
      <4> QED BY <1>5, <2>1, <2>2, <3>2
    <3> QED BY <3>3
  <2> QED BY <2>3, <2>4
<1>8. \A k \in T : \A i \in Q[k] : f[<<k, i>>] = ss[k].runs[i].cost /\ f[<<k, i>>] \in Nat
  <2> SUFFICES ASSUME NEW k \in T, NEW i \in Q[k]
               PROVE  f[<<k, i>>] = ss[k].runs[i].cost /\ f[<<k, i>>] \in Nat
    OBVIOUS
  <2>1. k \in S /\ i \in DOMAIN ss[k].runs
    OBVIOUS
  <2>2. <<k, i>> \in costs
    BY <1>7 DEF Cells, Row
  <2>3. f[<<k, i>>] = all[<<k, i>>].cost
    BY <2>2
  <2> HIDE DEF f, all, costs
  <2> QED BY <1>2, <1>5, <2>1, <2>3
<1>9. \A k \in T : t[k] = Total([i \in Q[k] |-> f[<<k, i>>]])
  <2> SUFFICES ASSUME NEW k \in T PROVE t[k] = Total([i \in Q[k] |-> f[<<k, i>>]])
    OBVIOUS
  <2>1. [i \in Q[k] |-> f[<<k, i>>]] = [i \in Q[k] |-> ss[k].runs[i].cost]
    <3> HIDE DEF f, T, Q
    <3> QED BY <1>8
  <2>2. k \in S
    OBVIOUS
  <2> HIDE DEF t, Q, f, T
  <2> QED BY <1>4, <2>1, <2>2
<1>10. PipelineBudget(ss).cost = IF T = {} THEN None ELSE SumOf(t, T)
  <2>1. PipelineBudget(ss).cost = TotalKnown(t)
    BY DEF PipelineBudget
  <2>2. T = {k \in DOMAIN t : t[k] # None}
    OBVIOUS
  <2> HIDE DEF t, T
  <2> QED BY <2>1, <2>2, TotalKnownIsSum
<1>11. Total(f) = SumOf(f, Cells(T, Q))
  <2>1. [at \in Cells(T, Q) |-> f[at]] = f
    BY <1>7
  <2> HIDE DEF f, T, Q
  <2> QED BY <2>1 DEF SumOf
<1>12. SumOf(f, Cells(T, Q)) = SumOf(t, T)
  <2>1. \A k \in T : IsFiniteSet(Q[k])
    BY <1>1
  <2>2. \A k \in T : \A i \in Q[k] : f[<<k, i>>] \in Nat
    BY <1>8
  <2> HIDE DEF f, T, Q, t, S
  <2> QED BY <1>1, <1>9, <2>1, <2>2, SumOfRows
<1>13. costs = {} <=> T = {}
  <2>1. \A k \in T : \E i \in Q[k] : TRUE
    BY <1>4
  <2> HIDE DEF T, Q, costs
  <2>2. \A k \in T : \E i \in Q[k] : <<k, i>> \in costs
    BY <1>7, <2>1 DEF Cells, Row
  <2>3. T = {} => costs = {}
    BY <1>7 DEF Cells
  <2> QED BY <2>2, <2>3
<1>14. PipelineBudget(ss).cost = IF costs = {} THEN None ELSE Total(f)
  <2> HIDE DEF T, Q, costs, f, t
  <2> QED BY <1>10, <1>11, <1>12, <1>13
<1> QED BY <1>14

\* What its votes evaluate are their runs.
LEMMA VotesAreCounted ==
  ASSUME NEW ss \in Seq(StepResults), Counted(ss)
  PROVE  PipelineBudget(ss).rescored =
           Cardinality({at \in DOMAIN AllRuns(ss) : composition.steps[at[1]].kind = "vote"})
<1> DEFINE S == DOMAIN ss
           all == AllRuns(ss)
           votes == {at \in DOMAIN all : composition.steps[at[1]].kind = "vote"}
           V == [k \in S |-> IF composition.steps[k].kind = "vote"
                             THEN DOMAIN ss[k].runs ELSE {}]
           t == [k \in S |-> ss[k].budget.rescored]
           f == [at \in votes |-> 1]
<1>1. IsFiniteSet(S) /\ \A k \in S : IsFiniteSet(V[k])
  BY FiniteDomain, StepFiniteRuns, FS_EmptySet
<1>2. votes = Cells(S, V)
  BY DEF AllRuns, Cells, Row
<1>3. \A k \in S : \A i \in V[k] : f[<<k, i>>] = 1
  <2>1. \A k \in S : \A i \in V[k] : <<k, i>> \in votes
    <3> HIDE DEF votes, V, S
    <3> QED BY <1>2 DEF Cells, Row
  <2> QED BY <2>1
<1>4. \A k \in S : t[k] = Total([i \in V[k] |-> f[<<k, i>>]])
  <2> SUFFICES ASSUME NEW k \in S PROVE t[k] = Total([i \in V[k] |-> f[<<k, i>>]])
    OBVIOUS
  <2> DEFINE c == [i \in V[k] |-> f[<<k, i>>]]
  <2>1. \A i \in V[k] : c[i] = 1
    <3> HIDE DEF V, f
    <3> QED BY <1>3
  <2>2. [i \in V[k] |-> c[i]] = c
    OBVIOUS
  <2>3. Total(c) = Cardinality(V[k])
    <3> HIDE DEF c, V, f
    <3>1. SumOf(c, V[k]) = Cardinality(V[k])
      BY <1>1, <2>1, SumOfOnes
    <3> QED BY <2>2, <3>1 DEF SumOf
  <2>4. t[k] = IF composition.steps[k].kind = "vote" THEN Len(ss[k].runs) ELSE 0
    BY CountedFacts
  <2>5. Cardinality(DOMAIN ss[k].runs) = Len(ss[k].runs)
    <3>1. PICK n \in Nat : n = Len(ss[k].runs) /\ DOMAIN ss[k].runs = 1..n
      <4>1. ss[k].runs \in Seq(Runs)
        BY StepFiniteRuns
      <4> QED BY <4>1
    <3>2. Cardinality(1..n) = n
      BY FS_Interval
    <3> QED BY <3>1, <3>2
  <2>6. t[k] = Cardinality(V[k])
    <3>1. V[k] = IF composition.steps[k].kind = "vote" THEN DOMAIN ss[k].runs ELSE {}
      OBVIOUS
    <3> HIDE DEF t, V
    <3> QED BY <2>4, <2>5, <3>1, FS_EmptySet
  <2> HIDE DEF c, t, V
  <2> QED BY <2>3, <2>6 DEF c
<1>5. PipelineBudget(ss).rescored = SumOf(t, S)
  <2>1. [k \in S |-> t[k]] = t /\ PipelineBudget(ss).rescored = Total(t)
    BY DEF PipelineBudget
  <2> HIDE DEF t, S
  <2> QED BY <2>1 DEF SumOf
<1>6. \A x \in votes : f[x] = 1
  OBVIOUS
<1> HIDE DEF S, V, f, t, all, votes
<1>7. SumOf(f, Cells(S, V)) = SumOf(t, S)
  <2>1. ASSUME NEW k \in S, NEW i \in V[k] PROVE f[<<k, i>>] \in Nat
    <3>1. f[<<k, i>>] = 1
      BY <1>3
    <3> QED BY <3>1
  <2> QED BY <1>1, <1>4, <2>1, SumOfRows
<1>8. SumOf(f, votes) = Cardinality(votes)
  <2>1. IsFiniteSet(votes)
    BY <1>1, <1>2, CellsFinite
  <2> QED BY <1>6, <2>1, SumOfOnes
<1> QED BY <1>2, <1>5, <1>7, <1>8 DEF votes, all

\* A pipeline of one step has the budget of that step.
LEMMA OneStepBudget ==
  ASSUME NEW s \in StepResults
  PROVE  /\ PipelineBudget(<<s>>).calls = s.budget.calls
         /\ PipelineBudget(<<s>>).cost = s.budget.cost
         /\ PipelineBudget(<<s>>).rescored = s.budget.rescored
<1>0. s.budget \in Budgets
  BY DEF StepResults
<1>1. s.budget.calls \in Nat /\ s.budget.cost \in Nat \cup {None} /\ s.budget.rescored \in Nat
  BY <1>0 DEF Budgets
<1>2. ASSUME NEW f, NEW n \in Nat, DOMAIN f = {1}, f[1] = n
      PROVE  SumOf(f, {1}) = n
  <2>1. IsFiniteSet({1})
    <3>1. {1} = {} \cup {1}
      OBVIOUS
    <3> QED BY <3>1, FS_EmptySet, FS_AddElement
  <2>2. SumOf(f, {1}) = f[1] + SumOf(f, {1} \ {1})
    <3>1. \A x \in {1} : f[x] \in Nat
      BY <1>2
    <3> QED BY <2>1, <3>1, SumOfRemoved
  <2>3. {1} \ {1} = {}
    OBVIOUS
  <2> QED BY <1>2, <2>2, <2>3, SumOfNone
<1> DEFINE a == [k \in {1} |-> s.budget.calls]
           b == [k \in {1} |-> s.budget.cost]
           c == [k \in {1} |-> s.budget.rescored]
<1>3. /\ PipelineBudget(<<s>>).calls = Total(a) /\ PipelineBudget(<<s>>).rescored = Total(c)
      /\ PipelineBudget(<<s>>).cost = TotalKnown(b)
  <2>1. DOMAIN <<s>> = {1} /\ <<s>>[1] = s
    OBVIOUS
  <2>2. /\ [k \in DOMAIN <<s>> |-> <<s>>[k].budget.calls] = a
        /\ [k \in DOMAIN <<s>> |-> <<s>>[k].budget.cost] = b
        /\ [k \in DOMAIN <<s>> |-> <<s>>[k].budget.rescored] = c
    BY <2>1
  <2> HIDE DEF a, b, c
  <2> QED BY <2>2 DEF PipelineBudget
<1>4. /\ DOMAIN a = {1} /\ a[1] = s.budget.calls /\ a = [x \in {1} |-> a[x]]
      /\ DOMAIN b = {1} /\ b[1] = s.budget.cost /\ b = [x \in {1} |-> b[x]]
      /\ DOMAIN c = {1} /\ c[1] = s.budget.rescored /\ c = [x \in {1} |-> c[x]]
  OBVIOUS
<1> HIDE DEF a, b, c
<1>5. Total(a) = s.budget.calls /\ Total(c) = s.budget.rescored
  <2>1. SumOf(a, {1}) = s.budget.calls /\ SumOf(c, {1}) = s.budget.rescored
    BY <1>1, <1>2, <1>4
  <2>2. SumOf(a, {1}) = Total(a) /\ SumOf(c, {1}) = Total(c)
    BY <1>4 DEF SumOf
  <2> QED BY <2>1, <2>2
<1>6. TotalKnown(b) = s.budget.cost
  <2>1. CASE s.budget.cost = None
    <3>1. {} = {i \in DOMAIN b : b[i] # None}
      BY <1>4, <2>1
    <3> QED BY <2>1, <3>1, TotalKnownIsSum
  <2>2. CASE s.budget.cost # None
    <3>1. {1} = {i \in DOMAIN b : b[i] # None}
      BY <1>4, <2>2
    <3>2. TotalKnown(b) = SumOf(b, {1})
      BY <3>1, TotalKnownIsSum
    <3>3. s.budget.cost \in Nat
      BY <1>1, <2>2
    <3> QED BY <1>2, <1>4, <3>2, <3>3
  <2> QED BY <2>1, <2>2
<1> QED BY <1>3, <1>5, <1>6

----------------------------------------------------------------------------
(* The budgets are those of the runs, in every state.                      *)

\* What a step is about to record is counted like the steps before it.
LEMMA StepIsCounted ==
  ASSUME Inv, BudgetInvariant, pc = "recording"
  PROVE  /\ StepResult \in StepResults
         /\ StepResult.budget =
              CompositionBudget(StepResult.runs,
                IF composition.steps[step].kind = "vote" THEN Len(StepResult.runs) ELSE 0)
<1>1. StepResult \in StepResults
  BY RecordedType DEF Inv, CallInv, TrackerInvariant
<1>2. rescored = IF Kind = "vote" THEN Len(runs) ELSE 0
  BY DEF BudgetInvariant, Inv, TrackerInvariant, SelectedInvariant
<1>3. StepResult.runs = runs /\ StepResult.budget = CompositionBudget(runs, rescored)
  BY DEF StepResult
<1> QED BY <1>1, <1>2, <1>3 DEF Kind

\* Counted steps have a budget that is the sum of their runs.
LEMMA CountedIsSum ==
  ASSUME NEW ss \in Seq(StepResults), Counted(ss), NEW budget,
         budget.calls = PipelineBudget(ss).calls, budget.cost = PipelineBudget(ss).cost,
         budget.rescored = PipelineBudget(ss).rescored
  PROVE  LET all == AllRuns(ss)
             costs == {at \in DOMAIN all : all[at].cost # None}
             votes == {at \in DOMAIN all : composition.steps[at[1]].kind = "vote"} IN
         /\ budget.calls = Total([at \in DOMAIN all |-> all[at].calls])
         /\ budget.cost = IF costs = {} THEN None ELSE Total([at \in costs |-> all[at].cost])
         /\ budget.rescored = Cardinality(votes)
BY CallsAreSum, CostIsSum, VotesAreCounted

\* Every step keeps the budgets those of the runs.
LEMMA BudgetStep ==
  ASSUME Inv, BudgetInvariant, Next PROVE BudgetInvariant'
<1> USE DEF AtHome, progress, resolution, tracker, frame, ending, storeVars, history
<1>1. UNCHANGED composition
  BY DEF Next, StartCall, RejectCall, ClaimDirectory, ResetDirectory, BeginRun,
     ResumeRun,
     ReturnSaved, BeginSteps, StartStep, RunEngine, EngineRaises, EngineReturns,
     EngineExhausted, InExecute, ExecuteReturns, ResolveResult, SelectRun,
         RecordStep,
     FinishComposition, FinishPipeline, SaveResult, CloseRun, Raise, RecordFailure,
     EndRaising, Announce, Report, Crash
<1>2. \A ss : Counted(ss) => Counted(ss)'
  BY <1>1 DEF Counted
<1> SUFFICES BudgetInvariant'
  OBVIOUS
<1>3. CASE \/ \E c \in Configs : StartCall(c)
           \/ RejectCall \/ ClaimDirectory \/ ResumeRun \/ ReturnSaved \/ StartStep
           \/ \E e \in Engines : RunEngine(e)
           \/ \E i \in Tracker!Numbers :
                \/ EngineRaises(i)
                \/ \E raw \in RawResults : EngineReturns(i, raw) \/ EngineExhausted(i, raw)
           \/ SaveResult \/ EndRaising \/ Announce \/ Report
  <2>1. /\ UNCHANGED <<composition, steps, savedState, result>>
        /\ pc' \notin {"resolving", "recording"}
    <3>1. CASE \/ \E e \in Engines : RunEngine(e)
               \/ \E i \in Tracker!Numbers :
                    \/ EngineRaises(i)
                    \/ \E raw \in RawResults : EngineReturns(i, raw) \/ EngineExhausted(i, raw)
      BY <3>1 DEF RunEngine, EngineRaises, EngineReturns, EngineExhausted, InExecute
    <3>2. CASE \/ \E c \in Configs : StartCall(c)
               \/ RejectCall \/ ClaimDirectory \/ ResumeRun \/ ReturnSaved \/ StartStep
               \/ SaveResult \/ EndRaising \/ Announce \/ Report
      BY <3>2 DEF StartCall, RejectCall, ClaimDirectory, Store!Claim, ResumeRun,
         ReturnSaved,
         StartStep, SaveResult, Store!SaveResult, EndRaising, Announce, Report
    <3> QED BY <1>3, <3>1, <3>2
  <2> QED BY <2>1 DEF BudgetInvariant, Counted, BudgetIsSumOfRuns
<1>4. CASE ResetDirectory \/ BeginRun
  <2>1. /\ UNCHANGED <<composition, steps, result>>
        /\ pc' \notin {"resolving", "recording"}
        /\ savedState' = None \/ savedState'.stages = <<>>
    BY <1>4 DEF ResetDirectory, Store!Release, BeginRun, Store!Begin, NewState
  <2>2. Counted(<<>>)'
    BY EmptySeq DEF Counted
  <2> QED BY <1>2, <2>1, <2>2 DEF BudgetInvariant, Counted, BudgetIsSumOfRuns
<1>5. CASE CloseRun \/ RecordFailure
  <2>1. /\ UNCHANGED <<composition, steps, result>>
        /\ pc' \notin {"resolving", "recording"}
        /\ savedState' = savedState \/ (savedState \in RunState /\ savedState # None
                                         /\ savedState'.stages = savedState.stages)
    BY <1>5 DEF CloseRun, Closed, RecordFailure, Store!SaveState, Inv, CallInv,
       CallType, RunState
  <2> QED BY <2>1 DEF BudgetInvariant, Counted, BudgetIsSumOfRuns
<1>6. CASE BeginSteps
  <2>1. /\ UNCHANGED <<composition, savedState, result>> /\ pc' = "stepping"
        /\ pc = "prepared" \/ ~Durable
        /\ steps' = IF Durable /\ composition.pipeline THEN held.stages ELSE <<>>
    BY <1>6 DEF BeginSteps
  <2>2. Durable => savedState # None /\ held = savedState
    BY <2>1 DEF Inv, StoreInv, MemoryInvariant
  <2>3. Counted(steps')
    BY <2>1, <2>2, EmptySeq DEF BudgetInvariant, Counted
  <2> QED BY <1>2, <2>1, <2>3 DEF BudgetInvariant, Counted, BudgetIsSumOfRuns
<1>7. CASE ExecuteReturns
  <2>1. /\ UNCHANGED <<composition, steps, savedState, result, step>>
        /\ results' = Listed /\ rescored' = IF Kind = "vote" THEN Len(Listed) ELSE 0
    BY <1>7 DEF ExecuteReturns
  <2> QED BY <2>1 DEF BudgetInvariant, Counted, BudgetIsSumOfRuns, Kind
<1>8. CASE ResolveResult \/ \E votes \in [DOMAIN runs -> VoteScores] : SelectRun(votes)
  <2>1. /\ UNCHANGED <<composition, steps, savedState, result, step, results, rescored>>
        /\ pc = "resolving"
    BY <1>8 DEF ResolveResult, Tracker!Resolve, SelectRun
  <2> QED BY <2>1 DEF BudgetInvariant, Counted, BudgetIsSumOfRuns, Kind
<1>9. CASE RecordStep
  <2> DEFINE x == StepResult
  <2>1. /\ x \in StepResults
        /\ x.budget = CompositionBudget(x.runs,
             IF composition.steps[step].kind = "vote" THEN Len(x.runs) ELSE 0)
    BY <1>9, StepIsCounted DEF RecordStep
  <2>2. steps \in Seq(StepResults) /\ step = Len(steps) + 1
    BY <1>9 DEF RecordStep, Inv, CallInv, CallType, TrackerInvariant,
       StepInvariant, InStep
  <2>3. /\ steps' = Append(steps, x) /\ UNCHANGED <<composition, result>> /\ pc' = "stepping"
        /\ savedState' = savedState \/ savedState'.stages = steps'
    BY <1>9 DEF RecordStep, Store!SaveState, Checkpoint
  <2> HIDE DEF x
  <2>4. /\ DOMAIN Append(steps, x) = DOMAIN steps \cup {step}
        /\ Append(steps, x)[step] = x
        /\ \A k \in DOMAIN steps : Append(steps, x)[k] = steps[k]
    BY <2>1, <2>2, AppendFacts
  <2>5. Counted(Append(steps, x))
    BY <2>1, <2>4 DEF BudgetInvariant, Counted
  <2>6. Counted(steps') /\ (savedState' # None => Counted(savedState'.stages))
    BY <2>3, <2>5 DEF BudgetInvariant
  <2> QED BY <2>3, <2>6 DEF BudgetInvariant, Counted, BudgetIsSumOfRuns
<1>10. CASE FinishComposition
  <2> DEFINE x == StepResult
  <2>1. /\ x \in StepResults
        /\ x.budget = CompositionBudget(x.runs,
             IF composition.steps[step].kind = "vote" THEN Len(x.runs) ELSE 0)
    BY <1>10, StepIsCounted DEF FinishComposition
  <2>2. step = 1
    <3>1. step = Len(steps) + 1 /\ step <= Len(composition.steps) /\ steps \in Seq(StepResults)
      BY <1>10 DEF FinishComposition, Inv, CallInv, CallType, TrackerInvariant,
         StepInvariant, InStep
    <3>2. Len(composition.steps) = 1
      BY <1>10, CompositionAssumption DEF FinishComposition, Inv, CallInv, CallType
    <3>3. Len(steps) \in Nat
      BY <3>1
    <3> QED BY <3>1, <3>2, <3>3
  <2>3. /\ UNCHANGED <<composition, steps, savedState>>
        /\ pc' \notin {"resolving", "recording"}
        /\ result'.steps = <<x>>
        /\ result'.budget = [x.budget EXCEPT !.heldout = Heldout(result'.final)]
    BY <1>10 DEF FinishComposition, Finish, Finished
  <2>4. x.budget \in Budgets
    BY <2>1 DEF StepResults
  <2> HIDE DEF x
  <2>5. /\ result'.budget.calls = x.budget.calls /\ result'.budget.cost = x.budget.cost
        /\ result'.budget.rescored = x.budget.rescored
    BY <2>3, <2>4 DEF Budgets
  <2>6. <<x>> \in Seq(StepResults) /\ DOMAIN <<x>> = {1} /\ <<x>>[1] = x
    BY <2>1
  <2>7. Counted(<<x>>)
    BY <2>1, <2>2, <2>6 DEF Counted
  <2>8. /\ result'.budget.calls = PipelineBudget(<<x>>).calls
        /\ result'.budget.cost = PipelineBudget(<<x>>).cost
        /\ result'.budget.rescored = PipelineBudget(<<x>>).rescored
    BY <2>1, <2>5, OneStepBudget
  <2>9. BudgetIsSumOfRuns'
    <3> DEFINE ss == <<x>>
               b == result'.budget
    <3>1. ss \in Seq(StepResults) /\ Counted(ss)
          /\ b.calls = PipelineBudget(ss).calls /\ b.cost = PipelineBudget(ss).cost
          /\ b.rescored = PipelineBudget(ss).rescored
      BY <2>6, <2>7, <2>8
    <3>2. result'.steps = ss
      BY <2>3
    <3> HIDE DEF ss, b
    <3>3. LET all == AllRuns(ss)
              costs == {at \in DOMAIN all : all[at].cost # None}
              votes == {at \in DOMAIN all : composition.steps[at[1]].kind = "vote"} IN
          /\ b.calls = Total([at \in DOMAIN all |-> all[at].calls])
          /\ b.cost = IF costs = {} THEN None ELSE Total([at \in costs |-> all[at].cost])
          /\ b.rescored = Cardinality(votes)
      BY <3>1, CountedIsSum
    <3> QED BY <2>3, <3>2, <3>3 DEF BudgetIsSumOfRuns, b
  <2> QED BY <1>2, <2>3, <2>9 DEF BudgetInvariant, Counted
<1>11. CASE FinishPipeline
  <2>1. /\ UNCHANGED <<composition, steps, savedState>>
        /\ pc' \notin {"resolving", "recording"}
        /\ result'.steps = steps
        /\ result'.budget = [PipelineBudget(steps) EXCEPT !.heldout = Heldout(result'.final)]
    BY <1>11 DEF FinishPipeline, Finish, Finished
  <2>2. steps \in Seq(StepResults) /\ PipelineBudget(steps) \in Budgets
    BY PipelineBudgetType DEF Inv, CallInv, CallType
  <2>3. /\ result'.budget.calls = PipelineBudget(steps).calls
        /\ result'.budget.cost = PipelineBudget(steps).cost
        /\ result'.budget.rescored = PipelineBudget(steps).rescored
    BY <2>1, <2>2 DEF Budgets
  <2>4. BudgetIsSumOfRuns'
    <3> DEFINE ss == steps
               b == result'.budget
    <3>1. ss \in Seq(StepResults) /\ Counted(ss)
          /\ b.calls = PipelineBudget(ss).calls /\ b.cost = PipelineBudget(ss).cost
          /\ b.rescored = PipelineBudget(ss).rescored
      BY <2>2, <2>3 DEF BudgetInvariant
    <3>2. result'.steps = ss
      BY <2>1
    <3> HIDE DEF ss, b
    <3>3. LET all == AllRuns(ss)
              costs == {at \in DOMAIN all : all[at].cost # None}
              votes == {at \in DOMAIN all : composition.steps[at[1]].kind = "vote"} IN
          /\ b.calls = Total([at \in DOMAIN all |-> all[at].calls])
          /\ b.cost = IF costs = {} THEN None ELSE Total([at \in costs |-> all[at].cost])
          /\ b.rescored = Cardinality(votes)
      BY <3>1, CountedIsSum
    <3> QED BY <2>1, <3>2, <3>3 DEF BudgetIsSumOfRuns, b
  <2> QED BY <2>1, <2>4 DEF BudgetInvariant, Counted
<1>12. CASE Raise \/ Crash
  <2>1. /\ UNCHANGED <<composition, savedState>> /\ steps' = <<>> /\ result' = None
        /\ pc' \notin {"resolving", "recording"}
    BY <1>12 DEF Raise, Crash, Unwound
  <2> QED BY <2>1, EmptySeq DEF BudgetInvariant, Counted, BudgetIsSumOfRuns
<1> QED BY <1>3, <1>4, <1>5, <1>6, <1>7, <1>8, <1>9, <1>10, <1>11, <1>12 DEF Next

\* The budget of a composition counts every run of every step once, and nothing
\* else, whatever call made it.
THEOREM BudgetCorrect == Spec => []BudgetIsSumOfRuns
<1>1. Init => BudgetInvariant
  BY EmptySeq DEF Init, Store!StoreInit, BudgetInvariant, Counted, BudgetIsSumOfRuns
<1>2. Inv /\ BudgetInvariant /\ [Next]_vars => BudgetInvariant'
  <2>1. ASSUME BudgetInvariant, UNCHANGED vars PROVE BudgetInvariant'
    BY <2>1 DEF BudgetInvariant, Counted, BudgetIsSumOfRuns, Kind, vars, frame,
       progress,
       resolution, tracker, storeVars
  <2> QED BY <2>1, BudgetStep
<1>3. BudgetInvariant => BudgetIsSumOfRuns
  BY DEF BudgetInvariant
<1> QED BY <1>1, <1>2, <1>3, InvariantCorrect, PTL DEF Spec

================================================================================
