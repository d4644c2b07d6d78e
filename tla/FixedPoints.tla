----------------------------- MODULE FixedPoints -----------------------------
(* What the proofs need of the natural numbers, of ranks, and of iterations   *)
(* that the specifications write as recursive functions: the sets that are    *)
(* reached after as many steps as there are elements are least fixed points.  *)
(* Steps are functions here, so that the lemmas apply to each of them.        *)
EXTENDS Integers, FiniteSets, FiniteSetTheorems, FunctionTheorems, WellFoundedInduction, TLAPS

\* Every nonempty set of numbers has a least one.
LEMMA LeastNumber == ASSUME NEW T, T \subseteq Nat, T # {}
                     PROVE  \E n \in T : \A m \in T : n <= m
<1> DEFINE R == {p \in Nat \X Nat : p[1] < p[2]}
<1>1. IsWellFoundedOn(R, Nat)
  <2>1. R = OpToRel(<, Nat)
    BY Zenon DEF OpToRel
  <2>2. QED
    BY <2>1, NatLessThanWellFounded, Zenon
<1>2. PICK n \in T : \A m \in T : <<m, n>> \notin R
  <2> HIDE DEF R
  <2>1. QED
    BY <1>1, WFMin, Zenon
<1>3. ASSUME NEW m \in T PROVE n <= m
  <2>1. ~(m < n)
    BY <1>2
  <2>2. QED
    BY <2>1
<1>4. QED
  BY <1>3

\* Induction over the numbers of a set.
LEMMA AllNumbers == ASSUME NEW T, T \subseteq Nat, 0 \in T, \A n \in T : n + 1 \in T
                    PROVE  T = Nat
<1> SUFFICES ASSUME Nat \ T # {} PROVE FALSE
  OBVIOUS
<1>1. PICK n \in Nat \ T : \A m \in Nat \ T : n <= m
  BY LeastNumber
<1>2. n # 0 /\ n - 1 \in Nat /\ n - 1 < n /\ n = n - 1 + 1
  BY <1>1
<1>3. n - 1 \in T
  BY <1>1, <1>2
<1>4. QED
  BY <1>1, <1>2, <1>3

\* A first element and a step give a sequence of iterates,
IsIterated(f, D, a, step, n) ==
    /\ f \in [0 .. n -> D] /\ f[0] = a
    /\ \A m \in 0 .. n - 1 : f[m + 1] = step[f[m]]

LEMMA SameIterates ==
    ASSUME NEW D, NEW a \in D, NEW step \in [D -> D], NEW n \in Nat, NEW f, NEW g,
           IsIterated(f, D, a, step, n), IsIterated(g, D, a, step, n + 1)
    PROVE  f[n] = g[n]
<1> DEFINE T == {m \in Nat : m <= n => f[m] = g[m]}
<1>1. 0 \in T
  BY DEF IsIterated
<1>2. ASSUME NEW m \in T PROVE m + 1 \in T
  <2> SUFFICES ASSUME m + 1 <= n PROVE f[m + 1] = g[m + 1]
    OBVIOUS
  <2>1. m \in 0 .. n - 1 /\ m \in 0 .. (n + 1) - 1 /\ f[m] = g[m]
    OBVIOUS
  <2>2. QED
    BY <2>1 DEF IsIterated
<1>3. T = Nat
  <2> HIDE DEF T
  <2>0. T \subseteq Nat
    BY DEF T
  <2>1. QED
    BY <1>1, <1>2, <2>0, AllNumbers
<1>4. QED
  BY <1>3

Iterated(f, D, a, step) == /\ f \in [Nat -> D]
                           /\ f[0] = a
                           /\ \A n \in Nat : f[n + 1] = step[f[n]]

LEMMA Iterates == ASSUME NEW D, NEW a \in D, NEW step \in [D -> D]
                  PROVE  \E f : Iterated(f, D, a, step)
<1> DEFINE T == {n \in Nat : \E f : IsIterated(f, D, a, step, n)}
<1>1. 0 \in T
  <2>1. IsIterated([m \in 0 .. 0 |-> a], D, a, step, 0)
    BY DEF IsIterated
  <2>2. QED
    BY <2>1
<1>2. ASSUME NEW n \in T PROVE n + 1 \in T
  <2>1. PICK f : IsIterated(f, D, a, step, n)
    OBVIOUS
  <2> DEFINE g == [m \in 0 .. n + 1 |-> IF m = n + 1 THEN step[f[n]] ELSE f[m]]
  <2>2. /\ f \in [0 .. n -> D] /\ f[0] = a
        /\ \A m \in 0 .. n - 1 : f[m + 1] = step[f[m]]
    BY <2>1 DEF IsIterated
  <2>3. f[n] \in D /\ step[f[n]] \in D
    BY <2>2
  <2>4. g \in [0 .. n + 1 -> D]
    BY <2>2, <2>3
  <2>5. ASSUME NEW m \in 0 .. n + 1 - 1 PROVE g[m + 1] = step[g[m]]
    <3>1. CASE m = n
      BY <3>1
    <3>2. CASE m # n
      <4>1. m \in 0 .. n - 1
        BY <3>2
      <4>2. g[m + 1] = f[m + 1] /\ g[m] = f[m]
        BY <4>1
      <4>3. QED
        BY <2>2, <4>1, <4>2
    <3>3. QED
      BY <3>1, <3>2
  <2>6. g[0] = a
    BY <2>2
  <2>7. IsIterated(g, D, a, step, n + 1)
    <3> HIDE DEF g
    <3>1. QED
      BY <2>4, <2>5, <2>6 DEF IsIterated
  <2>8. QED
    BY <2>7
<1>3. T = Nat
  <2> HIDE DEF T
  <2>0. T \subseteq Nat
    BY DEF T
  <2>1. QED
    BY <1>1, <1>2, <2>0, AllNumbers
<1> DEFINE F(n) == CHOOSE f : IsIterated(f, D, a, step, n)
<1>4. \A n \in Nat : IsIterated(F(n), D, a, step, n)
  BY <1>3
<1> HIDE DEF F
<1> DEFINE f == [n \in Nat |-> F(n)[n]]
<1>5. f \in [Nat -> D]
  BY <1>4 DEF IsIterated
<1>6. f[0] = a
  BY <1>4 DEF IsIterated
<1>7. ASSUME NEW n \in Nat PROVE f[n + 1] = step[f[n]]
  <2>1. F(n)[n] = F(n + 1)[n]
    BY <1>4, SameIterates
  <2>2. n \in 0 .. (n + 1) - 1
    OBVIOUS
  <2>3. F(n + 1)[n + 1] = step[F(n + 1)[n]]
    BY <1>4, <2>2 DEF IsIterated
  <2>4. QED
    BY <2>1, <2>3
<1>8. QED
  <2> HIDE DEF f
  <2>1. QED
    BY <1>5, <1>6, <1>7 DEF Iterated

-----------------------------------------------------------------------------
(* The iterates of a monotone step on the subsets of a finite set *)

Monotone(step, X) == \A S, T \in SUBSET X : S \subseteq T => step[S] \subseteq step[T]

\* They grow if the first one does,
LEMMA Grows ==
    ASSUME NEW X, NEW step \in [SUBSET X -> SUBSET X], Monotone(step, X),
           NEW f \in [Nat -> SUBSET X], \A n \in Nat : f[n + 1] = step[f[n]],
           f[0] \subseteq f[1]
    PROVE  \A n \in Nat : f[n] \subseteq f[n + 1]
<1> DEFINE T == {n \in Nat : f[n] \subseteq f[n + 1]}
<1>1. 0 \in T
  OBVIOUS
<1>2. ASSUME NEW n \in T PROVE n + 1 \in T
  <2>1. n \in Nat /\ n + 1 \in Nat /\ f[n] \in SUBSET X /\ f[n + 1] \in SUBSET X
    OBVIOUS
  <2>2. step[f[n]] \subseteq step[f[n + 1]]
    BY <2>1 DEF Monotone
  <2>3. f[n + 1] = step[f[n]] /\ f[n + 1 + 1] = step[f[n + 1]]
    BY <2>1
  <2>4. QED
    BY <2>1, <2>2, <2>3
<1>3. T \subseteq Nat
  OBVIOUS
<1> HIDE DEF T
<1>4. T = Nat
  BY <1>1, <1>2, <1>3, AllNumbers
<1>5. QED
  BY <1>4 DEF T

\* they stay within a set that the step does not leave,
LEMMA StaysWithin ==
    ASSUME NEW X, NEW step \in [SUBSET X -> SUBSET X], Monotone(step, X),
           NEW f \in [Nat -> SUBSET X], \A n \in Nat : f[n + 1] = step[f[n]],
           NEW S \in SUBSET X, f[0] \subseteq S, step[S] \subseteq S
    PROVE  \A n \in Nat : f[n] \subseteq S
<1> DEFINE T == {n \in Nat : f[n] \subseteq S}
<1>1. 0 \in T
  OBVIOUS
<1>2. ASSUME NEW n \in T PROVE n + 1 \in T
  <2>1. n \in Nat /\ f[n] \in SUBSET X /\ f[n] \subseteq S
    OBVIOUS
  <2>2. step[f[n]] \subseteq step[S]
    BY <2>1 DEF Monotone
  <2>3. QED
    BY <2>1, <2>2
<1>3. T \subseteq Nat
  OBVIOUS
<1> HIDE DEF T
<1>4. T = Nat
  BY <1>1, <1>2, <1>3, AllNumbers
<1>5. QED
  BY <1>4 DEF T

\* and as they have an element more at each step that changes them, there are
\* no more such steps than elements.
LEMMA Settles ==
    ASSUME NEW X, IsFiniteSet(X), NEW step, NEW f \in [Nat -> SUBSET X],
           \A n \in Nat : f[n + 1] = step[f[n]], \A n \in Nat : f[n] \subseteq f[n + 1]
    PROVE  step[f[Cardinality(X)]] = f[Cardinality(X)]
<1> DEFINE K == Cardinality(X)
<1>1. K \in Nat
  BY FS_CardinalityType
<1>2. \A n \in Nat : f[n] \subseteq X /\ IsFiniteSet(f[n]) /\ Cardinality(f[n]) \in Nat
                     /\ Cardinality(f[n]) <= K
  BY FS_Subset, FS_CardinalityType
<1> HIDE DEF K
<1> SUFFICES ASSUME f[K + 1] # f[K] PROVE FALSE
  BY <1>1 DEF K
\* Once nothing changes, nothing ever does.
<1>3. ASSUME NEW n \in Nat, f[n + 1] = f[n], n <= K PROVE FALSE
  <2> DEFINE T == {m \in Nat : f[n + m] = f[n]}
  <2>1. 0 \in T
    OBVIOUS
  <2>2. ASSUME NEW m \in T PROVE m + 1 \in T
    <3>1. n + m \in Nat /\ f[n + m] = f[n] /\ n + (m + 1) = (n + m) + 1
      OBVIOUS
    <3>2. f[(n + m) + 1] = step[f[n + m]] /\ f[n + 1] = step[f[n]]
      BY <3>1
    <3>3. QED
      BY <1>3, <3>1, <3>2
  <2>3. T \subseteq Nat
    OBVIOUS
  <2> HIDE DEF T
  <2>4. T = Nat
    BY <2>1, <2>2, <2>3, AllNumbers
  <2>5. K - n \in T /\ K + 1 - n \in T
    BY <1>1, <1>3, <2>4
  <2>6. n + (K - n) = K /\ n + (K + 1 - n) = K + 1
    BY <1>1
  <2>7. QED
    BY <2>5, <2>6 DEF T
<1> DEFINE U == {n \in Nat : n <= K + 1 => n <= Cardinality(f[n])}
<1>4. 0 \in U
  BY <1>2
<1>5. ASSUME NEW n \in U PROVE n + 1 \in U
  <2> SUFFICES ASSUME n + 1 <= K + 1 PROVE n + 1 <= Cardinality(f[n + 1])
    OBVIOUS
  <2>1. n \in Nat /\ n <= K /\ n <= Cardinality(f[n])
    BY <1>1
  <2>2. f[n] # f[n + 1] /\ f[n] \subseteq f[n + 1]
    BY <1>3, <2>1
  <2>3. Cardinality(f[n]) < Cardinality(f[n + 1])
    <3>1. Cardinality(f[n]) <= Cardinality(f[n + 1])
          /\ (Cardinality(f[n]) = Cardinality(f[n + 1]) => f[n] = f[n + 1])
      BY <1>2, <2>1, <2>2, FS_Subset
    <3>2. QED
      BY <1>2, <2>1, <2>2, <3>1
  <2>4. QED
    BY <1>2, <2>1, <2>3
<1>6. U \subseteq Nat
  OBVIOUS
<1> HIDE DEF U
<1>7. U = Nat
  BY <1>4, <1>5, <1>6, AllNumbers
<1>8. K + 1 <= Cardinality(f[K + 1])
  BY <1>1, <1>7 DEF U
<1>9. QED
  BY <1>1, <1>2, <1>8

IsLeastFixedPoint(Y, step, a, X) ==
    /\ Y \subseteq X
    /\ a \subseteq Y
    /\ step[Y] = Y
    /\ \A S \in SUBSET X : a \subseteq S /\ step[S] \subseteq S => Y \subseteq S

Ascends(f, a, step, X) == /\ step \in [SUBSET X -> SUBSET X]
                          /\ Monotone(step, X)
                          /\ Iterated(f, SUBSET X, a, step)
                          /\ a \subseteq step[a]

LEMMA LeastFixedPoint ==
    ASSUME NEW X, IsFiniteSet(X), NEW step, NEW a, NEW f, Ascends(f, a, step, X)
    PROVE  IsLeastFixedPoint(f[Cardinality(X)], step, a, X)
<1>0. /\ step \in [SUBSET X -> SUBSET X] /\ Monotone(step, X)
      /\ f \in [Nat -> SUBSET X] /\ f[0] = a /\ \A n \in Nat : f[n + 1] = step[f[n]]
      /\ f[0] \subseteq f[1]
  BY DEF Ascends, Iterated
<1> DEFINE Y == f[Cardinality(X)]
<1>1. Cardinality(X) \in Nat
  BY FS_CardinalityType
<1>2. \A n \in Nat : f[n] \subseteq f[n + 1]
  BY <1>0, Grows
<1>3. step[Y] = Y
  BY <1>0, <1>1, <1>2, Settles
<1>4. \A S \in SUBSET X : f[0] \subseteq S /\ step[S] \subseteq S => Y \subseteq S
  <2> SUFFICES ASSUME NEW S \in SUBSET X, f[0] \subseteq S, step[S] \subseteq S
               PROVE  Y \subseteq S
    OBVIOUS
  <2>1. \A n \in Nat : f[n] \subseteq S
    BY <1>0, StaysWithin
  <2>2. QED
    BY <1>0, <1>1, <2>1
<1>5. f[0] \subseteq Y
  <2> DEFINE T == {n \in Nat : f[0] \subseteq f[n]}
  <2>1. 0 \in T
    OBVIOUS
  <2>2. ASSUME NEW n \in T PROVE n + 1 \in T
    BY <1>2
  <2>3. T \subseteq Nat
    OBVIOUS
  <2> HIDE DEF T
  <2>4. T = Nat
    BY <2>1, <2>2, <2>3, AllNumbers
  <2>5. QED
    BY <1>1, <2>4 DEF T
<1>6. QED
  BY <1>0, <1>1, <1>3, <1>4, <1>5 DEF IsLeastFixedPoint
-----------------------------------------------------------------------------
(* Ranks: how many elements come ahead of one *)

\* A strict order of all elements, as a set of pairs.
OrdersAll(R, S) ==
    /\ \A x \in S : <<x, x>> \notin R
    /\ \A x, y, z \in S : <<x, y>> \in R /\ <<y, z>> \in R => <<x, z>> \in R
    /\ \A x, y \in S : x # y => <<x, y>> \in R \/ <<y, x>> \in R

RankIn(R, S, x) == Cardinality({y \in S : <<y, x>> \in R})

\* Ranks count the elements from zero on, in their order.
LEMMA RanksIn ==
    ASSUME NEW S, IsFiniteSet(S), NEW R, OrdersAll(R, S)
    PROVE  /\ Cardinality(S) \in Nat
           /\ \A x \in S : RankIn(R, S, x) \in 0 .. Cardinality(S) - 1
           /\ \A x, y \in S : <<x, y>> \in R => RankIn(R, S, x) < RankIn(R, S, y)
           /\ \A x, y \in S : RankIn(R, S, x) = RankIn(R, S, y) => x = y
           /\ \A k \in 0 .. Cardinality(S) - 1 : \E x \in S : RankIn(R, S, x) = k
<1> DEFINE Ahead(x) == {y \in S : <<y, x>> \in R}
<1>1. Cardinality(S) \in Nat
  BY FS_CardinalityType
<1>2. ASSUME NEW x \in S PROVE /\ IsFiniteSet(Ahead(x)) /\ Cardinality(Ahead(x)) \in Nat
                               /\ IsFiniteSet(Ahead(x) \union {x})
                               /\ Cardinality(Ahead(x) \union {x}) = Cardinality(Ahead(x)) + 1
  <2>1. Ahead(x) \in SUBSET S /\ x \notin Ahead(x)
    BY DEF OrdersAll
  <2> HIDE DEF Ahead
  <2>2. QED
    BY <2>1, FS_Subset, FS_CardinalityType, FS_AddElement
<1>3. ASSUME NEW x \in S, NEW y \in S, <<x, y>> \in R
      PROVE  Cardinality(Ahead(x)) < Cardinality(Ahead(y))
  <2>1. Ahead(x) \union {x} \in SUBSET Ahead(y)
    BY <1>3 DEF OrdersAll
  <2> HIDE DEF Ahead
  <2>2. Cardinality(Ahead(x) \union {x}) <= Cardinality(Ahead(y))
    BY <1>2, <2>1, FS_Subset
  <2>3. /\ Cardinality(Ahead(x)) \in Nat /\ Cardinality(Ahead(y)) \in Nat
        /\ Cardinality(Ahead(x) \union {x}) = Cardinality(Ahead(x)) + 1
    BY <1>2
  <2>4. QED
    BY <2>2, <2>3
<1>4. ASSUME NEW x \in S PROVE Cardinality(Ahead(x)) + 1 <= Cardinality(S)
  <2>1. Ahead(x) \union {x} \in SUBSET S
    OBVIOUS
  <2> HIDE DEF Ahead
  <2>2. QED
    BY <1>2, <2>1, FS_Subset
<1>5. \A x : RankIn(R, S, x) = Cardinality(Ahead(x))
  BY DEF RankIn
<1> HIDE DEF Ahead
<1> PICK n : n = Cardinality(S)
  OBVIOUS
<1>6. ASSUME NEW x \in S PROVE RankIn(R, S, x) \in 0 .. n - 1
  <2>1. RankIn(R, S, x) \in Nat /\ RankIn(R, S, x) + 1 <= n
    BY <1>2, <1>4, <1>5
  <2>2. QED
    BY <1>1, <2>1
<1>7. \A x, y \in S : <<x, y>> \in R => RankIn(R, S, x) < RankIn(R, S, y)
  BY <1>3, <1>5
<1>8. ASSUME NEW x \in S, NEW y \in S, RankIn(R, S, x) = RankIn(R, S, y) PROVE x = y
  <2>1. RankIn(R, S, x) \in 0 .. n - 1
    BY <1>6
  <2>2. <<x, y>> \notin R /\ <<y, x>> \notin R
    BY <1>1, <1>7, <1>8, <2>1
  <2>3. QED
    BY <2>2 DEF OrdersAll
<1> PICK rank : rank = [x \in S |-> RankIn(R, S, x)]
  OBVIOUS
<1>9. rank \in Surjection(S, 0 .. n - 1)
  <2>1. rank \in [S -> 0 .. n - 1] /\ \A x, y \in S : rank[x] = rank[y] => x = y
    BY <1>6, <1>8
  <2>2. rank \in Injection(S, 0 .. n - 1)
    BY <2>1, Fun_IsInj
  <2>3. IsFiniteSet(0 .. n - 1) /\ Cardinality(0 .. n - 1) = n
    <3>1. 0 \in Int /\ n - 1 \in Int /\ n = Cardinality(S)
      BY <1>1
    <3>2. /\ IsFiniteSet(0 .. n - 1)
          /\ Cardinality(0 .. n - 1) = IF 0 > n - 1 THEN 0 ELSE n - 1 - 0 + 1
      BY <3>1, FS_Interval
    <3>3. n \in Nat
      BY <1>1, <3>1
    <3>4. QED
      BY <3>2, <3>3
  <2>4. QED
    BY <2>2, <2>3, FS_Injection
<1>10. \A k \in 0 .. n - 1 : \E x \in S : RankIn(R, S, x) = k
  <2>1. \A k \in 0 .. n - 1 : \E x \in S : rank[x] = k
    <3> PICK ids : ids = 0 .. n - 1
      OBVIOUS
    <3>1. rank \in Surjection(S, ids)
      BY <1>9
    <3>2. \A k \in ids : \E x \in S : rank[x] = k
      BY <3>1 DEF Surjection
    <3>3. QED
      BY <3>2
  <2>2. QED
    BY <2>1
<1>11. QED
  BY <1>1, <1>6, <1>7, <1>8, <1>10

-----------------------------------------------------------------------------
(* Recursion over the numbers up to one *)

Recursion(f, D, a, step, n) ==
    /\ f \in [0 .. n -> D] /\ f[0] = a
    /\ \A m \in 1 .. n : f[m] = step[<<m, f[m - 1]>>]

LEMMA RecursionExists ==
    ASSUME NEW D, NEW a \in D, NEW n \in Nat, NEW step \in [(1 .. n) \X D -> D]
    PROVE  \E f : Recursion(f, D, a, step, n)
<1> DEFINE T == {m \in Nat : m <= n => \E f : Recursion(f, D, a, step, m)}
<1>1. 0 \in T
  <2>1. Recursion([m \in 0 .. 0 |-> a], D, a, step, 0)
    BY DEF Recursion
  <2>2. QED
    BY <2>1
<1>2. ASSUME NEW m \in T PROVE m + 1 \in T
  <2> SUFFICES ASSUME m + 1 <= n PROVE \E f : Recursion(f, D, a, step, m + 1)
    OBVIOUS
  <2>1. PICK f : Recursion(f, D, a, step, m)
    OBVIOUS
  <2>2. /\ f \in [0 .. m -> D] /\ f[0] = a
        /\ \A k \in 1 .. m : f[k] = step[<<k, f[k - 1]>>]
    BY <2>1 DEF Recursion
  <2> PICK g : g = [k \in 0 .. m + 1 |-> IF k = m + 1 THEN step[<<m + 1, f[m]>>] ELSE f[k]]
    OBVIOUS
  <2>3. m \in Nat /\ m \in 0 .. m /\ m + 1 \in 1 .. n /\ f[m] \in D /\ step[<<m + 1, f[m]>>] \in D
    BY <2>2
  <2>4. g \in [0 .. m + 1 -> D] /\ g[0] = a
    BY <2>2, <2>3
  <2>5. ASSUME NEW k \in 1 .. m + 1 PROVE g[k] = step[<<k, g[k - 1]>>]
    <3>1. CASE k = m + 1
      <4>1. k \in 0 .. m + 1 /\ k - 1 \in 0 .. m + 1 /\ k - 1 # m + 1 /\ k - 1 = m
        BY <2>3, <3>1
      <4>2. g[k] = step[<<m + 1, f[m]>>] /\ g[k - 1] = f[m]
        BY <3>1, <4>1
      <4>3. QED
        BY <3>1, <4>2
    <3>2. CASE k # m + 1
      <4>1. k \in 1 .. m /\ k \in 0 .. m + 1 /\ k - 1 \in 0 .. m + 1 /\ k - 1 # m + 1
        BY <2>3, <3>2
      <4>2. g[k] = f[k] /\ g[k - 1] = f[k - 1]
        BY <3>2, <4>1
      <4>3. QED
        BY <2>2, <4>1, <4>2
    <3>3. QED
      BY <3>1, <3>2
  <2>6. QED
    BY <2>4, <2>5 DEF Recursion
<1>3. T = Nat
  <2> HIDE DEF T
  <2>0. T \subseteq Nat
    BY DEF T
  <2>1. QED
    BY <1>1, <1>2, <2>0, AllNumbers
<1>4. QED
  BY <1>3

-----------------------------------------------------------------------------
(* Sets that grow by what they lead to: what is reached over them *)

LeastClosed(Y, a, more, X) ==
    /\ Y \subseteq X /\ a \subseteq Y /\ more[Y] \subseteq Y
    /\ \A S \in SUBSET X : a \subseteq S /\ more[S] \subseteq S => Y \subseteq S

Growing(a, more, X) == /\ IsFiniteSet(X) /\ a \in SUBSET X
                       /\ more \in [SUBSET X -> SUBSET X] /\ Monotone(more, X)

AddsTo(step, more, X) == /\ step \in [SUBSET X -> SUBSET X] /\ Monotone(step, X)
                         /\ \A S \in SUBSET X : step[S] = S \union more[S]

LEMMA GrowthStep ==
    ASSUME NEW a, NEW more, NEW X, Growing(a, more, X)
    PROVE  \E step : AddsTo(step, more, X)
  <1>1. /\ \A S \in SUBSET X : S \union more[S] \in SUBSET X
        /\ \A S, T \in SUBSET X : S \subseteq T => S \union more[S] \subseteq T \union more[T]
    BY DEF Growing, Monotone
  <1> PICK step : step = [S \in SUBSET X |-> S \union more[S]]
    OBVIOUS
  <1>2. \A S \in SUBSET X : step[S] = S \union more[S]
    OBVIOUS
  <1>3. step \in [SUBSET X -> SUBSET X]
    BY <1>1
  <1>4. Monotone(step, X)
    BY <1>1, <1>2 DEF Monotone
  <1>5. QED
    BY <1>2, <1>3, <1>4 DEF AddsTo

Growth(f, a, more, X) ==
    /\ f \in [Nat -> SUBSET X] /\ f[0] = a
    /\ \A n \in Nat : n # 0 => f[n] = f[n - 1] \union more[f[n - 1]]

LEMMA GrowthExists ==
    ASSUME NEW a, NEW more, NEW X, Growing(a, more, X)
    PROVE  \E f : Growth(f, a, more, X)
  <1>0. PICK step : AddsTo(step, more, X)
    BY GrowthStep
  <1>1. step \in [SUBSET X -> SUBSET X] /\ \A S \in SUBSET X : step[S] = S \union more[S]
    BY <1>0 DEF AddsTo
  <1>2. a \in SUBSET X
    BY DEF Growing
  <1>3. PICK f : Iterated(f, SUBSET X, a, step)
    BY <1>1, <1>2, Iterates, Zenon
  <1>4. f \in [Nat -> SUBSET X] /\ f[0] = a /\ \A n \in Nat : f[n + 1] = step[f[n]]
    BY <1>3 DEF Iterated
  <1>5. ASSUME NEW n \in Nat, n # 0 PROVE f[n] = f[n - 1] \union more[f[n - 1]]
    <2>1. n - 1 \in Nat /\ (n - 1) + 1 = n
      BY <1>5
    <2>2. f[n] = step[f[n - 1]] /\ f[n - 1] \in SUBSET X
      BY <1>4, <2>1
    <2>3. QED
      BY <1>1, <2>2
  <1>6. QED
    BY <1>4, <1>5 DEF Growth

\* Any function of this form is that one, as far as the step is defined.
GrowsSo(f, a, more, X) ==
    /\ f = [n \in Nat |-> f[n]] /\ f[0] = a
    /\ \A n \in Nat : n # 0 /\ f[n - 1] \in SUBSET X => f[n] = f[n - 1] \union more[f[n - 1]]

LEMMA GrowthIsLeast ==
    ASSUME NEW a, NEW more, NEW X, Growing(a, more, X), NEW f, GrowsSo(f, a, more, X)
    PROVE  LeastClosed(f[Cardinality(X)], a, more, X)
  <1>a. PICK step : AddsTo(step, more, X)
    BY GrowthStep
  <1>0. /\ step \in [SUBSET X -> SUBSET X] /\ Monotone(step, X)
        /\ \A S \in SUBSET X : step[S] = S \union more[S]
    BY <1>a DEF AddsTo
  <1>b. \A n \in Nat : n # 0 /\ f[n - 1] \in SUBSET X => f[n] = f[n - 1] \union more[f[n - 1]]
    BY DEF GrowsSo
  <1>1. ASSUME NEW n \in Nat, f[n] \in SUBSET X
        PROVE  f[n + 1] = step[f[n]] /\ f[n + 1] \in SUBSET X
    <2>1. n + 1 \in Nat /\ n + 1 # 0 /\ n + 1 - 1 = n
      OBVIOUS
    <2>2. f[n + 1] = f[n] \union more[f[n]]
      <3>1. f[n + 1 - 1] \in SUBSET X
        BY <1>1, <2>1
      <3>2. f[n + 1] = f[n + 1 - 1] \union more[f[n + 1 - 1]]
        BY <1>b, <2>1, <3>1
      <3>3. QED
        BY <2>1, <3>2
    <2>3. QED
      BY <1>0, <1>1, <2>2
  <1>2. \A n \in Nat : f[n] \in SUBSET X
    <2> DEFINE N == {n \in Nat : f[n] \in SUBSET X}
    <2>1. 0 \in N /\ N \subseteq Nat
      BY DEF Growing, GrowsSo
    <2>2. ASSUME NEW n \in N PROVE n + 1 \in N
      <3>1. n \in Nat /\ f[n] \in SUBSET X /\ n + 1 \in Nat
        OBVIOUS
      <3>2. f[n + 1] \in SUBSET X
        BY <1>1, <3>1
      <3>3. QED
        BY <3>1, <3>2
    <2> HIDE DEF N
    <2>3. N = Nat
      BY <2>1, <2>2, AllNumbers
    <2>4. QED
      BY <2>3 DEF N
  <1>3. f \in [Nat -> SUBSET X] /\ f[0] = a /\ \A n \in Nat : f[n + 1] = step[f[n]]
    BY <1>1, <1>2 DEF GrowsSo
  <1>4. a \subseteq step[a]
    BY <1>0 DEF Growing
  <1>5. Ascends(f, a, step, X)
    BY <1>0, <1>3, <1>4 DEF Ascends, Iterated
  <1>6. IsLeastFixedPoint(f[Cardinality(X)], step, a, X)
    BY <1>5, LeastFixedPoint DEF Growing
  <1> PICK Y : Y = f[Cardinality(X)]
    OBVIOUS
  <1>7. /\ Y \subseteq X /\ a \subseteq Y /\ step[Y] = Y
        /\ \A S \in SUBSET X : a \subseteq S /\ step[S] \subseteq S => Y \subseteq S
    BY <1>6 DEF IsLeastFixedPoint
  <1>8. more[Y] \subseteq Y
    BY <1>0, <1>7
  <1>9. ASSUME NEW S \in SUBSET X, a \subseteq S, more[S] \subseteq S PROVE Y \subseteq S
    BY <1>0, <1>7, <1>9
  <1>10. QED
    BY <1>7, <1>8, <1>9 DEF LeastClosed
=============================================================================
