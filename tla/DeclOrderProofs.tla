--------------------------- MODULE DeclOrderProofs ---------------------------
(* Proofs about DeclOrder, for any crate and any order of the source: nothing *)
(* is declared ahead of what it uses, an impl is not taken for recursive with *)
(* its methods, and the order of the source is only left where it has to be.  *)
EXTENDS DeclOrder, TranslateQueueProofs, FunctionTheorems

-----------------------------------------------------------------------------
(* Sorting a set by distinct places *)

IsSorting(s, S, place) ==
    /\ s \in Seq(S) /\ ToSet(s) = S
    /\ \A k, l \in DOMAIN s : k < l => place[s[k]] < place[s[l]]

Distinguishes(place, S) == /\ \A x \in S : place[x] \in Nat
                           /\ \A x, y \in S : place[x] = place[y] => x = y

Rank(S, place, x) == Cardinality({y \in S : place[y] < place[x]})

\* An element's rank is the number of those ahead of it: all are different.
LEMMA Ranks ==
    ASSUME NEW S, IsFiniteSet(S), NEW place, Distinguishes(place, S)
    PROVE  /\ Cardinality(S) \in Nat
           /\ \A x \in S : Rank(S, place, x) \in 0 .. Cardinality(S) - 1
           /\ \A x, y \in S : place[x] < place[y] => Rank(S, place, x) < Rank(S, place, y)
  <1> DEFINE Ahead(x) == {y \in S : place[y] < place[x]}
  <1>1. Cardinality(S) \in Nat
    BY FS_CardinalityType
  <1>2. ASSUME NEW x \in S PROVE /\ IsFiniteSet(Ahead(x)) /\ Cardinality(Ahead(x)) \in Nat
                                 /\ IsFiniteSet(Ahead(x) \union {x})
                                 /\ Cardinality(Ahead(x) \union {x}) = Cardinality(Ahead(x)) + 1
    <2>1. place[x] \in Nat /\ ~(place[x] < place[x])
      BY DEF Distinguishes
    <2>2. Ahead(x) \in SUBSET S /\ x \notin Ahead(x)
      BY <2>1
    <2> HIDE DEF Ahead
    <2>3. QED
      BY <2>2, FS_Subset, FS_CardinalityType, FS_AddElement
  <1>3. ASSUME NEW x \in S, NEW y \in S, place[x] < place[y]
        PROVE  Cardinality(Ahead(x)) < Cardinality(Ahead(y))
    <2>1. Ahead(x) \union {x} \in SUBSET Ahead(y)
      BY <1>3 DEF Distinguishes
    <2> HIDE DEF Ahead
    <2>2. Cardinality(Ahead(x) \union {x}) <= Cardinality(Ahead(y))
      BY <1>2, <2>1, FS_Subset
    <2>3. /\ Cardinality(Ahead(x)) \in Nat /\ Cardinality(Ahead(y)) \in Nat
          /\ Cardinality(Ahead(x) \union {x}) = Cardinality(Ahead(x)) + 1
      BY <1>2
    <2>4. QED
      BY <2>2, <2>3
  <1>4. ASSUME NEW x \in S PROVE Cardinality(Ahead(x)) + 1 <= Cardinality(S)
    <2>1. Ahead(x) \union {x} \in SUBSET S
      OBVIOUS
    <2> HIDE DEF Ahead
    <2>2. QED
      BY <1>2, <2>1, FS_Subset
  <1>5. \A x : Rank(S, place, x) = Cardinality(Ahead(x))
    BY DEF Rank
  <1> HIDE DEF Ahead
  <1>6. ASSUME NEW x \in S PROVE Rank(S, place, x) \in 0 .. Cardinality(S) - 1
    <2>1. Rank(S, place, x) \in Nat /\ Rank(S, place, x) + 1 <= Cardinality(S)
      BY <1>2, <1>4, <1>5
    <2>2. QED
      BY <1>1, <2>1
  <1>7. QED
    BY <1>1, <1>3, <1>5, <1>6

LEMMA SortedFacts ==
    ASSUME NEW S, IsFiniteSet(S), NEW place, Distinguishes(place, S)
    PROVE  IsSorting(Sorted(S, place), S, place)
  <1> DEFINE rank == [x \in S |-> Rank(S, place, x) + 1]
             s == Sorted(S, place)
  <1> PICK n : n = Cardinality(S)
    OBVIOUS
  <1>1. n \in Nat /\ rank \in [S -> 1 .. n]
    BY Ranks
  <1>2. \A x, y \in S : place[x] < place[y] => rank[x] < rank[y]
    BY Ranks
  <1>3. \A x \in S : rank[x] \in 1 .. n /\ Cardinality({y \in S : place[y] < place[x]}) = rank[x] - 1
    <2>1. \A x \in S : Rank(S, place, x) \in 0 .. n - 1 /\ Rank(S, place, x) = rank[x] - 1
      BY Ranks
    <2>2. QED
      BY <1>1, <2>1 DEF Rank
  <1>4. s = [k \in 1 .. n |-> CHOOSE x \in S : Cardinality({y \in S : place[y] < place[x]}) = k - 1]
    BY DEF Sorted
  <1> HIDE DEF rank, s
  <1>5. ASSUME NEW x \in S, NEW y \in S, rank[x] = rank[y] PROVE x = y
    BY <1>1, <1>2, <1>5 DEF Distinguishes
  <1>6. rank \in Surjection(S, 1 .. n)
    <2>1. rank \in Injection(S, 1 .. n)
      BY <1>1, <1>5, Fun_IsInj
    <2>2. IsFiniteSet(1 .. n) /\ Cardinality(1 .. n) = n
      BY <1>1, FS_Interval
    <2>3. QED
      BY <2>1, <2>2, FS_Injection
  <1>7. \A k \in 1 .. n : \E x \in S : rank[x] = k
    BY <1>6, Fun_SurjectionProperties
  <1>8. ASSUME NEW k \in 1 .. n PROVE s[k] \in S /\ rank[s[k]] = k
    <2>1. PICK x \in S : rank[x] = k
      BY <1>7
    <2>2. Cardinality({y \in S : place[y] < place[x]}) = k - 1
      BY <1>3, <2>1
    <2>3. s[k] \in S /\ Cardinality({y \in S : place[y] < place[s[k]]}) = k - 1
      BY <1>4, <2>2
    <2>4. rank[s[k]] - 1 = k - 1 /\ rank[s[k]] \in 1 .. n
      BY <1>3, <2>3
    <2>5. QED
      BY <2>3, <2>4
  <1>9. DOMAIN s = 1 .. n /\ s \in Seq(S)
    <2>1. s \in [1 .. n -> S]
      BY <1>4, <1>8
    <2>2. QED
      BY <1>1, <2>1
  <1>10. ToSet(s) = S
    <2>1. \A x \in S : rank[x] \in 1 .. n /\ s[rank[x]] = x
      BY <1>1, <1>5, <1>8
    <2>2. QED
      BY <1>8, <1>9, <2>1 DEF ToSet
  <1>11. ASSUME NEW k \in 1 .. n, NEW l \in 1 .. n, k < l PROVE place[s[k]] < place[s[l]]
    <2>1. s[k] \in S /\ s[l] \in S /\ rank[s[k]] < rank[s[l]]
      BY <1>8, <1>11
    <2>2. ~(place[s[l]] < place[s[k]]) /\ place[s[l]] # place[s[k]]
      BY <1>2, <1>8, <1>11, <2>1 DEF Distinguishes
    <2>3. QED
      BY <2>1, <2>2 DEF Distinguishes
  <1>12. QED
    BY <1>9, <1>10, <1>11 DEF IsSorting, s

LEMMA PlaceFacts == Distinguishes(Place, Items)
  <1>1. ASSUME NEW i \in Items
        PROVE  Place[i] \in DOMAIN SourceOrder /\ SourceOrder[Place[i]] = i
    <2>1. \E k \in DOMAIN SourceOrder : SourceOrder[k] = i
      BY SourceOrderAssumption DEF ToSet
    <2>2. QED
      BY <2>1 DEF Place
  <1>2. DOMAIN SourceOrder \subseteq Nat
    BY SourceOrderAssumption
  <1>3. QED
    BY <1>1, <1>2 DEF Distinguishes

-----------------------------------------------------------------------------
(* What an item needs, and what is reached *)

Successors(edge, S) == {e[2] : e \in {d \in edge : d[1] \in S}}

\* The items that an item uses, over others: the least set of them.
LEMMA NeedsFacts ==
    ASSUME NEW edge, edge \subseteq Items \X Items, NEW i
    PROVE  /\ Needs(edge, i) \subseteq Items
           /\ Successors(edge, {i}) \subseteq Needs(edge, i)
           /\ Successors(edge, Needs(edge, i)) \subseteq Needs(edge, i)
           /\ \A S \in SUBSET Items :
                 Successors(edge, {i}) \subseteq S /\ Successors(edge, S) \subseteq S
                   => Needs(edge, i) \subseteq S
  <1> DEFINE Used(S) == {e[2] : e \in {d \in edge : d[1] \in S}}
             Within[n \in Nat] == IF n = 0 THEN Used({i})
                                  ELSE LET before == Within[n - 1] IN before \union Used(before)
  <1>1. Needs(edge, i) = Within[Cardinality(Items)]
    BY DEF Needs
  <1>2. \A S : Used(S) = Successors(edge, S)
    BY DEF Successors
  <1>3. /\ \A S : Used(S) \in SUBSET Items
        /\ \A S, T : S \subseteq T => Used(S) \subseteq Used(T)
    OBVIOUS
  <1> PICK more : more = [S \in SUBSET Items |-> Used(S)]
    OBVIOUS
  <1> PICK a : a = Used({i})
    OBVIOUS
  <1> HIDE DEF Used, Within
  <1>4. Growing(a, more, Items)
    BY <1>3, ItemsAssumption DEF Growing, Monotone
  <1>5. Within = [n \in Nat |-> IF n = 0 THEN Used({i}) ELSE Within[n - 1] \union Used(Within[n - 1])]
    <2>0. PICK f : Growth(f, a, more, Items)
      BY <1>4, GrowthExists
    <2>1. /\ f \in [Nat -> SUBSET Items] /\ f[0] = a
          /\ \A n \in Nat : n # 0 => f[n] = f[n - 1] \union more[f[n - 1]]
      BY <2>0 DEF Growth
    <2>2. ASSUME NEW n \in Nat, n # 0 PROVE f[n] = f[n - 1] \union Used(f[n - 1])
      <3>1. n - 1 \in Nat
        BY <2>2
      <3>2. QED
        BY <2>1, <2>2, <3>1
    <2>3. f = [n \in Nat |-> IF n = 0 THEN Used({i}) ELSE f[n - 1] \union Used(f[n - 1])]
      BY <2>1, <2>2
    <2>4. QED
      BY <2>3 DEF Within
  <1>6. LeastClosed(Within[Cardinality(Items)], a, more, Items)
    <2>1. Within = [n \in Nat |-> Within[n]] /\ Within[0] = a
      BY <1>5
    <2>2. \A n \in Nat : n # 0 => Within[n] = Within[n - 1] \union Used(Within[n - 1])
      BY <1>5
    <2>3. ASSUME NEW n \in Nat, n # 0, Within[n - 1] \in SUBSET Items
          PROVE  Within[n] = Within[n - 1] \union more[Within[n - 1]]
      BY <2>2, <2>3
    <2>4. GrowsSo(Within, a, more, Items)
      BY <2>1, <2>3 DEF GrowsSo
    <2>5. QED
      BY <1>4, <2>4, GrowthIsLeast
  <1>7. \A S \in SUBSET Items : more[S] = Successors(edge, S)
    BY <1>2
  <1>8. a = Successors(edge, {i})
    BY <1>2
  <1>9. QED
    BY <1>1, <1>6, <1>7, <1>8 DEF LeastClosed

\* What is reached was translated, and leads to nothing else.
LEMMA ReachedFacts ==
    ASSUME translated \subseteq Items
    PROVE  Reached \subseteq translated /\ \A i \in Reached : Uses(i) \subseteq Reached
  <1> DEFINE start == ToSet(program.queue) \intersect translated
             More(S) == UNION {Reaches(i) : i \in S}
             Within[n \in Nat] == IF n = 0 THEN start
                                  ELSE LET before == Within[n - 1]
                                       IN  before \union UNION {Reaches(i) : i \in before}
  <1>1. Reached = Within[Cardinality(Items)]
    BY DEF Reached
  <1>2. \A i : Uses(i) \subseteq Reaches(i) /\ Reaches(i) \subseteq translated
    BY DEF Uses, Reaches
  <1>3. /\ \A S : More(S) \subseteq translated
        /\ \A S, T : S \subseteq T => More(S) \subseteq More(T)
        /\ \A S : \A i \in S : Uses(i) \subseteq More(S)
    BY <1>2
  <1>4. start \subseteq translated
    OBVIOUS
  <1> PICK more : more = [S \in SUBSET Items |-> More(S)]
    OBVIOUS
  <1> HIDE DEF start, More, Within
  <1>5. Growing(start, more, Items)
    BY <1>3, <1>4, ItemsAssumption DEF Growing, Monotone
  <1>6. Within = [n \in Nat |-> IF n = 0 THEN start ELSE Within[n - 1] \union More(Within[n - 1])]
    <2>0. PICK f : Growth(f, start, more, Items)
      BY <1>5, GrowthExists
    <2>1. /\ f \in [Nat -> SUBSET Items] /\ f[0] = start
          /\ \A n \in Nat : n # 0 => f[n] = f[n - 1] \union more[f[n - 1]]
      BY <2>0 DEF Growth
    <2>2. ASSUME NEW n \in Nat, n # 0 PROVE f[n] = f[n - 1] \union More(f[n - 1])
      <3>1. n - 1 \in Nat
        BY <2>2
      <3>2. QED
        BY <2>1, <2>2, <3>1
    <2>3. f = [n \in Nat |-> IF n = 0 THEN start ELSE f[n - 1] \union More(f[n - 1])]
      BY <2>1, <2>2
    <2>4. QED
      BY <2>3 DEF Within, More
  <1>7. LeastClosed(Within[Cardinality(Items)], start, more, Items)
    <2>1. Within = [n \in Nat |-> Within[n]] /\ Within[0] = start
      BY <1>6
    <2>2. \A n \in Nat : n # 0 => Within[n] = Within[n - 1] \union More(Within[n - 1])
      BY <1>6
    <2>3. ASSUME NEW n \in Nat, n # 0, Within[n - 1] \in SUBSET Items
          PROVE  Within[n] = Within[n - 1] \union more[Within[n - 1]]
      BY <2>2, <2>3
    <2>4. GrowsSo(Within, start, more, Items)
      BY <2>1, <2>3 DEF GrowsSo
    <2>5. QED
      BY <1>5, <2>4, GrowthIsLeast
  <1>8. /\ Reached \subseteq Items /\ more[Reached] \subseteq Reached
        /\ \A S \in SUBSET Items : start \subseteq S /\ more[S] \subseteq S => Reached \subseteq S
    BY <1>1, <1>7 DEF LeastClosed
  <1>9. \A S \in SUBSET Items : more[S] = More(S)
    OBVIOUS
  <1>10. QED
    BY <1>3, <1>4, <1>8, <1>9

-----------------------------------------------------------------------------
(* The graph of the declarations and its groups *)

\* The items that an item is in a group with.
Mutual(G, i) == {i} \union {j \in G.needs[i] : i \in G.needs[j]}

NeedsOK(G) ==
    /\ IsFiniteSet(G.node) /\ G.node \subseteq Items
    /\ G.needs \in [G.node -> SUBSET G.node]
    /\ \A i \in G.node : \A t : <<i, t>> \in G.edge => t \in G.needs[i]
    /\ \A i \in G.node : \A j \in G.needs[i] : G.needs[j] \subseteq G.needs[i]
    /\ \A i \in G.node : \A S \in SUBSET G.node :
          /\ \A t : <<i, t>> \in G.edge => t \in S
          /\ \A j \in S : \A t : <<j, t>> \in G.edge => t \in S
          => G.needs[i] \subseteq S

GraphOK(G) == /\ NeedsOK(G)
              /\ G.group = [i \in G.node |-> InSourceOrder(Mutual(G, i))]

LEMMA DeclGraphNeeds ==
    ASSUME translated \subseteq Items
    PROVE  /\ NeedsOK(DeclGraph)
           /\ DeclGraph.node \subseteq translated
           /\ \A i \in DeclGraph.node : \A t : <<i, t>> \in DeclGraph.edge <=> t \in Uses(i)
  <1> DEFINE edge == UNION {{i} \X Uses(i) : i \in Reached}
             needs == [i \in Reached |-> Needs(edge, i)]
  <1>1. DeclGraph.node = Reached /\ DeclGraph.edge = edge /\ DeclGraph.needs = needs
    BY DEF DeclGraph
  <1>2. Reached \subseteq translated /\ \A i \in Reached : Uses(i) \subseteq Reached
    BY ReachedFacts
  <1>3. IsFiniteSet(Reached) /\ Reached \subseteq Items
    BY <1>2, ItemsAssumption, FS_Subset
  <1>4. edge \subseteq Reached \X Reached
    BY <1>2
  <1>5. \A i \in Reached : \A t : <<i, t>> \in edge <=> t \in Uses(i)
    OBVIOUS
  <1> HIDE DEF edge
  <1>6. \A S : \A x : x \in Successors(edge, S) <=> \E i \in S : <<i, x>> \in edge
    <2>1. \A e \in edge : e = <<e[1], e[2]>>
      BY <1>4
    <2>2. ASSUME NEW S, NEW x, x \in Successors(edge, S) PROVE \E i \in S : <<i, x>> \in edge
      <3>1. PICK e \in edge : e[1] \in S /\ x = e[2]
        BY <2>2 DEF Successors
      <3>2. QED
        BY <2>1, <3>1
    <2>3. ASSUME NEW S, NEW i \in S, NEW x, <<i, x>> \in edge PROVE x \in Successors(edge, S)
      <3>1. PICK e \in edge : e = <<i, x>>
        BY <2>3
      <3>2. e[1] \in S /\ e[2] = x
        BY <3>1
      <3>3. QED
        BY <3>2 DEF Successors
    <2>4. QED
      BY <2>2, <2>3
  <1>7. edge \subseteq Items \X Items
    BY <1>3, <1>4
  <1>8. ASSUME NEW i \in Reached
        PROVE  /\ needs[i] \subseteq Reached
               /\ \A t : <<i, t>> \in edge => t \in needs[i]
               /\ \A j \in needs[i] : needs[j] \subseteq needs[i]
               /\ \A S \in SUBSET Reached :
                     /\ \A t : <<i, t>> \in edge => t \in S
                     /\ \A j \in S : \A t : <<j, t>> \in edge => t \in S
                     => needs[i] \subseteq S
    <2>1. ASSUME NEW j \in Reached, NEW S \in SUBSET Items,
                 \A t : <<j, t>> \in edge => t \in S,
                 \A k \in S : \A t : <<k, t>> \in edge => t \in S
          PROVE  needs[j] \subseteq S
      <3>1. Successors(edge, {j}) \subseteq S /\ Successors(edge, S) \subseteq S
        <4>1. ASSUME NEW x \in Successors(edge, {j}) PROVE x \in S
          <5>0. PICK J : J = {j}
            OBVIOUS
          <5>1. PICK k \in J : <<k, x>> \in edge
            BY <1>6, <4>1, <5>0
          <5>2. QED
            BY <2>1, <5>0, <5>1
        <4>2. ASSUME NEW x \in Successors(edge, S) PROVE x \in S
          <5>1. PICK k \in S : <<k, x>> \in edge
            BY <1>6, <4>2
          <5>2. QED
            BY <2>1, <5>1
        <4>3. QED
          BY <4>1, <4>2
      <3>2. Needs(edge, j) \subseteq S
        BY <1>7, <3>1, NeedsFacts
      <3>3. QED
        BY <3>2
    <2>2. needs[i] \subseteq Reached
      BY <1>3, <1>4, <2>1
    <2>3. Successors(edge, {i}) \subseteq needs[i] /\ Successors(edge, needs[i]) \subseteq needs[i]
      BY <1>7, NeedsFacts
    <2>4. /\ \A t : <<i, t>> \in edge => t \in needs[i]
          /\ \A j \in needs[i] : \A t : <<j, t>> \in edge => t \in needs[i]
      BY <1>6, <2>3
    <2>5. \A j \in needs[i] : needs[j] \subseteq needs[i]
      BY <1>3, <2>1, <2>2, <2>4
    <2>6. QED
      BY <1>3, <2>1, <2>2, <2>4, <2>5
  <1>9. needs \in [Reached -> SUBSET Reached]
    BY <1>8
  <1> HIDE DEF needs
  <1>10. NeedsOK(DeclGraph)
    BY <1>1, <1>3, <1>8, <1>9 DEF NeedsOK
  <1>11. QED
    BY <1>1, <1>2, <1>5, <1>10

LEMMA DeclGraphOK == ASSUME translated \subseteq Items PROVE GraphOK(DeclGraph)
  <1>1. DeclGraph.group = [i \in DeclGraph.node |-> GroupIn(DeclGraph.needs, i)]
    BY DEF DeclGraph
  <1>2. \A i : GroupIn(DeclGraph.needs, i) = InSourceOrder(Mutual(DeclGraph, i))
    BY DEF GroupIn, Mutual
  <1>3. QED
    BY <1>1, <1>2, DeclGraphNeeds DEF GraphOK

GroupSet(G) == {G.group[i] : i \in G.node}
FirstPlace(g) == Place[g[1]]

\* Being in a group with is an equivalence, and a group is in the source's order.
LEMMA GroupFacts ==
    ASSUME NEW G, GraphOK(G)
    PROVE  /\ \A i \in G.node : /\ G.group[i] \in Seq(G.node) /\ ToSet(G.group[i]) = Mutual(G, i)
                                /\ i \in ToSet(G.group[i])
           /\ \A i \in G.node : \A j \in ToSet(G.group[i]) : j \in G.node /\ G.group[j] = G.group[i]
           /\ \A i \in G.node : \A k, l \in DOMAIN G.group[i] :
                 k < l => Place[G.group[i][k]] < Place[G.group[i][l]]
  <1>1. /\ IsFiniteSet(G.node) /\ G.node \subseteq Items /\ G.needs \in [G.node -> SUBSET G.node]
        /\ \A i \in G.node : \A j \in G.needs[i] : G.needs[j] \subseteq G.needs[i]
    BY DEF GraphOK, NeedsOK
  <1>2. \A i \in G.node : G.group[i] = Sorted(Mutual(G, i), Place)
    BY DEF GraphOK, InSourceOrder
  <1>3. ASSUME NEW i \in G.node
        PROVE  /\ IsSorting(G.group[i], Mutual(G, i), Place)
               /\ i \in Mutual(G, i) /\ Mutual(G, i) \subseteq G.node
    <2>1. i \in Mutual(G, i) /\ Mutual(G, i) \subseteq G.node
      BY <1>1 DEF Mutual
    <2>2. IsFiniteSet(Mutual(G, i)) /\ Distinguishes(Place, Mutual(G, i))
      BY <1>1, <2>1, FS_Subset, PlaceFacts DEF Distinguishes
    <2>3. QED
      BY <1>2, <2>1, <2>2, SortedFacts
  <1>4. ASSUME NEW i \in G.node, NEW j \in Mutual(G, i) PROVE Mutual(G, j) = Mutual(G, i)
    <2>1. CASE j = i
      BY <2>1
    <2>2. CASE j # i
      <3>1. j \in G.node /\ j \in G.needs[i] /\ i \in G.needs[j]
        BY <1>1, <2>2 DEF Mutual
      <3>2. G.needs[i] = G.needs[j] /\ i \in G.needs[i] /\ j \in G.needs[j]
        BY <1>1, <3>1
      <3>3. \A k \in G.needs[i] : i \in G.needs[k] <=> j \in G.needs[k]
        BY <1>1, <3>1
      <3>4. QED
        BY <3>2, <3>3 DEF Mutual
    <2>3. QED
      BY <2>1, <2>2
  <1>5. ASSUME NEW i \in G.node
        PROVE  /\ G.group[i] \in Seq(G.node) /\ ToSet(G.group[i]) = Mutual(G, i)
               /\ i \in ToSet(G.group[i])
               /\ \A k, l \in DOMAIN G.group[i] : k < l => Place[G.group[i][k]] < Place[G.group[i][l]]
    <2>1. /\ G.group[i] \in Seq(Mutual(G, i)) /\ ToSet(G.group[i]) = Mutual(G, i)
          /\ \A k, l \in DOMAIN G.group[i] : k < l => Place[G.group[i][k]] < Place[G.group[i][l]]
      BY <1>3 DEF IsSorting
    <2>2. QED
      BY <1>3, <2>1, SeqMonotonic
  <1>6. ASSUME NEW i \in G.node, NEW j \in ToSet(G.group[i])
        PROVE  j \in G.node /\ G.group[j] = G.group[i]
    BY <1>2, <1>3, <1>4, <1>5
  <1>7. QED
    BY <1>5, <1>6

LEMMA FirstOfGroup ==
    ASSUME NEW G, GraphOK(G), NEW g \in GroupSet(G)
    PROVE  /\ g \in Seq(G.node) /\ Len(g) \in Nat \ {0}
           /\ g[1] \in ToSet(g) /\ g[1] \in G.node /\ FirstPlace(g) \in Nat
           /\ \A x \in ToSet(g) : /\ x \in G.node /\ G.group[x] = g /\ Place[x] \in Nat
                                  /\ FirstPlace(g) <= Place[x]
  <1>1. PICK i \in G.node : g = G.group[i]
    BY DEF GroupSet
  <1>2. /\ g \in Seq(G.node) /\ i \in ToSet(g)
        /\ \A j \in ToSet(g) : j \in G.node /\ G.group[j] = g
        /\ \A k, l \in DOMAIN g : k < l => Place[g[k]] < Place[g[l]]
    BY <1>1, GroupFacts
  <1>3. Len(g) \in Nat \ {0} /\ DOMAIN g = 1 .. Len(g) /\ 1 \in DOMAIN g
    BY <1>2 DEF ToSet
  <1>4. g[1] \in ToSet(g)
    BY <1>3 DEF ToSet
  <1>5. \A x \in G.node : Place[x] \in Nat
    BY PlaceFacts DEF Distinguishes, GraphOK, NeedsOK
  <1>6. ASSUME NEW x \in ToSet(g) PROVE FirstPlace(g) <= Place[x]
    <2>1. PICK k \in DOMAIN g : x = g[k]
      BY DEF ToSet
    <2>2. k = 1 \/ 1 < k
      BY <1>3
    <2>3. g[1] \in G.node /\ x \in G.node /\ (k = 1 \/ Place[g[1]] < Place[x])
      BY <1>2, <1>3, <1>4, <2>1, <2>2
    <2>4. QED
      BY <1>5, <2>1, <2>3 DEF FirstPlace
  <1>7. QED
    BY <1>2, <1>3, <1>4, <1>5, <1>6 DEF FirstPlace

\* Sorting groups by their first items there.
LEMMA GroupsOfFacts ==
    ASSUME NEW G, GraphOK(G), NEW S \in SUBSET G.node
    PROVE  /\ GroupsOf(G, S) \in Seq(GroupSet(G))
           /\ ToSet(GroupsOf(G, S)) = {G.group[i] : i \in S}
           /\ S = G.node => \A k, l \in DOMAIN GroupsOf(G, S) :
                 k < l => FirstPlace(GroupsOf(G, S)[k]) < FirstPlace(GroupsOf(G, S)[l])
  <1> DEFINE groups == {G.group[i] : i \in S}
             Places(g) == {Place[i] : i \in ToSet(g) \intersect S}
             place == [g \in groups |-> CHOOSE k \in Places(g) : \A l \in Places(g) : k <= l]
  <1>1. groups \subseteq GroupSet(G)
    BY DEF GroupSet
  <1>2. IsFiniteSet(groups)
    <2>1. IsFiniteSet(S)
      BY FS_Subset DEF GraphOK, NeedsOK
    <2>2. [i \in S |-> G.group[i]] \in Surjection(S, groups)
      BY Fun_IsSurj
    <2>3. QED
      BY <2>1, <2>2, FS_Surjection
  <1>3. ASSUME NEW g \in groups
        PROVE  /\ Places(g) \subseteq Nat
               /\ place[g] \in Places(g) /\ \A l \in Places(g) : place[g] <= l
    <2>1. PICK i \in S : g = G.group[i]
      OBVIOUS
    <2>2. i \in ToSet(g) /\ ToSet(g) \subseteq G.node
      BY <2>1, GroupFacts
    <2>3. Places(g) # {} /\ Places(g) \subseteq Nat
      BY <2>2, PlaceFacts DEF Distinguishes, GraphOK, NeedsOK
    <2>4. place[g] = CHOOSE k \in Places(g) : \A l \in Places(g) : k <= l
      OBVIOUS
    <2> HIDE DEF Places, place
    <2>5. \E k \in Places(g) : \A l \in Places(g) : k <= l
      BY <2>3, LeastNumber
    <2>6. QED
      BY <2>3, <2>4, <2>5
  <1>4. Distinguishes(place, groups)
    <2>1. ASSUME NEW g \in groups, NEW h \in groups, place[g] = place[h] PROVE g = h
      <3>1. PICK i \in ToSet(g) \intersect S : place[g] = Place[i]
        BY <1>3
      <3>2. PICK j \in ToSet(h) \intersect S : place[h] = Place[j]
        BY <1>3
      <3>3. i = j
        BY <2>1, <3>1, <3>2, PlaceFacts DEF Distinguishes, GraphOK, NeedsOK
      <3>4. g = G.group[i] /\ h = G.group[j]
        BY <1>1, <3>1, <3>2, FirstOfGroup
      <3>5. QED
        BY <3>3, <3>4
    <2>2. \A g \in groups : place[g] \in Nat
      BY <1>3
    <2> HIDE DEF place, groups
    <2>3. QED
      BY <2>1, <2>2 DEF Distinguishes
  <1>5. GroupsOf(G, S) = Sorted(groups, place)
    BY DEF GroupsOf
  <1>6. S = G.node => \A g \in groups : place[g] = FirstPlace(g)
    <2> SUFFICES ASSUME S = G.node, NEW g \in groups PROVE place[g] = FirstPlace(g)
      OBVIOUS
    <2>1. /\ FirstPlace(g) \in Places(g)
          /\ \A l \in Places(g) : FirstPlace(g) <= l
      BY <1>1, FirstOfGroup DEF FirstPlace
    <2> HIDE DEF place, groups, Places
    <2>2. place[g] \in Nat /\ FirstPlace(g) \in Nat /\ place[g] <= FirstPlace(g) /\ FirstPlace(g) <= place[g]
      BY <1>3, <2>1
    <2>3. QED
      BY <2>2
  <1>7. S = G.node => groups = GroupSet(G)
    BY DEF GroupSet
  <1> HIDE DEF groups, place, Places
  <1>8. IsSorting(GroupsOf(G, S), groups, place)
    BY <1>2, <1>4, <1>5, SortedFacts
  <1>9. /\ GroupsOf(G, S) \in Seq(groups) /\ ToSet(GroupsOf(G, S)) = groups
        /\ \A k, l \in DOMAIN GroupsOf(G, S) :
              k < l => place[GroupsOf(G, S)[k]] < place[GroupsOf(G, S)[l]]
    BY <1>8 DEF IsSorting
  <1>10. \A k \in DOMAIN GroupsOf(G, S) : GroupsOf(G, S)[k] \in groups
    BY <1>9
  <1>11. GroupsOf(G, S) \in Seq(GroupSet(G))
    BY <1>1, <1>9, SeqMonotonic
  <1>12. QED
    BY <1>6, <1>9, <1>10, <1>11 DEF groups

\* Groups use each other, directly and over others.
Adjacent(G, g, h) == \E i \in ToSet(g) : \E t \in G.node : <<i, t>> \in G.edge /\ h = G.group[t]
Over(G, g, h) == g = h \/ \E i \in ToSet(g), j \in ToSet(h) : j \in G.needs[i]

LEMMA OverAll ==
    ASSUME NEW G, GraphOK(G), NEW g \in GroupSet(G), NEW h \in GroupSet(G), Over(G, g, h), g # h,
           NEW i \in ToSet(g), NEW j \in ToSet(h)
    PROVE  j \in G.needs[i]
  <1>1. PICK k \in ToSet(g), l \in ToSet(h) : l \in G.needs[k]
    BY DEF Over
  <1>2. /\ i \in G.node /\ k \in G.node /\ G.group[i] = g /\ G.group[k] = g
        /\ j \in G.node /\ l \in G.node /\ G.group[j] = h /\ G.group[l] = h
    BY FirstOfGroup
  <1>3. k \in Mutual(G, i) /\ j \in Mutual(G, l)
    BY <1>2, GroupFacts
  <1>4. \A x \in G.node : \A y \in G.needs[x] : G.needs[y] \subseteq G.needs[x]
    BY DEF GraphOK, NeedsOK
  <1>5. l \in G.needs[i]
    BY <1>1, <1>2, <1>3, <1>4 DEF Mutual
  <1>6. QED
    BY <1>2, <1>3, <1>4, <1>5 DEF Mutual

\* The groups are partially ordered, whatever cycles the items are in.
LEMMA OverFacts ==
    ASSUME NEW G, GraphOK(G), NEW g \in GroupSet(G), NEW h \in GroupSet(G)
    PROVE  /\ Over(G, g, h) /\ Over(G, h, g) => g = h
           /\ \A j \in GroupSet(G) : Over(G, g, h) /\ Over(G, h, j) => Over(G, g, j)
           /\ Adjacent(G, g, h) => Over(G, g, h)
  <1>1. PICK x, y : x \in ToSet(g) /\ x \in G.node /\ G.group[x] = g
                    /\ y \in ToSet(h) /\ y \in G.node /\ G.group[y] = h
    BY FirstOfGroup
  <1>2. ASSUME Over(G, g, h), Over(G, h, g), g # h PROVE FALSE
    <2>1. y \in G.needs[x] /\ x \in G.needs[y]
      BY <1>1, <1>2, OverAll
    <2>2. y \in ToSet(G.group[x])
      BY <1>1, <2>1, GroupFacts DEF Mutual
    <2>3. QED
      BY <1>1, <1>2, <2>2, GroupFacts
  <1>3. ASSUME NEW j \in GroupSet(G), Over(G, g, h), Over(G, h, j), g # h, h # j
        PROVE  Over(G, g, j)
    <2>1. PICK z : z \in ToSet(j)
      BY FirstOfGroup
    <2>2. y \in G.needs[x] /\ z \in G.needs[y]
      BY <1>1, <1>3, <2>1, OverAll
    <2>3. z \in G.needs[x]
      BY <1>1, <2>2 DEF GraphOK, NeedsOK
    <2>4. QED
      BY <1>1, <2>1, <2>3 DEF Over
  <1>4. ASSUME Adjacent(G, g, h) PROVE Over(G, g, h)
    <2>1. PICK i \in ToSet(g) : \E t \in G.node : <<i, t>> \in G.edge /\ h = G.group[t]
      BY <1>4 DEF Adjacent
    <2>2. PICK t \in G.node : <<i, t>> \in G.edge /\ h = G.group[t]
      BY <2>1
    <2>3. i \in G.node /\ t \in ToSet(h)
      BY <2>2, FirstOfGroup, GroupFacts
    <2>4. t \in G.needs[i]
      BY <2>2, <2>3 DEF GraphOK, NeedsOK
    <2>5. QED
      BY <2>3, <2>4 DEF Over
  <1>5. QED
    BY <1>2, <1>3, <1>4

-----------------------------------------------------------------------------
(* The traversals.  A group that was looked at is on the stack until it is  *)
(* listed, and what it uses is above it, or was looked at; all that is      *)
(* above it, it reaches.  When the traversal comes back to it, what it uses *)
(* is listed: a group among that, waiting below, would be in a cycle with   *)
(* it, hence the same one.                                                  *)

TraversalTypes == /\ roots \in Seq(GroupSet(graph))
                  /\ stack \in Seq(GroupSet(graph))
                  /\ discovered \subseteq GroupSet(graph)
                  /\ ordered_decls \in Seq(GroupSet(graph))

ListedOnce == \A k, l \in DOMAIN ordered_decls : ordered_decls[k] = ordered_decls[l] => k = l

Listed(n, h) == \E l \in DOMAIN ordered_decls : l < n /\ ordered_decls[l] = h
UsesListed == \A k \in DOMAIN ordered_decls : \A h \in GroupSet(graph) :
                 Adjacent(graph, ordered_decls[k], h) /\ h # ordered_decls[k] => Listed(k, h)

\* Where a group that was looked at waits.
WaitsAt(d, p) ==
    /\ stack[p] = d
    /\ \A q \in DOMAIN stack : q >= p => Over(graph, d, stack[q]) /\ (stack[q] = d => q = p)
    /\ \A h \in GroupSet(graph) : Adjacent(graph, d, h) /\ h # d =>
          h \in discovered \/ \E q \in DOMAIN stack : q >= p /\ stack[q] = h
DiscoveredWait == \A d \in discovered : d \in ToSet(ordered_decls) \/ \E p \in DOMAIN stack : WaitsAt(d, p)

ReachedFromRoot == \A q \in DOMAIN stack : Over(graph, stack[1], stack[q])

AllCovered == \A g \in GroupSet(graph) : \/ g \in ToSet(roots) \/ g \in ToSet(ordered_decls)
                                         \/ stack # <<>> /\ g = stack[1]

RootsInOrder ==
    /\ \A k, l \in DOMAIN roots : k < l => FirstPlace(roots[k]) < FirstPlace(roots[l])
    /\ stack # <<>> => \A k \in DOMAIN roots : FirstPlace(stack[1]) < FirstPlace(roots[k])

\* A group is listed for a root that is behind all the groups before it.
Justified == \A k \in DOMAIN ordered_decls : \E w \in GroupSet(graph) :
                /\ Over(graph, w, ordered_decls[k])
                /\ \A g \in GroupSet(graph) : FirstPlace(g) < FirstPlace(w) => Listed(k, g)

TraversalInv == /\ GraphOK(graph)
                /\ TraversalTypes /\ ListedOnce /\ UsesListed /\ DiscoveredWait
                /\ ReachedFromRoot /\ AllCovered /\ RootsInOrder /\ Justified

LEMMA ComputeGraphStep ==
    ASSUME translated \subseteq Items, ComputeGraph,
           stack = <<>>, discovered = {}, ordered_decls = <<>>
    PROVE  TraversalInv'
  <1>1. GraphOK(graph') /\ graph' = DeclGraph
    BY DeclGraphOK DEF ComputeGraph
  <1> PICK G : G = graph'
    OBVIOUS
  <1>2. /\ stack' = <<>> /\ discovered' = {} /\ ordered_decls' = <<>>
        /\ roots' = GroupsOf(G, G.node)
    BY DEF ComputeGraph
  <1>3. /\ roots' \in Seq(GroupSet(G)) /\ ToSet(roots') = GroupSet(G)
        /\ \A k, l \in DOMAIN roots' : k < l => FirstPlace(roots'[k]) < FirstPlace(roots'[l])
    <2>1. GraphOK(G) /\ G.node \in SUBSET G.node
      BY <1>1
    <2>2. /\ GroupsOf(G, G.node) \in Seq(GroupSet(G))
          /\ ToSet(GroupsOf(G, G.node)) = GroupSet(G)
          /\ \A k, l \in DOMAIN GroupsOf(G, G.node) :
                k < l => FirstPlace(GroupsOf(G, G.node)[k]) < FirstPlace(GroupsOf(G, G.node)[l])
      <3>1. PICK s : s = GroupsOf(G, G.node)
        OBVIOUS
      <3>2. /\ s \in Seq(GroupSet(G)) /\ ToSet(s) = {G.group[i] : i \in G.node}
            /\ \A k, l \in DOMAIN s : k < l => FirstPlace(s[k]) < FirstPlace(s[l])
        BY <2>1, <3>1, GroupsOfFacts
      <3>3. QED
        BY <3>1, <3>2 DEF GroupSet
    <2>3. QED
      BY <1>2, <2>2
  <1>4. GraphOK(graph)' /\ TraversalTypes'
    BY <1>1, <1>2, <1>3 DEF TraversalTypes
  <1>5. ListedOnce' /\ UsesListed' /\ DiscoveredWait' /\ ReachedFromRoot' /\ Justified'
    BY <1>2 DEF ListedOnce, UsesListed, DiscoveredWait, ReachedFromRoot, Justified
  <1>6. AllCovered' /\ RootsInOrder'
    BY <1>2, <1>3 DEF AllCovered, RootsInOrder
  <1>7. QED
    BY <1>4, <1>5, <1>6 DEF TraversalInv

LEMMA StartTraversalStep ==
    ASSUME TraversalInv, StartTraversal
    PROVE  TraversalInv'
  <1>1. /\ stack = <<>> /\ roots # <<>> /\ stack' = <<Head(roots)>> /\ roots' = Tail(roots)
        /\ discovered' = {} /\ graph' = graph /\ ordered_decls' = ordered_decls
    BY DEF StartTraversal
  <1>2. TraversalTypes
    BY DEF TraversalInv
  <1> PICK n : n = Len(roots)
    OBVIOUS
  <1>3. /\ n \in Nat \ {0} /\ DOMAIN roots = 1 .. n /\ 1 \in DOMAIN roots
        /\ DOMAIN roots' = 1 .. n - 1 /\ \A k \in 1 .. n - 1 : roots'[k] = roots[k + 1]
        /\ roots' \in Seq(GroupSet(graph)) /\ roots[1] \in GroupSet(graph)
    BY <1>1, <1>2 DEF TraversalTypes
  <1>4. stack' = <<roots[1]>> /\ stack' # <<>> /\ DOMAIN stack' = {1} /\ stack'[1] = roots[1]
    BY <1>1, <1>3
  <1>5. TraversalTypes'
    <2>1. stack' \in Seq(GroupSet(graph))
      BY <1>3, <1>4
    <2>2. QED
      BY <1>1, <1>2, <1>3, <2>1 DEF TraversalTypes
  <1>6. GraphOK(graph)'
    BY <1>1 DEF TraversalInv
  <1>7. ListedOnce' /\ UsesListed' /\ Justified'
    BY <1>1 DEF TraversalInv, ListedOnce, UsesListed, Justified, Listed
  <1>8. DiscoveredWait'
    BY <1>1 DEF DiscoveredWait
  <1>9. ReachedFromRoot'
    BY <1>4 DEF ReachedFromRoot, Over
  <1>10. AllCovered'
    <2> SUFFICES ASSUME NEW g \in GroupSet(graph), g \notin ToSet(ordered_decls)
                 PROVE  g \in ToSet(roots') \/ g = roots[1]
      BY <1>1, <1>4 DEF AllCovered
    <2>1. g \in ToSet(roots)
      BY <1>1 DEF TraversalInv, AllCovered
    <2>2. PICK k \in 1 .. n : g = roots[k]
      BY <1>3, <2>1 DEF ToSet
    <2>3. CASE k # 1
      <3>1. k - 1 \in 1 .. n - 1 /\ k - 1 + 1 = k
        BY <1>3, <2>3
      <3>2. roots'[k - 1] = g
        BY <1>3, <2>2, <3>1
      <3>3. QED
        BY <1>3, <3>1, <3>2 DEF ToSet
    <2>4. QED
      BY <2>2, <2>3
  <1>11. RootsInOrder'
    <2>1. \A k, l \in 1 .. n : k < l => FirstPlace(roots[k]) < FirstPlace(roots[l])
      BY <1>3 DEF TraversalInv, RootsInOrder
    <2>2. \A k \in 1 .. n - 1 : k + 1 \in 1 .. n /\ 1 < k + 1 /\ 1 \in 1 .. n
      BY <1>3
    <2>3. \A k \in 1 .. n - 1 : FirstPlace(stack'[1]) < FirstPlace(roots'[k])
      BY <1>3, <1>4, <2>1, <2>2
    <2>4. ASSUME NEW k \in 1 .. n - 1, NEW l \in 1 .. n - 1, k < l
          PROVE  FirstPlace(roots'[k]) < FirstPlace(roots'[l])
      <3>1. k + 1 < l + 1
        BY <2>4
      <3>2. QED
        BY <1>3, <2>1, <2>2, <3>1
    <2>5. QED
      BY <1>3, <2>3, <2>4 DEF RootsInOrder
  <1>12. QED
    BY <1>5, <1>6, <1>7, <1>8, <1>9, <1>10, <1>11 DEF TraversalInv

\* The stack behind Discover.
LEMMA DiscoveredStack ==
    ASSUME TraversalInv, Discover, NEW x, x = Last(stack), NEW n, n = Len(stack)
    PROVE  /\ n \in Nat \ {0} /\ DOMAIN stack = 1 .. n /\ stack[n] = x /\ x \in GroupSet(graph)
           /\ stack' \in Seq(GroupSet(graph))
           /\ \A q \in DOMAIN stack : q \in DOMAIN stack' /\ stack'[q] = stack[q]
           /\ \A q \in DOMAIN stack' :
                 /\ q \in Nat
                 /\ q \in DOMAIN stack \/ /\ q > n /\ Adjacent(graph, x, stack'[q])
                                          /\ stack'[q] \notin discovered'
           /\ \A h \in GroupSet(graph) : Adjacent(graph, x, h) /\ h \notin discovered' =>
                 \E q \in DOMAIN stack' : q > n /\ stack'[q] = h
  <1> DEFINE used_ == {t \in UsedBy(x) : graph.group[t] \notin discovered'}
  <1> PICK new : new = GroupsOf(graph, used_)
    OBVIOUS
  <1>1. stack # <<>> /\ stack' = stack \o new
    BY DEF Discover
  <1>2. stack \in Seq(GroupSet(graph)) /\ GraphOK(graph)
    BY DEF TraversalInv, TraversalTypes
  <1>3. /\ n \in Nat \ {0} /\ DOMAIN stack = 1 .. n /\ stack[n] = x /\ x \in GroupSet(graph)
    BY <1>1, <1>2 DEF Last
  <1>4. used_ \in SUBSET graph.node
    BY DEF UsedBy
  <1>5. new \in Seq(GroupSet(graph)) /\ ToSet(new) = {graph.group[t] : t \in used_}
    BY <1>2, <1>4, GroupsOfFacts
  <1>6. \A h : h \in ToSet(new) <=> Adjacent(graph, x, h) /\ h \notin discovered'
    BY <1>5 DEF UsedBy, Adjacent
  <1> PICK m : m = Len(new)
    OBVIOUS
  <1> HIDE DEF used_
  <1>7. /\ m \in Nat /\ DOMAIN new = 1 .. m
        /\ stack' \in Seq(GroupSet(graph)) /\ DOMAIN stack' = 1 .. n + m
        /\ \A q \in 1 .. n : stack'[q] = stack[q]
        /\ \A q \in 1 .. m : stack'[n + q] = new[q]
    BY <1>1, <1>2, <1>3, <1>5
  <1>8. \A q \in 1 .. n : q \in 1 .. n + m
    BY <1>3, <1>7
  <1>9. ASSUME NEW q \in 1 .. n + m, q \notin 1 .. n
        PROVE  q > n /\ stack'[q] \in ToSet(new)
    <2>1. q > n /\ q - n \in 1 .. m /\ n + (q - n) = q
      BY <1>3, <1>7, <1>9
    <2>2. stack'[q] = new[q - n]
      BY <1>7, <2>1
    <2>3. QED
      BY <1>7, <2>1, <2>2 DEF ToSet
  <1>10. ASSUME NEW h \in ToSet(new) PROVE \E q \in 1 .. n + m : q > n /\ stack'[q] = h
    <2>1. PICK q \in 1 .. m : h = new[q]
      BY <1>7 DEF ToSet
    <2>2. n + q \in 1 .. n + m /\ n + q > n
      BY <1>3, <1>7
    <2>3. QED
      BY <1>7, <2>1, <2>2
  <1>11. ASSUME NEW q \in DOMAIN stack'
         PROVE  /\ q \in Nat
                /\ q \in DOMAIN stack \/ /\ q > n /\ Adjacent(graph, x, stack'[q])
                                         /\ stack'[q] \notin discovered'
    BY <1>3, <1>6, <1>7, <1>9
  <1>12. QED
    BY <1>3, <1>6, <1>7, <1>8, <1>10, <1>11

LEMMA DiscoverStep ==
    ASSUME TraversalInv, Discover
    PROVE  TraversalInv'
  <1> PICK x, n : x = Last(stack) /\ n = Len(stack)
    OBVIOUS
  <1>1. /\ discovered' = discovered \union {x} /\ x \notin discovered
        /\ graph' = graph /\ ordered_decls' = ordered_decls /\ roots' = roots
    BY DEF Discover
  <1>2. GraphOK(graph) /\ TraversalTypes
    BY DEF TraversalInv
  <1>3. /\ n \in Nat \ {0} /\ DOMAIN stack = 1 .. n /\ stack[n] = x /\ x \in GroupSet(graph)
        /\ stack' \in Seq(GroupSet(graph))
    BY DiscoveredStack
  <1>4. \A q \in DOMAIN stack : q \in DOMAIN stack' /\ stack'[q] = stack[q]
    BY DiscoveredStack
  <1>5. \A q \in DOMAIN stack' :
           /\ q \in Nat
           /\ q \in DOMAIN stack \/ /\ q > n /\ Adjacent(graph, x, stack'[q])
                                    /\ stack'[q] \notin discovered'
    BY DiscoveredStack
  <1>6. \A h \in GroupSet(graph) : Adjacent(graph, x, h) /\ h \notin discovered' =>
           \E q \in DOMAIN stack' : q > n /\ stack'[q] = h
    BY DiscoveredStack
  <1>7. TraversalTypes'
    BY <1>1, <1>2, <1>3 DEF TraversalTypes
  <1>8. \A q \in DOMAIN stack' : stack'[q] \in GroupSet(graph)
    BY <1>3
  <1>9. \A q \in DOMAIN stack' : q \in DOMAIN stack \/ Over(graph, x, stack'[q])
    BY <1>2, <1>3, <1>5, <1>8, OverFacts
  <1>10. stack # <<>> /\ stack' # <<>> /\ 1 \in DOMAIN stack /\ stack'[1] = stack[1]
    BY <1>3, <1>4
  <1>11. ASSUME NEW d \in discovered', d \notin ToSet(ordered_decls)
         PROVE  \E p \in DOMAIN stack' : WaitsAt(d, p)'
    <2>1. CASE d = x
      <3>1. n \in DOMAIN stack' /\ stack'[n] = x
        BY <1>3, <1>4
      <3>2. ASSUME NEW q \in DOMAIN stack', q >= n
            PROVE  Over(graph, x, stack'[q]) /\ (stack'[q] = x => q = n)
        <4>1. CASE q \in DOMAIN stack
          BY <1>3, <3>1, <3>2, <4>1 DEF Over
        <4>2. CASE q \notin DOMAIN stack
          BY <1>1, <1>5, <1>9, <4>2
        <4>3. QED
          BY <4>1, <4>2
      <3>3. \A h \in GroupSet(graph) : Adjacent(graph, x, h) /\ h # x =>
               h \in discovered' \/ \E q \in DOMAIN stack' : q >= n /\ stack'[q] = h
        BY <1>3, <1>5, <1>6
      <3>4. WaitsAt(x, n)'
        BY <1>1, <3>1, <3>2, <3>3 DEF WaitsAt
      <3>5. QED
        BY <2>1, <3>1, <3>4
    <2>2. CASE d # x
      <3>1. d \in discovered
        BY <1>1, <2>2
      <3>2. PICK p \in DOMAIN stack : WaitsAt(d, p)
        BY <1>11, <3>1 DEF TraversalInv, DiscoveredWait
      <3>3. /\ stack[p] = d
            /\ \A q \in DOMAIN stack : q >= p => Over(graph, d, stack[q]) /\ (stack[q] = d => q = p)
            /\ \A h \in GroupSet(graph) : Adjacent(graph, d, h) /\ h # d =>
                  h \in discovered \/ \E q \in DOMAIN stack : q >= p /\ stack[q] = h
        BY <3>2 DEF WaitsAt
      <3>4. p \in DOMAIN stack' /\ stack'[p] = d
        BY <1>4, <3>3
      <3>5. Over(graph, d, x) /\ d \in GroupSet(graph)
        <4>1. n \in DOMAIN stack /\ n >= p
          BY <1>3
        <4>2. d \in GroupSet(graph)
          BY <1>2, <3>1 DEF TraversalTypes
        <4>3. QED
          BY <1>3, <3>3, <4>1, <4>2
      <3>6. ASSUME NEW q \in DOMAIN stack', q >= p
            PROVE  Over(graph, d, stack'[q]) /\ (stack'[q] = d => q = p)
        <4>1. CASE q \in DOMAIN stack
          BY <1>4, <3>3, <3>6, <4>1
        <4>2. CASE q \notin DOMAIN stack
          <5>1. stack'[q] # d
            BY <1>5, <4>2
          <5>2. Over(graph, x, stack'[q])
            BY <1>9, <4>2
          <5>3. Over(graph, d, stack'[q])
            BY <1>2, <1>3, <1>8, <3>5, <5>2, OverFacts
          <5>4. QED
            BY <5>1, <5>3
        <4>3. QED
          BY <4>1, <4>2
      <3>7. \A h \in GroupSet(graph) : Adjacent(graph, d, h) /\ h # d =>
               h \in discovered' \/ \E q \in DOMAIN stack' : q >= p /\ stack'[q] = h
        BY <1>1, <1>4, <3>3
      <3>8. WaitsAt(d, p)'
        BY <1>1, <3>4, <3>6, <3>7 DEF WaitsAt
      <3>9. QED
        BY <3>4, <3>8
    <2>3. QED
      BY <2>1, <2>2
  <1>12. DiscoveredWait'
    BY <1>1, <1>11 DEF DiscoveredWait
  <1>13. ReachedFromRoot'
    <2> SUFFICES ASSUME NEW q \in DOMAIN stack' PROVE Over(graph, stack[1], stack'[q])
      BY <1>1, <1>10 DEF ReachedFromRoot
    <2>1. \A r \in DOMAIN stack : Over(graph, stack[1], stack[r])
      BY DEF TraversalInv, ReachedFromRoot
    <2>2. Over(graph, stack[1], x) /\ stack[1] \in GroupSet(graph)
      BY <1>3, <1>8, <1>10, <2>1
    <2>3. CASE q \in DOMAIN stack
      BY <1>4, <2>1, <2>3
    <2>4. CASE q \notin DOMAIN stack
      <3>1. Over(graph, x, stack'[q])
        BY <1>9, <2>4
      <3>2. QED
        BY <1>2, <1>3, <1>8, <2>2, <3>1, OverFacts
    <2>5. QED
      BY <2>3, <2>4
  <1>14. GraphOK(graph)' /\ ListedOnce' /\ UsesListed' /\ Justified'
    BY <1>1 DEF TraversalInv, ListedOnce, UsesListed, Justified, Listed
  <1>15. AllCovered' /\ RootsInOrder'
    BY <1>1, <1>10 DEF TraversalInv, AllCovered, RootsInOrder
  <1>16. QED
    BY <1>7, <1>12, <1>13, <1>14, <1>15 DEF TraversalInv

\* A group that the traversal comes back to is the last on the stack, and what
\* it uses is listed, unless it is itself.
LEMMA ComesBack ==
    ASSUME TraversalInv, stack # <<>>, NEW x, x = Last(stack), x \in discovered,
           x \notin ToSet(ordered_decls),
           NEW h \in GroupSet(graph), Adjacent(graph, x, h), h # x
    PROVE  h \in ToSet(ordered_decls)
  <1> PICK n : n = Len(stack)
    OBVIOUS
  <1>1. n \in DOMAIN stack /\ stack[n] = x /\ x \in GroupSet(graph) /\ \A q \in DOMAIN stack : n >= q
    BY DEF TraversalInv, TraversalTypes, Last
  <1>2. PICK p \in DOMAIN stack : WaitsAt(x, p)
    BY DEF TraversalInv, DiscoveredWait
  <1>3. n = p
    BY <1>1, <1>2 DEF WaitsAt
  <1>4. ASSUME NEW q \in DOMAIN stack, q >= p PROVE q = n
    <2>1. n \in Nat /\ q \in Nat /\ n >= q
      BY <1>1 DEF TraversalInv, TraversalTypes
    <2>2. QED
      BY <1>3, <1>4, <2>1
  <1>5. h \in discovered
    <2>1. h \in discovered \/ \E q \in DOMAIN stack : q >= p /\ stack[q] = h
      BY <1>2 DEF WaitsAt
    <2>2. QED
      BY <1>1, <1>4, <2>1
  <1>6. ASSUME NEW r \in DOMAIN stack, WaitsAt(h, r) PROVE FALSE
    <2>1. Over(graph, h, x)
      BY <1>1, <1>6 DEF WaitsAt
    <2>2. QED
      BY <1>1, <2>1, OverFacts DEF TraversalInv
  <1>7. QED
    BY <1>5, <1>6 DEF TraversalInv, DiscoveredWait

\* What Include does to the list of groups and to the stack.
LEMMA IncludedList ==
    ASSUME TraversalInv, Include, NEW x, x = Last(stack)
    PROVE  /\ x \in GroupSet(graph) /\ x \in discovered /\ stack # <<>>
           /\ ordered_decls' \in Seq(GroupSet(graph)) /\ x \in ToSet(ordered_decls')
           /\ \A k \in DOMAIN ordered_decls :
                 k \in DOMAIN ordered_decls' /\ ordered_decls'[k] = ordered_decls[k]
           /\ \A k \in DOMAIN ordered_decls' : k \in DOMAIN ordered_decls \/
                 /\ x \notin ToSet(ordered_decls) /\ ordered_decls'[k] = x
                 /\ k = Len(ordered_decls) + 1
                 /\ \A l \in DOMAIN ordered_decls : l < k
  <1> PICK n : n = Len(ordered_decls)
    OBVIOUS
  <1>1. n \in Nat /\ DOMAIN ordered_decls = 1 .. n /\ ordered_decls \in Seq(GroupSet(graph))
    BY DEF TraversalInv, TraversalTypes
  <1>2. stack # <<>> /\ x \in discovered /\ x \in GroupSet(graph)
    BY DEF Include, TraversalInv, TraversalTypes
  <1>3. Contains(ordered_decls, x) <=> x \in ToSet(ordered_decls)
    BY <1>1 DEF Contains, ToSet
  <1>4. CASE x \in ToSet(ordered_decls)
    <2>1. ordered_decls' = ordered_decls
      BY <1>3, <1>4 DEF Include
    <2>2. QED
      BY <1>1, <1>2, <1>4, <2>1
  <1>5. CASE x \notin ToSet(ordered_decls)
    <2>1. ordered_decls' = Append(ordered_decls, x)
      BY <1>3, <1>5 DEF Include
    <2>2. /\ ordered_decls' \in Seq(GroupSet(graph)) /\ DOMAIN ordered_decls' = 1 .. n + 1
          /\ \A k \in 1 .. n : ordered_decls'[k] = ordered_decls[k]
          /\ ordered_decls'[n + 1] = x
      BY <1>1, <1>2, <2>1
    <2>3. n + 1 \in 1 .. n + 1 /\ \A k \in 1 .. n + 1 : k \in 1 .. n \/ k = n + 1
      BY <1>1
    <2>4. x \in ToSet(ordered_decls')
      BY <2>2, <2>3 DEF ToSet
    <2>5. \A l \in 1 .. n : l < n + 1 /\ l \in 1 .. n + 1
      BY <1>1
    <2>6. QED
      BY <1>1, <1>2, <1>5, <2>2, <2>3, <2>4, <2>5
  <1>6. QED
    BY <1>4, <1>5

LEMMA IncludedStack ==
    ASSUME TraversalInv, Include, NEW x, x = Last(stack)
    PROVE  /\ stack' \in Seq(GroupSet(graph))
           /\ \A q \in DOMAIN stack' : q \in DOMAIN stack /\ stack'[q] = stack[q]
           /\ \A q \in DOMAIN stack : q \in DOMAIN stack' \/ stack[q] = x
           /\ stack[1] = x \/ (stack' # <<>> /\ stack'[1] = stack[1])
           /\ stack' # <<>> => stack'[1] = stack[1]
           /\ 1 \in DOMAIN stack
  <1> PICK n : n = Len(stack)
    OBVIOUS
  <1>1. /\ n \in Nat \ {0} /\ DOMAIN stack = 1 .. n /\ stack[n] = x /\ stack \in Seq(GroupSet(graph))
    BY DEF TraversalInv, TraversalTypes, Include, Last
  <1>2. stack' = SubSeq(stack, 1, n - 1)
    BY DEF Include, Front
  <1>3. /\ stack' \in Seq(GroupSet(graph)) /\ DOMAIN stack' = 1 .. n - 1
        /\ \A q \in 1 .. n - 1 : stack'[q] = stack[q]
    BY <1>1, <1>2
  <1>4. \A q \in 1 .. n - 1 : q \in 1 .. n
    BY <1>1
  <1>5. \A q \in 1 .. n : q \in 1 .. n - 1 \/ q = n
    BY <1>1
  <1>6. n = 1 \/ 1 \in 1 .. n - 1
    BY <1>1
  <1>7. stack' # <<>> => 1 \in 1 .. n - 1
    BY <1>1, <1>3
  <1>8. 1 \in 1 .. n - 1 => stack' # <<>>
    BY <1>3
  <1>9. 1 \in 1 .. n
    BY <1>1
  <1>10. QED
    BY <1>1, <1>3, <1>4, <1>5, <1>6, <1>7, <1>8, <1>9

LEMMA IncludeStep ==
    ASSUME TraversalInv, Include
    PROVE  TraversalInv'
  <1> PICK x : x = Last(stack)
    OBVIOUS
  <1>1. /\ discovered' = discovered /\ graph' = graph /\ roots' = roots
    BY DEF Include
  <1>2. GraphOK(graph) /\ TraversalTypes
    BY DEF TraversalInv
  <1>3. /\ x \in GroupSet(graph) /\ x \in discovered /\ stack # <<>>
        /\ ordered_decls' \in Seq(GroupSet(graph)) /\ x \in ToSet(ordered_decls')
    BY IncludedList
  <1>4. \A k \in DOMAIN ordered_decls :
           k \in DOMAIN ordered_decls' /\ ordered_decls'[k] = ordered_decls[k]
    BY IncludedList
  <1>5. \A k \in DOMAIN ordered_decls' : k \in DOMAIN ordered_decls \/
           /\ x \notin ToSet(ordered_decls) /\ ordered_decls'[k] = x
           /\ k = Len(ordered_decls) + 1
           /\ \A l \in DOMAIN ordered_decls : l < k
    BY IncludedList
  <1>6. /\ stack' \in Seq(GroupSet(graph))
        /\ \A q \in DOMAIN stack' : q \in DOMAIN stack /\ stack'[q] = stack[q]
        /\ \A q \in DOMAIN stack : q \in DOMAIN stack' \/ stack[q] = x
    BY IncludedStack
  <1>7. /\ stack[1] = x \/ (stack' # <<>> /\ stack'[1] = stack[1])
        /\ stack' # <<>> => stack'[1] = stack[1]
        /\ 1 \in DOMAIN stack
    BY IncludedStack
  <1>8. TraversalTypes'
    BY <1>1, <1>2, <1>3, <1>6 DEF TraversalTypes
  <1>9. ToSet(ordered_decls) \subseteq ToSet(ordered_decls')
    BY <1>4 DEF ToSet
  <1>10. ListedOnce'
    <2> SUFFICES ASSUME NEW k \in DOMAIN ordered_decls', NEW l \in DOMAIN ordered_decls',
                        ordered_decls'[k] = ordered_decls'[l]
                 PROVE  k = l
      BY DEF ListedOnce
    <2>1. \A i, j \in DOMAIN ordered_decls : ordered_decls[i] = ordered_decls[j] => i = j
      BY DEF TraversalInv, ListedOnce
    <2>2. \A i \in DOMAIN ordered_decls : ordered_decls[i] \in ToSet(ordered_decls)
      BY DEF ToSet
    <2>3. QED
      BY <1>4, <1>5, <2>1, <2>2
  <1>11. \A k, h : Listed(k, h) => Listed(k, h)'
    BY <1>4 DEF Listed
  <1>12. ASSUME NEW k \in DOMAIN ordered_decls', k \notin DOMAIN ordered_decls, NEW h \in ToSet(ordered_decls)
         PROVE  Listed(k, h)'
    <2>1. PICK l \in DOMAIN ordered_decls : ordered_decls[l] = h
      BY <1>12 DEF ToSet
    <2>2. QED
      BY <1>4, <1>5, <1>12, <2>1 DEF Listed
  <1>13. UsesListed'
    <2> SUFFICES ASSUME NEW k \in DOMAIN ordered_decls', NEW h \in GroupSet(graph),
                        Adjacent(graph, ordered_decls'[k], h), h # ordered_decls'[k]
                 PROVE  Listed(k, h)'
      BY <1>1 DEF UsesListed
    <2>1. CASE k \in DOMAIN ordered_decls
      <3>1. Listed(k, h)
        BY <1>4, <2>1 DEF TraversalInv, UsesListed
      <3>2. QED
        BY <1>11, <3>1
    <2>2. CASE k \notin DOMAIN ordered_decls
      <3>1. x \notin ToSet(ordered_decls) /\ ordered_decls'[k] = x
        BY <1>5, <2>2
      <3>2. h \in ToSet(ordered_decls)
        BY <1>3, <3>1, ComesBack
      <3>3. QED
        BY <1>12, <2>2, <3>2
    <2>3. QED
      BY <2>1, <2>2
  <1>14. DiscoveredWait'
    <2> SUFFICES ASSUME NEW d \in discovered, d \notin ToSet(ordered_decls')
                 PROVE  \E p \in DOMAIN stack' : WaitsAt(d, p)'
      BY <1>1 DEF DiscoveredWait
    <2>1. d # x /\ d \notin ToSet(ordered_decls)
      BY <1>3, <1>9
    <2>2. PICK p \in DOMAIN stack : WaitsAt(d, p)
      BY <2>1 DEF TraversalInv, DiscoveredWait
    <2>3. /\ stack[p] = d
          /\ \A q \in DOMAIN stack : q >= p => Over(graph, d, stack[q]) /\ (stack[q] = d => q = p)
          /\ \A h \in GroupSet(graph) : Adjacent(graph, d, h) /\ h # d =>
                h \in discovered \/ \E q \in DOMAIN stack : q >= p /\ stack[q] = h
      BY <2>2 DEF WaitsAt
    <2>4. p \in DOMAIN stack' /\ stack'[p] = d
      BY <1>6, <2>1, <2>3
    <2>5. \A q \in DOMAIN stack' : q >= p => Over(graph, d, stack'[q]) /\ (stack'[q] = d => q = p)
      BY <1>6, <2>3
    <2>6. ASSUME NEW h \in GroupSet(graph), Adjacent(graph, d, h), h # d
          PROVE  h \in discovered \/ \E q \in DOMAIN stack' : q >= p /\ stack'[q] = h
      <3>1. CASE \E q \in DOMAIN stack : q >= p /\ stack[q] = h
        BY <1>3, <1>6, <3>1
      <3>2. QED
        BY <2>3, <2>6, <3>1
    <2>7. WaitsAt(d, p)'
      BY <1>1, <2>4, <2>5, <2>6 DEF WaitsAt
    <2>8. QED
      BY <2>4, <2>7
  <1>15. ReachedFromRoot'
    <2> SUFFICES ASSUME NEW q \in DOMAIN stack' PROVE Over(graph, stack'[1], stack'[q])
      BY <1>1 DEF ReachedFromRoot
    <2>1. stack' # <<>>
      BY <1>6
    <2>2. QED
      BY <1>6, <1>7, <2>1 DEF TraversalInv, ReachedFromRoot
  <1>16. AllCovered'
    <2> SUFFICES ASSUME NEW g \in GroupSet(graph)
                 PROVE  \/ g \in ToSet(roots) \/ g \in ToSet(ordered_decls')
                        \/ stack' # <<>> /\ g = stack'[1]
      BY <1>1 DEF AllCovered
    <2>1. g \in ToSet(roots) \/ g \in ToSet(ordered_decls) \/ g = stack[1]
      BY DEF TraversalInv, AllCovered
    <2>2. QED
      BY <1>3, <1>7, <1>9, <2>1
  <1>17. RootsInOrder'
    BY <1>1, <1>3, <1>7 DEF TraversalInv, RootsInOrder
  <1>18. Justified'
    <2> SUFFICES ASSUME NEW k \in DOMAIN ordered_decls'
                 PROVE  \E w \in GroupSet(graph) :
                           /\ Over(graph, w, ordered_decls'[k])
                           /\ \A g \in GroupSet(graph) :
                                 FirstPlace(g) < FirstPlace(w) => Listed(k, g)'
      BY <1>1 DEF Justified
    <2>1. CASE k \in DOMAIN ordered_decls
      BY <1>4, <1>11, <2>1 DEF TraversalInv, Justified
    <2>2. CASE k \notin DOMAIN ordered_decls
      <3> PICK w : w = stack[1]
        OBVIOUS
      <3>1. w \in GroupSet(graph) /\ Over(graph, w, x)
        <4>1. Len(stack) \in DOMAIN stack /\ x = stack[Len(stack)] /\ w \in GroupSet(graph)
          BY <1>2, <1>3, <1>7 DEF TraversalTypes, Last
        <4>2. QED
          BY <4>1 DEF TraversalInv, ReachedFromRoot
      <3>2. ASSUME NEW g \in GroupSet(graph), FirstPlace(g) < FirstPlace(w)
            PROVE  g \in ToSet(ordered_decls)
        <4>1. FirstPlace(g) \in Nat /\ FirstPlace(w) \in Nat /\ g # w
          BY <1>2, <3>1, <3>2, FirstOfGroup
        <4>2. ASSUME g \in ToSet(roots) PROVE FALSE
          <5>1. PICK l \in DOMAIN roots : g = roots[l]
            BY <4>2 DEF ToSet
          <5>2. FirstPlace(w) < FirstPlace(g)
            BY <1>3, <5>1 DEF TraversalInv, RootsInOrder
          <5>3. QED
            BY <3>2, <4>1, <5>2
        <4>3. QED
          BY <4>1, <4>2 DEF TraversalInv, AllCovered
      <3>3. ordered_decls'[k] = x
        BY <1>5, <2>2
      <3>4. QED
        BY <1>12, <2>2, <3>1, <3>2, <3>3
    <2>3. QED
      BY <2>1, <2>2
  <1>19. QED
    BY <1>1, <1>8, <1>10, <1>13, <1>14, <1>15, <1>16, <1>17, <1>18 DEF TraversalInv

-----------------------------------------------------------------------------
(* The whole invariant: the queue's, and either nothing is begun yet or the  *)
(* graph is that of the translated items, the traversals are on their way    *)
(* and what is declared in WhyML comes from the first groups of the list.    *)

NotBegun == /\ stack = <<>> /\ discovered = {} /\ ordered_decls = <<>>
            /\ declaring = 0 /\ whyml_decls = [items |-> {}, error |-> FALSE]

GraphOfUses == /\ graph.node \subseteq translated
               /\ \A i \in graph.node : \A t : <<i, t>> \in graph.edge <=> t \in Uses(i)

DeclaredFrom(m) == {i \in graph.node : /\ Declarable(i)
                                       /\ \E k \in DOMAIN ordered_decls : k <= m /\ i \in ToSet(ordered_decls[k])}
DeclaredSoFar ==
    /\ declaring \in 0 .. Len(ordered_decls)
    /\ ~Ordered => declaring = 0
    /\ \E m \in 0 .. declaring : /\ whyml_decls.items = DeclaredFrom(m)
                                 /\ ~whyml_decls.error => m = declaring
    /\ whyml_decls = [items |-> whyml_decls.items, error |-> whyml_decls.error]
    /\ declaring = 0 => ~whyml_decls.error

DeclInv == /\ IInv
           /\ program \in Programs
           /\ reordering \in BOOLEAN
           /\ ~reordering => NotBegun
           /\ reordering => TraversalInv /\ GraphOfUses /\ DeclaredSoFar

LEMMA UsesStay ==
    ASSUME UNCHANGED vars
    PROVE  \A i : Uses(i)' = Uses(i) /\ Mentions(i)' = Mentions(i)
  <1>1. program' = program /\ translated' = translated /\ impls' = impls
    BY DEF vars
  <1>2. \A i : MethodsOf(i)' = MethodsOf(i)
    BY <1>1 DEF MethodsOf
  <1>3. \A i : Mentions(i)' = Mentions(i)
    BY <1>1 DEF Mentions
  <1>4. QED
    BY <1>1, <1>2, <1>3 DEF Uses

LEMMA GraphOfUsesStays ==
    ASSUME GraphOfUses, UNCHANGED vars, graph' = graph
    PROVE  GraphOfUses'
  <1>1. translated' = translated /\ \A i : Uses(i)' = Uses(i)
    BY UsesStay DEF vars
  <1>2. QED
    BY <1>1 DEF GraphOfUses

\* Nothing is declared before the order is settled.
LEMMA NothingDeclared ==
    ASSUME UNCHANGED whymlVars, declaring = 0,
           whyml_decls = [items |-> {}, error |-> FALSE], ordered_decls' \in Seq(GroupSet(graph'))
    PROVE  DeclaredSoFar'
  <1>1. declaring' = 0 /\ whyml_decls' = [items |-> {}, error |-> FALSE]
    BY DEF whymlVars
  <1>2. Len(ordered_decls') \in Nat /\ \A k \in DOMAIN ordered_decls' : ~(k <= 0)
    OBVIOUS
  <1>3. DeclaredFrom(0)' = {}
    BY <1>2 DEF DeclaredFrom
  <1>4. 0 \in 0 .. 0 /\ 0 \in 0 .. Len(ordered_decls')
    BY <1>2
  <1>5. QED
    BY <1>1, <1>3, <1>4 DEF DeclaredSoFar

LEMMA NotOrdered ==
    ASSUME DeclaredSoFar, ~Ordered, TraversalInv
    PROVE  declaring = 0 /\ whyml_decls = [items |-> {}, error |-> FALSE]
  <1>1. declaring = 0 /\ ~whyml_decls.error
    BY DEF DeclaredSoFar
  <1>2. whyml_decls.items = DeclaredFrom(0)
    BY <1>1 DEF DeclaredSoFar
  <1>3. \A k \in DOMAIN ordered_decls : ~(k <= 0)
    BY DEF TraversalInv, TraversalTypes
  <1>4. DeclaredFrom(0) = {}
    BY <1>3 DEF DeclaredFrom
  <1>5. QED
    BY <1>1, <1>2, <1>4 DEF DeclaredSoFar

LEMMA InitDecl == DeclInit => DeclInv
  <1> SUFFICES ASSUME DeclInit PROVE DeclInv
    OBVIOUS
  <1>1. IInv
    BY InitInv DEF DeclInit
  <1>2. program \in Programs
    BY DEF DeclInit, Init
  <1>3. reordering = FALSE /\ NotBegun
    BY DEF DeclInit, NotBegun
  <1>4. QED
    BY <1>1, <1>2, <1>3 DEF DeclInv

LEMMA ProgramStays == [Next]_vars => program' = program
  BY DEF Next, vars, TranslateItem, SkipItem, PopFront, RemoveUnusedMethods, RegisterAndEnqueue,
         MarkMethodAsUsed, RegisterMethodImpl, FindTranslated, TranslateNow, DetectCycle,
         FillSlot, GiveUp

LEMMA QueueStays ==
    ASSUME DeclInv, UNCHANGED vars
    PROVE  IInv' /\ program' \in Programs
  BY NextInv DEF DeclInv, vars

LEMMA TranslateStep == DeclInv /\ Translate => DeclInv'
  <1> SUFFICES ASSUME DeclInv, Translate PROVE DeclInv'
    OBVIOUS
  <1>1. IInv' /\ program' \in Programs
    BY NextInv, ProgramStays DEF DeclInv, Translate
  <1>2. ~reordering /\ NotBegun
    BY DEF DeclInv, Translate
  <1>3. /\ reordering' = reordering /\ stack' = stack /\ discovered' = discovered
        /\ ordered_decls' = ordered_decls
        /\ declaring' = declaring /\ whyml_decls' = whyml_decls
    BY DEF Translate, declVars, orderVars, traversal, whymlVars
  <1>4. NotBegun'
    BY <1>2, <1>3 DEF NotBegun
  <1>5. reordering' \in BOOLEAN /\ ~reordering'
    BY <1>2, <1>3 DEF DeclInv
  <1>6. QED
    BY <1>1, <1>4, <1>5 DEF DeclInv

LEMMA ComputeGraphKeepsInv == DeclInv /\ ComputeGraph => DeclInv'
  <1> SUFFICES ASSUME DeclInv, ComputeGraph PROVE DeclInv'
    OBVIOUS
  <1>1. UNCHANGED vars /\ reordering' = TRUE /\ graph' = DeclGraph /\ NotBegun /\ ~reordering
    BY DEF ComputeGraph, DeclInv
  <1>2. IInv' /\ program' \in Programs
    BY <1>1, QueueStays
  <1>3. translated \subseteq Items
    BY DEF DeclInv, IInv, TypeOK
  <1>4. TraversalInv'
    BY <1>1, <1>3, ComputeGraphStep DEF NotBegun
  <1>5. GraphOfUses'
    <2>1. /\ DeclGraph.node \subseteq translated
          /\ \A i \in DeclGraph.node : \A t : <<i, t>> \in DeclGraph.edge <=> t \in Uses(i)
      BY <1>3, DeclGraphNeeds
    <2>2. translated' = translated /\ \A i : Uses(i)' = Uses(i)
      BY <1>1, UsesStay DEF vars
    <2>3. QED
      BY <1>1, <2>1, <2>2 DEF GraphOfUses
  <1>6. DeclaredSoFar'
    <2>1. UNCHANGED whymlVars
      BY DEF ComputeGraph
    <2>2. declaring = 0 /\ whyml_decls = [items |-> {}, error |-> FALSE]
      BY <1>1 DEF NotBegun
    <2>3. ordered_decls' \in Seq(GroupSet(graph'))
      BY <1>4 DEF TraversalInv, TraversalTypes
    <2>4. QED
      BY <2>1, <2>2, <2>3, NothingDeclared
  <1>7. QED
    BY <1>1, <1>2, <1>4, <1>5, <1>6 DEF DeclInv

LEMMA TraversalKeepsInv == DeclInv /\ (StartTraversal \/ Discover \/ Include) /\ reordering => DeclInv'
  <1> SUFFICES ASSUME DeclInv, StartTraversal \/ Discover \/ Include, reordering PROVE DeclInv'
    OBVIOUS
  <1>1. UNCHANGED vars /\ reordering' = reordering /\ graph' = graph /\ UNCHANGED whymlVars
    BY DEF StartTraversal, Discover, Include
  <1>2. IInv' /\ program' \in Programs
    BY <1>1, QueueStays
  <1>3. TraversalInv /\ GraphOfUses /\ DeclaredSoFar
    BY DEF DeclInv
  <1>4. TraversalInv'
    BY <1>3, StartTraversalStep, DiscoverStep, IncludeStep
  <1>5. GraphOfUses'
    BY <1>1, <1>3, GraphOfUsesStays
  <1>6. ~Ordered
    BY DEF Ordered, StartTraversal, Discover, Include
  <1>7. DeclaredSoFar'
    <2>1. declaring = 0 /\ whyml_decls = [items |-> {}, error |-> FALSE]
      BY <1>3, <1>6, NotOrdered
    <2>2. ordered_decls' \in Seq(GroupSet(graph'))
      BY <1>4 DEF TraversalInv, TraversalTypes
    <2>3. QED
      BY <1>1, <2>1, <2>2, NothingDeclared
  <1>8. QED
    BY <1>1, <1>2, <1>4, <1>5, <1>7 DEF DeclInv

LEMMA TranslateDeclGroupStep == DeclInv /\ TranslateDeclGroup => DeclInv'
  <1> SUFFICES ASSUME DeclInv, TranslateDeclGroup PROVE DeclInv'
    OBVIOUS
  <1>1. UNCHANGED vars /\ UNCHANGED orderVars /\ Ordered /\ ~whyml_decls.error
        /\ declaring < Len(ordered_decls) /\ declaring' = declaring + 1
    BY DEF TranslateDeclGroup
  <1>2. /\ reordering' = reordering /\ graph' = graph /\ roots' = roots /\ stack' = stack
        /\ discovered' = discovered /\ ordered_decls' = ordered_decls /\ reordering
    BY <1>1 DEF orderVars, traversal, Ordered
  <1>3. IInv' /\ program' \in Programs
    BY <1>1, QueueStays
  <1>4. TraversalInv /\ GraphOfUses /\ DeclaredSoFar
    BY <1>2 DEF DeclInv
  <1>5. TraversalInv'
    <2>1. TraversalTypes' /\ ListedOnce' /\ UsesListed' /\ GraphOK(graph)'
      BY <1>2, <1>4 DEF TraversalInv, TraversalTypes, ListedOnce, UsesListed, Listed
    <2>2. DiscoveredWait' /\ ReachedFromRoot'
      BY <1>2, <1>4 DEF TraversalInv, DiscoveredWait, WaitsAt, ReachedFromRoot
    <2>3. AllCovered' /\ RootsInOrder' /\ Justified'
      BY <1>2, <1>4 DEF TraversalInv, AllCovered, RootsInOrder, Justified, Listed
    <2>4. QED
      BY <2>1, <2>2, <2>3 DEF TraversalInv
  <1>6. GraphOfUses'
    BY <1>1, <1>2, <1>4, GraphOfUsesStays
  <1>7. DeclaredSoFar'
    <2> PICK group : group = ordered_decls[declaring + 1]
      OBVIOUS
    <2>1. declaring \in Nat /\ Len(ordered_decls) \in Nat /\ DOMAIN ordered_decls = 1 .. Len(ordered_decls)
      BY <1>4 DEF DeclaredSoFar, TraversalInv, TraversalTypes
    <2>2. /\ declaring' \in 0 .. Len(ordered_decls') /\ Ordered'
          /\ declaring + 1 \in DOMAIN ordered_decls
      BY <1>1, <1>2, <2>1 DEF Ordered
    <2>3. /\ whyml_decls.items = DeclaredFrom(declaring)
          /\ whyml_decls = [items |-> whyml_decls.items, error |-> whyml_decls.error]
      BY <1>1, <1>4 DEF DeclaredSoFar
    <2>4. \A m : DeclaredFrom(m)' = DeclaredFrom(m)
      BY <1>2 DEF DeclaredFrom
    <2>5. declaring' # 0 /\ declaring \in 0 .. declaring' /\ declaring' \in 0 .. declaring'
      BY <1>1, <2>1
    <2>6. CASE IsMixed(group)
      <3>1. whyml_decls' = [items |-> whyml_decls.items, error |-> TRUE]
        BY <1>1, <2>3, <2>6 DEF TranslateDeclGroup
      <3>2. QED
        BY <2>2, <2>3, <2>4, <2>5, <3>1 DEF DeclaredSoFar
    <2>7. CASE ~IsMixed(group)
      <3> PICK added : added = {i \in ToSet(group) : Declarable(i)}
        OBVIOUS
      <3>1. whyml_decls' = [items |-> whyml_decls.items \union added, error |-> whyml_decls.error]
        BY <1>1, <2>3, <2>7 DEF TranslateDeclGroup
      <3>2. DeclaredFrom(declaring + 1) = DeclaredFrom(declaring) \union added
        <4>1. group \in GroupSet(graph) /\ GraphOK(graph)
          BY <1>4, <2>2 DEF TraversalInv, TraversalTypes
        <4>2. ToSet(group) \subseteq graph.node
          BY <4>1, FirstOfGroup
        <4>3. \A k \in DOMAIN ordered_decls : k <= declaring + 1 <=> k <= declaring \/ k = declaring + 1
          BY <2>1
        <4>4. QED
          BY <2>2, <4>2, <4>3 DEF DeclaredFrom
      <3> PICK m : m = declaring + 1
        OBVIOUS
      <3>3. whyml_decls'.items = DeclaredFrom(m)' /\ m = declaring'
        BY <1>1, <2>3, <2>4, <3>1, <3>2
      <3>4. QED
        BY <1>1, <2>2, <2>5, <3>1, <3>3 DEF DeclaredSoFar
    <2>8. QED
      BY <2>6, <2>7
  <1>8. QED
    BY <1>2, <1>3, <1>5, <1>6, <1>7 DEF DeclInv

LEMMA StutterKeepsInv == DeclInv /\ UNCHANGED <<vars, declVars>> => DeclInv'
  <1> SUFFICES ASSUME DeclInv, UNCHANGED <<vars, declVars>> PROVE DeclInv'
    OBVIOUS
  <1>1. UNCHANGED vars /\ UNCHANGED orderVars /\ UNCHANGED whymlVars
    BY DEF declVars
  <1>2. /\ reordering' = reordering /\ graph' = graph /\ roots' = roots /\ stack' = stack
        /\ discovered' = discovered /\ ordered_decls' = ordered_decls
        /\ declaring' = declaring /\ whyml_decls' = whyml_decls
    BY <1>1 DEF orderVars, traversal, whymlVars
  <1>3. IInv' /\ program' \in Programs /\ reordering' \in BOOLEAN
    BY <1>1, <1>2, QueueStays DEF DeclInv
  <1>4. CASE ~reordering
    <2>1. NotBegun'
      BY <1>2, <1>4 DEF DeclInv, NotBegun
    <2>2. QED
      BY <1>2, <1>3, <1>4, <2>1 DEF DeclInv
  <1>5. CASE reordering
    <2>1. TraversalInv /\ GraphOfUses /\ DeclaredSoFar
      BY <1>5 DEF DeclInv
    <2>2. TraversalTypes' /\ ListedOnce' /\ UsesListed' /\ GraphOK(graph)'
      BY <1>2, <2>1 DEF TraversalInv, TraversalTypes, ListedOnce, UsesListed, Listed
    <2>3. DiscoveredWait' /\ ReachedFromRoot'
      BY <1>2, <2>1 DEF TraversalInv, DiscoveredWait, WaitsAt, ReachedFromRoot
    <2>4. AllCovered' /\ RootsInOrder' /\ Justified'
      BY <1>2, <2>1 DEF TraversalInv, AllCovered, RootsInOrder, Justified, Listed
    <2>5. GraphOfUses'
      BY <1>1, <1>2, <2>1, GraphOfUsesStays
    <2>6. DeclaredSoFar'
      <3>1. Ordered' = Ordered
        BY <1>2 DEF Ordered
      <3>2. \A m : DeclaredFrom(m)' = DeclaredFrom(m)
        BY <1>2 DEF DeclaredFrom
      <3>3. QED
        BY <1>2, <2>1, <3>1, <3>2 DEF DeclaredSoFar
    <2>7. QED
      BY <1>2, <1>3, <1>5, <2>2, <2>3, <2>4, <2>5, <2>6 DEF DeclInv, TraversalInv
  <1>6. QED
    BY <1>4, <1>5

LEMMA NextDecl == DeclInv /\ [DeclNext]_<<vars, declVars>> => DeclInv'
  <1> SUFFICES ASSUME DeclInv, [DeclNext]_<<vars, declVars>> PROVE DeclInv'
    OBVIOUS
  <1>1. (StartTraversal \/ Discover \/ Include) => reordering
    <2>1. ~reordering => stack = <<>>
      BY DEF DeclInv, NotBegun
    <2>2. QED
      BY <2>1 DEF StartTraversal, Discover, Include
  <1>2. QED
    BY <1>1, TranslateStep, ComputeGraphKeepsInv, TraversalKeepsInv, TranslateDeclGroupStep,
       StutterKeepsInv DEF DeclNext, DeclInv

-----------------------------------------------------------------------------
(* What the invariant says of the list *)

\* Where an item is listed: with its group, in one place.
LEMMA PositionFacts ==
    ASSUME TraversalInv, NEW k \in DOMAIN ordered_decls, NEW i \in ToSet(ordered_decls[k])
    PROVE  i \in graph.node /\ graph.group[i] = ordered_decls[k] /\ PositionOf(i) = k
  <1>1. GraphOK(graph) /\ \A l \in DOMAIN ordered_decls : ordered_decls[l] \in GroupSet(graph)
    BY DEF TraversalInv, TraversalTypes
  <1>2. \A l \in DOMAIN ordered_decls : Contains(ordered_decls[l], i) <=> i \in ToSet(ordered_decls[l])
    <2> SUFFICES ASSUME NEW l \in DOMAIN ordered_decls
                 PROVE  Contains(ordered_decls[l], i) <=> i \in ToSet(ordered_decls[l])
      OBVIOUS
    <2>1. DOMAIN ordered_decls[l] = 1 .. Len(ordered_decls[l])
      BY <1>1, FirstOfGroup
    <2>2. QED
      BY <2>1 DEF Contains, ToSet
  <1>3. \A l \in DOMAIN ordered_decls : i \in ToSet(ordered_decls[l]) =>
           i \in graph.node /\ graph.group[i] = ordered_decls[l]
    BY <1>1, FirstOfGroup
  <1>4. \A l \in DOMAIN ordered_decls : i \in ToSet(ordered_decls[l]) => l = k
    BY <1>3 DEF TraversalInv, ListedOnce
  <1>5. PositionOf(i) = k
    BY <1>2, <1>4 DEF PositionOf
  <1>6. QED
    BY <1>3, <1>5

LEMMA AllListed ==
    ASSUME TraversalInv, Ordered, NEW i \in graph.node
    PROVE  \E k \in DOMAIN ordered_decls : ordered_decls[k] = graph.group[i] /\ i \in ToSet(ordered_decls[k])
  <1>1. graph.group[i] \in GroupSet(graph) /\ i \in ToSet(graph.group[i])
    BY GroupFacts DEF GroupSet, TraversalInv
  <1>2. roots = <<>> /\ stack = <<>> /\ ToSet(<<>>) = {}
    BY DEF Ordered, ToSet
  <1>3. graph.group[i] \in ToSet(ordered_decls)
    BY <1>1, <1>2 DEF TraversalInv, AllCovered
  <1>4. QED
    BY <1>1, <1>3 DEF ToSet

\* Each item has one place, in its group and in the list.
LEMMA OnePlace ==
    ASSUME TraversalInv,
           NEW k \in DOMAIN ordered_decls, NEW l \in DOMAIN ordered_decls,
           NEW m \in DOMAIN ordered_decls[k], NEW n \in DOMAIN ordered_decls[l],
           ordered_decls[k][m] = ordered_decls[l][n]
    PROVE  k = l /\ m = n
  <1> PICK i : i = ordered_decls[k][m]
    OBVIOUS
  <1>1. i \in ToSet(ordered_decls[k]) /\ i \in ToSet(ordered_decls[l])
    BY DEF ToSet
  <1>2. /\ i \in graph.node /\ graph.group[i] = ordered_decls[k] /\ k = l
    BY <1>1, PositionFacts
  <1> PICK g : g = graph.group[i]
    OBVIOUS
  <1>3. /\ g \in Seq(graph.node) /\ \A a, b \in DOMAIN g : a < b => Place[g[a]] < Place[g[b]]
    BY <1>2, GroupFacts DEF TraversalInv
  <1>4. \A a \in DOMAIN g : Place[g[a]] \in Nat
    BY <1>3, PlaceFacts DEF Distinguishes, TraversalInv, GraphOK, NeedsOK
  <1>5. m \in DOMAIN g /\ n \in DOMAIN g /\ g[m] = g[n]
    BY <1>2
  <1>6. ~(m < n) /\ ~(n < m)
    BY <1>3, <1>4, <1>5
  <1>7. m \in Nat /\ n \in Nat
    BY <1>3, <1>5
  <1>8. QED
    BY <1>2, <1>6, <1>7

\* An item's mentions that can be declared are among its uses.
LEMMA MentionsAreUses ==
    ASSUME NEW i \in Items, NEW t \in Mentions(i) \intersect translated, t \in Items, Declarable(t)
    PROVE  t \in Uses(i)
  <1>1. Kind[t] \notin {"trait", "impl"}
    BY ParentAssumption DEF Declarable
  <1>2. t \notin {ParentOf[i]} \ {i}
    BY <1>1, ParentAssumption
  <1>3. QED
    BY <1>2 DEF Uses

LEMMA DeclaredBefore ==
    ASSUME DeclInv, reordering, NEW i \in whyml_decls.items, NEW t \in Mentions(i) \intersect translated,
           Declarable(t)
    PROVE  /\ t \in whyml_decls.items
           /\ PositionOf(t) = PositionOf(i) => IsRec(ordered_decls[PositionOf(i)])
  <1>1. TraversalInv /\ GraphOfUses /\ DeclaredSoFar /\ translated \subseteq Items
    BY DEF DeclInv, IInv, TypeOK
  <1>2. PICK m \in 0 .. declaring : whyml_decls.items = DeclaredFrom(m)
    BY <1>1 DEF DeclaredSoFar
  <1>3. PICK k \in DOMAIN ordered_decls : k <= m /\ i \in ToSet(ordered_decls[k])
    BY <1>2 DEF DeclaredFrom
  <1>4. i \in graph.node /\ graph.group[i] = ordered_decls[k] /\ PositionOf(i) = k
    BY <1>1, <1>3, PositionFacts
  <1>5. /\ GraphOK(graph) /\ graph.node \subseteq Items
        /\ \A x \in graph.node : \A y : <<x, y>> \in graph.edge => y \in graph.needs[x]
        /\ graph.needs \in [graph.node -> SUBSET graph.node]
    BY <1>1 DEF TraversalInv, GraphOK, NeedsOK
  <1>6. <<i, t>> \in graph.edge /\ t \in graph.node
    <2>1. t \in Uses(i)
      BY <1>1, <1>4, <1>5, MentionsAreUses
    <2>2. <<i, t>> \in graph.edge
      BY <1>1, <1>4, <2>1 DEF GraphOfUses
    <2>3. QED
      BY <1>4, <1>5, <2>2
  <1>7. /\ graph.group[t] \in GroupSet(graph) /\ t \in ToSet(graph.group[t])
        /\ Adjacent(graph, ordered_decls[k], graph.group[t])
    BY <1>3, <1>5, <1>6, GroupFacts DEF GroupSet, Adjacent
  <1>8. CASE graph.group[t] = ordered_decls[k]
    <2>1. t \in ToSet(ordered_decls[k])
      BY <1>7, <1>8
    <2>2. t \in whyml_decls.items
      BY <1>2, <1>3, <1>6, <2>1 DEF DeclaredFrom
    <2>3. IsRec(ordered_decls[k])
      <3> PICK g : g = ordered_decls[k]
        OBVIOUS
      <3>1. g \in Seq(graph.node) /\ Len(g) \in Nat \ {0} /\ DOMAIN g = 1 .. Len(g)
        BY <1>4, <1>5, FirstOfGroup DEF GroupSet
      <3>2. PICK a \in DOMAIN g, b \in DOMAIN g : g[a] = i /\ g[b] = t
        BY <1>3, <2>1 DEF ToSet
      <3>3. CASE Len(g) > 1
        BY <3>3 DEF IsRec
      <3>4. CASE ~(Len(g) > 1)
        <4>1. a = 1 /\ b = 1
          BY <3>1, <3>2, <3>4
        <4>2. i = t /\ g[1] = i
          BY <3>2, <4>1
        <4>3. Kind[i] # "trait"
          BY <4>2 DEF Declarable
        <4>4. QED
          BY <1>6, <4>2, <4>3 DEF IsRec
      <3>5. QED
        BY <3>3, <3>4
    <2>4. QED
      BY <1>4, <2>2, <2>3
  <1>9. CASE graph.group[t] # ordered_decls[k]
    <2>1. Listed(k, graph.group[t])
      BY <1>1, <1>7, <1>9 DEF TraversalInv, UsesListed
    <2>2. PICK l \in DOMAIN ordered_decls : l < k /\ ordered_decls[l] = graph.group[t]
      BY <2>1 DEF Listed
    <2>3. l <= m
      <3>1. l \in Nat /\ k \in Nat /\ m \in Nat
        BY <1>1 DEF TraversalInv, TraversalTypes, DeclaredSoFar
      <3>2. QED
        BY <1>3, <2>2, <3>1
    <2>4. t \in whyml_decls.items
      BY <1>2, <1>6, <1>7, <2>2, <2>3 DEF DeclaredFrom
    <2>5. PositionOf(t) = l
      BY <1>1, <1>7, <2>2, PositionFacts
    <2>6. l # k
      BY <1>9, <2>2
    <2>7. QED
      BY <1>4, <2>4, <2>5, <2>6
  <1>10. QED
    BY <1>8, <1>9

LEMMA InvDeclaresBeforeUse == DeclInv => DeclaredBeforeUse
  <1> SUFFICES ASSUME DeclInv PROVE DeclaredBeforeUse
    OBVIOUS
  <1>1. ASSUME NEW i \in whyml_decls.items, NEW t \in Mentions(i) \intersect translated, Declarable(t)
        PROVE  /\ t \in whyml_decls.items
               /\ PositionOf(t) = PositionOf(i) => IsRec(ordered_decls[PositionOf(i)])
    <2>1. reordering
      BY DEF DeclInv, NotBegun
    <2>2. QED
      BY <1>1, <2>1, DeclaredBefore
  <1>2. ASSUME Ordered
        PROVE  /\ UNION {ToSet(ordered_decls[k]) : k \in DOMAIN ordered_decls} = graph.node
               /\ \A k, l \in DOMAIN ordered_decls :
                     \A m \in DOMAIN ordered_decls[k], n \in DOMAIN ordered_decls[l] :
                         ordered_decls[k][m] = ordered_decls[l][n] => k = l /\ m = n
    <2>1. TraversalInv
      BY <1>2 DEF DeclInv, Ordered
    <2>2. \A k \in DOMAIN ordered_decls : ToSet(ordered_decls[k]) \subseteq graph.node
      BY <2>1, PositionFacts
    <2>3. \A i \in graph.node : \E k \in DOMAIN ordered_decls : i \in ToSet(ordered_decls[k])
      BY <1>2, <2>1, AllListed
    <2>4. UNION {ToSet(ordered_decls[k]) : k \in DOMAIN ordered_decls} = graph.node
      BY <2>2, <2>3
    <2>5. QED
      BY <2>1, <2>4, OnePlace
  <1>3. QED
    BY <1>1, <1>2 DEF DeclaredBeforeUse

\* Two items that are a group need each other directly: what the one reaches
\* without the other does not lead back.
LEMMA PairHasEdge ==
    ASSUME NEW G, GraphOK(G), NEW i \in G.node, NEW j \in G.node, i # j,
           G.group[i] = G.group[j], ToSet(G.group[i]) \subseteq {i, j}
    PROVE  <<i, j>> \in G.edge
  <1> SUFFICES ASSUME <<i, j>> \notin G.edge PROVE FALSE
    OBVIOUS
  <1>1. /\ G.needs \in [G.node -> SUBSET G.node]
        /\ \A x \in G.node : \A t : <<x, t>> \in G.edge => t \in G.needs[x]
        /\ \A x \in G.node : \A y \in G.needs[x] : G.needs[y] \subseteq G.needs[x]
    BY DEF GraphOK, NeedsOK
  <1>2. ToSet(G.group[i]) = Mutual(G, i) /\ j \in ToSet(G.group[i])
    BY GroupFacts
  <1>3. j \in G.needs[i] /\ i \in G.needs[j]
    BY <1>2 DEF Mutual
  <1> PICK S : S = {i} \union {x \in G.needs[i] : x # j /\ j \notin G.needs[x]}
    OBVIOUS
  <1>4. ASSUME NEW x \in G.needs[i], x # i, x # j PROVE j \notin G.needs[x]
    <2> SUFFICES ASSUME j \in G.needs[x] PROVE FALSE
      OBVIOUS
    <2>1. x \in G.node /\ i \in G.needs[x]
      BY <1>1, <1>3
    <2>2. x \in Mutual(G, i)
      BY <2>1 DEF Mutual
    <2>3. QED
      BY <1>2, <1>4, <2>2
  <1>5. ASSUME NEW t, <<i, t>> \in G.edge PROVE t \in S
    <2>1. t \in G.needs[i] /\ t # j
      BY <1>1, <1>5
    <2>2. QED
      BY <1>4, <2>1
  <1>6. ASSUME NEW x \in S, NEW t, <<x, t>> \in G.edge PROVE t \in S
    <2>1. CASE x = i
      BY <1>5, <1>6, <2>1
    <2>2. CASE x # i
      <3>1. x \in G.needs[i] /\ x \in G.node /\ j \notin G.needs[x]
        BY <1>1, <2>2
      <3>2. t \in G.needs[x] /\ t \in G.needs[i] /\ t # j
        BY <1>1, <1>6, <3>1
      <3>3. QED
        BY <1>4, <3>2
    <2>3. QED
      BY <2>1, <2>2
  <1>7. S \in SUBSET G.node
    BY <1>1
  <1>8. G.needs[i] \subseteq S
    BY <1>5, <1>6, <1>7 DEF GraphOK, NeedsOK
  <1>9. QED
    BY <1>3, <1>8

\* A method and what it is in do not use each other both directly.
LEMMA NotBothWays ==
    ASSUME DeclInv, reordering, NEW i \in graph.node, NEW p \in graph.node, p = ParentOf[i], p # i
    PROVE  <<i, p>> \notin graph.edge \/ <<p, i>> \notin graph.edge
  <1>1. GraphOfUses /\ program \in Programs /\ i \in Items /\ p \in Items
    BY DEF DeclInv, IInv, TypeOK, GraphOfUses
  <1>2. /\ Kind[i] \notin {"trait", "impl"} /\ Kind[p] \in {"trait", "impl"}
    BY <1>1, ParentAssumption
  <1>3. CASE Kind[i] = "fun" /\ Kind[p] = "trait"
    <2>1. i \notin Mentions(p)
      <3>1. \A k \in DOMAIN program.steps[p] :
               /\ program.steps[p][k].op = "enqueue" => program.steps[p][k].item # i
               /\ program.steps[p][k].op \in {"need", "reuse"} => program.steps[p][k].needs # i
        BY <1>1, <1>3, ParentAssumption
      <3>2. QED
        BY <3>1 DEF Mentions, ElementsOf
    <2>2. i \notin Uses(p)
      BY <1>3, <2>1 DEF Uses
    <2>3. QED
      BY <1>1, <2>2 DEF GraphOfUses
  <1>4. CASE ~(Kind[i] = "fun" /\ Kind[p] = "trait")
    <2>1. p \notin MethodsOf(i)
      <3>1. \A k \in DOMAIN program.steps[i] :
               program.steps[i][k].op \in {"implement", "reuse"} => Kind[program.steps[i][k].item] = "fun"
        BY <1>1, ParentAssumption
      <3>2. QED
        BY <1>2, <3>1 DEF MethodsOf, ElementsOf
    <2>2. p \notin Uses(i)
      BY <1>2, <1>4, <2>1 DEF Uses
    <2>3. QED
      BY <1>1, <2>2 DEF GraphOfUses
  <1>5. QED
    BY <1>3, <1>4

LEMMA InvKeepsMethodsApart == DeclInv => MethodsApartFromImpl
  <1> SUFFICES ASSUME DeclInv, Ordered, NEW i \in graph.node, NEW p \in graph.node,
                      p = ParentOf[i], p # i, PositionOf(p) = PositionOf(i)
               PROVE  \E j \in graph.node \ {p, i} : PositionOf(j) = PositionOf(i)
    BY DEF MethodsApartFromImpl
  <1>1. TraversalInv /\ reordering /\ GraphOK(graph)
    BY DEF DeclInv, Ordered, TraversalInv
  <1>2. PICK k \in DOMAIN ordered_decls : ordered_decls[k] = graph.group[i] /\ i \in ToSet(ordered_decls[k])
    BY <1>1, AllListed
  <1>3. PICK l \in DOMAIN ordered_decls : ordered_decls[l] = graph.group[p] /\ p \in ToSet(ordered_decls[l])
    BY <1>1, AllListed
  <1>4. graph.group[p] = graph.group[i]
    <2>1. PositionOf(i) = k /\ PositionOf(p) = l
      BY <1>1, <1>2, <1>3, PositionFacts
    <2>2. QED
      BY <1>2, <1>3, <2>1
  <1>5. PICK j \in ToSet(graph.group[i]) : j \notin {i, p}
    <2> SUFFICES ASSUME ToSet(graph.group[i]) \subseteq {i, p} PROVE FALSE
      OBVIOUS
    <2>1. <<i, p>> \in graph.edge
      BY <1>1, <1>4, PairHasEdge
    <2>2. <<p, i>> \in graph.edge
      <3>1. ToSet(graph.group[p]) \subseteq {p, i}
        BY <1>4
      <3>2. QED
        BY <1>1, <1>4, <3>1, PairHasEdge
    <2>3. QED
      BY <1>1, <2>1, <2>2, NotBothWays
  <1>6. j \in graph.node /\ PositionOf(j) = k /\ PositionOf(i) = k
    BY <1>1, <1>2, <1>5, PositionFacts
  <1>7. QED
    BY <1>5, <1>6

LEMMA InvReordersByNeed == DeclInv => NoNeedlessReordering
  <1> SUFFICES ASSUME DeclInv, Ordered,
                      NEW k \in DOMAIN ordered_decls, NEW l \in DOMAIN ordered_decls,
                      NEW m \in DOMAIN ordered_decls[k], NEW n \in DOMAIN ordered_decls[l],
                      k < l \/ (k = l /\ m < n), Place[ordered_decls[l][n]] < Place[ordered_decls[k][m]]
               PROVE  \E z \in graph.node : /\ Place[z] <= Place[ordered_decls[l][n]]
                                            /\ ordered_decls[k][m] \in graph.needs[z]
    BY DEF NoNeedlessReordering
  <1> PICK x, y : x = ordered_decls[k][m] /\ y = ordered_decls[l][n]
    OBVIOUS
  <1>1. TraversalInv /\ GraphOK(graph)
    BY DEF DeclInv, Ordered, TraversalInv
  <1>2. x \in ToSet(ordered_decls[k]) /\ y \in ToSet(ordered_decls[l])
    BY DEF ToSet
  <1>3. /\ x \in graph.node /\ graph.group[x] = ordered_decls[k]
        /\ y \in graph.node /\ graph.group[y] = ordered_decls[l]
    BY <1>1, <1>2, PositionFacts
  <1>4. \A i \in graph.node : Place[i] \in Nat
    BY <1>1, PlaceFacts DEF Distinguishes, GraphOK, NeedsOK
  <1>5. k < l /\ k \in Nat /\ l \in Nat
    <2>1. ASSUME k = l, m < n PROVE FALSE
      <3>1. Place[x] < Place[y]
        BY <1>1, <1>3, <2>1, GroupFacts
      <3>2. QED
        BY <1>3, <1>4, <3>1
    <2>2. QED
      BY <1>1, <2>1 DEF TraversalInv, TraversalTypes
  <1>6. PICK w \in GroupSet(graph) :
           /\ Over(graph, w, ordered_decls[k])
           /\ \A g \in GroupSet(graph) : FirstPlace(g) < FirstPlace(w) => Listed(k, g)
    BY <1>1 DEF TraversalInv, Justified
  <1> PICK z : z = w[1]
    OBVIOUS
  <1>7. z \in graph.node /\ z \in ToSet(w) /\ FirstPlace(w) = Place[z] /\ graph.group[z] = w
    BY <1>1, FirstOfGroup DEF FirstPlace
  <1>8. Place[z] <= Place[y]
    <2> SUFFICES ASSUME Place[y] < Place[z] PROVE FALSE
      BY <1>3, <1>4, <1>7
    <2>1. ordered_decls[l] \in GroupSet(graph)
      BY <1>3 DEF GroupSet
    <2>2. FirstPlace(ordered_decls[l]) <= Place[y] /\ FirstPlace(ordered_decls[l]) \in Nat
      BY <1>1, <1>2, <2>1, FirstOfGroup
    <2>3. FirstPlace(ordered_decls[l]) < FirstPlace(w)
      BY <1>3, <1>4, <1>7, <2>2
    <2>4. PICK j \in DOMAIN ordered_decls : j < k /\ ordered_decls[j] = ordered_decls[l]
      BY <1>6, <2>1, <2>3 DEF Listed
    <2>5. j = l
      BY <1>1, <2>4 DEF TraversalInv, ListedOnce
    <2>6. QED
      BY <1>5, <2>4, <2>5
  <1>9. x \in graph.needs[z]
    <2>1. CASE w = ordered_decls[k]
      <3>1. x # z
        BY <1>3, <1>4, <1>7, <1>8
      <3>2. x \in Mutual(graph, z)
        BY <1>1, <1>2, <1>7, <2>1, GroupFacts
      <3>3. QED
        BY <3>1, <3>2 DEF Mutual
    <2>2. CASE w # ordered_decls[k]
      <3>1. ordered_decls[k] \in GroupSet(graph)
        BY <1>3 DEF GroupSet
      <3>2. QED
        BY <1>1, <1>2, <1>6, <1>7, <2>2, <3>1, OverAll
    <2>3. QED
      BY <2>1, <2>2
  <1>10. QED
    BY <1>7, <1>8, <1>9

-----------------------------------------------------------------------------
(* The theorems *)

\* The ordering of the declarations, and their translation, follow the queue,
\* and leave alone what it has made: the whole program behaves as the queue's.
THEOREM OrderingComesAfter == DeclSpec => Spec
  <1>1. DeclInit => Init
    BY DEF DeclInit
  <1>2. [DeclNext]_<<vars, declVars>> => [Next]_vars
    BY DEF DeclNext, Translate, ComputeGraph, StartTraversal, Discover, Include, TranslateDeclGroup
  <1>3. QED
    BY <1>1, <1>2, PTL DEF DeclSpec, Spec

THEOREM DeclInductive == DeclSpec => []DeclInv
  BY InitDecl, NextDecl, PTL DEF DeclSpec

\* Nothing is declared ahead of what it mentions, in any crate: the groups of
\* the graph, that leaves out edges to parents, come in an order in which the
\* translation to WhyML finds everything declared.
THEOREM DeclaresBeforeUse == DeclSpec => []DeclaredBeforeUse
  BY DeclInductive, InvDeclaresBeforeUse, PTL

\* An impl and a method in it are no group on their own account.
THEOREM KeepsMethodsApart == DeclSpec => []MethodsApartFromImpl
  BY DeclInductive, InvKeepsMethodsApart, PTL

\* The order of the source is only left where one as early needs the item.
THEOREM ReordersByNeed == DeclSpec => []NoNeedlessReordering
  BY DeclInductive, InvReordersByNeed, PTL
=============================================================================
