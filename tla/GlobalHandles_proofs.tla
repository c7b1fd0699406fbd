------------------------- MODULE GlobalHandles_proofs -------------------------
(* Proofs about GlobalHandles, for every finite set of nodes.                *)
EXTENDS GlobalHandlesInv, FiniteSetTheorems, FunctionTheorems, WellFoundedInduction, TLAPS

---------------------------------------------------------------------------
(* Lists.                                                                   *)

\* A set of numbers has a least one.
LEMMA LeastNumber ==
  ASSUME NEW B, B \subseteq Nat, B # {}
  PROVE  \E k \in B : \A j \in B : k <= j
<1> DEFINE T == {0 .. k : k \in B}
<1>1. \A k \in B : 0 .. k \in FiniteSubsetsOf(Nat)
  BY FS_Interval DEF FiniteSubsetsOf
<1>2. T \subseteq FiniteSubsetsOf(Nat) /\ T # {}
  BY <1>1
<1>3. PICK x \in T : \A y \in T : ~(<<y, x>> \in StrictSubsetOrdering(Nat))
  BY <1>2, FS_StrictSubsetOrderingWellFounded, WFMin
<1>4. PICK k \in B : x = 0 .. k
  OBVIOUS
<1>5. ASSUME NEW j \in B, j < k PROVE FALSE
  <2>1. 0 .. j \subseteq 0 .. k /\ 0 .. j # 0 .. k /\ 0 .. j \in T
    <3>1. j \in Nat /\ k \in Nat
      OBVIOUS
    <3>2. k \in 0 .. k /\ k \notin 0 .. j
      BY <1>5, <3>1
    <3>3. \A m \in 0 .. j : m \in 0 .. k
      BY <1>5, <3>1
    <3> QED
      BY <3>2, <3>3
  <2>2. 0 .. j \in SUBSET Nat /\ 0 .. k \in SUBSET Nat
    OBVIOUS
  <2>3. <<0 .. j, 0 .. k>> \in StrictSubsetOrdering(Nat)
    BY <2>1, <2>2 DEF StrictSubsetOrdering
  <2> QED
    BY <1>3, <1>4, <2>1, <2>3
<1> QED
  BY <1>5

\* How long a list of different nodes can be.
LEMMA ListFits ==
  ASSUME NEW len \in Nat, NEW L \in [1 .. len -> Node], \A j, k \in 1 .. len : L[j] = L[k] => j = k
  PROVE  len <= Cardinality(Node) /\ Cardinality(Node) \in Nat
<1>1. IsFiniteSet(Node)
  BY NodeAssumption
<1>2. L \in Injection(1 .. len, Node)
  BY DEF Injection, IsInjective
<1>3. Cardinality(1 .. len) = len
  BY FS_Interval
<1> QED
  BY <1>1, <1>2, <1>3, FS_Injection, FS_CardinalityType

\* Following a list gives its nodes in order.
LEMMA FollowList ==
  ASSUME NEW first, NEW link, NEW len \in Nat, NEW L, IsList(first, link, len, L)
  PROVE  /\ DOMAIN Follow(first, link) = 0 .. Cardinality(Node)
         /\ \A k \in 0 .. Cardinality(Node) : Follow(first, link)[k] = NodeAt(L, len, k + 1)
<1> DEFINE N == Cardinality(Node)
           Step(f) == [k \in 0 .. N |->
             IF k = 0 THEN first ELSE IF f[k - 1] = NULL THEN NULL ELSE link[f[k - 1]]]
           g == [k \in 0 .. N |-> NodeAt(L, len, k + 1)]
           met == CHOOSE f : f = Step(f)
<1>1. N \in Nat /\ len <= N
  BY ListFits DEF IsList
<1>2. Follow(first, link) = met
  BY DEF Follow
<1>3. \A n \in Node : n # NULL
  BY NodeAssumption
<1>4. ASSUME NEW k \in 1 .. N
      PROVE  NodeAt(L, len, k + 1)
               = IF NodeAt(L, len, k) = NULL THEN NULL ELSE link[NodeAt(L, len, k)]
  <2>1. CASE k \in 1 .. len
    <3>1. NodeAt(L, len, k) = L[k] /\ L[k] # NULL
      BY <1>3, <2>1 DEF NodeAt, IsList
    <3> QED
      BY <2>1, <3>1 DEF IsList
  <2>2. CASE k \notin 1 .. len
    <3>1. k + 1 \notin 1 .. len
      BY <2>2
    <3> QED
      BY <2>2, <3>1 DEF NodeAt
  <2> QED
    BY <2>1, <2>2
<1>5. g = Step(g)
  <2>1. ASSUME NEW k \in 0 .. N PROVE g[k] = Step(g)[k]
    <3>1. CASE k = 0
      BY <3>1 DEF IsList
    <3>2. CASE k # 0
      <4>1. k \in 1 .. N /\ k - 1 \in 0 .. N /\ (k - 1) + 1 = k
        BY <1>1, <3>2
      <4>2. g[k - 1] = NodeAt(L, len, k)
        BY <4>1
      <4> QED
        BY <1>4, <3>2, <4>1, <4>2
    <3> QED
      BY <3>1, <3>2
  <2> QED
    BY <2>1
<1>6. met = Step(met)
  BY <1>5
<1> HIDE DEF met
<1> DEFINE B == {k \in 0 .. N : met[k] # g[k]}
<1>7. ASSUME B # {} PROVE FALSE
  <2>1. B \subseteq Nat
    BY <1>1
  <2>2. PICK k \in B : \A j \in B : k <= j
    BY <1>7, <2>1, LeastNumber, Zenon
  <2>3. k \in 0 .. N /\ met[k] # g[k] /\ k \in Nat
    BY <2>1, <2>2
  <2>4. k # 0
    BY <1>5, <1>6, <2>3
  <2>5. k - 1 \in 0 .. N /\ ~(k <= k - 1)
    BY <1>1, <2>3, <2>4
  <2>6. met[k - 1] = g[k - 1]
    BY <2>2, <2>5
  <2>7. met[k] = Step(met)[k] /\ g[k] = Step(g)[k]
    BY <1>5, <1>6
  <2> QED
    BY <2>3, <2>4, <2>6, <2>7
<1>8. \A k \in 0 .. N : met[k] = NodeAt(L, len, k + 1)
  <2>1. \A k \in 0 .. N : met[k] = g[k]
    BY <1>7, Zenon
  <2> QED
    BY <2>1
<1>9. DOMAIN met = 0 .. N
  BY <1>6
<1> QED
  BY <1>2, <1>8, <1>9

\* So a list ends, and its nodes are those of the sequence.
LEMMA ListNodes ==
  ASSUME NEW first, NEW link, NEW len \in Nat, NEW L, IsList(first, link, len, L)
  PROVE  /\ Ends(first, link)
         /\ \A n \in Node : n \in NodesOf(first, link) <=> On(n, L, len)
         /\ NodesOf(first, link) \subseteq Node
<1> DEFINE N == Cardinality(Node)
           met == Follow(first, link)
<1>1. N \in Nat /\ len <= N
  BY ListFits DEF IsList
<1>2. \A k \in 0 .. N : met[k] = NodeAt(L, len, k + 1)
  BY FollowList
<1>3. DOMAIN met = 0 .. N
  BY FollowList
<1> HIDE DEF met
<1>4. met[N] = NULL
  <2>1. N + 1 \notin 1 .. len /\ N \in 0 .. N
    BY <1>1
  <2> QED
    BY <1>2, <2>1 DEF NodeAt
<1>5. \A n \in Node : n # NULL
  BY NodeAssumption
<1>6. ASSUME NEW n \in Node PROVE n \in Range(met) <=> On(n, L, len)
  <2>1. ASSUME NEW k \in 1 .. len, L[k] = n PROVE n \in Range(met)
    <3>1. k - 1 \in 0 .. N /\ (k - 1) + 1 = k
      BY <1>1
    <3>2. met[k - 1] = n
      BY <1>2, <2>1, <3>1 DEF NodeAt
    <3> QED
      BY <1>3, <3>1, <3>2 DEF Range
  <2>2. ASSUME NEW k \in 0 .. N, met[k] = n PROVE On(n, L, len)
    <3>1. NodeAt(L, len, k + 1) = n /\ n # NULL
      BY <1>2, <1>5, <2>2
    <3> QED
      BY <3>1 DEF NodeAt, On
  <2> QED
    BY <1>3, <2>1, <2>2 DEF Range, On
<1>7. ASSUME NEW n \in Range(met), n # NULL PROVE n \in Node
  <2>1. PICK k \in 0 .. N : met[k] = n
    BY <1>3 DEF Range
  <2>2. n = NodeAt(L, len, k + 1)
    BY <1>2, <2>1
  <2> QED
    BY <1>7, <2>2 DEF NodeAt, IsList
<1> QED
  BY <1>4, <1>5, <1>6, <1>7 DEF Ends, NodesOf, met

\* Links that are not those of its nodes do not matter to a list.
LEMMA ListKept ==
  ASSUME NEW first, NEW link, NEW link2, NEW len \in Nat, NEW L, IsList(first, link, len, L),
         \A k \in 1 .. len : link2[L[k]] = link[L[k]]
  PROVE  IsList(first, link2, len, L)
BY DEF IsList

\* The sequences of nodes that operations on a list lead to.
Prepended(n, len, L) == [k \in 1 .. len + 1 |-> IF k = 1 THEN n ELSE L[k - 1]]
Rest(len, L) == [k \in 1 .. len - 1 |-> L[k + 1]]
Without(p, len, L) == [k \in 1 .. len - 1 |-> IF k <= p THEN L[k] ELSE L[k + 1]]

\* A node before the first.
LEMMA ListPrepended ==
  ASSUME NEW first, NEW link, NEW link2, NEW len \in Nat, NEW L, IsList(first, link, len, L),
         NEW n \in Node, ~On(n, L, len), link2[n] = first,
         \A k \in 1 .. len : link2[L[k]] = link[L[k]]
  PROVE  /\ IsList(n, link2, len + 1, Prepended(n, len, L))
         /\ \A m : On(m, Prepended(n, len, L), len + 1) <=> m = n \/ On(m, L, len)
<1> SUFFICES ASSUME NEW M, M = Prepended(n, len, L)
             PROVE  IsList(n, link2, len + 1, M) /\ \A m : On(m, M, len + 1) <=> m = n \/ On(m, L, len)
  OBVIOUS
<1>1. /\ L \in [1 .. len -> Node] /\ \A j, k \in 1 .. len : L[j] = L[k] => j = k
      /\ first = NodeAt(L, len, 1) /\ \A k \in 1 .. len : link2[L[k]] = NodeAt(L, len, k + 1)
  BY DEF IsList
<1>2. \A k \in 2 .. len + 1 : k - 1 \in 1 .. len /\ k # 1 /\ k \in 1 .. len + 1 /\ k = (k - 1) + 1
  OBVIOUS
<1>3. /\ \A k \in 1 .. len : k + 1 \in 2 .. len + 1 /\ (k + 1) - 1 = k
      /\ \A k \in 1 .. len + 1 : k = 1 \/ k \in 2 .. len + 1
      /\ 1 \in 1 .. len + 1
  OBVIOUS
<1>4. M[1] = n /\ \A k \in 2 .. len + 1 : M[k] = L[k - 1]
  BY <1>2, <1>3 DEF Prepended
<1>5. M \in [1 .. len + 1 -> Node]
  <2>1. \A k \in 1 .. len + 1 : M[k] \in Node
    BY <1>1, <1>2, <1>3, <1>4
  <2> QED
    BY <2>1 DEF Prepended
<1>6. ASSUME NEW j \in 1 .. len + 1, NEW k \in 1 .. len + 1, M[j] = M[k] PROVE j = k
  <2>1. CASE j = 1 /\ k = 1
    BY <2>1
  <2>2. CASE j = 1 /\ k \in 2 .. len + 1
    BY <1>2, <1>4, <1>6, <2>2 DEF On
  <2>3. CASE k = 1 /\ j \in 2 .. len + 1
    BY <1>2, <1>4, <1>6, <2>3 DEF On
  <2>4. CASE j \in 2 .. len + 1 /\ k \in 2 .. len + 1
    <3>1. j - 1 = k - 1
      BY <1>1, <1>2, <1>4, <1>6, <2>4
    <3> QED
      BY <1>2, <2>4, <3>1
  <2> QED
    BY <1>3, <2>1, <2>2, <2>3, <2>4
<1>7. \A k \in 1 .. len : NodeAt(M, len + 1, k + 1) = NodeAt(L, len, k)
  BY <1>3, <1>4 DEF NodeAt
<1>8. NodeAt(M, len + 1, len + 2) = NULL /\ NodeAt(L, len, len + 1) = NULL
  <2>1. len + 2 \notin 1 .. len + 1 /\ len + 1 \notin 1 .. len
    OBVIOUS
  <2> QED
    BY <2>1 DEF NodeAt
<1>9. NodeAt(M, len + 1, 1) = n
  BY <1>3, <1>4 DEF NodeAt
<1>10. ASSUME NEW k \in 1 .. len + 1 PROVE link2[M[k]] = NodeAt(M, len + 1, k + 1)
  <2>1. NodeAt(M, len + 1, k + 1) = NodeAt(L, len, k)
    <3>1. k \in 1 .. len \/ (k = len + 1 /\ k + 1 = len + 2)
      OBVIOUS
    <3> QED
      BY <1>7, <1>8, <3>1
  <2>2. CASE k = 1
    BY <1>1, <1>4, <2>1, <2>2
  <2>3. CASE k \in 2 .. len + 1
    BY <1>1, <1>2, <1>4, <2>1, <2>3
  <2> QED
    BY <1>3, <2>2, <2>3
<1>11. \A m : On(m, M, len + 1) <=> m = n \/ On(m, L, len)
  <2> SUFFICES ASSUME NEW m PROVE On(m, M, len + 1) <=> m = n \/ On(m, L, len)
    OBVIOUS
  <2>1. ASSUME NEW k \in 1 .. len + 1, M[k] = m PROVE m = n \/ On(m, L, len)
    BY <1>2, <1>3, <1>4, <2>1 DEF On
  <2>2. ASSUME NEW k \in 1 .. len, L[k] = m PROVE On(m, M, len + 1)
    <3>1. M[k + 1] = m /\ k + 1 \in 1 .. len + 1
      BY <1>2, <1>3, <1>4, <2>2
    <3> QED
      BY <3>1 DEF On
  <2>3. On(n, M, len + 1)
    BY <1>3, <1>4 DEF On
  <2> QED
    BY <2>1, <2>2, <2>3 DEF On
<1> QED
  BY <1>5, <1>6, <1>9, <1>10, <1>11 DEF IsList

\* The same when the node is linked to the first already.
LEMMA ListLinked ==
  ASSUME NEW first, NEW link, NEW len \in Nat, NEW L, IsList(first, link, len, L),
         NEW n \in Node, ~On(n, L, len), link[n] = first
  PROVE  /\ IsList(n, link, len + 1, Prepended(n, len, L))
         /\ \A m : On(m, Prepended(n, len, L), len + 1) <=> m = n \/ On(m, L, len)
BY ListPrepended

\* Taking the node at position p + 1 out.
LEMMA ListWithout ==
  ASSUME NEW first, NEW link, NEW first2, NEW link2, NEW len \in Nat, NEW L,
         IsList(first, link, len, L), NEW p \in 0 .. len - 1,
         first2 = IF p = 0 THEN link[L[1]] ELSE first,
         \A k \in 1 .. len : k # p /\ k # p + 1 => link2[L[k]] = link[L[k]],
         p # 0 => link2[L[p]] = link[L[p + 1]]
  PROVE  /\ IsList(first2, link2, len - 1, Without(p, len, L)) /\ len - 1 \in Nat
         /\ \A m : On(m, Without(p, len, L), len - 1) <=> m # L[p + 1] /\ On(m, L, len)
<1> SUFFICES ASSUME NEW M, M = Without(p, len, L), NEW l, l = len - 1
             PROVE  /\ IsList(first2, link2, l, M) /\ l \in Nat
                    /\ \A m : On(m, M, l) <=> m # L[p + 1] /\ On(m, L, len)
  OBVIOUS
<1>1. /\ L \in [1 .. len -> Node] /\ \A j, k \in 1 .. len : L[j] = L[k] => j = k
      /\ first = NodeAt(L, len, 1) /\ \A k \in 1 .. len : link[L[k]] = NodeAt(L, len, k + 1)
  BY DEF IsList
<1>2. l \in Nat /\ len = l + 1 /\ p \in Nat /\ p <= l /\ p + 1 \in 1 .. len
  OBVIOUS
<1>3. \A k \in 1 .. l : M[k] = IF k <= p THEN L[k] ELSE L[k + 1]
  BY DEF Without
<1>4. \A k \in 1 .. l : k \in 1 .. len /\ k + 1 \in 1 .. len
  BY <1>2
<1>5. M \in [1 .. l -> Node]
  BY <1>1, <1>4 DEF Without
<1>6. ASSUME NEW j \in 1 .. l, NEW k \in 1 .. l, M[j] = M[k] PROVE j = k
  <2>1. CASE j <= p /\ k <= p
    BY <1>1, <1>3, <1>4, <1>6, <2>1
  <2>2. CASE j <= p /\ ~(k <= p)
    <3>1. j = k + 1
      BY <1>1, <1>3, <1>4, <1>6, <2>2
    <3> QED
      BY <1>2, <2>2, <3>1
  <2>3. CASE ~(j <= p) /\ k <= p
    <3>1. j + 1 = k
      BY <1>1, <1>3, <1>4, <1>6, <2>3
    <3> QED
      BY <1>2, <2>3, <3>1
  <2>4. CASE ~(j <= p) /\ ~(k <= p)
    <3>1. j + 1 = k + 1
      BY <1>1, <1>3, <1>4, <1>6, <2>4
    <3> QED
      BY <3>1
  <2> QED
    BY <2>1, <2>2, <2>3, <2>4
<1>7. ASSUME NEW k \in Nat PROVE /\ k <= p => NodeAt(M, l, k) = NodeAt(L, len, k)
                                 /\ k > p => NodeAt(M, l, k) = NodeAt(L, len, k + 1)
  <2>1. CASE k <= p
    <3>1. k \in 1 .. l <=> k \in 1 .. len
      BY <1>2, <2>1
    <3> QED
      BY <1>2, <1>3, <2>1, <3>1 DEF NodeAt
  <2>2. CASE k > p
    <3>1. (k \in 1 .. l <=> k + 1 \in 1 .. len) /\ ~(k <= p)
      BY <1>2, <2>2
    <3> QED
      BY <1>2, <1>3, <2>2, <3>1 DEF NodeAt
  <2> QED
    BY <1>2, <2>1, <2>2
<1>8. first2 = NodeAt(M, l, 1)
  <2>1. CASE p = 0
    <3>1. 1 \in 1 .. len /\ 1 > p
      BY <1>2, <2>1
    <3>2. NodeAt(M, l, 1) = NodeAt(L, len, 1 + 1)
      BY <1>7, <3>1
    <3> QED
      BY <1>1, <2>1, <3>1, <3>2
  <2>2. CASE p # 0
    <3>1. 1 <= p
      BY <1>2, <2>2
    <3> QED
      BY <1>1, <1>7, <2>2, <3>1
  <2> QED
    BY <2>1, <2>2
<1>9. ASSUME NEW k \in 1 .. l PROVE link2[M[k]] = NodeAt(M, l, k + 1)
  <2>1. k \in 1 .. len /\ k + 1 \in 1 .. len
    BY <1>4
  <2>2. CASE k < p
    <3>1. k # p /\ k # p + 1 /\ k <= p /\ k + 1 <= p
      BY <1>2, <2>2
    <3>2. link2[M[k]] = NodeAt(L, len, k + 1)
      BY <1>1, <1>3, <2>1, <3>1
    <3> QED
      BY <1>7, <3>1, <3>2
  <2>3. CASE k = p
    <3>1. p # 0 /\ k <= p /\ k + 1 > p /\ p + 1 \in 1 .. len
      BY <1>2, <2>3
    <3>2. link2[M[k]] = NodeAt(L, len, (k + 1) + 1)
      BY <1>1, <1>3, <2>3, <3>1
    <3> QED
      BY <1>7, <3>1, <3>2
  <2>4. CASE k > p
    <3>1. k + 1 # p /\ k + 1 # p + 1 /\ ~(k <= p) /\ k + 1 > p
      BY <1>2, <2>4
    <3>2. link2[M[k]] = NodeAt(L, len, (k + 1) + 1)
      BY <1>1, <1>3, <2>1, <3>1
    <3> QED
      BY <1>7, <3>1, <3>2
  <2> QED
    BY <1>2, <2>2, <2>3, <2>4
<1>10. ASSUME NEW m PROVE On(m, M, l) <=> m # L[p + 1] /\ On(m, L, len)
  <2>1. ASSUME NEW k \in 1 .. l, M[k] = m PROVE m # L[p + 1] /\ On(m, L, len)
    <3>1. CASE k <= p
      <4>1. L[k] = m /\ k # p + 1 /\ k \in 1 .. len
        BY <1>2, <1>3, <1>4, <2>1, <3>1
      <4> QED
        BY <1>1, <1>2, <4>1 DEF On
    <3>2. CASE ~(k <= p)
      <4>1. L[k + 1] = m /\ k + 1 # p + 1 /\ k + 1 \in 1 .. len
        BY <1>2, <1>3, <1>4, <2>1, <3>2
      <4> QED
        BY <1>1, <1>2, <4>1 DEF On
    <3> QED
      BY <3>1, <3>2
  <2>2. ASSUME NEW k \in 1 .. len, L[k] = m, m # L[p + 1] PROVE On(m, M, l)
    <3>1. k # p + 1
      BY <2>2
    <3>2. CASE k <= p
      <4>1. k \in 1 .. l
        BY <1>2, <3>2
      <4> QED
        BY <1>3, <2>2, <3>2, <4>1 DEF On
    <3>3. CASE ~(k <= p)
      <4>1. k - 1 \in 1 .. l /\ ~(k - 1 <= p) /\ (k - 1) + 1 = k
        BY <1>2, <3>1, <3>3
      <4>2. M[k - 1] = m
        BY <1>3, <2>2, <4>1
      <4> QED
        BY <4>1, <4>2 DEF On
    <3> QED
      BY <3>2, <3>3
  <2> QED
    BY <2>1, <2>2 DEF On
<1> QED
  BY <1>2, <1>5, <1>6, <1>8, <1>9, <1>10 DEF IsList

\* Taking the first node.
LEMMA ListRest ==
  ASSUME NEW first, NEW link, NEW len \in Nat, NEW L, IsList(first, link, len, L), first # NULL
  PROVE  /\ len \in Nat \ {0} /\ first = L[1] /\ first \in Node /\ len - 1 \in Nat
         /\ IsList(link[first], link, len - 1, Without(0, len, L))
         /\ \A m : On(m, Without(0, len, L), len - 1) <=> m # first /\ On(m, L, len)
<1>1. first = NodeAt(L, len, 1) /\ L \in [1 .. len -> Node]
  BY DEF IsList
<1>2. 1 \in 1 .. len /\ first = L[1]
  BY <1>1 DEF NodeAt
<1>3. len \in Nat \ {0} /\ 0 \in 0 .. len - 1
  BY <1>2
<1>4. \A f2 : f2 = link[first] =>
        /\ IsList(f2, link, len - 1, Without(0, len, L)) /\ len - 1 \in Nat
        /\ \A m : On(m, Without(0, len, L), len - 1) <=> m # L[0 + 1] /\ On(m, L, len)
  BY <1>2, <1>3, ListWithout
<1> QED
  BY <1>1, <1>2, <1>3, <1>4

---------------------------------------------------------------------------
(* What the invariant says of the nodes.                                     *)

\* The witnesses of ListInv, in one piece.
Lists(len, L, dlen, D) ==
  /\ len \in Nat /\ dlen \in Nat /\ L \in [1 .. len -> Node] /\ D \in [1 .. dlen -> Node]
  /\ AllInv(len, L, dlen, D) /\ (MayCallApi => ReuseInv(len, L)) /\ WalkInv(len, L)

\* They are there, and lead back to it.
LEMMA ListInvParts ==
  /\ ListInv => \E len, L, dlen, D : Lists(len, L, dlen, D)
  /\ \A len, L, dlen, D : Lists(len, L, dlen, D)' => ListInv'
BY DEF ListInv, Lists

\* Nodes in use are on the list of all nodes only; NULL is no node.
LEMMA Nodes ==
  ASSUME NEW len, NEW L, NEW dlen, NEW D, Lists(len, L, dlen, D)
  PROVE  /\ IsList(head, next, len, L) /\ len \in Nat /\ L \in [1 .. len -> Node]
         /\ IsList(first_deallocated, next_free, dlen, D) /\ dlen \in Nat /\ D \in [1 .. dlen -> Node]
         /\ \A n \in Node : n # NULL
         /\ \A n \in Node : state[n] \notin {"POOL", "DESTROYED"} => On(n, L, len) /\ ~On(n, D, dlen)
         /\ \A n \in Node : On(n, L, len) => ~On(n, D, dlen) /\ state[n] # "POOL"
         /\ \A n \in Node : On(n, D, dlen) => state[n] = "DESTROYED"
         /\ \A n \in Node : state[n] = "POOL" => ~On(n, L, len) /\ ~On(n, D, dlen)
         /\ \A j, k \in 1 .. dlen : D[j] = D[k] => j = k
         /\ first_deallocated # NULL => /\ dlen \in Nat \ {0} /\ first_deallocated = D[1]
                                        /\ On(first_deallocated, D, dlen)
         /\ first_deallocated = NULL => dlen = 0
         /\ \A k \in 1 .. dlen : On(D[k], D, dlen)
         /\ \A k \in 1 .. len : On(L[k], L, len) /\ L[k] # first_deallocated
<1>1. AllInv(len, L, dlen, D) /\ len \in Nat /\ dlen \in Nat
  BY DEF Lists
<1>2. IsList(head, next, len, L) /\ IsList(first_deallocated, next_free, dlen, D)
  BY <1>1 DEF AllInv
<1>3. L \in [1 .. len -> Node] /\ D \in [1 .. dlen -> Node] /\ \A n \in Node : n # NULL
  BY NodeAssumption DEF Lists
<1>4. /\ \A n \in Node : On(n, L, len) => ~On(n, D, dlen)
      /\ \A n \in Node : state[n] = "POOL" <=> ~On(n, L, len) /\ ~On(n, D, dlen)
      /\ \A n \in Node : On(n, D, dlen) => state[n] = "DESTROYED"
  BY <1>1 DEF AllInv, On
<1>5. /\ first_deallocated # NULL => dlen \in Nat \ {0} /\ first_deallocated = D[1] /\ 1 \in 1 .. dlen
      /\ first_deallocated = NULL => dlen = 0
  <2>1. first_deallocated = NodeAt(D, dlen, 1)
    BY <1>2 DEF IsList
  <2>2. CASE 1 \in 1 .. dlen
    <3>1. first_deallocated = D[1] /\ D[1] # NULL /\ dlen \in Nat \ {0}
      BY <1>1, <1>3, <2>1, <2>2 DEF NodeAt
    <3> QED
      BY <2>2, <3>1
  <2>3. CASE 1 \notin 1 .. dlen
    <3>1. first_deallocated = NULL /\ dlen = 0
      BY <1>1, <2>1, <2>3 DEF NodeAt
    <3> QED
      BY <3>1
  <2> QED
    BY <2>2, <2>3
<1>6. (\A k \in 1 .. dlen : On(D[k], D, dlen)) /\ \A k \in 1 .. len : On(L[k], L, len)
  BY DEF On
<1>7. \A k \in 1 .. len : L[k] # first_deallocated
  BY <1>3, <1>4, <1>5, <1>6
<1>8. \A j, k \in 1 .. dlen : D[j] = D[k] => j = k
  BY <1>2 DEF IsList
<1> QED
  BY <1>1, <1>2, <1>3, <1>4, <1>5, <1>6, <1>7, <1>8

\* The lists do not change, nor who is on them, when states change only among
\* those of nodes in use.
LEMMA ListsKept ==
  ASSUME NEW len, NEW L, NEW dlen, NEW D, Lists(len, L, dlen, D),
         UNCHANGED <<head, next, next_free, first_deallocated>>,
         \A n \in Node : \/ state'[n] = state[n]
                         \/ On(n, L, len) /\ state'[n] # "POOL"
  PROVE  AllInv(len, L, dlen, D)'
<1>1. AllInv(len, L, dlen, D)
  BY DEF Lists
<1>2. \A n \in Node : state'[n] = "POOL" <=> ~On(n, L, len) /\ ~On(n, D, dlen)
  BY <1>1, Nodes DEF AllInv
<1>3. \A k \in 1 .. dlen : state'[D[k]] = "DESTROYED"
  <2>1. \A k \in 1 .. dlen : D[k] \in Node /\ ~On(D[k], L, len) /\ state[D[k]] = "DESTROYED"
    BY Nodes
  <2> QED
    BY <2>1
<1> QED
  BY <1>1, <1>2, <1>3 DEF AllInv

\* Linking the first deallocated node to the head changes neither list.
LEMMA Relinked ==
  ASSUME TypeOK, NEW len, NEW L, NEW dlen, NEW D, Lists(len, L, dlen, D),
         UNCHANGED <<head, next_free, first_deallocated>>, next' = RelinkDeallocated(next, head),
         \A n \in Node : \/ state'[n] = state[n]
                         \/ On(n, L, len) /\ state'[n] # "POOL"
  PROVE  /\ AllInv(len, L, dlen, D)'
         /\ first_deallocated # NULL => next'[first_deallocated] = head
         /\ next' \in [Node -> Node \cup {NULL}]
<1>1. AllInv(len, L, dlen, D) /\ next \in [Node -> Node \cup {NULL}] /\ head \in Node \cup {NULL}
      /\ first_deallocated \in Node \cup {NULL}
  BY DEF Lists, TypeOK
<1>2. \A n \in Node : state'[n] = "POOL" <=> ~On(n, L, len) /\ ~On(n, D, dlen)
  BY <1>1, Nodes DEF AllInv
<1>3. \A k \in 1 .. dlen : state'[D[k]] = "DESTROYED"
  <2>1. \A k \in 1 .. dlen : D[k] \in Node /\ ~On(D[k], L, len) /\ state[D[k]] = "DESTROYED"
    BY Nodes
  <2> QED
    BY <2>1
<1>4. \A n \in Node : next'[n] = IF n = first_deallocated THEN head ELSE next[n]
  BY DEF RelinkDeallocated
<1>5. IsList(head, next', len, L)
  <2>1. \A k \in 1 .. len : next'[L[k]] = next[L[k]]
    BY <1>4, Nodes
  <2> QED
    BY <2>1, Nodes, ListKept
<1>6. \A k \in 2 .. dlen : next'[D[k]] = D[k - 1]
  <2> TAKE k \in 2 .. dlen
  <2>1. k \in 1 .. dlen /\ k # 1 /\ 1 \in 1 .. dlen /\ dlen \in Nat \ {0}
    BY Nodes
  <2>2. D[k] # first_deallocated /\ D[k] \in Node
    BY <2>1, Nodes
  <2>3. next[D[k]] = D[k - 1]
    BY <1>1 DEF AllInv
  <2> QED
    BY <1>4, <2>2, <2>3
<1>7. IsList(head, next, len, L)' /\ IsList(first_deallocated, next_free, dlen, D)'
  BY <1>5, Nodes DEF IsList
<1>8. AllInv(len, L, dlen, D)'
  BY <1>1, <1>2, <1>3, <1>6, <1>7 DEF AllInv
<1>9. next' \in [Node -> Node \cup {NULL}]
  BY <1>1 DEF RelinkDeallocated
<1> QED
  BY <1>1, <1>4, <1>8, <1>9

\* A step of the API that keeps the list keeps the place of a walk on it.
LEMMA WalkKept ==
  ASSUME NEW len, NEW L, NEW dlen, NEW D, Lists(len, L, dlen, D), rounds' = rounds,
         \A n \in Node : state'[n] = "PENDING" => state[n] = "PENDING"
  PROVE  WalkInv(len, L)' /\ MayCallApi' = MayCallApi
<1>1. WalkInv(len, L) /\ len \in Nat /\ L \in [1 .. len -> Node]
  BY DEF Lists
<1>2. Top' = Top
  BY DEF Top
<1>3. ASSUME NEW p \in 0 .. len, WalkAt(len, L, p) PROVE WalkAt(len, L, p)'
  <2>1. Top.callback # NULL => p + 1 \in 1 .. len
    BY <1>1, <1>3 DEF WalkAt
  <2>2. Top.callback # NULL => L[p + 1] \in Node
    BY <1>1, <2>1
  <2> QED
    BY <1>2, <1>3, <2>2 DEF WalkAt
<1> QED
  BY <1>1, <1>2, <1>3 DEF WalkInv, MayCallApi

\* MakeWeak and ClearWeakness.
LEMMA WeaknessLists ==
  ASSUME TypeOK, InUseInv, ListInv, NEW n \in Node, MakeWeak(n) \/ ClearWeakness(n)
  PROVE  ListInv'
<1>1. PICK len, L, dlen, D : Lists(len, L, dlen, D)
  BY ListInvParts
<1>2. /\ MayCallApi /\ n \in handles /\ state[n] \notin {"POOL", "DESTROYED"}
      /\ UNCHANGED <<next, head, next_free, first_free, first_deallocated, rounds>>
  BY DEF MakeWeak, ClearWeakness, InUseInv, listVars
<1>3. \E v \in {"WEAK", "NORMAL"} : state' = [state EXCEPT ![n] = v]
  BY DEF MakeWeak, ClearWeakness
<1>4. /\ \A m \in Node \ {n} : state'[m] = state[m]
      /\ state'[n] \in {"WEAK", "NORMAL"}
  BY <1>3 DEF TypeOK
<1>5. On(n, L, len)
  BY <1>1, <1>2, Nodes
<1>6. AllInv(len, L, dlen, D)'
  BY <1>1, <1>2, <1>4, <1>5, ListsKept
<1>7. WalkInv(len, L)'
  BY <1>1, <1>2, <1>4, WalkKept
<1>8. ReuseInv(len, L)'
  <2>1. ReuseInv(len, L)
    BY <1>1, <1>2 DEF Lists
  <2>2. PICK flen \in Nat : \E F \in [1 .. flen -> Node] :
          /\ IsList(first_free, next_free, flen, F)
          /\ \A k \in 1 .. flen : state[F[k]] = "DESTROYED" /\ On(F[k], L, len)
    BY <2>1 DEF ReuseInv
  <2>3. PICK F \in [1 .. flen -> Node] :
          /\ IsList(first_free, next_free, flen, F)
          /\ \A k \in 1 .. flen : state[F[k]] = "DESTROYED" /\ On(F[k], L, len)
    BY <2>2
  <2>4. \A k \in 1 .. flen : F[k] \in Node \ {n} /\ state'[F[k]] = "DESTROYED"
    BY <1>2, <1>4, <2>3
  <2>5. IsList(first_free, next_free, flen, F)' /\ (first_deallocated # NULL => next[first_deallocated] = head)'
    BY <1>2, <2>1, <2>3 DEF IsList, ReuseInv
  <2> QED
    BY <2>3, <2>4, <2>5 DEF ReuseInv
<1> QED
  BY <1>1, <1>6, <1>7, <1>8, ListInvParts DEF Lists

\* A destroyed node stays on the list of all nodes and becomes the first free one.
LEMMA DestroyLists ==
  ASSUME TypeOK, InUseInv, ListInv, NEW n \in Node, Destroy(n)
  PROVE  ListInv'
<1>1. PICK len, L, dlen, D : Lists(len, L, dlen, D)
  BY ListInvParts
<1>2. /\ MayCallApi /\ n \in handles /\ state[n] \notin {"POOL", "DESTROYED"}
      /\ UNCHANGED <<next, head, first_deallocated, rounds>>
      /\ state' = [state EXCEPT ![n] = "DESTROYED"]
      /\ next_free' = [next_free EXCEPT ![n] = first_free] /\ first_free' = n
  BY DEF Destroy, InUseInv, listVars
<1>3. /\ \A m \in Node \ {n} : state'[m] = state[m] /\ next_free'[m] = next_free[m]
      /\ state'[n] = "DESTROYED" /\ next_free'[n] = first_free
  BY <1>2 DEF TypeOK
<1>4. On(n, L, len) /\ ~On(n, D, dlen)
  BY <1>1, <1>2, Nodes
<1>5. AllInv(len, L, dlen, D)'
  <2>1. AllInv(len, L, dlen, D)
    BY <1>1 DEF Lists
  <2>2. \A k \in 1 .. dlen : D[k] \in Node \ {n}
    BY <1>1, <1>4, Nodes
  <2>3. IsList(first_deallocated, next_free', dlen, D)
    BY <1>1, <1>3, <2>2, Nodes, ListKept
  <2>4. IsList(first_deallocated, next_free, dlen, D)' /\ IsList(head, next, len, L)'
    BY <1>2, <2>1, <2>3 DEF IsList, AllInv
  <2>5. \A m \in Node : state'[m] = "POOL" <=> ~On(m, L, len) /\ ~On(m, D, dlen)
    BY <1>3, <1>4, <2>1 DEF AllInv
  <2>6. \A k \in 1 .. dlen : state'[D[k]] = "DESTROYED"
    BY <1>3, <2>1, <2>2 DEF AllInv
  <2> QED
    BY <1>2, <2>1, <2>4, <2>5, <2>6 DEF AllInv
<1>6. WalkInv(len, L)'
  BY <1>1, <1>2, <1>3, WalkKept
<1>7. ReuseInv(len, L)'
  <2>1. ReuseInv(len, L)
    BY <1>1, <1>2 DEF Lists
  <2>2. PICK flen \in Nat : \E F \in [1 .. flen -> Node] :
          /\ IsList(first_free, next_free, flen, F)
          /\ \A k \in 1 .. flen : state[F[k]] = "DESTROYED" /\ On(F[k], L, len)
    BY <2>1 DEF ReuseInv
  <2>3. PICK F \in [1 .. flen -> Node] :
          /\ IsList(first_free, next_free, flen, F)
          /\ \A k \in 1 .. flen : state[F[k]] = "DESTROYED" /\ On(F[k], L, len)
    BY <2>2
  <2>4. \A k \in 1 .. flen : F[k] \in Node \ {n} /\ state'[F[k]] = "DESTROYED"
    BY <1>2, <1>3, <2>3
  <2>5. ~On(n, F, flen)
    BY <2>4 DEF On
  <2>6. \A k \in 1 .. flen : next_free'[F[k]] = next_free[F[k]]
    BY <1>3, <2>4
  <2> SUFFICES ASSUME NEW G, G = Prepended(n, flen, F) PROVE ReuseInv(len, L)'
    OBVIOUS
  <2>7. /\ IsList(n, next_free', flen + 1, G)
        /\ \A m : On(m, G, flen + 1) <=> m = n \/ On(m, F, flen)
    <3>1. next_free'[n] = first_free
      BY <1>3
    <3>2. \A link2 : link2[n] = first_free /\ (\A k \in 1 .. flen : link2[F[k]] = next_free[F[k]])
            => /\ IsList(n, link2, flen + 1, Prepended(n, flen, F))
               /\ \A m : On(m, Prepended(n, flen, F), flen + 1) <=> m = n \/ On(m, F, flen)
      BY <2>3, <2>5, ListPrepended
    <3> QED
      BY <2>6, <3>1, <3>2
  <2>8. \A k \in 1 .. flen + 1 : state'[G[k]] = "DESTROYED" /\ On(G[k], L, len)
    <3> TAKE k \in 1 .. flen + 1
    <3>1. G[k] = n \/ On(G[k], F, flen)
      BY <2>7 DEF On
    <3>2. On(G[k], F, flen) => \E j \in 1 .. flen : G[k] = F[j]
      BY DEF On
    <3> QED
      BY <1>3, <1>4, <2>3, <2>4, <3>1, <3>2
  <2>9. flen + 1 \in Nat /\ G \in [1 .. flen + 1 -> Node]
    BY <2>7 DEF IsList
  <2>10. first_deallocated # NULL => next[first_deallocated] = head
    BY <2>1 DEF ReuseInv
  <2> QED
    BY <1>2, <2>7, <2>8, <2>9, <2>10 DEF ReuseInv
<1> QED
  BY <1>1, <1>5, <1>6, <1>7, ListInvParts DEF Lists

\* A node of the free list never left the list of all nodes.
LEMMA FromFreeLists ==
  ASSUME TypeOK, ListInv, NEW n \in Node, MayCallApi, FromFree(n),
         state' = [state EXCEPT ![n] = "NORMAL"], UNCHANGED <<next_free, rounds>>
  PROVE  ListInv' /\ state[n] = "DESTROYED"
<1>1. PICK len, L, dlen, D : Lists(len, L, dlen, D)
  BY ListInvParts
<1>2. /\ n = first_free /\ first_free' = next_free[n]
      /\ UNCHANGED <<next, head, first_deallocated, next_free, rounds>>
  BY DEF FromFree, listVars
<1>3. /\ \A m \in Node \ {n} : state'[m] = state[m]
      /\ state'[n] = "NORMAL"
  BY DEF TypeOK
<1>4. ReuseInv(len, L)
  BY <1>1 DEF Lists
<1>5. PICK flen \in Nat : \E F \in [1 .. flen -> Node] :
        /\ IsList(first_free, next_free, flen, F)
        /\ \A k \in 1 .. flen : state[F[k]] = "DESTROYED" /\ On(F[k], L, len)
  BY <1>4 DEF ReuseInv
<1>6. PICK F \in [1 .. flen -> Node] :
        /\ IsList(first_free, next_free, flen, F)
        /\ \A k \in 1 .. flen : state[F[k]] = "DESTROYED" /\ On(F[k], L, len)
  BY <1>5
<1> SUFFICES ASSUME NEW G, G = Without(0, flen, F) PROVE ListInv' /\ state[n] = "DESTROYED"
  OBVIOUS
<1>7. /\ flen \in Nat \ {0} /\ n = F[1] /\ flen - 1 \in Nat
      /\ IsList(next_free[n], next_free, flen - 1, G)
      /\ \A m : On(m, G, flen - 1) <=> m # n /\ On(m, F, flen)
  BY <1>1, <1>2, <1>6, ListRest, Nodes
<1>8. On(n, L, len) /\ state[n] = "DESTROYED"
  BY <1>6, <1>7
<1>9. AllInv(len, L, dlen, D)'
  BY <1>1, <1>2, <1>3, <1>8, ListsKept
<1>10. WalkInv(len, L)'
  BY <1>1, <1>2, <1>3, WalkKept
<1>11. ReuseInv(len, L)'
  <2>1. \A k \in 1 .. flen - 1 : state'[G[k]] = "DESTROYED" /\ On(G[k], L, len)
    <3> TAKE k \in 1 .. flen - 1
    <3>1. G[k] # n /\ On(G[k], F, flen)
      BY <1>7 DEF On
    <3>2. PICK j \in 1 .. flen : G[k] = F[j]
      BY <3>1 DEF On
    <3> QED
      BY <1>3, <1>6, <3>1, <3>2
  <2>2. G \in [1 .. flen - 1 -> Node]
    BY <1>7 DEF IsList
  <2> QED
    BY <1>2, <1>4, <1>7, <2>1, <2>2 DEF ReuseInv
<1> QED
  BY <1>1, <1>8, <1>9, <1>10, <1>11, ListInvParts DEF Lists

\* A new first node moves a walk that has begun one place on.
LEMMA WalkPrepended ==
  ASSUME NEW len, NEW L, NEW dlen, NEW D, Lists(len, L, dlen, D), MayCallApi, rounds' = rounds,
         NEW n \in Node, ~On(n, L, len), state'[n] = "NORMAL", \A m \in Node \ {n} : state'[m] = state[m]
  PROVE  WalkInv(len + 1, Prepended(n, len, L))'
<1> SUFFICES ASSUME NEW M, M = Prepended(n, len, L) PROVE WalkInv(len + 1, M)'
  OBVIOUS
<1>1. WalkInv(len, L) /\ len \in Nat /\ L \in [1 .. len -> Node]
  BY DEF Lists
<1>2. Top' = Top
  BY DEF Top
<1>3. M[1] = n /\ \A k \in 1 .. len : M[k + 1] = L[k]
  <2>1. /\ 1 \in 1 .. len + 1
        /\ \A k \in 1 .. len : k + 1 \in 1 .. len + 1 /\ k + 1 # 1 /\ (k + 1) - 1 = k
    BY <1>1
  <2> QED
    BY <2>1 DEF Prepended
<1>4. ASSUME rounds # <<>>, NEW p \in 0 .. len, WalkAt(len, L, p)
      PROVE  \E q \in 0 .. len + 1 : WalkAt(len + 1, M, q)'
  <2>1. Top.callback # NULL /\ p < len /\ state[L[p + 1]] # "PENDING"
    BY <1>4 DEF WalkAt, MayCallApi
  <2>2. \A m \in Node : state'[m] = "PENDING" => \E k \in p + 1 .. len : M[k + 1] = m
    <3> SUFFICES ASSUME NEW m \in Node, state'[m] = "PENDING"
                 PROVE  \E k \in p + 1 .. len : M[k + 1] = m
      OBVIOUS
    <3>1. m # n /\ state[m] = "PENDING"
      OBVIOUS
    <3>2. PICK k \in p + 1 .. len : L[k] = m
      BY <1>4, <3>1 DEF WalkAt
    <3>3. k \in 1 .. len
      BY <1>1
    <3> QED
      BY <1>3, <3>2, <3>3
  <2>3. p + 1 \in 1 .. len /\ L[p + 1] \in Node
    BY <1>1, <2>1
  <2>4. CASE p = 0
    <3>1. WalkAt(len + 1, M, 0)'
      <4>1. Top'.at = NULL
        BY <1>2, <1>4, <2>4 DEF WalkAt
      <4>2. \A k \in p + 1 .. len : k + 1 \in 0 + 1 .. len + 1
        BY <1>1, <2>4
      <4>3. 0 < len + 1 /\ 0 + 1 = 1
        BY <1>1
      <4> QED
        BY <1>3, <2>2, <4>1, <4>2, <4>3 DEF WalkAt
    <3> QED
      BY <1>1, <3>1
  <2>5. CASE p # 0
    <3>1. p \in 1 .. len /\ p + 1 \in 0 .. len + 1 /\ p + 1 # 0 /\ p + 1 < len + 1
      BY <1>1, <2>1, <2>5
    <3>2. WalkAt(len + 1, M, p + 1)'
      <4>1. Top'.at = M[p + 1]
        BY <1>2, <1>3, <1>4, <2>5, <3>1 DEF WalkAt
      <4>2. \A k \in p + 1 .. len : k + 1 \in p + 1 + 1 .. len + 1
        BY <1>1
      <4>3. state'[M[p + 1 + 1]] # "PENDING"
        BY <1>3, <2>1, <2>3
      <4> QED
        BY <2>2, <3>1, <4>1, <4>2, <4>3 DEF WalkAt
    <3> QED
      BY <3>1, <3>2
  <2> QED
    BY <2>4, <2>5
<1>5. ASSUME \A m \in Node : state[m] # "PENDING" PROVE \A m \in Node : state'[m] # "PENDING"
  BY <1>5
<1>6. CASE rounds # <<>> /\ ~Top.stale
  <2>1. PICK p \in 0 .. len : WalkAt(len, L, p)
    BY <1>1, <1>6 DEF WalkInv
  <2> QED
    BY <1>2, <1>4, <1>6, <2>1 DEF WalkInv
<1>7. CASE ~(rounds # <<>> /\ ~Top.stale)
  BY <1>1, <1>2, <1>5, <1>7 DEF WalkInv
<1> QED
  BY <1>6, <1>7

\* The next state's lists, from who is on them.
LEMMA AllInvFromOn ==
  ASSUME NEW len \in Nat, NEW L, NEW dlen \in Nat, NEW D,
         IsList(head', next', len, L), IsList(first_deallocated', next_free', dlen, D),
         \A n \in Node : On(n, L, len) => ~On(n, D, dlen),
         \A n \in Node : state'[n] = "POOL" <=> ~On(n, L, len) /\ ~On(n, D, dlen),
         \A n \in Node : On(n, D, dlen) => state'[n] = "DESTROYED",
         \A k \in 2 .. dlen : next'[D[k]] = D[k - 1]
  PROVE  AllInv(len, L, dlen, D)'
<1>1. L \in [1 .. len -> Node] /\ D \in [1 .. dlen -> Node]
  BY DEF IsList
<1>2. IsList(head, next, len, L)' /\ IsList(first_deallocated, next_free, dlen, D)'
  BY DEF IsList
<1>3. \A k \in 1 .. dlen : D[k] \in Node /\ On(D[k], D, dlen)
  BY <1>1 DEF On
<1>4. \A j \in 1 .. len : L[j] \in Node /\ On(L[j], L, len)
  BY <1>1 DEF On
<1>5. \A j \in 1 .. len, k \in 1 .. dlen : L[j] # D[k]
  BY <1>3, <1>4
<1>6. \A k \in 1 .. dlen : state'[D[k]] = "DESTROYED"
  BY <1>3
<1> QED
  BY <1>1, <1>2, <1>5, <1>6 DEF AllInv

\* Without free nodes there is nothing to show of them.
LEMMA NoneFree ==
  ASSUME NEW len, NEW L, \A n \in Node : n # NULL
  PROVE  /\ ReuseInv(len, L) /\ first_free = NULL =>
              \E F \in [1 .. 0 -> Node] : IsList(NULL, next_free, 0, F)
         /\ /\ first_free' = NULL /\ (first_deallocated' # NULL => next'[first_deallocated'] = head')
            => ReuseInv(len, L)'
<1> DEFINE F == [k \in 1 .. 0 |-> NULL]
<1>1. F \in [1 .. 0 -> Node] /\ IsList(NULL, next_free, 0, F) /\ IsList(NULL, next_free, 0, F)'
  BY DEF IsList, NodeAt
<1>2. ASSUME first_free' = NULL, first_deallocated' # NULL => next'[first_deallocated'] = head'
      PROVE  ReuseInv(len, L)'
  <2>1. IsList(first_free, next_free, 0, F)'
    BY <1>1, <1>2 DEF IsList
  <2>2. \A k \in 1 .. 0 : (state[F[k]] = "DESTROYED" /\ On(F[k], L, len))'
    OBVIOUS
  <2>3. 0 \in Nat
    OBVIOUS
  <2> QED
    BY <1>1, <1>2, <2>1, <2>2, <2>3 DEF ReuseInv
<1> QED
  BY <1>1, <1>2

\* A deallocated node is linked to the head already.
LEMMA FromDeallocatedLists ==
  ASSUME TypeOK, ListInv, NEW n \in Node, MayCallApi, FromDeallocated(n),
         state' = [state EXCEPT ![n] = "NORMAL"], UNCHANGED <<next_free, rounds>>
  PROVE  ListInv' /\ state[n] = "DESTROYED"
<1>1. PICK len, L, dlen, D : Lists(len, L, dlen, D)
  BY ListInvParts
<1>2. /\ n = first_deallocated /\ first_free = NULL /\ first_free' = NULL
      /\ first_deallocated' = next_free[n] /\ head' = n /\ next' = next /\ next_free' = next_free
  BY DEF FromDeallocated
<1>3. /\ \A m \in Node \ {n} : state'[m] = state[m]
      /\ state'[n] = "NORMAL"
  BY DEF TypeOK
<1>4. ReuseInv(len, L) /\ AllInv(len, L, dlen, D)
  BY <1>1 DEF Lists
<1>5. next[n] = head /\ n # NULL
  BY <1>1, <1>2, <1>4, Nodes DEF ReuseInv
<1>6. /\ IsList(head, next, len, L) /\ len \in Nat /\ L \in [1 .. len -> Node]
      /\ IsList(n, next_free, dlen, D) /\ dlen \in Nat \ {0} /\ n = D[1] /\ On(n, D, dlen)
      /\ \A m \in Node : On(m, L, len) => ~On(m, D, dlen)
  BY <1>1, <1>2, <1>5, Nodes
<1> SUFFICES ASSUME NEW M, M = Prepended(n, len, L), NEW E, E = Without(0, dlen, D)
             PROVE  ListInv' /\ state[n] = "DESTROYED"
  OBVIOUS
<1>7. /\ IsList(n, next, len + 1, M) /\ len + 1 \in Nat
      /\ \A m : On(m, M, len + 1) <=> m = n \/ On(m, L, len)
  <2>1. IsList(head, next, len, L) /\ len \in Nat /\ ~On(n, L, len) /\ next[n] = head
    BY <1>5, <1>6
  <2>2. /\ IsList(n, next, len + 1, Prepended(n, len, L))
        /\ \A m : On(m, Prepended(n, len, L), len + 1) <=> m = n \/ On(m, L, len)
    BY <2>1, ListLinked
  <2> QED
    BY <1>6, <2>2
<1>8. /\ IsList(next_free[n], next_free, dlen - 1, E) /\ dlen - 1 \in Nat
      /\ \A m : On(m, E, dlen - 1) <=> m # n /\ On(m, D, dlen)
  BY <1>5, <1>6, ListRest
<1>9. state[n] = "DESTROYED"
  BY <1>1, <1>6, Nodes
<1>10. \A k \in 2 .. dlen : next[D[k]] = D[k - 1]
  BY <1>4 DEF AllInv
<1>11. \A k \in 1 .. dlen - 1 : E[k] = D[k + 1] /\ k + 1 \in 2 .. dlen /\ (k + 1) - 1 = k /\ k \in 1 .. dlen
  <2>1. \A k \in 1 .. dlen - 1 : k + 1 \in 2 .. dlen /\ (k + 1) - 1 = k /\ k \in 1 .. dlen /\ ~(k <= 0)
    BY <1>6
  <2> QED
    BY <2>1 DEF Without
<1>12. \A k \in 1 .. dlen - 1 : next[E[k]] = D[k]
  BY <1>10, <1>11
<1>13. AllInv(len + 1, M, dlen - 1, E)' /\ M \in [1 .. len + 1 -> Node] /\ E \in [1 .. dlen - 1 -> Node]
  <2>1. \A k \in 2 .. dlen - 1 : next'[E[k]] = E[k - 1]
    <3> TAKE k \in 2 .. dlen - 1
    <3>1. k \in 1 .. dlen - 1 /\ k - 1 \in 1 .. dlen - 1 /\ (k - 1) + 1 = k
      BY <1>6
    <3> QED
      BY <1>2, <1>11, <1>12, <3>1
  <2>2. \A m \in Node : On(m, M, len + 1) => ~On(m, E, dlen - 1)
    BY <1>6, <1>7, <1>8
  <2>3. \A m \in Node : state'[m] = "POOL" <=> ~On(m, M, len + 1) /\ ~On(m, E, dlen - 1)
    <3>1. \A m \in Node : state[m] = "POOL" <=> ~On(m, L, len) /\ ~On(m, D, dlen)
      BY <1>4 DEF AllInv
    <3> QED
      BY <1>3, <1>7, <1>8, <3>1
  <2>4. \A m \in Node : On(m, E, dlen - 1) => state'[m] = "DESTROYED"
    BY <1>1, <1>3, <1>8, Nodes
  <2>5. IsList(head', next', len + 1, M) /\ IsList(first_deallocated', next_free', dlen - 1, E)
    BY <1>2, <1>7, <1>8
  <2>6. AllInv(len + 1, M, dlen - 1, E)'
    BY <1>7, <1>8, <2>1, <2>2, <2>3, <2>4, <2>5, AllInvFromOn
  <2> QED
    BY <2>5, <2>6 DEF IsList
<1>14. ReuseInv(len + 1, M)'
  <2>1. ASSUME first_deallocated' # NULL PROVE next'[first_deallocated'] = head'
    <3>1. next_free[n] = NodeAt(E, dlen - 1, 1)
      BY <1>8 DEF IsList
    <3>2. 1 \in 1 .. dlen - 1 /\ next_free[n] = E[1]
      BY <1>2, <2>1, <3>1 DEF NodeAt
    <3> QED
      BY <1>2, <1>6, <1>12, <3>2
  <2>2. \A m \in Node : m # NULL
    BY NodeAssumption
  <2> QED
    BY <1>2, <2>1, <2>2, NoneFree
<1>15. WalkInv(len + 1, M)'
  <2>1. ~On(n, L, len)
    BY <1>6
  <2> QED
    BY <1>1, <1>3, <2>1, WalkPrepended
<1>16. Lists(len + 1, M, dlen - 1, E)'
  BY <1>7, <1>8, <1>13, <1>14, <1>15 DEF Lists
<1> QED
  BY <1>9, <1>16, ListInvParts

\* A node of the pool is on no list.
LEMMA FromPoolLists ==
  ASSUME TypeOK, ListInv, NEW n \in Node, MayCallApi, FromPool(n),
         state' = [state EXCEPT ![n] = "NORMAL"], UNCHANGED <<next_free, rounds>>
  PROVE  ListInv'
<1>1. PICK len, L, dlen, D : Lists(len, L, dlen, D)
  BY ListInvParts
<1>2. /\ first_free = NULL /\ first_free' = NULL /\ state[n] = "POOL"
      /\ first_deallocated = NULL /\ first_deallocated' = NULL /\ head' = n /\ next_free' = next_free
  BY DEF FromPool
<1>3. /\ \A m \in Node \ {n} : state'[m] = state[m] /\ next'[m] = next[m]
      /\ state'[n] = "NORMAL" /\ next'[n] = head
  BY DEF TypeOK, FromPool
<1>4. AllInv(len, L, dlen, D)
  BY <1>1 DEF Lists
<1>5. /\ IsList(head, next, len, L) /\ len \in Nat /\ L \in [1 .. len -> Node]
      /\ IsList(NULL, next_free, dlen, D) /\ dlen = 0
      /\ ~On(n, L, len) /\ ~On(n, D, dlen)
  BY <1>1, <1>2, Nodes
<1> SUFFICES ASSUME NEW M, M = Prepended(n, len, L) PROVE ListInv'
  OBVIOUS
<1>6. /\ IsList(n, next', len + 1, M) /\ len + 1 \in Nat
      /\ \A m : On(m, M, len + 1) <=> m = n \/ On(m, L, len)
  <2>1. \A k \in 1 .. len : next'[L[k]] = next[L[k]]
    <3>1. \A k \in 1 .. len : L[k] \in Node \ {n}
      BY <1>5 DEF On
    <3> QED
      BY <1>3, <3>1
  <2>2. \A link2 : link2[n] = head /\ (\A k \in 1 .. len : link2[L[k]] = next[L[k]])
          => /\ IsList(n, link2, len + 1, Prepended(n, len, L))
             /\ \A m : On(m, Prepended(n, len, L), len + 1) <=> m = n \/ On(m, L, len)
    <3>1. IsList(head, next, len, L) /\ len \in Nat /\ ~On(n, L, len)
      BY <1>5
    <3> QED
      BY <3>1, ListPrepended
  <2>3. next'[n] = head
    BY <1>3
  <2> QED
    BY <1>5, <2>1, <2>2, <2>3
<1>7. \A m : ~On(m, D, dlen)
  BY <1>5 DEF On
<1>8. AllInv(len + 1, M, dlen, D)' /\ M \in [1 .. len + 1 -> Node] /\ D \in [1 .. dlen -> Node]
  <2>1. \A k \in 2 .. dlen : next'[D[k]] = D[k - 1]
    BY <1>5
  <2>2. \A m \in Node : state'[m] = "POOL" <=> ~On(m, M, len + 1) /\ ~On(m, D, dlen)
    <3>1. \A m \in Node : state[m] = "POOL" <=> ~On(m, L, len) /\ ~On(m, D, dlen)
      BY <1>4 DEF AllInv
    <3> QED
      BY <1>3, <1>6, <1>7, <3>1
  <2>3. IsList(head', next', len + 1, M) /\ IsList(first_deallocated', next_free', dlen, D)
    BY <1>2, <1>5, <1>6
  <2>4. dlen \in Nat
    BY <1>5
  <2>5. /\ \A m \in Node : On(m, M, len + 1) => ~On(m, D, dlen)
        /\ \A m \in Node : On(m, D, dlen) => state'[m] = "DESTROYED"
    BY <1>7
  <2>6. len + 1 \in Nat
    BY <1>6
  <2>7. AllInv(len + 1, M, dlen, D)'
    BY <2>1, <2>2, <2>3, <2>4, <2>5, <2>6, AllInvFromOn
  <2> QED
    BY <2>3, <2>7 DEF IsList
<1>9. ReuseInv(len + 1, M)'
  <2>1. \A m \in Node : m # NULL
    BY NodeAssumption
  <2> QED
    BY <1>2, <2>1, NoneFree
<1>10. WalkInv(len + 1, M)'
  BY <1>1, <1>3, <1>5, WalkPrepended
<1>11. Lists(len + 1, M, dlen, D)'
  BY <1>5, <1>6, <1>8, <1>9, <1>10 DEF Lists
<1> QED
  BY <1>11, ListInvParts

\* The three places Create takes a node from.
LEMMA CreateLists ==
  ASSUME TypeOK, ListInv, Create
  PROVE  ListInv'
<1>1. PICK n \in Node : /\ MayCallApi
                        /\ FromFree(n) \/ FromDeallocated(n) \/ FromPool(n)
                        /\ state' = [state EXCEPT ![n] = "NORMAL"] /\ UNCHANGED <<next_free, rounds>>
  BY DEF Create
<1> QED
  BY <1>1, FromFreeLists, FromDeallocatedLists, FromPoolLists

---------------------------------------------------------------------------
(* The rounds.                                                              *)

\* What replacing the last round does.
LEMMA TopSet ==
  ASSUME rounds \in Seq(Round), rounds # <<>>, NEW round \in Round, SetTop(round)
  PROVE  /\ rounds' \in Seq(Round) /\ rounds' # <<>> /\ Top' = round /\ Len(rounds') = Len(rounds)
         /\ \A d \in 1 .. Len(rounds) - 1 : rounds'[d] = rounds[d]
<1>1. Len(rounds) \in Nat \ {0} /\ Len(rounds) \in 1 .. Len(rounds)
  OBVIOUS
<1>2. rounds' = [rounds EXCEPT ![Len(rounds)] = round]
  BY DEF SetTop
<1>3. rounds' \in Seq(Round) /\ Len(rounds') = Len(rounds)
  BY <1>1, <1>2
<1>4. rounds'[Len(rounds)] = round
  BY <1>1, <1>2
<1>5. \A d \in 1 .. Len(rounds) - 1 : d \in 1 .. Len(rounds) /\ d # Len(rounds)
  BY <1>1
<1>6. \A d \in 1 .. Len(rounds) - 1 : rounds'[d] = rounds[d]
  BY <1>1, <1>2, <1>5
<1> QED
  BY <1>1, <1>3, <1>4, <1>6 DEF Top

\* A collection pushes a round and makes the others stale.
LEMMA TopPushed ==
  ASSUME rounds \in Seq(Round), CollectGarbage
  PROVE  /\ rounds' \in Seq(Round) /\ rounds' # <<>> /\ Len(rounds') = Len(rounds) + 1
         /\ Top'.at = NULL /\ ~Top'.stale /\ Top'.callback = NULL
         /\ \A d \in 1 .. Len(rounds) : rounds'[d].stale /\ rounds'[d].callback = rounds[d].callback
<1> DEFINE older == [d \in DOMAIN rounds |-> MakeStale(rounds[d])]
           new == [at |-> NULL, stale |-> FALSE, callback |-> NULL]
<1>1. rounds' = Append(older, new)
  BY DEF CollectGarbage
<1>2. new \in Round
  BY DEF Round
<1>3. \A d \in 1 .. Len(rounds) : rounds[d] \in Round
  OBVIOUS
<1>4. \A r \in Round : MakeStale(r) \in Round /\ MakeStale(r).stale /\ MakeStale(r).callback = r.callback
  BY DEF MakeStale, Round
<1>5. DOMAIN rounds = 1 .. Len(rounds) /\ Len(rounds) \in Nat
  OBVIOUS
<1>6. older \in Seq(Round) /\ Len(older) = Len(rounds)
  BY <1>3, <1>4, <1>5
<1>7. \A d \in 1 .. Len(rounds) : older[d].stale /\ older[d].callback = rounds[d].callback
  BY <1>3, <1>4, <1>5
<1>8. new.at = NULL /\ ~new.stale /\ new.callback = NULL
  OBVIOUS
<1> HIDE DEF older, new
<1>9. rounds' \in Seq(Round) /\ Len(rounds') = Len(rounds) + 1 /\ rounds'[Len(rounds) + 1] = new
  BY <1>1, <1>2, <1>5, <1>6
<1>10. \A d \in 1 .. Len(rounds) : rounds'[d] = older[d]
  BY <1>1, <1>2, <1>5, <1>6
<1>11. rounds' # <<>>
  BY <1>5, <1>9
<1> QED
  BY <1>5, <1>7, <1>8, <1>9, <1>10, <1>11 DEF Top

\* What SequencesExt's Front is of a sequence that is not empty.
LEMMA FrontOf ==
  ASSUME NEW S, NEW s \in Seq(S), s # <<>>
  PROVE  /\ Front(s) \in Seq(S) /\ Len(Front(s)) = Len(s) - 1
         /\ \A k \in 1 .. Len(s) - 1 : Front(s)[k] = s[k]
<1>1. Len(s) \in Nat /\ Len(s) # 0
  OBVIOUS
<1>2. Front(s) = SubSeq(s, 1, Len(s) - 1)
  BY DEF Front
<1>3. PICK n : n = Len(s) - 1
  OBVIOUS
<1>4. n \in Nat /\ n + 1 = Len(s)
  BY <1>1, <1>3
<1>5. /\ SubSeq(s, 1, n) \in Seq(S) /\ Len(SubSeq(s, 1, n)) = n
      /\ \A k \in 1 .. n : SubSeq(s, 1, n)[k] = s[k]
  BY <1>4
<1> QED
  BY <1>2, <1>3, <1>5

\* The end of a walk pops its round.
LEMMA TopPopped ==
  ASSUME rounds \in Seq(Round), rounds # <<>>, rounds' = Front(rounds)
  PROVE  /\ rounds' \in Seq(Round) /\ Len(rounds') = Len(rounds) - 1
         /\ \A d \in 1 .. Len(rounds) - 1 : rounds'[d] = rounds[d]
         /\ rounds' # <<>> => Top' = rounds[Len(rounds) - 1] /\ Len(rounds) - 1 \in 1 .. Len(rounds) - 1
<1>1. Len(rounds) \in Nat \ {0}
  OBVIOUS
<1>2. rounds' = Front(rounds)
  OBVIOUS
<1>3. /\ Front(rounds) \in Seq(Round) /\ Len(Front(rounds)) = Len(rounds) - 1
      /\ \A d \in 1 .. Len(rounds) - 1 : Front(rounds)[d] = rounds[d]
  BY FrontOf
<1>4. /\ rounds' \in Seq(Round) /\ Len(rounds') = Len(rounds) - 1
      /\ \A d \in 1 .. Len(rounds) - 1 : rounds'[d] = rounds[d]
  BY <1>2, <1>3
<1>5. ASSUME rounds' # <<>> PROVE Len(rounds) - 1 \in 1 .. Len(rounds) - 1
  BY <1>1, <1>4, <1>5
<1> QED
  BY <1>4, <1>5 DEF Top

\* Where a walk stands.
LEMMA DerefAt ==
  ASSUME NEW len, NEW L, NEW dlen, NEW D, Lists(len, L, dlen, D), NEW p \in 0 .. len, WalkAt(len, L, p)
  PROVE  /\ Deref(Top.at) = NodeAt(L, len, p + 1)
         /\ Deref(Top.at) # NULL <=> p < len
         /\ p < len => p + 1 \in 1 .. len /\ Deref(Top.at) = L[p + 1] /\ L[p + 1] \in Node
<1>1. IsList(head, next, len, L) /\ len \in Nat /\ L \in [1 .. len -> Node] /\ \A n \in Node : n # NULL
  BY Nodes
<1>2. Deref(Top.at) = NodeAt(L, len, p + 1)
  <2>1. CASE p = 0
    BY <1>1, <2>1 DEF WalkAt, Deref, IsList
  <2>2. CASE p # 0
    <3>1. p \in 1 .. len
      BY <1>1, <2>2
    <3>2. L[p] # NULL /\ next[L[p]] = NodeAt(L, len, p + 1)
      BY <1>1, <3>1 DEF IsList
    <3> QED
      BY <2>2, <3>2 DEF WalkAt, Deref
  <2> QED
    BY <2>1, <2>2
<1>3. p + 1 \in 1 .. len <=> p < len
  BY <1>1
<1>4. p < len => p + 1 \in 1 .. len /\ NodeAt(L, len, p + 1) = L[p + 1] /\ L[p + 1] \in Node
  BY <1>1, <1>3 DEF NodeAt
<1>5. ~(p < len) => NodeAt(L, len, p + 1) = NULL
  BY <1>3 DEF NodeAt
<1> QED
  BY <1>1, <1>2, <1>4, <1>5

---------------------------------------------------------------------------
(* Collections keep the lists.                                               *)

\* Nodes found to be garbage are on the list, before the new walk.
LEMMA CollectLists ==
  ASSUME TypeOK, InUseInv, ListInv, CollectGarbage
  PROVE  ListInv'
<1>1. PICK len, L, dlen, D : Lists(len, L, dlen, D)
  BY ListInvParts
<1>2. PICK garbage \in SUBSET {n \in handles : state[n] = "WEAK"} :
        state' = [n \in Node |-> IF n \in garbage THEN "PENDING" ELSE state[n]]
  BY DEF CollectGarbage
<1>3. UNCHANGED <<head, next, next_free, first_deallocated>>
  BY DEF CollectGarbage, listVars
<1>4. \A n \in Node : \/ state'[n] = state[n]
                      \/ state[n] = "WEAK" /\ state'[n] = "PENDING"
  BY <1>2
<1>5. \A n \in Node : \/ state'[n] = state[n]
                      \/ On(n, L, len) /\ state'[n] # "POOL"
  BY <1>1, <1>4, Nodes
<1>6. AllInv(len, L, dlen, D)'
  BY <1>1, <1>3, <1>5, ListsKept
<1>7. rounds' # <<>> /\ Top'.at = NULL /\ ~Top'.stale /\ Top'.callback = NULL
  BY TopPushed DEF TypeOK
<1>8. WalkInv(len, L)'
  <2>1. len \in Nat
    BY <1>1 DEF Lists
  <2>2. \A n \in Node : state'[n] = "PENDING" => \E k \in 0 + 1 .. len : L[k] = n
    <3> SUFFICES ASSUME NEW n \in Node, state'[n] = "PENDING" PROVE \E k \in 0 + 1 .. len : L[k] = n
      OBVIOUS
    <3>1. state[n] = "WEAK" \/ state[n] = "PENDING"
      BY <1>4
    <3>2. On(n, L, len)
      BY <1>1, <3>1, Nodes
    <3> QED
      BY <3>2 DEF On
  <2>3. WalkAt(len, L, 0)'
    BY <1>7, <2>2 DEF WalkAt
  <2>4. 0 \in 0 .. len
    BY <2>1
  <2> QED
    BY <1>7, <2>3, <2>4 DEF WalkInv
<1>9. ~MayCallApi'
  BY <1>7 DEF MayCallApi
<1> QED
  BY <1>1, <1>6, <1>8, <1>9, ListInvParts DEF Lists

\* A weak callback starts: the walk stands before a node that has been told.
LEMMA ProcessPendingLists ==
  ASSUME TypeOK, RoundsInv, ListInv, ProcessPending
  PROVE  ListInv'
<1>1. PICK len, L, dlen, D : Lists(len, L, dlen, D)
  BY ListInvParts
<1>2. Walking /\ rounds # <<>> /\ ~Top.stale /\ Top \in Round
  BY DEF ProcessPending, RoundsInv, Walking, TypeOK, Top
<1>3. len \in Nat /\ \A n \in Node : n # NULL
  BY <1>1, Nodes
<1>4. PICK p \in 0 .. len : WalkAt(len, L, p)
  BY <1>1, <1>2 DEF Lists, WalkInv
<1>5. Deref(Top.at) # NULL
  BY DEF ProcessPending
<1>6. p < len /\ p + 1 \in 1 .. len /\ Deref(Top.at) = L[p + 1] /\ L[p + 1] \in Node
  BY <1>1, <1>4, <1>5, DerefAt
<1>7. PICK n : n = L[p + 1]
  OBVIOUS
<1>8. /\ n \in Node /\ n # NULL /\ state' = [state EXCEPT ![n] = "NEAR_DEATH"] /\ SetTop([Top EXCEPT !.callback = n])
      /\ first_free' = NULL /\ next' = RelinkDeallocated(next, head)
      /\ UNCHANGED <<head, next_free, first_deallocated>>
  BY <1>3, <1>6, <1>7 DEF ProcessPending, ForbidReuse
<1>9. (\A m \in Node \ {n} : state'[m] = state[m]) /\ state'[n] = "NEAR_DEATH"
  BY <1>8 DEF TypeOK
<1>10. On(n, L, len)
  BY <1>6, <1>7 DEF On
<1>11. AllInv(len, L, dlen, D)' /\ (first_deallocated # NULL => next'[first_deallocated] = head)
  <2>1. \A m \in Node : \/ state'[m] = state[m]
                        \/ On(m, L, len) /\ state'[m] # "POOL"
    BY <1>9, <1>10
  <2> QED
    BY <1>1, <1>8, <2>1, Relinked
<1>12. ReuseInv(len, L)'
  BY <1>3, <1>8, <1>11, NoneFree
<1>13. Top' = [Top EXCEPT !.callback = n] /\ rounds' # <<>>
  <2>1. [Top EXCEPT !.callback = n] \in Round
    BY <1>2, <1>8 DEF Round
  <2> QED
    BY <1>2, <1>8, <2>1, TopSet DEF TypeOK
<1>14. Top'.at = Top.at /\ ~Top'.stale
  BY <1>2, <1>13 DEF Round
<1>15. WalkAt(len, L, p)'
  <2>1. \A m \in Node : state'[m] = "PENDING" => state[m] = "PENDING"
    BY <1>9
  <2> QED
    BY <1>4, <1>6, <1>7, <1>9, <1>14, <2>1 DEF WalkAt
<1>16. WalkInv(len, L)'
  BY <1>13, <1>14, <1>15 DEF WalkInv
<1> QED
  BY <1>1, <1>11, <1>12, <1>16, ListInvParts DEF Lists

\* The end of a walk that leaves nothing to be notified.
LEMMA EndRoundLists ==
  ASSUME TypeOK, RoundsInv, ListInv, rounds # <<>>, EndRound, UNCHANGED state,
         \A n \in Node : state[n] # "PENDING"
  PROVE  ListInv'
<1>1. PICK len, L, dlen, D : Lists(len, L, dlen, D)
  BY ListInvParts
<1>2. /\ rounds' = Front(rounds) /\ first_free' = NULL /\ next' = RelinkDeallocated(next, head)
      /\ UNCHANGED <<head, next_free, first_deallocated>>
  BY DEF EndRound, ForbidReuse
<1>3. AllInv(len, L, dlen, D)' /\ (first_deallocated # NULL => next'[first_deallocated] = head)
  BY <1>1, <1>2, Relinked
<1>4. ReuseInv(len, L)'
  BY <1>1, <1>2, <1>3, Nodes, NoneFree
<1>5. rounds' # <<>> => Top'.stale
  BY <1>2, TopPopped DEF TypeOK, RoundsInv
<1>6. WalkInv(len, L)'
  BY <1>5 DEF WalkInv
<1> QED
  BY <1>1, <1>3, <1>4, <1>6, ListInvParts DEF Lists

\* A walk that has come to the end has notified all.
LEMMA WalkEndsLists ==
  ASSUME TypeOK, RoundsInv, ListInv, WalkEnds
  PROVE  ListInv'
<1>1. PICK len, L, dlen, D : Lists(len, L, dlen, D)
  BY ListInvParts
<1>2. rounds # <<>> /\ ~Top.stale /\ Deref(Top.at) = NULL /\ EndRound /\ UNCHANGED state
  BY DEF WalkEnds, RoundsInv, Walking
<1>3. PICK p \in 0 .. len : WalkAt(len, L, p)
  BY <1>1, <1>2 DEF Lists, WalkInv
<1>4. len \in Nat /\ ~(p < len)
  BY <1>1, <1>2, <1>3, DerefAt DEF Lists
<1>5. \A k : k \notin p + 1 .. len
  BY <1>4
<1>6. \A n \in Node : state[n] # "PENDING"
  BY <1>3, <1>5 DEF WalkAt
<1> QED
  BY <1>2, <1>6, EndRoundLists

\* What unlinking the node at position p + 1 does to the list of all nodes.
LEMMA SweepUnlinks ==
  ASSUME NEW len, NEW L, NEW dlen, NEW D, Lists(len, L, dlen, D), NEW p \in 0 .. len - 1,
         NEW n, n = L[p + 1], NEW at, at = IF p = 0 THEN NULL ELSE L[p],
         head' = IF at = NULL THEN next[n] ELSE head,
         \A m \in Node : next'[m] = IF m = first_deallocated THEN n
                                    ELSE IF m = at THEN next[n] ELSE next[m]
  PROVE  /\ IsList(head', next', len - 1, Without(p, len, L)) /\ len - 1 \in Nat
         /\ \A m : On(m, Without(p, len, L), len - 1) <=> m # n /\ On(m, L, len)
<1>1. /\ IsList(head, next, len, L) /\ len \in Nat /\ L \in [1 .. len -> Node]
      /\ (\A m \in Node : m # NULL) /\ \A k \in 1 .. len : L[k] # first_deallocated
  BY Nodes
<1>2. \A j, k \in 1 .. len : L[j] = L[k] => j = k
  BY <1>1 DEF IsList
<1>3. p # 0 => p \in 1 .. len
  BY <1>1
<1>4. p # 0 => at = L[p] /\ at # NULL
  BY <1>1, <1>3
<1>5. ASSUME NEW k \in 1 .. len, k # p PROVE next'[L[k]] = next[L[k]]
  <2>1. L[k] # at
    BY <1>1, <1>2, <1>3, <1>5
  <2> QED
    BY <1>1, <2>1
<1>6. p # 0 => next'[L[p]] = next[L[p + 1]]
  BY <1>1, <1>3, <1>4
<1>7. head' = IF p = 0 THEN next[L[1]] ELSE head
  BY <1>4
<1>8. IsList(head, next, len, L) /\ len \in Nat /\ \A k \in 1 .. len : k # p /\ k # p + 1 => next'[L[k]] = next[L[k]]
  BY <1>1, <1>5
<1> QED
  BY <1>6, <1>7, <1>8, ListWithout

\* And what linking it does to the deallocated nodes: it is their first, and
\* the one that was is linked to it.
LEMMA SweepLinks ==
  ASSUME NEW len, NEW L, NEW dlen, NEW D, Lists(len, L, dlen, D), NEW n \in Node, On(n, L, len),
         NEW at, at \in Node => On(at, L, len),
         next_free \in [Node -> Node \cup {NULL}], next_free' = LinkDeallocated(n),
         \A m \in Node : next'[m] = IF m = first_deallocated THEN n
                                    ELSE IF m = at THEN next[n] ELSE next[m]
  PROVE  /\ IsList(n, next_free', dlen + 1, Prepended(n, dlen, D)) /\ dlen + 1 \in Nat
         /\ \A m : On(m, Prepended(n, dlen, D), dlen + 1) <=> m = n \/ On(m, D, dlen)
         /\ \A k \in 2 .. dlen + 1 : next'[Prepended(n, dlen, D)[k]] = Prepended(n, dlen, D)[k - 1]
<1> SUFFICES ASSUME NEW E, E = Prepended(n, dlen, D)
             PROVE  /\ IsList(n, next_free', dlen + 1, Prepended(n, dlen, D)) /\ dlen + 1 \in Nat
                    /\ \A m : On(m, Prepended(n, dlen, D), dlen + 1) <=> m = n \/ On(m, D, dlen)
                    /\ \A k \in 2 .. dlen + 1 : next'[E[k]] = E[k - 1]
  OBVIOUS
<1>1. /\ IsList(first_deallocated, next_free, dlen, D) /\ dlen \in Nat /\ D \in [1 .. dlen -> Node]
      /\ (\A m \in Node : On(m, L, len) => ~On(m, D, dlen)) /\ \A j, k \in 1 .. dlen : D[j] = D[k] => j = k
      /\ first_deallocated # NULL => dlen \in Nat \ {0} /\ first_deallocated = D[1]
      /\ (first_deallocated = NULL => dlen = 0) /\ \A k \in 1 .. dlen : On(D[k], D, dlen)
  BY Nodes
<1>2. \A k \in 1 .. dlen : D[k] \in Node /\ D[k] # n /\ D[k] # at
  BY <1>1
<1>3. ~On(n, D, dlen) /\ \A k \in 1 .. dlen : next_free'[D[k]] = next_free[D[k]]
  BY <1>1, <1>2 DEF LinkDeallocated
<1>4. next_free'[n] = first_deallocated
  BY DEF LinkDeallocated
<1>5. \A link2 : link2[n] = first_deallocated /\ (\A k \in 1 .. dlen : link2[D[k]] = next_free[D[k]])
        => /\ IsList(n, link2, dlen + 1, Prepended(n, dlen, D))
           /\ \A m : On(m, Prepended(n, dlen, D), dlen + 1) <=> m = n \/ On(m, D, dlen)
  <2>1. IsList(first_deallocated, next_free, dlen, D) /\ dlen \in Nat /\ ~On(n, D, dlen)
    BY <1>1, <1>3
  <2> QED
    BY <2>1, ListPrepended
<1>6. \A k \in 2 .. dlen : next[D[k]] = D[k - 1]
  BY DEF Lists, AllInv
<1>7. E[1] = n /\ \A k \in 1 .. dlen : E[k + 1] = D[k]
  <2>1. \A k \in 1 .. dlen : k + 1 \in 1 .. dlen + 1 /\ k + 1 # 1 /\ (k + 1) - 1 = k
    BY <1>1
  <2>2. 1 \in 1 .. dlen + 1
    BY <1>1
  <2> QED
    BY <2>1, <2>2 DEF Prepended
<1>8. ASSUME NEW k \in 1 .. dlen PROVE next'[D[k]] = E[k]
  <2>1. CASE k = 1
    <3>1. D[k] = first_deallocated
      BY <1>1, <2>1
    <3> QED
      BY <1>2, <1>7, <2>1, <3>1
  <2>2. CASE k # 1
    <3>1. k \in 2 .. dlen /\ k - 1 \in 1 .. dlen /\ (k - 1) + 1 = k /\ 1 \in 1 .. dlen /\ dlen # 0
      BY <1>1, <2>2
    <3>2. D[k] # first_deallocated
      BY <1>1, <2>2, <3>1
    <3>3. next'[D[k]] = next[D[k]]
      BY <1>2, <3>2
    <3> QED
      BY <1>6, <1>7, <3>1, <3>3
  <2> QED
    BY <2>1, <2>2
<1>9. ASSUME NEW k \in 2 .. dlen + 1 PROVE next'[E[k]] = E[k - 1]
  <2>1. k - 1 \in 1 .. dlen /\ (k - 1) + 1 = k
    BY <1>1
  <2> QED
    BY <1>7, <1>8, <2>1
<1>10. dlen + 1 \in Nat
  BY <1>1
<1> QED
  BY <1>3, <1>4, <1>5, <1>9, <1>10

\* The rest of the loop body, when the walk stands before a node that is not
\* to be notified.
LEMMA SweepLists ==
  ASSUME TypeOK, ListInv, rounds # <<>>, ~Top.stale, NEW round \in Round, Sweep(round), UNCHANGED state,
         round.at = Top.at, ~round.stale, round.callback = NULL,
         Top.callback # NULL \/ (Deref(Top.at) # NULL /\ state[Deref(Top.at)] # "PENDING")
  PROVE  ListInv'
<1>1. PICK len, L, dlen, D : Lists(len, L, dlen, D)
  BY ListInvParts
<1>2. PICK p \in 0 .. len : WalkAt(len, L, p)
  BY <1>1 DEF Lists, WalkInv
<1>3. /\ len \in Nat /\ L \in [1 .. len -> Node] /\ (\A m \in Node : m # NULL)
      /\ \A m \in Node : On(m, L, len) => ~On(m, D, dlen) /\ state[m] # "POOL"
  BY <1>1, Nodes
<1>4. p < len /\ p + 1 \in 1 .. len /\ Deref(Top.at) = L[p + 1] /\ L[p + 1] \in Node
  <2>1. p < len
    BY <1>1, <1>2, DerefAt DEF WalkAt
  <2> QED
    BY <1>1, <1>2, <2>1, DerefAt
<1>5. PICK n : n = L[p + 1]
  OBVIOUS
<1>6. n \in Node /\ n = Deref(round.at) /\ state[n] # "PENDING" /\ On(n, L, len)
  BY <1>2, <1>4, <1>5 DEF WalkAt, On
<1>7. Top.at = IF p = 0 THEN NULL ELSE L[p]
  BY <1>2 DEF WalkAt
<1>8. \A m \in Node : state[m] = "PENDING" => \E k \in p + 1 .. len : L[k] = m /\ k # p + 1
  BY <1>2, <1>5, <1>6 DEF WalkAt
<1>9. CASE state[n] = "DESTROYED"
  <2>1. /\ head' = IF round.at = NULL THEN next[n] ELSE head
        /\ next' = RelinkDeallocated([m \in Node |-> IF m = round.at THEN next[n] ELSE next[m]], n)
        /\ next_free' = LinkDeallocated(n) /\ first_deallocated' = n /\ SetTop(round)
    BY <1>6, <1>9 DEF Sweep
  <2>2. \A m \in Node : next'[m] = IF m = first_deallocated THEN n
                                   ELSE IF m = Top.at THEN next[n] ELSE next[m]
    BY <2>1 DEF RelinkDeallocated
  <2>3. rounds' # <<>> /\ Top' = round
    BY <2>1, TopSet DEF TypeOK
  <2>4. p \in 0 .. len - 1 /\ p \in Nat
    BY <1>3, <1>4
  <2> SUFFICES ASSUME NEW M, M = Without(p, len, L), NEW E, E = Prepended(n, dlen, D),
                      NEW l, l = len - 1, NEW e, e = dlen + 1
               PROVE  ListInv'
    OBVIOUS
  <2>5. /\ IsList(head', next', l, M) /\ l \in Nat
        /\ \A m : On(m, M, l) <=> m # n /\ On(m, L, len)
    <3>1. head' = IF Top.at = NULL THEN next[n] ELSE head
      BY <2>1
    <3> QED
      BY <1>1, <1>5, <1>7, <2>2, <2>4, <3>1, SweepUnlinks
  <2>6. /\ IsList(n, next_free', e, E) /\ e \in Nat
        /\ \A m : On(m, E, e) <=> m = n \/ On(m, D, dlen)
        /\ \A k \in 2 .. e : next'[E[k]] = E[k - 1]
    <3>1. Top.at \in Node => On(Top.at, L, len)
      <4>1. p # 0 => p \in 1 .. len
        BY <1>3
      <4> QED
        BY <1>3, <1>7, <4>1 DEF On
    <3>2. next_free \in [Node -> Node \cup {NULL}]
      BY DEF TypeOK
    <3>3. /\ IsList(n, next_free', dlen + 1, Prepended(n, dlen, D)) /\ dlen + 1 \in Nat
          /\ \A m : On(m, Prepended(n, dlen, D), dlen + 1) <=> m = n \/ On(m, D, dlen)
          /\ \A k \in 2 .. dlen + 1 : next'[Prepended(n, dlen, D)[k]] = Prepended(n, dlen, D)[k - 1]
      <4>1. next_free' = LinkDeallocated(n)
        BY <2>1
      <4> QED
        BY <1>1, <1>6, <2>2, <3>1, <3>2, <4>1, SweepLinks
    <3> QED
      BY <3>3
  <2>7. AllInv(l, M, e, E)' /\ M \in [1 .. l -> Node] /\ E \in [1 .. e -> Node]
    <3>1. \A m \in Node : state[m] = "POOL" <=> ~On(m, L, len) /\ ~On(m, D, dlen)
      BY <1>1 DEF Lists, AllInv
    <3>2. \A m \in Node : On(m, D, dlen) => state[m] = "DESTROYED"
      BY <1>1, Nodes
    <3>3. \A m \in Node : On(m, M, l) => ~On(m, E, e)
      BY <1>3, <2>5, <2>6
    <3>4. \A m \in Node : state'[m] = "POOL" <=> ~On(m, M, l) /\ ~On(m, E, e)
      BY <1>6, <1>9, <2>5, <2>6, <3>1
    <3>5. \A m \in Node : On(m, E, e) => state'[m] = "DESTROYED"
      BY <1>9, <2>6, <3>2
    <3>6. IsList(first_deallocated', next_free', e, E) /\ IsList(head', next', l, M)
      BY <2>1, <2>5, <2>6
    <3>7. l \in Nat /\ e \in Nat /\ \A k \in 2 .. e : next'[E[k]] = E[k - 1]
      BY <2>5, <2>6
    <3>8. AllInv(l, M, e, E)'
      BY <3>3, <3>4, <3>5, <3>6, <3>7, AllInvFromOn
    <3>9. M \in [1 .. l -> Node]
      BY <3>6 DEF IsList
    <3>10. E \in [1 .. e -> Node]
      BY <3>6 DEF IsList
    <3> QED
      BY <3>8, <3>9, <3>10
  <2>8. WalkInv(l, M)'
    <3>1. \A k \in 1 .. l : M[k] = IF k <= p THEN L[k] ELSE L[k + 1]
      BY DEF Without
    <3>2. Top'.at = IF p = 0 THEN NULL ELSE M[p]
      <4>1. p # 0 => p \in 1 .. l /\ p <= p
        BY <2>4
      <4> QED
        BY <1>7, <2>3, <3>1, <4>1
    <3>3. ASSUME NEW m \in Node, state'[m] = "PENDING" PROVE \E k \in p + 1 .. l : M[k] = m
      <4>1. PICK k \in p + 1 .. len : L[k] = m /\ k # p + 1
        BY <1>8, <3>3
      <4>2. k - 1 \in p + 1 .. l /\ k - 1 \in 1 .. l /\ ~(k - 1 <= p) /\ (k - 1) + 1 = k
        BY <1>3, <2>4, <4>1
      <4> QED
        BY <3>1, <4>1, <4>2
    <3>4. WalkAt(l, M, p)'
      BY <2>3, <3>2, <3>3 DEF WalkAt
    <3> QED
      BY <2>3, <2>4, <3>4 DEF WalkInv
  <2>9. ~MayCallApi'
    BY <2>3 DEF MayCallApi
  <2>10. Lists(l, M, e, E)'
    BY <2>5, <2>6, <2>7, <2>8, <2>9 DEF Lists
  <2> QED
    BY <2>10, ListInvParts
<1>10. CASE state[n] # "DESTROYED"
  <2>1. SetTop([round EXCEPT !.at = n]) /\ UNCHANGED <<head, next, next_free, first_deallocated>>
    BY <1>6, <1>10 DEF Sweep, listVars
  <2>2. [round EXCEPT !.at = n] \in Round
    BY <1>6 DEF Round
  <2>3. rounds' # <<>> /\ Top' = [round EXCEPT !.at = n]
    BY <2>1, <2>2, TopSet DEF TypeOK
  <2>4. Top'.at = n /\ ~Top'.stale /\ Top'.callback = NULL
    BY <2>3 DEF Round
  <2>5. AllInv(len, L, dlen, D)'
    BY <1>1, <2>1, ListsKept
  <2>6. WalkInv(len, L)'
    <3>1. p + 1 \in 0 .. len /\ p + 1 # 0
      BY <1>3, <1>4
    <3>2. ASSUME NEW m \in Node, state'[m] = "PENDING" PROVE \E k \in p + 1 + 1 .. len : L[k] = m
      <4>1. PICK k \in p + 1 .. len : L[k] = m /\ k # p + 1
        BY <1>8, <3>2
      <4>2. k \in p + 1 + 1 .. len
        BY <1>3, <4>1
      <4> QED
        BY <4>1, <4>2
    <3>3. WalkAt(len, L, p + 1)'
      BY <1>5, <2>4, <3>1, <3>2 DEF WalkAt
    <3> QED
      BY <2>3, <2>4, <3>1, <3>3 DEF WalkInv
  <2>7. ~MayCallApi'
    BY <2>3, <2>4 DEF MayCallApi
  <2> QED
    BY <1>1, <2>5, <2>6, <2>7, ListInvParts DEF Lists
<1> QED
  BY <1>9, <1>10

\* A node that is not to be notified.
LEMMA ProcessOtherLists ==
  ASSUME TypeOK, RoundsInv, ListInv, ProcessOther
  PROVE  ListInv'
<1>1. rounds # <<>> /\ Top.callback = NULL /\ ~Top.stale /\ Top \in Round /\ Sweep(Top) /\ UNCHANGED state
  BY DEF ProcessOther, Walking, RoundsInv, TypeOK, Top
<1>2. Deref(Top.at) # NULL /\ state[Deref(Top.at)] # "PENDING"
  BY DEF ProcessOther
<1> QED
  BY <1>1, <1>2, SweepLists

\* After a callback the walk is broken off or goes on where it stood.
LEMMA CallbackReturnsLists ==
  ASSUME TypeOK, RoundsInv, ListInv, CallbackReturns
  PROVE  ListInv'
<1>1. rounds # <<>> /\ Top.callback # NULL /\ Top \in Round /\ UNCHANGED state
  BY DEF CallbackReturns, TypeOK, Top
<1>2. CASE Top.stale
  <2>1. EndRound
    BY <1>2 DEF CallbackReturns, BreaksOff
  <2>2. \A n \in Node : state[n] # "PENDING"
    BY <1>2 DEF ListInv, WalkInv
  <2> QED
    BY <1>1, <2>1, <2>2, EndRoundLists
<1>3. CASE ~Top.stale
  <2>1. PICK round : round = [Top EXCEPT !.callback = NULL]
    OBVIOUS
  <2>2. Sweep(round)
    BY <1>3, <2>1 DEF CallbackReturns, BreaksOff
  <2>3. round \in Round /\ round.at = Top.at /\ ~round.stale /\ round.callback = NULL
    BY <1>1, <1>3, <2>1 DEF Round
  <2> QED
    BY <1>1, <1>3, <2>2, <2>3, SweepLists
<1> QED
  BY <1>2, <1>3

---------------------------------------------------------------------------
(* The weak handles and their count.                                         *)

WeakSet == {n \in handles : IsWeakOrNearDeath(n)}
WeakState == {"WEAK", "PENDING", "NEAR_DEATH"}

\* The count is a number, and two sets that differ in one node differ by one.
LEMMA CountByNode ==
  ASSUME NEW W, NEW V, W \subseteq Node, V \subseteq Node, NEW n \in Node, W \ {n} = V \ {n}
  PROVE  /\ Cardinality(W) \in Nat /\ Cardinality(V) \in Nat
         /\ (n \in W <=> n \in V) => Cardinality(V) = Cardinality(W)
         /\ n \in V /\ n \notin W => Cardinality(V) = Cardinality(W) + 1
         /\ n \in W /\ n \notin V => Cardinality(V) = Cardinality(W) - 1
<1>1. IsFiniteSet(W) /\ IsFiniteSet(V)
  BY NodeAssumption, FS_Subset
<1>2. Cardinality(W) \in Nat /\ Cardinality(V) \in Nat
  BY <1>1, FS_CardinalityType
<1>3. (n \in W <=> n \in V) => V = W
  OBVIOUS
<1>4. ASSUME n \in V, n \notin W PROVE Cardinality(V) = Cardinality(W) + 1
  <2>1. V = W \cup {n}
    BY <1>4
  <2> QED
    BY <1>1, <1>4, <2>1, FS_AddElement
<1>5. ASSUME n \in W, n \notin V PROVE Cardinality(V) = Cardinality(W) - 1
  <2>1. V = W \ {n}
    BY <1>5
  <2> QED
    BY <1>1, <1>5, <2>1, FS_RemoveElement
<1> QED
  BY <1>2, <1>3, <1>4, <1>5

\* A step of the API gives one node another state.
LEMMA OneNodeChanges ==
  ASSUME TypeOK, InUseInv, WeakCounted, NEW n \in Node, NEW v \in State \ {"POOL"},
         state' = [state EXCEPT ![n] = v],
         handles' = IF v = "DESTROYED" THEN handles \ {n} ELSE handles \cup {n},
         number_of_weak_handles' = IF v \in WeakState /\ state[n] \notin WeakState THEN number_of_weak_handles + 1
                                   ELSE IF v \notin WeakState /\ state[n] \in WeakState THEN number_of_weak_handles - 1
                                   ELSE number_of_weak_handles
  PROVE  /\ InUseInv' /\ WeakCounted'
         /\ state' \in [Node -> State] /\ handles' \in SUBSET Node /\ number_of_weak_handles' \in Nat
<1>1. state \in [Node -> State] /\ handles \in SUBSET Node
  BY DEF TypeOK
<1>2. state' \in [Node -> State] /\ handles' \in SUBSET Node
  BY <1>1
<1>3. state'[n] = v /\ \A m \in Node \ {n} : state'[m] = state[m]
  BY <1>1
<1>4. \A m \in Node : m \in handles <=> state[m] \notin {"POOL", "DESTROYED"}
  BY DEF InUseInv
<1>5. \A m \in Node : m \in handles' <=> state'[m] \notin {"POOL", "DESTROYED"}
  BY <1>3, <1>4
<1>6. InUseInv'
  BY <1>2, <1>5 DEF InUseInv
<1>7. \A m \in Node : m \in WeakSet <=> state[m] \in WeakState
  BY <1>4 DEF WeakSet, WeakState, IsWeakOrNearDeath, IsNearDeath
<1>8. \A m \in Node : m \in WeakSet' <=> state'[m] \in WeakState
  BY <1>5 DEF WeakSet, WeakState, IsWeakOrNearDeath, IsNearDeath
<1>9. WeakSet \subseteq Node /\ WeakSet' \subseteq Node
  BY <1>1, <1>2 DEF WeakSet
<1>10. WeakSet \ {n} = WeakSet' \ {n}
  BY <1>3, <1>7, <1>8, <1>9
<1>11. n \in WeakSet <=> state[n] \in WeakState
  BY <1>7
<1>12. n \in WeakSet' <=> v \in WeakState
  BY <1>3, <1>8
<1>13. number_of_weak_handles = Cardinality(WeakSet)
  BY DEF WeakCounted, WeakSet
<1>14. number_of_weak_handles' = Cardinality(WeakSet')
  BY <1>9, <1>10, <1>11, <1>12, <1>13, CountByNode
<1>15. number_of_weak_handles' \in Nat
  BY <1>9, <1>10, <1>14, CountByNode
<1>16. WeakCounted'
  BY <1>14 DEF WeakCounted, WeakSet
<1> QED
  BY <1>2, <1>6, <1>15, <1>16

\* Collections change states only from one that is weak or near death to another.
LEMMA WeakStatesChange ==
  ASSUME TypeOK, InUseInv, WeakCounted, UNCHANGED <<handles, number_of_weak_handles>>,
         \A n \in Node : state'[n] = state[n] \/ (state[n] \in WeakState /\ state'[n] \in WeakState)
  PROVE  InUseInv' /\ WeakCounted'
<1>1. handles \subseteq Node /\ \A m \in Node : m \in handles <=> state[m] \notin {"POOL", "DESTROYED"}
  BY DEF InUseInv
<1>2. \A m \in Node : m \in handles <=> state'[m] \notin {"POOL", "DESTROYED"}
  BY <1>1 DEF WeakState
<1>3. InUseInv'
  BY <1>1, <1>2 DEF InUseInv
<1>4. \A m \in handles : IsWeakOrNearDeath(m)' <=> IsWeakOrNearDeath(m)
  BY <1>1 DEF IsWeakOrNearDeath, IsNearDeath, WeakState
<1>5. {m \in handles : IsWeakOrNearDeath(m)}' = {m \in handles : IsWeakOrNearDeath(m)}
  BY <1>4
<1>6. WeakCounted'
  BY <1>5 DEF WeakCounted
<1> QED
  BY <1>3, <1>6

---------------------------------------------------------------------------
(* The rest of the invariant.                                               *)

ApiStep == Create \/ \E n \in Node : Destroy(n) \/ MakeWeak(n) \/ ClearWeakness(n)

\* Functions of the API.
LEMMA ApiTypes ==
  ASSUME IInv, ApiStep
  PROVE  TypeOK' /\ RoundsInv' /\ InUseInv' /\ WeakCounted'
<1>1. TypeOK /\ ListInv /\ RoundsInv /\ InUseInv /\ WeakCounted
  BY DEF IInv
<1>2. rounds' = rounds
  BY DEF ApiStep, Create, Destroy, MakeWeak, ClearWeakness
<1>3. RoundsInv' /\ rounds' \in Seq(Round)
  BY <1>1, <1>2 DEF RoundsInv, Walking, Top, TypeOK
<1>4. /\ next \in [Node -> Node \cup {NULL}] /\ next_free \in [Node -> Node \cup {NULL}]
      /\ {head, first_free, first_deallocated} \subseteq Node \cup {NULL}
  BY <1>1 DEF TypeOK
<1>5. CASE Create
  <2>1. PICK n \in Node : /\ MayCallApi
                          /\ FromFree(n) \/ FromDeallocated(n) \/ FromPool(n)
                          /\ state' = [state EXCEPT ![n] = "NORMAL"] /\ handles' = handles \cup {n}
                          /\ UNCHANGED <<next_free, number_of_weak_handles, rounds>>
    BY <1>5 DEF Create
  <2>2. state[n] \in {"POOL", "DESTROYED"}
    <3>1. ASSUME FromFree(n) PROVE state[n] = "DESTROYED"
      BY <1>1, <2>1, <3>1, FromFreeLists
    <3>2. ASSUME FromDeallocated(n) PROVE state[n] = "DESTROYED"
      BY <1>1, <2>1, <3>2, FromDeallocatedLists
    <3>3. ASSUME FromPool(n) PROVE state[n] = "POOL"
      BY <3>3 DEF FromPool
    <3> QED
      BY <2>1, <3>1, <3>2, <3>3
  <2>3. /\ InUseInv' /\ WeakCounted' /\ state' \in [Node -> State]
        /\ handles' \in SUBSET Node /\ number_of_weak_handles' \in Nat
    <3>1. state[n] \notin WeakState /\ "NORMAL" \notin WeakState
          /\ "NORMAL" \in State \ {"POOL"} /\ "NORMAL" # "DESTROYED"
      BY <2>2 DEF WeakState, State
    <3>2. number_of_weak_handles' = number_of_weak_handles
      BY <2>1
    <3> QED
      BY <1>1, <2>1, <3>1, <3>2, OneNodeChanges
  <2>4. next' \in [Node -> Node \cup {NULL}] /\ next_free' \in [Node -> Node \cup {NULL}]
        /\ {head', first_free', first_deallocated'} \subseteq Node \cup {NULL}
    <3>1. CASE FromFree(n)
      BY <1>4, <2>1, <3>1 DEF FromFree, listVars
    <3>2. CASE FromDeallocated(n)
      BY <1>4, <2>1, <3>2 DEF FromDeallocated
    <3>3. CASE FromPool(n)
      BY <1>4, <2>1, <3>3 DEF FromPool
    <3> QED
      BY <2>1, <3>1, <3>2, <3>3
  <2> QED
    BY <1>3, <2>3, <2>4 DEF TypeOK
<1>6. ASSUME NEW n \in Node, Destroy(n) PROVE TypeOK' /\ InUseInv' /\ WeakCounted'
  <2>1. /\ n \in handles /\ handles' = handles \ {n} /\ state' = [state EXCEPT ![n] = "DESTROYED"]
        /\ number_of_weak_handles' = WeakAfterDestroy(n)
        /\ next_free' = [next_free EXCEPT ![n] = first_free] /\ first_free' = n
        /\ UNCHANGED <<next, head, first_deallocated>>
    BY <1>6 DEF Destroy, listVars
  <2>2. number_of_weak_handles' = IF state[n] \in WeakState THEN number_of_weak_handles - 1
                                                             ELSE number_of_weak_handles
    BY <2>1 DEF WeakAfterDestroy, IsWeakOrNearDeath, IsNearDeath, WeakState
  <2>3. /\ InUseInv' /\ WeakCounted' /\ state' \in [Node -> State]
        /\ handles' \in SUBSET Node /\ number_of_weak_handles' \in Nat
    <3>1. "DESTROYED" \notin WeakState /\ "DESTROYED" \in State \ {"POOL"}
      BY DEF WeakState, State
    <3> QED
      BY <1>1, <2>1, <2>2, <3>1, OneNodeChanges
  <2>4. next' \in [Node -> Node \cup {NULL}] /\ next_free' \in [Node -> Node \cup {NULL}]
        /\ {head', first_free', first_deallocated'} \subseteq Node \cup {NULL}
    BY <1>4, <2>1
  <2> QED
    BY <1>3, <2>3, <2>4 DEF TypeOK
<1>7. ASSUME NEW n \in Node, MakeWeak(n) \/ ClearWeakness(n) PROVE TypeOK' /\ InUseInv' /\ WeakCounted'
  <2>1. n \in handles /\ handles' = handles /\ UNCHANGED <<next, head, next_free, first_free, first_deallocated>>
    BY <1>7 DEF MakeWeak, ClearWeakness, listVars
  <2>2. handles' = handles \cup {n}
    BY <2>1
  <2>3. /\ InUseInv' /\ WeakCounted' /\ state' \in [Node -> State]
        /\ handles' \in SUBSET Node /\ number_of_weak_handles' \in Nat
    <3>1. CASE MakeWeak(n)
      <4>1. "WEAK" \in WeakState /\ "WEAK" \in State \ {"POOL"} /\ "WEAK" # "DESTROYED"
        BY DEF WeakState, State
      <4>2. state' = [state EXCEPT ![n] = "WEAK"]
            /\ number_of_weak_handles' = IF state[n] \notin WeakState THEN number_of_weak_handles + 1
                                                                      ELSE number_of_weak_handles
        BY <3>1 DEF MakeWeak, IsWeakOrNearDeath, IsNearDeath, WeakState
      <4> QED
        BY <1>1, <2>2, <4>1, <4>2, OneNodeChanges
    <3>2. CASE ClearWeakness(n)
      <4>1. "NORMAL" \notin WeakState /\ "NORMAL" \in State \ {"POOL"} /\ "NORMAL" # "DESTROYED"
        BY DEF WeakState, State
      <4>2. state' = [state EXCEPT ![n] = "NORMAL"]
            /\ number_of_weak_handles' = IF state[n] \in WeakState THEN number_of_weak_handles - 1
                                                                   ELSE number_of_weak_handles
        BY <3>2 DEF ClearWeakness, WeakAfterDestroy, IsWeakOrNearDeath, IsNearDeath, WeakState
      <4> QED
        BY <1>1, <2>2, <4>1, <4>2, OneNodeChanges
    <3> QED
      BY <1>7, <3>1, <3>2
  <2>4. next' \in [Node -> Node \cup {NULL}] /\ next_free' \in [Node -> Node \cup {NULL}]
        /\ {head', first_free', first_deallocated'} \subseteq Node \cup {NULL}
    BY <1>4, <2>1
  <2> QED
    BY <1>3, <2>3, <2>4 DEF TypeOK
<1> QED
  BY <1>3, <1>5, <1>6, <1>7 DEF ApiStep

\* A walk that goes on has a node before it.
LEMMA SweepNode ==
  ASSUME ListInv, rounds # <<>>, ~Top.stale, Top.callback # NULL \/ Deref(Top.at) # NULL
  PROVE  Deref(Top.at) \in Node
<1>1. PICK len, L, dlen, D : Lists(len, L, dlen, D)
  BY ListInvParts
<1>2. PICK p \in 0 .. len : WalkAt(len, L, p)
  BY <1>1 DEF Lists, WalkInv
<1>3. p < len
  BY <1>1, <1>2, DerefAt DEF WalkAt
<1> QED
  BY <1>1, <1>2, <1>3, DerefAt

\* The types after the rest of the loop body.
LEMMA SweepTypes ==
  ASSUME TypeOK, RoundsInv, ListInv, rounds # <<>>, ~Top.stale, NEW round \in Round, Sweep(round),
         round.at = Top.at, ~round.stale, Top.callback # NULL \/ Deref(Top.at) # NULL,
         UNCHANGED <<state, first_free, number_of_weak_handles, handles>>
  PROVE  TypeOK' /\ RoundsInv'
<1>1. /\ next \in [Node -> Node \cup {NULL}] /\ next_free \in [Node -> Node \cup {NULL}]
      /\ {head, first_free, first_deallocated} \subseteq Node \cup {NULL} /\ rounds \in Seq(Round)
      /\ \A d \in 1 .. Len(rounds) - 1 : rounds[d].stale /\ rounds[d].callback # NULL
  BY DEF TypeOK, RoundsInv
<1>2. PICK n \in Node : n = Deref(round.at)
  BY SweepNode
<1>3. next[n] \in Node \cup {NULL}
  BY <1>1
<1>4. next' \in [Node -> Node \cup {NULL}] /\ next_free' \in [Node -> Node \cup {NULL}]
      /\ {head', first_free', first_deallocated'} \subseteq Node \cup {NULL}
  <2>1. CASE state[n] = "DESTROYED"
    BY <1>1, <1>2, <1>3, <2>1 DEF Sweep, RelinkDeallocated, LinkDeallocated
  <2>2. CASE state[n] # "DESTROYED"
    BY <1>1, <1>2, <2>2 DEF Sweep, listVars
  <2> QED
    BY <2>1, <2>2
<1>5. \E r \in Round : SetTop(r) /\ ~r.stale
  <2>1. CASE state[n] = "DESTROYED"
    BY <1>2, <2>1 DEF Sweep
  <2>2. CASE state[n] # "DESTROYED"
    <3>1. SetTop([round EXCEPT !.at = n])
      BY <1>2, <2>2 DEF Sweep
    <3>2. [round EXCEPT !.at = n] \in Round /\ ~[round EXCEPT !.at = n].stale
      BY <1>2 DEF Round
    <3> QED
      BY <3>1, <3>2
  <2> QED
    BY <2>1, <2>2
<1>6. rounds' \in Seq(Round) /\ RoundsInv'
  <2>1. PICK r \in Round : SetTop(r) /\ ~r.stale
    BY <1>5
  <2>2. /\ rounds' \in Seq(Round) /\ Top' = r /\ Len(rounds') = Len(rounds)
        /\ \A d \in 1 .. Len(rounds) - 1 : rounds'[d] = rounds[d]
    BY <1>1, <2>1, TopSet
  <2> QED
    BY <1>1, <2>1, <2>2 DEF RoundsInv
<1> QED
  BY <1>4, <1>6 DEF TypeOK

\* The types after the end of a walk.
LEMMA EndRoundTypes ==
  ASSUME TypeOK, RoundsInv, rounds # <<>>, EndRound,
         UNCHANGED <<state, number_of_weak_handles, handles>>
  PROVE  TypeOK' /\ RoundsInv'
<1>1. /\ next \in [Node -> Node \cup {NULL}] /\ next_free \in [Node -> Node \cup {NULL}]
      /\ {head, first_free, first_deallocated} \subseteq Node \cup {NULL} /\ rounds \in Seq(Round)
      /\ \A d \in 1 .. Len(rounds) - 1 : rounds[d].stale /\ rounds[d].callback # NULL
  BY DEF TypeOK, RoundsInv
<1>2. next' \in [Node -> Node \cup {NULL}] /\ next_free' \in [Node -> Node \cup {NULL}]
      /\ {head', first_free', first_deallocated'} \subseteq Node \cup {NULL}
  BY <1>1 DEF EndRound, ForbidReuse, RelinkDeallocated
<1>3. /\ rounds' \in Seq(Round) /\ Len(rounds') = Len(rounds) - 1 /\ Len(rounds) \in Nat
      /\ \A d \in 1 .. Len(rounds) - 1 : rounds'[d] = rounds[d]
      /\ rounds' # <<>> => Top' = rounds[Len(rounds) - 1] /\ Len(rounds) - 1 \in 1 .. Len(rounds) - 1
  BY <1>1, TopPopped DEF EndRound
<1>4. \A d \in 1 .. Len(rounds') - 1 : d \in 1 .. Len(rounds) - 1
  BY <1>3
<1>5. \A d \in 1 .. Len(rounds') - 1 : rounds'[d].stale /\ rounds'[d].callback # NULL
  BY <1>1, <1>3, <1>4
<1>6. rounds' # <<>> => Top'.callback # NULL
  BY <1>1, <1>3
<1>7. RoundsInv'
  BY <1>5, <1>6 DEF RoundsInv, Walking
<1> QED
  BY <1>2, <1>3, <1>7 DEF TypeOK

\* Collections and their walks.
LEMMA CollectTypes ==
  ASSUME IInv, CollectGarbage
  PROVE  TypeOK' /\ RoundsInv' /\ InUseInv' /\ WeakCounted'
<1>1. TypeOK /\ RoundsInv /\ InUseInv /\ WeakCounted /\ MayCallApi
  BY DEF IInv, CollectGarbage
<1>2. PICK garbage \in SUBSET {n \in handles : state[n] = "WEAK"} :
        state' = [n \in Node |-> IF n \in garbage THEN "PENDING" ELSE state[n]]
  BY DEF CollectGarbage
<1>3. \A n \in Node : state'[n] = state[n] \/ (state[n] = "WEAK" /\ state'[n] = "PENDING")
  BY <1>2
<1>4. InUseInv' /\ WeakCounted'
  <2>1. \A n \in Node : state'[n] = state[n] \/ (state[n] \in WeakState /\ state'[n] \in WeakState)
    BY <1>3 DEF WeakState
  <2>2. UNCHANGED <<handles, number_of_weak_handles>>
    BY DEF CollectGarbage
  <2> QED
    BY <1>1, <2>1, <2>2, WeakStatesChange
<1>5. state' \in [Node -> State]
  BY <1>1, <1>2 DEF TypeOK, State
<1>6. /\ rounds' \in Seq(Round) /\ Len(rounds') = Len(rounds) + 1 /\ ~Top'.stale /\ Len(rounds) \in Nat
      /\ \A d \in 1 .. Len(rounds) : rounds'[d].stale /\ rounds'[d].callback = rounds[d].callback
  BY <1>1, TopPushed DEF TypeOK
<1>7. \A d \in 1 .. Len(rounds) : rounds[d].callback # NULL
  <2> TAKE d \in 1 .. Len(rounds)
  <2>1. rounds # <<>> /\ (d = Len(rounds) \/ d \in 1 .. Len(rounds) - 1)
    BY <1>6
  <2> QED
    BY <1>1, <2>1 DEF MayCallApi, Top, RoundsInv
<1>8. RoundsInv'
  <2>1. Len(rounds') - 1 = Len(rounds)
    BY <1>6
  <2> QED
    BY <1>6, <1>7, <2>1 DEF RoundsInv
<1>9. TypeOK'
  BY <1>1, <1>5, <1>6 DEF TypeOK, CollectGarbage, listVars
<1> QED
  BY <1>4, <1>8, <1>9

\* The start of a callback.
LEMMA ProcessPendingTypes ==
  ASSUME IInv, ProcessPending
  PROVE  TypeOK' /\ RoundsInv' /\ InUseInv' /\ WeakCounted'
<1>1. TypeOK /\ ListInv /\ RoundsInv /\ InUseInv /\ WeakCounted
  BY DEF IInv
<1>2. rounds # <<>> /\ ~Top.stale /\ Deref(Top.at) # NULL /\ Top \in Round /\ rounds \in Seq(Round)
  BY <1>1 DEF ProcessPending, Walking, RoundsInv, TypeOK, Top
<1>3. PICK n \in Node : n = Deref(Top.at)
  BY <1>1, <1>2, SweepNode
<1>4. /\ state[n] = "PENDING" /\ state' = [state EXCEPT ![n] = "NEAR_DEATH"]
      /\ SetTop([Top EXCEPT !.callback = n]) /\ UNCHANGED <<handles, number_of_weak_handles>>
      /\ first_free' = NULL /\ next' = RelinkDeallocated(next, head)
      /\ UNCHANGED <<head, next_free, first_deallocated>>
  BY <1>3 DEF ProcessPending, ForbidReuse
<1>5. state' \in [Node -> State] /\ state'[n] = "NEAR_DEATH" /\ \A m \in Node \ {n} : state'[m] = state[m]
  BY <1>1, <1>4 DEF TypeOK, State
<1>6. InUseInv' /\ WeakCounted'
  <2>1. \A m \in Node : state'[m] = state[m] \/ (state[m] \in WeakState /\ state'[m] \in WeakState)
    BY <1>4, <1>5 DEF WeakState
  <2> QED
    BY <1>1, <1>4, <2>1, WeakStatesChange
<1>7. next' \in [Node -> Node \cup {NULL}]
  BY <1>1, <1>4 DEF TypeOK, RelinkDeallocated
<1>8. rounds' \in Seq(Round) /\ RoundsInv'
  <2>1. PICK r : r = [Top EXCEPT !.callback = n]
    OBVIOUS
  <2>2. r \in Round /\ ~r.stale /\ SetTop(r)
    BY <1>2, <1>4, <2>1 DEF Round
  <2>3. /\ rounds' \in Seq(Round) /\ Top' = r /\ Len(rounds') = Len(rounds)
        /\ \A d \in 1 .. Len(rounds) - 1 : rounds'[d] = rounds[d]
    BY <1>2, <2>2, TopSet
  <2> QED
    BY <1>1, <2>2, <2>3 DEF RoundsInv
<1>9. TypeOK'
  BY <1>1, <1>4, <1>5, <1>7, <1>8 DEF TypeOK
<1> QED
  BY <1>6, <1>8, <1>9

\* The steps of a walk that change no state of a node.
LEMMA WalkTypes ==
  ASSUME IInv, ProcessOther \/ WalkEnds \/ CallbackReturns
  PROVE  TypeOK' /\ RoundsInv' /\ InUseInv' /\ WeakCounted'
<1>1. TypeOK /\ ListInv /\ RoundsInv /\ InUseInv /\ WeakCounted
  BY DEF IInv
<1>2. UNCHANGED <<state, handles, number_of_weak_handles>> /\ rounds # <<>> /\ Top \in Round
  BY <1>1 DEF ProcessOther, WalkEnds, CallbackReturns, Walking, TypeOK, Top
<1>3. InUseInv' /\ WeakCounted'
  BY <1>1, <1>2, WeakStatesChange
<1>4. CASE ProcessOther
  <2>1. ~Top.stale /\ Deref(Top.at) # NULL /\ Sweep(Top) /\ UNCHANGED first_free
    BY <1>1, <1>4 DEF ProcessOther, RoundsInv
  <2> QED
    BY <1>1, <1>2, <1>3, <2>1, SweepTypes
<1>5. CASE WalkEnds
  BY <1>1, <1>2, <1>3, <1>5, EndRoundTypes DEF WalkEnds
<1>6. CASE CallbackReturns /\ Top.stale
  <2>1. EndRound
    BY <1>6 DEF CallbackReturns, BreaksOff
  <2> QED
    BY <1>1, <1>2, <1>3, <2>1, EndRoundTypes
<1>7. CASE CallbackReturns /\ ~Top.stale
  <2>1. PICK round : round = [Top EXCEPT !.callback = NULL]
    OBVIOUS
  <2>2. Sweep(round) /\ Top.callback # NULL /\ UNCHANGED first_free
    BY <1>7, <2>1 DEF CallbackReturns, BreaksOff
  <2>3. round \in Round /\ round.at = Top.at /\ ~round.stale
    BY <1>2, <1>7, <2>1 DEF Round
  <2> QED
    BY <1>1, <1>2, <1>3, <1>7, <2>2, <2>3, SweepTypes
<1> QED
  BY <1>4, <1>5, <1>6, <1>7

\* The invariant holds at first: all lists are empty.
LEMMA InitInv == Init => IInv
<1> SUFFICES ASSUME Init PROVE IInv
  OBVIOUS
<1>1. TypeOK
  BY DEF Init, TypeOK, State
<1>2. ListInv
  <2> DEFINE none == [k \in 1 .. 0 |-> NULL]
  <2>1. none \in [1 .. 0 -> Node] /\ 0 \in Nat /\ \A n : ~On(n, none, 0)
    BY DEF On
  <2>2. IsList(head, next, 0, none) /\ IsList(first_deallocated, next_free, 0, none)
        /\ IsList(first_free, next_free, 0, none)
    BY <2>1 DEF Init, IsList, NodeAt
  <2>3. \A n \in Node : state[n] = "POOL"
    BY DEF Init
  <2> HIDE DEF none
  <2>4. AllInv(0, none, 0, none)
    BY <2>1, <2>2, <2>3 DEF AllInv
  <2>5. ReuseInv(0, none)
    <3>1. first_deallocated = NULL /\ \A k \in 1 .. 0 : state[none[k]] = "DESTROYED" /\ On(none[k], none, 0)
      BY DEF Init
    <3> QED
      BY <2>1, <2>2, <3>1 DEF ReuseInv
  <2>6. WalkInv(0, none)
    BY <2>3 DEF Init, WalkInv
  <2> QED
    BY <2>1, <2>4, <2>5, <2>6 DEF ListInv
<1>3. RoundsInv
  BY DEF Init, RoundsInv, Walking
<1>4. InUseInv
  BY DEF Init, InUseInv
<1>5. WeakCounted
  <2>1. {n \in handles : IsWeakOrNearDeath(n)} = {}
    BY DEF Init
  <2> QED
    BY <2>1, FS_EmptySet DEF Init, WeakCounted
<1> QED
  BY <1>1, <1>2, <1>3, <1>4, <1>5 DEF IInv

\* Every step keeps it.
LEMMA StepInv == IInv /\ [Next]_vars => IInv'
<1> SUFFICES ASSUME IInv, [Next]_vars PROVE IInv'
  OBVIOUS
<1>1. TypeOK /\ ListInv /\ RoundsInv /\ InUseInv /\ WeakCounted
  BY DEF IInv
<1>2. ASSUME ApiStep PROVE IInv'
  <2>1. ListInv'
    BY <1>1, <1>2, CreateLists, DestroyLists, WeaknessLists DEF ApiStep
  <2> QED
    BY <1>2, <2>1, ApiTypes DEF IInv
<1>3. CASE CollectGarbage
  BY <1>1, <1>3, CollectLists, CollectTypes DEF IInv
<1>4. CASE ProcessPending
  BY <1>1, <1>4, ProcessPendingLists, ProcessPendingTypes DEF IInv
<1>5. CASE ProcessOther \/ WalkEnds \/ CallbackReturns
  <2>1. ListInv'
    BY <1>1, <1>5, ProcessOtherLists, WalkEndsLists, CallbackReturnsLists
  <2> QED
    BY <1>5, <2>1, WalkTypes DEF IInv
<1>6. CASE UNCHANGED vars
  <2>1. TypeOK' /\ RoundsInv' /\ InUseInv' /\ WeakCounted'
    BY <1>1, <1>6 DEF vars, listVars, TypeOK, RoundsInv, Walking, Top, InUseInv, WeakCounted,
                      IsWeakOrNearDeath, IsNearDeath
  <2>2. ListInv'
    <3>1. PICK len, L, dlen, D : Lists(len, L, dlen, D)
      BY <1>1, ListInvParts
    <3>2. AllInv(len, L, dlen, D)'
      BY <1>6, <3>1, ListsKept DEF vars, listVars
    <3>3. WalkInv(len, L)' /\ MayCallApi' = MayCallApi
      BY <1>6, <3>1, WalkKept DEF vars
    <3>4. ReuseInv(len, L) => ReuseInv(len, L)'
      BY <1>6 DEF vars, listVars, ReuseInv, IsList
    <3> QED
      BY <3>1, <3>2, <3>3, <3>4, ListInvParts DEF Lists
  <2> QED
    BY <2>1, <2>2 DEF IInv
<1> QED
  BY <1>2, <1>3, <1>4, <1>5, <1>6 DEF Next, ApiStep

\* The lists are sequences of nodes, in every state that is reached.
THEOREM GlobalHandlesInvariant == Spec => []IInv
BY InitInv, StepInv, PTL DEF Spec

---------------------------------------------------------------------------
(* What follows.                                                            *)

\* Whatever weak callbacks create, destroy or collect in the middle of a walk:
\* what is held is listed, what is handed out is unused, and every destroyed
\* node is on the list that finds it.
THEOREM ListsConsistentHolds == Spec => []ListsConsistent
<1>1. ASSUME IInv PROVE ListsConsistent
  <2>1. PICK len, L, dlen, D : Lists(len, L, dlen, D)
    BY <1>1, ListInvParts DEF IInv
  <2>2. /\ Ends(head, next) /\ Listed \subseteq Node
        /\ \A n \in Node : n \in Listed <=> On(n, L, len)
    BY <2>1, Nodes, ListNodes DEF Listed
  <2>3. /\ Ends(first_deallocated, next_free) /\ Deallocated \subseteq Node
        /\ \A n \in Node : n \in Deallocated <=> On(n, D, dlen)
    BY <2>1, Nodes, ListNodes DEF Deallocated
  <2>4. HandlesListed
    BY <1>1, <2>1, <2>2, Nodes DEF IInv, InUseInv, HandlesListed
  <2>5. ASSUME MayCallApi
        PROVE  /\ Ends(first_free, next_free) /\ Free \subseteq Listed
               /\ \A n \in Free : state[n] = "DESTROYED"
    <3>1. ReuseInv(len, L)
      BY <2>1, <2>5 DEF Lists
    <3>2. PICK flen \in Nat : \E F \in [1 .. flen -> Node] :
            /\ IsList(first_free, next_free, flen, F)
            /\ \A k \in 1 .. flen : state[F[k]] = "DESTROYED" /\ On(F[k], L, len)
      BY <3>1 DEF ReuseInv
    <3>3. PICK F \in [1 .. flen -> Node] :
            /\ IsList(first_free, next_free, flen, F)
            /\ \A k \in 1 .. flen : state[F[k]] = "DESTROYED" /\ On(F[k], L, len)
      BY <3>2
    <3>4. /\ Ends(first_free, next_free) /\ Free \subseteq Node
          /\ \A n \in Node : n \in Free <=> On(n, F, flen)
      BY <3>3, ListNodes DEF Free
    <3>5. \A n \in Free : state[n] = "DESTROYED" /\ On(n, L, len)
      BY <3>3, <3>4 DEF On
    <3> QED
      BY <2>2, <3>4, <3>5
  <2>6. (\A n \in Deallocated : state[n] = "DESTROYED") /\ Deallocated \cap Listed = {}
    BY <2>1, <2>2, <2>3, Nodes
  <2>7. ReusableUnused
    BY <2>3, <2>5, <2>6 DEF ReusableUnused
  <2>8. DeallocatedLinked
    BY <2>1 DEF Lists, ReuseInv, DeallocatedLinked
  <2>9. NoNodeLost
    BY <2>1, <2>2, <2>3 DEF Lists, AllInv, NoNodeLost
  <2> QED
    BY <1>1, <2>4, <2>7, <2>8, <2>9 DEF IInv, ListsConsistent
<1> QED
  BY <1>1, GlobalHandlesInvariant, PTL

\* number_of_weak_handles_ is the number of handles that are weak or near death.
THEOREM WeakCountedHolds == Spec => []WeakCounted
<1>1. IInv => WeakCounted
  BY DEF IInv
<1> QED
  BY <1>1, GlobalHandlesInvariant, PTL

\* No handle that was found to be garbage is left without its callback, though
\* walks are broken off.
THEOREM AllNotifiedHolds == Spec => []AllNotified
<1>1. IInv => AllNotified
  BY DEF IInv, ListInv, WalkInv, AllNotified
<1> QED
  BY <1>1, GlobalHandlesInvariant, PTL

\* A walk goes on at a node of the list.
THEOREM WalkSafeHolds == Spec => []WalkSafe
<1>1. ASSUME IInv PROVE WalkSafe
  <2> SUFFICES ASSUME NEW r \in Range(rounds), ~r.stale
               PROVE  (r.at # NULL => r.at \in Listed) /\ (r.callback # NULL => Deref(r.at) # NULL)
    BY DEF WalkSafe
  <2>1. rounds \in Seq(Round)
    BY <1>1 DEF IInv, TypeOK
  <2>2. PICK d \in 1 .. Len(rounds) : r = rounds[d]
    BY <2>1 DEF Range
  <2>3. rounds # <<>> /\ r = Top
    <3>1. d = Len(rounds) \/ d \in 1 .. Len(rounds) - 1
      BY <2>1
    <3>2. rounds # <<>>
      BY <2>1
    <3> QED
      BY <1>1, <2>2, <3>1, <3>2 DEF IInv, RoundsInv, Top
  <2>4. PICK len, L, dlen, D : Lists(len, L, dlen, D)
    BY <1>1, ListInvParts DEF IInv
  <2>5. PICK p \in 0 .. len : WalkAt(len, L, p)
    BY <2>3, <2>4 DEF Lists, WalkInv
  <2>6. len \in Nat /\ \A n \in Node : n \in Listed <=> On(n, L, len)
    BY <2>4, Nodes, ListNodes DEF Listed
  <2>7. r.at # NULL => r.at \in Listed
    <3>1. p # 0 => p \in 1 .. len /\ L[p] \in Node
      BY <2>4, <2>6 DEF Lists
    <3> QED
      BY <2>3, <2>5, <2>6, <3>1 DEF WalkAt, On
  <2>8. r.callback # NULL => Deref(r.at) # NULL
    BY <2>3, <2>4, <2>5, DerefAt DEF WalkAt
  <2> QED
    BY <2>7, <2>8
<1> QED
  BY <1>1, GlobalHandlesInvariant, PTL
=============================================================================
