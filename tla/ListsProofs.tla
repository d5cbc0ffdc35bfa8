------------------------------ MODULE ListsProofs ------------------------------
(***************************************************************************)
(* That the links of persistent lists implement the sequences of           *)
(* SavedLists, savepoints included, for any heads and items.               *)
(***************************************************************************)
EXTENDS PersistentLists, RouteProofs, FiniteSetTheorems

(***************************************************************************)
(* A list of head h with the items of q is a chain of links there and      *)
(* back, in which the head has both places 0 and Len(q) + 1.               *)
(***************************************************************************)
Fields == {"next", "prev"}
Links == [Fields -> [ListNodes -> ListNodes]]
NodeAt(h, q, i) == IF i \in 1 .. Len(q) THEN q[i] ELSE h

\* The links between two places.
Step(l, h, q, i) ==
  /\ l["next"][NodeAt(h, q, i)] = NodeAt(h, q, i + 1)
  /\ l["prev"][NodeAt(h, q, i + 1)] = NodeAt(h, q, i)

Ring(l, h, q) == q \in Seq(Items) /\ \A i \in 0 .. Len(q) : Step(l, h, q, i)

\* The nodes of a list.
NodesOf(h, q) == {NodeAt(h, q, i) : i \in 0 .. Len(q) + 1}

\* The links of the two fields lead from nodes to nodes.
LEMMA LinkTypes ==
  ASSUME NEW l \in Links, NEW n \in ListNodes
  PROVE  l["next"][n] \in ListNodes /\ l["prev"][n] \in ListNodes
BY DEF Links, Fields

\* The places of a list.
LEMMA ListPlaces ==
  ASSUME NEW h \in Heads, NEW q \in Seq(Items)
  PROVE  /\ Len(q) \in Nat /\ h \in ListNodes /\ h \notin Items
         /\ \A i \in 1 .. Len(q) : q[i] \in Items /\ q[i] # h /\ NodeAt(h, q, i) = q[i]
         /\ NodeAt(h, q, 0) = h /\ NodeAt(h, q, Len(q) + 1) = h
         /\ \A i \in 0 .. Len(q) + 1 : NodeAt(h, q, i) \in ListNodes
         /\ NodesOf(h, q) = {h} \cup ToSet(q) /\ ToSet(q) = {q[i] : i \in 1 .. Len(q)}
         /\ NodesOf(h, q) \subseteq ListNodes /\ ToSet(q) \subseteq Items
<1>1. Len(q) \in Nat /\ h \in ListNodes /\ h \notin Items
  BY ListsAssumption DEF ListNodes
<1>2. \A i \in 1 .. Len(q) : q[i] \in Items /\ q[i] # h /\ NodeAt(h, q, i) = q[i]
  BY <1>1 DEF NodeAt
<1>3. NodeAt(h, q, 0) = h /\ NodeAt(h, q, Len(q) + 1) = h
  BY <1>1 DEF NodeAt
<1>4. \A i \in 0 .. Len(q) + 1 : NodeAt(h, q, i) \in ListNodes
  BY <1>1, <1>2 DEF NodeAt, ListNodes
<1>5. ToSet(q) = {q[i] : i \in 1 .. Len(q)}
  BY <1>1 DEF ToSet
<1>6. NodesOf(h, q) = {h} \cup ToSet(q)
  <2>1. ASSUME NEW i \in 0 .. Len(q) + 1 PROVE NodeAt(h, q, i) \in {h} \cup ToSet(q)
    BY <1>5 DEF NodeAt
  <2>2. h \in NodesOf(h, q)
    <3>1. 0 \in 0 .. Len(q) + 1
      BY <1>1
    <3> QED
      BY <1>3, <3>1 DEF NodesOf
  <2>3. ASSUME NEW i \in 1 .. Len(q) PROVE q[i] \in NodesOf(h, q)
    <3>1. i \in 0 .. Len(q) + 1
      BY <1>1
    <3> QED
      BY <1>2, <3>1 DEF NodesOf
  <2> QED
    BY <1>5, <2>1, <2>2, <2>3 DEF NodesOf
<1>7. ToSet(q) \subseteq Items
  BY <1>2, <1>5
<1> QED
  BY <1>1, <1>2, <1>3, <1>4, <1>5, <1>6, <1>7 DEF ListNodes

\* No item has two places, since the way back from it would lead to the head twice.
LEMMA RingInjective ==
  ASSUME NEW l, NEW h \in Heads, NEW q, Ring(l, h, q),
         NEW i \in 1 .. Len(q), NEW j \in 1 .. Len(q), q[i] = q[j]
  PROVE  i = j
<1> DEFINE at(k) == NodeAt(h, q, k)
           bad == {k \in Nat : k \in 1 .. Len(q) /\ \E m \in 1 .. Len(q) : k < m /\ at(k) = at(m)}
<1>1. Len(q) \in Nat /\ at(0) = h /\ \A k \in 1 .. Len(q) : q[k] # h /\ at(k) = q[k]
  BY ListPlaces DEF Ring
<1>2. \A k \in 1 .. Len(q) : l["prev"][at(k)] = at(k - 1)
  <2> SUFFICES ASSUME NEW k \in 1 .. Len(q) PROVE l["prev"][at(k)] = at(k - 1)
    OBVIOUS
  <2>1. k - 1 \in 0 .. Len(q) /\ (k - 1) + 1 = k
    BY <1>1
  <2>2. Step(l, h, q, k - 1)
    BY <2>1 DEF Ring
  <2> QED
    BY <2>1, <2>2 DEF Step
<1>3. bad = {}
  <2> SUFFICES ASSUME bad # {} PROVE FALSE
    OBVIOUS
  <2>1. bad \subseteq Nat
    OBVIOUS
  <2>2. PICK k \in bad : \A m \in bad : k <= m
    <3> HIDE DEF bad
    <3> QED
      BY <2>1, LeastElement
  <2>3. PICK m \in 1 .. Len(q) : k < m /\ at(k) = at(m)
    OBVIOUS
  <2>4. at(k - 1) = at(m - 1)
    BY <1>2, <2>3
  <2>5. CASE k = 1
    <3>1. m - 1 \in 1 .. Len(q)
      BY <1>1, <2>3, <2>5
    <3>2. at(m - 1) = q[m - 1] /\ q[m - 1] # h /\ at(k - 1) = h
      BY <1>1, <2>5, <3>1
    <3> QED
      BY <2>4, <3>2
  <2>6. CASE k # 1
    <3>1. k - 1 \in 1 .. Len(q) /\ m - 1 \in 1 .. Len(q) /\ k - 1 < m - 1 /\ k - 1 \in Nat
      BY <1>1, <2>3, <2>6
    <3>2. k - 1 \in bad
      BY <2>4, <3>1
    <3> QED
      BY <2>2, <3>1, <3>2
  <2> QED
    BY <2>5, <2>6
<1> HIDE DEF at
<1>4. at(i) = at(j) /\ i \in Nat /\ j \in Nat
  BY <1>1
<1>5. ~(i < j) /\ ~(j < i)
  BY <1>3, <1>4
<1> QED
  BY <1>4, <1>5

\* Nor have two places the same node, except that the head is at both ends.
LEMMA NodeAtInjective ==
  ASSUME NEW l, NEW h \in Heads, NEW q, Ring(l, h, q)
  PROVE  /\ \A i, j \in 0 .. Len(q) : NodeAt(h, q, i) = NodeAt(h, q, j) => i = j
         /\ \A i, j \in 1 .. Len(q) + 1 : NodeAt(h, q, i) = NodeAt(h, q, j) => i = j
<1>1. PICK N \in Nat : N = Len(q) /\ \A i \in 1 .. N : q[i] # h /\ NodeAt(h, q, i) = q[i]
  BY ListPlaces DEF Ring
<1>2. NodeAt(h, q, 0) = h /\ NodeAt(h, q, N + 1) = h
  BY <1>1, ListPlaces DEF Ring
<1>3. \A i, j \in 1 .. N : NodeAt(h, q, i) = NodeAt(h, q, j) => i = j
  BY <1>1, RingInjective
<1>4. ASSUME NEW i \in 0 .. N, NEW j \in 0 .. N, NodeAt(h, q, i) = NodeAt(h, q, j) PROVE i = j
  <2>1. (i = 0 \/ i \in 1 .. N) /\ (j = 0 \/ j \in 1 .. N)
    OBVIOUS
  <2> QED
    BY <1>1, <1>2, <1>3, <1>4, <2>1
<1>5. ASSUME NEW i \in 1 .. N + 1, NEW j \in 1 .. N + 1, NodeAt(h, q, i) = NodeAt(h, q, j) PROVE i = j
  <2>1. (i = N + 1 \/ i \in 1 .. N) /\ (j = N + 1 \/ j \in 1 .. N)
    OBVIOUS
  <2> QED
    BY <1>1, <1>2, <1>3, <1>5, <2>1
<1> QED
  BY <1>1, <1>4, <1>5

\* Nodes whose links lead to each other only are in no list of another head.
LEMMA RingApart ==
  ASSUME NEW l, NEW h \in Heads, NEW q, Ring(l, h, q), NEW S, h \notin S,
         \A n \in S : l["next"][n] \in S
  PROVE  NodesOf(h, q) \cap S = {}
<1> DEFINE N == Len(q) + 1
           T == {k \in 0 .. N : NodeAt(h, q, N - k) \notin S}
<1>1. N \in Nat /\ NodeAt(h, q, N) = h
  BY ListPlaces DEF Ring
<1>2. 0 \in T
  BY <1>1
<1>3. ASSUME NEW k \in 1 .. N, k - 1 \in T PROVE k \in T
  <2>1. N - k \in 0 .. Len(q) /\ (N - k) + 1 = N - (k - 1) /\ k \in 0 .. N
    BY <1>1
  <2>2. l["next"][NodeAt(h, q, N - k)] = NodeAt(h, q, N - (k - 1))
    BY <2>1 DEF Ring, Step
  <2>3. NodeAt(h, q, N - (k - 1)) \notin S
    BY <1>3
  <2> QED
    BY <2>1, <2>2, <2>3
<1>4. 0 .. N \subseteq T
  <2> HIDE DEF T, N
  <2> QED
    BY <1>1, <1>2, <1>3, UpTo
<1>5. ASSUME NEW i \in 0 .. N PROVE NodeAt(h, q, i) \notin S
  <2>1. N - i \in 0 .. N /\ N - (N - i) = i
    BY <1>1
  <2> QED
    BY <1>4, <2>1
<1> QED
  BY <1>5 DEF NodesOf

\* No item is in two lists.
LEMMA RingsApart ==
  ASSUME NEW l, NEW h \in Heads, NEW q, Ring(l, h, q), NEW g \in Heads, NEW p, Ring(l, g, p), h # g
  PROVE  NodesOf(h, q) \cap NodesOf(g, p) = {}
<1>1. ASSUME NEW n \in NodesOf(g, p) PROVE l["next"][n] \in NodesOf(g, p)
  <2>1. Len(p) \in Nat /\ NodeAt(g, p, Len(p) + 1) = NodeAt(g, p, 0)
    BY ListPlaces DEF Ring
  <2>2. PICK i \in 0 .. Len(p) : n = NodeAt(g, p, i)
    <3>1. PICK i \in 0 .. Len(p) + 1 : n = NodeAt(g, p, i)
      BY DEF NodesOf
    <3>2. CASE i = Len(p) + 1
      <4>1. 0 \in 0 .. Len(p)
        BY <2>1
      <4> QED
        BY <2>1, <3>1, <3>2, <4>1
    <3>3. CASE i # Len(p) + 1
      <4>1. i \in 0 .. Len(p)
        BY <2>1, <3>3
      <4> QED
        BY <3>1, <4>1
    <3> QED
      BY <3>2, <3>3
  <2>3. i + 1 \in 0 .. Len(p) + 1 /\ l["next"][n] = NodeAt(g, p, i + 1)
    BY <2>1, <2>2 DEF Ring, Step
  <2> QED
    BY <2>3 DEF NodesOf
<1>2. h \notin NodesOf(g, p)
  BY ListPlaces DEF Ring
<1> QED
  BY <1>1, <1>2, RingApart

(***************************************************************************)
(* What the links of a head read as.                                       *)
(***************************************************************************)
Furthest == Cardinality(Items) + 1

Walking(l, h, at) ==
  at = [n \in 0 .. Cardinality(Items) + 1 |-> IF n = 0 THEN h ELSE l["next"][at[n - 1]]]

\* The nodes that next leads to from the head.
Walk(l, h, at, k) == at[0] = h /\ \A n \in 1 .. k : at[n] = l["next"][at[n - 1]]

\* There is a bound on them.
LEMMA FurthestNat == Furthest \in Nat \ {0} /\ Cardinality(Items) \in Nat
BY ListsAssumption, FS_CardinalityType DEF Furthest

\* The function that ListOf defines by recursion exists.
LEMMA WalkExists ==
  ASSUME NEW l, NEW h
  PROVE  \E at : Walking(l, h, at) /\ Walk(l, h, at, Furthest)
<1> DEFINE T == {k \in 0 .. Furthest : \E f : Walk(l, h, f, k)}
<1>1. 0 \in T
  <2>1. PICK f : f = [n \in 0 .. 0 |-> h]
    OBVIOUS
  <2>2. Walk(l, h, f, 0)
    BY <2>1 DEF Walk
  <2> QED
    BY <2>2, FurthestNat
<1>2. ASSUME NEW k \in 1 .. Furthest, k - 1 \in T PROVE k \in T
  <2>1. PICK f : Walk(l, h, f, k - 1)
    BY <1>2
  <2>2. PICK g : g = [n \in 0 .. k |-> IF n = k THEN l["next"][f[k - 1]] ELSE f[n]]
    OBVIOUS
  <2>3. k \in Nat \ {0} /\ k \in 0 .. Furthest /\ k - 1 \in 0 .. k /\ 0 \in 0 .. k
    BY FurthestNat
  <2>4. g[0] = h /\ g[k] = l["next"][g[k - 1]]
    BY <2>1, <2>2, <2>3 DEF Walk
  <2>5. ASSUME NEW n \in 1 .. k - 1 PROVE g[n] = l["next"][g[n - 1]]
    <3>1. n \in 0 .. k /\ n # k /\ n - 1 \in 0 .. k /\ n - 1 # k
      BY <2>3
    <3> QED
      BY <2>1, <2>2, <3>1 DEF Walk
  <2>6. \A n \in 1 .. k : n = k \/ n \in 1 .. k - 1
    BY <2>3
  <2>7. Walk(l, h, g, k)
    BY <2>4, <2>5, <2>6 DEF Walk
  <2> QED
    BY <2>3, <2>7
<1>3. Furthest \in T
  <2>1. 0 .. Furthest \subseteq T
    <3> HIDE DEF T
    <3> QED
      BY <1>1, <1>2, FurthestNat, UpTo
  <2> QED
    BY <2>1, FurthestNat
<1>4. PICK f : Walk(l, h, f, Furthest)
  BY <1>3
<1>5. PICK at : at = [n \in 0 .. Furthest |-> f[n]]
  OBVIOUS
<1>6. \A n \in 1 .. Furthest : n \in 0 .. Furthest /\ n - 1 \in 0 .. Furthest
  BY FurthestNat
<1>7. Walk(l, h, at, Furthest)
  BY <1>4, <1>5, <1>6, FurthestNat DEF Walk
<1>8. \A n \in 0 .. Furthest : n = 0 \/ n \in 1 .. Furthest
  BY FurthestNat
<1>9. at = [n \in 0 .. Furthest |-> IF n = 0 THEN h ELSE l["next"][at[n - 1]]]
  BY <1>5, <1>7, <1>8 DEF Walk
<1> QED
  BY <1>7, <1>9 DEF Walking, Furthest

\* Where next first leads back to the head the list ends, if it is one.
Ends(at, h, size) ==
  /\ size \in 1 .. Furthest /\ at[size] = h
  /\ \A k \in 1 .. Furthest : at[k] = h => size <= k

\* What a list reads as.
LEMMA ListOfWalk ==
  ASSUME NEW l, NEW h
  PROVE  \E at :
           /\ Walk(l, h, at, Furthest)
           /\ (\A n \in 1 .. Furthest : at[n] # h) => ListOf(l, h) = Broken
           /\ \A size : Ends(at, h, size) =>
                ListOf(l, h) = IF \A n \in 1 .. size : l["prev"][at[n]] = at[n - 1]
                               THEN [n \in 1 .. size - 1 |-> at[n]] ELSE Broken
<1> DEFINE at == CHOOSE f : Walking(l, h, f)
           back == {n \in DOMAIN at \ {0} : at[n] = h}
           first == CHOOSE n \in back : \A k \in back : n <= k
<1>1. Walking(l, h, at)
  BY WalkExists
<1>2. ListOf(l, h) = IF back # {} /\ \A n \in 1 .. first : l["prev"][at[n]] = at[n - 1]
                     THEN [n \in 1 .. first - 1 |-> at[n]] ELSE Broken
  BY DEF ListOf, Walking
<1> HIDE DEF at
<1>3. DOMAIN at = 0 .. Furthest /\ Walk(l, h, at, Furthest)
  <2>1. at = [n \in 0 .. Furthest |-> IF n = 0 THEN h ELSE l["next"][at[n - 1]]]
    BY <1>1 DEF Walking, Furthest
  <2>2. \A n \in 1 .. Furthest : n \in 0 .. Furthest /\ n # 0
    BY FurthestNat
  <2>3. 0 \in 0 .. Furthest
    BY FurthestNat
  <2>4. DOMAIN at = 0 .. Furthest
    BY <2>1
  <2>5. at[0] = h
    BY <2>1, <2>3
  <2>6. \A n \in 1 .. Furthest : at[n] = l["next"][at[n - 1]]
    BY <2>1, <2>2
  <2> QED
    BY <2>4, <2>5, <2>6 DEF Walk
<1>4. \A n : n \in back <=> n \in 1 .. Furthest /\ at[n] = h
  <2>1. \A n : n \in 0 .. Furthest /\ n # 0 <=> n \in 1 .. Furthest
    BY FurthestNat
  <2> QED
    BY <1>3, <2>1
<1> HIDE DEF back
<1>5. ASSUME NEW size, Ends(at, h, size) PROVE back # {} /\ first = size
  <2>1. size \in back /\ \A k \in back : size <= k
    BY <1>4, <1>5 DEF Ends
  <2>2. first \in back /\ \A k \in back : first <= k
    BY <2>1
  <2>3. size \in Nat /\ first \in Nat
    <3> HIDE DEF first
    <3> QED
      BY <1>4, <2>1, <2>2
  <2>4. size <= first /\ first <= size
    BY <2>1, <2>2
  <2> HIDE DEF first
  <2> QED
    BY <2>1, <2>3, <2>4
<1> HIDE DEF first
<1>6. (\A n \in 1 .. Furthest : at[n] # h) => ListOf(l, h) = Broken
  BY <1>2, <1>4
<1>7. ASSUME NEW size, Ends(at, h, size)
      PROVE  ListOf(l, h) = IF \A n \in 1 .. size : l["prev"][at[n]] = at[n - 1]
                            THEN [n \in 1 .. size - 1 |-> at[n]] ELSE Broken
  <2>1. back # {} /\ first = size
    BY <1>5, <1>7
  <2> QED
    BY ONLY <1>2, <2>1
<1> QED
  BY <1>3, <1>6, <1>7

\* Where next leads back to the head it does so for the first time somewhere.
LEMMA EndExists ==
  ASSUME NEW at, NEW h, NEW n \in 1 .. Furthest, at[n] = h
  PROVE  \E size : Ends(at, h, size)
<1>1. PICK B : B = {k \in 1 .. Furthest : at[k] = h}
  OBVIOUS
<1>2. B \subseteq Nat /\ B # {}
  BY <1>1
<1>3. PICK size \in B : \A k \in B : size <= k
  BY <1>2, LeastElement
<1> QED
  BY <1>1, <1>3 DEF Ends

\* The links lead from the head through other nodes back to it, and as far back again.
Loop(l, h, at, size) ==
  /\ size \in 1 .. Furthest /\ at[0] = h /\ at[size] = h
  /\ \A n \in 1 .. size - 1 : at[n] # h
  /\ \A n \in 1 .. size : at[n] = l["next"][at[n - 1]] /\ l["prev"][at[n]] = at[n - 1]

\* What is not Broken are the nodes of such a loop.
LEMMA WholeLoop ==
  ASSUME NEW l, NEW h, ListOf(l, h) # Broken
  PROVE  \E at, size : Loop(l, h, at, size) /\ ListOf(l, h) = [n \in 1 .. size - 1 |-> at[n]]
<1>1. PICK at :
        /\ Walk(l, h, at, Furthest)
        /\ (\A n \in 1 .. Furthest : at[n] # h) => ListOf(l, h) = Broken
        /\ \A size : Ends(at, h, size) =>
             ListOf(l, h) = IF \A n \in 1 .. size : l["prev"][at[n]] = at[n - 1]
                            THEN [n \in 1 .. size - 1 |-> at[n]] ELSE Broken
  BY ListOfWalk
<1>2. PICK size : Ends(at, h, size)
  BY <1>1, EndExists
<1>3. /\ \A n \in 1 .. size : l["prev"][at[n]] = at[n - 1]
      /\ ListOf(l, h) = [n \in 1 .. size - 1 |-> at[n]]
  BY <1>1, <1>2
<1>4. /\ size \in 1 .. Furthest /\ size \in Nat /\ at[size] = h
      /\ \A n \in 1 .. Furthest : at[n] = h => size <= n
  BY <1>2, FurthestNat DEF Ends
<1>5. ASSUME NEW n \in 1 .. size - 1 PROVE at[n] # h
  <2>1. n \in 1 .. Furthest /\ ~(size <= n)
    BY <1>4, FurthestNat
  <2> QED
    BY <1>4, <2>1
<1>6. \A n \in 1 .. size : n \in 1 .. Furthest
  BY <1>4, FurthestNat
<1>7. at[0] = h /\ \A n \in 1 .. size : at[n] = l["next"][at[n - 1]]
  BY <1>1, <1>6 DEF Walk
<1>8. Loop(l, h, at, size)
  BY <1>3, <1>4, <1>5, <1>7 DEF Loop
<1> QED
  BY <1>3, <1>8

\* And such a loop is what the links read as.
LEMMA LoopList ==
  ASSUME NEW l, NEW h, NEW at, NEW size, Loop(l, h, at, size)
  PROVE  ListOf(l, h) = [n \in 1 .. size - 1 |-> at[n]]
<1>1. PICK f :
        /\ Walk(l, h, f, Furthest)
        /\ (\A n \in 1 .. Furthest : f[n] # h) => ListOf(l, h) = Broken
        /\ \A m : Ends(f, h, m) =>
             ListOf(l, h) = IF \A n \in 1 .. m : l["prev"][f[n]] = f[n - 1]
                            THEN [n \in 1 .. m - 1 |-> f[n]] ELSE Broken
  BY ListOfWalk
<1>2. /\ size \in 1 .. Furthest /\ size \in Nat /\ at[0] = h /\ at[size] = h
      /\ \A n \in 1 .. size - 1 : at[n] # h
      /\ \A n \in 1 .. size : at[n] = l["next"][at[n - 1]] /\ l["prev"][at[n]] = at[n - 1]
  BY FurthestNat DEF Loop
<1>3. PICK T : T = {n \in 0 .. size : f[n] = at[n]}
  OBVIOUS
<1>4. 0 \in T
  BY <1>1, <1>2, <1>3 DEF Walk
<1>5. ASSUME NEW n \in 1 .. size, n - 1 \in T PROVE n \in T
  <2>1. n \in 1 .. Furthest /\ n \in 0 .. size
    BY <1>2, FurthestNat
  <2>2. f[n] = l["next"][f[n - 1]] /\ at[n] = l["next"][at[n - 1]] /\ f[n - 1] = at[n - 1]
    BY <1>1, <1>2, <1>3, <1>5, <2>1 DEF Walk
  <2> QED
    BY <1>3, <2>1, <2>2
<1>6. \A n \in 0 .. size : f[n] = at[n]
  <2>1. 0 .. size \subseteq T
    BY <1>2, <1>4, <1>5, UpTo
  <2> QED
    BY <1>3, <2>1
<1>7. Ends(f, h, size)
  <2>1. f[size] = h
    BY <1>2, <1>6
  <2>2. ASSUME NEW k \in 1 .. Furthest, f[k] = h, ~(size <= k) PROVE FALSE
    <3>1. k \in 1 .. size - 1 /\ k \in 0 .. size
      BY <1>2, <2>2
    <3> QED
      BY <1>2, <1>6, <2>2, <3>1
  <2> QED
    BY <1>2, <2>1, <2>2 DEF Ends
<1>8. \A n \in 1 .. size : n \in 0 .. size /\ n - 1 \in 0 .. size
  BY <1>2
<1>9. \A n \in 1 .. size : l["prev"][f[n]] = f[n - 1]
  BY <1>2, <1>6, <1>8
<1>10. ListOf(l, h) = [n \in 1 .. size - 1 |-> f[n]]
  BY <1>1, <1>7, <1>9
<1>11. \A n \in 1 .. size - 1 : f[n] = at[n]
  BY <1>2, <1>6
<1> QED
  BY <1>10, <1>11

\* The link back from the first node.
LEMMA HeadBack ==
  ASSUME NEW l, NEW h, ListOf(l, h) # Broken
  PROVE  l["prev"][l["next"][h]] = h
<1>1. PICK at, size : Loop(l, h, at, size)
  BY WholeLoop
<1>2. 1 \in 1 .. size /\ 1 - 1 = 0
  BY <1>1, FurthestNat DEF Loop
<1> QED
  BY <1>1, <1>2 DEF Loop

\* A sequence of items that the links read as is a list.
LEMMA WholeRing ==
  ASSUME NEW l, NEW h \in Heads, NEW q \in Seq(Items), ListOf(l, h) = q, q # Broken
  PROVE  Ring(l, h, q)
<1>1. PICK at, size : Loop(l, h, at, size) /\ q = [n \in 1 .. size - 1 |-> at[n]]
  BY WholeLoop
<1>2. /\ size \in Nat \ {0} /\ at[0] = h /\ at[size] = h
      /\ \A n \in 1 .. size : at[n] = l["next"][at[n - 1]] /\ l["prev"][at[n]] = at[n - 1]
  BY <1>1, FurthestNat DEF Loop
<1>3. Len(q) = size - 1 /\ Len(q) \in Nat
  BY <1>1, <1>2
<1>4. ASSUME NEW i \in 0 .. size PROVE NodeAt(h, q, i) = at[i]
  <2>1. CASE i \in 1 .. size - 1
    BY <1>1, <1>3, <2>1 DEF NodeAt
  <2>2. CASE i \notin 1 .. size - 1
    <3>1. i = 0 \/ i = size
      BY <1>2, <2>2
    <3> QED
      BY <1>2, <1>3, <2>2, <3>1 DEF NodeAt
  <2> QED
    BY <2>1, <2>2
<1>5. ASSUME NEW i \in 0 .. Len(q) PROVE Step(l, h, q, i)
  <2>1. i \in 0 .. size /\ i + 1 \in 0 .. size /\ i + 1 \in 1 .. size /\ (i + 1) - 1 = i
    BY <1>2, <1>3
  <2>2. NodeAt(h, q, i) = at[i] /\ NodeAt(h, q, i + 1) = at[i + 1]
    BY <1>4, <2>1
  <2>3. at[i + 1] = l["next"][at[i]] /\ l["prev"][at[i + 1]] = at[i]
    BY <1>2, <2>1
  <2> QED
    BY <2>2, <2>3 DEF Step
<1> QED
  BY <1>5 DEF Ring

\* A list holds no more than all items.
LEMMA RingShort ==
  ASSUME NEW l, NEW h \in Heads, NEW q, Ring(l, h, q)
  PROVE  Len(q) + 1 \in 1 .. Furthest /\ q # Broken
<1>1. PICK N \in Nat : N = Len(q)
  BY DEF Ring
<1>2. q \in [1 .. N -> Items]
  BY <1>1 DEF Ring
<1>3. q \in Injection(1 .. N, Items)
  <2>1. \A i, j \in 1 .. N : q[i] = q[j] => i = j
    BY <1>1, RingInjective
  <2> QED
    BY <1>2, <2>1 DEF Injection, IsInjective
<1>4. Cardinality(1 .. N) <= Cardinality(Items)
  BY <1>3, ListsAssumption, FS_Injection
<1>5. Cardinality(1 .. N) = N
  <2>1. 1 \in Int /\ N \in Int
    OBVIOUS
  <2>2. Cardinality(1 .. N) = IF 1 > N THEN 0 ELSE N - 1 + 1
    BY <2>1, FS_Interval
  <2> QED
    BY <2>2
<1>6. N \in 0 .. Cardinality(Items)
  BY <1>4, <1>5, FurthestNat
<1>7. q \in SeqOf(Items, Cardinality(Items))
  BY <1>2, <1>6 DEF SeqOf
<1> QED
  BY <1>1, <1>6, <1>7, FurthestNat, ListsAssumption DEF Furthest

\* It is what the links read as.
LEMMA RingList ==
  ASSUME NEW l, NEW h \in Heads, NEW q, Ring(l, h, q)
  PROVE  ListOf(l, h) = q /\ q # Broken /\ q \in Seq(Items)
<1>1. PICK size \in 1 .. Furthest : size = Len(q) + 1
  BY RingShort
<1>2. size \in Nat /\ Len(q) = size - 1 /\ q = [n \in 1 .. size - 1 |-> q[n]]
  BY <1>1, FurthestNat DEF Ring
<1>3. PICK at : at = [n \in 0 .. size |-> NodeAt(h, q, n)]
  OBVIOUS
<1>4. at[0] = h /\ at[size] = h /\ \A n \in 1 .. size - 1 : at[n] = q[n] /\ q[n] # h
  <2>1. /\ NodeAt(h, q, 0) = h /\ NodeAt(h, q, Len(q) + 1) = h
        /\ \A n \in 1 .. Len(q) : q[n] # h /\ NodeAt(h, q, n) = q[n]
    BY ListPlaces DEF Ring
  <2>2. 0 \in 0 .. size /\ size \in 0 .. size /\ \A n \in 1 .. size - 1 : n \in 0 .. size
    BY <1>2
  <2> QED
    BY <1>1, <1>2, <1>3, <2>1, <2>2
<1>5. ASSUME NEW n \in 1 .. size PROVE at[n] = l["next"][at[n - 1]] /\ l["prev"][at[n]] = at[n - 1]
  <2>1. n \in 0 .. size /\ n - 1 \in 0 .. size /\ n - 1 \in 0 .. Len(q) /\ (n - 1) + 1 = n
    BY <1>2
  <2>2. Step(l, h, q, n - 1)
    BY <2>1 DEF Ring
  <2> QED
    BY <1>3, <2>1, <2>2 DEF Step
<1>6. Loop(l, h, at, size)
  BY <1>1, <1>4, <1>5 DEF Loop
<1>7. ListOf(l, h) = [n \in 1 .. size - 1 |-> at[n]]
  BY <1>6, LoopList
<1> QED
  BY <1>2, <1>4, <1>7, RingShort DEF Ring

(***************************************************************************)
(* Links that read as lists of items, and what an operation on the lists   *)
(* of the heads H does to all of them, if it changes the links of the      *)
(* nodes S only.                                                           *)
(***************************************************************************)
Over(ls) == \A h \in Heads : ls[h] # Broken => ls[h] \in Seq(Items)

Reads(l, ls) == l \in Links /\ ls = ListsOf(l) /\ Over(ls)

Agree(l, k, n) == k["next"][n] = l["next"][n] /\ k["prev"][n] = l["prev"][n]

Fits(l, k, ls, H, S) ==
  /\ k \in Links /\ H \subseteq Heads /\ S \subseteq H \cup Items
  /\ \A n \in ListNodes \ S : Agree(l, k, n)
  /\ \A n \in S : k["next"][n] \in S
  /\ \A g \in Heads \ H : ls[g] # Broken => ToSet(ls[g]) \cap S = {}

Becomes(k, ls, H, new) ==
  /\ new = [g \in Heads |-> new[g]]
  /\ \A g \in H : (new[g] = Broken /\ ListOf(k, g) = Broken) \/ Ring(k, g, new[g])
  /\ \A g \in Heads \ H : new[g] = ls[g]

\* The list of a head, and the others apart from it.
LEMMA ReadsRing ==
  ASSUME NEW l, NEW ls, Reads(l, ls), NEW h \in Heads, ls[h] # Broken
  PROVE  /\ Ring(l, h, ls[h]) /\ ls[h] \in Seq(Items)
         /\ \A g \in Heads \ {h} : ls[g] # Broken =>
              Ring(l, g, ls[g]) /\ NodesOf(h, ls[h]) \cap NodesOf(g, ls[g]) = {}
<1>1. ls = [g \in Heads |-> ListOf(l, g)] /\ Over(ls)
  BY DEF Reads, ListsOf
<1>2. ASSUME NEW g \in Heads, ls[g] # Broken PROVE Ring(l, g, ls[g]) /\ ls[g] \in Seq(Items)
  <2>1. PICK q : q = ls[g]
    OBVIOUS
  <2>2. q \in Seq(Items) /\ ListOf(l, g) = q /\ q # Broken
    BY <1>1, <1>2, <2>1 DEF Over
  <2> QED
    BY <2>1, <2>2, WholeRing
<1>3. ASSUME NEW g \in Heads \ {h}, ls[g] # Broken
      PROVE  NodesOf(h, ls[h]) \cap NodesOf(g, ls[g]) = {}
  BY <1>2, <1>3, RingsApart
<1> QED
  BY <1>2, <1>3

\* A loop that the changes do not touch.
LEMMA LoopKept ==
  ASSUME NEW l, NEW k, NEW h, NEW at, NEW size, Loop(l, h, at, size),
         \A n \in 0 .. size : Agree(l, k, at[n])
  PROVE  ListOf(k, h) = [n \in 1 .. size - 1 |-> at[n]]
<1>1. size \in Nat /\ \A n \in 1 .. size : n \in 0 .. size /\ n - 1 \in 0 .. size
  BY FurthestNat DEF Loop
<1>2. \A n \in 1 .. size : at[n] = k["next"][at[n - 1]] /\ k["prev"][at[n]] = at[n - 1]
  BY <1>1 DEF Loop, Agree
<1>3. Loop(k, h, at, size)
  BY <1>2 DEF Loop
<1> QED
  BY <1>3, LoopList

\* Nothing happens to the lists of other heads.
LEMMA OthersKept ==
  ASSUME NEW l, NEW k, NEW ls, Reads(l, ls), NEW H, NEW S, Fits(l, k, ls, H, S),
         NEW g \in Heads \ H
  PROVE  ListOf(k, g) = ls[g]
<1>1. /\ l \in Links /\ k \in Links /\ ls[g] = ListOf(l, g)
      /\ H \subseteq Heads /\ S \subseteq H \cup Items /\ g \in Heads
  BY DEF Reads, Fits, ListsOf
<1>2. g \notin S /\ g \in ListNodes
  BY <1>1, ListsAssumption DEF ListNodes
<1>3. CASE ls[g] # Broken
  <2>1. PICK q : q = ls[g]
    OBVIOUS
  <2>2. Ring(l, g, q) /\ q \in Seq(Items)
    BY <1>1, <1>3, <2>1, ReadsRing
  <2>3. NodesOf(g, q) = {g} \cup ToSet(q) /\ NodesOf(g, q) \subseteq ListNodes /\ Len(q) \in Nat
    BY <1>1, <2>2, ListPlaces
  <2>4. ToSet(q) \cap S = {}
    BY <1>3, <2>1 DEF Fits
  <2>5. ASSUME NEW i \in 0 .. Len(q) PROVE Step(k, g, q, i)
    <3>1. i \in 0 .. Len(q) + 1 /\ i + 1 \in 0 .. Len(q) + 1
      BY <2>3
    <3>2. PICK a, b : a = NodeAt(g, q, i) /\ b = NodeAt(g, q, i + 1)
      OBVIOUS
    <3>3. a \in NodesOf(g, q) /\ b \in NodesOf(g, q)
      BY <3>1, <3>2 DEF NodesOf
    <3>4. Agree(l, k, a) /\ Agree(l, k, b)
      BY <1>2, <2>3, <2>4, <3>3 DEF Fits
    <3>5. l["next"][a] = b /\ l["prev"][b] = a
      BY <2>2, <3>2 DEF Ring, Step
    <3> QED
      BY <3>2, <3>4, <3>5 DEF Step, Agree
  <2>6. Ring(k, g, q)
    BY <2>2, <2>5 DEF Ring
  <2> QED
    BY <1>1, <2>1, <2>6, RingList
<1>4. CASE ls[g] = Broken
  <2> SUFFICES ASSUME ListOf(k, g) # Broken PROVE FALSE
    BY <1>4
  <2>1. PICK at, size : Loop(k, g, at, size) /\ ListOf(k, g) = [n \in 1 .. size - 1 |-> at[n]]
    BY WholeLoop
  <2>2. /\ size \in Nat /\ at[0] = g /\ at[size] = g
        /\ \A n \in 1 .. size : at[n] = k["next"][at[n - 1]]
    BY <2>1, FurthestNat DEF Loop
  <2>3. PICK T : T = {n \in 0 .. size : at[n] \in ListNodes}
    OBVIOUS
  <2>4. \A n \in 0 .. size : at[n] \in ListNodes
    <3>1. 0 \in T
      BY <1>2, <2>2, <2>3
    <3>2. ASSUME NEW n \in 1 .. size, n - 1 \in T PROVE n \in T
      <4>1. at[n] = k["next"][at[n - 1]] /\ at[n - 1] \in ListNodes /\ n \in 0 .. size
        BY <2>2, <2>3, <3>2
      <4> QED
        BY <1>1, <2>3, <4>1, LinkTypes
    <3>3. 0 .. size \subseteq T
      BY <2>2, <3>1, <3>2, UpTo
    <3> QED
      BY <2>3, <3>3
  <2>5. PICK U : U = {n \in 0 .. size : at[size - n] \notin S}
    OBVIOUS
  <2>6. \A n \in 0 .. size : at[n] \notin S
    <3>1. 0 \in U
      BY <1>2, <2>2, <2>5
    <3>2. ASSUME NEW n \in 1 .. size, n - 1 \in U PROVE n \in U
      <4>1. PICK j : j = size - n
        OBVIOUS
      <4>2. j + 1 \in 1 .. size /\ (j + 1) - 1 = j /\ size - (n - 1) = j + 1 /\ n \in 0 .. size
        BY <2>2, <4>1
      <4>3. at[j + 1] \notin S
        BY <2>5, <3>2, <4>2
      <4>4. at[j + 1] = k["next"][at[j]]
        BY <2>2, <4>2
      <4> QED
        BY <2>5, <4>1, <4>2, <4>3, <4>4 DEF Fits
    <3>3. 0 .. size \subseteq U
      BY <2>2, <3>1, <3>2, UpTo
    <3>4. \A n \in 0 .. size : size - n \in 0 .. size /\ size - (size - n) = n
      BY <2>2
    <3> QED
      BY <2>5, <3>3, <3>4
  <2>7. \A n \in 0 .. size : Agree(k, l, at[n])
    BY <2>4, <2>6 DEF Fits, Agree
  <2>8. ListOf(l, g) = [n \in 1 .. size - 1 |-> at[n]]
    BY <2>1, <2>7, LoopKept
  <2> QED
    BY <1>1, <1>4, <2>1, <2>8
<1> QED
  BY <1>3, <1>4

\* The lists after the operation.
LEMMA Relisted ==
  ASSUME NEW l, NEW k, NEW ls, Reads(l, ls), NEW H, NEW S, Fits(l, k, ls, H, S),
         NEW new, Becomes(k, ls, H, new)
  PROVE  Reads(k, new)
<1>1. k \in Links /\ H \subseteq Heads /\ Over(ls)
  BY DEF Fits, Reads
<1>2. ASSUME NEW g \in Heads
      PROVE  ListOf(k, g) = new[g] /\ (new[g] # Broken => new[g] \in Seq(Items))
  <2>1. CASE g \in H
    <3>1. (new[g] = Broken /\ ListOf(k, g) = Broken) \/ Ring(k, g, new[g])
      BY <2>1 DEF Becomes
    <3> QED
      BY <3>1, RingList
  <2>2. CASE g \notin H
    <3>1. g \in Heads \ H /\ new[g] = ls[g]
      BY <2>2 DEF Becomes
    <3>2. ListOf(k, g) = ls[g]
      BY <3>1, OthersKept
    <3> QED
      BY <1>1, <3>1, <3>2 DEF Over
  <2> QED
    BY <2>1, <2>2
<1>3. new = [g \in Heads |-> new[g]]
  BY DEF Becomes
<1>4. new = ListsOf(k)
  BY <1>2, <1>3 DEF ListsOf
<1> QED
  BY <1>1, <1>2, <1>4 DEF Reads, Over

(***************************************************************************)
(* The history of ops that led to the links l has a past t: the links      *)
(* before each of the assignments and, at the end, l.                      *)
(***************************************************************************)
Ops == [field : Fields, node : ListNodes, prev_val : ListNodes, next_val : ListNodes]

Undoes(l, k, op) ==
  l = [k EXCEPT ![op.field][op.node] = op.prev_val] /\ k[op.field][op.node] = op.next_val

Past(t, l, ops) ==
  /\ ops \in Seq(Ops) /\ t \in [0 .. Len(ops) -> Links] /\ t[Len(ops)] = l
  /\ \A k \in 1 .. Len(ops) : Undoes(t[k - 1], t[k], ops[k])

\* From m0, m was reached by assignments that were remembered.
Recalls(m0, m) ==
  /\ m.links \in Links
  /\ \A t : Past(t, m0.links, m0.history) =>
       \E u : /\ Past(u, m.links, m.history)
              /\ Len(m0.history) \in Nat /\ Len(m0.history) <= Len(m.history)
              /\ \A k \in 0 .. Len(m0.history) : u[k] = t[k]

\* Nothing was assigned yet.
LEMMA RecallsItself ==
  ASSUME NEW m, m.links \in Links
  PROVE  Recalls(m, m)
<1>1. ASSUME NEW t, Past(t, m.links, m.history) PROVE Len(m.history) \in Nat
  BY <1>1 DEF Past
<1> QED
  BY <1>1 DEF Recalls

\* Undoing an assignment restores the links.
LEMMA AssignUndone ==
  ASSUME NEW l \in Links, NEW field \in Fields, NEW node \in ListNodes, NEW value \in ListNodes,
         NEW k, k = [l EXCEPT ![field][node] = value], NEW op,
         op = rlist_assign_op(field, node, l[field][node], value)
  PROVE  k \in Links /\ op \in Ops /\ Undoes(l, k, op)
<1>1. l = [f \in Fields |-> l[f]] /\ \A f \in Fields : l[f] \in [ListNodes -> ListNodes]
  BY DEF Links
<1>2. \A f \in Fields : l[f] = [n \in ListNodes |-> l[f][n]]
  BY <1>1
<1>3. op.field = field /\ op.node = node /\ op.prev_val = l[field][node] /\ op.next_val = value
  BY DEF rlist_assign_op
<1>4. l[field][node] \in ListNodes
  BY <1>1
<1>5. op \in Ops
  BY <1>4 DEF Ops, rlist_assign_op
<1>6. k \in Links /\ k[field] = [l[field] EXCEPT ![node] = value]
      /\ \A f \in Fields : f # field => k[f] = l[f]
  BY <1>1 DEF Links
<1>7. k[field][node] = value
  BY <1>1, <1>6
<1>8. PICK b : b = [k EXCEPT ![field][node] = l[field][node]]
  OBVIOUS
<1>9. b = [f \in Fields |-> b[f]] /\ b[field] = [k[field] EXCEPT ![node] = l[field][node]]
      /\ \A f \in Fields : f # field => b[f] = k[f]
  BY <1>6, <1>8 DEF Links
<1>10. b[field] = l[field]
  <2>1. b[field] = [n \in ListNodes |-> l[field][n]]
    BY <1>1, <1>6, <1>9
  <2> QED
    BY <1>2, <2>1
<1>11. \A f \in Fields : b[f] = l[f]
  BY <1>6, <1>9, <1>10
<1>12. b = l
  BY <1>1, <1>9, <1>11
<1> QED
  BY <1>3, <1>5, <1>6, <1>7, <1>8, <1>12 DEF Undoes

\* One more assignment is remembered too.
LEMMA RecallsAssign ==
  ASSUME NEW m0, NEW m, Recalls(m0, m),
         NEW field \in Fields, NEW node \in ListNodes, NEW value \in ListNodes,
         NEW a, a = rlist_assign(m, field, node, value)
  PROVE  Recalls(m0, a)
<1>1. PICK l, op, k : /\ l = m.links /\ op = rlist_assign_op(field, node, l[field][node], value)
                      /\ k = [l EXCEPT ![field][node] = value]
  OBVIOUS
<1>2. a.links = k /\ a.history = Append(m.history, op)
  BY <1>1 DEF rlist_assign
<1>3. l \in Links
  BY <1>1 DEF Recalls
<1>4. k \in Links /\ op \in Ops /\ Undoes(l, k, op)
  BY <1>1, <1>3, AssignUndone
<1>5. ASSUME NEW t, Past(t, m0.links, m0.history)
      PROVE  \E u : /\ Past(u, a.links, a.history)
                    /\ Len(m0.history) \in Nat /\ Len(m0.history) <= Len(a.history)
                    /\ \A i \in 0 .. Len(m0.history) : u[i] = t[i]
  <2>1. PICK u : /\ Past(u, l, m.history)
                 /\ Len(m0.history) \in Nat /\ Len(m0.history) <= Len(m.history)
                 /\ \A i \in 0 .. Len(m0.history) : u[i] = t[i]
    BY <1>1, <1>5 DEF Recalls
  <2>2. PICK ops \in Seq(Ops) : ops = m.history
    BY <2>1 DEF Past
  <2>3. PICK N \in Nat : N = Len(ops)
    BY <2>2
  <2>4. /\ u \in [0 .. N -> Links] /\ u[N] = l
        /\ \A i \in 1 .. N : Undoes(u[i - 1], u[i], ops[i])
    BY <2>1, <2>2, <2>3 DEF Past
  <2>5. PICK more : more = Append(ops, op)
    OBVIOUS
  <2>6. /\ more \in Seq(Ops) /\ Len(more) = N + 1 /\ more[N + 1] = op
        /\ \A i \in 1 .. N : more[i] = ops[i]
    BY <1>4, <2>2, <2>3, <2>5
  <2>7. PICK v : v = [i \in 0 .. N + 1 |-> IF i = N + 1 THEN k ELSE u[i]]
    OBVIOUS
  <2>8. v[N + 1] = k /\ \A i \in 0 .. N : v[i] = u[i]
    BY <2>3, <2>7
  <2>9. v \in [0 .. N + 1 -> Links]
    <3>1. ASSUME NEW i \in 0 .. N + 1 PROVE (IF i = N + 1 THEN k ELSE u[i]) \in Links
      <4>1. i = N + 1 \/ i \in 0 .. N
        BY <2>3
      <4> QED
        BY <1>4, <2>4, <4>1
    <3> QED
      BY <2>7, <3>1
  <2>10. ASSUME NEW i \in 1 .. N + 1 PROVE Undoes(v[i - 1], v[i], more[i])
    <3>1. CASE i = N + 1
      <4>1. i - 1 = N /\ N \in 0 .. N
        BY <2>3, <3>1
      <4>2. v[i - 1] = l /\ v[i] = k /\ more[i] = op
        BY <2>4, <2>6, <2>8, <3>1, <4>1
      <4> QED
        BY <1>4, <4>2
    <3>2. CASE i # N + 1
      <4>1. i \in 1 .. N /\ i \in 0 .. N /\ i - 1 \in 0 .. N
        BY <2>3, <3>2
      <4>2. v[i - 1] = u[i - 1] /\ v[i] = u[i] /\ more[i] = ops[i]
        BY <2>6, <2>8, <4>1
      <4> QED
        BY <2>4, <4>1, <4>2
    <3> QED
      BY <3>1, <3>2
  <2>11. Past(v, k, more)
    BY <2>6, <2>8, <2>9, <2>10 DEF Past
  <2>12. \A i \in 0 .. Len(m0.history) : v[i] = t[i]
    <3>1. \A i \in 0 .. Len(m0.history) : i \in 0 .. N
      BY <2>1, <2>2, <2>3
    <3> QED
      BY <2>1, <2>8, <3>1
  <2>13. Len(m0.history) \in Nat /\ Len(m0.history) <= Len(more)
    BY <2>1, <2>2, <2>3, <2>6
  <2> QED
    BY <1>2, <2>2, <2>5, <2>11, <2>12, <2>13
<1> QED
  BY <1>2, <1>4, <1>5 DEF Recalls

NextSet(m, a, node, value) ==
  \A n \in ListNodes : /\ NextOf(a, n) = (IF n = node THEN value ELSE NextOf(m, n))
                       /\ PrevOf(a, n) = PrevOf(m, n)

PrevSet(m, a, node, value) ==
  \A n \in ListNodes : /\ PrevOf(a, n) = (IF n = node THEN value ELSE PrevOf(m, n))
                       /\ NextOf(a, n) = NextOf(m, n)

\* What an assignment to next does to the links.
LEMMA AssignedNext ==
  ASSUME NEW m0, NEW m, Recalls(m0, m), NEW node \in ListNodes, NEW value \in ListNodes,
         NEW a, a = rlist_assign(m, "next", node, value)
  PROVE  Recalls(m0, a) /\ NextSet(m, a, node, value)
<1>1. Recalls(m0, a)
  BY RecallsAssign DEF Fields
<1>2. PICK l \in Links : l = m.links
  BY DEF Recalls
<1>3. a.links = [l EXCEPT !["next"][node] = value]
  BY <1>2 DEF rlist_assign
<1>4. a.links["next"] = [l["next"] EXCEPT ![node] = value] /\ a.links["prev"] = l["prev"]
  BY <1>2, <1>3 DEF Links, Fields
<1>5. l["next"] \in [ListNodes -> ListNodes]
  BY <1>2 DEF Links, Fields
<1> QED
  BY <1>1, <1>2, <1>4, <1>5 DEF NextSet, NextOf, PrevOf

\* And one to prev.
LEMMA AssignedPrev ==
  ASSUME NEW m0, NEW m, Recalls(m0, m), NEW node \in ListNodes, NEW value \in ListNodes,
         NEW a, a = rlist_assign(m, "prev", node, value)
  PROVE  Recalls(m0, a) /\ PrevSet(m, a, node, value)
<1>1. Recalls(m0, a)
  BY RecallsAssign DEF Fields
<1>2. PICK l \in Links : l = m.links
  BY DEF Recalls
<1>3. a.links = [l EXCEPT !["prev"][node] = value]
  BY <1>2 DEF rlist_assign
<1>4. a.links["prev"] = [l["prev"] EXCEPT ![node] = value] /\ a.links["next"] = l["next"]
  BY <1>2, <1>3 DEF Links, Fields
<1>5. l["prev"] \in [ListNodes -> ListNodes]
  BY <1>2 DEF Links, Fields
<1> QED
  BY <1>1, <1>2, <1>4, <1>5 DEF PrevSet, NextOf, PrevOf

\* The links lead from nodes to nodes.
LEMMA RecalledTypes ==
  ASSUME NEW m0, NEW m, Recalls(m0, m)
  PROVE  \A n \in ListNodes : NextOf(m, n) \in ListNodes /\ PrevOf(m, n) \in ListNodes
BY LinkTypes DEF Recalls, NextOf, PrevOf

\* What Undone computes, from the end of the history on.
Undoing(l, ops, at, u) ==
  u = [k \in at .. Len(ops) |->
         IF k = Len(ops) THEN [links |-> l, ok |-> TRUE]
         ELSE LET op == ops[k + 1]
                  v == u[k + 1]
              IN  [links |-> [v.links EXCEPT ![op.field][op.node] = op.prev_val],
                   ok |-> v.ok /\ v.links[op.field][op.node] = op.next_val]]

\* The links as they were, without a failed assertion.
LEMMA PastUndone ==
  ASSUME NEW t, NEW l, NEW ops, Past(t, l, ops), NEW at \in 0 .. Len(ops)
  PROVE  Undone(l, ops, at) = [links |-> t[at], ok |-> TRUE]
<1>1. PICK n \in Nat : n = Len(ops)
  BY DEF Past
<1>2. /\ t \in [0 .. n -> Links] /\ t[n] = l
      /\ \A k \in 1 .. n :
           /\ t[k - 1] = [t[k] EXCEPT ![ops[k].field][ops[k].node] = ops[k].prev_val]
           /\ t[k][ops[k].field][ops[k].node] = ops[k].next_val
  BY <1>1 DEF Past, Undoes
<1>3. PICK before : before = [k \in 0 .. n |-> [links |-> t[k], ok |-> TRUE]]
  OBVIOUS
<1>4. \A k \in 0 .. n : before[k] = [links |-> t[k], ok |-> TRUE]
  BY <1>3
<1>5. PICK w : w = [k \in at .. n |-> before[k]]
  OBVIOUS
<1>6. DEFINE step(op, v) == [links |-> [v.links EXCEPT ![op.field][op.node] = op.prev_val],
                             ok |-> v.ok /\ v.links[op.field][op.node] = op.next_val]
<1>7. \A k \in at .. n : k \in 0 .. n /\ (k = n \/ k \in at .. n - 1)
  BY <1>1
<1>8. ASSUME NEW k \in at .. n - 1
      PROVE  step(ops[k + 1], before[k + 1]) = before[k]
  <2>1. k + 1 \in 1 .. n /\ (k + 1) - 1 = k /\ k \in 0 .. n /\ k + 1 \in 0 .. n
    BY <1>1
  <2>2. PICK op : op = ops[k + 1]
    OBVIOUS
  <2>3. t[k] = [t[k + 1] EXCEPT ![op.field][op.node] = op.prev_val]
        /\ t[k + 1][op.field][op.node] = op.next_val
    BY <1>2, <2>1, <2>2
  <2>4. before[k + 1] = [links |-> t[k + 1], ok |-> TRUE] /\ before[k] = [links |-> t[k], ok |-> TRUE]
    BY <1>4, <2>1
  <2>5. PICK v : v = before[k + 1]
    OBVIOUS
  <2>6. v.links = t[k + 1] /\ v.ok = TRUE
    BY <2>4, <2>5
  <2>7. [v.links EXCEPT ![op.field][op.node] = op.prev_val] = t[k]
    BY <2>3, <2>6
  <2>8. (v.ok /\ v.links[op.field][op.node] = op.next_val) = TRUE
    BY <2>3, <2>6
  <2>9. step(op, v) = [links |-> t[k], ok |-> TRUE]
    BY <2>7, <2>8
  <2> QED
    BY <2>2, <2>4, <2>5, <2>9
<1>9. before[n] = [links |-> l, ok |-> TRUE]
  BY <1>1, <1>2, <1>4
<1> HIDE DEF step
<1>10. \A k \in at .. n : w[k] = IF k = n THEN [links |-> l, ok |-> TRUE] ELSE step(ops[k + 1], w[k + 1])
  <2> SUFFICES ASSUME NEW k \in at .. n
               PROVE  w[k] = IF k = n THEN [links |-> l, ok |-> TRUE] ELSE step(ops[k + 1], w[k + 1])
    OBVIOUS
  <2>1. CASE k = n
    BY <1>5, <1>9, <2>1
  <2>2. CASE k # n
    <3>1. k \in at .. n - 1 /\ k + 1 \in at .. n
      BY <1>1, <2>2
    <3> QED
      BY <1>5, <1>8, <2>2, <3>1
  <2> QED
    BY <2>1, <2>2
<1>11. Undoing(l, ops, at, w)
  <2>1. w = [k \in at .. n |-> IF k = n THEN [links |-> l, ok |-> TRUE] ELSE step(ops[k + 1], w[k + 1])]
    BY <1>5, <1>10
  <2> QED
    BY <1>1, <2>1 DEF Undoing, step
<1>12. DEFINE u == CHOOSE v : Undoing(l, ops, at, v)
<1>13. Undoing(l, ops, at, u)
  BY <1>11
<1>14. Undone(l, ops, at) = u[at]
  BY DEF Undone, Undoing
<1> HIDE DEF u
<1>15. u = [k \in at .. n |-> IF k = n THEN [links |-> l, ok |-> TRUE] ELSE step(ops[k + 1], u[k + 1])]
  BY <1>1, <1>13 DEF Undoing, step
<1>16. \A k \in at .. n : u[k] = IF k = n THEN [links |-> l, ok |-> TRUE] ELSE step(ops[k + 1], u[k + 1])
  BY <1>15
<1>17. PICK N \in Nat : N = n - at
  <2>1. n - at \in Nat
    BY <1>1
  <2> QED
    BY <2>1
<1>18. PICK T : T = {j \in 0 .. N : u[n - j] = before[n - j]}
  OBVIOUS
<1>19. 0 \in T
  <2>1. n \in at .. n /\ n - 0 = n /\ 0 \in 0 .. N
    BY <1>1
  <2>2. u[n] = [links |-> l, ok |-> TRUE]
    BY <1>16, <2>1
  <2> QED
    BY <1>9, <1>18, <2>1, <2>2
<1>20. ASSUME NEW j \in 1 .. N, j - 1 \in T PROVE j \in T
  <2>1. PICK k : k = n - j
    OBVIOUS
  <2>2. k \in at .. n - 1 /\ k \in at .. n /\ k # n /\ k + 1 = n - (j - 1) /\ j \in 0 .. N
    BY <1>1, <1>17, <2>1
  <2>3. u[k + 1] = before[k + 1]
    BY <1>18, <1>20, <2>2
  <2>4. u[k] = step(ops[k + 1], before[k + 1])
    BY <1>16, <2>2, <2>3
  <2>5. u[k] = before[k]
    BY <1>8, <2>2, <2>4
  <2> QED
    BY <1>18, <2>1, <2>2, <2>5
<1>21. N \in T
  <2>1. 0 .. N \subseteq T
    BY <1>19, <1>20, UpTo
  <2> QED
    BY <2>1
<1>22. u[at] = before[at]
  <2>1. n - N = at
    BY <1>1, <1>17
  <2> QED
    BY <1>18, <1>21, <2>1
<1> QED
  BY <1>1, <1>4, <1>14, <1>22

\* The lists at the savepoints.
LEMMA PastSaved ==
  ASSUME NEW t, NEW l, NEW ops, Past(t, l, ops), NEW marks \in Seq(0 .. Len(ops))
  PROVE  SavedOf(l, ops, marks) = [i \in DOMAIN marks |-> ListsOf(t[marks[i]])]
<1>1. ASSUME NEW i \in DOMAIN marks
      PROVE  (LET u == Undone(l, ops, marks[i]) IN IF u.ok THEN ListsOf(u.links) ELSE Broken)
               = ListsOf(t[marks[i]])
  <2>1. marks[i] \in 0 .. Len(ops)
    OBVIOUS
  <2>2. Undone(l, ops, marks[i]) = [links |-> t[marks[i]], ok |-> TRUE]
    BY <2>1, PastUndone
  <2> QED
    BY <2>2
<1> QED
  BY <1>1 DEF SavedOf

(***************************************************************************)
(* The inductive invariant.                                                *)
(***************************************************************************)
Marks(marks, n) ==
  /\ marks \in Seq(0 .. n)
  /\ \A i, j \in 1 .. Len(marks) : i <= j => marks[i] <= marks[j]

PersistentInv ==
  /\ \E t : /\ Past(t, links, history)
            /\ saved = [i \in DOMAIN svps |-> ListsOf(t[svps[i]])]
  /\ Marks(svps, Len(history))
  /\ lists = ListsOf(links) /\ Over(lists)
  /\ \A i \in DOMAIN svps : Over(saved[i])

\* An operation whose assignments are remembered leaves the savepoints alone.
LEMMA DoKeeps ==
  ASSUME PersistentInv, NEW m, Recalls(Memory, m), Do(m), Over(ListsOf(m.links)),
         lists' = ListsOf(links'), saved' = SavedOf(links', history', svps')
  PROVE  PersistentInv' /\ UNCHANGED saved /\ lists' = ListsOf(m.links)
<1>1. PICK t : /\ Past(t, links, history)
               /\ saved = [i \in DOMAIN svps |-> ListsOf(t[svps[i]])]
  BY DEF PersistentInv
<1>2. links' = m.links /\ history' = m.history /\ svps' = svps
  BY DEF Do
<1>3. Memory.links = links /\ Memory.history = history
  BY DEF Memory
<1>4. PICK u : /\ Past(u, m.links, m.history)
               /\ Len(history) \in Nat /\ Len(history) <= Len(m.history)
               /\ \A k \in 0 .. Len(history) : u[k] = t[k]
  BY <1>1, <1>3 DEF Recalls
<1>5. /\ svps \in Seq(0 .. Len(history))
      /\ \A i, j \in 1 .. Len(svps) : i <= j => svps[i] <= svps[j]
  BY DEF PersistentInv, Marks
<1>6. Len(m.history) \in Nat /\ 0 .. Len(history) \subseteq 0 .. Len(m.history)
  <2>1. Len(m.history) \in Nat
    BY <1>4 DEF Past
  <2> QED
    BY <1>4, <2>1
<1>7. svps \in Seq(0 .. Len(m.history))
  BY <1>5, <1>6
<1>8. saved' = [i \in DOMAIN svps |-> ListsOf(u[svps[i]])]
  BY <1>2, <1>4, <1>7, PastSaved
<1>9. \A i \in DOMAIN svps : u[svps[i]] = t[svps[i]]
  <2>1. \A i \in DOMAIN svps : svps[i] \in 0 .. Len(history)
    BY <1>5
  <2> QED
    BY <1>4, <2>1
<1>10. saved' = saved
  BY <1>1, <1>8, <1>9
<1>11. Past(u, links', history') /\ saved' = [i \in DOMAIN svps' |-> ListsOf(u[svps'[i]])]
  BY <1>2, <1>4, <1>8
<1>12. Marks(svps', Len(history'))
  BY <1>2, <1>5, <1>7 DEF Marks
<1>13. lists' = ListsOf(m.links) /\ Over(lists')
  BY <1>2
<1>14. \A i \in DOMAIN svps' : Over(saved'[i])
  BY <1>2, <1>10 DEF PersistentInv
<1> QED
  BY <1>2, <1>10, <1>11, <1>12, <1>13, <1>14 DEF PersistentInv

(***************************************************************************)
(* What the operations do to the links.                                    *)
(***************************************************************************)
LinkedBetween(m, k, a, x, b) ==
  \A n \in ListNodes :
    /\ NextOf(k, n) = (IF n = a THEN x ELSE IF n = x THEN b ELSE NextOf(m, n))
    /\ PrevOf(k, n) = (IF n = b THEN x ELSE IF n = x THEN a ELSE PrevOf(m, n))

LinkedPast(m, k, a, b) ==
  \A n \in ListNodes :
    /\ NextOf(k, n) = (IF n = a THEN b ELSE NextOf(m, n))
    /\ PrevOf(k, n) = (IF n = b THEN a ELSE PrevOf(m, n))

LinkedAlone(m, k, x) ==
  \A n \in ListNodes :
    /\ NextOf(k, n) = (IF n = x THEN x ELSE NextOf(m, n))
    /\ PrevOf(k, n) = (IF n = x THEN x ELSE PrevOf(m, n))

\* The nodes from f to z, all those of the list of g, between u and w.
LinkedInto(m, k, u, f, z, w, g) ==
  \A n \in ListNodes :
    /\ NextOf(k, n) = (IF n = g THEN g ELSE IF n = z THEN w ELSE IF n = u THEN f ELSE NextOf(m, n))
    /\ PrevOf(k, n) = (IF n = g THEN g ELSE IF n = f THEN u ELSE IF n = w THEN z ELSE PrevOf(m, n))

\* The nodes of the list of g from f to y to h, and those from x on to g.
LinkedApart(m, k, h, g, f, y, x) ==
  \A n \in ListNodes :
    /\ NextOf(k, n) = (IF n = h THEN f ELSE IF n = g THEN x ELSE IF n = y THEN h ELSE NextOf(m, n))
    /\ PrevOf(k, n) = (IF n = h THEN y ELSE IF n = x THEN g ELSE IF n = f THEN h ELSE PrevOf(m, n))

\* The heads h and g with these links.
LinkedHeads(m, k, h, hn, hp, g, gn, gp) ==
  \A n \in ListNodes :
    /\ NextOf(k, n) = (IF n = h THEN hn ELSE IF n = g THEN gn ELSE NextOf(m, n))
    /\ PrevOf(k, n) = (IF n = h THEN hp ELSE IF n = g THEN gp ELSE PrevOf(m, n))

\* A node that is linked to itself.
LEMMA CreateLinks ==
  ASSUME NEW m0, NEW m, Recalls(m0, m), NEW x \in ListNodes, NEW k, k = create(m, x)
  PROVE  Recalls(m0, k) /\ LinkedAlone(m, k, x)
<1>1. PICK a : a = rlist_assign(m, "next", x, x)
  OBVIOUS
<1>2. Recalls(m0, a) /\ NextSet(m, a, x, x)
  BY <1>1, AssignedNext
<1>3. k = rlist_assign(a, "prev", x, x)
  BY <1>1 DEF create
<1>4. Recalls(m0, k) /\ PrevSet(a, k, x, x)
  BY <1>2, <1>3, AssignedPrev
<1> QED
  BY <1>2, <1>4 DEF LinkedAlone, NextSet, PrevSet

\* add: behind the head.
LEMMA AddLinks ==
  ASSUME NEW m0, NEW m, Recalls(m0, m), NEW h \in ListNodes, NEW x \in ListNodes,
         x # h, NextOf(m, h) # x, NEW k, k = add(m, h, x)
  PROVE  Recalls(m0, k) /\ LinkedBetween(m, k, h, x, NextOf(m, h))
<1>1. PICK f \in ListNodes : f = NextOf(m, h)
  BY RecalledTypes
<1>2. PICK a : a = rlist_assign(m, "prev", x, h)
  OBVIOUS
<1>3. Recalls(m0, a) /\ PrevSet(m, a, x, h)
  BY <1>2, AssignedPrev
<1>4. NextOf(a, h) = f
  BY <1>1, <1>3 DEF PrevSet
<1>5. PICK b : b = rlist_assign(a, "next", x, f)
  OBVIOUS
<1>6. Recalls(m0, b) /\ NextSet(a, b, x, f)
  BY <1>3, <1>5, AssignedNext
<1>7. PrevOf(b, x) = h
  BY <1>3, <1>6 DEF PrevSet, NextSet
<1>8. PICK c : c = rlist_assign(b, "next", h, x)
  OBVIOUS
<1>9. Recalls(m0, c) /\ NextSet(b, c, h, x)
  BY <1>6, <1>8, AssignedNext
<1>10. NextOf(c, x) = f
  BY <1>6, <1>9 DEF NextSet
<1>11. k = rlist_assign(c, "prev", f, x)
  BY <1>2, <1>4, <1>5, <1>7, <1>8, <1>10 DEF add
<1>12. Recalls(m0, k) /\ PrevSet(c, k, f, x)
  BY <1>9, <1>11, AssignedPrev
<1> QED
  BY <1>1, <1>3, <1>6, <1>9, <1>12 DEF LinkedBetween, NextSet, PrevSet

\* add_tail: before the head.
LEMMA AddTailLinks ==
  ASSUME NEW m0, NEW m, Recalls(m0, m), NEW h \in ListNodes, NEW x \in ListNodes,
         x # h, PrevOf(m, h) # x, NEW k, k = add_tail(m, h, x)
  PROVE  Recalls(m0, k) /\ LinkedBetween(m, k, PrevOf(m, h), x, h)
<1>1. PICK z \in ListNodes : z = PrevOf(m, h)
  BY RecalledTypes
<1>2. PICK a : a = rlist_assign(m, "next", x, h)
  OBVIOUS
<1>3. Recalls(m0, a) /\ NextSet(m, a, x, h)
  BY <1>2, AssignedNext
<1>4. PrevOf(a, h) = z
  BY <1>1, <1>3 DEF NextSet
<1>5. PICK b : b = rlist_assign(a, "prev", x, z)
  OBVIOUS
<1>6. Recalls(m0, b) /\ PrevSet(a, b, x, z)
  BY <1>3, <1>5, AssignedPrev
<1>7. PrevOf(b, x) = z
  BY <1>6 DEF PrevSet
<1>8. PICK c : c = rlist_assign(b, "next", z, x)
  OBVIOUS
<1>9. Recalls(m0, c) /\ NextSet(b, c, z, x)
  BY <1>6, <1>8, AssignedNext
<1>10. NextOf(c, x) = h
  BY <1>1, <1>3, <1>6, <1>9 DEF NextSet, PrevSet
<1>11. k = rlist_assign(c, "prev", h, x)
  BY <1>2, <1>4, <1>5, <1>7, <1>8, <1>10 DEF add_tail
<1>12. Recalls(m0, k) /\ PrevSet(c, k, h, x)
  BY <1>9, <1>11, AssignedPrev
<1> QED
  BY <1>1, <1>3, <1>6, <1>9, <1>12 DEF LinkedBetween, NextSet, PrevSet

\* The neighbours of an item are linked to each other.
LEMMA UnlinkedLinks ==
  ASSUME NEW m0, NEW m, Recalls(m0, m), NEW x \in ListNodes,
         PrevOf(m, x) # x, NEW k, k = Unlinked(m, x)
  PROVE  Recalls(m0, k) /\ LinkedPast(m, k, PrevOf(m, x), NextOf(m, x))
<1>1. PICK p \in ListNodes, n \in ListNodes : p = PrevOf(m, x) /\ n = NextOf(m, x)
  BY RecalledTypes
<1>2. PICK a : a = rlist_assign(m, "next", p, n)
  OBVIOUS
<1>3. Recalls(m0, a) /\ NextSet(m, a, p, n)
  BY <1>2, AssignedNext
<1>4. NextOf(a, x) = n /\ PrevOf(a, x) = p
  BY <1>1, <1>3 DEF NextSet
<1>5. k = rlist_assign(a, "prev", n, p)
  BY <1>1, <1>2, <1>4 DEF Unlinked
<1>6. Recalls(m0, k) /\ PrevSet(a, k, n, p)
  BY <1>3, <1>5, AssignedPrev
<1> QED
  BY <1>1, <1>3, <1>6 DEF LinkedPast, NextSet, PrevSet

\* splice: the items of g behind h.
LEMMA SpliceLinks ==
  ASSUME NEW m0, NEW m, Recalls(m0, m), NEW h \in ListNodes, NEW g \in ListNodes, h # g,
         NEW f, f = NextOf(m, g), NEW z, z = PrevOf(m, g), NEW w, w = NextOf(m, h),
         f # g, z # g, w # g, f # w, z # h, NEW k, k = splice(m, h, g)
  PROVE  Recalls(m0, k) /\ LinkedInto(m, k, h, f, z, w, g)
<1>1. f \in ListNodes /\ z \in ListNodes /\ w \in ListNodes
  BY RecalledTypes
<1>2. PICK a : a = rlist_assign(m, "prev", w, z)
  OBVIOUS
<1>3. Recalls(m0, a) /\ PrevSet(m, a, w, z)
  BY <1>1, <1>2, AssignedPrev
<1>4. PrevOf(a, g) = z /\ NextOf(a, h) = w
  BY <1>3 DEF PrevSet
<1>5. PICK b : b = rlist_assign(a, "next", z, w)
  OBVIOUS
<1>6. Recalls(m0, b) /\ NextSet(a, b, z, w)
  BY <1>1, <1>3, <1>5, AssignedNext
<1>7. NextOf(b, g) = f
  BY <1>3, <1>6 DEF NextSet, PrevSet
<1>8. PICK c : c = rlist_assign(b, "next", h, f)
  OBVIOUS
<1>9. Recalls(m0, c) /\ NextSet(b, c, h, f)
  BY <1>1, <1>6, <1>8, AssignedNext
<1>10. NextOf(c, g) = f
  BY <1>7, <1>9 DEF NextSet
<1>11. PICK d : d = rlist_assign(c, "prev", f, h)
  OBVIOUS
<1>12. Recalls(m0, d) /\ PrevSet(c, d, f, h)
  BY <1>1, <1>9, <1>11, AssignedPrev
<1>13. ~Empty(m, g)
  BY DEF Empty
<1>14. k = create(d, g)
  BY <1>2, <1>4, <1>5, <1>7, <1>8, <1>10, <1>11, <1>13 DEF splice
<1>15. Recalls(m0, k) /\ LinkedAlone(d, k, g)
  BY <1>12, <1>14, CreateLinks
<1> QED
  BY <1>1, <1>3, <1>6, <1>9, <1>12, <1>15 DEF LinkedInto, LinkedAlone, NextSet, PrevSet

\* splice_tail: and before h.
LEMMA SpliceTailLinks ==
  ASSUME NEW m0, NEW m, Recalls(m0, m), NEW h \in ListNodes, NEW g \in ListNodes, h # g,
         NEW f, f = NextOf(m, g), NEW z, z = PrevOf(m, g), NEW u, u = PrevOf(m, h),
         f # g, z # g, u # g, z # u, f # h, NEW k, k = splice_tail(m, h, g)
  PROVE  Recalls(m0, k) /\ LinkedInto(m, k, u, f, z, h, g)
<1>1. f \in ListNodes /\ z \in ListNodes /\ u \in ListNodes
  BY RecalledTypes
<1>2. PICK a : a = rlist_assign(m, "next", u, f)
  OBVIOUS
<1>3. Recalls(m0, a) /\ NextSet(m, a, u, f)
  BY <1>1, <1>2, AssignedNext
<1>4. NextOf(a, g) = f /\ PrevOf(a, h) = u
  BY <1>3 DEF NextSet
<1>5. PICK b : b = rlist_assign(a, "prev", f, u)
  OBVIOUS
<1>6. Recalls(m0, b) /\ PrevSet(a, b, f, u)
  BY <1>1, <1>3, <1>5, AssignedPrev
<1>7. PrevOf(b, g) = z
  BY <1>3, <1>6 DEF NextSet, PrevSet
<1>8. PICK c : c = rlist_assign(b, "prev", h, z)
  OBVIOUS
<1>9. Recalls(m0, c) /\ PrevSet(b, c, h, z)
  BY <1>1, <1>6, <1>8, AssignedPrev
<1>10. PrevOf(c, g) = z
  BY <1>7, <1>9 DEF PrevSet
<1>11. PICK d : d = rlist_assign(c, "next", z, h)
  OBVIOUS
<1>12. Recalls(m0, d) /\ NextSet(c, d, z, h)
  BY <1>1, <1>9, <1>11, AssignedNext
<1>13. ~Empty(m, g)
  BY DEF Empty
<1>14. k = create(d, g)
  BY <1>2, <1>4, <1>5, <1>7, <1>8, <1>10, <1>11, <1>13 DEF splice_tail
<1>15. Recalls(m0, k) /\ LinkedAlone(d, k, g)
  BY <1>12, <1>14, CreateLinks
<1> QED
  BY <1>1, <1>3, <1>6, <1>9, <1>12, <1>15 DEF LinkedInto, LinkedAlone, NextSet, PrevSet

\* cut_before: before the first item, nothing moves; before another, the items up to it.
LEMMA CutLinks ==
  ASSUME NEW m0, NEW m, Recalls(m0, m), NEW h \in ListNodes, NEW g \in ListNodes, h # g,
         NEW x \in ListNodes, NEW f, f = NextOf(m, g), NEW y, y = PrevOf(m, x),
         f # h, x # h, PrevOf(m, f) = g, NextOf(m, h) # x,
         x # f => y # g /\ y # h,
         NEW k, k = cut_before(m, h, g, x)
  PROVE  /\ Recalls(m0, k)
         /\ x = f => LinkedAlone(m, k, h)
         /\ x # f => LinkedApart(m, k, h, g, f, y, x)
<1>1. f \in ListNodes /\ y \in ListNodes
  BY RecalledTypes
<1>2. PICK a : a = rlist_assign(m, "next", h, f)
  OBVIOUS
<1>3. Recalls(m0, a) /\ NextSet(m, a, h, f)
  BY <1>1, <1>2, AssignedNext
<1>4. NextOf(a, h) = f
  BY <1>3 DEF NextSet
<1>5. PICK b : b = rlist_assign(a, "prev", f, h)
  OBVIOUS
<1>6. Recalls(m0, b) /\ PrevSet(a, b, f, h)
  BY <1>1, <1>3, <1>5, AssignedPrev
<1>7. PICK v \in ListNodes : v = IF x = f THEN h ELSE y
  BY <1>1
<1>8. PrevOf(b, x) = v
  BY <1>3, <1>6, <1>7 DEF NextSet, PrevSet
<1>9. PICK c : c = rlist_assign(b, "prev", h, v)
  OBVIOUS
<1>10. Recalls(m0, c) /\ PrevSet(b, c, h, v)
  BY <1>6, <1>9, AssignedPrev
<1>11. PrevOf(c, h) = v
  BY <1>10 DEF PrevSet
<1>12. PICK d : d = rlist_assign(c, "next", v, h)
  OBVIOUS
<1>13. Recalls(m0, d) /\ NextSet(c, d, v, h)
  BY <1>10, <1>12, AssignedNext
<1>14. PICK e : e = rlist_assign(d, "next", g, x)
  OBVIOUS
<1>15. Recalls(m0, e) /\ NextSet(d, e, g, x)
  BY <1>13, <1>14, AssignedNext
<1>16. k = rlist_assign(e, "prev", x, g)
  BY <1>2, <1>4, <1>5, <1>8, <1>9, <1>11, <1>12, <1>14 DEF cut_before
<1>17. Recalls(m0, k) /\ PrevSet(e, k, x, g)
  BY <1>15, <1>16, AssignedPrev
<1>18. CASE x = f
  <2>1. v = h
    BY <1>7, <1>18
  <2>2. LinkedAlone(m, k, h)
    BY <1>1, <1>3, <1>6, <1>10, <1>13, <1>15, <1>17, <1>18, <2>1 DEF LinkedAlone, NextSet, PrevSet
  <2> QED
    BY <1>17, <1>18, <2>2
<1>19. CASE x # f
  <2>1. v = y
    BY <1>7, <1>19
  <2>2. LinkedApart(m, k, h, g, f, y, x)
    BY <1>1, <1>3, <1>6, <1>10, <1>13, <1>15, <1>17, <1>19, <2>1 DEF LinkedApart, NextSet, PrevSet
  <2> QED
    BY <1>17, <1>19, <2>2
<1> QED
  BY <1>18, <1>19

\* The head h with the links p and n.
Given(m, k, h, p, n) ==
  \A i \in ListNodes : /\ NextOf(k, i) = (IF i = h THEN n ELSE NextOf(m, i))
                       /\ PrevOf(k, i) = (IF i = h THEN p ELSE PrevOf(m, i))

\* The links of a head are assigned.
LEMMA GivenLinks ==
  ASSUME NEW m0, NEW m, Recalls(m0, m), NEW h \in ListNodes, NEW p \in ListNodes, NEW n \in ListNodes,
         NEW k, k = rlist_assign(rlist_assign(m, "prev", h, p), "next", h, n)
  PROVE  Recalls(m0, k) /\ Given(m, k, h, p, n)
<1>1. PICK a : a = rlist_assign(m, "prev", h, p)
  OBVIOUS
<1>2. Recalls(m0, a) /\ PrevSet(m, a, h, p)
  BY <1>1, AssignedPrev
<1>3. Recalls(m0, k) /\ NextSet(a, k, h, n)
  BY <1>1, <1>2, AssignedNext
<1> QED
  BY <1>2, <1>3 DEF Given, NextSet, PrevSet

\* swap_links: each head gets the links of the other, or its own if that is empty.
LEMMA SwapLinks ==
  ASSUME NEW m0, NEW m, Recalls(m0, m), NEW h \in ListNodes, NEW g \in ListNodes, h # g,
         NEW k, k = swap_links(m, h, g)
  PROVE  /\ Recalls(m0, k)
         /\ LinkedHeads(m, k, h, IF Empty(m, g) THEN h ELSE NextOf(m, g),
                        IF Empty(m, g) THEN h ELSE PrevOf(m, g),
                        g, IF Empty(m, h) THEN g ELSE NextOf(m, h),
                        IF Empty(m, h) THEN g ELSE PrevOf(m, h))
<1>1. PICK hn \in ListNodes, hp \in ListNodes :
        /\ hn = IF Empty(m, g) THEN h ELSE NextOf(m, g)
        /\ hp = IF Empty(m, g) THEN h ELSE PrevOf(m, g)
  BY RecalledTypes
<1>2. PICK gn \in ListNodes, gp \in ListNodes :
        /\ gn = IF Empty(m, h) THEN g ELSE NextOf(m, h)
        /\ gp = IF Empty(m, h) THEN g ELSE PrevOf(m, h)
  BY RecalledTypes
<1>3. PICK a : a = rlist_assign(rlist_assign(m, "prev", h, hp), "next", h, hn)
  OBVIOUS
<1>4. Recalls(m0, a) /\ Given(m, a, h, hp, hn)
  BY <1>3, GivenLinks
<1>5. k = rlist_assign(rlist_assign(a, "prev", g, gp), "next", g, gn)
  BY <1>1, <1>2, <1>3 DEF swap_links
<1>6. Recalls(m0, k) /\ Given(a, k, g, gp, gn)
  BY <1>4, <1>5, GivenLinks
<1>7. LinkedHeads(m, k, h, hn, hp, g, gn, gp)
  BY <1>4, <1>6 DEF LinkedHeads, Given
<1> QED
  BY <1>1, <1>2, <1>6, <1>7

(***************************************************************************)
(* Lists from the pieces of others: r has the items of p behind place j of *)
(* q, or it has those of q without the ones strictly between places a, b.  *)
(***************************************************************************)
Woven(h, r, q, j, p) ==
  /\ r \in Seq(Items) /\ Len(r) = Len(q) + Len(p)
  /\ \A i \in 0 .. Len(r) + 1 :
       NodeAt(h, r, i) = IF i <= j THEN NodeAt(h, q, i)
                         ELSE IF i <= j + Len(p) THEN p[i - j] ELSE NodeAt(h, q, i - Len(p))

Skips(h, r, q, a, b) ==
  /\ r \in Seq(Items) /\ Len(r) = Len(q) - (b - a - 1)
  /\ \A i \in 0 .. Len(r) + 1 :
       NodeAt(h, r, i) = IF i <= a THEN NodeAt(h, q, i) ELSE NodeAt(h, q, i + (b - a - 1))

\* a and b are each other's neighbours.
Joined(k, a, b) == k["next"][a] = b /\ k["prev"][b] = a

\* The items of p are linked to each other and, at its ends, to the nodes of q.
LEMMA WovenRing ==
  ASSUME NEW k, NEW h \in Heads, NEW q \in Seq(Items), NEW p \in Seq(Items), NEW r,
         NEW j \in 0 .. Len(q), Woven(h, r, q, j, p), Len(p) >= 1,
         Joined(k, NodeAt(h, q, j), p[1]), Joined(k, p[Len(p)], NodeAt(h, q, j + 1)),
         \A i \in 1 .. Len(p) - 1 : Joined(k, p[i], p[i + 1]),
         \A i \in 0 .. Len(q) : i # j => Step(k, h, q, i)
  PROVE  Ring(k, h, r)
<1>1. PICK N \in Nat, M \in Nat : N = Len(q) /\ M = Len(p)
  OBVIOUS
<1>2. /\ r \in Seq(Items) /\ Len(r) = N + M
      /\ \A i \in 0 .. N + M + 1 :
           NodeAt(h, r, i) = IF i <= j THEN NodeAt(h, q, i)
                             ELSE IF i <= j + M THEN p[i - j] ELSE NodeAt(h, q, i - M)
  BY <1>1 DEF Woven
<1>3. ASSUME NEW i \in 0 .. N + M PROVE Joined(k, NodeAt(h, r, i), NodeAt(h, r, i + 1))
  <2>1. j \in Nat /\ j <= N /\ M >= 1 /\ i \in 0 .. N + M + 1 /\ i + 1 \in 0 .. N + M + 1
    BY <1>1
  <2>2. CASE i < j
    <3>1. i \in 0 .. Len(q) /\ i # j /\ i <= j /\ i + 1 <= j
      BY <1>1, <2>1, <2>2
    <3>2. NodeAt(h, r, i) = NodeAt(h, q, i) /\ NodeAt(h, r, i + 1) = NodeAt(h, q, i + 1)
      BY <1>2, <2>1, <3>1
    <3> QED
      BY <3>1, <3>2 DEF Step, Joined
  <2>3. CASE i = j
    <3>1. i <= j /\ ~(i + 1 <= j) /\ i + 1 <= j + M /\ i + 1 - j = 1
      BY <2>1, <2>3
    <3>2. NodeAt(h, r, i) = NodeAt(h, q, j) /\ NodeAt(h, r, i + 1) = p[1]
      BY <1>2, <2>1, <2>3, <3>1
    <3> QED
      BY <3>2
  <2>4. CASE i > j /\ i < j + M
    <3>1. ~(i <= j) /\ i <= j + M /\ ~(i + 1 <= j) /\ i + 1 <= j + M /\ i + 1 - j = (i - j) + 1
          /\ i - j \in 1 .. Len(p) - 1
      BY <1>1, <2>1, <2>4
    <3>2. NodeAt(h, r, i) = p[i - j] /\ NodeAt(h, r, i + 1) = p[(i - j) + 1]
      BY <1>2, <2>1, <3>1
    <3> QED
      BY <3>1, <3>2
  <2>5. CASE i = j + M
    <3>1. ~(i <= j) /\ i <= j + M /\ ~(i + 1 <= j) /\ ~(i + 1 <= j + M) /\ i - j = M /\ i + 1 - M = j + 1
      BY <2>1, <2>5
    <3>2. NodeAt(h, r, i) = p[M] /\ NodeAt(h, r, i + 1) = NodeAt(h, q, j + 1)
      BY <1>2, <2>1, <3>1
    <3> QED
      BY <1>1, <3>2
  <2>6. CASE i > j + M
    <3>1. ~(i <= j) /\ ~(i <= j + M) /\ ~(i + 1 <= j) /\ ~(i + 1 <= j + M) /\ i + 1 - M = (i - M) + 1
          /\ i - M \in 0 .. Len(q) /\ i - M # j
      BY <1>1, <2>1, <2>6
    <3>2. NodeAt(h, r, i) = NodeAt(h, q, i - M) /\ NodeAt(h, r, i + 1) = NodeAt(h, q, (i - M) + 1)
      BY <1>2, <2>1, <3>1
    <3> QED
      BY <3>1, <3>2 DEF Step, Joined
  <2> QED
    BY <2>1, <2>2, <2>3, <2>4, <2>5, <2>6
<1> QED
  BY <1>2, <1>3 DEF Ring, Step, Joined

\* The nodes at a and b are linked to each other.
LEMMA SkippedRing ==
  ASSUME NEW k, NEW h \in Heads, NEW q \in Seq(Items), NEW r,
         NEW a \in 0 .. Len(q), NEW b \in 1 .. Len(q) + 1, a < b, Skips(h, r, q, a, b),
         Joined(k, NodeAt(h, q, a), NodeAt(h, q, b)),
         \A i \in 0 .. Len(q) : i < a \/ i >= b => Step(k, h, q, i)
  PROVE  Ring(k, h, r)
<1>1. PICK N \in Nat, d \in Nat : N = Len(q) /\ d = b - a - 1
  <2>1. b - a - 1 \in Nat
    OBVIOUS
  <2> QED
    BY <2>1
<1>2. /\ r \in Seq(Items) /\ Len(r) = N - d
      /\ \A i \in 0 .. (N - d) + 1 :
           NodeAt(h, r, i) = IF i <= a THEN NodeAt(h, q, i) ELSE NodeAt(h, q, i + d)
  BY <1>1 DEF Skips
<1>3. ASSUME NEW i \in 0 .. N - d PROVE Joined(k, NodeAt(h, r, i), NodeAt(h, r, i + 1))
  <2>1. a \in Nat /\ b = a + d + 1 /\ b <= N + 1 /\ i \in 0 .. (N - d) + 1 /\ i + 1 \in 0 .. (N - d) + 1
    BY <1>1
  <2>2. CASE i < a
    <3>1. i \in 0 .. Len(q) /\ i <= a /\ i + 1 <= a
      BY <1>1, <2>1, <2>2
    <3>2. NodeAt(h, r, i) = NodeAt(h, q, i) /\ NodeAt(h, r, i + 1) = NodeAt(h, q, i + 1)
      BY <1>2, <2>1, <3>1
    <3> QED
      BY <2>2, <3>1, <3>2 DEF Step, Joined
  <2>3. CASE i = a
    <3>1. i <= a /\ ~(i + 1 <= a) /\ (i + 1) + d = b
      BY <2>1, <2>3
    <3>2. NodeAt(h, r, i) = NodeAt(h, q, a) /\ NodeAt(h, r, i + 1) = NodeAt(h, q, b)
      BY <1>2, <2>1, <2>3, <3>1
    <3> QED
      BY <3>2
  <2>4. CASE i > a
    <3>1. ~(i <= a) /\ ~(i + 1 <= a) /\ (i + 1) + d = (i + d) + 1 /\ i + d \in 0 .. Len(q) /\ i + d >= b
      BY <1>1, <2>1, <2>4
    <3>2. NodeAt(h, r, i) = NodeAt(h, q, i + d) /\ NodeAt(h, r, i + 1) = NodeAt(h, q, (i + d) + 1)
      BY <1>2, <2>1, <3>1
    <3> QED
      BY <3>1, <3>2 DEF Step, Joined
  <2> QED
    BY <2>1, <2>2, <2>3, <2>4
<1> QED
  BY <1>2, <1>3 DEF Ring, Step, Joined

\* The sequences that the operations build.
LEMMA ConcatWoven ==
  ASSUME NEW h \in Heads, NEW q \in Seq(Items), NEW p \in Seq(Items)
  PROVE  Woven(h, p \o q, q, 0, p) /\ Woven(h, q \o p, q, Len(q), p)
<1>1. PICK N \in Nat, M \in Nat : N = Len(q) /\ M = Len(p)
  OBVIOUS
<1>2. PICK r \in Seq(Items), s \in Seq(Items) : r = p \o q /\ s = q \o p
  <2>1. p \o q \in Seq(Items) /\ q \o p \in Seq(Items)
    OBVIOUS
  <2> QED
    BY <2>1
<1>3. /\ Len(r) = N + M /\ Len(s) = N + M
      /\ \A i \in 1 .. N + M : r[i] = IF i <= M THEN p[i] ELSE q[i - M]
      /\ \A i \in 1 .. N + M : s[i] = IF i <= N THEN q[i] ELSE p[i - N]
  BY <1>1, <1>2
<1>4. ASSUME NEW i \in 0 .. N + M + 1
      PROVE  NodeAt(h, r, i) = IF i <= 0 THEN NodeAt(h, q, i)
                               ELSE IF i <= 0 + M THEN p[i - 0] ELSE NodeAt(h, q, i - M)
  BY <1>1, <1>3 DEF NodeAt
<1>5. ASSUME NEW i \in 0 .. N + M + 1
      PROVE  NodeAt(h, s, i) = IF i <= N THEN NodeAt(h, q, i)
                               ELSE IF i <= N + M THEN p[i - N] ELSE NodeAt(h, q, i - M)
  BY <1>1, <1>3 DEF NodeAt
<1>6. Woven(h, r, q, 0, p)
  BY <1>1, <1>2, <1>3, <1>4 DEF Woven
<1>7. Woven(h, s, q, N, p)
  BY <1>1, <1>2, <1>3, <1>5 DEF Woven
<1> QED
  BY <1>1, <1>2, <1>6, <1>7

\* An item more at either end.
LEMMA OneWoven ==
  ASSUME NEW h \in Heads, NEW q \in Seq(Items), NEW x \in Items
  PROVE  Woven(h, <<x>> \o q, q, 0, <<x>>) /\ Woven(h, Append(q, x), q, Len(q), <<x>>)
<1>1. <<x>> \in Seq(Items) /\ Append(q, x) = q \o <<x>>
  OBVIOUS
<1> QED
  BY <1>1, ConcatWoven

\* A piece that becomes a list of its own.
LEMMA AloneWoven ==
  ASSUME NEW h \in Heads, NEW q \in Seq(Items), NEW n \in 1 .. Len(q)
  PROVE  Woven(h, SubSeq(q, 1, n), <<>>, 0, SubSeq(q, 1, n))
<1>1. SubSeq(q, 1, n) \in Seq(Items) /\ SubSeq(q, 1, n) \o <<>> = SubSeq(q, 1, n) /\ <<>> \in Seq(Items)
  OBVIOUS
<1> QED
  BY <1>1, ConcatWoven

\* A sequence without one of its items.
LEMMA RemoveSkips ==
  ASSUME NEW h \in Heads, NEW q \in Seq(Items), NEW j \in 1 .. Len(q)
  PROVE  Skips(h, RemoveAt(q, j), q, j - 1, j + 1)
<1>1. PICK N \in Nat : N = Len(q)
  OBVIOUS
<1>2. PICK b : b = SubSeq(q, 1, j - 1)
  OBVIOUS
<1>7. PICK e : e = SubSeq(q, j + 1, N)
  OBVIOUS
<1>8. b \in Seq(Items) /\ Len(b) = j - 1 /\ \A i \in 1 .. j - 1 : b[i] = q[i]
  BY <1>1, <1>2
<1>9. e \in Seq(Items) /\ Len(e) = N - j /\ \A i \in 1 .. N - j : e[i] = q[i + j]
  BY <1>1, <1>7
<1>10. PICK r : r = b \o e
  OBVIOUS
<1>11. /\ r \in Seq(Items) /\ Len(r) = (j - 1) + (N - j)
       /\ \A i \in 1 .. (j - 1) + (N - j) : r[i] = IF i <= j - 1 THEN b[i] ELSE e[i - (j - 1)]
  <2>3. b \in Seq(Items) /\ e \in Seq(Items)
    BY <1>8, <1>9
  <2>1. r \in Seq(Items) /\ Len(r) = Len(b) + Len(e)
    BY <1>10, <2>3
  <2>2. \A i \in 1 .. Len(b) + Len(e) : r[i] = IF i <= Len(b) THEN b[i] ELSE e[i - Len(b)]
    BY <1>8, <1>9, <1>10
  <2> QED
    BY <1>8, <1>9, <2>1, <2>2
<1>3. Len(r) = N - 1 /\ \A i \in 1 .. N - 1 : r[i] = IF i <= j - 1 THEN q[i] ELSE q[i + 1]
  <2>1. (j - 1) + (N - j) = N - 1
    BY <1>1
  <2>2. ASSUME NEW i \in 1 .. N - 1, i <= j - 1 PROVE r[i] = q[i]
    <3>1. i \in 1 .. j - 1 /\ i \in 1 .. (j - 1) + (N - j)
      BY <1>1, <2>2
    <3> QED
      BY <1>8, <1>11, <2>2, <3>1
  <2>3. ASSUME NEW i \in 1 .. N - 1, ~(i <= j - 1) PROVE r[i] = q[i + 1]
    <3>1. i - (j - 1) \in 1 .. N - j /\ (i - (j - 1)) + j = i + 1 /\ i \in 1 .. (j - 1) + (N - j)
      BY <1>1, <2>3
    <3> QED
      BY <1>9, <1>11, <2>3, <3>1
  <2> QED
    BY <1>11, <2>1, <2>2, <2>3
<1>4. ASSUME NEW i \in 0 .. (N - 1) + 1
      PROVE  NodeAt(h, r, i) = IF i <= j - 1 THEN NodeAt(h, q, i) ELSE NodeAt(h, q, i + 1)
  BY <1>1, <1>3 DEF NodeAt
<1>5. (j + 1) - (j - 1) - 1 = 1
  BY <1>1
<1>6. r = RemoveAt(q, j)
  BY <1>1, <1>2, <1>7, <1>10 DEF RemoveAt
<1> QED
  BY <1>1, <1>3, <1>4, <1>5, <1>6, <1>11 DEF Skips

\* A sequence without its first items.
LEMMA SuffixSkips ==
  ASSUME NEW h \in Heads, NEW q \in Seq(Items), NEW n \in 0 .. Len(q)
  PROVE  Skips(h, SubSeq(q, n + 1, Len(q)), q, 0, n + 1)
<1>1. PICK N \in Nat : N = Len(q)
  OBVIOUS
<1>2. PICK r : r = SubSeq(q, n + 1, N)
  OBVIOUS
<1>3. r \in Seq(Items) /\ Len(r) = N - n /\ \A i \in 1 .. N - n : r[i] = q[i + n]
  BY <1>1, <1>2
<1>4. ASSUME NEW i \in 0 .. (N - n) + 1
      PROVE  NodeAt(h, r, i) = IF i <= 0 THEN NodeAt(h, q, i) ELSE NodeAt(h, q, i + n)
  BY <1>1, <1>3 DEF NodeAt
<1>5. (n + 1) - 0 - 1 = n
  BY <1>1
<1> QED
  BY <1>1, <1>2, <1>3, <1>4, <1>5 DEF Skips

(***************************************************************************)
(* In the course of an operation that began at m0: the assignments so far  *)
(* are remembered, and the links read as ls.                               *)
(***************************************************************************)
Doing(m0, m, ls) == Recalls(m0, m) /\ Reads(m.links, ls)

Unlisted(x, ls) == x \in Items /\ \A g \in Heads : ls[g] # Broken => x \notin ToSet(ls[g])

\* The nodes S are those of the lists of H and items that are in no other list.
Clear(ls, H, S) ==
  /\ H \subseteq Heads /\ S \subseteq H \cup Items
  /\ \A g \in Heads \ H : ls[g] # Broken => ToSet(ls[g]) \cap S = {}

\* Only links of the nodes S change, and they lead to nodes of S.
Touches(m, k, S) ==
  /\ \A n \in ListNodes \ S : NextOf(k, n) = NextOf(m, n) /\ PrevOf(k, n) = PrevOf(m, n)
  /\ \A n \in S : NextOf(k, n) \in S

\* A list ends up as s.
EndsAs(k, h, s) == (s = Broken /\ ListOf(k.links, h) = Broken) \/ Ring(k.links, h, s)

\* The operation is done with two lists.
LEMMA TwoDone ==
  ASSUME NEW m0, NEW m, NEW ls, Doing(m0, m, ls), NEW k, Recalls(m0, k),
         NEW h \in Heads, NEW g \in Heads, h # g, NEW S, Clear(ls, {h, g}, S), Touches(m, k, S),
         NEW s, EndsAs(k, h, s), NEW t, EndsAs(k, g, t)
  PROVE  Doing(m0, k, [ls EXCEPT ![h] = s, ![g] = t])
<1>1. Reads(m.links, ls) /\ m.links \in Links /\ k.links \in Links
  BY DEF Doing, Reads, Recalls
<1>2. Fits(m.links, k.links, ls, {h, g}, S)
  BY <1>1 DEF Fits, Clear, Touches, Agree, NextOf, PrevOf
<1>3. ls = [i \in Heads |-> ls[i]]
  BY <1>1 DEF Reads, ListsOf
<1>4. PICK new : new = [ls EXCEPT ![h] = s, ![g] = t]
  OBVIOUS
<1>5. new = [i \in Heads |-> IF i = g THEN t ELSE IF i = h THEN s ELSE ls[i]]
  BY <1>3, <1>4
<1>6. Becomes(k.links, ls, {h, g}, new)
  <2>1. new[h] = s /\ new[g] = t /\ \A i \in Heads \ {h, g} : new[i] = ls[i]
    BY <1>5
  <2>2. new = [i \in Heads |-> new[i]]
    BY <1>5
  <2> QED
    BY <2>1, <2>2 DEF Becomes, EndsAs
<1>7. Reads(k.links, new)
  BY <1>1, <1>2, <1>6, Relisted
<1> QED
  BY <1>4, <1>7 DEF Doing

\* It is done with one.
LEMMA OneDone ==
  ASSUME NEW m0, NEW m, NEW ls, Doing(m0, m, ls), NEW k, Recalls(m0, k),
         NEW h \in Heads, NEW S, Clear(ls, {h}, S), Touches(m, k, S), NEW s, Ring(k.links, h, s)
  PROVE  Doing(m0, k, [ls EXCEPT ![h] = s])
<1>1. Reads(m.links, ls) /\ m.links \in Links /\ k.links \in Links
  BY DEF Doing, Reads, Recalls
<1>2. Fits(m.links, k.links, ls, {h}, S)
  BY <1>1 DEF Fits, Clear, Touches, Agree, NextOf, PrevOf
<1>3. ls = [i \in Heads |-> ls[i]]
  BY <1>1 DEF Reads, ListsOf
<1>4. PICK new : new = [ls EXCEPT ![h] = s]
  OBVIOUS
<1>5. new = [i \in Heads |-> IF i = h THEN s ELSE ls[i]]
  BY <1>3, <1>4
<1>6. Becomes(k.links, ls, {h}, new)
  <2>1. new[h] = s /\ \A i \in Heads \ {h} : new[i] = ls[i]
    BY <1>5
  <2>2. new = [i \in Heads |-> new[i]]
    BY <1>5
  <2> QED
    BY <2>1, <2>2 DEF Becomes
<1>7. Reads(k.links, new)
  BY <1>1, <1>2, <1>6, Relisted
<1> QED
  BY <1>4, <1>7 DEF Doing

\* It is done with none.
LEMMA NoneDone ==
  ASSUME NEW m0, NEW m, NEW ls, Doing(m0, m, ls), NEW k, Recalls(m0, k),
         NEW S, Clear(ls, {}, S), Touches(m, k, S)
  PROVE  Doing(m0, k, ls)
<1>1. Reads(m.links, ls) /\ m.links \in Links /\ k.links \in Links
  BY DEF Doing, Reads, Recalls
<1>2. Fits(m.links, k.links, ls, {}, S)
  BY <1>1 DEF Fits, Clear, Touches, Agree, NextOf, PrevOf
<1>3. ls = [i \in Heads |-> ls[i]]
  BY <1>1 DEF Reads, ListsOf
<1>4. Becomes(k.links, ls, {}, ls)
  BY <1>3 DEF Becomes
<1>5. Reads(k.links, ls)
  BY <1>1, <1>2, <1>4, Relisted
<1> QED
  BY <1>5 DEF Doing

\* What is known of the list q of h.
Laid(m, ls, h, q) ==
  /\ Ring(m.links, h, q) /\ q \in Seq(Items)
  /\ \A i \in 0 .. Len(q) : /\ NextOf(m, NodeAt(h, q, i)) = NodeAt(h, q, i + 1)
                            /\ PrevOf(m, NodeAt(h, q, i + 1)) = NodeAt(h, q, i)
  /\ \A n \in NodesOf(h, q) : NextOf(m, n) \in NodesOf(h, q)
  /\ Clear(ls, {h}, NodesOf(h, q)) /\ NodesOf(h, q) \subseteq ListNodes

\* A list is laid out by its links.
LEMMA DoingRing ==
  ASSUME NEW m0, NEW m, NEW ls, Doing(m0, m, ls), NEW h \in Heads, NEW q, q = ls[h], q # Broken
  PROVE  Laid(m, ls, h, q)
<1>1. Ring(m.links, h, q) /\ q \in Seq(Items) /\ h \in ListNodes
      /\ \A g \in Heads \ {h} : ls[g] # Broken =>
           Ring(m.links, g, ls[g]) /\ NodesOf(h, q) \cap NodesOf(g, ls[g]) = {}
  BY ReadsRing DEF Doing, ListNodes
<1>2. ASSUME NEW i \in 0 .. Len(q)
      PROVE  /\ NextOf(m, NodeAt(h, q, i)) = NodeAt(h, q, i + 1)
             /\ PrevOf(m, NodeAt(h, q, i + 1)) = NodeAt(h, q, i)
  BY <1>1 DEF Ring, Step, NextOf, PrevOf
<1>3. NodesOf(h, q) \subseteq ListNodes /\ NodesOf(h, q) = {h} \cup ToSet(q) /\ ToSet(q) \subseteq Items
  BY <1>1, ListPlaces
<1>4. ASSUME NEW n \in NodesOf(h, q) PROVE NextOf(m, n) \in NodesOf(h, q)
  <2>1. Len(q) \in Nat /\ NodeAt(h, q, Len(q) + 1) = NodeAt(h, q, 0)
    BY <1>1, ListPlaces
  <2>2. PICK i \in 0 .. Len(q) + 1 : n = NodeAt(h, q, i)
    BY DEF NodesOf
  <2>3. \E j \in 0 .. Len(q) : n = NodeAt(h, q, j)
    <3>1. 0 \in 0 .. Len(q) /\ (i = Len(q) + 1 \/ i \in 0 .. Len(q))
      BY <2>1
    <3> QED
      BY <2>1, <2>2, <3>1
  <2>4. PICK j \in 0 .. Len(q) : n = NodeAt(h, q, j)
    BY <2>3
  <2>5. j + 1 \in 0 .. Len(q) + 1 /\ NextOf(m, n) = NodeAt(h, q, j + 1)
    BY <1>2, <2>1, <2>4
  <2> QED
    BY <2>5 DEF NodesOf
<1>5. Clear(ls, {h}, NodesOf(h, q))
  <2>1. ASSUME NEW g \in Heads \ {h}, ls[g] # Broken PROVE ToSet(ls[g]) \cap NodesOf(h, q) = {}
    <3>1. Ring(m.links, g, ls[g]) /\ NodesOf(h, q) \cap NodesOf(g, ls[g]) = {}
      BY <1>1, <2>1
    <3>2. NodesOf(g, ls[g]) = {g} \cup ToSet(ls[g])
      BY <3>1, ListPlaces DEF Ring
    <3> QED
      BY <3>1, <3>2
  <2> QED
    BY <1>3, <2>1 DEF Clear
<1> QED
  BY <1>1, <1>2, <1>3, <1>4, <1>5 DEF Laid

\* An item of no list is linked to itself: nothing happens to the lists.
LEMMA ItemCreated ==
  ASSUME NEW m0, NEW m, NEW ls, Doing(m0, m, ls), NEW x, Unlisted(x, ls), NEW k, k = create(m, x)
  PROVE  Doing(m0, k, ls)
<1>1. x \in ListNodes /\ x \in Items /\ Recalls(m0, m)
  BY DEF Unlisted, ListNodes, Doing
<1>2. Recalls(m0, k) /\ LinkedAlone(m, k, x)
  BY <1>1, CreateLinks
<1>3. Touches(m, k, {x})
  BY <1>1, <1>2 DEF Touches, LinkedAlone
<1>4. Clear(ls, {}, {x})
  BY DEF Clear, Unlisted
<1> QED
  BY <1>2, <1>3, <1>4, NoneDone

\* A head that is linked to itself has an empty list.
LEMMA HeadAlone ==
  ASSUME NEW m0, NEW m, NEW ls, Doing(m0, m, ls), NEW h \in Heads, NEW k,
         Recalls(m0, k), LinkedAlone(m, k, h)
  PROVE  Doing(m0, k, [ls EXCEPT ![h] = <<>>])
<1>1. h \in ListNodes
  BY DEF ListNodes
<1>2. Touches(m, k, {h})
  BY <1>1 DEF Touches, LinkedAlone
<1>3. Clear(ls, {h}, {h})
  <2>1. ASSUME NEW g \in Heads \ {h}, ls[g] # Broken PROVE ToSet(ls[g]) \cap {h} = {}
    <3>1. ls[g] \in Seq(Items)
      BY <2>1 DEF Doing, Reads, Over
    <3>2. h \notin Items /\ ToSet(ls[g]) \subseteq Items
      BY <3>1, ListPlaces
    <3> QED
      BY <3>2
  <2> QED
    BY <2>1 DEF Clear
<1>4. Ring(k.links, h, <<>>)
  <2>1. k.links["next"][h] = h /\ k.links["prev"][h] = h
    BY <1>1 DEF LinkedAlone, NextOf, PrevOf
  <2>2. \A i \in 0 .. 0 : Step(k.links, h, <<>>, i)
    BY <2>1 DEF Step, NodeAt
  <2>3. <<>> \in Seq(Items) /\ Len(<<>>) = 0
    OBVIOUS
  <2> QED
    BY <2>2, <2>3 DEF Ring
<1> QED
  BY <1>2, <1>3, <1>4, OneDone

\* create, of a head.
LEMMA CreateDone ==
  ASSUME NEW m0, NEW m, NEW ls, Doing(m0, m, ls), NEW h \in Heads, NEW k, k = create(m, h)
  PROVE  Doing(m0, k, [ls EXCEPT ![h] = <<>>])
<1>1. h \in ListNodes /\ Recalls(m0, m)
  BY DEF ListNodes, Doing
<1>2. Recalls(m0, k) /\ LinkedAlone(m, k, h)
  BY <1>1, CreateLinks
<1> QED
  BY <1>2, HeadAlone

\* An item between the nodes at places j and j + 1 of a list.
LEMMA BetweenDone ==
  ASSUME NEW m0, NEW m, NEW ls, Doing(m0, m, ls), NEW h \in Heads, NEW q, q = ls[h], q # Broken,
         NEW x, Unlisted(x, ls), NEW j \in 0 .. Len(q), NEW r, Woven(h, r, q, j, <<x>>),
         NEW k, Recalls(m0, k), LinkedBetween(m, k, NodeAt(h, q, j), x, NodeAt(h, q, j + 1))
  PROVE  Doing(m0, k, [ls EXCEPT ![h] = r])
<1>1. /\ Ring(m.links, h, q) /\ q \in Seq(Items)
      /\ \A i \in 0 .. Len(q) : /\ NextOf(m, NodeAt(h, q, i)) = NodeAt(h, q, i + 1)
                                /\ PrevOf(m, NodeAt(h, q, i + 1)) = NodeAt(h, q, i)
      /\ \A n \in NodesOf(h, q) : NextOf(m, n) \in NodesOf(h, q)
      /\ Clear(ls, {h}, NodesOf(h, q)) /\ NodesOf(h, q) \subseteq ListNodes
  <2>1. Laid(m, ls, h, q)
    BY DoingRing
  <2> QED
    BY <2>1 DEF Laid
<1>2. PICK N \in Nat : N = Len(q)
  BY <1>1
<1>3. x \in Items /\ x \in ListNodes /\ x \notin NodesOf(h, q)
  <2>1. NodesOf(h, q) = {h} \cup ToSet(q) /\ h \notin Items
    BY <1>1, ListPlaces
  <2> QED
    BY <2>1 DEF Unlisted, ListNodes
<1>4. PICK a, b : a = NodeAt(h, q, j) /\ b = NodeAt(h, q, j + 1)
  OBVIOUS
<1>5. a \in NodesOf(h, q) /\ b \in NodesOf(h, q) /\ NextOf(m, a) = b
  <2>1. j \in 0 .. Len(q) + 1 /\ j + 1 \in 0 .. Len(q) + 1
    BY <1>2
  <2> QED
    BY <1>1, <1>4, <2>1 DEF NodesOf
<1>6. \A n \in ListNodes :
        /\ NextOf(k, n) = (IF n = a THEN x ELSE IF n = x THEN b ELSE NextOf(m, n))
        /\ PrevOf(k, n) = (IF n = b THEN x ELSE IF n = x THEN a ELSE PrevOf(m, n))
  BY <1>4 DEF LinkedBetween
<1>7. PICK S : S = NodesOf(h, q) \cup {x}
  OBVIOUS
<1>8. Touches(m, k, S)
  BY <1>1, <1>3, <1>5, <1>6, <1>7 DEF Touches
<1>9. Clear(ls, {h}, S)
  BY <1>1, <1>3, <1>7 DEF Clear, Unlisted
<1>10. Joined(k.links, a, x) /\ Joined(k.links, x, b)
  BY <1>1, <1>3, <1>5, <1>6 DEF Joined, NextOf, PrevOf
<1>11. ASSUME NEW i \in 0 .. Len(q), i # j PROVE Step(k.links, h, q, i)
  <2>1. PICK c, d : c = NodeAt(h, q, i) /\ d = NodeAt(h, q, i + 1)
    OBVIOUS
  <2>2. i \in 0 .. Len(q) + 1 /\ i + 1 \in 1 .. Len(q) + 1 /\ j + 1 \in 1 .. Len(q) + 1 /\ i + 1 # j + 1
        /\ i + 1 \in 0 .. Len(q) + 1
    BY <1>2, <1>11
  <2>3. c # a /\ d # b
    BY <1>1, <1>4, <1>11, <2>1, <2>2, NodeAtInjective
  <2>4. c \in NodesOf(h, q) /\ d \in NodesOf(h, q)
    BY <2>1, <2>2 DEF NodesOf
  <2>5. NextOf(k, c) = d /\ PrevOf(k, d) = c
    BY <1>1, <1>3, <1>6, <2>1, <2>3, <2>4
  <2> QED
    BY <2>1, <2>5 DEF Step, NextOf, PrevOf
<1>12. Ring(k.links, h, r)
  <2>1. PICK p : p = <<x>>
    OBVIOUS
  <2>2. p \in Seq(Items) /\ Len(p) = 1 /\ p[1] = x
    BY <1>3, <2>1
  <2>3. Joined(k.links, NodeAt(h, q, j), p[1]) /\ Joined(k.links, p[Len(p)], NodeAt(h, q, j + 1))
    BY <1>4, <1>10, <2>2
  <2>4. \A i \in 1 .. Len(p) - 1 : Joined(k.links, p[i], p[i + 1])
    BY <2>2
  <2>5. Woven(h, r, q, j, p) /\ Len(p) >= 1
    BY <2>1, <2>2
  <2> QED
    BY <1>1, <1>11, <2>2, <2>3, <2>4, <2>5, WovenRing
<1> QED
  BY <1>8, <1>9, <1>12, OneDone

\* add and add_tail.
LEMMA AddDone ==
  ASSUME NEW m0, NEW m, NEW ls, Doing(m0, m, ls), NEW h \in Heads, NEW q, q = ls[h], q # Broken,
         NEW x, Unlisted(x, ls)
  PROVE  /\ Doing(m0, add(m, h, x), [ls EXCEPT ![h] = <<x>> \o q])
         /\ Doing(m0, add_tail(m, h, x), [ls EXCEPT ![h] = Append(q, x)])
<1>1. /\ Ring(m.links, h, q) /\ q \in Seq(Items)
      /\ \A i \in 0 .. Len(q) : /\ NextOf(m, NodeAt(h, q, i)) = NodeAt(h, q, i + 1)
                                /\ PrevOf(m, NodeAt(h, q, i + 1)) = NodeAt(h, q, i)
  <2>1. Laid(m, ls, h, q)
    BY DoingRing
  <2> QED
    BY <2>1 DEF Laid
<1>2. PICK N \in Nat : N = Len(q)
  BY <1>1
<1>3. /\ h \in ListNodes /\ NodeAt(h, q, 0) = h /\ NodeAt(h, q, Len(q) + 1) = h
      /\ NodesOf(h, q) = {h} \cup ToSet(q) /\ h \notin Items
  BY <1>1, ListPlaces
<1>4. x \in Items /\ x \in ListNodes /\ x \notin NodesOf(h, q)
  BY <1>3 DEF Unlisted, ListNodes
<1>5. Recalls(m0, m)
  BY DEF Doing
<1>6. 0 \in 0 .. Len(q) /\ Len(q) \in 0 .. Len(q) /\ 1 \in 0 .. Len(q) + 1 /\ Len(q) \in 0 .. Len(q) + 1 /\ 0 + 1 = 1
  BY <1>2
<1>7. /\ NextOf(m, h) = NodeAt(h, q, 1) /\ NextOf(m, h) \in NodesOf(h, q)
      /\ PrevOf(m, h) = NodeAt(h, q, Len(q)) /\ PrevOf(m, h) \in NodesOf(h, q)
  BY <1>1, <1>3, <1>6 DEF NodesOf
<1>8. Doing(m0, add(m, h, x), [ls EXCEPT ![h] = <<x>> \o q])
  <2>1. PICK k : k = add(m, h, x)
    OBVIOUS
  <2>2. Recalls(m0, k) /\ LinkedBetween(m, k, h, x, NextOf(m, h))
    BY <1>3, <1>4, <1>5, <1>7, <2>1, AddLinks
  <2>3. LinkedBetween(m, k, NodeAt(h, q, 0), x, NodeAt(h, q, 0 + 1))
    BY <1>3, <1>6, <1>7, <2>2
  <2>4. Woven(h, <<x>> \o q, q, 0, <<x>>)
    BY <1>1, <1>4, OneWoven
  <2>5. Doing(m0, k, [ls EXCEPT ![h] = <<x>> \o q])
    BY <1>6, <2>2, <2>3, <2>4, BetweenDone
  <2> QED
    BY <2>1, <2>5
<1>9. Doing(m0, add_tail(m, h, x), [ls EXCEPT ![h] = Append(q, x)])
  <2>1. PICK k : k = add_tail(m, h, x)
    OBVIOUS
  <2>2. Recalls(m0, k) /\ LinkedBetween(m, k, PrevOf(m, h), x, h)
    BY <1>3, <1>4, <1>5, <1>7, <2>1, AddTailLinks
  <2>3. LinkedBetween(m, k, NodeAt(h, q, Len(q)), x, NodeAt(h, q, Len(q) + 1))
    BY <1>3, <1>7, <2>2
  <2>4. Woven(h, Append(q, x), q, Len(q), <<x>>)
    BY <1>1, <1>4, OneWoven
  <2>5. Doing(m0, k, [ls EXCEPT ![h] = Append(q, x)])
    BY <1>6, <2>2, <2>3, <2>4, BetweenDone
  <2> QED
    BY <2>1, <2>5
<1> QED
  BY <1>8, <1>9

\* The lists without the item at place j of one.
Dropped(ls, h, j) == [ls EXCEPT ![h] = RemoveAt(ls[h], j)]

\* The item at place j of a list is taken out of it, its own links left behind.
LEMMA UnlinkedDone ==
  ASSUME NEW m0, NEW m, NEW ls, Doing(m0, m, ls), NEW h \in Heads, ls[h] # Broken,
         NEW j \in 1 .. Len(ls[h])
  PROVE  /\ Doing(m0, Unlinked(m, ls[h][j]), Dropped(ls, h, j))
         /\ Unlisted(ls[h][j], Dropped(ls, h, j))
         /\ \A i \in Heads : ls[i] # Broken => Dropped(ls, h, j)[i] # Broken
<1>0. PICK q, k, new : q = ls[h] /\ k = Unlinked(m, q[j]) /\ new = [ls EXCEPT ![h] = RemoveAt(q, j)]
  OBVIOUS
<1>1. /\ Ring(m.links, h, q) /\ q \in Seq(Items)
      /\ \A i \in 0 .. Len(q) : /\ NextOf(m, NodeAt(h, q, i)) = NodeAt(h, q, i + 1)
                                /\ PrevOf(m, NodeAt(h, q, i + 1)) = NodeAt(h, q, i)
      /\ \A n \in NodesOf(h, q) : NextOf(m, n) \in NodesOf(h, q)
      /\ Clear(ls, {h}, NodesOf(h, q)) /\ NodesOf(h, q) \subseteq ListNodes
  <2>1. Laid(m, ls, h, q)
    BY <1>0, DoingRing
  <2> QED
    BY <2>1 DEF Laid
<1>2. PICK N \in Nat : N = Len(q) /\ j \in 1 .. N
  BY <1>0, <1>1
<1>3. PICK x \in Items : x = q[j] /\ NodeAt(h, q, j) = x
  BY <1>1, <1>2, ListPlaces
<1>4. /\ j - 1 \in 0 .. Len(q) /\ (j - 1) + 1 = j /\ j \in 0 .. Len(q)
      /\ j + 1 \in 1 .. Len(q) + 1 /\ j - 1 < j + 1 /\ j \in 0 .. Len(q) + 1
      /\ j - 1 \in 0 .. Len(q) + 1 /\ j + 1 \in 0 .. Len(q) + 1
  BY <1>2
<1>5. PICK a, b : a = NodeAt(h, q, j - 1) /\ b = NodeAt(h, q, j + 1)
  OBVIOUS
<1>6. NextOf(m, x) = b /\ PrevOf(m, x) = a
  BY <1>1, <1>3, <1>4, <1>5
<1>7. a # x
  <2>1. j - 1 # j
    BY <1>2
  <2> QED
    BY <1>1, <1>3, <1>4, <1>5, <2>1, NodeAtInjective
<1>8. Recalls(m0, k) /\ LinkedPast(m, k, a, b)
  <2>1. x \in ListNodes /\ Recalls(m0, m)
    BY DEF ListNodes, Doing
  <2> QED
    BY <1>0, <1>3, <1>6, <1>7, <2>1, UnlinkedLinks
<1>9. a \in NodesOf(h, q) /\ b \in NodesOf(h, q) /\ x \in NodesOf(h, q)
  BY <1>3, <1>4, <1>5 DEF NodesOf
<1>10. Touches(m, k, NodesOf(h, q))
  BY <1>1, <1>8, <1>9 DEF Touches, LinkedPast
<1>11. Joined(k.links, a, b)
  BY <1>1, <1>8, <1>9 DEF Joined, LinkedPast, NextOf, PrevOf
<1>12. ASSUME NEW i \in 0 .. Len(q), i < j - 1 \/ i >= j + 1 PROVE Step(k.links, h, q, i)
  <2>1. PICK c, d : c = NodeAt(h, q, i) /\ d = NodeAt(h, q, i + 1)
    OBVIOUS
  <2>2. i \in 0 .. Len(q) + 1 /\ i + 1 \in 1 .. Len(q) + 1 /\ i # j - 1 /\ i + 1 # j + 1
        /\ i + 1 \in 0 .. Len(q) + 1
    BY <1>2, <1>12
  <2>3. c # a /\ d # b
    BY <1>1, <1>4, <1>5, <2>1, <2>2, NodeAtInjective
  <2>4. c \in NodesOf(h, q) /\ d \in NodesOf(h, q)
    BY <2>1, <2>2 DEF NodesOf
  <2>5. NextOf(k, c) = d /\ PrevOf(k, d) = c
    BY <1>1, <1>8, <2>1, <2>3, <2>4 DEF LinkedPast
  <2> QED
    BY <2>1, <2>5 DEF Step, NextOf, PrevOf
<1>13. Skips(h, RemoveAt(q, j), q, j - 1, j + 1)
  BY <1>1, <1>2, RemoveSkips
<1>14. Ring(k.links, h, RemoveAt(q, j))
  BY <1>1, <1>4, <1>5, <1>11, <1>12, <1>13, SkippedRing
<1>15. Doing(m0, k, new)
  BY <1>0, <1>1, <1>8, <1>10, <1>14, OneDone
<1>16. Unlisted(x, new)
  <2>1. ls = [g \in Heads |-> ls[g]]
    BY DEF Doing, Reads, ListsOf
  <2>2. \A g \in Heads \ {h} : ls[g] # Broken => x \notin ToSet(ls[g])
    BY <1>1, <1>9 DEF Clear
  <2>3. x \notin ToSet(RemoveAt(q, j))
    <3>1. PICK r : r = RemoveAt(q, j)
      OBVIOUS
    <3>2. /\ r \in Seq(Items) /\ Len(r) = N - 1
          /\ \A i \in 0 .. Len(r) + 1 :
               NodeAt(h, r, i) = IF i <= j - 1 THEN NodeAt(h, q, i) ELSE NodeAt(h, q, i + 1)
      <4>1. (j + 1) - (j - 1) - 1 = 1
        BY <1>2
      <4> QED
        BY <1>2, <1>13, <3>1, <4>1 DEF Skips
    <3>3. ASSUME NEW i \in 1 .. Len(r) PROVE r[i] # x
      <4>1. NodeAt(h, r, i) = r[i]
        BY <3>2, ListPlaces
      <4>2. i \in 0 .. Len(r) + 1 /\ i \in 0 .. Len(q) /\ i + 1 \in 0 .. Len(q)
        BY <1>2, <3>2
      <4>3. CASE i <= j - 1
        <5>1. i # j /\ r[i] = NodeAt(h, q, i)
          BY <1>2, <3>2, <4>1, <4>2, <4>3
        <5> QED
          BY <1>1, <1>3, <1>4, <4>2, <5>1, NodeAtInjective
      <4>4. CASE ~(i <= j - 1)
        <5>1. i + 1 # j /\ r[i] = NodeAt(h, q, i + 1)
          BY <1>2, <3>2, <4>1, <4>2, <4>4
        <5> QED
          BY <1>1, <1>3, <1>4, <4>2, <5>1, NodeAtInjective
      <4> QED
        BY <4>3, <4>4
    <3>4. ToSet(r) = {r[i] : i \in 1 .. Len(r)}
      BY <3>2, ListPlaces
    <3> QED
      BY <3>1, <3>3, <3>4
  <2> QED
    BY <1>0, <2>1, <2>2, <2>3 DEF Unlisted
<1>17. ASSUME NEW i \in Heads, ls[i] # Broken PROVE new[i] # Broken
  <2>1. ls = [g \in Heads |-> ls[g]]
    BY DEF Doing, Reads, ListsOf
  <2>2. RemoveAt(q, j) # Broken
    BY <1>14, RingList
  <2> QED
    BY <1>0, <1>17, <2>1, <2>2
<1> QED
  BY <1>0, <1>3, <1>15, <1>16, <1>17 DEF Dropped

\* del.
LEMMA DelDone ==
  ASSUME NEW m0, NEW m, NEW ls, Doing(m0, m, ls), NEW h \in Heads, ls[h] # Broken,
         NEW j \in 1 .. Len(ls[h])
  PROVE  /\ Doing(m0, del(m, ls[h][j]), Dropped(ls, h, j))
         /\ Unlisted(ls[h][j], Dropped(ls, h, j))
         /\ \A i \in Heads : ls[i] # Broken => Dropped(ls, h, j)[i] # Broken
<1>1. PICK new : new = Dropped(ls, h, j)
  OBVIOUS
<1>2. PICK x, a, k : x = ls[h][j] /\ a = Unlinked(m, x) /\ k = create(a, x)
  OBVIOUS
<1>3. Doing(m0, a, new) /\ Unlisted(x, new) /\ \A i \in Heads : ls[i] # Broken => new[i] # Broken
  BY <1>1, <1>2, UnlinkedDone
<1>4. Doing(m0, k, new)
  BY <1>2, <1>3, ItemCreated
<1> QED
  BY <1>1, <1>2, <1>3, <1>4 DEF del

\* An item more at the front of a list, or at its end.
Fronted(ls, h, x) == [ls EXCEPT ![h] = <<x>> \o ls[h]]
Backed(ls, h, x) == [ls EXCEPT ![h] = Append(ls[h], x)]

\* add and add_tail, in terms of the lists.
LEMMA PutDone ==
  ASSUME NEW m0, NEW m, NEW ls, Doing(m0, m, ls), NEW h \in Heads, ls[h] # Broken,
         NEW x, Unlisted(x, ls)
  PROVE  Doing(m0, add(m, h, x), Fronted(ls, h, x)) /\ Doing(m0, add_tail(m, h, x), Backed(ls, h, x))
<1>1. PICK q : q = ls[h]
  OBVIOUS
<1>2. /\ Doing(m0, add(m, h, x), [ls EXCEPT ![h] = <<x>> \o q])
      /\ Doing(m0, add_tail(m, h, x), [ls EXCEPT ![h] = Append(q, x)])
  BY <1>1, AddDone
<1> QED
  BY <1>1, <1>2 DEF Fronted, Backed

\* shift and shift_tail delete the first item, or the last.
LEMMA ShiftDone ==
  ASSUME NEW m0, NEW m, NEW ls, Doing(m0, m, ls), NEW h \in Heads, ls[h] # Broken, ~Empty(m, h)
  PROVE  /\ 1 \in 1 .. Len(ls[h]) /\ Len(ls[h]) \in 1 .. Len(ls[h])
         /\ Doing(m0, shift(m, h), Dropped(ls, h, 1))
         /\ Doing(m0, shift_tail(m, h), Dropped(ls, h, Len(ls[h])))
<1>1. PICK q : q = ls[h]
  OBVIOUS
<1>2. Laid(m, ls, h, q)
  BY <1>1, DoingRing
<1>3. /\ Ring(m.links, h, q) /\ q \in Seq(Items)
      /\ \A i \in 0 .. Len(q) : /\ NextOf(m, NodeAt(h, q, i)) = NodeAt(h, q, i + 1)
                                /\ PrevOf(m, NodeAt(h, q, i + 1)) = NodeAt(h, q, i)
  BY <1>2 DEF Laid
<1>4. PICK N \in Nat : N = Len(q)
  BY <1>3
<1>5. /\ NodeAt(h, q, 0) = h /\ NodeAt(h, q, N + 1) = h
      /\ \A i \in 1 .. N : NodeAt(h, q, i) = q[i]
  BY <1>3, <1>4, ListPlaces
<1>6. 0 \in 0 .. Len(q) /\ 0 + 1 = 1 /\ N \in 0 .. Len(q)
  BY <1>4
<1>7. NextOf(m, h) = NodeAt(h, q, 1) /\ PrevOf(m, NodeAt(h, q, 1)) = h /\ PrevOf(m, h) = NodeAt(h, q, N)
  BY <1>3, <1>5, <1>6
<1>8. 1 \in 1 .. N /\ N \in 1 .. N
  <2>1. N # 0
    BY <1>5, <1>7 DEF Empty
  <2> QED
    BY <1>4, <2>1
<1>9. PICK x, z : x = q[1] /\ z = q[N]
  OBVIOUS
<1>10. NextOf(m, h) = x /\ PrevOf(m, x) = h /\ PrevOf(m, h) = z
  BY <1>5, <1>7, <1>8, <1>9
<1>11. Doing(m0, del(m, x), Dropped(ls, h, 1)) /\ Doing(m0, del(m, z), Dropped(ls, h, N))
  BY <1>1, <1>4, <1>8, <1>9, DelDone
<1>12. shift(m, h) = del(m, x)
  <2>1. PICK a : a = rlist_assign(m, "next", h, NextOf(m, x))
    OBVIOUS
  <2>2. PrevOf(a, x) = h
    <3>1. Recalls(m0, m) /\ h \in ListNodes
      BY DEF Doing, ListNodes
    <3>2. x \in ListNodes
      BY <1>10, <3>1, RecalledTypes
    <3>3. NextOf(m, x) \in ListNodes
      BY <3>1, <3>2, RecalledTypes
    <3>4. NextSet(m, a, h, NextOf(m, x))
      BY <2>1, <3>1, <3>3, AssignedNext
    <3> QED
      BY <1>10, <3>2, <3>4 DEF NextSet
  <2>3. PICK b : b = rlist_assign(a, "prev", NextOf(a, x), h)
    OBVIOUS
  <2>4. Unlinked(m, x) = b
    BY <1>10, <2>1, <2>2, <2>3 DEF Unlinked
  <2>5. shift(m, h) = create(b, x)
    BY <1>10, <2>1, <2>3 DEF shift, create
  <2> QED
    BY <2>4, <2>5 DEF del
<1>13. shift_tail(m, h) = del(m, z)
  BY <1>10 DEF shift_tail
<1> QED
  BY <1>1, <1>4, <1>8, <1>11, <1>12, <1>13

\* move and move_tail take an item out of its list and add it to another, or to its own.
LEMMA MoveDone ==
  ASSUME NEW m0, NEW m, NEW ls, Doing(m0, m, ls), NEW to \in Heads, ls[to] # Broken,
         NEW h \in Heads, ls[h] # Broken, NEW j \in 1 .. Len(ls[h]), NEW x, x = ls[h][j]
  PROVE  /\ Doing(m0, move(m, to, x), Fronted(Dropped(ls, h, j), to, x))
         /\ Doing(m0, move_tail(m, to, x), Backed(Dropped(ls, h, j), to, x))
<1>1. PICK mid : mid = Dropped(ls, h, j)
  OBVIOUS
<1>2. /\ Doing(m0, Unlinked(m, x), mid) /\ Doing(m0, del(m, x), mid)
      /\ Unlisted(x, mid) /\ mid[to] # Broken
  BY <1>1, UnlinkedDone, DelDone
<1>3. Doing(m0, add(del(m, x), to, x), Fronted(mid, to, x))
  BY <1>2, PutDone
<1>4. Doing(m0, add_tail(Unlinked(m, x), to, x), Backed(mid, to, x))
  BY <1>2, PutDone
<1>5. move(m, to, x) = add(del(m, x), to, x)
  BY DEF move
<1>6. move_tail(m, to, x) = add_tail(Unlinked(m, x), to, x)
  BY DEF move_tail, add_tail
<1> QED
  BY <1>1, <1>3, <1>4, <1>5, <1>6

\* Two lists are laid out apart.
LaidApart(m, ls, h, q, g, p) ==
  /\ Laid(m, ls, h, q) /\ Laid(m, ls, g, p)
  /\ NodesOf(h, q) \cap NodesOf(g, p) = {}
  /\ Clear(ls, {h, g}, NodesOf(h, q) \cup NodesOf(g, p))

\* What is known of two lists.
LEMMA DoingRings ==
  ASSUME NEW m0, NEW m, NEW ls, Doing(m0, m, ls),
         NEW h \in Heads, NEW q, q = ls[h], q # Broken,
         NEW g \in Heads, NEW p, p = ls[g], p # Broken, h # g
  PROVE  LaidApart(m, ls, h, q, g, p)
<1>1. Laid(m, ls, h, q)
  BY DoingRing
<1>2. Laid(m, ls, g, p)
  BY DoingRing
<1>3. NodesOf(h, q) \cap NodesOf(g, p) = {}
  BY <1>1, <1>2, RingsApart DEF Laid
<1>4. Clear(ls, {h}, NodesOf(h, q)) /\ Clear(ls, {g}, NodesOf(g, p))
  BY <1>1, <1>2 DEF Laid
<1>5. Clear(ls, {h, g}, NodesOf(h, q) \cup NodesOf(g, p))
  BY <1>4 DEF Clear
<1> QED
  BY <1>1, <1>2, <1>3, <1>5 DEF LaidApart

\* All items of g between the nodes at places j and j + 1 of h.
LEMMA IntoDone ==
  ASSUME NEW m0, NEW m, NEW ls, Doing(m0, m, ls), NEW h \in Heads, NEW q, q = ls[h],
         NEW g \in Heads, NEW p, p = ls[g], h # g, LaidApart(m, ls, h, q, g, p), Len(p) >= 1,
         NEW j \in 0 .. Len(q), NEW r, Woven(h, r, q, j, p), NEW k, Recalls(m0, k),
         LinkedInto(m, k, NodeAt(h, q, j), p[1], p[Len(p)], NodeAt(h, q, j + 1), g)
  PROVE  Doing(m0, k, [ls EXCEPT ![h] = r, ![g] = <<>>])
<1>1. /\ Ring(m.links, h, q) /\ q \in Seq(Items)
      /\ \A i \in 0 .. Len(q) : /\ NextOf(m, NodeAt(h, q, i)) = NodeAt(h, q, i + 1)
                                /\ PrevOf(m, NodeAt(h, q, i + 1)) = NodeAt(h, q, i)
      /\ \A n \in NodesOf(h, q) : NextOf(m, n) \in NodesOf(h, q)
      /\ NodesOf(h, q) \subseteq ListNodes
  BY DEF LaidApart, Laid
<1>2. /\ Ring(m.links, g, p) /\ p \in Seq(Items)
      /\ \A i \in 0 .. Len(p) : /\ NextOf(m, NodeAt(g, p, i)) = NodeAt(g, p, i + 1)
                                /\ PrevOf(m, NodeAt(g, p, i + 1)) = NodeAt(g, p, i)
      /\ \A n \in NodesOf(g, p) : NextOf(m, n) \in NodesOf(g, p)
      /\ NodesOf(g, p) \subseteq ListNodes
  BY DEF LaidApart, Laid
<1>3. PICK N \in Nat, M \in Nat : N = Len(q) /\ M = Len(p) /\ M >= 1
  BY <1>1, <1>2
<1>4. PICK S, T : S = NodesOf(h, q) /\ T = NodesOf(g, p)
  OBVIOUS
<1>5. S \cap T = {} /\ Clear(ls, {h, g}, S \cup T)
  BY <1>4 DEF LaidApart
<1>6. PICK u, w, f, z : u = NodeAt(h, q, j) /\ w = NodeAt(h, q, j + 1) /\ f = p[1] /\ z = p[M]
  OBVIOUS
<1>7. \A n \in ListNodes :
        /\ NextOf(k, n) = (IF n = g THEN g ELSE IF n = z THEN w ELSE IF n = u THEN f ELSE NextOf(m, n))
        /\ PrevOf(k, n) = (IF n = g THEN g ELSE IF n = f THEN u ELSE IF n = w THEN z ELSE PrevOf(m, n))
  BY <1>3, <1>6 DEF LinkedInto
<1>8. /\ g \in T /\ \A i \in 1 .. M : p[i] \in T /\ p[i] # g /\ NodeAt(g, p, i) = p[i]
  <2>1. /\ \A i \in 1 .. M : p[i] # g /\ NodeAt(g, p, i) = p[i]
        /\ T = {g} \cup ToSet(p) /\ ToSet(p) = {p[i] : i \in 1 .. M}
    BY <1>2, <1>3, <1>4, ListPlaces
  <2> QED
    BY <2>1
<1>9. u \in S /\ w \in S
  <2>1. j \in 0 .. Len(q) + 1 /\ j + 1 \in 0 .. Len(q) + 1
    BY <1>3
  <2> QED
    BY <1>4, <1>6, <2>1 DEF NodesOf
<1>10. f \in T /\ z \in T /\ f # g /\ z # g
  <2>1. 1 \in 1 .. M /\ M \in 1 .. M
    BY <1>3
  <2> QED
    BY <1>6, <1>8, <2>1
<1>11. Touches(m, k, S \cup T)
  <2>1. ASSUME NEW n \in ListNodes \ (S \cup T)
        PROVE  NextOf(k, n) = NextOf(m, n) /\ PrevOf(k, n) = PrevOf(m, n)
    BY <1>7, <1>8, <1>9, <1>10
  <2>2. ASSUME NEW n \in S \cup T PROVE NextOf(k, n) \in S \cup T
    <3>1. n \in ListNodes /\ NextOf(m, n) \in S \cup T
      BY <1>1, <1>2, <1>4
    <3> QED
      BY <1>7, <1>8, <1>9, <1>10, <3>1
  <2> QED
    BY <2>1, <2>2 DEF Touches
<1>12. Joined(k.links, g, g)
  BY <1>2, <1>4, <1>7, <1>8 DEF Joined, NextOf, PrevOf
<1>13. Joined(k.links, u, f) /\ Joined(k.links, z, w)
  <2>1. u \in ListNodes /\ w \in ListNodes /\ f \in ListNodes /\ z \in ListNodes
    BY <1>1, <1>2, <1>4, <1>9, <1>10
  <2> QED
    BY <1>5, <1>7, <1>8, <1>9, <1>10, <2>1 DEF Joined, NextOf, PrevOf
<1>14. ASSUME NEW i \in 1 .. Len(p) - 1 PROVE Joined(k.links, p[i], p[i + 1])
  <2>1. i \in 1 .. M /\ i + 1 \in 1 .. M /\ i # M /\ i + 1 # 1 /\ i \in 0 .. Len(p) /\ 1 \in 1 .. M /\ M \in 1 .. M
    BY <1>3
  <2>2. PICK c, d : c = p[i] /\ d = p[i + 1]
    OBVIOUS
  <2>3. c # z /\ d # f
    BY <1>2, <1>3, <1>6, <2>1, <2>2, RingInjective
  <2>4. c \in T /\ c # g /\ d \in T /\ d # g /\ NextOf(m, c) = d /\ PrevOf(m, d) = c
    BY <1>2, <1>8, <2>1, <2>2
  <2>5. c # u /\ d # w /\ c \in ListNodes /\ d \in ListNodes
    BY <1>2, <1>4, <1>5, <1>9, <2>4
  <2>6. NextOf(k, c) = d /\ PrevOf(k, d) = c
    BY <1>7, <2>3, <2>4, <2>5
  <2> QED
    BY <2>2, <2>6 DEF Joined, NextOf, PrevOf
<1>15. ASSUME NEW i \in 0 .. Len(q), i # j PROVE Step(k.links, h, q, i)
  <2>1. PICK c, d : c = NodeAt(h, q, i) /\ d = NodeAt(h, q, i + 1)
    OBVIOUS
  <2>2. i \in 0 .. Len(q) + 1 /\ i + 1 \in 1 .. Len(q) + 1 /\ j + 1 \in 1 .. Len(q) + 1 /\ i + 1 # j + 1
        /\ i + 1 \in 0 .. Len(q) + 1
    BY <1>3, <1>15
  <2>3. c # u /\ d # w
    BY <1>1, <1>6, <1>15, <2>1, <2>2, NodeAtInjective
  <2>4. c \in S /\ d \in S
    BY <1>4, <2>1, <2>2 DEF NodesOf
  <2>5. NextOf(m, c) = d /\ PrevOf(m, d) = c
    BY <1>1, <2>1
  <2>6. c \in ListNodes /\ d \in ListNodes /\ c # g /\ d # g /\ c # z /\ d # f
    BY <1>1, <1>4, <1>5, <1>8, <1>10, <2>4
  <2>7. NextOf(k, c) = d /\ PrevOf(k, d) = c
    BY <1>7, <2>3, <2>5, <2>6
  <2> QED
    BY <2>1, <2>7 DEF Step, NextOf, PrevOf
<1>16. Ring(k.links, h, r)
  BY <1>1, <1>2, <1>3, <1>6, <1>13, <1>14, <1>15, WovenRing
<1>17. Ring(k.links, g, <<>>)
  <2>1. \A i \in 0 .. 0 : Step(k.links, g, <<>>, i)
    BY <1>12 DEF Step, NodeAt, Joined
  <2>2. <<>> \in Seq(Items) /\ Len(<<>>) = 0
    OBVIOUS
  <2> QED
    BY <2>1, <2>2 DEF Ring
<1> QED
  BY <1>5, <1>11, <1>16, <1>17, TwoDone DEF EndsAs

\* The items of g at the front of h, or at its end.
Prefixed(ls, h, g) == [ls EXCEPT ![h] = ls[g] \o ls[h], ![g] = <<>>]
Suffixed(ls, h, g) == [ls EXCEPT ![h] = ls[h] \o ls[g], ![g] = <<>>]

\* splice and splice_tail.
LEMMA SpliceDone ==
  ASSUME NEW m0, NEW m, NEW ls, Doing(m0, m, ls),
         NEW h \in Heads, ls[h] # Broken, NEW g \in Heads, ls[g] # Broken, h # g
  PROVE  /\ Doing(m0, splice(m, h, g), Prefixed(ls, h, g))
         /\ Doing(m0, splice_tail(m, h, g), Suffixed(ls, h, g))
<1>1. PICK q, p : q = ls[h] /\ p = ls[g]
  OBVIOUS
<1>2. LaidApart(m, ls, h, q, g, p)
  BY <1>1, DoingRings
<1>3. /\ Ring(m.links, h, q) /\ q \in Seq(Items)
      /\ \A i \in 0 .. Len(q) : /\ NextOf(m, NodeAt(h, q, i)) = NodeAt(h, q, i + 1)
                                /\ PrevOf(m, NodeAt(h, q, i + 1)) = NodeAt(h, q, i)
  BY <1>2 DEF LaidApart, Laid
<1>4. /\ Ring(m.links, g, p) /\ p \in Seq(Items)
      /\ \A i \in 0 .. Len(p) : /\ NextOf(m, NodeAt(g, p, i)) = NodeAt(g, p, i + 1)
                                /\ PrevOf(m, NodeAt(g, p, i + 1)) = NodeAt(g, p, i)
  BY <1>2 DEF LaidApart, Laid
<1>5. PICK N \in Nat, M \in Nat : N = Len(q) /\ M = Len(p)
  BY <1>3, <1>4
<1>6. /\ h \in ListNodes /\ NodeAt(h, q, 0) = h /\ NodeAt(h, q, N + 1) = h
      /\ NodesOf(h, q) = {h} \cup ToSet(q)
  BY <1>3, <1>5, ListPlaces
<1>7. /\ g \in ListNodes /\ NodeAt(g, p, 0) = g /\ NodeAt(g, p, M + 1) = g
      /\ \A i \in 1 .. M : p[i] # g /\ NodeAt(g, p, i) = p[i]
      /\ NodesOf(g, p) = {g} \cup ToSet(p) /\ ToSet(p) = {p[i] : i \in 1 .. M}
  BY <1>4, <1>5, ListPlaces
<1>8. 0 \in 0 .. N /\ N \in 0 .. N /\ 0 \in 0 .. M /\ M \in 0 .. M /\ 0 + 1 = 1
  BY <1>5
<1>9. NextOf(m, g) = NodeAt(g, p, 1) /\ PrevOf(m, g) = NodeAt(g, p, M)
  BY <1>4, <1>5, <1>7, <1>8
<1>10. CASE M = 0
  <2>1. Empty(m, g) /\ p = <<>>
    <3>1. M + 1 = 1 /\ Len(p) = 0
      BY <1>5, <1>10
    <3>2. Empty(m, g)
      BY <1>7, <1>9, <3>1 DEF Empty
    <3>3. p = <<>>
      BY <1>4, <3>1
    <3> QED
      BY <3>2, <3>3
  <2>2. splice(m, h, g) = m /\ splice_tail(m, h, g) = m
    BY <2>1 DEF splice, splice_tail
  <2>3. p \o q = q /\ q \o p = q
    BY <1>3, <2>1
  <2>4. ls = [i \in Heads |-> ls[i]]
    BY DEF Doing, Reads, ListsOf
  <2>5. [ls EXCEPT ![h] = q, ![g] = p] = ls
    BY <1>1, <2>4
  <2>6. Prefixed(ls, h, g) = ls /\ Suffixed(ls, h, g) = ls
    BY <1>1, <2>1, <2>3, <2>5 DEF Prefixed, Suffixed
  <2> QED
    BY <2>2, <2>6
<1>11. CASE M # 0
  <2>1. 1 \in 1 .. M /\ M \in 1 .. M /\ Len(p) >= 1
    BY <1>5, <1>11
  <2>2. PICK f, z : f = p[1] /\ z = p[M]
    OBVIOUS
  <2>3. /\ f # g /\ z # g /\ NextOf(m, g) = f /\ PrevOf(m, g) = z
        /\ f \in NodesOf(g, p) /\ z \in NodesOf(g, p) /\ g \in NodesOf(g, p)
    BY <1>7, <1>9, <2>1, <2>2
  <2>4. PICK w, u : w = NodeAt(h, q, 1) /\ u = NodeAt(h, q, N)
    OBVIOUS
  <2>5. w = NextOf(m, h) /\ u = PrevOf(m, h)
    BY <1>3, <1>5, <1>6, <1>8, <2>4
  <2>6. h \in NodesOf(h, q) /\ w \in NodesOf(h, q) /\ u \in NodesOf(h, q)
    <3>1. 1 \in 0 .. Len(q) + 1 /\ N \in 0 .. Len(q) + 1
      BY <1>5
    <3> QED
      BY <1>6, <2>4, <3>1 DEF NodesOf
  <2>7. NodesOf(h, q) \cap NodesOf(g, p) = {}
    BY <1>2 DEF LaidApart
  <2>8. w # g /\ u # g /\ f # w /\ f # h /\ z # h /\ z # u /\ Recalls(m0, m)
    BY <2>3, <2>6, <2>7 DEF Doing
  <2>9. PICK a, b : a = splice(m, h, g) /\ b = splice_tail(m, h, g)
    OBVIOUS
  <2>10. Recalls(m0, a) /\ LinkedInto(m, a, h, f, z, w, g)
    BY <1>6, <1>7, <2>3, <2>5, <2>8, <2>9, SpliceLinks
  <2>11. Recalls(m0, b) /\ LinkedInto(m, b, u, f, z, h, g)
    BY <1>6, <1>7, <2>3, <2>5, <2>8, <2>9, SpliceTailLinks
  <2>12. Woven(h, p \o q, q, 0, p) /\ Woven(h, q \o p, q, Len(q), p)
    BY <1>3, <1>4, ConcatWoven
  <2>13. LinkedInto(m, a, NodeAt(h, q, 0), p[1], p[Len(p)], NodeAt(h, q, 0 + 1), g)
    BY <1>5, <1>6, <1>8, <2>2, <2>4, <2>10
  <2>14. LinkedInto(m, b, NodeAt(h, q, Len(q)), p[1], p[Len(p)], NodeAt(h, q, Len(q) + 1), g)
    BY <1>5, <1>6, <2>2, <2>4, <2>11
  <2>15. Doing(m0, a, [ls EXCEPT ![h] = p \o q, ![g] = <<>>])
    <3>1. 0 \in 0 .. Len(q)
      BY <1>5
    <3> QED
      BY <1>1, <1>2, <2>1, <2>10, <2>12, <2>13, <3>1, IntoDone
  <2>16. Doing(m0, b, [ls EXCEPT ![h] = q \o p, ![g] = <<>>])
    <3>1. Len(q) \in 0 .. Len(q)
      BY <1>5
    <3> QED
      BY <1>1, <1>2, <2>1, <2>11, <2>12, <2>14, <3>1, IntoDone
  <2> QED
    BY <1>1, <2>9, <2>15, <2>16 DEF Prefixed, Suffixed
<1> QED
  BY <1>10, <1>11

(***************************************************************************)
(* swap_links: a head with the links of another is not the one to which    *)
(* the first of them leads back.                                           *)
(***************************************************************************)
Traded(ls, h, g) ==
  [ls EXCEPT ![h] = IF ls[g] = <<>> THEN <<>> ELSE Broken,
             ![g] = IF ls[h] = <<>> THEN <<>> ELSE Broken]

\* A head that has the links of the head of p.
LEMMA TradedEnd ==
  ASSUME NEW m0, NEW m, NEW ls, Doing(m0, m, ls), NEW g \in Heads, NEW p, p = ls[g], p # Broken,
         NEW h \in Heads, h # g, NEW k,
         NextOf(k, h) = IF Empty(m, g) THEN h ELSE NextOf(m, g),
         PrevOf(k, h) = IF Empty(m, g) THEN h ELSE PrevOf(m, g),
         \A n \in ToSet(p) : PrevOf(k, n) = PrevOf(m, n)
  PROVE  /\ EndsAs(k, h, IF p = <<>> THEN <<>> ELSE Broken)
         /\ NextOf(k, h) \in {h} \cup ToSet(p)
<1>1. Laid(m, ls, g, p)
  BY DoingRing
<1>2. /\ Ring(m.links, g, p) /\ p \in Seq(Items)
      /\ \A i \in 0 .. Len(p) : /\ NextOf(m, NodeAt(g, p, i)) = NodeAt(g, p, i + 1)
                                /\ PrevOf(m, NodeAt(g, p, i + 1)) = NodeAt(g, p, i)
  BY <1>1 DEF Laid
<1>3. PICK M \in Nat : M = Len(p)
  BY <1>2
<1>4. /\ NodeAt(g, p, 0) = g /\ NodeAt(g, p, M + 1) = g
      /\ \A i \in 1 .. M : p[i] # g /\ NodeAt(g, p, i) = p[i]
      /\ ToSet(p) = {p[i] : i \in 1 .. M}
  BY <1>2, <1>3, ListPlaces
<1>5. NextOf(m, g) = NodeAt(g, p, 1) /\ PrevOf(m, NodeAt(g, p, 1)) = g
  <2>1. 0 \in 0 .. Len(p) /\ 0 + 1 = 1
    BY <1>3
  <2> QED
    BY <1>2, <1>4, <2>1
<1>6. CASE M = 0
  <2>1. Empty(m, g) /\ p = <<>>
    <3>1. M + 1 = 1 /\ Len(p) = 0
      BY <1>3, <1>6
    <3>2. Empty(m, g)
      BY <1>4, <1>5, <3>1 DEF Empty
    <3>3. p = <<>>
      BY <1>2, <3>1
    <3> QED
      BY <3>2, <3>3
  <2>2. k.links["next"][h] = h /\ k.links["prev"][h] = h
    BY <2>1 DEF NextOf, PrevOf
  <2>3. \A i \in 0 .. 0 : Step(k.links, h, <<>>, i)
    BY <2>2 DEF Step, NodeAt
  <2>4. <<>> \in Seq(Items) /\ Len(<<>>) = 0
    OBVIOUS
  <2>5. Ring(k.links, h, <<>>)
    BY <2>3, <2>4 DEF Ring
  <2> QED
    BY <2>1, <2>5 DEF EndsAs
<1>7. CASE M # 0
  <2>1. 1 \in 1 .. M
    BY <1>7
  <2>2. PICK f : f = p[1]
    OBVIOUS
  <2>3. f # g /\ f \in ToSet(p) /\ NextOf(m, g) = f /\ PrevOf(m, f) = g /\ p # <<>>
    BY <1>3, <1>4, <1>5, <1>7, <2>1, <2>2
  <2>4. ~Empty(m, g)
    BY <2>3 DEF Empty
  <2>5. NextOf(k, h) = f /\ PrevOf(k, f) = g
    BY <2>3, <2>4
  <2>6. ListOf(k.links, h) = Broken
    <3>1. k.links["prev"][k.links["next"][h]] = g
      BY <2>5 DEF NextOf, PrevOf
    <3> QED
      BY <3>1, HeadBack
  <2> QED
    BY <2>3, <2>5, <2>6 DEF EndsAs
<1> QED
  BY <1>6, <1>7

\* The swap of two heads.
LEMMA SwapDone ==
  ASSUME NEW m0, NEW m, NEW ls, Doing(m0, m, ls),
         NEW h \in Heads, ls[h] # Broken, NEW g \in Heads, ls[g] # Broken, h # g
  PROVE  Doing(m0, swap_links(m, h, g), Traded(ls, h, g))
<1>1. PICK q, p, k : q = ls[h] /\ p = ls[g] /\ k = swap_links(m, h, g)
  OBVIOUS
<1>2. LaidApart(m, ls, h, q, g, p)
  BY <1>1, DoingRings
<1>3. PICK S, T : S = NodesOf(h, q) /\ T = NodesOf(g, p)
  OBVIOUS
<1>4. /\ q \in Seq(Items) /\ p \in Seq(Items) /\ S \subseteq ListNodes /\ T \subseteq ListNodes
      /\ S \cap T = {} /\ Clear(ls, {h, g}, S \cup T)
      /\ (\A n \in S : NextOf(m, n) \in S) /\ (\A n \in T : NextOf(m, n) \in T)
  BY <1>2, <1>3 DEF LaidApart, Laid
<1>5. S = {h} \cup ToSet(q) /\ T = {g} \cup ToSet(p) /\ h \notin ToSet(q) /\ g \notin ToSet(p)
  BY <1>3, <1>4, ListPlaces
<1>6. PICK hn, hp : /\ hn = IF Empty(m, g) THEN h ELSE NextOf(m, g)
                    /\ hp = IF Empty(m, g) THEN h ELSE PrevOf(m, g)
  OBVIOUS
<1>7. PICK gn, gp : /\ gn = IF Empty(m, h) THEN g ELSE NextOf(m, h)
                    /\ gp = IF Empty(m, h) THEN g ELSE PrevOf(m, h)
  OBVIOUS
<1>8. Recalls(m0, k) /\ LinkedHeads(m, k, h, hn, hp, g, gn, gp)
  <2>1. Recalls(m0, m) /\ h \in ListNodes /\ g \in ListNodes
    BY DEF Doing, ListNodes
  <2> QED
    BY <1>1, <1>6, <1>7, <2>1, SwapLinks
<1>9. \A n \in ListNodes :
        /\ NextOf(k, n) = (IF n = h THEN hn ELSE IF n = g THEN gn ELSE NextOf(m, n))
        /\ PrevOf(k, n) = (IF n = h THEN hp ELSE IF n = g THEN gp ELSE PrevOf(m, n))
  BY <1>8 DEF LinkedHeads
<1>10. h \in ListNodes /\ g \in ListNodes
  BY DEF ListNodes
<1>11. EndsAs(k, h, IF p = <<>> THEN <<>> ELSE Broken) /\ NextOf(k, h) \in {h} \cup ToSet(p)
  <2>1. NextOf(k, h) = hn /\ PrevOf(k, h) = hp /\ \A n \in ToSet(p) : PrevOf(k, n) = PrevOf(m, n)
    BY <1>4, <1>5, <1>9, <1>10
  <2> QED
    BY <1>1, <1>6, <2>1, TradedEnd
<1>12. EndsAs(k, g, IF q = <<>> THEN <<>> ELSE Broken) /\ NextOf(k, g) \in {g} \cup ToSet(q)
  <2>1. NextOf(k, g) = gn /\ PrevOf(k, g) = gp /\ \A n \in ToSet(q) : PrevOf(k, n) = PrevOf(m, n)
    BY <1>4, <1>5, <1>9, <1>10
  <2> QED
    BY <1>1, <1>7, <2>1, TradedEnd
<1>13. Touches(m, k, S \cup T)
  <2>1. ASSUME NEW n \in ListNodes \ (S \cup T)
        PROVE  NextOf(k, n) = NextOf(m, n) /\ PrevOf(k, n) = PrevOf(m, n)
    BY <1>5, <1>9
  <2>2. ASSUME NEW n \in S \cup T PROVE NextOf(k, n) \in S \cup T
    BY <1>4, <1>5, <1>9, <1>11, <1>12
  <2> QED
    BY <2>1, <2>2 DEF Touches
<1>14. PICK s, t : s = (IF p = <<>> THEN <<>> ELSE Broken) /\ t = (IF q = <<>> THEN <<>> ELSE Broken)
  OBVIOUS
<1>15. Doing(m0, k, [ls EXCEPT ![h] = s, ![g] = t])
  BY <1>4, <1>8, <1>11, <1>12, <1>13, <1>14, TwoDone
<1> QED
  BY <1>1, <1>14, <1>15 DEF Traded

\* The first n items of g become h.
Parted(ls, h, g, n) ==
  [ls EXCEPT ![h] = SubSeq(ls[g], 1, n), ![g] = SubSeq(ls[g], n + 1, Len(ls[g]))]

\* Nothing is cut off.
LEMMA PartedNone ==
  ASSUME NEW m0, NEW m, NEW ls, Doing(m0, m, ls), NEW h \in Heads,
         NEW g \in Heads, ls[g] # Broken, h # g, NEW k, Recalls(m0, k), LinkedAlone(m, k, h)
  PROVE  Doing(m0, k, Parted(ls, h, g, 0))
<1>1. PICK p : p = ls[g]
  OBVIOUS
<1>2. ls = [i \in Heads |-> ls[i]] /\ p \in Seq(Items)
  BY <1>1 DEF Doing, Reads, ListsOf, Over
<1>3. SubSeq(p, 1, 0) = <<>>
  BY <1>2
<1>4. SubSeq(p, 0 + 1, Len(p)) = p
  <2>1. 0 + 1 = 1 /\ SubSeq(p, 1, Len(p)) = p
    BY <1>2
  <2> QED
    BY <2>1
<1>5. Doing(m0, k, [ls EXCEPT ![h] = <<>>])
  BY HeadAlone
<1>6. [ls EXCEPT ![h] = <<>>] = [ls EXCEPT ![h] = <<>>, ![g] = p]
  BY <1>1, <1>2
<1> QED
  BY <1>1, <1>3, <1>4, <1>5, <1>6 DEF Parted

\* The items before place c are cut off.
LEMMA PartedSome ==
  ASSUME NEW m0, NEW m, NEW ls, Doing(m0, m, ls), NEW h \in Heads,
         NEW g \in Heads, NEW p, p = ls[g], p # Broken, h # g, NEW c \in 2 .. Len(p) + 1,
         NEW k, Recalls(m0, k),
         LinkedApart(m, k, h, g, NodeAt(g, p, 1), NodeAt(g, p, c - 1), NodeAt(g, p, c))
  PROVE  Doing(m0, k, Parted(ls, h, g, c - 1))
<1>1. Laid(m, ls, g, p)
  BY DoingRing
<1>2. /\ Ring(m.links, g, p) /\ p \in Seq(Items)
      /\ \A i \in 0 .. Len(p) : /\ NextOf(m, NodeAt(g, p, i)) = NodeAt(g, p, i + 1)
                                /\ PrevOf(m, NodeAt(g, p, i + 1)) = NodeAt(g, p, i)
      /\ \A n \in NodesOf(g, p) : NextOf(m, n) \in NodesOf(g, p)
      /\ Clear(ls, {g}, NodesOf(g, p)) /\ NodesOf(g, p) \subseteq ListNodes
  BY <1>1 DEF Laid
<1>3. PICK M \in Nat : M = Len(p)
  BY <1>2
<1>4. PICK n \in 1 .. M : n = c - 1 /\ c = n + 1
  <2>1. c - 1 \in 1 .. M /\ c = (c - 1) + 1
    BY <1>3
  <2> QED
    BY <2>1
<1>5. PICK T : T = NodesOf(g, p)
  OBVIOUS
<1>6. /\ NodeAt(g, p, 0) = g /\ g \in T /\ h \in ListNodes /\ h \notin T
      /\ \A i \in 1 .. M : NodeAt(g, p, i) = p[i] /\ p[i] # g
      /\ \A i \in 0 .. M + 1 : NodeAt(g, p, i) \in T
  <2>1. /\ NodeAt(g, p, 0) = g /\ T = {g} \cup ToSet(p) /\ ToSet(p) \subseteq Items
        /\ \A i \in 1 .. M : NodeAt(g, p, i) = p[i] /\ p[i] # g
    BY <1>2, <1>3, <1>5, ListPlaces
  <2>2. h \notin Items /\ h \in ListNodes
    BY ListsAssumption DEF ListNodes
  <2> QED
    BY <1>3, <1>5, <2>1, <2>2 DEF NodesOf
<1>7. PICK f, y, x : f = NodeAt(g, p, 1) /\ y = NodeAt(g, p, n) /\ x = NodeAt(g, p, c)
  OBVIOUS
<1>8. 1 \in 1 .. M /\ c \in 1 .. M + 1 /\ c # 1 /\ n \in 0 .. M
  BY <1>3, <1>4
<1>9. f \in T /\ y \in T /\ x \in T /\ y # g
  <2>1. 1 \in 0 .. M + 1 /\ n \in 0 .. M + 1 /\ c \in 0 .. M + 1
    BY <1>4, <1>8
  <2> QED
    BY <1>4, <1>6, <1>7, <2>1
<1>10. f # x
  <2>1. 1 \in 1 .. Len(p) + 1 /\ c \in 1 .. Len(p) + 1
    BY <1>3, <1>8
  <2> QED
    BY <1>2, <1>7, <1>8, <2>1, NodeAtInjective
<1>11. \A i \in ListNodes :
    /\ NextOf(k, i) = (IF i = h THEN f ELSE IF i = g THEN x ELSE IF i = y THEN h ELSE NextOf(m, i))
    /\ PrevOf(k, i) = (IF i = h THEN y ELSE IF i = x THEN g ELSE IF i = f THEN h ELSE PrevOf(m, i))
  BY <1>4, <1>7 DEF LinkedApart
<1>12. Touches(m, k, {h} \cup T)
  <2>1. ASSUME NEW i \in ListNodes \ ({h} \cup T)
        PROVE  NextOf(k, i) = NextOf(m, i) /\ PrevOf(k, i) = PrevOf(m, i)
    BY <1>6, <1>9, <1>11
  <2>2. ASSUME NEW i \in {h} \cup T PROVE NextOf(k, i) \in {h} \cup T
    <3>1. i \in ListNodes /\ (i # h => NextOf(m, i) \in T)
      BY <1>2, <1>5, <1>6
    <3> QED
      BY <1>9, <1>11, <3>1
  <2> QED
    BY <2>1, <2>2 DEF Touches
<1>13. Clear(ls, {h, g}, {h} \cup T)
  <2>1. ASSUME NEW i \in Heads \ {h, g}, ls[i] # Broken PROVE ToSet(ls[i]) \cap ({h} \cup T) = {}
    <3>1. ls[i] \in Seq(Items)
      BY <2>1 DEF Doing, Reads, Over
    <3>2. ToSet(ls[i]) \subseteq Items /\ h \notin Items
      BY <3>1, ListPlaces
    <3> QED
      BY <1>2, <1>5, <2>1, <3>2 DEF Clear
  <2> QED
    BY <1>2, <1>5, <2>1 DEF Clear
<1>14. Joined(k.links, g, x) /\ Joined(k.links, h, f) /\ Joined(k.links, y, h)
  <2>1. g \in ListNodes /\ f \in ListNodes /\ y \in ListNodes /\ x \in ListNodes /\ f # h /\ y # h /\ x # h
    BY <1>2, <1>5, <1>6, <1>9
  <2> QED
    BY <1>6, <1>9, <1>10, <1>11, <2>1 DEF Joined, NextOf, PrevOf
<1>15. ASSUME NEW i \in 1 .. M, i # n PROVE Step(k.links, g, p, i)
  <2>1. i \in 0 .. Len(p) /\ i + 1 \in 1 .. Len(p) + 1 /\ c \in 1 .. Len(p) + 1 /\ i + 1 # c /\ i + 1 # 1
        /\ n \in 0 .. Len(p) /\ 1 \in 1 .. Len(p) + 1 /\ i \in 0 .. M + 1 /\ i + 1 \in 0 .. M + 1
    BY <1>3, <1>4, <1>15
  <2>2. PICK a, b : a = NodeAt(g, p, i) /\ b = NodeAt(g, p, i + 1)
    OBVIOUS
  <2>3. a # y /\ b # x /\ b # f
    BY <1>2, <1>7, <1>15, <2>1, <2>2, NodeAtInjective
  <2>4. a # g /\ a \in T /\ b \in T
    BY <1>6, <2>1, <2>2
  <2>5. a \in ListNodes /\ b \in ListNodes /\ a # h /\ b # h
    BY <1>2, <1>5, <1>6, <2>4
  <2>6. NextOf(m, a) = b /\ PrevOf(m, b) = a
    BY <1>2, <2>1, <2>2
  <2>7. NextOf(k, a) = b /\ PrevOf(k, b) = a
    BY <1>11, <2>3, <2>4, <2>5, <2>6
  <2> QED
    BY <2>2, <2>7 DEF Step, NextOf, PrevOf
<1>16. PICK r, s : r = SubSeq(p, 1, n) /\ s = SubSeq(p, n + 1, Len(p))
  OBVIOUS
<1>17. Ring(k.links, g, s)
  <2>1. Skips(g, s, p, 0, c)
    <3>1. n \in 0 .. Len(p)
      BY <1>3, <1>8
    <3>2. Skips(g, SubSeq(p, n + 1, Len(p)), p, 0, n + 1)
      BY <1>2, <3>1, SuffixSkips
    <3> QED
      BY <1>4, <1>16, <3>2
  <2>2. Joined(k.links, NodeAt(g, p, 0), NodeAt(g, p, c))
    BY <1>6, <1>7, <1>14
  <2>3. ASSUME NEW i \in 0 .. Len(p), i < 0 \/ i >= c PROVE Step(k.links, g, p, i)
    <3>1. i \in 1 .. M /\ i # n
      BY <1>3, <1>4, <2>3
    <3> QED
      BY <1>15, <3>1
  <2>4. 0 \in 0 .. Len(p) /\ c \in 1 .. Len(p) + 1 /\ 0 < c
    BY <1>3, <1>8
  <2> QED
    BY <1>2, <2>1, <2>2, <2>3, <2>4, SkippedRing
<1>18. Ring(k.links, h, r)
  <2>1. r \in Seq(Items) /\ Len(r) = n /\ \A i \in 1 .. n : r[i] = p[i]
    BY <1>2, <1>3, <1>16
  <2>2. Woven(h, r, <<>>, 0, r)
    BY <1>2, <1>3, <1>16, AloneWoven
  <2>3. PICK e : e = <<>>
    OBVIOUS
  <2>4. e \in Seq(Items) /\ Len(e) = 0 /\ NodeAt(h, e, 0) = h /\ NodeAt(h, e, 0 + 1) = h
    BY <2>3 DEF NodeAt
  <2>5. r[1] = f /\ r[Len(r)] = y /\ Len(r) >= 1
    <3>1. 1 \in 1 .. n /\ n \in 1 .. n
      BY <1>4
    <3> QED
      BY <1>4, <1>6, <1>7, <1>8, <2>1, <3>1
  <2>6. ASSUME NEW i \in 1 .. Len(r) - 1 PROVE Joined(k.links, r[i], r[i + 1])
    <3>0. Len(r) = n /\ n \in 1 .. M
      BY <1>4, <2>1
    <3>1. i \in 1 .. M /\ i # n /\ i + 1 \in 1 .. M /\ i \in 1 .. n /\ i + 1 \in 1 .. n
      BY <1>3, <3>0
    <3>2. Step(k.links, g, p, i)
      BY <1>15, <3>1
    <3> QED
      BY <1>6, <2>1, <3>1, <3>2 DEF Step, Joined
  <2>7. Joined(k.links, NodeAt(h, e, 0), r[1]) /\ Joined(k.links, r[Len(r)], NodeAt(h, e, 0 + 1))
    BY <1>14, <2>4, <2>5
  <2>8. 0 \in 0 .. Len(e) /\ \A i \in 0 .. Len(e) : i = 0
    BY <2>4
  <2>9. Woven(h, r, e, 0, r)
    BY <2>2, <2>3
  <2> QED
    BY <2>1, <2>4, <2>5, <2>6, <2>7, <2>8, <2>9, WovenRing
<1>19. Doing(m0, k, [ls EXCEPT ![h] = r, ![g] = s])
  BY <1>12, <1>13, <1>17, <1>18, TwoDone DEF EndsAs
<1> QED
  BY <1>4, <1>16, <1>19 DEF Parted

\* cut_before.
LEMMA CutDone ==
  ASSUME NEW m0, NEW m, NEW ls, Doing(m0, m, ls), NEW h \in Heads,
         NEW g \in Heads, ls[g] # Broken, h # g, NEW x \in {g} \cup ToSet(ls[g])
  PROVE  \E n \in 0 .. Len(ls[g]) : Doing(m0, cut_before(m, h, g, x), Parted(ls, h, g, n))
<1>1. PICK p, k : p = ls[g] /\ k = cut_before(m, h, g, x)
  OBVIOUS
<1>2. Laid(m, ls, g, p)
  BY <1>1, DoingRing
<1>3. /\ Ring(m.links, g, p) /\ p \in Seq(Items)
      /\ \A i \in 0 .. Len(p) : /\ NextOf(m, NodeAt(g, p, i)) = NodeAt(g, p, i + 1)
                                /\ PrevOf(m, NodeAt(g, p, i + 1)) = NodeAt(g, p, i)
      /\ NodesOf(g, p) \subseteq ListNodes
  BY <1>2 DEF Laid
<1>4. PICK M \in Nat : M = Len(p)
  BY <1>3
<1>5. /\ NodeAt(g, p, 0) = g /\ NodeAt(g, p, M + 1) = g
      /\ \A i \in 1 .. M : NodeAt(g, p, i) = p[i] /\ p[i] # g
      /\ NodesOf(g, p) = {g} \cup ToSet(p) /\ ToSet(p) = {p[i] : i \in 1 .. M} /\ ToSet(p) \subseteq Items
  BY <1>3, <1>4, ListPlaces
<1>6. h \in ListNodes /\ g \in ListNodes /\ h \notin Items /\ Recalls(m0, m) /\ h \notin NodesOf(g, p)
  BY <1>5, ListsAssumption DEF ListNodes, Doing
<1>7. PICK c \in 1 .. M + 1 : x = NodeAt(g, p, c)
  <2>1. CASE x = g
    <3>1. M + 1 \in 1 .. M + 1
      BY <1>4
    <3> QED
      BY <1>5, <2>1, <3>1
  <2>2. CASE x \in ToSet(p)
    <3>1. PICK i \in 1 .. M : x = p[i]
      BY <1>5, <2>2
    <3>2. i \in 1 .. M + 1 /\ x = NodeAt(g, p, i)
      BY <1>4, <1>5, <3>1
    <3> QED
      BY <3>2
  <2> QED
    BY <1>1, <2>1, <2>2
<1>8. x \in NodesOf(g, p) /\ x \in ListNodes /\ x # h
  BY <1>1, <1>3, <1>5, <1>6
<1>9. PICK f, y : f = NodeAt(g, p, 1) /\ y = NodeAt(g, p, c - 1)
  OBVIOUS
<1>10. f = NextOf(m, g) /\ PrevOf(m, f) = g /\ y = PrevOf(m, x)
  <2>1. 0 \in 0 .. Len(p) /\ 0 + 1 = 1 /\ c - 1 \in 0 .. Len(p) /\ (c - 1) + 1 = c
    BY <1>4
  <2> QED
    BY <1>3, <1>5, <1>7, <1>9, <2>1
<1>11. f # h /\ y # h
  <2>1. 1 \in 0 .. Len(p) + 1 /\ c - 1 \in 0 .. Len(p) + 1
    BY <1>4
  <2> QED
    BY <1>6, <1>9, <2>1 DEF NodesOf
<1>12. ASSUME Doing(m0, k, Parted(ls, h, g, 0))
       PROVE  \E n \in 0 .. M : Doing(m0, k, Parted(ls, h, g, n))
  <2>1. 0 \in 0 .. M
    BY <1>4
  <2> QED
    BY <1>12, <2>1
<1>13. CASE NextOf(m, h) = x
  <2>1. k = create(m, h)
    BY <1>1, <1>13 DEF cut_before
  <2>2. Recalls(m0, k) /\ LinkedAlone(m, k, h)
    BY <1>6, <2>1, CreateLinks
  <2>3. Doing(m0, k, Parted(ls, h, g, 0))
    BY <2>2, PartedNone
  <2> QED
    BY <1>1, <1>4, <1>12, <2>3
<1>14. CASE NextOf(m, h) # x
  <2>1. x # f => y # g /\ c # 1
    <3>1. ASSUME x # f PROVE y # g /\ c # 1
      <4>1. c # 1
        BY <1>7, <1>9, <3>1
      <4>2. c - 1 \in 1 .. M
        BY <1>4, <4>1
      <4> QED
        BY <1>5, <1>9, <4>1, <4>2
    <3> QED
      BY <3>1
  <2>2. /\ Recalls(m0, k)
        /\ x = f => LinkedAlone(m, k, h)
        /\ x # f => LinkedApart(m, k, h, g, f, y, x)
    BY <1>1, <1>6, <1>8, <1>10, <1>11, <1>14, <2>1, CutLinks
  <2>3. CASE x = f
    <3>1. Doing(m0, k, Parted(ls, h, g, 0))
      BY <2>2, <2>3, PartedNone
    <3> QED
      BY <1>1, <1>4, <1>12, <3>1
  <2>4. CASE x # f
    <3>1. c \in 2 .. Len(p) + 1 /\ c - 1 \in 0 .. Len(p)
      BY <1>4, <2>1, <2>4
    <3>2. LinkedApart(m, k, h, g, NodeAt(g, p, 1), NodeAt(g, p, c - 1), NodeAt(g, p, c))
      BY <1>7, <1>9, <2>2, <2>4
    <3>3. Doing(m0, k, Parted(ls, h, g, c - 1))
      BY <1>1, <2>2, <3>1, <3>2, PartedSome
    <3> QED
      BY <1>1, <3>1, <3>3
  <2> QED
    BY <2>3, <2>4
<1> QED
  BY <1>13, <1>14

(***************************************************************************)
(* The initial links, those of Linked, read as the lists they are made of. *)
(***************************************************************************)
ChainOf(ls, h) == <<h>> \o ls[h] \o <<h>>

OwnerOf(ls, n) == CHOOSE g \in Heads : n \in ToSet(<<g>> \o ls[g])

PlaceOf(ls, h, n, d) ==
  CHOOSE j \in DOMAIN ChainOf(ls, h) : ChainOf(ls, h)[j] = n /\ j + d \in DOMAIN ChainOf(ls, h)

StepOf(ls, n, d) ==
  ChainOf(ls, OwnerOf(ls, n))[PlaceOf(ls, OwnerOf(ls, n), n, d) + d]

Within(ls) == Heads \cup UNION {ToSet(ls[h]) : h \in Heads}

Scattered(ls) ==
  /\ \A h \in Heads : ls[h] \in Seq(Items) /\ IsInjective(ls[h])
  /\ \A h, g \in Heads : h # g => ToSet(ls[h]) \cap ToSet(ls[g]) = {}

\* Linked, in terms of these.
LEMMA LinkedSteps ==
  ASSUME NEW ls
  PROVE  Linked(ls) = [field \in Fields |-> [n \in ListNodes |->
           IF n \notin Within(ls) THEN n ELSE StepOf(ls, n, IF field = "next" THEN 1 ELSE -1)]]
BY DEF Linked, StepOf, PlaceOf, OwnerOf, ChainOf, Within, Fields

\* Where the nodes of a list are in its chain.
LEMMA ChainPlaces ==
  ASSUME NEW ls, NEW h \in Heads, NEW q \in Seq(Items), q = ls[h]
  PROVE  /\ DOMAIN ChainOf(ls, h) = 1 .. Len(q) + 2
         /\ \A j \in 1 .. Len(q) + 2 : ChainOf(ls, h)[j] = NodeAt(h, q, j - 1)
         /\ ToSet(<<h>> \o ls[h]) = NodesOf(h, q)
<1>0. PICK U : U = Items \cup {h}
  OBVIOUS
<1>1. PICK N \in Nat : N = Len(q)
  OBVIOUS
<1>2. PICK a, b : a = <<h>> \o q /\ b = <<h>>
  OBVIOUS
<1>3. q \in Seq(U) /\ b \in Seq(U) /\ Len(b) = 1 /\ b[1] = h
  <2>1. q \in Seq(U) /\ h \in U
    BY <1>0
  <2> QED
    BY <1>2, <2>1
<1>4. a \in Seq(U) /\ Len(a) = N + 1 /\ \A j \in 1 .. N + 1 : a[j] = IF j = 1 THEN h ELSE q[j - 1]
  <2>1. a = b \o q
    BY <1>2
  <2>2. /\ a \in Seq(U) /\ Len(a) = Len(b) + Len(q)
        /\ \A j \in 1 .. Len(b) + Len(q) : a[j] = IF j <= Len(b) THEN b[j] ELSE q[j - Len(b)]
    <3>1. b \in Seq(U) /\ q \in Seq(U)
      BY <1>3
    <3> QED
      BY <2>1, <3>1
  <2>3. Len(b) + Len(q) = N + 1
    BY <1>1, <1>3
  <2>4. \A j \in 1 .. N + 1 : a[j] = IF j <= 1 THEN b[j] ELSE q[j - 1]
    BY <1>3, <2>2, <2>3
  <2>5. \A j \in 1 .. N + 1 : a[j] = IF j = 1 THEN h ELSE q[j - 1]
    BY <1>1, <1>3, <2>4
  <2> QED
    BY <2>2, <2>3, <2>5
<1>5. PICK c : c = a \o b
  OBVIOUS
<1>6. Len(c) = N + 2 /\ c \in Seq(U) /\ \A j \in 1 .. N + 2 : c[j] = IF j <= N + 1 THEN a[j] ELSE h
  <2>1. a \in Seq(U) /\ b \in Seq(U)
    BY <1>3, <1>4
  <2>2. /\ c \in Seq(U) /\ Len(c) = Len(a) + Len(b)
        /\ \A j \in 1 .. Len(a) + Len(b) : c[j] = IF j <= Len(a) THEN a[j] ELSE b[j - Len(a)]
    BY <1>5, <2>1
  <2>3. Len(a) = N + 1 /\ Len(b) = 1 /\ b[1] = h
    BY <1>3, <1>4
  <2>4. Len(a) + Len(b) = N + 2
    BY <1>1, <2>3
  <2>5. ASSUME NEW j \in 1 .. N + 2, ~(j <= N + 1) PROVE c[j] = h
    <3>1. j - Len(a) = 1
      BY <1>1, <2>3, <2>5
    <3> QED
      BY <2>2, <2>3, <2>4, <2>5, <3>1
  <2> QED
    BY <2>2, <2>3, <2>4, <2>5
<1>7. \A j \in 1 .. N + 2 : c[j] = IF j <= N + 1 THEN a[j] ELSE h
  BY <1>6
<1>8. c = ChainOf(ls, h)
  BY <1>2, <1>5 DEF ChainOf
<1>9. DOMAIN c = 1 .. N + 2
  BY <1>6
<1>10. ASSUME NEW j \in 1 .. N + 2 PROVE c[j] = NodeAt(h, q, j - 1)
  <2>1. CASE j = 1
    BY <1>1, <1>4, <1>7, <2>1 DEF NodeAt
  <2>2. CASE j \in 2 .. N + 1
    BY <1>1, <1>4, <1>7, <2>2 DEF NodeAt
  <2>3. CASE j = N + 2
    BY <1>1, <1>7, <2>3 DEF NodeAt
  <2> QED
    BY <2>1, <2>2, <2>3
<1>11. ToSet(a) = NodesOf(h, q)
  <2>1. NodesOf(h, q) = {h} \cup {q[i] : i \in 1 .. N}
    BY <1>1, ListPlaces
  <2>2. ToSet(a) = {a[j] : j \in 1 .. N + 1}
    BY <1>4 DEF ToSet
  <2>3. ASSUME NEW i \in 1 .. N PROVE q[i] \in ToSet(a)
    <3>1. i + 1 \in 1 .. N + 1 /\ i + 1 # 1 /\ (i + 1) - 1 = i
      BY <1>1
    <3>2. a[i + 1] = q[i]
      BY <1>4, <3>1
    <3> QED
      BY <2>2, <3>1, <3>2
  <2>4. h \in ToSet(a)
    <3>1. 1 \in 1 .. N + 1
      BY <1>1
    <3> QED
      BY <1>4, <2>2, <3>1
  <2>5. ASSUME NEW j \in 1 .. N + 1 PROVE a[j] \in NodesOf(h, q)
    <3>1. j = 1 \/ j - 1 \in 1 .. N
      BY <1>1
    <3> QED
      BY <1>4, <2>1, <3>1
  <2> QED
    BY <2>1, <2>2, <2>3, <2>4, <2>5
<1> QED
  BY <1>1, <1>2, <1>8, <1>9, <1>10, <1>11

\* The nodes of a list have one head, and one place from which there is a step.
LEMMA ScatteredApart ==
  ASSUME NEW ls, Scattered(ls), NEW h \in Heads, NEW n \in NodesOf(h, ls[h])
  PROVE  OwnerOf(ls, n) = h
<1>1. \A g \in Heads : /\ ls[g] \in Seq(Items) /\ ToSet(<<g>> \o ls[g]) = NodesOf(g, ls[g])
                       /\ NodesOf(g, ls[g]) = {g} \cup ToSet(ls[g]) /\ ToSet(ls[g]) \subseteq Items
                       /\ g \notin Items
  BY ChainPlaces, ListPlaces DEF Scattered
<1>2. n \in ToSet(<<h>> \o ls[h])
  BY <1>1
<1>3. ASSUME NEW g \in Heads, n \in ToSet(<<g>> \o ls[g]) PROVE g = h
  <2>1. n \in {g} \cup ToSet(ls[g]) /\ g \notin Items /\ ToSet(ls[g]) \subseteq Items
    BY <1>1, <1>3
  <2>2. n \in {h} \cup ToSet(ls[h]) /\ h \notin Items /\ ToSet(ls[h]) \subseteq Items
    BY <1>1
  <2>3. g # h => ToSet(ls[g]) \cap ToSet(ls[h]) = {}
    BY DEF Scattered
  <2> QED
    BY <2>1, <2>2, <2>3
<1> QED
  BY <1>2, <1>3 DEF OwnerOf

\* A sequence without repetition has a node at one place, the head apart.
LEMMA ScatteredPlaces ==
  ASSUME NEW h \in Heads, NEW q \in Seq(Items), IsInjective(q)
  PROVE  /\ \A i, j \in 0 .. Len(q) : NodeAt(h, q, i) = NodeAt(h, q, j) => i = j
         /\ \A i, j \in 1 .. Len(q) + 1 : NodeAt(h, q, i) = NodeAt(h, q, j) => i = j
<1>1. PICK N \in Nat : N = Len(q) /\ \A i \in 1 .. N : q[i] # h /\ NodeAt(h, q, i) = q[i]
  BY ListPlaces
<1>2. NodeAt(h, q, 0) = h /\ NodeAt(h, q, N + 1) = h
  BY <1>1, ListPlaces
<1>3. \A i, j \in 1 .. N : q[i] = q[j] => i = j
  BY <1>1 DEF IsInjective
<1>4. ASSUME NEW i \in 0 .. N, NEW j \in 0 .. N, NodeAt(h, q, i) = NodeAt(h, q, j) PROVE i = j
  <2>1. (i = 0 \/ i \in 1 .. N) /\ (j = 0 \/ j \in 1 .. N)
    OBVIOUS
  <2> QED
    BY <1>1, <1>2, <1>3, <1>4, <2>1
<1>5. ASSUME NEW i \in 1 .. N + 1, NEW j \in 1 .. N + 1, NodeAt(h, q, i) = NodeAt(h, q, j) PROVE i = j
  <2>1. (i = N + 1 \/ i \in 1 .. N) /\ (j = N + 1 \/ j \in 1 .. N)
    OBVIOUS
  <2> QED
    BY <1>1, <1>2, <1>3, <1>5, <2>1
<1> QED
  BY <1>1, <1>4, <1>5

\* A step leads from a place to the next, or back.
LEMMA StepIs ==
  ASSUME NEW ls, Scattered(ls), NEW h \in Heads, NEW q, q = ls[h], NEW i \in 0 .. Len(q)
  PROVE  /\ StepOf(ls, NodeAt(h, q, i), 1) = NodeAt(h, q, i + 1)
         /\ StepOf(ls, NodeAt(h, q, i + 1), -1) = NodeAt(h, q, i)
<1>1. q \in Seq(Items) /\ IsInjective(q)
  BY DEF Scattered
<1>2. PICK N \in Nat : N = Len(q)
  BY <1>1
<1>3. PICK c : c = ChainOf(ls, h)
  OBVIOUS
<1>4. DOMAIN c = 1 .. N + 2 /\ \A j \in 1 .. N + 2 : c[j] = NodeAt(h, q, j - 1)
  BY <1>1, <1>2, <1>3, ChainPlaces
<1>5. PICK a, b : a = NodeAt(h, q, i) /\ b = NodeAt(h, q, i + 1)
  OBVIOUS
<1>6. OwnerOf(ls, a) = h /\ OwnerOf(ls, b) = h
  <2>1. i \in 0 .. Len(q) + 1 /\ i + 1 \in 0 .. Len(q) + 1
    BY <1>2
  <2>2. a \in NodesOf(h, ls[h]) /\ b \in NodesOf(h, ls[h])
    BY <1>5, <2>1 DEF NodesOf
  <2> QED
    BY <2>2, ScatteredApart
<1>7. /\ i + 1 \in 1 .. N + 2 /\ (i + 1) - 1 = i /\ (i + 1) + 1 = i + 2 /\ i + 2 \in 1 .. N + 2
      /\ (i + 2) - 1 = i + 1 /\ (i + 2) + (-1) = i + 1
  BY <1>2
<1>8. c[i + 1] = a /\ c[i + 2] = b
  BY <1>4, <1>5, <1>7
<1>9. ASSUME NEW j \in 1 .. N + 2, c[j] = a, j + 1 \in 1 .. N + 2 PROVE j = i + 1
  <2>1. j - 1 \in 0 .. Len(q) /\ NodeAt(h, q, j - 1) = NodeAt(h, q, i)
    BY <1>2, <1>4, <1>5, <1>9
  <2>2. j - 1 = i
    BY <1>1, <2>1, ScatteredPlaces
  <2> QED
    BY <2>2
<1>10. ASSUME NEW j \in 1 .. N + 2, c[j] = b, j + (-1) \in 1 .. N + 2 PROVE j = i + 2
  <2>1. j - 1 \in 1 .. Len(q) + 1 /\ NodeAt(h, q, j - 1) = NodeAt(h, q, i + 1) /\ i + 1 \in 1 .. Len(q) + 1
    BY <1>2, <1>4, <1>5, <1>10
  <2>2. j - 1 = i + 1
    BY <1>1, <2>1, ScatteredPlaces
  <2> QED
    BY <2>2
<1>11. PlaceOf(ls, h, a, 1) = i + 1
  BY <1>3, <1>4, <1>7, <1>8, <1>9 DEF PlaceOf
<1>12. PlaceOf(ls, h, b, -1) = i + 2
  BY <1>3, <1>4, <1>7, <1>8, <1>10 DEF PlaceOf
<1>13. StepOf(ls, a, 1) = c[(i + 1) + 1]
  BY <1>3, <1>6, <1>11 DEF StepOf
<1>14. StepOf(ls, b, -1) = c[(i + 2) + (-1)]
  BY <1>3, <1>6, <1>12 DEF StepOf
<1> QED
  BY <1>5, <1>7, <1>8, <1>13, <1>14

\* What the links of Linked are.
LEMMA LinkedRings ==
  ASSUME NEW ls, Scattered(ls), NEW l, l = Linked(ls)
  PROVE  l \in Links /\ \A h \in Heads : Ring(l, h, ls[h])
<1>1. l = [field \in Fields |-> [n \in ListNodes |->
         IF n \notin Within(ls) THEN n ELSE StepOf(ls, n, IF field = "next" THEN 1 ELSE -1)]]
  BY LinkedSteps
<1>2. /\ \A n \in ListNodes : l["next"][n] = IF n \notin Within(ls) THEN n ELSE StepOf(ls, n, 1)
      /\ \A n \in ListNodes : l["prev"][n] = IF n \notin Within(ls) THEN n ELSE StepOf(ls, n, -1)
  BY <1>1 DEF Fields
<1>3. \A h \in Heads : ls[h] \in Seq(Items)
  BY DEF Scattered
<1>4. ASSUME NEW h \in Heads, NEW i \in 0 .. Len(ls[h]) + 1
      PROVE  NodeAt(h, ls[h], i) \in ListNodes \cap Within(ls)
  <2>1. NodesOf(h, ls[h]) = {h} \cup ToSet(ls[h]) /\ NodeAt(h, ls[h], i) \in ListNodes
    BY <1>3, ListPlaces
  <2>2. NodeAt(h, ls[h], i) \in NodesOf(h, ls[h])
    BY DEF NodesOf
  <2> QED
    BY <2>1, <2>2 DEF Within
<1>5. ASSUME NEW h \in Heads PROVE Ring(l, h, ls[h])
  <2>1. PICK q \in Seq(Items) : q = ls[h]
    BY <1>3
  <2>2. ASSUME NEW i \in 0 .. Len(q) PROVE Step(l, h, q, i)
    <3>1. i \in 0 .. Len(q) + 1 /\ i + 1 \in 0 .. Len(q) + 1
      BY <2>1
    <3>2. PICK a, b : a = NodeAt(h, q, i) /\ b = NodeAt(h, q, i + 1)
      OBVIOUS
    <3>3. a \in ListNodes \cap Within(ls) /\ b \in ListNodes \cap Within(ls)
      BY <1>4, <2>1, <3>1, <3>2
    <3>4. StepOf(ls, a, 1) = b /\ StepOf(ls, b, -1) = a
      BY <2>1, <3>2, StepIs
    <3>5. l["next"][a] = b /\ l["prev"][b] = a
      BY <1>2, <3>3, <3>4
    <3> QED
      BY <3>2, <3>5 DEF Step
  <2> QED
    BY <2>1, <2>2 DEF Ring
<1>6. ASSUME NEW n \in ListNodes PROVE l["next"][n] \in ListNodes /\ l["prev"][n] \in ListNodes
  <2>1. CASE n \notin Within(ls)
    BY <1>2, <2>1
  <2>2. CASE n \in Within(ls)
    <3>1. PICK h \in Heads : n \in {h} \cup ToSet(ls[h])
      BY <2>2 DEF Within
    <3>2. PICK q \in Seq(Items) : q = ls[h]
      BY <1>3
    <3>3. /\ NodesOf(h, q) = {h} \cup ToSet(q) /\ Len(q) \in Nat
          /\ \A i \in 0 .. Len(q) + 1 : NodeAt(h, q, i) \in ListNodes
          /\ NodeAt(h, q, 0) = NodeAt(h, q, Len(q) + 1)
      BY <3>2, ListPlaces
    <3>4. PICK i \in 0 .. Len(q) + 1 : n = NodeAt(h, q, i)
      BY <3>1, <3>2, <3>3 DEF NodesOf
    <3>5. Ring(l, h, q)
      BY <1>5, <3>2
    <3>6. \E j \in 0 .. Len(q) : n = NodeAt(h, q, j)
      <4>1. 0 \in 0 .. Len(q) /\ (i = Len(q) + 1 \/ i \in 0 .. Len(q))
        BY <3>3
      <4> QED
        BY <3>3, <3>4, <4>1
    <3>7. \E j \in 0 .. Len(q) : n = NodeAt(h, q, j + 1)
      <4>1. Len(q) \in 0 .. Len(q) /\ (i = 0 \/ (i - 1 \in 0 .. Len(q) /\ (i - 1) + 1 = i))
        BY <3>3
      <4> QED
        BY <3>3, <3>4, <4>1
    <3>8. PICK j \in 0 .. Len(q), k \in 0 .. Len(q) : n = NodeAt(h, q, j) /\ n = NodeAt(h, q, k + 1)
      BY <3>6, <3>7
    <3>9. l["next"][n] = NodeAt(h, q, j + 1) /\ l["prev"][n] = NodeAt(h, q, k)
      BY <3>5, <3>8 DEF Ring, Step
    <3>10. j + 1 \in 0 .. Len(q) + 1 /\ k \in 0 .. Len(q) + 1
      BY <3>3
    <3> QED
      BY <3>3, <3>9, <3>10
  <2> QED
    BY <2>1, <2>2
<1>7. l \in Links
  <2>1. l = [field \in Fields |-> l[field]] /\ \A field \in Fields : l[field] = [n \in ListNodes |-> l[field][n]]
    BY <1>1
  <2>2. \A field \in Fields : l[field] \in [ListNodes -> ListNodes]
    BY <1>6, <2>1 DEF Fields
  <2> QED
    BY <2>1, <2>2 DEF Links
<1> QED
  BY <1>5, <1>7

\* And what they read as.
LEMMA LinkedReads ==
  ASSUME NEW ls, ls = [h \in Heads |-> ls[h]], Scattered(ls)
  PROVE  Reads(Linked(ls), ls)
<1>1. PICK l : l = Linked(ls)
  OBVIOUS
<1>2. l \in Links /\ \A h \in Heads : Ring(l, h, ls[h])
  BY <1>1, LinkedRings
<1>3. \A h \in Heads : ListOf(l, h) = ls[h] /\ ls[h] \in Seq(Items)
  BY <1>2, RingList
<1>4. ls = ListsOf(l)
  BY <1>3 DEF ListsOf
<1> QED
  BY <1>1, <1>2, <1>3, <1>4 DEF Reads, Over

(***************************************************************************)
(* Every operation does to the lists what it promises.                     *)
(***************************************************************************)
LEMMA DoingFirst ==
  ASSUME PersistentInv
  PROVE  Doing(Memory, Memory, lists)
<1>1. PICK t : Past(t, links, history)
  BY DEF PersistentInv
<1>2. Len(history) \in Nat /\ t \in [0 .. Len(history) -> Links] /\ t[Len(history)] = links
  BY <1>1 DEF Past
<1>3. links \in Links
  <2>1. Len(history) \in 0 .. Len(history)
    BY <1>2
  <2> QED
    BY <1>2, <2>1
<1>4. Memory.links = links
  BY DEF Memory
<1>5. Recalls(Memory, Memory)
  BY <1>3, <1>4, RecallsItself
<1>6. Reads(Memory.links, lists)
  BY <1>3, <1>4 DEF PersistentInv, Reads
<1> QED
  BY <1>5, <1>6 DEF Doing

\* Both modules say the same of the lists.
Operated(ls) ==
  UNION {Abstract!Created(ls), Abstract!Added(ls), Abstract!Deleted(ls), Abstract!Moved(ls),
         Abstract!Spliced(ls), Abstract!Halved(ls), Abstract!Swapped(ls)}

Done == \E m, new : Doing(Memory, m, new) /\ Do(m) /\ new \in Operated(lists)

\* The two modules agree on which lists are whole, what they hold and what is left without an item.
LEMMA SameWords ==
  /\ Abstract!Sound(lists) = Whole /\ Abstract!Listed(lists) = Listed
  /\ \A h, j : Abstract!Without(lists, <<h, j>>) = Dropped(lists, h, j)
<1>1. Abstract!Sound(lists) = Whole
  BY DEF Abstract!Sound, Whole
<1>2. Abstract!Listed(lists) = Listed
  BY <1>1 DEF Abstract!Listed, Listed, Abstract!ToSet, ToSet
<1>3. ASSUME NEW h, NEW j PROVE Abstract!Without(lists, <<h, j>>) = Dropped(lists, h, j)
  <2>1. PICK at : at = <<h, j>>
    OBVIOUS
  <2>2. at[1] = h /\ at[2] = j
    BY <2>1
  <2>3. Abstract!Without(lists, at) = Dropped(lists, h, j)
    BY <2>2 DEF Abstract!Without, Dropped, Abstract!RemoveAt, RemoveAt
  <2> QED
    BY <2>1, <2>3
<1> QED
  BY <1>1, <1>2, <1>3

\* Create turns the lists into what it promises.
LEMMA CreateStep ==
  ASSUME PersistentInv, NEW h \in Heads, Create(h)
  PROVE  Done
<1>1. PICK m, new : m = create(Memory, h) /\ new = [lists EXCEPT ![h] = <<>>]
  OBVIOUS
<1>2. Doing(Memory, m, new)
  BY <1>1, DoingFirst, CreateDone
<1>3. new \in Abstract!Created(lists)
  BY <1>1 DEF Abstract!Created
<1>4. Do(m)
  BY <1>1 DEF Create
<1> QED
  BY <1>2, <1>3, <1>4 DEF Done, Operated

\* An item that is put at one end of a list.
LEMMA PutIs ==
  ASSUME NEW ls, NEW h, NEW x
  PROVE  Fronted(ls, h, x) \in Abstract!Put(ls, h, x) /\ Backed(ls, h, x) \in Abstract!Put(ls, h, x)
BY DEF Fronted, Backed, Abstract!Put

\* AddEntry does.
LEMMA AddStep ==
  ASSUME PersistentInv, NEW h \in Heads, NEW x \in Items, AddEntry(h, x)
  PROVE  Done
<1>1. h \in Whole /\ x \notin Listed /\ Doing(Memory, Memory, lists)
  BY DoingFirst DEF AddEntry
<1>2. lists[h] # Broken /\ Unlisted(x, lists)
  BY <1>1 DEF Whole, Listed, Unlisted
<1>3. /\ Doing(Memory, add(Memory, h, x), Fronted(lists, h, x))
      /\ Doing(Memory, add_tail(Memory, h, x), Backed(lists, h, x))
  BY <1>1, <1>2, PutDone
<1>4. Fronted(lists, h, x) \in Abstract!Added(lists) /\ Backed(lists, h, x) \in Abstract!Added(lists)
  <2>1. h \in Abstract!Sound(lists) /\ x \in Items \ Abstract!Listed(lists)
    BY <1>1, SameWords
  <2>2. Abstract!Put(lists, h, x) \subseteq Abstract!Added(lists)
    BY <2>1 DEF Abstract!Added
  <2> QED
    BY <2>2, PutIs
<1>5. Do(add(Memory, h, x)) \/ Do(add_tail(Memory, h, x))
  BY DEF AddEntry
<1>6. Fronted(lists, h, x) \in Operated(lists) /\ Backed(lists, h, x) \in Operated(lists)
  BY <1>4 DEF Operated
<1> QED
  BY <1>3, <1>5, <1>6 DEF Done

\* Where an item is.
LEMMA PlaceIn ==
  ASSUME PersistentInv, NEW h \in Whole, NEW j \in 1 .. Len(lists[h])
  PROVE  <<h, j>> \in Abstract!Places(lists)
<1>1. lists[h] \in Seq(Items) /\ h \in Abstract!Sound(lists)
  BY SameWords DEF PersistentInv, Over, Whole
<1>2. <<h, j>> \in {h} \X DOMAIN lists[h]
  BY <1>1
<1> QED
  BY <1>1, <1>2 DEF Abstract!Places

\* A listed item has a place.
LEMMA ListedAt ==
  ASSUME PersistentInv, NEW x \in Listed
  PROVE  \E h \in Whole : \E j \in 1 .. Len(lists[h]) : x = lists[h][j]
<1>1. PICK h \in Whole : x \in ToSet(lists[h])
  BY DEF Listed
<1>2. lists[h] \in Seq(Items)
  BY DEF PersistentInv, Over, Whole
<1> QED
  BY <1>1, <1>2 DEF ToSet

\* What is deleted.
LEMMA DroppedIn ==
  ASSUME PersistentInv, NEW h \in Whole, NEW j \in 1 .. Len(lists[h])
  PROVE  Dropped(lists, h, j) \in Operated(lists)
<1>1. <<h, j>> \in Abstract!Places(lists)
  BY PlaceIn
<1>2. Abstract!Without(lists, <<h, j>>) \in Abstract!Deleted(lists)
  BY <1>1 DEF Abstract!Deleted
<1>3. Dropped(lists, h, j) \in Abstract!Deleted(lists)
  BY <1>2, SameWords
<1> QED
  BY <1>3 DEF Operated

\* DelEntry does, and so on for the other operations.
LEMMA DelStep ==
  ASSUME PersistentInv, NEW x \in Items, DelEntry(x)
  PROVE  Done
<1>1. x \in Listed /\ Do(del(Memory, x))
  BY DEF DelEntry
<1>2. PICK h \in Whole : \E j \in 1 .. Len(lists[h]) : x = lists[h][j]
  BY <1>1, ListedAt
<1>3. PICK j \in 1 .. Len(lists[h]) : x = lists[h][j]
  BY <1>2
<1>4. h \in Heads /\ lists[h] # Broken
  BY DEF Whole
<1>5. Doing(Memory, del(Memory, x), Dropped(lists, h, j))
  BY <1>3, <1>4, DoingFirst, DelDone
<1>6. Dropped(lists, h, j) \in Operated(lists)
  BY DroppedIn
<1> QED
  BY <1>1, <1>5, <1>6 DEF Done

\* ShiftEntry.
LEMMA ShiftStep ==
  ASSUME PersistentInv, NEW h \in Heads, ShiftEntry(h)
  PROVE  Done
<1>1. h \in Whole /\ lists[h] # Broken /\ ~Empty(Memory, h) /\ Doing(Memory, Memory, lists)
  BY DoingFirst DEF ShiftEntry, Whole
<1>2. PICK L : L = Len(lists[h])
  OBVIOUS
<1>3. /\ 1 \in 1 .. L /\ L \in 1 .. L
      /\ Doing(Memory, shift(Memory, h), Dropped(lists, h, 1))
      /\ Doing(Memory, shift_tail(Memory, h), Dropped(lists, h, L))
  BY <1>1, <1>2, ShiftDone
<1>4. Dropped(lists, h, 1) \in Operated(lists) /\ Dropped(lists, h, L) \in Operated(lists)
  BY <1>1, <1>2, <1>3, DroppedIn
<1>5. Do(shift(Memory, h)) \/ Do(shift_tail(Memory, h))
  BY DEF ShiftEntry
<1> QED
  BY <1>3, <1>4, <1>5 DEF Done

\* MoveEntry.
LEMMA MoveStep ==
  ASSUME PersistentInv, NEW h \in Heads, NEW x \in Items, MoveEntry(h, x)
  PROVE  Done
<1>1. h \in Whole /\ lists[h] # Broken /\ x \in Listed /\ Doing(Memory, Memory, lists)
  BY DoingFirst DEF MoveEntry, Whole
<1>2. PICK g \in Whole : \E j \in 1 .. Len(lists[g]) : x = lists[g][j]
  BY <1>1, ListedAt
<1>3. PICK j \in 1 .. Len(lists[g]) : x = lists[g][j]
  BY <1>2
<1>4. g \in Heads /\ lists[g] # Broken
  BY DEF Whole
<1>5. PICK mid : mid = Dropped(lists, g, j)
  OBVIOUS
<1>6. /\ Doing(Memory, move(Memory, h, x), Fronted(mid, h, x))
      /\ Doing(Memory, move_tail(Memory, h, x), Backed(mid, h, x))
  BY <1>1, <1>3, <1>4, <1>5, MoveDone
<1>7. Fronted(mid, h, x) \in Abstract!Moved(lists) /\ Backed(mid, h, x) \in Abstract!Moved(lists)
  <2>1. PICK at : at = <<g, j>>
    OBVIOUS
  <2>2. at \in Abstract!Places(lists) /\ lists[at[1]][at[2]] = x /\ h \in Abstract!Sound(lists)
    BY <1>1, <1>3, <2>1, PlaceIn, SameWords
  <2>3. Abstract!Without(lists, at) = mid
    BY <1>5, <2>1, SameWords
  <2>4. Abstract!Put(Abstract!Without(lists, at), h, lists[at[1]][at[2]]) \subseteq Abstract!Moved(lists)
    BY <2>2 DEF Abstract!Moved
  <2>5. Abstract!Put(mid, h, x) \subseteq Abstract!Moved(lists)
    BY <2>2, <2>3, <2>4
  <2> QED
    BY <2>5, PutIs
<1>8. Fronted(mid, h, x) \in Operated(lists) /\ Backed(mid, h, x) \in Operated(lists)
  BY <1>7 DEF Operated
<1>9. Do(move(Memory, h, x)) \/ Do(move_tail(Memory, h, x))
  BY DEF MoveEntry
<1> QED
  BY <1>6, <1>8, <1>9 DEF Done

\* Two heads of sound lists.
LEMMA PairIn ==
  ASSUME NEW h \in Whole, NEW g \in Whole, h # g
  PROVE  \E hg \in Abstract!Pairs(lists) : hg[1] = h /\ hg[2] = g
<1>1. PICK hg : hg = <<h, g>>
  OBVIOUS
<1>2. hg \in Whole \X Whole /\ hg[1] = h /\ hg[2] = g
  BY <1>1
<1>3. hg \in Abstract!Pairs(lists)
  BY <1>2, SameWords DEF Abstract!Pairs
<1> QED
  BY <1>2, <1>3

\* SpliceLists.
LEMMA SpliceStep ==
  ASSUME PersistentInv, NEW h \in Heads, NEW g \in Heads, SpliceLists(h, g)
  PROVE  Done
<1>1. /\ h \in Whole /\ g \in Whole /\ h # g /\ lists[h] # Broken /\ lists[g] # Broken
      /\ Doing(Memory, Memory, lists)
  BY DoingFirst DEF SpliceLists, Whole
<1>2. /\ Doing(Memory, splice(Memory, h, g), Prefixed(lists, h, g))
      /\ Doing(Memory, splice_tail(Memory, h, g), Suffixed(lists, h, g))
  BY <1>1, SpliceDone
<1>3. Prefixed(lists, h, g) \in Abstract!Spliced(lists) /\ Suffixed(lists, h, g) \in Abstract!Spliced(lists)
  <2>1. PICK hg \in Abstract!Pairs(lists) : hg[1] = h /\ hg[2] = g
    BY <1>1, PairIn
  <2>2. Abstract!Join(lists, h, g) \subseteq Abstract!Spliced(lists)
    BY <2>1 DEF Abstract!Spliced
  <2>3. Prefixed(lists, h, g) \in Abstract!Join(lists, h, g) /\ Suffixed(lists, h, g) \in Abstract!Join(lists, h, g)
    BY DEF Prefixed, Suffixed, Abstract!Join
  <2> QED
    BY <2>2, <2>3
<1>4. Prefixed(lists, h, g) \in Operated(lists) /\ Suffixed(lists, h, g) \in Operated(lists)
  BY <1>3 DEF Operated
<1>5. Do(splice(Memory, h, g)) \/ Do(splice_tail(Memory, h, g))
  BY DEF SpliceLists
<1> QED
  BY <1>2, <1>4, <1>5 DEF Done

\* CutBefore.
LEMMA CutStep ==
  ASSUME PersistentInv, NEW h \in Heads, NEW g \in Heads, CutBefore(h, g)
  PROVE  Done
<1>1. /\ g \in Whole /\ h # g /\ lists[g] # Broken /\ Doing(Memory, Memory, lists)
  BY DoingFirst DEF CutBefore, Whole
<1>2. PICK x \in {g} \cup ToSet(lists[g]) : Do(cut_before(Memory, h, g, x))
  BY DEF CutBefore
<1>3. PICK n \in 0 .. Len(lists[g]) : Doing(Memory, cut_before(Memory, h, g, x), Parted(lists, h, g, n))
  BY <1>1, CutDone
<1>4. Parted(lists, h, g, n) = Abstract!CutAt(lists, h, g, n)
  BY DEF Parted, Abstract!CutAt
<1>5. Abstract!CutAt(lists, h, g, n) \in Abstract!Cuts(lists, g)
  BY <1>1 DEF Abstract!Cuts
<1>6. g \in Abstract!Sound(lists)
  BY <1>1, SameWords
<1>7. Abstract!Cuts(lists, g) \subseteq Abstract!Halved(lists)
  BY <1>6 DEF Abstract!Halved
<1>8. Parted(lists, h, g, n) \in Operated(lists)
  BY <1>4, <1>5, <1>7 DEF Operated
<1> QED
  BY <1>2, <1>3, <1>8 DEF Done

\* SwapHeads.
LEMMA SwapStep ==
  ASSUME PersistentInv, NEW h \in Heads, NEW g \in Heads, SwapHeads(h, g)
  PROVE  Done
<1>1. /\ h \in Whole /\ g \in Whole /\ h # g /\ lists[h] # Broken /\ lists[g] # Broken
      /\ Doing(Memory, Memory, lists)
  BY DoingFirst DEF SwapHeads, Whole
<1>2. Doing(Memory, swap_links(Memory, h, g), Traded(lists, h, g))
  BY <1>1, SwapDone
<1>3. Traded(lists, h, g) \in Abstract!Swapped(lists)
  <2>1. PICK hg \in Abstract!Pairs(lists) : hg[1] = h /\ hg[2] = g
    BY <1>1, PairIn
  <2>2. Abstract!Swap(lists, h, g) \in Abstract!Swapped(lists)
    BY <2>1 DEF Abstract!Swapped
  <2>3. Traded(lists, h, g) = Abstract!Swap(lists, h, g)
    BY DEF Traded, Abstract!Swap
  <2> QED
    BY <2>2, <2>3
<1>4. Do(swap_links(Memory, h, g))
  BY DEF SwapHeads
<1> QED
  BY <1>2, <1>3, <1>4 DEF Done, Operated

PersistentSpec == PersistentInit /\ [][PersistentNext]_persistentVars

\* An operation.
LEMMA OperateStep ==
  ASSUME PersistentInv, Done, lists' = ListsOf(links'), saved' = SavedOf(links', history', svps')
  PROVE  PersistentInv' /\ Abstract!Operate
<1>1. PICK m, new : Doing(Memory, m, new) /\ Do(m) /\ new \in Operated(lists)
  BY DEF Done
<1>2. Recalls(Memory, m) /\ new = ListsOf(m.links) /\ Over(new)
  BY <1>1 DEF Doing, Reads
<1>3. PersistentInv' /\ UNCHANGED saved /\ lists' = new
  BY <1>1, <1>2, DoKeeps
<1>4. lists' \in Operated(lists)
  BY <1>1, <1>3
<1> QED
  BY <1>3, <1>4 DEF Operated, Abstract!Operate

\* A savepoint.
LEMMA SaveStep ==
  ASSUME PersistentInv, CreateSvp, lists' = ListsOf(links'), saved' = SavedOf(links', history', svps')
  PROVE  PersistentInv' /\ Abstract!Save
<1>1. PICK t : Past(t, links, history) /\ saved = [i \in DOMAIN svps |-> ListsOf(t[svps[i]])]
  BY DEF PersistentInv
<1>2. PICK H \in Nat : H = Len(history) /\ t[H] = links
  BY <1>1 DEF Past
<1>3. /\ svps \in Seq(0 .. H) /\ \A i, j \in 1 .. Len(svps) : i <= j => svps[i] <= svps[j]
      /\ lists = ListsOf(links) /\ Over(lists) /\ \A i \in DOMAIN svps : Over(saved[i])
  BY <1>2 DEF PersistentInv, Marks
<1>4. PICK L \in Nat : L = Len(svps)
  BY <1>3
<1>5. PICK V : V = Append(svps, H)
  OBVIOUS
<1>6. /\ links' = links /\ history' = history /\ svps' = V
  BY <1>2, <1>5 DEF CreateSvp
<1>7. /\ V \in Seq(0 .. H) /\ Len(V) = L + 1
      /\ \A i \in 1 .. L : V[i] = svps[i]
      /\ V[L + 1] = H
  <2>1. H \in 0 .. H
    BY <1>2
  <2>2. V \in Seq(0 .. H) /\ Len(V) = Len(svps) + 1
    BY <1>3, <1>5, <2>1
  <2>3. \A i \in 1 .. Len(svps) : V[i] = svps[i]
    BY <1>3, <1>5
  <2>4. V[Len(svps) + 1] = H
    BY <1>3, <1>5
  <2> QED
    BY <1>4, <2>2, <2>3, <2>4
<1>8. DOMAIN V = 1 .. L + 1 /\ DOMAIN svps = 1 .. L
  BY <1>3, <1>4, <1>7
<1>9. SavedOf(links, history, V) = [i \in 1 .. L + 1 |-> ListsOf(t[V[i]])]
  BY <1>1, <1>2, <1>7, <1>8, PastSaved
<1>10. PICK w : w = saved'
  OBVIOUS
<1>11. w = [i \in 1 .. L + 1 |-> ListsOf(t[V[i]])]
  BY <1>6, <1>9, <1>10
<1>12. \A i \in 1 .. L : w[i] = saved[i]
  <2>1. ASSUME NEW i \in 1 .. L PROVE w[i] = saved[i]
    <3>1. i \in 1 .. L + 1
      BY <1>4
    <3> QED
      BY <1>1, <1>7, <1>8, <1>11, <3>1
  <2> QED
    BY <2>1
<1>13. w[L + 1] = lists
  <2>1. L + 1 \in 1 .. L + 1
    BY <1>4
  <2> QED
    BY <1>2, <1>3, <1>7, <1>11, <2>1
<1>14. w = Append(saved, lists)
  <2>1. saved = [i \in 1 .. L |-> saved[i]]
    BY <1>1, <1>8
  <2>2. PICK U : U = {saved[i] : i \in 1 .. L} \cup {lists}
    OBVIOUS
  <2>3. saved \in Seq(U) /\ lists \in U
    <3>1. \A i \in 1 .. L : saved[i] \in U
      BY <2>2
    <3>2. saved \in [1 .. L -> U]
      BY <2>1, <3>1
    <3> QED
      BY <1>4, <2>2, <3>2
  <2>4. Len(saved) = L
    BY <1>4, <2>1, <2>3
  <2>5. PICK v : v = Append(saved, lists)
    OBVIOUS
  <2>6. v \in Seq(U) /\ Len(v) = L + 1 /\ (\A i \in 1 .. L : v[i] = saved[i]) /\ v[L + 1] = lists
    BY <2>3, <2>4, <2>5
  <2>7. DOMAIN v = 1 .. L + 1 /\ v = [i \in 1 .. L + 1 |-> v[i]]
    BY <2>6
  <2>8. \A i \in 1 .. L + 1 : v[i] = w[i]
    <3>1. ASSUME NEW i \in 1 .. L + 1 PROVE v[i] = w[i]
      <4>1. i \in 1 .. L \/ i = L + 1
        BY <1>4
      <4> QED
        BY <1>12, <1>13, <2>6, <4>1
    <3> QED
      BY <3>1
  <2>9. w = [i \in 1 .. L + 1 |-> w[i]]
    BY <1>11
  <2>10. v = w
    BY <2>7, <2>8, <2>9
  <2> QED
    BY <2>5, <2>10
<1>15. lists' = lists
  BY <1>3, <1>6
<1>16. Abstract!Save
  BY <1>10, <1>14, <1>15 DEF Abstract!Save
<1>17. Marks(V, H)
  <2>1. ASSUME NEW i \in 1 .. L + 1, NEW j \in 1 .. L + 1, i <= j PROVE V[i] <= V[j]
    <3>1. CASE j = L + 1
      <4>1. V[i] \in 0 .. H
        BY <1>7
      <4> QED
        BY <1>2, <1>7, <3>1, <4>1
    <3>2. CASE j # L + 1
      <4>1. i \in 1 .. L /\ j \in 1 .. L
        BY <1>4, <2>1, <3>2
      <4>2. svps[i] <= svps[j]
        BY <1>3, <1>4, <2>1, <4>1
      <4> QED
        BY <1>7, <4>1, <4>2
    <3> QED
      BY <3>1, <3>2
  <2> QED
    BY <1>7, <2>1 DEF Marks
<1>18. \A i \in DOMAIN V : Over(w[i])
  <2>1. ASSUME NEW i \in 1 .. L + 1 PROVE Over(w[i])
    <3>1. i \in 1 .. L \/ i = L + 1
      BY <1>4
    <3> QED
      BY <1>3, <1>8, <1>12, <1>13, <3>1
  <2> QED
    BY <1>8, <2>1
<1>19. Past(t, links', history') /\ saved' = [i \in DOMAIN svps' |-> ListsOf(t[svps'[i]])]
  BY <1>1, <1>6, <1>8, <1>10, <1>11
<1>20. PersistentInv'
  BY <1>2, <1>3, <1>6, <1>10, <1>15, <1>17, <1>18, <1>19 DEF PersistentInv
<1> QED
  BY <1>16, <1>20

\* The past of a history that is cut off.
LEMMA PastCut ==
  ASSUME NEW t, NEW l, NEW ops, Past(t, l, ops), NEW at \in 0 .. Len(ops)
  PROVE  \E u : /\ Past(u, t[at], SubSeq(ops, 1, at))
                /\ \A k \in 0 .. at : u[k] = t[k]
<1>1. PICK N \in Nat : N = Len(ops)
  BY DEF Past
<1>2. /\ ops \in Seq(Ops) /\ t \in [0 .. N -> Links]
      /\ \A k \in 1 .. N : Undoes(t[k - 1], t[k], ops[k])
  BY <1>1 DEF Past
<1>3. PICK less : less = SubSeq(ops, 1, at)
  OBVIOUS
<1>4. less \in Seq(Ops) /\ Len(less) = at /\ \A k \in 1 .. at : less[k] = ops[k]
  <2>1. at \in Nat /\ at <= Len(ops)
    BY <1>1
  <2> QED
    BY <1>2, <1>3, <2>1
<1>5. PICK u : u = [k \in 0 .. at |-> t[k]]
  OBVIOUS
<1>6. \A k \in 0 .. at : u[k] = t[k] /\ t[k] \in Links
  <2>1. 0 .. at \subseteq 0 .. N
    BY <1>1
  <2> QED
    BY <1>2, <1>5, <2>1
<1>7. u \in [0 .. at -> Links]
  BY <1>5, <1>6
<1>8. u[at] = t[at]
  <2>1. at \in 0 .. at
    BY <1>1
  <2> QED
    BY <1>6, <2>1
<1>9. ASSUME NEW k \in 1 .. at PROVE Undoes(u[k - 1], u[k], less[k])
  <2>1. k \in 1 .. N /\ k \in 0 .. at /\ k - 1 \in 0 .. at
    BY <1>1
  <2>2. u[k - 1] = t[k - 1] /\ u[k] = t[k] /\ less[k] = ops[k]
    BY <1>4, <1>6, <2>1
  <2>3. Undoes(t[k - 1], t[k], ops[k])
    BY <1>2, <2>1
  <2> QED
    BY <2>2, <2>3
<1>10. Past(u, t[at], less)
  BY <1>4, <1>7, <1>8, <1>9 DEF Past
<1> QED
  BY <1>3, <1>6, <1>10

\* A rollback.
LEMMA RollbackStep ==
  ASSUME PersistentInv, RollbackToSvp, lists' = ListsOf(links'), saved' = SavedOf(links', history', svps')
  PROVE  PersistentInv' /\ Abstract!Rollback
<1>1. PICK t : Past(t, links, history) /\ saved = [i \in DOMAIN svps |-> ListsOf(t[svps[i]])]
  BY DEF PersistentInv
<1>2. PICK H \in Nat : H = Len(history)
  BY <1>1 DEF Past
<1>3. /\ svps \in Seq(0 .. H) /\ \A i, j \in 1 .. Len(svps) : i <= j => svps[i] <= svps[j]
      /\ \A i \in DOMAIN svps : Over(saved[i])
  BY <1>2 DEF PersistentInv, Marks
<1>4. PICK L \in Nat : L = Len(svps) /\ DOMAIN svps = 1 .. L
  BY <1>3
<1>5. PICK i \in DOMAIN svps :
        /\ links' = Undone(links, history, svps[i]).links
        /\ history' = SubSeq(history, 1, svps[i])
        /\ svps' = SubSeq(svps, 1, i)
  BY DEF RollbackToSvp
<1>6. PICK at \in 0 .. H : at = svps[i]
  BY <1>3
<1>7. i \in 1 .. L
  BY <1>4
<1>8. links' = t[at] /\ history' = SubSeq(history, 1, at)
  <2>1. Undone(links, history, at) = [links |-> t[at], ok |-> TRUE]
    BY <1>1, <1>2, PastUndone
  <2> QED
    BY <1>5, <1>6, <2>1
<1>9. PICK u : Past(u, t[at], SubSeq(history, 1, at)) /\ \A k \in 0 .. at : u[k] = t[k]
  BY <1>1, <1>2, PastCut
<1>10. Len(history') = at
  <2>1. history \in Seq(Ops) /\ at \in Nat /\ at <= Len(history)
    BY <1>1, <1>2 DEF Past
  <2>2. Len(SubSeq(history, 1, at)) = at
    BY <2>1
  <2> QED
    BY <1>8, <2>2
<1>11. PICK V : V = SubSeq(svps, 1, i)
  OBVIOUS
<1>12. Len(V) = i /\ (\A k \in 1 .. i : V[k] = svps[k]) /\ V \in Seq(0 .. H)
  <2>1. i \in Nat /\ i >= 1 /\ i <= Len(svps)
    BY <1>4, <1>7
  <2> QED
    BY <1>3, <1>11, <2>1
<1>13. \A k \in 1 .. i : k \in 1 .. L /\ V[k] = svps[k] /\ svps[k] \in 0 .. at
  <2>1. ASSUME NEW k \in 1 .. i PROVE k \in 1 .. L /\ V[k] = svps[k] /\ svps[k] \in 0 .. at
    <3>1. k \in 1 .. L /\ k <= i
      BY <1>4, <1>7
    <3>2. svps[k] <= svps[i] /\ svps[k] \in 0 .. H
      BY <1>3, <1>4, <1>7, <3>1
    <3> QED
      BY <1>6, <1>12, <3>1, <3>2
  <2> QED
    BY <2>1
<1>14. V \in Seq(0 .. at) /\ DOMAIN V = 1 .. i
  <2>1. DOMAIN V = 1 .. i /\ V = [k \in 1 .. i |-> V[k]]
    BY <1>12
  <2>2. V \in [1 .. i -> 0 .. at]
    BY <1>13, <2>1
  <2> QED
    BY <1>4, <1>7, <2>1, <2>2
<1>15. svps' = V
  BY <1>5, <1>11
<1>16. Past(u, links', history')
  BY <1>8, <1>9
<1>17. saved' = [k \in 1 .. i |-> ListsOf(u[V[k]])]
  <2>1. PICK l, ops : l = links' /\ ops = history'
    OBVIOUS
  <2>2. Past(u, l, ops) /\ V \in Seq(0 .. Len(ops))
    BY <1>10, <1>14, <1>16, <2>1
  <2>3. SavedOf(l, ops, V) = [k \in DOMAIN V |-> ListsOf(u[V[k]])]
    BY <2>2, PastSaved
  <2> QED
    BY <1>14, <1>15, <2>1, <2>3
<1>18. \A k \in 1 .. i : ListsOf(u[V[k]]) = saved[k]
  BY <1>1, <1>4, <1>9, <1>13
<1>19. PICK w : w = saved'
  OBVIOUS
<1>20. w = [k \in 1 .. i |-> saved[k]]
  BY <1>17, <1>18, <1>19
<1>21. w = SubSeq(saved, 1, i)
  <2>1. saved = [k \in 1 .. L |-> saved[k]]
    BY <1>1, <1>4
  <2>2. PICK U : U = {saved[k] : k \in 1 .. L}
    OBVIOUS
  <2>3. saved \in Seq(U)
    <3>1. \A k \in 1 .. L : saved[k] \in U
      BY <2>2
    <3>2. saved \in [1 .. L -> U]
      BY <2>1, <3>1
    <3> QED
      BY <1>4, <3>2
  <2>4. Len(saved) = L
    BY <1>4, <2>1, <2>3
  <2>5. PICK v : v = SubSeq(saved, 1, i)
    OBVIOUS
  <2>6. i \in Nat /\ i >= 1 /\ i <= Len(saved)
    BY <1>7, <2>4
  <2>7. v \in Seq(U) /\ Len(v) = i /\ \A k \in 1 .. i : v[k] = saved[k]
    BY <2>3, <2>5, <2>6
  <2>8. v = [k \in 1 .. i |-> v[k]]
    BY <2>7
  <2>9. v = w
    BY <1>20, <2>7, <2>8
  <2> QED
    BY <2>5, <2>9
<1>22. lists' = saved[i]
  BY <1>1, <1>6, <1>8
<1>23. i \in DOMAIN saved
  BY <1>1
<1>24. Abstract!Rollback
  BY <1>19, <1>21, <1>22, <1>23 DEF Abstract!Rollback
<1>25. Marks(V, at)
  <2>1. ASSUME NEW j \in 1 .. Len(V), NEW k \in 1 .. Len(V), j <= k PROVE V[j] <= V[k]
    <3>1. j \in 1 .. i /\ k \in 1 .. i
      BY <1>12
    <3>2. svps[j] <= svps[k]
      BY <1>3, <1>4, <1>13, <2>1, <3>1
    <3> QED
      BY <1>13, <3>1, <3>2
  <2> QED
    BY <1>14, <2>1 DEF Marks
<1>26. Over(lists') /\ \A k \in DOMAIN V : Over(w[k])
  BY <1>3, <1>4, <1>7, <1>13, <1>14, <1>20, <1>22
<1>27. PersistentInv'
  <2>1. saved' = [k \in DOMAIN svps' |-> ListsOf(u[svps'[k]])]
    BY <1>14, <1>15, <1>17
  <2> QED
    BY <1>10, <1>15, <1>16, <1>19, <1>25, <1>26, <2>1 DEF PersistentInv
<1> QED
  BY <1>24, <1>27

\* In the beginning.
LEMMA ListsFirst ==
  ASSUME PersistentInit
  PROVE  PersistentInv /\ Abstract!ListsInit
<1>1. PICK ls \in [Heads -> {s \in SeqOf(Items, Cardinality(Items)) : IsInjective(s)}] :
        /\ \A h, g \in Heads : h # g => ToSet(ls[h]) \cap ToSet(ls[g]) = {}
        /\ links = Linked(ls)
  BY DEF PersistentInit
<1>2. history = <<>> /\ svps = <<>> /\ lists = ListsOf(links) /\ saved = <<>>
  BY DEF PersistentInit
<1>3. \A h \in Heads : ls[h] \in SeqOf(Items, Cardinality(Items)) /\ IsInjective(ls[h])
  BY <1>1
<1>4. SeqOf(Items, Cardinality(Items)) \subseteq Seq(Items)
  BY DEF SeqOf
<1>5. Scattered(ls) /\ ls = [h \in Heads |-> ls[h]]
  BY <1>1, <1>3, <1>4 DEF Scattered
<1>6. Reads(links, ls)
  BY <1>1, <1>5, LinkedReads
<1>7. lists = ls /\ links \in Links /\ Over(lists)
  BY <1>2, <1>6 DEF Reads
<1>8. Abstract!ListsInit
  <2>1. \A s : Abstract!IsInjective(s) = IsInjective(s) /\ Abstract!ToSet(s) = ToSet(s)
    BY DEF Abstract!IsInjective, IsInjective, Abstract!ToSet, ToSet
  <2>2. Abstract!Cardinality(Items) = Cardinality(Items)
    BY DEF Abstract!Cardinality, Cardinality
  <2>3. PICK n : n = Cardinality(Items)
    OBVIOUS
  <2>4. Abstract!SeqOf(Items, n) = SeqOf(Items, n)
    BY DEF Abstract!SeqOf, SeqOf
  <2>5. lists \in [Heads -> {s \in SeqOf(Items, n) : IsInjective(s)}]
    BY <1>1, <1>7, <2>3
  <2>6. lists \in [Heads -> {s \in Abstract!SeqOf(Items, Abstract!Cardinality(Items)) : Abstract!IsInjective(s)}]
    BY <2>1, <2>2, <2>3, <2>4, <2>5
  <2>7. \A h, g \in Heads : h # g => Abstract!ToSet(lists[h]) \cap Abstract!ToSet(lists[g]) = {}
    BY <1>1, <1>7, <2>1
  <2> QED
    BY <1>2, <2>6, <2>7 DEF Abstract!ListsInit
<1>9. PICK t : t = [k \in 0 .. 0 |-> links]
  OBVIOUS
<1>10. Past(t, links, history)
  <2>1. t \in [0 .. 0 -> Links] /\ t[0] = links
    BY <1>7, <1>9
  <2>2. history \in Seq(Ops) /\ Len(history) = 0
    BY <1>2
  <2> QED
    BY <2>1, <2>2 DEF Past
<1>11. saved = [i \in DOMAIN svps |-> ListsOf(t[svps[i]])] /\ \A i \in DOMAIN svps : Over(saved[i])
  BY <1>2
<1>12. Marks(svps, Len(history))
  <2>1. svps \in Seq(0 .. Len(history)) /\ Len(svps) = 0
    BY <1>2
  <2> QED
    BY <2>1 DEF Marks
<1>13. PersistentInv
  BY <1>2, <1>7, <1>10, <1>11, <1>12 DEF PersistentInv
<1> QED
  BY <1>8, <1>13

\* Every step is one of the lists.
LEMMA ListsStep ==
  ASSUME PersistentInv, [PersistentNext]_persistentVars
  PROVE  PersistentInv' /\ [Abstract!ListsNext]_Abstract!listVars
<1>1. CASE UNCHANGED persistentVars
  <2>1. /\ links' = links /\ history' = history /\ svps' = svps /\ lists' = lists /\ saved' = saved
    BY <1>1 DEF persistentVars
  <2> QED
    BY <2>1 DEF PersistentInv, Abstract!listVars
<1>2. CASE PersistentNext
  <2>1. lists' = ListsOf(links') /\ saved' = SavedOf(links', history', svps')
    BY <1>2 DEF PersistentNext
  <2>2. CASE \E h \in Heads : Create(h) \/ ShiftEntry(h) \/ \E x \in Items : AddEntry(h, x) \/ MoveEntry(h, x)
    <3>1. Done
      BY <2>2, CreateStep, ShiftStep, AddStep, MoveStep
    <3> QED
      BY <2>1, <3>1, OperateStep DEF Abstract!ListsNext
  <2>3. CASE \E x \in Items : DelEntry(x)
    <3>1. Done
      BY <2>3, DelStep
    <3> QED
      BY <2>1, <3>1, OperateStep DEF Abstract!ListsNext
  <2>4. CASE \E h, g \in Heads : SpliceLists(h, g) \/ CutBefore(h, g) \/ SwapHeads(h, g)
    <3>1. Done
      BY <2>4, SpliceStep, CutStep, SwapStep
    <3> QED
      BY <2>1, <3>1, OperateStep DEF Abstract!ListsNext
  <2>5. CASE CreateSvp
    BY <2>1, <2>5, SaveStep DEF Abstract!ListsNext
  <2>6. CASE RollbackToSvp
    BY <2>1, <2>6, RollbackStep DEF Abstract!ListsNext
  <2> QED
    BY <1>2, <2>2, <2>3, <2>4, <2>5, <2>6 DEF PersistentNext
<1> QED
  BY <1>1, <1>2

(***************************************************************************)
(* The links implement sequences that can be rolled back, whatever the     *)
(* heads and the items are: after any operations, a savepoint stands for   *)
(* the lists of its moment (rlist_persistent.h).                           *)
(***************************************************************************)
THEOREM ListsRollBack == PersistentSpec => RollsBack
BY ListsFirst, ListsStep, PTL DEF PersistentSpec, RollsBack, Abstract!ListsSpec
================================================================================
