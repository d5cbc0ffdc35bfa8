--------------------------- MODULE RouteCachesProofs ---------------------------
(***************************************************************************)
(* That the data the objects of the routes cache stay those a computation  *)
(* anew would give, through any sequence of modifications, and the types   *)
(* of what is cached; that what modification_apply does to the objects is  *)
(* what the modification does to the routes of customers (Modification),   *)
(* and that what modification_delta computes in constant time from the     *)
(* cached data is the change of the penalties of the routes.               *)
(***************************************************************************)
EXTENDS RouteCaches, RouteProofs, FiniteSetTheorems

-----------------------------------------------------------------------------
(***************************************************************************)
(* Values along a route depend on the nodes of one side only.              *)
(***************************************************************************)
\* c_penalty_init, demand_sf: demand adds up from the tail.
LEMMA SuffixDemandSteps ==
  ASSUME NEW p, NEW r, RouteOf(p, r)
  PROVE  /\ SuffixDemand(p, r) \in [0 .. Len(r) + 1 -> Int]
         /\ SuffixDemand(p, r)[Len(r) + 1] = p.demand[0]
         /\ \A i \in 0 .. Len(r) :
              SuffixDemand(p, r)[i] = p.demand[Id(r, i)] + SuffixDemand(p, r)[i + 1]
<1> DEFINE n == Len(r) + 1
           a == SuffixDemand(p, r)
           step(t, i) == p.demand[Id(r, i)] + t
<1>1. /\ n \in Nat /\ Indexes(r) = 0 .. n /\ p.demand[0] \in Int /\ 0 .. n - 1 = 0 .. Len(r)
      /\ depot_tail(r) = n /\ Id(r, n) = 0
  <2>1. Len(r) \in Nat /\ 0 \in 0 .. p.n
    BY NodeData
  <2>2. p.demand[0] \in Int
    BY <2>1, NodeData
  <2>3. Id(r, n) = 0
    BY <2>1 DEF Id
  <2> QED
    BY <2>1, <2>2, <2>3 DEF Indexes, depot_tail
<1>2. \A t \in Int, i \in 0 .. n - 1 : step(t, i) \in Int
  <2>1. \A i \in 0 .. n - 1 : Id(r, i) \in 0 .. p.n
    BY <1>1, RouteLegs
  <2>2. \A i \in 0 .. n - 1 : p.demand[Id(r, i)] \in Int
    BY <2>1, NodeData
  <2> HIDE DEF n
  <2> QED
    BY <2>2
<1> HIDE DEF n, step
<1>3. PICK g : g = [u \in Int \X (0 .. n - 1) |-> step(u[1], u[2])]
  OBVIOUS
<1>4. g \in [Int \X (0 .. n - 1) -> Int] /\ \A t \in Int, i \in 0 .. n - 1 : g[<<t, i>>] = step(t, i)
  BY <1>2, <1>3
<1>5. PICK D : D = [u \in Int \X (1 .. n) |-> g[<<u[1], n - u[2]>>]]
  OBVIOUS
<1>6. Stepper(D, n, Int) /\ \A t \in Int, i \in 0 .. n - 1 : D[<<t, n - i>>] = step(t, i)
  <2>1. Downwards(D, g, n, Int)
    BY <1>4, <1>5 DEF Downwards
  <2>2. Stepper(D, n, Int) /\ Mirrors(D, g, n, Int)
    BY <1>1, <2>1, DownSteps
  <2> QED
    BY <1>4, <2>2 DEF Mirrors
<1>7. PICK f : IteratesDown(f, n, Int, p.demand[0], D)
  BY <1>1, <1>6, RecursionDown
<1>8. f = [i \in 0 .. n |-> p.demand[Id(r, i)] + IF i = n THEN 0 ELSE f[i + 1]]
  <2>1. /\ f \in [0 .. n -> Int] /\ f[n] = p.demand[0]
        /\ \A i \in 0 .. n - 1 : f[i] = D[<<f[i + 1], n - i>>]
    BY <1>7 DEF IteratesDown
  <2>2. \A i \in 0 .. n - 1 : i + 1 \in 0 .. n
    BY <1>1
  <2>3. \A i \in 0 .. n - 1 : f[i] = p.demand[Id(r, i)] + f[i + 1]
    BY <1>6, <2>1, <2>2 DEF step
  <2>4. \A i \in 0 .. n : i = n \/ i \in 0 .. n - 1
    BY <1>1
  <2>5. p.demand[Id(r, n)] + 0 = f[n]
    BY <1>1, <2>1
  <2>6. \A i \in 0 .. n - 1 : i # n
    BY <1>1
  <2>7. \A i \in 0 .. n : f[i] = p.demand[Id(r, i)] + IF i = n THEN 0 ELSE f[i + 1]
    BY <2>3, <2>4, <2>5, <2>6
  <2> QED
    BY <2>1, <2>7
<1>9. a = [i \in 0 .. n |-> p.demand[Id(r, i)] + IF i = n THEN 0 ELSE a[i + 1]]
  BY Zenon, <1>1, <1>8 DEF SuffixDemand
<1>10. /\ a = [i \in 0 .. n |-> a[i]] /\ a[n] = p.demand[0]
       /\ \A i \in 0 .. n - 1 : a[i] = step(a[i + 1], i)
  <2>1. \A i \in 0 .. n - 1 : i \in 0 .. n /\ i # n
    BY <1>1
  <2>2. n \in 0 .. n
    BY <1>1
  <2>3. a[n] = p.demand[Id(r, n)] + 0
    BY <1>9, <2>2
  <2>4. a[n] = p.demand[0]
    BY <1>1, <2>3
  <2>5. \A i \in 0 .. n - 1 : a[i] = p.demand[Id(r, i)] + a[i + 1]
    BY <1>9, <2>1
  <2> QED
    BY <1>9, <2>4, <2>5 DEF step
<1>11. IteratesDown(a, n, Int, p.demand[0], D)
  <2>1. \A i \in 0 .. n - 1 : a[i + 1] \in Int => a[i] = D[<<a[i + 1], n - i>>]
    BY <1>6, <1>10
  <2> QED
    BY <1>1, <1>6, <1>10, <2>1, IteratedDown
<1>12. a \in [0 .. n -> Int]
  BY <1>11 DEF IteratesDown
<1> QED
  BY <1>1, <1>10, <1>12 DEF n, step

\* Two routes have the same nodes up to the index m.
SameHead(q, r, m) ==
  /\ m \in Nat /\ m <= Len(q) + 1 /\ m <= Len(r) + 1
  /\ \A k \in 0 .. m : Id(q, k) = Id(r, k)

\* Values of prefixes depend on the nodes up to the index alone.
LEMMA HeadLocal ==
  ASSUME NEW p, NEW q, RouteOf(p, q), NEW r, RouteOf(p, r), NEW m, SameHead(q, r, m), NEW k \in 0 .. m
  PROVE  /\ Arrivals(p, q)[k] = Arrivals(p, r)[k]
         /\ PrefixLateness(p, q)[k] = PrefixLateness(p, r)[k]
         /\ PrefixDemand(p, q)[k] = PrefixDemand(p, r)[k]
<1> DEFINE T == {j \in 0 .. m : /\ Arrivals(p, q)[j] = Arrivals(p, r)[j]
                                /\ PrefixLateness(p, q)[j] = PrefixLateness(p, r)[j]
                                /\ PrefixDemand(p, q)[j] = PrefixDemand(p, r)[j]}
<1>1. m \in Nat /\ 0 \in 0 .. m
  BY DEF SameHead
<1>2. 0 \in T
  BY <1>1, ArrivalsSteps, PrefixLatenessSteps, PrefixDemandSteps
<1>3. ASSUME NEW j \in 1 .. m, j - 1 \in T PROVE j \in T
  <2>1. j \in 1 .. Len(q) + 1 /\ j \in 1 .. Len(r) + 1 /\ j \in 0 .. m /\ j - 1 \in 0 .. m
    <3>1. Len(q) \in Nat /\ Len(r) \in Nat
      BY NodeData
    <3> QED
      BY <3>1 DEF SameHead
  <2>2. Id(q, j) = Id(r, j) /\ Id(q, j - 1) = Id(r, j - 1)
    BY <2>1 DEF SameHead
  <2>3. Arrivals(p, q)[j - 1] = Arrivals(p, r)[j - 1]
    BY <1>3
  <2>4. ArrivalQuote(p, q, j) = ArrivalQuote(p, r, j)
    BY <2>2, <2>3 DEF ArrivalQuote
  <2>5. Arrivals(p, q)[j] = Arrivals(p, r)[j]
    <3>1. Arrivals(p, q)[j] = Clip(p, Id(q, j), Arrivals(p, q)[j - 1] + Leg(p, Id(q, j - 1), Id(q, j)))
      BY <2>1, ArrivalsSteps
    <3>2. Arrivals(p, r)[j] = Clip(p, Id(r, j), Arrivals(p, r)[j - 1] + Leg(p, Id(r, j - 1), Id(r, j)))
      BY <2>1, ArrivalsSteps
    <3> QED
      BY <2>2, <2>3, <3>1, <3>2
  <2>6. PrefixLateness(p, q)[j] = PrefixLateness(p, r)[j]
    <3>1. PrefixLateness(p, q)[j] =
            PrefixLateness(p, q)[j - 1] + MAX(0, ArrivalQuote(p, q, j) - p.l[Id(q, j)])
      BY <2>1, PrefixLatenessSteps
    <3>2. PrefixLateness(p, r)[j] =
            PrefixLateness(p, r)[j - 1] + MAX(0, ArrivalQuote(p, r, j) - p.l[Id(r, j)])
      BY <2>1, PrefixLatenessSteps
    <3>3. PrefixLateness(p, q)[j - 1] = PrefixLateness(p, r)[j - 1]
      BY <1>3
    <3> QED
      BY <2>2, <2>4, <3>1, <3>2, <3>3
  <2>7. PrefixDemand(p, q)[j] = PrefixDemand(p, r)[j]
    <3>1. PrefixDemand(p, q)[j] = p.demand[Id(q, j)] + PrefixDemand(p, q)[j - 1]
      BY <2>1, PrefixDemandSteps
    <3>2. PrefixDemand(p, r)[j] = p.demand[Id(r, j)] + PrefixDemand(p, r)[j - 1]
      BY <2>1, PrefixDemandSteps
    <3>3. PrefixDemand(p, q)[j - 1] = PrefixDemand(p, r)[j - 1]
      BY <1>3
    <3> QED
      BY <2>2, <3>1, <3>2, <3>3
  <2> QED
    BY <2>1, <2>5, <2>6, <2>7
<1>4. 0 .. m \subseteq T
  <2> HIDE DEF T
  <2> QED
    BY <1>1, <1>2, <1>3, UpTo
<1> QED
  BY <1>4

\* Two routes have the same nodes from the m-th before the tail on.
FromTail(q, k) == Len(q) + 1 - k

SameTail(q, r, m) ==
  /\ m \in Nat /\ m <= Len(q) + 1 /\ m <= Len(r) + 1
  /\ \A k \in 0 .. m : Id(q, FromTail(q, k)) = Id(r, FromTail(r, k))

\* Values of suffixes depend on the nodes from the index on alone.
LEMMA TailLocal ==
  ASSUME NEW p, NEW q, RouteOf(p, q), NEW r, RouteOf(p, r), NEW m, SameTail(q, r, m), NEW k \in 0 .. m
  PROVE  /\ LatestStarts(p, q)[FromTail(q, k)] = LatestStarts(p, r)[FromTail(r, k)]
         /\ SuffixLateness(p, q)[FromTail(q, k)] = SuffixLateness(p, r)[FromTail(r, k)]
         /\ SuffixDemand(p, q)[FromTail(q, k)] = SuffixDemand(p, r)[FromTail(r, k)]
<1> DEFINE T == {j \in 0 .. m :
                   /\ LatestStarts(p, q)[FromTail(q, j)] = LatestStarts(p, r)[FromTail(r, j)]
                   /\ SuffixLateness(p, q)[FromTail(q, j)] = SuffixLateness(p, r)[FromTail(r, j)]
                   /\ SuffixDemand(p, q)[FromTail(q, j)] = SuffixDemand(p, r)[FromTail(r, j)]}
<1>1. m \in Nat /\ 0 \in 0 .. m /\ Len(q) \in Nat /\ Len(r) \in Nat
  BY NodeData DEF SameTail
<1>2. 0 \in T
  <2>1. FromTail(q, 0) = Len(q) + 1 /\ FromTail(r, 0) = Len(r) + 1
    BY <1>1 DEF FromTail
  <2> QED
    BY <1>1, <2>1, LatestStartsSteps, SuffixLatenessSteps, SuffixDemandSteps
<1>3. ASSUME NEW j \in 1 .. m, j - 1 \in T PROVE j \in T
  <2>1. PICK x \in 0 .. Len(q) : x = FromTail(q, j) /\ x + 1 = FromTail(q, j - 1)
    BY <1>1 DEF SameTail, FromTail
  <2>2. PICK y \in 0 .. Len(r) : y = FromTail(r, j) /\ y + 1 = FromTail(r, j - 1)
    BY <1>1 DEF SameTail, FromTail
  <2>3. j \in 0 .. m /\ j - 1 \in 0 .. m
    BY <1>1
  <2>4. Id(q, x) = Id(r, y) /\ Id(q, x + 1) = Id(r, y + 1)
    BY <2>1, <2>2, <2>3 DEF SameTail
  <2>5. /\ LatestStarts(p, q)[x + 1] = LatestStarts(p, r)[y + 1]
        /\ SuffixLateness(p, q)[x + 1] = SuffixLateness(p, r)[y + 1]
        /\ SuffixDemand(p, q)[x + 1] = SuffixDemand(p, r)[y + 1]
    BY <1>3, <2>1, <2>2
  <2>6. LatestQuote(p, q, x) = LatestQuote(p, r, y)
    BY <2>4, <2>5 DEF LatestQuote
  <2>7. LatestStarts(p, q)[x] = LatestStarts(p, r)[y]
    <3>1. LatestStarts(p, q)[x] = Clip(p, Id(q, x), LatestQuote(p, q, x))
      BY LatestStartsSteps DEF LatestQuote
    <3>2. LatestStarts(p, r)[y] = Clip(p, Id(r, y), LatestQuote(p, r, y))
      BY LatestStartsSteps DEF LatestQuote
    <3> QED
      BY <2>4, <2>6, <3>1, <3>2
  <2>8. SuffixLateness(p, q)[x] = SuffixLateness(p, r)[y]
    <3>1. SuffixLateness(p, q)[x] =
            SuffixLateness(p, q)[x + 1] + MAX(0, p.e[Id(q, x)] - LatestQuote(p, q, x))
      BY SuffixLatenessSteps
    <3>2. SuffixLateness(p, r)[y] =
            SuffixLateness(p, r)[y + 1] + MAX(0, p.e[Id(r, y)] - LatestQuote(p, r, y))
      BY SuffixLatenessSteps
    <3> QED
      BY <2>4, <2>5, <2>6, <3>1, <3>2
  <2>9. SuffixDemand(p, q)[x] = SuffixDemand(p, r)[y]
    <3>1. SuffixDemand(p, q)[x] = p.demand[Id(q, x)] + SuffixDemand(p, q)[x + 1]
      BY SuffixDemandSteps
    <3>2. SuffixDemand(p, r)[y] = p.demand[Id(r, y)] + SuffixDemand(p, r)[y + 1]
      BY SuffixDemandSteps
    <3> QED
      BY <2>4, <2>5, <3>1, <3>2
  <2> QED
    BY <2>1, <2>2, <2>3, <2>7, <2>8, <2>9
<1>4. 0 .. m \subseteq T
  <2> HIDE DEF T
  <2> QED
    BY <1>1, <1>2, <1>3, UpTo
<1> QED
  BY <1>4
-----------------------------------------------------------------------------
(***************************************************************************)
(* Routes of objects, and the values cached along one.                     *)
(***************************************************************************)
IdsOf(r) == SubSeq(r, 2, last(r))

ObjectRoute(r) ==
  /\ r \in Seq(Object) /\ Len(r) >= 2
  /\ r[1] \notin Customer /\ r[Len(r)] \notin Customer
  /\ \A k \in 2 .. Len(r) - 1 : r[k] \in Customer
  /\ \A j, k \in 1 .. Len(r) : r[j] = r[k] => j = k

\* The values of one direction at the index k are those of a computation anew.
Forward(r, d, k) ==
  /\ d[r[k + 1]].a = Arrivals(problem, IdsOf(r))[k]
  /\ d[r[k + 1]].tw_pf = PrefixLateness(problem, IdsOf(r))[k]
  /\ d[r[k + 1]].demand_pf = PrefixDemand(problem, IdsOf(r))[k]

Backward(r, d, k) ==
  /\ d[r[k + 1]].z = LatestStarts(problem, IdsOf(r))[k]
  /\ d[r[k + 1]].tw_sf = SuffixLateness(problem, IdsOf(r))[k]
  /\ d[r[k + 1]].demand_sf = SuffixDemand(problem, IdsOf(r))[k]

\* Those of the indexes before f forward, those of the indexes behind b backward.
Cached(r, d, f, b) ==
  \A k \in 0 .. last(r) : (k < f => Forward(r, d, k)) /\ (k > b => Backward(r, d, k))

\* The ids of a route of objects are a route of customers.
LEMMA RouteIds ==
  ASSUME Instance(problem), NEW r, ObjectRoute(r)
  PROVE  /\ RouteOf(problem, IdsOf(r))
         /\ Len(IdsOf(r)) = Len(r) - 2 /\ Len(r) \in Nat /\ last(r) = Len(IdsOf(r)) + 1
         /\ \A k \in 0 .. last(r) : Id(IdsOf(r), k) = id(r[k + 1])
         /\ \A k \in 1 .. last(r) - 1 : IdsOf(r)[k] = r[k + 1]
<1>1. PICK n \in Nat : n = Len(r) /\ n >= 2
  BY DEF ObjectRoute
<1>2. last(r) = n - 1 /\ n - 1 \in Int
  BY <1>1 DEF last
<1>3. \A k \in 2 .. n - 1 : r[k] \in Customer
  BY <1>1 DEF ObjectRoute
<1>4. PICK q : q = SubSeq(r, 2, n - 1)
  OBVIOUS
<1>5. q \in Seq(Customer) /\ Len(q) = n - 2 /\ \A k \in 1 .. n - 2 : q[k] = r[k + 1]
  <2>1. /\ SubSeq(r, 2, n - 1) \in Seq(Customer)
        /\ Len(SubSeq(r, 2, n - 1)) = IF 2 <= n - 1 THEN n - 1 - 2 + 1 ELSE 0
        /\ \A k \in 1 .. n - 1 - 2 + 1 : SubSeq(r, 2, n - 1)[k] = r[2 + k - 1]
    BY <1>2, <1>3, SubSeqProperties
  <2>2. n - 1 - 2 + 1 = n - 2 /\ \A k \in 1 .. n - 2 : 2 + k - 1 = k + 1
    BY <1>1
  <2> QED
    BY <1>1, <1>4, <2>1, <2>2
<1>6. IdsOf(r) = q
  BY <1>2, <1>4 DEF IdsOf
<1>7. RouteOf(problem, q)
  BY <1>5 DEF RouteOf, Customer
<1>8. ASSUME NEW k \in 0 .. n - 1 PROVE Id(q, k) = id(r[k + 1])
  <2>1. CASE k = 0
    <3>1. Id(q, k) = 0
      BY <1>5, <2>1 DEF Id
    <3>2. r[k + 1] \notin Customer
      BY <2>1 DEF ObjectRoute
    <3> QED
      BY <3>1, <3>2 DEF id
  <2>2. CASE k = n - 1
    <3>1. Id(q, k) = 0
      BY <1>1, <1>5, <2>2 DEF Id
    <3>2. r[k + 1] \notin Customer
      BY <1>1, <2>2 DEF ObjectRoute
    <3> QED
      BY <3>1, <3>2 DEF id
  <2>3. CASE k \in 1 .. n - 2
    <3>1. k + 1 \in 2 .. n - 1 /\ Id(q, k) = r[k + 1]
      BY <1>1, <1>5, <2>3 DEF Id
    <3>2. r[k + 1] \in Customer
      BY <1>3, <3>1
    <3> QED
      BY <3>1, <3>2 DEF id
  <2> QED
    BY <1>1, <2>1, <2>2, <2>3
<1> QED
  BY <1>1, <1>2, <1>5, <1>6, <1>7, <1>8

\* Functions on indexes that go on alike are the same.
OnIndexes(f, n) == f = [i \in 0 .. n |-> f[i]]

\* Two functions with one recursion upwards are the same.
LEMMA SameUp ==
  ASSUME NEW n \in Nat, NEW f, OnIndexes(f, n), NEW g, OnIndexes(g, n), f[0] = g[0],
         \A i \in 1 .. n : f[i - 1] = g[i - 1] => f[i] = g[i]
  PROVE  f = g
<1> DEFINE T == {i \in 0 .. n : f[i] = g[i]}
<1>1. 0 .. n \subseteq T
  <2>1. 0 \in T
    OBVIOUS
  <2>2. \A k \in 1 .. n : k - 1 \in T => k \in T
    OBVIOUS
  <2> HIDE DEF T
  <2> QED
    BY <2>1, <2>2, UpTo
<1>2. \A i \in 0 .. n : f[i] = g[i]
  BY <1>1
<1>3. [i \in 0 .. n |-> f[i]] = [i \in 0 .. n |-> g[i]]
  BY <1>2
<1> QED
  BY <1>3 DEF OnIndexes

\* Two functions with one recursion downwards are the same.
LEMMA SameDown ==
  ASSUME NEW n \in Nat, NEW f, OnIndexes(f, n), NEW g, OnIndexes(g, n), f[n] = g[n],
         \A i \in 0 .. n - 1 : f[i + 1] = g[i + 1] => f[i] = g[i]
  PROVE  f = g
<1> DEFINE T == {i \in 0 .. n : f[i] = g[i]}
<1>1. 0 .. n \subseteq T
  <2>1. n \in T
    OBVIOUS
  <2>2. \A k \in 0 .. n - 1 : k + 1 \in T => k \in T
    OBVIOUS
  <2> HIDE DEF T
  <2> QED
    BY <2>1, <2>2, DownTo
<1>2. \A i \in 0 .. n : f[i] = g[i]
  BY <1>1
<1>3. [i \in 0 .. n |-> f[i]] = [i \in 0 .. n |-> g[i]]
  BY <1>2
<1> QED
  BY <1>3 DEF OnIndexes

\* c_penalty_update_forward from the index f gives what a computation anew would, if
\* the values before f are exact.
LEMMA ForwardDemand ==
  ASSUME Instance(problem), NEW r, ObjectRoute(r), NEW d, NEW f \in Int, NEW b, Cached(r, d, f, b)
  PROVE  c_penalty_update_forward(r, d, f) = PrefixDemand(problem, IdsOf(r))
<1>1. PICK n \in Nat : n = last(r) /\ n >= 1
  <2>1. Len(r) \in Nat /\ Len(r) >= 2
    BY DEF ObjectRoute
  <2> QED
    BY <2>1 DEF last
<1>2. PICK q : q = IdsOf(r)
  OBVIOUS
<1>3. RouteOf(problem, q) /\ n = Len(q) + 1 /\ \A k \in 0 .. n : Id(q, k) = id(r[k + 1])
  BY <1>1, <1>2, RouteIds
<1>4. PICK A : A = PrefixDemand(problem, q)
  OBVIOUS
<1>5. /\ A \in [0 .. n -> Int] /\ A[0] = problem.demand[0]
      /\ \A i \in 1 .. n : A[i] = problem.demand[Id(q, i)] + A[i - 1]
  BY <1>3, <1>4, PrefixDemandSteps
<1>6. /\ demand(r[1]) = A[0]
      /\ \A i \in 1 .. n : A[i] = A[i - 1] + demand(r[i + 1])
  <2>1. demand(r[1]) = A[0]
    BY <1>5 DEF demand, id, ObjectRoute
  <2>2. ASSUME NEW i \in 1 .. n PROVE A[i] = A[i - 1] + demand(r[i + 1])
    <3>1. i \in 0 .. n /\ i - 1 \in 0 .. n
      OBVIOUS
    <3>2. demand(r[i + 1]) = problem.demand[Id(q, i)]
      BY <1>3, <3>1 DEF demand
    <3>3. Id(q, i) \in 0 .. problem.n
      BY <1>3, <3>1, RouteLegs
    <3>4. problem.demand[Id(q, i)] \in Int /\ A[i - 1] \in Int
      BY <1>3, <1>5, <3>1, <3>3, NodeData
    <3> QED
      BY <1>5, <3>2, <3>4
  <2> QED
    BY <2>1, <2>2
<1>7. \A i \in 0 .. n : i < f => d[r[i + 1]].demand_pf = A[i]
  BY <1>1, <1>2, <1>4 DEF Cached, Forward
<1>8. A = [i \in 0 .. n |->
             CASE i < f -> d[r[i + 1]].demand_pf
               [] i >= f /\ i = 0 -> demand(r[1])
               [] OTHER -> A[i - 1] + demand(r[i + 1])]
  <2>1. ASSUME NEW i \in 0 .. n
        PROVE  A[i] = CASE i < f -> d[r[i + 1]].demand_pf
                        [] i >= f /\ i = 0 -> demand(r[1])
                        [] OTHER -> A[i - 1] + demand(r[i + 1])
    <3>1. CASE i < f
      BY <1>7, <3>1
    <3>2. CASE i >= f /\ i = 0
      BY <1>6, <3>2
    <3>3. CASE i >= f /\ i # 0
      <4>1. i \in 1 .. n
        BY <3>3
      <4>2. ~(i < f) /\ ~(i >= f /\ i = 0)
        BY <3>3
      <4>3. A[i] = A[i - 1] + demand(r[i + 1])
        BY <1>6, <4>1
      <4> QED
        BY <4>2, <4>3
    <3> QED
      BY <3>1, <3>2, <3>3
  <2> QED
    BY <1>5, <2>1
<1>9. PICK F : F = c_penalty_update_forward(r, d, f)
  OBVIOUS
<1>10. F = [i \in 0 .. n |->
              CASE i < f -> d[r[i + 1]].demand_pf
                [] i >= f /\ i = 0 -> demand(r[1])
                [] OTHER -> F[i - 1] + demand(r[i + 1])]
  <2>1. A = [i \in 0 .. last(r) |->
              CASE i < f -> d[r[i + 1]].demand_pf
                [] i >= f /\ i = 0 -> demand(r[1])
                [] OTHER -> A[i - 1] + demand(r[i + 1])]
    BY <1>1, <1>8
  <2>2. F = [i \in 0 .. last(r) |->
              CASE i < f -> d[r[i + 1]].demand_pf
                [] i >= f /\ i = 0 -> demand(r[1])
                [] OTHER -> F[i - 1] + demand(r[i + 1])]
    BY <2>1, <1>9 DEF c_penalty_update_forward
  <2> QED
    BY <1>1, <2>2
<1>11. OnIndexes(F, n) /\ OnIndexes(A, n)
  BY <1>5, <1>10 DEF OnIndexes
<1>12. F[0] = A[0]
  <2>1. 0 \in 0 .. n
    OBVIOUS
  <2> QED
    BY <1>8, <1>10, <2>1
<1>13. ASSUME NEW i \in 1 .. n, F[i - 1] = A[i - 1] PROVE F[i] = A[i]
  <2>1. i \in 0 .. n
    OBVIOUS
  <2> QED
    BY <1>8, <1>10, <1>13, <2>1
<1>14. F = A
  BY <1>11, <1>12, <1>13, SameUp
<1> QED
  BY <1>2, <1>4, <1>9, <1>14

\* What the four updates of one direction have in common.
LEMMA RouteValues ==
  ASSUME Instance(problem), NEW r, ObjectRoute(r)
  PROVE  /\ last(r) \in Nat /\ last(r) >= 1 /\ last(r) = Len(IdsOf(r)) + 1
         /\ RouteOf(problem, IdsOf(r))
         /\ id(r[1]) = 0 /\ id(r[last(r) + 1]) = 0
         /\ \A i \in 0 .. last(r) : /\ Id(IdsOf(r), i) = id(r[i + 1])
                                    /\ e(r[i + 1]) \in Int /\ l(r[i + 1]) \in Int
                                    /\ demand(r[i + 1]) \in Int
<1>1. Len(r) \in Nat /\ Len(r) >= 2 /\ last(r) = Len(r) - 1
  BY DEF ObjectRoute, last
<1>2. RouteOf(problem, IdsOf(r)) /\ \A i \in 0 .. last(r) : Id(IdsOf(r), i) = id(r[i + 1])
  BY RouteIds
<1>3. last(r) = Len(IdsOf(r)) + 1
  BY RouteIds
<1>4. \A i \in 0 .. last(r) : id(r[i + 1]) \in 0 .. problem.n
  <2>1. \A i \in 0 .. last(r) : i \in Int
    BY <1>1
  <2>2. \A i \in Int : Id(IdsOf(r), i) \in 0 .. problem.n
    BY <1>2, NodeData
  <2> QED
    BY <1>2, <2>1, <2>2
<1>5. \A c \in 0 .. problem.n :
        problem.e[c] \in Int /\ problem.l[c] \in Int /\ problem.demand[c] \in Int
  BY <1>2, NodeData
<1>6. \A i \in 0 .. last(r) :
        e(r[i + 1]) \in Int /\ l(r[i + 1]) \in Int /\ demand(r[i + 1]) \in Int
  BY <1>4, <1>5 DEF e, l, demand
<1>7. id(r[1]) = 0 /\ id(r[last(r) + 1]) = 0
  <2>1. r[1] \notin Customer /\ r[last(r) + 1] \notin Customer
    BY <1>1 DEF ObjectRoute
  <2> QED
    BY <2>1 DEF id
<1> QED
  BY <1>1, <1>2, <1>3, <1>6, <1>7

\* c_penalty_update_backward, likewise.
LEMMA BackwardDemand ==
  ASSUME Instance(problem), NEW r, ObjectRoute(r), NEW d, NEW f, NEW b \in Int, Cached(r, d, f, b)
  PROVE  c_penalty_update_backward(r, d, b) = SuffixDemand(problem, IdsOf(r))
<1>1. PICK n \in Nat : n = last(r) /\ n >= 1
  BY RouteValues
<1>2. PICK q : q = IdsOf(r)
  OBVIOUS
<1>3. RouteOf(problem, q) /\ n = Len(q) + 1 /\ \A k \in 0 .. n : Id(q, k) = id(r[k + 1])
  BY <1>1, <1>2, RouteValues
<1>4. PICK A : A = SuffixDemand(problem, q)
  OBVIOUS
<1>5. /\ A \in [0 .. n -> Int] /\ A[n] = problem.demand[0]
      /\ \A i \in 0 .. n - 1 : A[i] = problem.demand[Id(q, i)] + A[i + 1]
  <2>1. /\ A \in [0 .. Len(q) + 1 -> Int] /\ A[Len(q) + 1] = problem.demand[0]
        /\ \A i \in 0 .. Len(q) : A[i] = problem.demand[Id(q, i)] + A[i + 1]
    BY <1>3, <1>4, SuffixDemandSteps
  <2>2. Len(q) = n - 1
    <3>1. Len(q) \in Nat
      BY <1>3, NodeData
    <3> QED
      BY <1>3, <3>1
  <2> QED
    BY <1>3, <2>1, <2>2
<1>6. /\ demand(r[n + 1]) = A[n]
      /\ \A i \in 0 .. n - 1 : A[i] = A[i + 1] + demand(r[i + 1])
  <2>1. demand(r[n + 1]) = A[n]
    BY <1>1, <1>5, RouteValues DEF demand
  <2>2. ASSUME NEW i \in 0 .. n - 1 PROVE A[i] = A[i + 1] + demand(r[i + 1])
    <3>1. i \in 0 .. n /\ i + 1 \in 0 .. n
      OBVIOUS
    <3>2. demand(r[i + 1]) = problem.demand[Id(q, i)]
      BY <1>3, <3>1 DEF demand
    <3>3. demand(r[i + 1]) \in Int /\ A[i + 1] \in Int
      BY <1>1, <1>5, <3>1, RouteValues
    <3> QED
      BY <1>5, <3>2, <3>3
  <2> QED
    BY <2>1, <2>2
<1>7. \A i \in 0 .. n : i > b => d[r[i + 1]].demand_sf = A[i]
  BY <1>1, <1>2, <1>4 DEF Cached, Backward
<1>8. A = [i \in 0 .. n |->
             CASE i > b -> d[r[i + 1]].demand_sf
               [] i <= b /\ i = n -> demand(r[i + 1])
               [] OTHER -> A[i + 1] + demand(r[i + 1])]
  <2>1. ASSUME NEW i \in 0 .. n
        PROVE  A[i] = CASE i > b -> d[r[i + 1]].demand_sf
                        [] i <= b /\ i = n -> demand(r[i + 1])
                        [] OTHER -> A[i + 1] + demand(r[i + 1])
    <3>1. CASE i > b
      BY <1>7, <3>1
    <3>2. CASE i <= b /\ i = n
      BY <1>6, <3>2
    <3>3. CASE i <= b /\ i # n
      <4>1. i \in 0 .. n - 1
        BY <3>3
      <4>2. ~(i > b) /\ ~(i <= b /\ i = n)
        BY <3>3
      <4>3. A[i] = A[i + 1] + demand(r[i + 1])
        BY <1>6, <4>1
      <4> QED
        BY <4>2, <4>3
    <3> QED
      BY <3>1, <3>2, <3>3
  <2> QED
    BY <1>5, <2>1
<1>9. PICK F : F = c_penalty_update_backward(r, d, b)
  OBVIOUS
<1>10. F = [i \in 0 .. n |->
              CASE i > b -> d[r[i + 1]].demand_sf
                [] i <= b /\ i = n -> demand(r[i + 1])
                [] OTHER -> F[i + 1] + demand(r[i + 1])]
  <2>1. A = [i \in 0 .. last(r) |->
              CASE i > b -> d[r[i + 1]].demand_sf
                [] i <= b /\ i = last(r) -> demand(r[i + 1])
                [] OTHER -> A[i + 1] + demand(r[i + 1])]
    BY <1>1, <1>8
  <2>2. F = [i \in 0 .. last(r) |->
              CASE i > b -> d[r[i + 1]].demand_sf
                [] i <= b /\ i = last(r) -> demand(r[i + 1])
                [] OTHER -> F[i + 1] + demand(r[i + 1])]
    BY <2>1, <1>9 DEF c_penalty_update_backward
  <2> QED
    BY <1>1, <2>2
<1>11. OnIndexes(F, n) /\ OnIndexes(A, n)
  BY <1>5, <1>10 DEF OnIndexes
<1>12. F[n] = A[n]
  <2>1. n \in 0 .. n /\ (n > b \/ n <= b)
    OBVIOUS
  <2> QED
    BY <1>8, <1>10, <2>1
<1>13. ASSUME NEW i \in 0 .. n - 1, F[i + 1] = A[i + 1] PROVE F[i] = A[i]
  <2>1. i \in 0 .. n
    OBVIOUS
  <2> QED
    BY <1>8, <1>10, <1>13, <2>1
<1>14. F = A
  BY <1>11, <1>12, <1>13, SameDown
<1> QED
  BY <1>2, <1>4, <1>9, <1>14

\* tw_penalty_update_forward, likewise: first the arrivals, then the lateness they cause.
LEMMA ForwardTimes ==
  ASSUME Instance(problem), NEW r, ObjectRoute(r), NEW d, NEW f \in Int, NEW b, Cached(r, d, f, b)
  PROVE  /\ tw_penalty_update_forward(r, d, f).a = Arrivals(problem, IdsOf(r))
         /\ tw_penalty_update_forward(r, d, f).tw_pf = PrefixLateness(problem, IdsOf(r))
<1>1. PICK n \in Nat : n = last(r) /\ n >= 1
  BY RouteValues
<1>2. PICK q : q = IdsOf(r)
  OBVIOUS
<1>3. RouteOf(problem, q) /\ n = Len(q) + 1 /\ \A k \in 0 .. n : Id(q, k) = id(r[k + 1])
  BY <1>1, <1>2, RouteValues
<1>4. PICK A : A = Arrivals(problem, q)
  OBVIOUS
<1>5. PICK P : P = PrefixLateness(problem, q)
  OBVIOUS
<1>6. ASSUME NEW i \in 1 .. n
      PROVE  /\ A[i] = Clip(problem, id(r[i + 1]), A[i - 1] + leg(r[i], r[i + 1]))
             /\ P[i] = P[i - 1] + MAX(0, A[i - 1] + leg(r[i], r[i + 1]) - l(r[i + 1]))
  <2>1. i \in 1 .. Len(q) + 1 /\ i \in 0 .. n /\ i - 1 \in 0 .. n /\ i - 1 + 1 = i
    BY <1>3
  <2>2. Id(q, i) = id(r[i + 1]) /\ Id(q, i - 1) = id(r[i])
    BY <1>3, <2>1
  <2>3. /\ A[i] = Clip(problem, Id(q, i), A[i - 1] + Leg(problem, Id(q, i - 1), Id(q, i)))
        /\ P[i] = P[i - 1] + MAX(0, ArrivalQuote(problem, q, i) - problem.l[Id(q, i)])
    BY <1>3, <1>4, <1>5, <2>1, ArrivalsSteps, PrefixLatenessSteps
  <2>4. ArrivalQuote(problem, q, i) = A[i - 1] + leg(r[i], r[i + 1])
    BY <1>4, <2>2 DEF ArrivalQuote, leg
  <2>5. Leg(problem, Id(q, i - 1), Id(q, i)) = leg(r[i], r[i + 1])
    BY <2>2 DEF leg
  <2>6. problem.l[Id(q, i)] = l(r[i + 1])
    BY <2>2 DEF l
  <2>7. P[i] = P[i - 1] + MAX(0, A[i - 1] + leg(r[i], r[i + 1]) - l(r[i + 1]))
    <3>1. PICK t \in Int : t = A[i - 1]
      BY <1>3, <1>4, <2>1, ArrivalsSteps
    <3>2. PICK y \in Int : y = l(r[i + 1])
      BY <1>1, <2>1, RouteValues
    <3>3. PICK g \in Int : g = leg(r[i], r[i + 1])
      BY <1>3, <2>1, <2>5, RouteLegs
    <3>4. ArrivalQuote(problem, q, i) = t + g
      BY <2>4, <3>1, <3>3, Zenon
    <3>5. P[i] = P[i - 1] + MAX(0, (t + g) - y)
      BY <2>3, <2>6, <3>2, <3>4
    <3>6. (t + g) - y = t + g - y
      OBVIOUS
    <3>7. P[i] = P[i - 1] + MAX(0, t + g - y)
      BY <3>5, <3>6, Zenon
    <3> QED
      BY <3>1, <3>2, <3>3, <3>7, Zenon
  <2>8. A[i] = Clip(problem, id(r[i + 1]), A[i - 1] + leg(r[i], r[i + 1]))
    BY <2>2, <2>3, <2>5
  <2> QED
    BY <2>7, <2>8
<1>7. /\ A \in [0 .. n -> Int] /\ A[0] = e(r[1])
      /\ P \in [0 .. n -> Nat] /\ P[0] = 0
  <2>1. e(r[1]) = problem.e[0]
    BY RouteValues DEF e
  <2> QED
    BY <1>3, <1>4, <1>5, <2>1, ArrivalsSteps, PrefixLatenessSteps
<1>8. \A i \in 0 .. n : i < f => d[r[i + 1]].a = A[i] /\ d[r[i + 1]].tw_pf = P[i]
  BY <1>1, <1>2, <1>4, <1>5 DEF Cached, Forward
<1>9. A = [i \in 0 .. last(r) |->
             CASE i < f -> d[r[i + 1]].a
               [] i >= f /\ i = 0 -> e(r[1])
               [] OTHER -> Clip(problem, id(r[i + 1]), A[i - 1] + leg(r[i], r[i + 1]))]
  <2>1. ASSUME NEW i \in 0 .. n
        PROVE  A[i] = CASE i < f -> d[r[i + 1]].a
                        [] i >= f /\ i = 0 -> e(r[1])
                        [] OTHER -> Clip(problem, id(r[i + 1]), A[i - 1] + leg(r[i], r[i + 1]))
    <3>1. CASE i < f
      BY <1>8, <3>1
    <3>2. CASE i >= f /\ i = 0
      BY <1>7, <3>2
    <3>3. CASE i >= f /\ i # 0
      <4>1. i \in 1 .. n
        BY <3>3
      <4>2. ~(i < f) /\ ~(i >= f /\ i = 0)
        BY <3>3
      <4>3. A[i] = Clip(problem, id(r[i + 1]), A[i - 1] + leg(r[i], r[i + 1]))
        BY <1>6, <4>1
      <4> QED
        BY <4>2, <4>3
    <3> QED
      BY <3>1, <3>2, <3>3
  <2> QED
    BY <1>1, <1>7, <2>1
<1>10. PICK F : F = updated_a(r, d, f)
  OBVIOUS
<1>11. F = [i \in 0 .. last(r) |->
              CASE i < f -> d[r[i + 1]].a
                [] i >= f /\ i = 0 -> e(r[1])
                [] OTHER -> Clip(problem, id(r[i + 1]), F[i - 1] + leg(r[i], r[i + 1]))]
  BY Zenon, <1>9, <1>10 DEF updated_a
<1>12. F = A
  <2>1. OnIndexes(F, n) /\ OnIndexes(A, n)
    BY <1>1, <1>7, <1>11 DEF OnIndexes
  <2>2. F[0] = A[0]
    <3>1. 0 \in 0 .. last(r)
      BY <1>1
    <3> QED
      BY <1>9, <1>11, <3>1
  <2>3. ASSUME NEW i \in 1 .. n, F[i - 1] = A[i - 1] PROVE F[i] = A[i]
    <3>1. i \in 0 .. last(r)
      BY <1>1
    <3> QED
      BY Zenon, <1>9, <1>11, <2>3, <3>1
  <2> QED
    BY <2>1, <2>2, <2>3, SameUp
<1>13. P = [i \in 0 .. last(r) |->
              CASE i < f -> d[r[i + 1]].tw_pf
                [] i >= f /\ i = 0 -> 0
                [] OTHER -> P[i - 1] + MAX(0, F[i - 1] + leg(r[i], r[i + 1]) - l(r[i + 1]))]
  <2>1. ASSUME NEW i \in 0 .. n
        PROVE  P[i] = CASE i < f -> d[r[i + 1]].tw_pf
                        [] i >= f /\ i = 0 -> 0
                        [] OTHER -> P[i - 1] + MAX(0, F[i - 1] + leg(r[i], r[i + 1]) - l(r[i + 1]))
    <3>1. CASE i < f
      BY <1>8, <3>1
    <3>2. CASE i >= f /\ i = 0
      BY <1>7, <3>2
    <3>3. CASE i >= f /\ i # 0
      <4>1. i \in 1 .. n
        BY <3>3
      <4>2. ~(i < f) /\ ~(i >= f /\ i = 0)
        BY <3>3
      <4>3. P[i] = P[i - 1] + MAX(0, F[i - 1] + leg(r[i], r[i + 1]) - l(r[i + 1]))
        BY <1>6, <1>12, <4>1
      <4> QED
        BY <4>2, <4>3
    <3> QED
      BY <3>1, <3>2, <3>3
  <2> QED
    BY <1>1, <1>7, <2>1
<1>14. PICK G : G = updated_tw_pf(r, d, f, F)
  OBVIOUS
<1>15. G = [i \in 0 .. last(r) |->
              CASE i < f -> d[r[i + 1]].tw_pf
                [] i >= f /\ i = 0 -> 0
                [] OTHER -> G[i - 1] + MAX(0, F[i - 1] + leg(r[i], r[i + 1]) - l(r[i + 1]))]
  BY Zenon, <1>13, <1>14 DEF updated_tw_pf
<1>16. G = P
  <2>1. OnIndexes(G, n) /\ OnIndexes(P, n)
    BY <1>1, <1>7, <1>15 DEF OnIndexes
  <2>2. G[0] = P[0]
    <3>1. 0 \in 0 .. last(r)
      BY <1>1
    <3> QED
      BY <1>13, <1>15, <3>1
  <2>3. ASSUME NEW i \in 1 .. n, G[i - 1] = P[i - 1] PROVE G[i] = P[i]
    <3>1. i \in 0 .. last(r)
      BY <1>1
    <3> QED
      BY Zenon, <1>13, <1>15, <2>3, <3>1
  <2> QED
    BY <2>1, <2>2, <2>3, SameUp
<1> QED
  BY <1>2, <1>4, <1>5, <1>10, <1>12, <1>14, <1>16 DEF tw_penalty_update_forward

\* tw_penalty_update_backward, likewise: the latest starts, then the lateness they mean.
LEMMA BackwardTimes ==
  ASSUME Instance(problem), NEW r, ObjectRoute(r), NEW d, NEW f, NEW b \in Int, Cached(r, d, f, b)
  PROVE  /\ tw_penalty_update_backward(r, d, b).z = LatestStarts(problem, IdsOf(r))
         /\ tw_penalty_update_backward(r, d, b).tw_sf = SuffixLateness(problem, IdsOf(r))
<1>1. PICK n \in Nat : n = last(r) /\ n >= 1
  BY RouteValues
<1>2. PICK q : q = IdsOf(r)
  OBVIOUS
<1>3. RouteOf(problem, q) /\ n = Len(q) + 1 /\ \A k \in 0 .. n : Id(q, k) = id(r[k + 1])
  BY <1>1, <1>2, RouteValues
<1>4. PICK A : A = LatestStarts(problem, q)
  OBVIOUS
<1>5. PICK P : P = SuffixLateness(problem, q)
  OBVIOUS
<1>6. Len(q) + 1 = n /\ 0 .. Len(q) = 0 .. n - 1
  <2>1. Len(q) \in Nat
    BY <1>3, NodeData
  <2> QED
    BY <1>3, <2>1
<1>7. ASSUME NEW i \in 0 .. n - 1
      PROVE  /\ A[i] = Clip(problem, id(r[i + 1]), A[i + 1] - leg(r[i + 1], r[i + 2]))
             /\ P[i] = P[i + 1] + MAX(0, e(r[i + 1]) - (A[i + 1] - leg(r[i + 1], r[i + 2])))
  <2>1. i \in 0 .. Len(q) /\ i \in 0 .. n /\ i + 1 \in 0 .. n /\ i + 1 + 1 = i + 2
    BY <1>6
  <2>2. Id(q, i) = id(r[i + 1]) /\ Id(q, i + 1) = id(r[i + 2])
    BY <1>3, <2>1
  <2>3. /\ A[i] = Clip(problem, Id(q, i), A[i + 1] - Leg(problem, Id(q, i), Id(q, i + 1)))
        /\ P[i] = P[i + 1] + MAX(0, problem.e[Id(q, i)] - LatestQuote(problem, q, i))
    BY <1>3, <1>4, <1>5, <2>1, LatestStartsSteps, SuffixLatenessSteps
  <2>4. LatestQuote(problem, q, i) = A[i + 1] - leg(r[i + 1], r[i + 2])
    BY <1>4, <2>2 DEF LatestQuote, leg
  <2>5. Leg(problem, Id(q, i), Id(q, i + 1)) = leg(r[i + 1], r[i + 2])
    BY <2>2 DEF leg
  <2>6. problem.e[Id(q, i)] = e(r[i + 1])
    BY <2>2 DEF e
  <2>7. P[i] = P[i + 1] + MAX(0, e(r[i + 1]) - (A[i + 1] - leg(r[i + 1], r[i + 2])))
    <3>1. PICK x : x = LatestQuote(problem, q, i)
      OBVIOUS
    <3>2. PICK y : y = e(r[i + 1])
      OBVIOUS
    <3>3. P[i] = P[i + 1] + MAX(0, y - x)
      BY <2>3, <2>6, <3>1, <3>2
    <3>4. A[i + 1] - leg(r[i + 1], r[i + 2]) = x
      BY <2>4, <3>1
    <3> QED
      BY <3>2, <3>3, <3>4
  <2>8. A[i] = Clip(problem, id(r[i + 1]), A[i + 1] - leg(r[i + 1], r[i + 2]))
    BY <2>2, <2>3, <2>5
  <2> QED
    BY <2>7, <2>8
<1>8. /\ A \in [0 .. n -> Int] /\ A[n] = problem.l[0]
      /\ P \in [0 .. n -> Nat] /\ P[n] = 0
  <2>1. /\ A \in [0 .. Len(q) + 1 -> Int] /\ A[Len(q) + 1] = problem.l[0]
        /\ P \in [0 .. Len(q) + 1 -> Nat] /\ P[Len(q) + 1] = 0
    BY <1>3, <1>4, <1>5, LatestStartsSteps, SuffixLatenessSteps
  <2> QED
    BY <1>3, <2>1
<1>9. \A i \in 0 .. n : i > b => d[r[i + 1]].z = A[i] /\ d[r[i + 1]].tw_sf = P[i]
  BY <1>1, <1>2, <1>4, <1>5 DEF Cached, Backward
<1>10. A = [i \in 0 .. last(r) |->
              CASE i > b -> d[r[i + 1]].z
                [] i <= b /\ i = last(r) -> problem.l[0]
                [] OTHER -> Clip(problem, id(r[i + 1]), A[i + 1] - leg(r[i + 1], r[i + 2]))]
  <2>1. ASSUME NEW i \in 0 .. n
        PROVE  A[i] = CASE i > b -> d[r[i + 1]].z
                        [] i <= b /\ i = n -> problem.l[0]
                        [] OTHER -> Clip(problem, id(r[i + 1]), A[i + 1] - leg(r[i + 1], r[i + 2]))
    <3>1. CASE i > b
      BY <1>9, <3>1
    <3>2. CASE i <= b /\ i = n
      BY <1>8, <3>2
    <3>3. CASE i <= b /\ i # n
      <4>1. i \in 0 .. n - 1
        BY <3>3
      <4>2. ~(i > b) /\ ~(i <= b /\ i = n)
        BY <3>3
      <4>3. A[i] = Clip(problem, id(r[i + 1]), A[i + 1] - leg(r[i + 1], r[i + 2]))
        BY <1>7, <4>1
      <4> QED
        BY <4>2, <4>3
    <3> QED
      BY <3>1, <3>2, <3>3
  <2> QED
    BY <1>1, <1>8, <2>1
<1>11. PICK F : F = updated_z(r, d, b)
  OBVIOUS
<1>12. F = [i \in 0 .. last(r) |->
              CASE i > b -> d[r[i + 1]].z
                [] i <= b /\ i = last(r) -> problem.l[0]
                [] OTHER -> Clip(problem, id(r[i + 1]), F[i + 1] - leg(r[i + 1], r[i + 2]))]
  BY Zenon, <1>10, <1>11 DEF updated_z
<1>13. F = A
  <2>1. OnIndexes(F, n) /\ OnIndexes(A, n)
    BY <1>1, <1>8, <1>12 DEF OnIndexes
  <2>2. F[n] = A[n]
    <3>1. n \in 0 .. last(r) /\ n = last(r) /\ (n > b \/ n <= b)
      BY <1>1
    <3> QED
      BY <1>10, <1>12, <3>1
  <2>3. ASSUME NEW i \in 0 .. n - 1, F[i + 1] = A[i + 1] PROVE F[i] = A[i]
    <3>1. i \in 0 .. last(r)
      BY <1>1
    <3> QED
      BY Zenon, <1>10, <1>12, <2>3, <3>1
  <2> QED
    BY <2>1, <2>2, <2>3, SameDown
<1>14. P = [i \in 0 .. last(r) |->
              CASE i > b -> d[r[i + 1]].tw_sf
                [] i <= b /\ i = last(r) -> 0
                [] OTHER -> P[i + 1] + MAX(0, e(r[i + 1]) - (F[i + 1] - leg(r[i + 1], r[i + 2])))]
  <2>1. ASSUME NEW i \in 0 .. n
        PROVE  P[i] = CASE i > b -> d[r[i + 1]].tw_sf
                        [] i <= b /\ i = n -> 0
                        [] OTHER -> P[i + 1] + MAX(0, e(r[i + 1]) - (F[i + 1] - leg(r[i + 1], r[i + 2])))
    <3>1. CASE i > b
      BY <1>9, <3>1
    <3>2. CASE i <= b /\ i = n
      BY <1>8, <3>2
    <3>3. CASE i <= b /\ i # n
      <4>1. i \in 0 .. n - 1
        BY <3>3
      <4>2. ~(i > b) /\ ~(i <= b /\ i = n)
        BY <3>3
      <4>3. P[i] = P[i + 1] + MAX(0, e(r[i + 1]) - (F[i + 1] - leg(r[i + 1], r[i + 2])))
        BY <1>7, <1>13, <4>1
      <4> QED
        BY <4>2, <4>3
    <3> QED
      BY <3>1, <3>2, <3>3
  <2> QED
    BY <1>1, <1>8, <2>1
<1>15. PICK G : G = updated_tw_sf(r, d, b, F)
  OBVIOUS
<1>16. G = [i \in 0 .. last(r) |->
              CASE i > b -> d[r[i + 1]].tw_sf
                [] i <= b /\ i = last(r) -> 0
                [] OTHER -> G[i + 1] + MAX(0, e(r[i + 1]) - (F[i + 1] - leg(r[i + 1], r[i + 2])))]
  BY Zenon, <1>14, <1>15 DEF updated_tw_sf
<1>17. G = P
  <2>1. OnIndexes(G, n) /\ OnIndexes(P, n)
    BY <1>1, <1>8, <1>16 DEF OnIndexes
  <2>2. G[n] = P[n]
    <3>1. n \in 0 .. last(r) /\ n = last(r) /\ (n > b \/ n <= b)
      BY <1>1
    <3> QED
      BY <1>14, <1>16, <3>1
  <2>3. ASSUME NEW i \in 0 .. n - 1, G[i + 1] = P[i + 1] PROVE G[i] = P[i]
    <3>1. i \in 0 .. last(r)
      BY <1>1
    <3> QED
      BY Zenon, <1>14, <1>16, <2>3, <3>1
  <2> QED
    BY <2>1, <2>2, <2>3, SameDown
<1> QED
  BY <1>2, <1>4, <1>5, <1>11, <1>13, <1>15, <1>17 DEF tw_penalty_update_backward
-----------------------------------------------------------------------------
(***************************************************************************)
(* What a refresh and an update do to the data of the objects.             *)
(***************************************************************************)
Data == [route : 0 .. NRoutes, idx : Int, a : Int, tw_pf : Int, demand_pf : Int,
         z : Int, tw_sf : Int, demand_sf : Int]

SamePlaces(d, u) == \A c \in Object : u[c].route = d[c].route /\ u[c].idx = d[c].idx

SameValues(d, u) ==
  \A c \in Object : /\ u[c].a = d[c].a /\ u[c].tw_pf = d[c].tw_pf /\ u[c].demand_pf = d[c].demand_pf
                    /\ u[c].z = d[c].z /\ u[c].tw_sf = d[c].tw_sf /\ u[c].demand_sf = d[c].demand_sf

\* The index of an object in a route.
LEMMA IndexInRoute ==
  ASSUME NEW r, ObjectRoute(r), NEW k \in 0 .. last(r)
  PROVE  IndexIn(r, r[k + 1]) = k
<1>1. PICK n \in Nat : n = Len(r) /\ last(r) = n - 1
  BY DEF ObjectRoute, last
<1>2. \A i \in 0 .. n - 1 : r[i + 1] = r[k + 1] => i = k
  <2>1. \A i, j \in 1 .. n : r[i] = r[j] => i = j
    BY <1>1 DEF ObjectRoute
  <2>2. \A i \in 0 .. n - 1 : i + 1 \in 1 .. n /\ k + 1 \in 1 .. n
    BY <1>1
  <2>3. \A i \in 0 .. n - 1 : i + 1 = k + 1 => i = k
    BY <1>1
  <2> QED
    BY <2>1, <2>2, <2>3, Zenon
<1>3. \E i \in 0 .. last(r) : r[i + 1] = r[k + 1]
  OBVIOUS
<1>4. IndexIn(r, r[k + 1]) \in 0 .. last(r) /\ r[IndexIn(r, r[k + 1]) + 1] = r[k + 1]
  BY <1>3 DEF IndexIn
<1> QED
  BY <1>1, <1>2, <1>4

\* The objects of a route are at its indexes.
LEMMA InRoute ==
  ASSUME NEW r, ObjectRoute(r), NEW c
  PROVE  /\ c \in ToSet(r) <=> \E k \in 0 .. last(r) : r[k + 1] = c
         /\ c \in ToSet(r) => c \in Object
<1>1. PICK n \in Nat : n = Len(r) /\ last(r) = n - 1
  BY DEF ObjectRoute, last
<1>2. r \in Seq(Object)
  BY DEF ObjectRoute
<1>3. ToSet(r) = {r[i] : i \in 1 .. n}
  BY <1>1, <1>2 DEF ToSet
<1>4. \A k \in 0 .. n - 1 : k + 1 \in 1 .. n
  OBVIOUS
<1>5. \A i \in 1 .. n : i - 1 \in 0 .. n - 1 /\ r[i - 1 + 1] = r[i]
  OBVIOUS
<1>6. \A i \in 1 .. n : r[i] \in Object
  BY <1>1, <1>2
<1>7. c \in ToSet(r) => \E k \in 0 .. last(r) : r[k + 1] = c
  BY <1>1, <1>3, <1>5
<1>8. (\E k \in 0 .. last(r) : r[k + 1] = c) => c \in ToSet(r)
  BY <1>1, <1>3, <1>4
<1> QED
  BY <1>3, <1>6, <1>7, <1>8

\* The objects from the index f of route x on know their places there.
Refreshed(rts, x, f, d, u) ==
  /\ u \in [Object -> Data] /\ SameValues(d, u)
  /\ \A k \in f .. last(rts[x]) : u[rts[x][k + 1]].route = x /\ u[rts[x][k + 1]].idx = k
  /\ \A c \in Object : (\A k \in f .. last(rts[x]) : rts[x][k + 1] # c) => u[c] = d[c]

\* route_refresh_metadata_from changes the places from an index of the route on.
LEMMA RefreshPlaces ==
  ASSUME NEW rts, NEW x \in Route, ObjectRoute(rts[x]), NEW d \in [Object -> Data], NEW f \in Nat,
         NEW u, u = route_refresh_metadata_from(rts, d, x, f)
  PROVE  Refreshed(rts, x, f, d, u)
<1>1. PICK r : r = rts[x]
  OBVIOUS
<1>2. PICK n \in Nat : n = last(r) /\ Len(r) = n + 1
  <2>1. Len(r) \in Nat /\ Len(r) >= 2
    BY <1>1 DEF ObjectRoute
  <2> QED
    BY <2>1 DEF last
<1>3. PICK T : T = {r[i + 1] : i \in f .. n}
  OBVIOUS
<1>4. u = [c \in Object |-> IF c \in T THEN [d[c] EXCEPT !.route = x, !.idx = IndexIn(r, c)] ELSE d[c]]
  BY Zenon, <1>1, <1>2, <1>3 DEF route_refresh_metadata_from
<1>5. \A k \in f .. n : k \in 0 .. last(r) /\ r[k + 1] \in T /\ r[k + 1] \in Object
                        /\ IndexIn(r, r[k + 1]) = k
  <2>1. \A k \in f .. n : k \in 0 .. last(r)
    BY <1>2
  <2>2. \A k \in f .. n : r[k + 1] \in T
    BY <1>3
  <2>3. \A k \in 0 .. last(r) : r[k + 1] \in Object
    BY <1>1, InRoute
  <2>4. \A k \in 0 .. last(r) : IndexIn(r, r[k + 1]) = k
    BY <1>1, IndexInRoute
  <2> QED
    BY <2>1, <2>2, <2>3, <2>4
<1>6. ASSUME NEW c \in T, NEW i \in Int, i = IndexIn(r, c), c \in Object
      PROVE  /\ u[c] = [d[c] EXCEPT !.route = x, !.idx = i] /\ u[c] \in Data
             /\ u[c].route = x /\ u[c].idx = i
             /\ u[c].a = d[c].a /\ u[c].tw_pf = d[c].tw_pf /\ u[c].demand_pf = d[c].demand_pf
             /\ u[c].z = d[c].z /\ u[c].tw_sf = d[c].tw_sf /\ u[c].demand_sf = d[c].demand_sf
  <2>1. u[c] = [d[c] EXCEPT !.route = x, !.idx = i]
    BY Zenon, <1>4, <1>6
  <2>2. PICK y \in Data : y = d[c]
    BY <1>6
  <2>3. u[c] = [y EXCEPT !.route = x, !.idx = i] /\ x \in 0 .. NRoutes
    BY <2>1, <2>2 DEF Route
  <2>4. /\ u[c] \in Data
        /\ u[c].route = x /\ u[c].idx = i
        /\ u[c].a = y.a /\ u[c].tw_pf = y.tw_pf /\ u[c].demand_pf = y.demand_pf
        /\ u[c].z = y.z /\ u[c].tw_sf = y.tw_sf /\ u[c].demand_sf = y.demand_sf
    BY <1>6, <2>3 DEF Data
  <2> QED
    BY <2>1, <2>2, <2>4
<1>7. ASSUME NEW c \in Object, c \in T
      PROVE  IndexIn(r, c) \in Int
  <2>1. PICK k \in f .. n : c = r[k + 1]
    BY <1>3, <1>7
  <2> QED
    BY <1>5, <2>1
<1>8. \A c \in Object : c \notin T => u[c] = d[c]
  BY Zenon, <1>4
<1>9. \A c \in Object :
        /\ u[c] \in Data
        /\ u[c].a = d[c].a /\ u[c].tw_pf = d[c].tw_pf /\ u[c].demand_pf = d[c].demand_pf
        /\ u[c].z = d[c].z /\ u[c].tw_sf = d[c].tw_sf /\ u[c].demand_sf = d[c].demand_sf
  <2> SUFFICES ASSUME NEW c \in Object
               PROVE  /\ u[c] \in Data
                      /\ u[c].a = d[c].a /\ u[c].tw_pf = d[c].tw_pf /\ u[c].demand_pf = d[c].demand_pf
                      /\ u[c].z = d[c].z /\ u[c].tw_sf = d[c].tw_sf /\ u[c].demand_sf = d[c].demand_sf
    OBVIOUS
  <2>1. CASE c \in T
    <3>1. PICK i \in Int : i = IndexIn(r, c)
      BY <1>7, <2>1
    <3> QED
      BY Zenon, <1>6, <2>1, <3>1
  <2>2. CASE c \notin T
    <3>1. d[c] \in Data /\ u[c] = d[c]
      BY <1>8, <2>2
    <3> QED
      BY <3>1
  <2> QED
    BY <2>1, <2>2
<1>10. \A k \in f .. n : u[r[k + 1]].route = x /\ u[r[k + 1]].idx = k
  <2> SUFFICES ASSUME NEW k \in f .. n PROVE u[r[k + 1]].route = x /\ u[r[k + 1]].idx = k
    OBVIOUS
  <2>1. PICK c : c = r[k + 1]
    OBVIOUS
  <2>2. c \in T /\ c \in Object /\ k \in Int /\ k = IndexIn(r, c)
    BY <1>5, <2>1
  <2>3. u[c].route = x /\ u[c].idx = k
    BY Zenon, <1>6, <2>2
  <2> QED
    BY <2>1, <2>3
<1>11. u \in [Object -> Data]
  BY Zenon, <1>4, <1>9
<1>12. \A c \in Object : (\A k \in f .. n : r[k + 1] # c) => u[c] = d[c]
  BY <1>3, <1>8
<1> QED
  BY <1>1, <1>2, <1>9, <1>10, <1>11, <1>12 DEF SameValues, Refreshed

\* route_update_penalty makes the values of a route exact if it starts where they are not.
LEMMA UpdateExact ==
  ASSUME Instance(problem), NEW rts, NEW x, ObjectRoute(rts[x]), NEW d \in [Object -> Data],
         NEW f \in Int, NEW b \in Int, Cached(rts[x], d, f, b),
         NEW u, u = route_update_penalty(rts, d, x, f, b)
  PROVE  /\ u \in [Object -> Data] /\ SamePlaces(d, u)
         /\ Cached(rts[x], u, Len(rts[x]), -1)
         /\ \A c \in Object : c \notin ToSet(rts[x]) => u[c] = d[c]
<1>1. PICK r : r = rts[x]
  OBVIOUS
<1>2. PICK q : q = IdsOf(r)
  OBVIOUS
<1>3. RouteOf(problem, q) /\ last(r) = Len(q) + 1 /\ last(r) \in Nat
  BY <1>1, <1>2, RouteValues
<1>4. PICK DP : DP = c_penalty_update_forward(r, d, f)
  OBVIOUS
<1>5. PICK DS : DS = c_penalty_update_backward(r, d, b)
  OBVIOUS
<1>6. PICK AA, TP : /\ AA = tw_penalty_update_forward(r, d, f).a
                    /\ TP = tw_penalty_update_forward(r, d, f).tw_pf
  OBVIOUS
<1>7. PICK ZZ, TS : /\ ZZ = tw_penalty_update_backward(r, d, b).z
                    /\ TS = tw_penalty_update_backward(r, d, b).tw_sf
  OBVIOUS
<1>8. /\ DP = PrefixDemand(problem, q) /\ DS = SuffixDemand(problem, q)
      /\ AA = Arrivals(problem, q) /\ TP = PrefixLateness(problem, q)
      /\ ZZ = LatestStarts(problem, q) /\ TS = SuffixLateness(problem, q)
  BY <1>1, <1>2, <1>4, <1>5, <1>6, <1>7, ForwardDemand, BackwardDemand, ForwardTimes, BackwardTimes
<1>9. \A k \in 0 .. last(r) : /\ DP[k] \in Int /\ DS[k] \in Int /\ AA[k] \in Int
                              /\ TP[k] \in Int /\ ZZ[k] \in Int /\ TS[k] \in Int
  <2>1. /\ DP \in [0 .. last(r) -> Int] /\ DS \in [0 .. last(r) -> Int]
        /\ AA \in [0 .. last(r) -> Int] /\ TP \in [0 .. last(r) -> Nat]
        /\ ZZ \in [0 .. last(r) -> Int] /\ TS \in [0 .. last(r) -> Nat]
    BY <1>3, <1>8, PrefixDemandSteps, SuffixDemandSteps, ArrivalsSteps, PrefixLatenessSteps,
       LatestStartsSteps, SuffixLatenessSteps
  <2> QED
    BY <2>1
<1>10. u = [c \in Object |->
              IF c \in ToSet(r)
              THEN [d[c] EXCEPT !.demand_pf = DP[IndexIn(r, c)], !.demand_sf = DS[IndexIn(r, c)],
                                !.a = AA[IndexIn(r, c)], !.tw_pf = TP[IndexIn(r, c)],
                                !.z = ZZ[IndexIn(r, c)], !.tw_sf = TS[IndexIn(r, c)]]
              ELSE d[c]]
  BY Zenon, <1>1, <1>4, <1>5, <1>6, <1>7 DEF route_update_penalty
<1>11. ASSUME NEW k \in 0 .. last(r), NEW c, c = r[k + 1]
       PROVE  /\ c \in Object /\ u[c] \in Data
              /\ u[c].route = d[c].route /\ u[c].idx = d[c].idx
              /\ u[c].demand_pf = DP[k] /\ u[c].demand_sf = DS[k]
              /\ u[c].a = AA[k] /\ u[c].tw_pf = TP[k]
              /\ u[c].z = ZZ[k] /\ u[c].tw_sf = TS[k]
  <2>1. c \in ToSet(r) /\ c \in Object /\ IndexIn(r, c) = k
    BY <1>1, <1>11, InRoute, IndexInRoute
  <2>2. PICK y \in Data : y = d[c]
    BY <2>1
  <2>3. u[c] = [y EXCEPT !.demand_pf = DP[k], !.demand_sf = DS[k], !.a = AA[k],
                         !.tw_pf = TP[k], !.z = ZZ[k], !.tw_sf = TS[k]]
    BY Zenon, <1>10, <2>1, <2>2
  <2>4. /\ u[c] \in Data /\ u[c].route = y.route /\ u[c].idx = y.idx
        /\ u[c].demand_pf = DP[k] /\ u[c].demand_sf = DS[k] /\ u[c].a = AA[k]
        /\ u[c].tw_pf = TP[k] /\ u[c].z = ZZ[k] /\ u[c].tw_sf = TS[k]
    <3>1. PICK dp \in Int, ds \in Int, aa \in Int, tp \in Int, zz \in Int, ts \in Int :
            dp = DP[k] /\ ds = DS[k] /\ aa = AA[k] /\ tp = TP[k] /\ zz = ZZ[k] /\ ts = TS[k]
      BY <1>9
    <3>2. PICK v : v = u[c]
      OBVIOUS
    <3>3. v = [y EXCEPT !.demand_pf = dp, !.demand_sf = ds, !.a = aa, !.tw_pf = tp,
                        !.z = zz, !.tw_sf = ts]
      BY <2>3, <3>1, <3>2
    <3>4. /\ v \in Data /\ v.route = y.route /\ v.idx = y.idx
          /\ v.demand_pf = dp /\ v.demand_sf = ds /\ v.a = aa /\ v.tw_pf = tp
          /\ v.z = zz /\ v.tw_sf = ts
      BY <3>3 DEF Data
    <3> QED
      BY <3>1, <3>2, <3>4
  <2> QED
    BY <2>1, <2>2, <2>4
<1>12. \A c \in Object : c \notin ToSet(r) => u[c] = d[c]
  BY Zenon, <1>10
<1>13. \A c \in Object : u[c] \in Data /\ u[c].route = d[c].route /\ u[c].idx = d[c].idx
  <2> SUFFICES ASSUME NEW c \in Object
               PROVE  u[c] \in Data /\ u[c].route = d[c].route /\ u[c].idx = d[c].idx
    OBVIOUS
  <2>1. CASE c \in ToSet(r)
    <3>1. PICK k \in 0 .. last(r) : c = r[k + 1]
      BY <1>1, <2>1, InRoute
    <3> QED
      BY <1>11, <3>1
  <2>2. CASE c \notin ToSet(r)
    BY <1>12, <2>2
  <2> QED
    BY <2>1, <2>2
<1>14. u \in [Object -> Data]
  BY Zenon, <1>10, <1>13
<1>15. ASSUME NEW k \in 0 .. last(r) PROVE Forward(r, u, k) /\ Backward(r, u, k)
  <2>1. PICK c : c = r[k + 1]
    OBVIOUS
  <2>2. /\ u[c].demand_pf = DP[k] /\ u[c].demand_sf = DS[k]
        /\ u[c].a = AA[k] /\ u[c].tw_pf = TP[k]
        /\ u[c].z = ZZ[k] /\ u[c].tw_sf = TS[k]
    BY <1>11, <2>1
  <2> QED
    BY <1>2, <1>8, <2>1, <2>2 DEF Forward, Backward
<1>16. Cached(r, u, Len(r), -1)
  BY <1>15 DEF Cached
<1> QED
  BY <1>1, <1>12, <1>13, <1>14, <1>16 DEF SamePlaces
-----------------------------------------------------------------------------
(***************************************************************************)
(* Places: each modification leaves every object where it believes to be.  *)
(***************************************************************************)
Tails == problem.n + NRoutes + 1 .. problem.n + 2 * NRoutes

RouteShape(r, x) ==
  /\ r \in Seq(Object) /\ Len(r) >= 2
  /\ r[1] = HeadOf(x) /\ r[Len(r)] \in Tails
  /\ \A k \in 2 .. Len(r) - 1 : r[k] \in Customer

Shape(rts) == rts = [x \in Route |-> rts[x]] /\ \A x \in Route : RouteShape(rts[x], x)

\* The objects of the routes know their places, and those that know one are there.
Knows(rts, d) ==
  /\ \A x \in Route : \A k \in 0 .. last(rts[x]) :
       d[rts[x][k + 1]].route = x /\ d[rts[x][k + 1]].idx = k
  /\ \A c \in Object : d[c].route # 0 =>
       /\ d[c].route \in Route /\ d[c].idx \in 0 .. last(rts[d[c].route])
       /\ rts[d[c].route][d[c].idx + 1] = c

\* A route that has the right objects at its ends and no object twice.
LEMMA ShapedRoute ==
  ASSUME Instance(problem), NEW x \in Route, NEW r, RouteShape(r, x),
         \A j, k \in 1 .. Len(r) : r[j] = r[k] => j = k
  PROVE  ObjectRoute(r)
<1>1. problem.n \in Nat /\ NRoutes \in Nat /\ x \in 1 .. NRoutes
  BY RoutesAssumption DEF Instance, Route
<1>2. HeadOf(x) \notin Customer
  BY <1>1 DEF HeadOf, Customer
<1>3. \A c \in Tails : c \notin Customer
  BY <1>1 DEF Tails, Customer
<1> QED
  BY <1>2, <1>3 DEF RouteShape, ObjectRoute

\* Objects that know their places are nowhere else.
LEMMA KnownRoutes ==
  ASSUME Instance(problem), NEW rts, Shape(rts), NEW d, Knows(rts, d)
  PROVE  /\ \A x \in Route : ObjectRoute(rts[x])
         /\ \A x, y \in Route : \A j \in 0 .. last(rts[x]), k \in 0 .. last(rts[y]) :
              rts[x][j + 1] = rts[y][k + 1] => x = y /\ j = k
<1>1. ASSUME NEW x \in Route, NEW y \in Route, NEW j \in 0 .. last(rts[x]), NEW k \in 0 .. last(rts[y]),
             rts[x][j + 1] = rts[y][k + 1]
      PROVE  x = y /\ j = k
  <2>1. /\ d[rts[x][j + 1]].route = x /\ d[rts[x][j + 1]].idx = j
        /\ d[rts[y][k + 1]].route = y /\ d[rts[y][k + 1]].idx = k
    BY DEF Knows
  <2> QED
    BY <1>1, <2>1
<1>2. ASSUME NEW x \in Route PROVE ObjectRoute(rts[x])
  <2>1. PICK r : r = rts[x]
    OBVIOUS
  <2>2. RouteShape(r, x)
    BY <2>1 DEF Shape
  <2>3. PICK n \in Nat : n = Len(r) /\ last(r) = n - 1
    BY <2>2 DEF RouteShape, last
  <2>4. ASSUME NEW j \in 1 .. n, NEW k \in 1 .. n, r[j] = r[k] PROVE j = k
    <3>1. j - 1 \in 0 .. last(r) /\ k - 1 \in 0 .. last(r) /\ j - 1 + 1 = j /\ k - 1 + 1 = k
      BY <2>3
    <3>2. j - 1 = k - 1
      BY <1>1, <2>1, <2>4, <3>1
    <3> QED
      BY <2>3, <3>2
  <2> QED
    BY <2>1, <2>2, <2>3, <2>4, ShapedRoute
<1> QED
  BY <1>1, <1>2

\* route_remove_customer and route_insert_customer, object by object.
LEMMA RemoveElements ==
  ASSUME NEW C, NEW r \in Seq(C), NEW n \in Nat, n = last(r), n >= 1, NEW i \in 0 .. n
  PROVE  /\ remove_customer(r, i) \in Seq(C) /\ Len(remove_customer(r, i)) = n
         /\ last(remove_customer(r, i)) = n - 1
         /\ \A k \in 0 .. n - 1 :
              remove_customer(r, i)[k + 1] = IF k < i THEN r[k + 1] ELSE r[k + 2]
<1>1. Len(r) = n + 1
  BY DEF last
<1>2. PICK j \in 1 .. Len(r) : j = i + 1
  BY <1>1
<1>3. remove_customer(r, i) = RemoveIndex(r, j)
  <2>1. j - 1 = i /\ j + 1 = i + 2
    BY <1>2
  <2> QED
    BY <2>1 DEF remove_customer, RemoveIndex
<1>4. PICK q : q = RemoveIndex(r, j)
  OBVIOUS
<1>5. q \in Seq(C) /\ Len(q) = n
      /\ \A k \in 1 .. n : q[k] = IF k < j THEN r[k] ELSE r[k + 1]
  <2>1. Len(r) - 1 = n
    BY <1>1
  <2>2. /\ RemoveIndex(r, j) \in Seq(C) /\ Len(RemoveIndex(r, j)) = Len(r) - 1
        /\ \A k \in 1 .. Len(r) - 1 : RemoveIndex(r, j)[k] = IF k < j THEN r[k] ELSE r[k + 1]
    BY RemoveIndexElements
  <2> QED
    BY <1>4, <2>1, <2>2
<1>6. \A k \in 0 .. n - 1 : q[k + 1] = IF k < i THEN r[k + 1] ELSE r[k + 2]
  <2> SUFFICES ASSUME NEW k \in 0 .. n - 1 PROVE q[k + 1] = IF k < i THEN r[k + 1] ELSE r[k + 2]
    OBVIOUS
  <2>1. k + 1 \in 1 .. n /\ (k + 1 < j <=> k < i) /\ k + 1 + 1 = k + 2
    BY <1>2
  <2> QED
    BY <1>5, <2>1
<1> QED
  BY <1>3, <1>4, <1>5, <1>6 DEF last

\* The sequence q is r, whose last index is n, with c at the index i.
Inserted(q, C, r, n, i, c) ==
  /\ q \in Seq(C) /\ Len(q) = n + 2 /\ last(q) = n + 1
  /\ \A k \in 0 .. n + 1 : q[k + 1] = IF k < i THEN r[k + 1] ELSE IF k = i THEN c ELSE r[k]

\* insert_customer puts c at the index i and moves the nodes from there on by one.
LEMMA InsertElements ==
  ASSUME NEW C, NEW r \in Seq(C), NEW n \in Nat, n = last(r), NEW i \in 0 .. n, NEW c \in C
  PROVE  Inserted(insert_customer(r, i, c), C, r, n, i, c)
<1>1. Len(r) = n + 1
  BY DEF last
<1>2. PICK j \in 1 .. Len(r) + 1 : j = i + 1
  BY <1>1
<1>3. insert_customer(r, i, c) = InsertBefore(r, j, c)
  <2>1. j - 1 = i /\ j = i + 1
    BY <1>2
  <2> QED
    BY <2>1 DEF insert_customer, InsertBefore
<1>4. PICK q : q = InsertBefore(r, j, c)
  OBVIOUS
<1>5. q \in Seq(C) /\ Len(q) = n + 2
      /\ \A k \in 1 .. n + 2 : q[k] = IF k < j THEN r[k] ELSE IF k = j THEN c ELSE r[k - 1]
  <2>1. Len(r) + 1 = n + 2
    BY <1>1
  <2>2. /\ InsertBefore(r, j, c) \in Seq(C) /\ Len(InsertBefore(r, j, c)) = Len(r) + 1
        /\ \A k \in 1 .. Len(r) + 1 : InsertBefore(r, j, c)[k] =
             IF k < j THEN r[k] ELSE IF k = j THEN c ELSE r[k - 1]
    BY InsertBeforeElements
  <2> QED
    BY <1>4, <2>1, <2>2
<1>6. \A k \in 0 .. n + 1 : q[k + 1] = IF k < i THEN r[k + 1] ELSE IF k = i THEN c ELSE r[k]
  <2> SUFFICES ASSUME NEW k \in 0 .. n + 1
               PROVE  q[k + 1] = IF k < i THEN r[k + 1] ELSE IF k = i THEN c ELSE r[k]
    OBVIOUS
  <2>1. k + 1 \in 1 .. n + 2 /\ (k + 1 < j <=> k < i) /\ (k + 1 = j <=> k = i) /\ k + 1 - 1 = k
    BY <1>2
  <2> QED
    BY <1>5, <2>1
<1> QED
  BY <1>3, <1>4, <1>5, <1>6 DEF last, Inserted

\* What a modification leaves before the values are updated.
Refit(out, d, u) == Shape(out) /\ u \in [Object -> Data] /\ Knows(out, u) /\ SameValues(d, u)

InARoute(d, c) == d[c].route # 0
TakenOut(d, c) == ~InARoute(d, c) /\ c \in Customer

\* Taking a customer out leaves the others where they believe to be.
LEMMA RemovePlaces ==
  ASSUME Instance(problem), NEW rts, Shape(rts), NEW d \in [Object -> Data], Knows(rts, d),
         NEW x \in Route, NEW i \in 1 .. last(rts[x]) - 1, NEW v, v = rts[x][i + 1],
         NEW out, out = [rts EXCEPT ![x] = remove_customer(@, i)],
         NEW u, u = Removed(route_refresh_metadata_from(out, d, x, i), v)
  PROVE  Refit(out, d, u) /\ TakenOut(u, v)
<1>1. PICK r : r = rts[x]
  OBVIOUS
<1>2. RouteShape(r, x) /\ ObjectRoute(r)
  BY <1>1, KnownRoutes DEF Shape
<1>3. PICK n \in Nat : n = last(r) /\ Len(r) = n + 1 /\ n >= 1
  BY <1>2 DEF RouteShape, last
<1>4. i \in 1 .. n - 1 /\ i \in 0 .. n /\ i \in Nat
  BY <1>1, <1>3
<1>5. PICK q : q = remove_customer(r, i)
  OBVIOUS
<1>6. /\ q \in Seq(Object) /\ Len(q) = n /\ last(q) = n - 1
      /\ \A k \in 0 .. n - 1 : q[k + 1] = IF k < i THEN r[k + 1] ELSE r[k + 2]
  BY <1>2, <1>3, <1>4, <1>5, RemoveElements DEF RouteShape
<1>7. /\ out[x] = q /\ \A y \in Route : y # x => out[y] = rts[y]
      /\ out = [y \in Route |-> out[y]]
  BY <1>1, <1>5 DEF Shape
<1>8. v \in Customer
  <2>1. i + 1 \in 2 .. Len(r) - 1
    BY <1>3, <1>4
  <2> QED
    BY <1>1, <1>2, <2>1 DEF RouteShape
<1>9. RouteShape(q, x)
  <2>1. q[1] = r[1] /\ q[n] = r[n + 1]
    <3>1. 0 \in 0 .. n - 1 /\ n - 1 \in 0 .. n - 1 /\ 0 < i /\ ~(n - 1 < i) /\ n - 1 + 1 = n /\ n - 1 + 2 = n + 1
      BY <1>4
    <3> QED
      BY <1>6, <3>1
  <2>2. ASSUME NEW k \in 2 .. n - 1 PROVE q[k] \in Customer
    <3>1. k - 1 \in 0 .. n - 1 /\ k - 1 + 1 = k /\ k - 1 + 2 = k + 1
      OBVIOUS
    <3>2. q[k] = r[k] \/ q[k] = r[k + 1]
      BY <1>6, <3>1
    <3>3. k \in 2 .. Len(r) - 1 /\ k + 1 \in 2 .. Len(r) - 1
      BY <1>3
    <3> QED
      BY <1>2, <3>2, <3>3 DEF RouteShape
  <2>3. n >= 2
    BY <1>4
  <2> QED
    BY <1>2, <1>3, <1>6, <2>1, <2>2, <2>3 DEF RouteShape
<1>10. Shape(out)
  BY <1>7, <1>9 DEF Shape
<1>11. \A j, k \in 0 .. n : r[j + 1] = r[k + 1] => j = k
  <2>1. \A j, k \in 0 .. last(rts[x]) : rts[x][j + 1] = rts[x][k + 1] => j = k
    BY KnownRoutes
  <2> QED
    BY <1>1, <1>3, <2>1
<1>12. /\ \A j, k \in 0 .. n - 1 : q[j + 1] = q[k + 1] => j = k
       /\ \A k \in 0 .. n - 1 : q[k + 1] # v
  <2>1. \A k \in 0 .. n - 1 : \E m \in 0 .. n :
          q[k + 1] = r[m + 1] /\ m = (IF k < i THEN k ELSE k + 1)
    <3> SUFFICES ASSUME NEW k \in 0 .. n - 1
                 PROVE  \E m \in 0 .. n : q[k + 1] = r[m + 1] /\ m = (IF k < i THEN k ELSE k + 1)
      OBVIOUS
    <3>1. k \in 0 .. n /\ k + 1 \in 0 .. n /\ k + 1 + 1 = k + 2
      OBVIOUS
    <3> QED
      BY <1>6, <3>1
  <2>2. ASSUME NEW j \in 0 .. n - 1, NEW k \in 0 .. n - 1, q[j + 1] = q[k + 1]
        PROVE  j = k
    <3>1. PICK a \in 0 .. n : q[j + 1] = r[a + 1] /\ a = (IF j < i THEN j ELSE j + 1)
      BY <2>1
    <3>2. PICK b \in 0 .. n : q[k + 1] = r[b + 1] /\ b = (IF k < i THEN k ELSE k + 1)
      BY <2>1
    <3>3. a = b
      BY <1>11, <2>2, <3>1, <3>2
    <3> QED
      BY <1>4, <3>1, <3>2, <3>3
  <2>3. ASSUME NEW k \in 0 .. n - 1, q[k + 1] = v PROVE FALSE
    <3>1. PICK b \in 0 .. n : q[k + 1] = r[b + 1] /\ b = (IF k < i THEN k ELSE k + 1)
      BY <2>1
    <3>2. b = i
      BY <1>1, <1>4, <1>11, <2>3, <3>1
    <3> QED
      BY <1>4, <3>1, <3>2
  <2> QED
    BY <2>2, <2>3
<1>13. ObjectRoute(out[x])
  <2>1. \A j, k \in 1 .. Len(q) : q[j] = q[k] => j = k
    <3> SUFFICES ASSUME NEW j \in 1 .. n, NEW k \in 1 .. n, q[j] = q[k] PROVE j = k
      BY <1>6
    <3>1. j - 1 \in 0 .. n - 1 /\ k - 1 \in 0 .. n - 1 /\ j - 1 + 1 = j /\ k - 1 + 1 = k
      OBVIOUS
    <3>2. j - 1 = k - 1
      BY <1>12, <3>1
    <3> QED
      BY <3>2
  <2> QED
    BY <1>7, <1>9, <2>1, ShapedRoute
<1>14. PICK g : g = route_refresh_metadata_from(out, d, x, i)
  OBVIOUS
<1>15. /\ g \in [Object -> Data] /\ SameValues(d, g)
       /\ \A k \in i .. n - 1 : g[q[k + 1]].route = x /\ g[q[k + 1]].idx = k
       /\ \A c \in Object : (\A k \in i .. n - 1 : q[k + 1] # c) => g[c] = d[c]
  <2>1. PICK f \in Nat : f = i
    BY <1>4
  <2>2. g = route_refresh_metadata_from(out, d, x, f)
    BY <1>14, <2>1
  <2>3. Refreshed(out, x, f, d, g)
    BY <1>13, <2>2, RefreshPlaces
  <2> QED
    BY <1>6, <1>7, <2>1, <2>3 DEF Refreshed
<1>16. v \in Object
  BY <1>1, <1>2, <1>3, <1>4, InRoute
<1>17. /\ u \in [Object -> Data] /\ SameValues(g, u)
       /\ u[v].route = 0 /\ \A c \in Object : c # v => u[c] = g[c]
  <2>1. PICK y \in Data : y = g[v]
    BY <1>15, <1>16
  <2>2. u = [g EXCEPT ![v] = [y EXCEPT !.route = 0, !.idx = -1]]
    BY <1>14, <1>15, <1>16, <2>1 DEF Removed
  <2>3. PICK z : z = [y EXCEPT !.route = 0, !.idx = -1]
    OBVIOUS
  <2>4. 0 \in 0 .. NRoutes /\ -1 \in Int
    BY RoutesAssumption
  <2>5. /\ z \in Data /\ z.route = 0
        /\ z.a = y.a /\ z.tw_pf = y.tw_pf /\ z.demand_pf = y.demand_pf
        /\ z.z = y.z /\ z.tw_sf = y.tw_sf /\ z.demand_sf = y.demand_sf
    BY <2>3, <2>4 DEF Data
  <2>6. u[v] = z /\ u \in [Object -> Data] /\ \A c \in Object : c # v => u[c] = g[c]
    BY <1>15, <1>16, <2>2, <2>3, <2>5
  <2> QED
    BY Zenon, <2>1, <2>5, <2>6 DEF SameValues
<1>18. SameValues(d, u)
  BY Zenon, <1>15, <1>17 DEF SameValues
<1>19. ASSUME NEW y \in Route, NEW k \in 0 .. last(out[y])
       PROVE  u[out[y][k + 1]].route = y /\ u[out[y][k + 1]].idx = k
  <2>1. PICK c : c = out[y][k + 1]
    OBVIOUS
  <2>2. CASE y = x
    <3>1. k \in 0 .. n - 1 /\ c = q[k + 1] /\ c # v
      BY <1>6, <1>7, <1>12, <1>19, <2>1, <2>2
    <3>2. c \in Object
      BY <1>13, <2>1, <2>2, InRoute
    <3>3. CASE k < i
      <4>1. c = r[k + 1] /\ k \in 0 .. last(r)
        BY <1>3, <1>6, <3>1, <3>3
      <4>2. d[c].route = x /\ d[c].idx = k
        BY <1>1, <4>1 DEF Knows
      <4>3. \A m \in i .. n - 1 : q[m + 1] # c
        BY <1>4, <1>12, <3>1, <3>3
      <4> QED
        BY Zenon, <1>15, <1>17, <2>1, <2>2, <3>1, <3>2, <4>2, <4>3
    <3>4. CASE ~(k < i)
      <4>1. k \in i .. n - 1
        BY <1>4, <3>1, <3>4
      <4> QED
        BY Zenon, <1>15, <1>17, <2>1, <2>2, <3>1, <3>2, <4>1
    <3> QED
      BY <3>3, <3>4
  <2>3. CASE y # x
    <3>1. k \in 0 .. last(rts[y]) /\ c = rts[y][k + 1]
      BY <1>7, <1>19, <2>1, <2>3
    <3>2. c \in Object
      BY <3>1, InRoute, KnownRoutes
    <3>3. d[c].route = y /\ d[c].idx = k
      BY <3>1 DEF Knows
    <3>4. \A m \in 0 .. n : r[m + 1] # c
      <4> SUFFICES ASSUME NEW m \in 0 .. n, r[m + 1] = c PROVE FALSE
        OBVIOUS
      <4>1. m \in 0 .. last(rts[x]) /\ rts[x][m + 1] = rts[y][k + 1]
        BY <1>1, <1>3, <3>1
      <4> QED
        BY <2>3, <3>1, <4>1, KnownRoutes
    <3>5. c # v /\ \A m \in i .. n - 1 : q[m + 1] # c
      <4>1. c # v
        BY <1>1, <1>4, <3>4
      <4>2. \A m \in i .. n - 1 : m \in 0 .. n - 1 /\ m + 1 \in 0 .. n /\ ~(m < i) /\ m + 1 + 1 = m + 2
        BY <1>4
      <4> QED
        BY <1>6, <3>4, <4>1, <4>2
    <3> QED
      BY <1>15, <1>17, <2>1, <3>2, <3>3, <3>5
  <2> QED
    BY <2>2, <2>3
<1>20. ASSUME NEW c \in Object, u[c].route # 0
       PROVE  /\ u[c].route \in Route /\ u[c].idx \in 0 .. last(out[u[c].route])
              /\ out[u[c].route][u[c].idx + 1] = c
  <2>1. c # v /\ u[c] = g[c]
    BY <1>17, <1>20
  <2>2. CASE \E k \in i .. n - 1 : q[k + 1] = c
    <3>1. PICK k \in i .. n - 1 : q[k + 1] = c
      BY <2>2
    <3>2. u[c].route = x /\ u[c].idx = k /\ k \in 0 .. last(out[x])
      BY <1>4, <1>6, <1>7, <1>15, <2>1, <3>1
    <3> QED
      BY <1>7, <3>1, <3>2
  <2>3. CASE \A k \in i .. n - 1 : q[k + 1] # c
    <3>1. u[c] = d[c]
      BY <1>15, <2>1, <2>3
    <3>2. PICK y \in Route : y = d[c].route
      BY <1>20, <3>1 DEF Knows
    <3>3. PICK j \in 0 .. last(rts[y]) : j = d[c].idx /\ rts[y][j + 1] = c
      BY <1>20, <3>1, <3>2 DEF Knows
    <3>4. CASE y # x
      BY <1>7, <3>1, <3>2, <3>3, <3>4
    <3>5. CASE y = x
      <4>1. j \in 0 .. n /\ r[j + 1] = c
        BY <1>1, <1>3, <3>3, <3>5
      <4>2. j # i
        BY <1>1, <2>1, <4>1
      <4>3. ~(j > i)
        <5> SUFFICES ASSUME j > i PROVE FALSE
          OBVIOUS
        <5>1. j - 1 \in i .. n - 1 /\ j - 1 \in 0 .. n - 1 /\ ~(j - 1 < i) /\ j - 1 + 2 = j + 1
          BY <1>4, <4>1
        <5>2. q[j - 1 + 1] = c
          BY <1>6, <4>1, <5>1
        <5> QED
          BY <2>3, <5>1, <5>2
      <4>4. j \in 0 .. n - 1 /\ j < i
        BY <1>4, <4>1, <4>2, <4>3
      <4>5. q[j + 1] = c
        BY <1>6, <4>1, <4>4
      <4>6. u[c].route = x /\ u[c].idx = j
        BY <3>1, <3>2, <3>3, <3>5
      <4>7. j \in 0 .. last(out[x]) /\ out[x][j + 1] = c
        BY <1>6, <1>7, <4>4, <4>5
      <4> QED
        BY <4>6, <4>7
    <3> QED
      BY <3>4, <3>5
  <2> QED
    BY <2>2, <2>3
<1>21. Knows(out, u)
  BY Zenon, <1>19, <1>20 DEF Knows
<1> QED
  BY <1>8, <1>10, <1>17, <1>18, <1>21 DEF Refit, TakenOut, InARoute
-----------------------------------------------------------------------------
(***************************************************************************)
(* While a modification refreshes the places, some objects have wrong ones.*)
(***************************************************************************)
\* No object is at two places.
Apart(rts) ==
  \A x, y \in Route : \A j \in 0 .. last(rts[x]), k \in 0 .. last(rts[y]) :
    rts[x][j + 1] = rts[y][k + 1] => x = y /\ j = k

\* All objects of the routes but those of W know their places, and those that know one are in a route.
KnowsBut(rts, d, W) ==
  /\ \A x \in Route : \A k \in 0 .. last(rts[x]) :
       rts[x][k + 1] \in W \/ (d[rts[x][k + 1]].route = x /\ d[rts[x][k + 1]].idx = k)
  /\ \A c \in Object : d[c].route # 0 =>
       \E x \in Route : \E k \in 0 .. last(rts[x]) : rts[x][k + 1] = c

\* The objects of W that are not in V are at the index f of route x or behind it.
Settled(rts, x, f, W, V) ==
  \A c \in W : c \in V \/ \E k \in f .. last(rts[x]) : rts[x][k + 1] = c

\* The data u after a refresh of d.
Known(rts, d, u, W) == u \in [Object -> Data] /\ SameValues(d, u) /\ KnowsBut(rts, u, W)

\* Routes of the right shape that have no object in common.
LEMMA ApartRoutes ==
  ASSUME Instance(problem), NEW rts, Shape(rts), Apart(rts), NEW x \in Route
  PROVE  ObjectRoute(rts[x])
<1>1. PICK r : r = rts[x]
  OBVIOUS
<1>2. RouteShape(r, x)
  BY <1>1 DEF Shape
<1>3. PICK n \in Nat : n = Len(r) /\ last(r) = n - 1
  BY <1>2 DEF RouteShape, last
<1>4. ASSUME NEW j \in 1 .. n, NEW k \in 1 .. n, r[j] = r[k] PROVE j = k
  <2>1. j - 1 \in 0 .. last(r) /\ k - 1 \in 0 .. last(r) /\ j - 1 + 1 = j /\ k - 1 + 1 = k
    BY <1>3
  <2>2. j - 1 = k - 1
    BY <1>1, <1>4, <2>1 DEF Apart
  <2> QED
    BY <1>3, <2>2
<1> QED
  BY <1>1, <1>2, <1>3, <1>4, ShapedRoute

\* When no object of a route has a wrong place, all know theirs.
LEMMA KnowsAll ==
  ASSUME NEW rts, NEW d, KnowsBut(rts, d, {})
  PROVE  Knows(rts, d)
<1>1. ASSUME NEW x \in Route, NEW k \in 0 .. last(rts[x])
      PROVE  d[rts[x][k + 1]].route = x /\ d[rts[x][k + 1]].idx = k
  BY DEF KnowsBut
<1>2. ASSUME NEW c \in Object, d[c].route # 0
      PROVE  /\ d[c].route \in Route /\ d[c].idx \in 0 .. last(rts[d[c].route])
             /\ rts[d[c].route][d[c].idx + 1] = c
  <2>1. PICK x \in Route : \E k \in 0 .. last(rts[x]) : rts[x][k + 1] = c
    BY <1>2 DEF KnowsBut
  <2>2. PICK k \in 0 .. last(rts[x]) : rts[x][k + 1] = c
    BY <2>1
  <2>3. d[c].route = x /\ d[c].idx = k
    BY <1>1, <2>2
  <2> QED
    BY <2>2, <2>3
<1> QED
  BY <1>1, <1>2 DEF Knows

\* A refresh sets the places from an index of a route on right and disturbs no other.
LEMMA RefreshKnows ==
  ASSUME Instance(problem), NEW rts, Shape(rts), Apart(rts), NEW d \in [Object -> Data],
         NEW W, KnowsBut(rts, d, W), NEW x \in Route, NEW f \in Nat,
         NEW u, u = route_refresh_metadata_from(rts, d, x, f),
         NEW V, Settled(rts, x, f, W, V)
  PROVE  Known(rts, d, u, V)
<1>1. Refreshed(rts, x, f, d, u)
  BY ApartRoutes, RefreshPlaces
<1>2. ASSUME NEW y \in Route, NEW j \in 0 .. last(rts[y]), rts[y][j + 1] \notin V
      PROVE  u[rts[y][j + 1]].route = y /\ u[rts[y][j + 1]].idx = j
  <2>1. PICK c : c = rts[y][j + 1]
    OBVIOUS
  <2>2. c \in Object
    BY <2>1, ApartRoutes, InRoute
  <2>3. CASE \E k \in f .. last(rts[x]) : rts[x][k + 1] = c
    <3>1. PICK k \in f .. last(rts[x]) : rts[x][k + 1] = c
      BY <2>3
    <3>2. u[c].route = x /\ u[c].idx = k
      BY <1>1, <3>1 DEF Refreshed
    <3>3. k \in 0 .. last(rts[x])
      OBVIOUS
    <3>4. x = y /\ k = j
      BY <2>1, <3>1, <3>3 DEF Apart
    <3> QED
      BY <2>1, <3>2, <3>4
  <2>4. CASE \A k \in f .. last(rts[x]) : rts[x][k + 1] # c
    <3>1. u[c] = d[c]
      BY <1>1, <2>2, <2>4 DEF Refreshed
    <3>2. c \notin W
      BY <1>2, <2>1, <2>4 DEF Settled
    <3>3. d[c].route = y /\ d[c].idx = j
      BY <2>1, <3>2 DEF KnowsBut
    <3> QED
      BY <2>1, <3>1, <3>3
  <2> QED
    BY <2>3, <2>4
<1>3. ASSUME NEW c \in Object, u[c].route # 0
      PROVE  \E y \in Route : \E k \in 0 .. last(rts[y]) : rts[y][k + 1] = c
  <2>1. CASE \E k \in f .. last(rts[x]) : rts[x][k + 1] = c
    <3>1. PICK k \in f .. last(rts[x]) : rts[x][k + 1] = c
      BY <2>1
    <3>2. k \in 0 .. last(rts[x])
      OBVIOUS
    <3> QED
      BY <3>1, <3>2
  <2>2. CASE \A k \in f .. last(rts[x]) : rts[x][k + 1] # c
    <3>1. u[c] = d[c]
      BY <1>1, <2>2 DEF Refreshed
    <3> QED
      BY <1>3, <3>1 DEF KnowsBut
  <2> QED
    BY <2>1, <2>2
<1> QED
  BY <1>1, <1>2, <1>3 DEF Refreshed, KnowsBut, Known
-----------------------------------------------------------------------------
(***************************************************************************)
(* Insertions, exchanges and exchanges of tails.                           *)
(***************************************************************************)
\* Putting a customer that is in no route into one leaves all where they believe to be.
LEMMA InsertPlaces ==
  ASSUME Instance(problem), NEW rts, Shape(rts), NEW d \in [Object -> Data], Knows(rts, d),
         NEW x \in Route, NEW i \in 1 .. last(rts[x]), NEW w \in Customer, TakenOut(d, w),
         NEW out, out = [rts EXCEPT ![x] = insert_customer(@, i, w)],
         NEW u, u = route_refresh_metadata_from(out, d, x, i)
  PROVE  Refit(out, d, u)
<1>1. PICK r : r = rts[x]
  OBVIOUS
<1>2. RouteShape(r, x) /\ ObjectRoute(r)
  BY <1>1, KnownRoutes DEF Shape
<1>3. PICK n \in Nat : n = last(r) /\ Len(r) = n + 1 /\ n >= 1
  BY <1>2 DEF RouteShape, last
<1>4. PICK f \in 1 .. n : f = i
  BY <1>1, <1>3
<1>5. PICK q : q = insert_customer(r, f, w)
  OBVIOUS
<1>6. w \in Object
  BY RoutesAssumption DEF Customer, Object, Instance
<1>7. /\ q \in Seq(Object) /\ Len(q) = n + 2 /\ last(q) = n + 1
      /\ \A k \in 0 .. n + 1 :
           q[k + 1] = IF k < f THEN r[k + 1] ELSE IF k = f THEN w ELSE r[k]
  <2>1. r \in Seq(Object) /\ f \in 0 .. n
    BY <1>2 DEF RouteShape
  <2>2. Inserted(q, Object, r, n, f, w)
    BY <1>3, <1>5, <1>6, <2>1, InsertElements
  <2> QED
    BY <2>2 DEF Inserted
<1>8. /\ out[x] = q /\ \A y \in Route : y # x => out[y] = rts[y]
      /\ out = [y \in Route |-> out[y]]
  BY <1>1, <1>4, <1>5 DEF Shape
<1>9. RouteShape(q, x)
  <2>1. q[1] = r[1] /\ q[n + 2] = r[n + 1]
    <3>1. /\ 0 \in 0 .. n + 1 /\ n + 1 \in 0 .. n + 1 /\ 0 < f /\ ~(n + 1 < f) /\ n + 1 # f
          /\ n + 1 + 1 = n + 2
      OBVIOUS
    <3> QED
      BY <1>7, <3>1
  <2>2. ASSUME NEW k \in 2 .. n + 1 PROVE q[k] \in Customer
    <3>1. k - 1 \in 0 .. n + 1 /\ k - 1 + 1 = k
      OBVIOUS
    <3>2. CASE k - 1 < f
      <4>1. q[k] = r[k] /\ k \in 2 .. Len(r) - 1
        BY <1>3, <1>7, <3>1, <3>2
      <4> QED
        BY <1>2, <4>1 DEF RouteShape
    <3>3. CASE k - 1 = f
      BY <1>7, <3>1, <3>3
    <3>4. CASE k - 1 > f
      <4>1. q[k] = r[k - 1] /\ k - 1 \in 2 .. Len(r) - 1
        BY <1>3, <1>7, <3>1, <3>4
      <4> QED
        BY <1>2, <4>1 DEF RouteShape
    <3> QED
      BY <3>2, <3>3, <3>4
  <2>3. n + 2 >= 2 /\ n + 2 - 1 = n + 1
    OBVIOUS
  <2> QED
    BY <1>2, <1>3, <1>7, <2>1, <2>2, <2>3 DEF RouteShape
<1>10. Shape(out)
  BY <1>8, <1>9 DEF Shape
<1>11. ASSUME NEW y \in Route, NEW k \in 0 .. last(out[y]), NEW c, c = out[y][k + 1]
       PROVE  \/ c = w /\ y = x /\ k = f
              \/ /\ d[c].route = y
                 /\ d[c].idx \in Int
                 /\ k = IF y = x /\ d[c].idx >= f THEN d[c].idx + 1 ELSE d[c].idx
  <2>1. CASE y # x
    <3>1. k \in 0 .. last(rts[y]) /\ c = rts[y][k + 1]
      BY <1>8, <1>11, <2>1
    <3>2. d[c].route = y /\ d[c].idx = k
      BY <3>1 DEF Knows
    <3> QED
      BY <2>1, <3>2
  <2>2. CASE y = x
    <3>1. k \in 0 .. n + 1 /\ c = q[k + 1]
      BY <1>7, <1>8, <1>11, <2>2
    <3>2. CASE k < f
      <4>1. k \in 0 .. last(rts[x]) /\ c = rts[x][k + 1]
        BY <1>1, <1>3, <1>7, <3>1, <3>2
      <4>2. d[c].route = x /\ d[c].idx = k
        BY <4>1 DEF Knows
      <4> QED
        BY <2>2, <3>1, <3>2, <4>2
    <3>3. CASE k = f
      BY <1>7, <2>2, <3>1, <3>3
    <3>4. CASE k > f
      <4>1. PICK j \in 0 .. n : k = j + 1
        <5>1. k - 1 \in 0 .. n /\ k = k - 1 + 1
          BY <3>1, <3>4
        <5> QED
          BY <5>1
      <4>2. j \in 0 .. last(rts[x]) /\ c = rts[x][j + 1]
        BY <1>1, <1>3, <1>7, <3>1, <3>4, <4>1
      <4>3. d[c].route = x /\ d[c].idx = j
        BY <4>2 DEF Knows
      <4> QED
        BY <2>2, <3>4, <4>1, <4>3
    <3> QED
      BY <3>1, <3>2, <3>3, <3>4
  <2> QED
    BY <2>1, <2>2
<1>12. d[w].route = 0 /\ \A y \in Route : y # 0
  BY DEF Route, TakenOut, InARoute
<1>13. Apart(out)
  <2> SUFFICES ASSUME NEW y \in Route, NEW z \in Route, NEW j \in 0 .. last(out[y]),
                      NEW k \in 0 .. last(out[z]), out[y][j + 1] = out[z][k + 1]
               PROVE  y = z /\ j = k
    BY DEF Apart
  <2>1. PICK c : c = out[y][j + 1] /\ c = out[z][k + 1]
    OBVIOUS
  <2>2. \/ c = w /\ y = x /\ j = f
        \/ /\ d[c].route = y
           /\ d[c].idx \in Int
           /\ j = IF y = x /\ d[c].idx >= f THEN d[c].idx + 1 ELSE d[c].idx
    BY <1>11, <2>1
  <2>3. \/ c = w /\ z = x /\ k = f
        \/ /\ d[c].route = z
           /\ d[c].idx \in Int
           /\ k = IF z = x /\ d[c].idx >= f THEN d[c].idx + 1 ELSE d[c].idx
    BY <1>11, <2>1
  <2> QED
    BY <1>12, <2>2, <2>3
<1>14. PICK W : W = {q[k + 1] : k \in f .. n + 1}
  OBVIOUS
<1>15. KnowsBut(out, d, W)
  <2>1. ASSUME NEW y \in Route, NEW k \in 0 .. last(out[y]), out[y][k + 1] \notin W
        PROVE  d[out[y][k + 1]].route = y /\ d[out[y][k + 1]].idx = k
    <3>1. PICK c : c = out[y][k + 1]
      OBVIOUS
    <3>2. CASE y # x
      <4>1. k \in 0 .. last(rts[y]) /\ c = rts[y][k + 1]
        BY <1>8, <3>1, <3>2
      <4> QED
        BY <3>1, <4>1 DEF Knows
    <3>3. CASE y = x
      <4>1. k \in 0 .. n + 1 /\ c = q[k + 1]
        BY <1>7, <1>8, <3>1, <3>3
      <4>2. k < f
        BY <1>14, <2>1, <3>1, <4>1
      <4>3. k \in 0 .. last(rts[x]) /\ c = rts[x][k + 1]
        BY <1>1, <1>3, <1>7, <4>1, <4>2
      <4> QED
        BY <3>1, <3>3, <4>3 DEF Knows
    <3> QED
      BY <3>2, <3>3
  <2>2. ASSUME NEW c \in Object, d[c].route # 0
        PROVE  \E y \in Route : \E k \in 0 .. last(out[y]) : out[y][k + 1] = c
    <3>1. PICK y \in Route : y = d[c].route
      BY <2>2 DEF Knows
    <3>2. PICK j \in 0 .. last(rts[y]) : j = d[c].idx /\ rts[y][j + 1] = c
      BY <2>2, <3>1 DEF Knows
    <3>3. CASE y # x
      BY <1>8, <3>2, <3>3
    <3>4. CASE y = x
      <4>1. j \in 0 .. n /\ r[j + 1] = c /\ last(out[x]) = n + 1
        BY <1>1, <1>3, <1>7, <1>8, <3>2, <3>4
      <4>2. CASE j < f
        <5>1. j \in 0 .. n + 1 /\ q[j + 1] = c
          BY <1>7, <4>1, <4>2
        <5> QED
          BY <1>8, <4>1, <5>1
      <4>3. CASE ~(j < f)
        <5>1. j + 1 \in 0 .. n + 1 /\ q[j + 1 + 1] = c
          BY <1>7, <4>1, <4>3
        <5> QED
          BY <1>8, <4>1, <5>1
      <4> QED
        BY <4>2, <4>3
    <3> QED
      BY <3>3, <3>4
  <2> QED
    BY <2>1, <2>2 DEF KnowsBut
<1>16. u \in [Object -> Data] /\ SameValues(d, u) /\ KnowsBut(out, u, {})
  <2>1. u = route_refresh_metadata_from(out, d, x, f) /\ f \in Nat
    BY <1>4
  <2>2. PICK V : V = {}
    OBVIOUS
  <2>3. Settled(out, x, f, W, V)
    BY <1>7, <1>8, <1>14 DEF Settled
  <2>4. Known(out, d, u, V)
    BY <1>10, <1>13, <1>15, <2>1, <2>3, RefreshKnows
  <2> QED
    BY <2>2, <2>4 DEF Known
<1> QED
  BY <1>10, <1>16, KnowsAll DEF Refit

\* Setting one object of a sequence.
Replaced(q, C, r, n, i, c) ==
  /\ q \in Seq(C) /\ Len(q) = n + 1 /\ last(q) = n
  /\ \A k \in 0 .. n : q[k + 1] = IF k = i THEN c ELSE r[k + 1]

\* Writing c over the node at the index i changes no other node of the route.
LEMMA ReplaceElements ==
  ASSUME NEW C, NEW r \in Seq(C), NEW n \in Nat, n = last(r), NEW i \in 0 .. n, NEW c \in C
  PROVE  Replaced([r EXCEPT ![i + 1] = c], C, r, n, i, c)
<1>1. Len(r) = n + 1
  BY DEF last
<1>2. PICK j \in 1 .. n + 1 : j = i + 1
  OBVIOUS
<1>3. PICK q : q = [r EXCEPT ![j] = c]
  OBVIOUS
<1>4. q \in Seq(C) /\ Len(q) = n + 1 /\ \A k \in 1 .. n + 1 : q[k] = IF k = j THEN c ELSE r[k]
  BY <1>1, <1>3
<1>5. \A k \in 0 .. n : k + 1 \in 1 .. n + 1 /\ (k + 1 = j <=> k = i)
  BY <1>2
<1>6. \A k \in 0 .. n : q[k + 1] = IF k = i THEN c ELSE r[k + 1]
  BY <1>4, <1>5
<1>7. last(q) = n
  BY <1>4 DEF last
<1> QED
  BY <1>2, <1>3, <1>4, <1>6, <1>7 DEF Replaced

\* The routes after v at the index i of x and w at the index j of y are exchanged.
Exchanged(out, rts, x, i, y, j, v, w) ==
  /\ out = [z \in Route |-> out[z]]
  /\ \A z \in Route : /\ out[z] \in Seq(Object) /\ Len(out[z]) = Len(rts[z]) /\ last(out[z]) = last(rts[z])
                      /\ \A k \in 0 .. last(rts[z]) :
                           out[z][k + 1] = IF z = y /\ k = j THEN v
                                           ELSE IF z = x /\ k = i THEN w ELSE rts[z][k + 1]

Exchange2(rts, x, i, y, j, v, w) == [rts EXCEPT ![x][i + 1] = w, ![y][j + 1] = v]

\* Two writes exchange v and w, in one route or between two.
LEMMA ExchangeElements ==
  ASSUME NEW rts, Shape(rts), NEW x \in Route, NEW y \in Route, NEW i \in 0 .. last(rts[x]),
         NEW j \in 0 .. last(rts[y]), NEW v \in Object, NEW w \in Object,
         NEW out, out = Exchange2(rts, x, i, y, j, v, w)
  PROVE  Exchanged(out, rts, x, i, y, j, v, w)
<1>1. PICK mid : mid = [rts EXCEPT ![x] = [@ EXCEPT ![i + 1] = w]]
  OBVIOUS
<1>2. out = [mid EXCEPT ![y] = [@ EXCEPT ![j + 1] = v]]
  BY <1>1 DEF Exchange2
<1>3. rts = [z \in Route |-> rts[z]] /\ \A z \in Route : rts[z] \in Seq(Object) /\ Len(rts[z]) >= 2
  BY DEF Shape, RouteShape
<1>4. PICK n \in Nat : n = last(rts[x]) /\ Len(rts[x]) = n + 1
  BY <1>3 DEF last
<1>5. mid[x] = [rts[x] EXCEPT ![i + 1] = w] /\ \A z \in Route : z # x => mid[z] = rts[z]
  BY <1>1, <1>3
<1>6. Replaced(mid[x], Object, rts[x], n, i, w)
  <2>1. PICK r \in Seq(Object) : r = rts[x]
    BY <1>3
  <2>2. n = last(r) /\ i \in 0 .. n
    BY <1>4, <2>1
  <2>3. Replaced([r EXCEPT ![i + 1] = w], Object, r, n, i, w)
    BY <2>2, ReplaceElements
  <2> QED
    BY <1>5, <2>1, <2>3
<1>7. PICK m \in Nat : m = last(rts[y]) /\ Len(rts[y]) = m + 1
  BY <1>3 DEF last
<1>8. mid[y] \in Seq(Object) /\ last(mid[y]) = m
  BY <1>3, <1>4, <1>5, <1>6, <1>7 DEF Replaced
<1>9. mid = [z \in Route |-> mid[z]]
  BY <1>1, <1>3
<1>10. /\ out[y] = [mid[y] EXCEPT ![j + 1] = v] /\ \A z \in Route : z # y => out[z] = mid[z]
       /\ out = [z \in Route |-> out[z]]
  BY <1>2, <1>9
<1>11. Replaced(out[y], Object, mid[y], m, j, v)
  BY <1>7, <1>8, <1>10, ReplaceElements
<1>12. ASSUME NEW z \in Route
       PROVE  /\ out[z] \in Seq(Object) /\ Len(out[z]) = Len(rts[z]) /\ last(out[z]) = last(rts[z])
              /\ \A k \in 0 .. last(rts[z]) :
                   out[z][k + 1] = IF z = y /\ k = j THEN v
                                   ELSE IF z = x /\ k = i THEN w ELSE rts[z][k + 1]
  <2>1. CASE z # y /\ z # x
    BY <1>3, <1>5, <1>10, <2>1
  <2>2. CASE z # y /\ z = x
    BY <1>4, <1>5, <1>6, <1>10, <2>2 DEF Replaced
  <2>3. CASE z = y /\ z # x
    BY <1>3, <1>5, <1>7, <1>11, <2>3 DEF Replaced
  <2>4. CASE z = y /\ z = x
    <3>1. /\ \A k \in 0 .. n : mid[x][k + 1] = IF k = i THEN w ELSE rts[x][k + 1]
          /\ m = n
      BY <1>4, <1>6, <1>7, <2>4 DEF Replaced
    <3>2. /\ out[x] \in Seq(Object) /\ Len(out[x]) = n + 1 /\ last(out[x]) = n
          /\ \A k \in 0 .. n : out[x][k + 1] = IF k = j THEN v ELSE mid[x][k + 1]
      BY <1>11, <2>4, <3>1 DEF Replaced
    <3> QED
      BY <1>4, <2>4, <3>1, <3>2
  <2> QED
    BY <2>1, <2>2, <2>3, <2>4
<1> QED
  BY <1>10, <1>12 DEF Exchanged

\* The place of a customer that knows one.
LEMMA PlaceOf ==
  ASSUME Instance(problem), NEW rts, Shape(rts), NEW d, Knows(rts, d), NEW v \in Customer, InARoute(d, v)
  PROVE  /\ d[v].route \in Route /\ rts[d[v].route][d[v].idx + 1] = v /\ v \in Object
         /\ last(rts[d[v].route]) \in Nat /\ d[v].idx \in 1 .. last(rts[d[v].route]) - 1
<1>1. v \in Object
  BY RoutesAssumption DEF Customer, Object, Instance
<1>2. PICK x \in Route : x = d[v].route
  BY <1>1 DEF Knows, InARoute
<1>3. PICK r : r = rts[x]
  OBVIOUS
<1>4. RouteShape(r, x) /\ ObjectRoute(r)
  BY <1>3, KnownRoutes DEF Shape
<1>5. PICK n \in Nat : n = last(r) /\ Len(r) = n + 1 /\ n >= 1
  <2>1. Len(r) \in Nat /\ Len(r) >= 2
    BY <1>4 DEF RouteShape
  <2> QED
    BY <2>1 DEF last
<1>6. PICK i \in 0 .. n : i = d[v].idx /\ r[i + 1] = v
  BY <1>1, <1>2, <1>3, <1>5 DEF Knows, InARoute
<1>7. i # 0 /\ i # n
  <2>1. r[1] \notin Customer /\ r[n + 1] \notin Customer
    BY <1>4, <1>5 DEF ObjectRoute
  <2> QED
    BY <1>6, <2>1
<1> QED
  BY <1>1, <1>2, <1>3, <1>5, <1>6, <1>7

AfterExchange(out, d, x, i, y, j, v, w) ==
  /\ Shape(out) /\ Apart(out) /\ KnowsBut(out, d, {v, w})
  /\ i \in Nat /\ i <= last(out[x]) /\ out[x][i + 1] = w
  /\ j \in Nat /\ j <= last(out[y]) /\ out[y][j + 1] = v

\* After two customers are exchanged only they have wrong places.
LEMMA ExchangeApart ==
  ASSUME Instance(problem), NEW rts, Shape(rts), NEW d, Knows(rts, d),
         NEW v \in Customer, NEW x \in Route, NEW i \in 0 .. last(rts[x]), v = rts[x][i + 1],
         NEW w \in Customer, NEW y \in Route, NEW j \in 0 .. last(rts[y]), w = rts[y][j + 1], v # w,
         NEW out, Exchanged(out, rts, x, i, y, j, v, w)
  PROVE  AfterExchange(out, d, x, i, y, j, v, w)
<1>1. /\ last(rts[x]) \in Nat /\ i \in 1 .. last(rts[x]) - 1 /\ v \in Object
      /\ d[v].route = x /\ d[v].idx = i
  <2>1. d[v].route = x /\ d[v].idx = i
    BY DEF Knows
  <2>2. InARoute(d, v)
    BY <2>1 DEF InARoute, Route
  <2> QED
    BY <2>1, <2>2, PlaceOf
<1>2. /\ last(rts[y]) \in Nat /\ j \in 1 .. last(rts[y]) - 1 /\ w \in Object
      /\ d[w].route = y /\ d[w].idx = j
  <2>1. d[w].route = y /\ d[w].idx = j
    BY DEF Knows
  <2>2. InARoute(d, w)
    BY <2>1 DEF InARoute, Route
  <2> QED
    BY <2>1, <2>2, PlaceOf
<1>4. ASSUME NEW z \in Route PROVE RouteShape(out[z], z)
  <2>1. PICK r : r = rts[z]
    OBVIOUS
  <2>2. PICK q : q = out[z]
    OBVIOUS
  <2>3. RouteShape(r, z)
    BY <2>1 DEF Shape
  <2>4. PICK n \in Nat : n = last(r) /\ Len(r) = n + 1 /\ n >= 1
    <3>1. Len(r) \in Nat /\ Len(r) >= 2
      BY <2>3 DEF RouteShape
    <3> QED
      BY <3>1 DEF last
  <2>5. /\ q \in Seq(Object) /\ Len(q) = n + 1
        /\ \A k \in 0 .. n : q[k + 1] = IF z = y /\ k = j THEN v
                                        ELSE IF z = x /\ k = i THEN w ELSE r[k + 1]
    BY <2>1, <2>2, <2>4 DEF Exchanged
  <2>6. /\ z = y => j \in 1 .. n - 1
        /\ z = x => i \in 1 .. n - 1
    BY <1>1, <1>2, <2>1, <2>4
  <2>7. q[1] = r[1] /\ q[n + 1] = r[n + 1]
    <3>1. 0 \in 0 .. n /\ n \in 0 .. n /\ 0 + 1 = 1
      OBVIOUS
    <3> QED
      BY <2>5, <2>6, <3>1
  <2>8. ASSUME NEW k \in 2 .. n PROVE q[k] \in Customer
    <3>1. k - 1 \in 0 .. n /\ k - 1 + 1 = k
      OBVIOUS
    <3>2. q[k] \in {v, w, r[k]}
      BY <2>5, <3>1
    <3>3. r[k] \in Customer
      BY <2>3, <2>4 DEF RouteShape
    <3> QED
      BY <3>2, <3>3
  <2>9. n + 1 - 1 = n /\ n + 1 >= 2
    BY <2>4
  <2> QED
    BY <2>2, <2>3, <2>4, <2>5, <2>7, <2>8, <2>9 DEF RouteShape
<1>5. Shape(out)
  BY <1>4 DEF Shape, Exchanged
<1>6. ASSUME NEW z \in Route, NEW k \in 0 .. last(out[z]), NEW c, c = out[z][k + 1]
      PROVE  /\ k \in 0 .. last(rts[z])
             /\ \/ c = v /\ z = y /\ k = j
                \/ c = w /\ z = x /\ k = i
                \/ c \notin {v, w} /\ d[c].route = z /\ d[c].idx = k
  <2>1. k \in 0 .. last(rts[z])
    BY <1>6 DEF Exchanged
  <2>2. c = IF z = y /\ k = j THEN v ELSE IF z = x /\ k = i THEN w ELSE rts[z][k + 1]
    BY <1>6, <2>1 DEF Exchanged
  <2>3. d[rts[z][k + 1]].route = z /\ d[rts[z][k + 1]].idx = k
    BY <2>1 DEF Knows
  <2>4. CASE z = y /\ k = j
    BY <2>1, <2>2, <2>4
  <2>5. CASE ~(z = y /\ k = j) /\ z = x /\ k = i
    BY <2>1, <2>2, <2>5
  <2>6. CASE ~(z = y /\ k = j) /\ ~(z = x /\ k = i)
    <3>1. c = rts[z][k + 1]
      BY <2>2, <2>6
    <3>2. c # v /\ c # w
      BY <1>1, <1>2, <2>3, <2>6, <3>1
    <3> QED
      BY <2>1, <2>3, <3>1, <3>2
  <2> QED
    BY <2>4, <2>5, <2>6
<1>7. Apart(out)
  <2> SUFFICES ASSUME NEW z \in Route, NEW t \in Route, NEW k \in 0 .. last(out[z]),
                      NEW m \in 0 .. last(out[t]), out[z][k + 1] = out[t][m + 1]
               PROVE  z = t /\ k = m
    BY DEF Apart
  <2>1. PICK c : c = out[z][k + 1] /\ c = out[t][m + 1]
    OBVIOUS
  <2>2. \/ c = v /\ z = y /\ k = j
        \/ c = w /\ z = x /\ k = i
        \/ c \notin {v, w} /\ d[c].route = z /\ d[c].idx = k
    BY <1>6, <2>1
  <2>3. \/ c = v /\ t = y /\ m = j
        \/ c = w /\ t = x /\ m = i
        \/ c \notin {v, w} /\ d[c].route = t /\ d[c].idx = m
    BY <1>6, <2>1
  <2> QED
    BY <2>2, <2>3
<1>8. i <= last(out[x]) /\ out[x][i + 1] = w
  <2>1. last(out[x]) = last(rts[x]) /\ ~(x = y /\ i = j)
    BY <1>1, <1>2 DEF Exchanged
  <2> QED
    BY <1>1, <2>1 DEF Exchanged
<1>9. j <= last(out[y]) /\ out[y][j + 1] = v
  <2>1. last(out[y]) = last(rts[y])
    BY DEF Exchanged
  <2> QED
    BY <1>2, <2>1 DEF Exchanged
<1>10. PICK W : W = {v, w}
  OBVIOUS
<1>11. KnowsBut(out, d, W)
  <2>1. ASSUME NEW z \in Route, NEW k \in 0 .. last(out[z]), out[z][k + 1] \notin W
        PROVE  d[out[z][k + 1]].route = z /\ d[out[z][k + 1]].idx = k
    <3>1. PICK c : c = out[z][k + 1] /\ c \notin {v, w}
      BY <1>10, <2>1
    <3>2. c \notin {v, w} /\ d[c].route = z /\ d[c].idx = k
      BY <1>6, <3>1
    <3> QED
      BY <3>1, <3>2
  <2>2. ASSUME NEW c \in Object, d[c].route # 0
        PROVE  \E z \in Route : \E k \in 0 .. last(out[z]) : out[z][k + 1] = c
    <3>1. CASE c = w
      <4>1. i \in 0 .. last(out[x])
        BY <1>1, <1>8
      <4> QED
        BY <1>8, <3>1, <4>1
    <3>2. CASE c = v
      <4>1. j \in 0 .. last(out[y])
        BY <1>2, <1>9
      <4> QED
        BY <1>9, <3>2, <4>1
    <3>3. CASE c # v /\ c # w
      <4>1. PICK z \in Route : z = d[c].route
        BY <2>2 DEF Knows
      <4>2. PICK k \in 0 .. last(rts[z]) : k = d[c].idx /\ rts[z][k + 1] = c
        BY <2>2, <4>1 DEF Knows
      <4>3. ~(z = y /\ k = j) /\ ~(z = x /\ k = i)
        BY <3>3, <4>2
      <4>4. out[z][k + 1] = c /\ k \in 0 .. last(out[z])
        BY <4>2, <4>3 DEF Exchanged
      <4> QED
        BY <4>4
    <3> QED
      BY <3>1, <3>2, <3>3
  <2> QED
    BY <2>1, <2>2 DEF KnowsBut
<1> QED
  BY <1>1, <1>2, <1>5, <1>7, <1>8, <1>9, <1>10, <1>11 DEF AfterExchange

\* Exchanging two customers leaves all where they believe to be.
LEMMA ExchangePlaces ==
  ASSUME Instance(problem), NEW rts, Shape(rts), NEW d \in [Object -> Data], Knows(rts, d),
         NEW v \in Customer, NEW x \in Route, NEW i \in 0 .. last(rts[x]), v = rts[x][i + 1],
         NEW w \in Customer, NEW y \in Route, NEW j \in 0 .. last(rts[y]), w = rts[y][j + 1], v # w,
         NEW out, Exchanged(out, rts, x, i, y, j, v, w),
         NEW g, g = route_refresh_metadata_from(out, d, x, i),
         NEW h \in Nat, h <= j, NEW u, u = route_refresh_metadata_from(out, g, y, h)
  PROVE  Refit(out, d, u)
<1>1. PICK W, V, E : W = {v, w} /\ V = {v} /\ E = {}
  OBVIOUS
<1>2. /\ Shape(out) /\ Apart(out) /\ KnowsBut(out, d, W)
      /\ i \in Nat /\ i <= last(out[x]) /\ out[x][i + 1] = w
      /\ j \in Nat /\ j <= last(out[y]) /\ out[y][j + 1] = v
  <2>1. AfterExchange(out, d, x, i, y, j, v, w)
    BY ExchangeApart
  <2> QED
    BY <1>1, <2>1 DEF AfterExchange
<1>3. last(out[x]) \in Int /\ last(out[y]) \in Int
  BY <1>2 DEF Shape, RouteShape, last
<1>4. PICK f \in Nat : f = i
  BY <1>2
<1>5. Known(out, d, g, V)
  <2>1. g = route_refresh_metadata_from(out, d, x, f)
    BY <1>4
  <2>2. i \in f .. last(out[x])
    BY <1>2, <1>3, <1>4
  <2>3. Settled(out, x, f, W, V)
    BY <1>1, <1>2, <2>2 DEF Settled
  <2> QED
    BY <1>2, <2>1, <2>3, RefreshKnows
<1>6. g \in [Object -> Data] /\ SameValues(d, g) /\ KnowsBut(out, g, V)
  BY <1>5 DEF Known
<1>7. Known(out, g, u, E)
  <2>1. j \in h .. last(out[y])
    BY <1>2, <1>3
  <2>2. Settled(out, y, h, V, E)
    BY <1>1, <1>2, <2>1 DEF Settled
  <2> QED
    BY <1>2, <1>6, <2>2, RefreshKnows
<1>8. u \in [Object -> Data] /\ SameValues(g, u) /\ KnowsBut(out, u, E)
  BY <1>7 DEF Known
<1>9. SameValues(d, u)
  BY <1>6, <1>8 DEF SameValues
<1>10. Knows(out, u)
  BY <1>1, <1>8, KnowsAll
<1> QED
  BY <1>1, <1>2, <1>8, <1>9, <1>10 DEF Refit

\* The head of one sequence up to the index i and the tail of another behind the index j.
Spliced(q, C, r, n, i, t, m, j) ==
  /\ q \in Seq(C) /\ Len(q) = i + 1 + m - j /\ last(q) = i + m - j
  /\ \A k \in 0 .. i + m - j : q[k + 1] = IF k <= i THEN r[k + 1] ELSE t[k - i + j + 1]

\* Splice at the indices i and j is the head of the one route and the tail of the other.
LEMMA SplicedElements ==
  ASSUME NEW C, NEW r \in Seq(C), NEW n \in Nat, n = last(r), NEW i \in 0 .. n,
         NEW t \in Seq(C), NEW m \in Nat, m = last(t), NEW j \in 0 .. m
  PROVE  Spliced(Splice(r, i + 1, t, j + 1), C, r, n, i, t, m, j)
<1>1. Len(r) = n + 1 /\ Len(t) = m + 1
  BY DEF last
<1>2. PICK a \in 0 .. Len(r), b \in 0 .. Len(t) : a = i + 1 /\ b = j + 1
  BY <1>1
<1>3. PICK q : q = Splice(r, a, t, b)
  OBVIOUS
<1>4. q \in Seq(C) /\ Len(q) = a + Len(t) - b
      /\ \A k \in 1 .. a + Len(t) - b : q[k] = IF k <= a THEN r[k] ELSE t[k - a + b]
  <2>1. Splice(r, a, t, b) \in Seq(C)
    BY SpliceElements
  <2>2. Len(Splice(r, a, t, b)) = a + Len(t) - b
    BY SpliceElements
  <2>3. \A k \in 1 .. a + Len(t) - b : Splice(r, a, t, b)[k] = IF k <= a THEN r[k] ELSE t[k - a + b]
    BY SpliceElements
  <2> QED
    BY <1>3, <2>1, <2>2, <2>3
<1>5. Len(q) = i + 1 + m - j /\ last(q) = i + m - j
  BY <1>1, <1>2, <1>4 DEF last
<1>6. ASSUME NEW k \in 0 .. i + m - j
      PROVE  q[k + 1] = IF k <= i THEN r[k + 1] ELSE t[k - i + j + 1]
  <2>1. a + Len(t) - b = i + 1 + m - j
    BY <1>1, <1>2
  <2>2. PICK x : x = a + Len(t) - b
    OBVIOUS
  <2>3. \A y \in 1 .. x : q[y] = IF y <= a THEN r[y] ELSE t[y - a + b]
    BY <1>4, <2>2
  <2>4. PICK y \in Int : y = k + 1
    OBVIOUS
  <2>5. y \in 1 .. x /\ (y <= a <=> k <= i)
    BY <1>2, <2>1, <2>2, <2>4
  <2>6. y - a + b = k - i + j + 1
    BY <1>2, <2>4
  <2>7. q[y] = IF y <= a THEN r[y] ELSE t[y - a + b]
    BY <2>3, <2>5
  <2>8. CASE k <= i
    BY <2>4, <2>5, <2>7, <2>8
  <2>9. CASE ~(k <= i)
    BY <2>4, <2>5, <2>6, <2>7, <2>9
  <2> QED
    BY <2>8, <2>9
<1> QED
  BY <1>2, <1>3, <1>4, <1>5, <1>6 DEF Spliced

\* The tails behind the index i of route x and behind the index j of route y are exchanged.
TailsExchanged(out, rts, x, i, y, j) ==
  /\ out = [z \in Route |-> out[z]]
  /\ \A z \in Route : z # x /\ z # y => out[z] = rts[z]
  /\ Spliced(out[x], Object, rts[x], last(rts[x]), i, rts[y], last(rts[y]), j)
  /\ Spliced(out[y], Object, rts[y], last(rts[y]), j, rts[x], last(rts[x]), i)

\* The two splices of TWO_OPT exchange the tails of the two routes.
LEMMA TwoOptElements ==
  ASSUME NEW rts, Shape(rts), NEW x \in Route, NEW y \in Route, x # y,
         NEW i \in 0 .. last(rts[x]), NEW j \in 0 .. last(rts[y]),
         NEW out, out = [rts EXCEPT ![x] = Splice(rts[x], i + 1, rts[y], j + 1),
                                    ![y] = Splice(rts[y], j + 1, rts[x], i + 1)]
  PROVE  TailsExchanged(out, rts, x, i, y, j)
<1>1. PICK r, t : r = rts[x] /\ t = rts[y]
  OBVIOUS
<1>2. r \in Seq(Object) /\ Len(r) >= 2 /\ t \in Seq(Object) /\ Len(t) >= 2
  BY <1>1 DEF Shape, RouteShape
<1>3. PICK n \in Nat, m \in Nat : n = last(r) /\ m = last(t)
  BY <1>2 DEF last
<1>4. i \in 0 .. n /\ j \in 0 .. m
  BY <1>1, <1>3
<1>5. Spliced(Splice(r, i + 1, t, j + 1), Object, r, n, i, t, m, j)
  BY <1>2, <1>3, <1>4, SplicedElements
<1>6. Spliced(Splice(t, j + 1, r, i + 1), Object, t, m, j, r, n, i)
  BY <1>2, <1>3, <1>4, SplicedElements
<1>7. /\ out[x] = Splice(r, i + 1, t, j + 1) /\ out[y] = Splice(t, j + 1, r, i + 1)
      /\ \A z \in Route : z # x /\ z # y => out[z] = rts[z]
      /\ out = [z \in Route |-> out[z]]
  BY <1>1 DEF Shape
<1> QED
  BY <1>1, <1>3, <1>5, <1>6, <1>7 DEF TailsExchanged

\* A head and the tail of another route are a route.
LEMMA SplicedShape ==
  ASSUME NEW x, NEW y, NEW r, RouteShape(r, x), NEW n \in Nat, n = last(r), NEW i \in 0 .. n - 1,
         NEW t, RouteShape(t, y), NEW m \in Nat, m = last(t), NEW j \in 0 .. m - 1,
         NEW q, Spliced(q, Object, r, n, i, t, m, j)
  PROVE  RouteShape(q, x)
<1>1. PICK s \in Nat : s = i + m - j /\ s > i /\ i + 1 + m - j = s + 1
  <2>1. i + m - j \in Nat /\ i + m - j > i /\ i + 1 + m - j = i + m - j + 1
    OBVIOUS
  <2> QED
    BY <2>1
<1>2. /\ q \in Seq(Object) /\ Len(q) = s + 1
      /\ \A k \in 0 .. s : q[k + 1] = IF k <= i THEN r[k + 1] ELSE t[k - i + j + 1]
  BY <1>1 DEF Spliced
<1>3. Len(r) = n + 1 /\ Len(t) = m + 1
  <2>1. Len(r) \in Nat /\ Len(t) \in Nat
    BY DEF RouteShape
  <2> QED
    BY <2>1 DEF last
<1>4. q[1] = r[1] /\ q[s + 1] = t[m + 1]
  <2>1. 0 \in 0 .. s /\ 0 <= i /\ 0 + 1 = 1 /\ s \in 0 .. s /\ ~(s <= i) /\ s - i + j = m
    BY <1>1
  <2>2. q[0 + 1] = r[0 + 1]
    BY <1>2, <2>1
  <2>3. q[s + 1] = t[s - i + j + 1]
    BY <1>2, <2>1
  <2> QED
    BY <2>1, <2>2, <2>3
<1>5. ASSUME NEW k \in 2 .. s PROVE q[k] \in Customer
  <2>1. PICK h \in 1 .. s - 1 : k = h + 1
    <3>1. k - 1 \in 1 .. s - 1 /\ k = k - 1 + 1
      OBVIOUS
    <3> QED
      BY <3>1
  <2>2. CASE h <= i
    <3>1. q[k] = r[h + 1]
      BY <1>2, <2>1, <2>2
    <3>2. h + 1 \in 2 .. Len(r) - 1
      BY <1>3, <2>2
    <3> QED
      BY <3>1, <3>2 DEF RouteShape
  <2>3. CASE ~(h <= i)
    <3>1. q[k] = t[h - i + j + 1]
      BY <1>2, <2>1, <2>3
    <3>2. h - i + j + 1 \in 2 .. Len(t) - 1
      <4>1. h - i + j + 1 \in 2 .. m
        BY <1>1, <2>3
      <4>2. Len(t) - 1 = m
        BY <1>3
      <4> QED
        BY <4>1, <4>2
    <3> QED
      BY <3>1, <3>2 DEF RouteShape
  <2> QED
    BY <2>2, <2>3
<1>6. r[1] = HeadOf(x) /\ t[m + 1] \in Tails
  BY <1>3 DEF RouteShape
<1>7. s + 1 >= 2 /\ s + 1 - 1 = s
  BY <1>1
<1> QED
  BY <1>2, <1>4, <1>5, <1>6, <1>7 DEF RouteShape

\* The objects of such a route come from the two others, each from one place.
FromEither(q, r, n, i, t, m, j) ==
  \A k \in 0 .. last(q) :
    \/ k \in 0 .. n /\ k <= i /\ q[k + 1] = r[k + 1]
    \/ \E h \in 0 .. m : h > j /\ k = h - j + i /\ q[k + 1] = t[h + 1]

HasBoth(q, r, n, i, t, m, j) ==
  /\ \A k \in 0 .. i : k \in 0 .. last(q) /\ q[k + 1] = r[k + 1]
  /\ \A h \in j + 1 .. m : h - j + i \in i + 1 .. last(q) /\ q[h - j + i + 1] = t[h + 1]

\* The nodes of a spliced route are those of its two parts, each at its index or shifted.
LEMMA SplicedPlaces ==
  ASSUME NEW r, NEW n \in Nat, NEW i \in 0 .. n - 1, NEW t, NEW m \in Nat, NEW j \in 0 .. m - 1,
         NEW q, Spliced(q, Object, r, n, i, t, m, j)
  PROVE  FromEither(q, r, n, i, t, m, j) /\ HasBoth(q, r, n, i, t, m, j)
<1>1. PICK s \in Nat : s = i + m - j /\ s > i
  <2>1. i + m - j \in Nat /\ i + m - j > i
    OBVIOUS
  <2> QED
    BY <2>1
<1>2. /\ last(q) = s
      /\ \A k \in 0 .. s : q[k + 1] = IF k <= i THEN r[k + 1] ELSE t[k - i + j + 1]
  BY <1>1 DEF Spliced
<1>3. ASSUME NEW k \in 0 .. s
      PROVE  \/ k \in 0 .. n /\ k <= i /\ q[k + 1] = r[k + 1]
             \/ \E h \in 0 .. m : h > j /\ k = h - j + i /\ q[k + 1] = t[h + 1]
  <2>1. CASE k <= i
    BY <1>2, <2>1
  <2>2. CASE ~(k <= i)
    <3>1. PICK h \in 0 .. m : h = k - i + j
      <4>1. k - i + j \in 0 .. m
        BY <1>1, <2>2
      <4> QED
        BY <4>1
    <3>2. h > j /\ k = h - j + i
      BY <2>2, <3>1
    <3>3. q[k + 1] = t[h + 1]
      BY <1>2, <2>2, <3>1
    <3> QED
      BY <3>2, <3>3
  <2> QED
    BY <2>1, <2>2
<1>4. \A k \in 0 .. i : k \in 0 .. s /\ q[k + 1] = r[k + 1]
  BY <1>1, <1>2
<1>5. ASSUME NEW h \in j + 1 .. m
      PROVE  h - j + i \in i + 1 .. s /\ q[h - j + i + 1] = t[h + 1]
  <2>1. PICK k \in i + 1 .. s : k = h - j + i
    <3>1. h - j + i \in i + 1 .. s
      BY <1>1
    <3> QED
      BY <3>1
  <2>2. k \in 0 .. s /\ ~(k <= i) /\ k - i + j = h
    BY <1>1, <2>1
  <2>3. q[k + 1] = t[h + 1]
    BY <1>2, <2>2
  <2> QED
    BY <2>1, <2>3
<1> QED
  BY <1>2, <1>3, <1>4, <1>5 DEF FromEither, HasBoth

\* After two tails are exchanged the objects before them have the right places.
AfterTwoOpt(out, d, x, i, y, j) ==
  /\ Shape(out) /\ Apart(out)
  /\ KnowsBut(out, d, {out[x][k + 1] : k \in i + 1 .. last(out[x])}
                        \cup {out[y][k + 1] : k \in j + 1 .. last(out[y])})

\* TWO_OPT keeps the routes apart, and only the places of the exchanged tails are stale.
LEMMA TwoOptApart ==
  ASSUME Instance(problem), NEW rts, Shape(rts), NEW d, Knows(rts, d),
         NEW x \in Route, NEW i \in Nat, i < last(rts[x]),
         NEW y \in Route, NEW j \in Nat, j < last(rts[y]), x # y,
         NEW out, TailsExchanged(out, rts, x, i, y, j)
  PROVE  AfterTwoOpt(out, d, x, i, y, j)
<1>1. PICK r, t : r = rts[x] /\ t = rts[y]
  OBVIOUS
<1>2. PICK q, b : q = out[x] /\ b = out[y]
  OBVIOUS
<1>3. RouteShape(r, x) /\ RouteShape(t, y)
  BY <1>1 DEF Shape
<1>4. PICK n \in Nat, m \in Nat : n = last(r) /\ m = last(t)
  <2>1. Len(r) \in Nat /\ Len(r) >= 2 /\ Len(t) \in Nat /\ Len(t) >= 2
    BY <1>3 DEF RouteShape
  <2>2. last(r) \in Nat /\ last(t) \in Nat
    BY <2>1 DEF last
  <2> QED
    BY <2>2
<1>5. i \in 0 .. n - 1 /\ j \in 0 .. m - 1
  BY <1>1, <1>4
<1>6. Spliced(q, Object, r, n, i, t, m, j) /\ Spliced(b, Object, t, m, j, r, n, i)
  BY <1>1, <1>2, <1>4 DEF TailsExchanged
<1>7. RouteShape(q, x) /\ RouteShape(b, y)
  BY <1>3, <1>4, <1>5, <1>6, SplicedShape
<1>8. /\ FromEither(q, r, n, i, t, m, j) /\ HasBoth(q, r, n, i, t, m, j)
      /\ FromEither(b, t, m, j, r, n, i) /\ HasBoth(b, t, m, j, r, n, i)
  BY <1>5, <1>6, SplicedPlaces
<1>9. out = [z \in Route |-> out[z]] /\ \A z \in Route : z # x /\ z # y => out[z] = rts[z]
  BY DEF TailsExchanged
<1>10. Shape(out)
  <2>1. \A z \in Route : RouteShape(out[z], z)
    BY <1>2, <1>7, <1>9 DEF Shape
  <2> QED
    BY <1>9, <2>1 DEF Shape
<1>11. /\ \A k \in 0 .. n : d[r[k + 1]].route = x /\ d[r[k + 1]].idx = k
       /\ \A k \in 0 .. m : d[t[k + 1]].route = y /\ d[t[k + 1]].idx = k
  BY <1>1, <1>4 DEF Knows
<1>12. ASSUME NEW z \in Route, NEW k \in 0 .. last(out[z]), NEW c, c = out[z][k + 1]
       PROVE  /\ d[c].route \in Route /\ d[c].idx \in Int
              /\ \/ z # x /\ z # y /\ d[c].route = z /\ d[c].idx = k
                 \/ z = x /\ k <= i /\ d[c].route = x /\ d[c].idx = k
                 \/ z = x /\ k > i /\ d[c].route = y /\ d[c].idx > j /\ k = d[c].idx - j + i
                 \/ z = y /\ k <= j /\ d[c].route = y /\ d[c].idx = k
                 \/ z = y /\ k > j /\ d[c].route = x /\ d[c].idx > i /\ k = d[c].idx - i + j
  <2>1. CASE z # x /\ z # y
    <3>1. k \in 0 .. last(rts[z]) /\ c = rts[z][k + 1]
      BY <1>9, <1>12, <2>1
    <3>2. d[c].route = z /\ d[c].idx = k
      BY <3>1 DEF Knows
    <3> QED
      BY <2>1, <3>2
  <2>2. CASE z = x
    <3>1. k \in 0 .. last(q) /\ c = q[k + 1]
      BY <1>2, <1>12, <2>2
    <3>2. \/ k \in 0 .. n /\ k <= i /\ q[k + 1] = r[k + 1]
          \/ \E h \in 0 .. m : h > j /\ k = h - j + i /\ q[k + 1] = t[h + 1]
      BY <1>8, <3>1 DEF FromEither
    <3>3. CASE k \in 0 .. n /\ k <= i /\ q[k + 1] = r[k + 1]
      <4>1. d[c].route = x /\ d[c].idx = k
        BY <1>11, <3>1, <3>3
      <4> QED
        BY <2>2, <3>3, <4>1
    <3>4. CASE \E h \in 0 .. m : h > j /\ k = h - j + i /\ q[k + 1] = t[h + 1]
      <4>1. PICK h \in 0 .. m : h > j /\ k = h - j + i /\ q[k + 1] = t[h + 1]
        BY <3>4
      <4>2. d[c].route = y /\ d[c].idx = h
        BY <1>11, <3>1, <4>1
      <4>3. k > i
        BY <4>1
      <4> QED
        BY <2>2, <4>1, <4>2, <4>3
    <3> QED
      BY <3>2, <3>3, <3>4
  <2>3. CASE z = y
    <3>1. k \in 0 .. last(b) /\ c = b[k + 1]
      BY <1>2, <1>12, <2>3
    <3>2. \/ k \in 0 .. m /\ k <= j /\ b[k + 1] = t[k + 1]
          \/ \E h \in 0 .. n : h > i /\ k = h - i + j /\ b[k + 1] = r[h + 1]
      BY <1>8, <3>1 DEF FromEither
    <3>3. CASE k \in 0 .. m /\ k <= j /\ b[k + 1] = t[k + 1]
      <4>1. d[c].route = y /\ d[c].idx = k
        BY <1>11, <3>1, <3>3
      <4> QED
        BY <2>3, <3>3, <4>1
    <3>4. CASE \E h \in 0 .. n : h > i /\ k = h - i + j /\ b[k + 1] = r[h + 1]
      <4>1. PICK h \in 0 .. n : h > i /\ k = h - i + j /\ b[k + 1] = r[h + 1]
        BY <3>4
      <4>2. d[c].route = x /\ d[c].idx = h
        BY <1>11, <3>1, <4>1
      <4>3. k > j
        BY <4>1
      <4> QED
        BY <2>3, <4>1, <4>2, <4>3
    <3> QED
      BY <3>2, <3>3, <3>4
  <2> QED
    BY <2>1, <2>2, <2>3
<1>13. Apart(out)
  <2> SUFFICES ASSUME NEW z \in Route, NEW w \in Route, NEW k \in 0 .. last(out[z]),
                      NEW h \in 0 .. last(out[w]), out[z][k + 1] = out[w][h + 1]
               PROVE  z = w /\ k = h
    BY DEF Apart
  <2>1. PICK c : c = out[z][k + 1] /\ c = out[w][h + 1]
    OBVIOUS
  <2>2. PICK a \in Route, p \in Int : a = d[c].route /\ p = d[c].idx
    BY <1>12, <2>1
  <2>3. \/ z # x /\ z # y /\ a = z /\ p = k
        \/ z = x /\ k <= i /\ a = x /\ p = k
        \/ z = x /\ k > i /\ a = y /\ p > j /\ k = p - j + i
        \/ z = y /\ k <= j /\ a = y /\ p = k
        \/ z = y /\ k > j /\ a = x /\ p > i /\ k = p - i + j
    BY <1>12, <2>1, <2>2
  <2>4. \/ w # x /\ w # y /\ a = w /\ p = h
        \/ w = x /\ h <= i /\ a = x /\ p = h
        \/ w = x /\ h > i /\ a = y /\ p > j /\ h = p - j + i
        \/ w = y /\ h <= j /\ a = y /\ p = h
        \/ w = y /\ h > j /\ a = x /\ p > i /\ h = p - i + j
    BY <1>12, <2>1, <2>2
  <2>5. k \in Int /\ h \in Int
    OBVIOUS
  <2> QED
    BY <2>3, <2>4, <2>5
<1>14. PICK W : W = {out[x][k + 1] : k \in i + 1 .. last(out[x])}
                      \cup {out[y][k + 1] : k \in j + 1 .. last(out[y])}
  OBVIOUS
<1>15. ASSUME NEW z \in Route, NEW k \in 0 .. last(out[z]), out[z][k + 1] \notin W
       PROVE  d[out[z][k + 1]].route = z /\ d[out[z][k + 1]].idx = k
  <2>1. PICK c : c = out[z][k + 1]
    OBVIOUS
  <2>2. ~(z = x /\ k > i) /\ ~(z = y /\ k > j)
    <3>1. z = x /\ k > i => k \in i + 1 .. last(out[x])
      OBVIOUS
    <3>2. z = y /\ k > j => k \in j + 1 .. last(out[y])
      OBVIOUS
    <3> QED
      BY <1>14, <1>15, <3>1, <3>2
  <2> QED
    BY <1>12, <2>1, <2>2
<1>16. ASSUME NEW c \in Object, d[c].route # 0
       PROVE  \E z \in Route : \E k \in 0 .. last(out[z]) : out[z][k + 1] = c
  <2>1. PICK z \in Route : z = d[c].route
    BY <1>16 DEF Knows
  <2>2. PICK k \in 0 .. last(rts[z]) : k = d[c].idx /\ rts[z][k + 1] = c
    BY <1>16, <2>1 DEF Knows
  <2>3. CASE z # x /\ z # y
    BY <1>9, <2>2, <2>3
  <2>4. CASE z = x
    <3>1. k \in 0 .. n /\ r[k + 1] = c
      BY <1>1, <1>4, <2>2, <2>4
    <3>2. CASE k <= i
      <4>1. k \in 0 .. last(q) /\ q[k + 1] = r[k + 1]
        BY <1>8, <3>1, <3>2 DEF HasBoth
      <4> QED
        BY <1>2, <3>1, <4>1
    <3>3. CASE k > i
      <4>1. k \in i + 1 .. n
        BY <3>1, <3>3
      <4>2. k - i + j \in j + 1 .. last(b) /\ b[k - i + j + 1] = r[k + 1]
        BY <1>8, <4>1 DEF HasBoth
      <4>3. k - i + j \in 0 .. last(b)
        BY <4>2
      <4> QED
        BY <1>2, <3>1, <4>2, <4>3
    <3> QED
      BY <3>1, <3>2, <3>3
  <2>5. CASE z = y
    <3>1. k \in 0 .. m /\ t[k + 1] = c
      BY <1>1, <1>4, <2>2, <2>5
    <3>2. CASE k <= j
      <4>1. k \in 0 .. last(b) /\ b[k + 1] = t[k + 1]
        BY <1>8, <3>1, <3>2 DEF HasBoth
      <4> QED
        BY <1>2, <3>1, <4>1
    <3>3. CASE k > j
      <4>1. k \in j + 1 .. m
        BY <3>1, <3>3
      <4>2. k - j + i \in i + 1 .. last(q) /\ q[k - j + i + 1] = t[k + 1]
        BY <1>8, <4>1 DEF HasBoth
      <4>3. k - j + i \in 0 .. last(q)
        BY <4>2
      <4> QED
        BY <1>2, <3>1, <4>2, <4>3
    <3> QED
      BY <3>1, <3>2, <3>3
  <2> QED
    BY <2>3, <2>4, <2>5
<1>17. KnowsBut(out, d, W)
  BY <1>15, <1>16 DEF KnowsBut
<1> QED
  BY <1>10, <1>13, <1>14, <1>17 DEF AfterTwoOpt

\* Exchanging two tails leaves all where they believe to be.
LEMMA TwoOptPlaces ==
  ASSUME Instance(problem), NEW rts, Shape(rts), NEW d \in [Object -> Data], Knows(rts, d),
         NEW x \in Route, NEW i \in Nat, i < last(rts[x]),
         NEW y \in Route, NEW j \in Nat, j < last(rts[y]), x # y,
         NEW out, TailsExchanged(out, rts, x, i, y, j),
         NEW g, g = route_refresh_metadata_from(out, d, x, i + 1),
         NEW u, u = route_refresh_metadata_from(out, g, y, j + 1)
  PROVE  Refit(out, d, u)
<1>1. PICK V : V = {out[y][k + 1] : k \in j + 1 .. last(out[y])}
  OBVIOUS
<1>2. PICK W : W = {out[x][k + 1] : k \in i + 1 .. last(out[x])} \cup V
  OBVIOUS
<1>3. PICK E : E = {}
  OBVIOUS
<1>4. Shape(out) /\ Apart(out) /\ KnowsBut(out, d, W)
  <2>1. AfterTwoOpt(out, d, x, i, y, j)
    BY TwoOptApart
  <2> QED
    BY <1>1, <1>2, <2>1 DEF AfterTwoOpt
<1>5. PICK a \in Nat, b \in Nat : a = i + 1 /\ b = j + 1
  OBVIOUS
<1>6. Known(out, d, g, V)
  <2>1. Settled(out, x, a, W, V)
    BY <1>2, <1>5 DEF Settled
  <2>2. g = route_refresh_metadata_from(out, d, x, a)
    BY <1>5
  <2> QED
    BY <1>4, <2>1, <2>2, RefreshKnows
<1>7. g \in [Object -> Data] /\ SameValues(d, g) /\ KnowsBut(out, g, V)
  BY <1>6 DEF Known
<1>8. Known(out, g, u, E)
  <2>1. Settled(out, y, b, V, E)
    BY <1>1, <1>5 DEF Settled
  <2>2. u = route_refresh_metadata_from(out, g, y, b)
    BY <1>5
  <2> QED
    BY <1>4, <1>7, <2>1, <2>2, RefreshKnows
<1>9. u \in [Object -> Data] /\ SameValues(g, u) /\ Knows(out, u)
  BY <1>3, <1>8, KnowsAll DEF Known
<1>10. SameValues(d, u)
  BY <1>7, <1>9 DEF SameValues
<1> QED
  BY <1>4, <1>9, <1>10 DEF Refit
-----------------------------------------------------------------------------
(***************************************************************************)
(* Values: those on the side of a node that no change is on stay exact.    *)
(***************************************************************************)
Exact(r, d) == Cached(r, d, Len(r), -1)

\* With the same objects up to an index, the values of the prefixes stay.
LEMMA HeadCached ==
  ASSUME Instance(problem), NEW q, ObjectRoute(q), NEW r, ObjectRoute(r), NEW d, Exact(r, d),
         NEW m \in Nat, m <= last(q), m <= last(r), \A k \in 0 .. m : q[k + 1] = r[k + 1]
  PROVE  \A k \in 0 .. m : Forward(q, d, k)
<1>1. PICK p, s : p = IdsOf(q) /\ s = IdsOf(r)
  OBVIOUS
<1>2. /\ RouteOf(problem, p) /\ RouteOf(problem, s)
      /\ last(q) = Len(p) + 1 /\ last(r) = Len(s) + 1
      /\ \A k \in 0 .. last(q) : Id(p, k) = id(q[k + 1])
      /\ \A k \in 0 .. last(r) : Id(s, k) = id(r[k + 1])
  BY <1>1, RouteIds
<1>3. PICK n \in Nat, t \in Nat : n = last(q) /\ t = last(r) /\ Len(r) = t + 1
  <2>1. Len(r) \in Nat /\ Len(q) \in Nat /\ Len(r) >= 2 /\ Len(q) >= 2
    BY DEF ObjectRoute
  <2>2. last(q) \in Nat /\ last(r) \in Nat /\ Len(r) = last(r) + 1
    BY <2>1 DEF last
  <2> QED
    BY <2>2
<1>4. \A k \in 0 .. m : k \in 0 .. n /\ k \in 0 .. t /\ k < t + 1
  BY <1>3
<1>5. SameHead(p, s, m)
  <2>1. \A k \in 0 .. m : Id(p, k) = Id(s, k)
    BY <1>2, <1>3, <1>4
  <2> QED
    BY <1>2, <2>1 DEF SameHead
<1>6. ASSUME NEW k \in 0 .. m PROVE Forward(q, d, k)
  <2>1. Forward(r, d, k)
    BY <1>3, <1>4 DEF Exact, Cached
  <2>2. /\ Arrivals(problem, p)[k] = Arrivals(problem, s)[k]
        /\ PrefixLateness(problem, p)[k] = PrefixLateness(problem, s)[k]
        /\ PrefixDemand(problem, p)[k] = PrefixDemand(problem, s)[k]
    BY <1>2, <1>5, HeadLocal
  <2> QED
    BY <1>1, <2>1, <2>2 DEF Forward
<1> QED
  BY <1>6

\* With the same objects from the tail to an index, those of the suffixes.
LEMMA TailCached ==
  ASSUME Instance(problem), NEW q, ObjectRoute(q), NEW r, ObjectRoute(r), NEW d, Exact(r, d),
         NEW m \in Nat, m <= last(q), m <= last(r),
         \A k \in 0 .. m : q[last(q) - k + 1] = r[last(r) - k + 1]
  PROVE  \A k \in 0 .. m : Backward(q, d, last(q) - k)
<1>1. PICK p, s : p = IdsOf(q) /\ s = IdsOf(r)
  OBVIOUS
<1>2. /\ RouteOf(problem, p) /\ RouteOf(problem, s)
      /\ last(q) = Len(p) + 1 /\ last(r) = Len(s) + 1
      /\ \A k \in 0 .. last(q) : Id(p, k) = id(q[k + 1])
      /\ \A k \in 0 .. last(r) : Id(s, k) = id(r[k + 1])
  BY <1>1, RouteIds
<1>3. PICK n \in Nat, t \in Nat : n = last(q) /\ t = last(r) /\ Len(r) = t + 1
  <2>1. Len(r) \in Nat /\ Len(q) \in Nat /\ Len(r) >= 2 /\ Len(q) >= 2
    BY DEF ObjectRoute
  <2>2. last(q) \in Nat /\ last(r) \in Nat /\ Len(r) = last(r) + 1
    BY <2>1 DEF last
  <2> QED
    BY <2>2
<1>4. ASSUME NEW k \in 0 .. m
      PROVE  /\ n - k \in 0 .. n /\ t - k \in 0 .. t /\ t - k > -1
             /\ FromTail(p, k) = n - k /\ FromTail(s, k) = t - k
             /\ q[n - k + 1] = r[t - k + 1]
  <2>1. n - k \in 0 .. n /\ t - k \in 0 .. t /\ t - k > -1
    BY <1>3
  <2>2. FromTail(p, k) = n - k /\ FromTail(s, k) = t - k
    BY <1>2, <1>3 DEF FromTail
  <2>3. q[n - k + 1] = r[t - k + 1]
    BY <1>3
  <2> QED
    BY <2>1, <2>2, <2>3
<1>5. SameTail(p, s, m)
  <2>1. ASSUME NEW k \in 0 .. m PROVE Id(p, FromTail(p, k)) = Id(s, FromTail(s, k))
    <3>1. Id(p, n - k) = id(q[n - k + 1]) /\ Id(s, t - k) = id(r[t - k + 1])
      BY <1>2, <1>3, <1>4
    <3> QED
      BY <1>4, <3>1
  <2> QED
    BY <1>2, <2>1 DEF SameTail
<1>6. ASSUME NEW k \in 0 .. m PROVE Backward(q, d, last(q) - k)
  <2>1. PICK a, b : a = n - k /\ b = t - k
    OBVIOUS
  <2>2. Backward(r, d, b)
    BY <1>3, <1>4, <2>1 DEF Exact, Cached
  <2>3. /\ LatestStarts(problem, p)[a] = LatestStarts(problem, s)[b]
        /\ SuffixLateness(problem, p)[a] = SuffixLateness(problem, s)[b]
        /\ SuffixDemand(problem, p)[a] = SuffixDemand(problem, s)[b]
    <3>1. /\ LatestStarts(problem, p)[FromTail(p, k)] = LatestStarts(problem, s)[FromTail(s, k)]
          /\ SuffixLateness(problem, p)[FromTail(p, k)] = SuffixLateness(problem, s)[FromTail(s, k)]
          /\ SuffixDemand(problem, p)[FromTail(p, k)] = SuffixDemand(problem, s)[FromTail(s, k)]
      BY <1>2, <1>5, TailLocal
    <3> QED
      BY <1>4, <2>1, <3>1
  <2>4. q[a + 1] = r[b + 1]
    BY <1>4, <2>1
  <2>5. Backward(q, d, a)
    BY <1>1, <2>2, <2>3, <2>4 DEF Backward
  <2> QED
    BY <1>3, <2>1, <2>5
<1> QED
  BY <1>6

\* Two routes have the same objects before the index f, and the last h + 1.
SameBefore(q, r, f) == \A k \in 0 .. f - 1 : q[k + 1] = r[k + 1]
SameBehind(q, m, r, n, h) == \A k \in 0 .. h : q[m - k + 1] = r[n - k + 1]

\* A change between two places leaves the prefixes before and the suffixes behind it exact.
LEMMA GapCached ==
  ASSUME Instance(problem), NEW q, ObjectRoute(q), NEW r, ObjectRoute(r), NEW d, Exact(r, d),
         NEW n \in Nat, n = last(r), NEW m \in Nat, m = last(q),
         NEW f \in Nat, f >= 1, f <= n + 1, f <= m + 1, SameBefore(q, r, f),
         NEW h \in Nat, h <= n, h <= m, SameBehind(q, m, r, n, h)
  PROVE  Cached(q, d, f, m - h - 1)
<1>1. \A k \in 0 .. f - 1 : Forward(q, d, k)
  <2>1. PICK g \in Nat : g = f - 1 /\ g <= n /\ g <= m
    <3>1. f - 1 \in Nat /\ f - 1 <= n /\ f - 1 <= m
      OBVIOUS
    <3> QED
      BY <3>1
  <2>2. \A k \in 0 .. g : q[k + 1] = r[k + 1]
    BY <2>1 DEF SameBefore
  <2>3. \A k \in 0 .. g : Forward(q, d, k)
    BY <2>1, <2>2, HeadCached
  <2> QED
    BY <2>1, <2>3
<1>2. \A k \in 0 .. h : Backward(q, d, m - k)
  <2>1. \A k \in 0 .. h : q[last(q) - k + 1] = r[last(r) - k + 1]
    BY DEF SameBehind
  <2>2. \A k \in 0 .. h : Backward(q, d, last(q) - k)
    BY <2>1, TailCached
  <2> QED
    BY <2>2
<1>3. ASSUME NEW k \in 0 .. m PROVE (k < f => Forward(q, d, k)) /\ (k > m - h - 1 => Backward(q, d, k))
  <2>1. k < f => Forward(q, d, k)
    <3>1. k < f => k \in 0 .. f - 1
      OBVIOUS
    <3> QED
      BY <1>1, <3>1
  <2>2. k > m - h - 1 => Backward(q, d, k)
    <3> SUFFICES ASSUME k > m - h - 1 PROVE Backward(q, d, k)
      OBVIOUS
    <3>1. PICK g \in 0 .. h : g = m - k
      <4>1. m - k \in 0 .. h
        OBVIOUS
      <4> QED
        BY <4>1
    <3>2. Backward(q, d, m - g)
      BY <1>2
    <3>3. m - g = k
      BY <3>1
    <3> QED
      BY <3>2, <3>3
  <2> QED
    BY <2>1, <2>2
<1> QED
  BY <1>3 DEF Cached

\* Where an object was taken out, the values on both sides stay exact.
LEMMA RemoveCached ==
  ASSUME Instance(problem), NEW r, ObjectRoute(r), NEW d, Exact(r, d),
         NEW n \in Nat, n = last(r), NEW i \in 1 .. n - 1,
         NEW q, q = remove_customer(r, i), ObjectRoute(q)
  PROVE  Cached(q, d, i, i - 1)
<1>1. /\ last(q) = n - 1
      /\ \A k \in 0 .. n - 1 : q[k + 1] = IF k < i THEN r[k + 1] ELSE r[k + 2]
  <2>1. r \in Seq(Object) /\ n >= 1 /\ i \in 0 .. n
    BY DEF ObjectRoute
  <2> QED
    BY <2>1, RemoveElements
<1>2. PICK m \in Nat, h \in Nat : m = n - 1 /\ h = n - 1 - i
  OBVIOUS
<1>3. \A k \in 0 .. i - 1 : q[k + 1] = r[k + 1]
  BY <1>1
<1>4. ASSUME NEW k \in 0 .. h PROVE q[m - k + 1] = r[n - k + 1]
  <2>1. PICK j \in 0 .. n - 1 : j = m - k /\ ~(j < i) /\ j + 2 = n - k + 1
    <3>1. m - k \in 0 .. n - 1 /\ ~(m - k < i) /\ m - k + 2 = n - k + 1
      BY <1>2
    <3> QED
      BY <3>1
  <2> QED
    BY <1>1, <2>1
<1>5. PICK f \in Nat : f = i
  OBVIOUS
<1>6. Cached(q, d, f, m - h - 1)
  <2>1. f >= 1 /\ f <= n + 1 /\ f <= m + 1 /\ h <= n /\ h <= m /\ m = last(q)
    BY <1>1, <1>2, <1>5
  <2>2. SameBefore(q, r, f)
    BY <1>3, <1>5 DEF SameBefore
  <2>3. SameBehind(q, m, r, n, h)
    BY <1>4 DEF SameBehind
  <2> QED
    BY <2>1, <2>2, <2>3, GapCached
<1>7. m - h - 1 = i - 1
  BY <1>2
<1> QED
  BY <1>5, <1>6, <1>7

\* The same when one is put in.
LEMMA InsertCached ==
  ASSUME Instance(problem), NEW r, ObjectRoute(r), NEW d, Exact(r, d),
         NEW n \in Nat, n = last(r), NEW i \in 1 .. n, NEW c \in Object,
         NEW q, q = insert_customer(r, i, c), ObjectRoute(q)
  PROVE  Cached(q, d, i, i)
<1>1. Inserted(q, Object, r, n, i, c)
  <2>1. r \in Seq(Object) /\ i \in 0 .. n
    BY DEF ObjectRoute
  <2> QED
    BY <2>1, InsertElements
<1>2. PICK m \in Nat, h \in Nat : m = n + 1 /\ h = n - i
  OBVIOUS
<1>3. \A k \in 0 .. i - 1 : q[k + 1] = r[k + 1]
  <2>1. \A k \in 0 .. i - 1 : k \in 0 .. n + 1 /\ k < i
    OBVIOUS
  <2> QED
    BY <1>1, <2>1 DEF Inserted
<1>4. ASSUME NEW k \in 0 .. h PROVE q[m - k + 1] = r[n - k + 1]
  <2>1. PICK j \in 0 .. n + 1 : j = m - k /\ j > i /\ j = n - k + 1
    <3>1. m - k \in 0 .. n + 1 /\ m - k > i /\ m - k = n - k + 1
      BY <1>2
    <3> QED
      BY <3>1
  <2> QED
    BY <1>1, <2>1 DEF Inserted
<1>5. PICK f \in Nat : f = i
  OBVIOUS
<1>6. Cached(q, d, f, m - h - 1)
  <2>1. f >= 1 /\ f <= n + 1 /\ f <= m + 1 /\ h <= n /\ h <= m /\ m = last(q)
    BY <1>1, <1>2, <1>5 DEF Inserted
  <2>2. SameBefore(q, r, f)
    BY <1>3, <1>5 DEF SameBefore
  <2>3. SameBehind(q, m, r, n, h)
    BY <1>4 DEF SameBehind
  <2> QED
    BY <2>1, <2>2, <2>3, GapCached
<1>7. m - h - 1 = i
  BY <1>2
<1> QED
  BY <1>5, <1>6, <1>7

\* The same when one takes the place of another.
LEMMA ReplaceCached ==
  ASSUME Instance(problem), NEW r, ObjectRoute(r), NEW d, Exact(r, d),
         NEW n \in Nat, n = last(r), NEW i \in 1 .. n - 1,
         NEW q, ObjectRoute(q), last(q) = n, \A k \in 0 .. n : k # i => q[k + 1] = r[k + 1]
  PROVE  Cached(q, d, i, i)
<1>1. PICK h \in Nat : h = n - i - 1
  OBVIOUS
<1>2. \A k \in 0 .. i - 1 : q[k + 1] = r[k + 1]
  OBVIOUS
<1>3. ASSUME NEW k \in 0 .. h PROVE q[n - k + 1] = r[n - k + 1]
  <2>1. PICK j \in 0 .. n : j = n - k /\ j # i
    <3>1. n - k \in 0 .. n /\ n - k # i
      BY <1>1
    <3> QED
      BY <3>1
  <2> QED
    BY <2>1
<1>4. PICK f \in Nat : f = i
  OBVIOUS
<1>5. Cached(q, d, f, n - h - 1)
  <2>1. f >= 1 /\ f <= n + 1 /\ h <= n
    BY <1>1, <1>4
  <2>2. SameBefore(q, r, f)
    BY <1>2, <1>4 DEF SameBefore
  <2>3. SameBehind(q, n, r, n, h)
    BY <1>3 DEF SameBehind
  <2> QED
    BY <2>1, <2>2, <2>3, GapCached
<1>6. n - h - 1 = i
  BY <1>1
<1> QED
  BY <1>4, <1>5, <1>6

\* A new computation of the whole route needs nothing.
LEMMA NothingCached ==
  ASSUME NEW r, ObjectRoute(r), NEW d
  PROVE  Cached(r, d, 0, last(r))
<1>1. last(r) \in Int
  BY DEF ObjectRoute, last
<1> QED
  BY <1>1 DEF Cached

\* Exact values do not change with the places, nor with the data of other objects.
LEMMA CachedStays ==
  ASSUME NEW r, ObjectRoute(r), NEW d, NEW f, NEW b, Cached(r, d, f, b), NEW u,
         \A k \in 0 .. last(r) :
            /\ u[r[k + 1]].a = d[r[k + 1]].a /\ u[r[k + 1]].tw_pf = d[r[k + 1]].tw_pf
            /\ u[r[k + 1]].demand_pf = d[r[k + 1]].demand_pf
            /\ u[r[k + 1]].z = d[r[k + 1]].z /\ u[r[k + 1]].tw_sf = d[r[k + 1]].tw_sf
            /\ u[r[k + 1]].demand_sf = d[r[k + 1]].demand_sf
  PROVE  Cached(r, u, f, b)
<1>1. ASSUME NEW k \in 0 .. last(r)
      PROVE  (k < f => Forward(r, u, k)) /\ (k > b => Backward(r, u, k))
  <2>1. (k < f => Forward(r, d, k)) /\ (k > b => Backward(r, d, k))
    BY DEF Cached
  <2> QED
    BY <2>1 DEF Forward, Backward
<1> QED
  BY <1>1 DEF Cached

\* A step that changes places only keeps the values that are cached.
LEMMA SameValuesCached ==
  ASSUME NEW r, ObjectRoute(r), NEW d, NEW f, NEW b, Cached(r, d, f, b), NEW u, SameValues(d, u)
  PROVE  Cached(r, u, f, b)
<1>1. \A k \in 0 .. last(r) : r[k + 1] \in Object
  BY InRoute
<1>2. ASSUME NEW k \in 0 .. last(r)
      PROVE  /\ u[r[k + 1]].a = d[r[k + 1]].a /\ u[r[k + 1]].tw_pf = d[r[k + 1]].tw_pf
             /\ u[r[k + 1]].demand_pf = d[r[k + 1]].demand_pf
             /\ u[r[k + 1]].z = d[r[k + 1]].z /\ u[r[k + 1]].tw_sf = d[r[k + 1]].tw_sf
             /\ u[r[k + 1]].demand_sf = d[r[k + 1]].demand_sf
  BY <1>1 DEF SameValues
<1> QED
  BY <1>2, CachedStays
-----------------------------------------------------------------------------
(***************************************************************************)
(* Each modification leaves all places and all values exact.               *)
(***************************************************************************)
\* What route_update_penalty of route x leaves.
Updated(rts, x, d, u) ==
  /\ u \in [Object -> Data] /\ Knows(rts, u) /\ Exact(rts[x], u)
  /\ \A y \in Route : y # x => \A k \in 0 .. last(rts[y]) : u[rts[y][k + 1]] = d[rts[y][k + 1]]

\* route_update_penalty makes route x exact and touches no object of another route.
LEMMA UpdateRoute ==
  ASSUME Instance(problem), NEW rts, Shape(rts), NEW d \in [Object -> Data], Knows(rts, d),
         NEW x \in Route, NEW f \in Int, NEW b \in Int, Cached(rts[x], d, f, b),
         NEW u, u = route_update_penalty(rts, d, x, f, b)
  PROVE  Updated(rts, x, d, u)
<1>1. \A y \in Route : ObjectRoute(rts[y])
  BY KnownRoutes
<1>2. /\ u \in [Object -> Data] /\ SamePlaces(d, u)
      /\ Cached(rts[x], u, Len(rts[x]), -1)
      /\ \A c \in Object : c \notin ToSet(rts[x]) => u[c] = d[c]
  BY <1>1, UpdateExact
<1>3. ASSUME NEW y \in Route, y # x, NEW k \in 0 .. last(rts[y])
      PROVE  u[rts[y][k + 1]] = d[rts[y][k + 1]]
  <2>1. PICK c : c = rts[y][k + 1]
    OBVIOUS
  <2>2. c \in Object
    BY <1>1, <2>1, InRoute
  <2>3. c \notin ToSet(rts[x])
    <3> SUFFICES ASSUME c \in ToSet(rts[x]) PROVE FALSE
      OBVIOUS
    <3>1. PICK j \in 0 .. last(rts[x]) : rts[x][j + 1] = c
      BY <1>1, InRoute
    <3> QED
      BY <1>3, <2>1, <3>1, KnownRoutes
  <2> QED
    BY <1>2, <2>1, <2>2, <2>3
<1>4. ASSUME NEW y \in Route, NEW k \in 0 .. last(rts[y])
      PROVE  u[rts[y][k + 1]].route = y /\ u[rts[y][k + 1]].idx = k
  <2>1. PICK c : c = rts[y][k + 1]
    OBVIOUS
  <2>2. c \in Object
    BY <1>1, <2>1, InRoute
  <2>3. d[c].route = y /\ d[c].idx = k
    BY <2>1 DEF Knows
  <2> QED
    BY <1>2, <2>1, <2>2, <2>3 DEF SamePlaces
<1>5. ASSUME NEW c \in Object, u[c].route # 0
      PROVE  /\ u[c].route \in Route /\ u[c].idx \in 0 .. last(rts[u[c].route])
             /\ rts[u[c].route][u[c].idx + 1] = c
  <2>1. u[c].route = d[c].route /\ u[c].idx = d[c].idx
    BY <1>2 DEF SamePlaces
  <2>2. d[c].route # 0
    BY <1>5, <2>1
  <2>3. /\ d[c].route \in Route /\ d[c].idx \in 0 .. last(rts[d[c].route])
        /\ rts[d[c].route][d[c].idx + 1] = c
    BY <2>2 DEF Knows
  <2> QED
    BY <2>1, <2>3
<1>6. Knows(rts, u)
  BY <1>4, <1>5 DEF Knows
<1> QED
  BY <1>2, <1>3, <1>6 DEF Updated, Exact

\* The update of a route leaves the values along the others.
LEMMA OthersStay ==
  ASSUME Instance(problem), NEW rts, Shape(rts), NEW d, Knows(rts, d), NEW x, NEW u, Updated(rts, x, d, u),
         NEW y \in Route, y # x, NEW f, NEW b, Cached(rts[y], d, f, b)
  PROVE  Cached(rts[y], u, f, b)
<1>1. ObjectRoute(rts[y])
  BY KnownRoutes
<1>2. \A k \in 0 .. last(rts[y]) : u[rts[y][k + 1]] = d[rts[y][k + 1]]
  BY DEF Updated
<1> QED
  BY <1>1, <1>2, CachedStays

\* All places and all values are exact.
AllExact(rts, d) ==
  /\ Shape(rts) /\ d \in [Object -> Data] /\ Knows(rts, d)
  /\ \A x \in Route : Exact(rts[x], d)

\* After one route changed, its update makes all exact.
LEMMA UpdateOne ==
  ASSUME Instance(problem), NEW rts, Shape(rts), NEW d \in [Object -> Data], Knows(rts, d),
         NEW x \in Route, \A y \in Route : y # x => Exact(rts[y], d),
         NEW f \in Int, NEW b \in Int, Cached(rts[x], d, f, b),
         NEW u, u = route_update_penalty(rts, d, x, f, b)
  PROVE  AllExact(rts, u)
<1>1. Updated(rts, x, d, u)
  BY UpdateRoute
<1>2. ASSUME NEW y \in Route PROVE Exact(rts[y], u)
  <2>1. CASE y = x
    BY <1>1, <2>1 DEF Updated
  <2>2. CASE y # x
    BY <1>1, <2>2, OthersStay DEF Exact
  <2> QED
    BY <2>1, <2>2
<1> QED
  BY <1>1, <1>2 DEF AllExact, Updated

\* After two routes changed, the updates of both do.
LEMMA UpdateTwo ==
  ASSUME Instance(problem), NEW rts, Shape(rts), NEW d \in [Object -> Data], Knows(rts, d),
         NEW x \in Route, NEW y \in Route, x # y, \A z \in Route : z # x /\ z # y => Exact(rts[z], d),
         NEW f \in Int, NEW b \in Int, Cached(rts[x], d, f, b),
         NEW g \in Int, NEW h \in Int, Cached(rts[y], d, g, h),
         NEW t, t = route_update_penalty(rts, d, x, f, b),
         NEW u, u = route_update_penalty(rts, t, y, g, h)
  PROVE  AllExact(rts, u)
<1>1. Updated(rts, x, d, t)
  BY UpdateRoute
<1>2. t \in [Object -> Data] /\ Knows(rts, t)
  BY <1>1 DEF Updated
<1>3. ASSUME NEW z \in Route, z # y PROVE Exact(rts[z], t)
  <2>1. CASE z = x
    BY <1>1, <2>1 DEF Updated
  <2>2. CASE z # x
    BY <1>1, <1>3, <2>2, OthersStay DEF Exact
  <2> QED
    BY <2>1, <2>2
<1>4. Cached(rts[y], t, g, h)
  BY <1>1, OthersStay
<1> QED
  BY <1>2, <1>3, <1>4, UpdateOne

\* The values of routes that did not change stay exact.
LEMMA UnchangedExact ==
  ASSUME Instance(problem), NEW rts, NEW d, AllExact(rts, d), NEW out, NEW u, SameValues(d, u),
         NEW z \in Route, out[z] = rts[z]
  PROVE  Exact(out[z], u)
<1>1. ObjectRoute(rts[z]) /\ Exact(rts[z], d)
  BY KnownRoutes DEF AllExact
<1> QED
  BY <1>1, SameValuesCached DEF Exact

\* After an ejection.
LEMMA EjectKeeps ==
  ASSUME Instance(problem), NEW rts, NEW d, AllExact(rts, d),
         NEW x \in Route, NEW i \in 1 .. last(rts[x]) - 1,
         NEW out, out = [rts EXCEPT ![x] = remove_customer(@, i)],
         NEW v, v = rts[x][i + 1],
         NEW g, g = Removed(route_refresh_metadata_from(out, d, x, i), v),
         NEW u, u = route_update_penalty(out, g, x, i, i - 1)
  PROVE  AllExact(out, u)
<1>1. Shape(rts) /\ d \in [Object -> Data] /\ Knows(rts, d)
  BY DEF AllExact
<1>2. Refit(out, d, g)
  BY <1>1, RemovePlaces
<1>3. Shape(out) /\ g \in [Object -> Data] /\ Knows(out, g) /\ SameValues(d, g)
  BY <1>2 DEF Refit
<1>4. PICK r, q : r = rts[x] /\ q = out[x]
  OBVIOUS
<1>5. ObjectRoute(r) /\ ObjectRoute(q)
  BY <1>1, <1>3, <1>4, KnownRoutes
<1>6. q = remove_customer(r, i) /\ \A z \in Route : z # x => out[z] = rts[z]
  BY <1>1, <1>4 DEF Shape
<1>7. PICK n \in Nat : n = last(r)
  <2>1. Len(r) \in Nat /\ Len(r) >= 2
    BY <1>5 DEF ObjectRoute
  <2>2. last(r) \in Nat
    BY <2>1 DEF last
  <2> QED
    BY <2>2
<1>8. PICK j \in 1 .. n - 1 : j = i
  BY <1>4, <1>7
<1>9. Exact(r, d)
  BY <1>4 DEF AllExact
<1>10. Cached(q, d, j, j - 1)
  BY <1>5, <1>6, <1>7, <1>8, <1>9, RemoveCached
<1>11. Cached(q, g, j, j - 1)
  BY <1>3, <1>5, <1>10, SameValuesCached
<1>12. \A z \in Route : z # x => Exact(out[z], g)
  BY <1>3, <1>6, UnchangedExact
<1>13. PICK b \in Int : b = j - 1
  OBVIOUS
<1>14. Cached(out[x], g, j, b) /\ j \in Int /\ u = route_update_penalty(out, g, x, j, b)
  BY <1>4, <1>8, <1>11, <1>13
<1> QED
  BY <1>3, <1>12, <1>14, UpdateOne

\* After an insertion.
LEMMA InsertKeeps ==
  ASSUME Instance(problem), NEW rts, NEW d, AllExact(rts, d),
         NEW x \in Route, NEW i \in 1 .. last(rts[x]), NEW w \in Customer, TakenOut(d, w),
         NEW out, out = [rts EXCEPT ![x] = insert_customer(@, i, w)],
         NEW g, g = route_refresh_metadata_from(out, d, x, i),
         NEW u, u = route_update_penalty(out, g, x, i, i)
  PROVE  AllExact(out, u)
<1>1. Shape(rts) /\ d \in [Object -> Data] /\ Knows(rts, d)
  BY DEF AllExact
<1>2. Refit(out, d, g)
  BY <1>1, InsertPlaces
<1>3. Shape(out) /\ g \in [Object -> Data] /\ Knows(out, g) /\ SameValues(d, g)
  BY <1>2 DEF Refit
<1>4. PICK r, q : r = rts[x] /\ q = out[x]
  OBVIOUS
<1>5. ObjectRoute(r) /\ ObjectRoute(q)
  BY <1>1, <1>3, <1>4, KnownRoutes
<1>6. q = insert_customer(r, i, w) /\ \A z \in Route : z # x => out[z] = rts[z]
  BY <1>1, <1>4 DEF Shape
<1>7. PICK n \in Nat : n = last(r)
  <2>1. Len(r) \in Nat /\ Len(r) >= 2
    BY <1>5 DEF ObjectRoute
  <2>2. last(r) \in Nat
    BY <2>1 DEF last
  <2> QED
    BY <2>2
<1>8. PICK j \in 1 .. n : j = i
  BY <1>4, <1>7
<1>9. Exact(r, d)
  BY <1>4 DEF AllExact
<1>10. w \in Object
  BY RoutesAssumption DEF Customer, Object, Instance
<1>11. Cached(q, d, j, j)
  BY <1>5, <1>6, <1>7, <1>8, <1>9, <1>10, InsertCached
<1>12. Cached(q, g, j, j)
  BY <1>3, <1>5, <1>11, SameValuesCached
<1>13. \A z \in Route : z # x => Exact(out[z], g)
  BY <1>3, <1>6, UnchangedExact
<1>14. Cached(out[x], g, j, j) /\ j \in Int /\ u = route_update_penalty(out, g, x, j, j)
  BY <1>4, <1>8, <1>12
<1> QED
  BY <1>3, <1>13, <1>14, UpdateOne

\* After two customers of two routes are exchanged, and after two of one.
LEMMA ExchangeKeeps ==
  ASSUME Instance(problem), NEW rts, NEW d, AllExact(rts, d),
         NEW v \in Customer, NEW x \in Route, NEW i \in 0 .. last(rts[x]), v = rts[x][i + 1],
         NEW w \in Customer, NEW y \in Route, NEW j \in 0 .. last(rts[y]), w = rts[y][j + 1], v # w,
         NEW out, Exchanged(out, rts, x, i, y, j, v, w), NEW g, Refit(out, d, g),
         NEW t, t = route_update_penalty(out, g, x, i, i),
         NEW u, u = IF x = y THEN route_init_penalty(out, g, x)
                    ELSE route_update_penalty(out, t, y, j, j)
  PROVE  AllExact(out, u)
<1>1. Shape(rts) /\ d \in [Object -> Data] /\ Knows(rts, d)
  BY DEF AllExact
<1>2. Shape(out) /\ g \in [Object -> Data] /\ Knows(out, g) /\ SameValues(d, g)
  BY DEF Refit
<1>3. \A z \in Route : ObjectRoute(rts[z]) /\ ObjectRoute(out[z]) /\ Exact(rts[z], d)
  BY <1>1, <1>2, KnownRoutes DEF AllExact
<1>4. ASSUME NEW z \in Route, z # x, z # y PROVE Exact(out[z], g)
  <2>1. PICK q, r : q = out[z] /\ r = rts[z]
    OBVIOUS
  <2>2. q \in Seq(Object) /\ r \in Seq(Object) /\ Len(q) = Len(r)
    BY <1>1, <2>1 DEF Exchanged, Shape, RouteShape
  <2>3. PICK n \in Nat : n = last(r) /\ Len(r) = n + 1
    <3>1. Len(r) \in Nat /\ Len(r) >= 2
      BY <1>3, <2>1 DEF ObjectRoute
    <3> QED
      BY <3>1 DEF last
  <2>4. \A k \in 0 .. n : q[k + 1] = r[k + 1]
    BY <1>4, <2>1, <2>3 DEF Exchanged
  <2>5. \A k \in 1 .. n + 1 : q[k] = r[k]
    <3>1. \A k \in 1 .. n + 1 : k - 1 \in 0 .. n /\ k - 1 + 1 = k
      OBVIOUS
    <3> QED
      BY <2>4, <3>1
  <2>6. q = r
    BY <2>2, <2>3, <2>5, SeqEqual
  <2> QED
    BY <1>2, <2>1, <2>6, UnchangedExact
<1>5. CASE x = y
  <2>1. PICK b \in Int : b = last(out[x])
    <3>1. Len(out[x]) \in Nat
      BY <1>3 DEF ObjectRoute
    <3>2. last(out[x]) \in Int
      BY <3>1 DEF last
    <3> QED
      BY <3>2
  <2>2. Cached(out[x], g, 0, b)
    BY <1>3, <2>1, NothingCached
  <2>3. u = route_update_penalty(out, g, x, 0, b)
    BY <1>5, <2>1 DEF route_init_penalty
  <2> QED
    BY <1>2, <1>4, <1>5, <2>2, <2>3, UpdateOne
<1>6. CASE x # y
  <2>1. /\ last(rts[x]) \in Nat /\ i \in 1 .. last(rts[x]) - 1
        /\ last(rts[y]) \in Nat /\ j \in 1 .. last(rts[y]) - 1
    <3>1. d[v].route = x /\ d[v].idx = i /\ d[w].route = y /\ d[w].idx = j
      BY <1>1 DEF Knows
    <3>2. InARoute(d, v) /\ InARoute(d, w)
      BY <3>1 DEF InARoute, Route
    <3> QED
      BY <1>1, <3>1, <3>2, PlaceOf
  <2>2. PICK n \in Nat, m \in Nat : n = last(rts[x]) /\ m = last(rts[y])
    BY <2>1
  <2>3. i \in 1 .. n - 1 /\ j \in 1 .. m - 1
    BY <2>1, <2>2
  <2>4. /\ last(out[x]) = n /\ \A k \in 0 .. n : k # i => out[x][k + 1] = rts[x][k + 1]
        /\ last(out[y]) = m /\ \A k \in 0 .. m : k # j => out[y][k + 1] = rts[y][k + 1]
    BY <1>6, <2>2 DEF Exchanged
  <2>5. Cached(out[x], d, i, i)
    BY <1>3, <2>2, <2>3, <2>4, ReplaceCached
  <2>6. Cached(out[y], d, j, j)
    BY <1>3, <2>2, <2>3, <2>4, ReplaceCached
  <2>7. Cached(out[x], g, i, i) /\ Cached(out[y], g, j, j)
    BY <1>2, <1>3, <2>5, <2>6, SameValuesCached
  <2>8. i \in Int /\ j \in Int /\ u = route_update_penalty(out, t, y, j, j)
    BY <1>6, <2>3
  <2> QED
    BY <1>2, <1>4, <1>6, <2>7, <2>8, UpdateTwo
<1> QED
  BY <1>5, <1>6

\* After two tails are exchanged.
LEMMA TwoOptKeeps ==
  ASSUME Instance(problem), NEW rts, NEW d, AllExact(rts, d),
         NEW x \in Route, NEW i \in Nat, i < last(rts[x]),
         NEW y \in Route, NEW j \in Nat, j < last(rts[y]), x # y,
         NEW out, TailsExchanged(out, rts, x, i, y, j),
         NEW g, Refit(out, d, g),
         NEW t, t = route_init_penalty(out, g, x), NEW u, u = route_init_penalty(out, t, y)
  PROVE  AllExact(out, u)
<1>1. Shape(out) /\ g \in [Object -> Data] /\ Knows(out, g) /\ SameValues(d, g)
  BY DEF Refit
<1>2. \A z \in Route : ObjectRoute(out[z])
  BY <1>1, KnownRoutes
<1>3. ASSUME NEW z \in Route, z # x, z # y PROVE Exact(out[z], g)
  <2>1. out[z] = rts[z]
    BY <1>3 DEF TailsExchanged
  <2> QED
    BY <1>1, <2>1, UnchangedExact
<1>4. PICK n \in Int, m \in Int : n = last(out[x]) /\ m = last(out[y])
  <2>1. Len(out[x]) \in Nat /\ Len(out[y]) \in Nat
    BY <1>2 DEF ObjectRoute
  <2>2. last(out[x]) \in Int /\ last(out[y]) \in Int
    BY <2>1 DEF last
  <2> QED
    BY <2>2
<1>5. Cached(out[x], g, 0, n) /\ Cached(out[y], g, 0, m)
  BY <1>2, <1>4, NothingCached
<1>6. t = route_update_penalty(out, g, x, 0, n) /\ u = route_update_penalty(out, t, y, 0, m)
  BY <1>4 DEF route_init_penalty
<1>7. 0 \in Int
  OBVIOUS
<1> QED
  BY <1>1, <1>3, <1>5, <1>6, <1>7, UpdateTwo

\* Taking the customer w at the index s of route y out and putting it in at the index m of x.
Relocated(out, mid, rts, x, m, y, s, w) ==
  /\ mid = [rts EXCEPT ![y] = remove_customer(@, s)]
  /\ out = [mid EXCEPT ![x] = insert_customer(@, m, w)]

\* After a customer moved, from one route to another or within one.
LEMMA RelocateKeeps ==
  ASSUME Instance(problem), NEW rts, NEW d, AllExact(rts, d),
         NEW y \in Route, NEW s \in 1 .. last(rts[y]) - 1, NEW w, w = rts[y][s + 1],
         NEW x \in Route, NEW mid, NEW m \in 1 .. last(mid[x]), NEW out,
         Relocated(out, mid, rts, x, m, y, s, w),
         NEW g, g = Removed(route_refresh_metadata_from(mid, d, y, s), w),
         NEW h, h = route_refresh_metadata_from(out, g, x, m),
         NEW t, t = route_update_penalty(out, h, x, m, m),
         NEW u, u = IF x = y THEN route_init_penalty(out, h, x)
                    ELSE route_update_penalty(out, t, y, s, s - 1)
  PROVE  AllExact(out, u)
<1>1. Shape(rts) /\ d \in [Object -> Data] /\ Knows(rts, d)
  BY DEF AllExact
<1>2. Refit(mid, d, g) /\ TakenOut(g, w) /\ w \in Customer
  <2>1. mid = [rts EXCEPT ![y] = remove_customer(@, s)]
    BY DEF Relocated
  <2>2. Refit(mid, d, g) /\ TakenOut(g, w)
    BY <1>1, <2>1, RemovePlaces
  <2> QED
    BY <2>2 DEF TakenOut
<1>3. Shape(mid) /\ g \in [Object -> Data] /\ Knows(mid, g) /\ SameValues(d, g)
  BY <1>2 DEF Refit
<1>4. Refit(out, g, h)
  <2>1. out = [mid EXCEPT ![x] = insert_customer(@, m, w)]
    BY DEF Relocated
  <2> QED
    BY <1>2, <1>3, <2>1, InsertPlaces
<1>5. Shape(out) /\ h \in [Object -> Data] /\ Knows(out, h) /\ SameValues(g, h)
  BY <1>4 DEF Refit
<1>6. SameValues(d, h)
  BY <1>3, <1>5 DEF SameValues
<1>7. \A z \in Route : /\ ObjectRoute(rts[z]) /\ ObjectRoute(mid[z]) /\ ObjectRoute(out[z])
                       /\ Exact(rts[z], d)
  BY <1>1, <1>3, <1>5, KnownRoutes DEF AllExact
<1>8. /\ mid[y] = remove_customer(rts[y], s) /\ \A z \in Route : z # y => mid[z] = rts[z]
      /\ out[x] = insert_customer(mid[x], m, w) /\ \A z \in Route : z # x => out[z] = mid[z]
  BY <1>1, <1>3 DEF Relocated, Shape
<1>9. ASSUME NEW z \in Route, z # x, z # y PROVE Exact(out[z], h)
  BY <1>6, <1>8, <1>9, UnchangedExact
<1>10. CASE x = y
  <2>1. PICK b \in Int : b = last(out[x])
    <3>1. Len(out[x]) \in Nat
      BY <1>7 DEF ObjectRoute
    <3>2. last(out[x]) \in Int
      BY <3>1 DEF last
    <3> QED
      BY <3>2
  <2>2. Cached(out[x], h, 0, b)
    BY <1>7, <2>1, NothingCached
  <2>3. u = route_update_penalty(out, h, x, 0, b)
    BY <1>10, <2>1 DEF route_init_penalty
  <2>4. 0 \in Int
    OBVIOUS
  <2> QED
    BY <1>5, <1>9, <1>10, <2>2, <2>3, <2>4, UpdateOne
<1>11. CASE x # y
  <2>1. PICK k \in Nat, n \in Nat : k = last(rts[x]) /\ n = last(rts[y])
    <3>1. Len(rts[x]) \in Nat /\ Len(rts[x]) >= 2 /\ Len(rts[y]) \in Nat /\ Len(rts[y]) >= 2
      BY <1>7 DEF ObjectRoute
    <3>2. last(rts[x]) \in Nat /\ last(rts[y]) \in Nat
      BY <3>1 DEF last
    <3> QED
      BY <3>2
  <2>2. PICK i \in 1 .. k : i = m
    BY <1>8, <1>11, <2>1
  <2>3. PICK j \in 1 .. n - 1 : j = s
    BY <2>1
  <2>4. w \in Object
    BY <1>2, RoutesAssumption DEF Customer, Object, Instance
  <2>5. Cached(out[x], d, i, i)
    <3>1. out[x] = insert_customer(rts[x], i, w)
      BY <1>8, <1>11, <2>2
    <3> QED
      BY <1>7, <2>1, <2>4, <3>1, InsertCached
  <2>6. Cached(out[y], d, j, j - 1)
    <3>1. out[y] = remove_customer(rts[y], j)
      BY <1>8, <1>11, <2>3
    <3> QED
      BY <1>7, <2>1, <3>1, RemoveCached
  <2>7. PICK b \in Int : b = j - 1
    OBVIOUS
  <2>8. Cached(out[x], h, i, i) /\ Cached(out[y], h, j, b)
    BY <1>6, <1>7, <2>5, <2>6, <2>7, SameValuesCached
  <2>9. i \in Int /\ j \in Int
    OBVIOUS
  <2>10. t = route_update_penalty(out, h, x, i, i) /\ u = route_update_penalty(out, t, y, j, b)
    BY <1>11, <2>2, <2>3, <2>7
  <2> QED
    BY <1>5, <1>9, <1>11, <2>8, <2>9, <2>10, UpdateTwo
<1> QED
  BY <1>10, <1>11
-----------------------------------------------------------------------------
(***************************************************************************)
(* The first solution: all customers in one route.                         *)
(***************************************************************************)
InitialRoutes ==
  [x \in Route |->
     <<HeadOf(x)>> \o (IF x = 1 THEN [c \in Customer |-> c] ELSE <<>>) \o <<FirstTailOf(x)>>]

\* Its routes, object by object.
LEMMA FirstObjects ==
  ASSUME Instance(problem), NEW x \in Route, NEW q, q = InitialRoutes[x],
         NEW s \in Nat, s = IF x = 1 THEN problem.n ELSE 0
  PROVE  /\ q \in Seq(Object) /\ Len(q) = s + 2 /\ last(q) = s + 1
         /\ q[1] = HeadOf(x) /\ q[s + 2] = FirstTailOf(x)
         /\ \A k \in 1 .. s : q[k + 1] = k
<1>1. PICK n \in Nat, N \in Nat : n = problem.n /\ N = NRoutes
  BY RoutesAssumption DEF Instance
<1>2. x \in 1 .. N /\ Customer = 1 .. n /\ Object = 1 .. n + 2 * N
  BY <1>1 DEF Route, Customer, Object
<1>3. PICK h \in Object, t \in Object : h = HeadOf(x) /\ t = FirstTailOf(x)
  <2>1. n + x \in 1 .. n + 2 * N /\ n + N + x \in 1 .. n + 2 * N
    BY <1>2
  <2> QED
    BY <1>1, <1>2, <2>1 DEF HeadOf, FirstTailOf
<1>4. PICK m : m = IF x = 1 THEN [c \in Customer |-> c] ELSE <<>>
  OBVIOUS
<1>5. m \in Seq(Object) /\ Len(m) = s /\ \A k \in 1 .. s : m[k] = k
  <2>1. CASE x = 1
    <3>1. s = n /\ m = [c \in 1 .. n |-> c]
      BY <1>1, <1>2, <1>4, <2>1
    <3>2. \A c \in 1 .. n : c \in Object
      BY <1>2
    <3> QED
      BY <3>1, <3>2
  <2>2. CASE x # 1
    <3>1. s = 0 /\ m = <<>>
      BY <1>4, <2>2
    <3> QED
      BY <3>1
  <2> QED
    BY <2>1, <2>2
<1>6. q = <<h>> \o m \o <<t>>
  BY <1>3, <1>4 DEF InitialRoutes
<1>7. PICK a : a = <<h>> \o m
  OBVIOUS
<1>8. /\ a \in Seq(Object) /\ Len(a) = s + 1 /\ a[1] = h
      /\ \A k \in 1 .. s : a[k + 1] = k
  <2>1. <<h>> \in Seq(Object) /\ Len(<<h>>) = 1 /\ <<h>>[1] = h
    OBVIOUS
  <2>2. /\ a \in Seq(Object) /\ Len(a) = 1 + s
        /\ \A k \in 1 .. 1 + s : a[k] = IF k <= 1 THEN <<h>>[k] ELSE m[k - 1]
    BY <1>5, <1>7, <2>1, ConcatProperties
  <2>3. a[1] = h
    BY <2>1, <2>2
  <2>4. \A k \in 1 .. s : k + 1 \in 1 .. 1 + s /\ ~(k + 1 <= 1) /\ k + 1 - 1 = k
    OBVIOUS
  <2>5. \A k \in 1 .. s : a[k + 1] = k
    BY <1>5, <2>2, <2>4
  <2> QED
    BY <2>2, <2>3, <2>5
<1>9. /\ q \in Seq(Object) /\ Len(q) = s + 2
      /\ \A k \in 1 .. s + 1 : q[k] = a[k]
      /\ q[s + 2] = t
  <2>1. <<t>> \in Seq(Object) /\ Len(<<t>>) = 1 /\ <<t>>[1] = t
    OBVIOUS
  <2>2. /\ q \in Seq(Object) /\ Len(q) = s + 1 + 1
        /\ \A k \in 1 .. s + 1 + 1 : q[k] = IF k <= s + 1 THEN a[k] ELSE <<t>>[k - (s + 1)]
    BY <1>6, <1>7, <1>8, <2>1, ConcatProperties
  <2>3. s + 1 + 1 = s + 2 /\ s + 2 \in 1 .. s + 1 + 1 /\ ~(s + 2 <= s + 1) /\ s + 2 - (s + 1) = 1
    OBVIOUS
  <2>4. q[s + 2] = t
    <3>1. PICK k \in 1 .. s + 1 + 1 : k = s + 2 /\ ~(k <= s + 1) /\ k - (s + 1) = 1
      BY <2>3
    <3>2. q[k] = <<t>>[k - (s + 1)]
      BY <2>2, <3>1
    <3>3. q[k] = <<t>>[1]
      BY <3>1, <3>2
    <3> QED
      BY <2>1, <3>1, <3>3
  <2>5. \A k \in 1 .. s + 1 : k \in 1 .. s + 1 + 1 /\ k <= s + 1
    OBVIOUS
  <2> QED
    BY <2>2, <2>3, <2>4, <2>5
<1>10. q[1] = h /\ \A k \in 1 .. s : q[k + 1] = k
  <2>1. 1 \in 1 .. s + 1 /\ \A k \in 1 .. s : k + 1 \in 1 .. s + 1
    OBVIOUS
  <2> QED
    BY <1>8, <1>9, <2>1
<1>11. last(q) = s + 1
  BY <1>9 DEF last
<1> QED
  BY <1>3, <1>9, <1>10, <1>11

\* They have the right shape and no object in common.
LEMMA FirstRoutes ==
  ASSUME Instance(problem)
  PROVE  Shape(InitialRoutes) /\ Apart(InitialRoutes)
<1>1. PICK n \in Nat, N \in Nat : n = problem.n /\ N = NRoutes
  BY RoutesAssumption DEF Instance
<1>2. PICK rts : rts = InitialRoutes
  OBVIOUS
<1>3. ASSUME NEW x \in Route
      PROVE  \E s \in Nat : /\ s = (IF x = 1 THEN n ELSE 0)
                            /\ rts[x] \in Seq(Object) /\ Len(rts[x]) = s + 2 /\ last(rts[x]) = s + 1
                            /\ rts[x][1] = n + x /\ rts[x][s + 2] = n + N + x
                            /\ \A k \in 1 .. s : rts[x][k + 1] = k
  <2>1. PICK s \in Nat : s = IF x = 1 THEN problem.n ELSE 0
    BY <1>1
  <2>2. /\ rts[x] \in Seq(Object) /\ Len(rts[x]) = s + 2 /\ last(rts[x]) = s + 1
        /\ rts[x][1] = HeadOf(x) /\ rts[x][s + 2] = FirstTailOf(x)
        /\ \A k \in 1 .. s : rts[x][k + 1] = k
    BY <1>2, <2>1, FirstObjects
  <2> QED
    BY <1>1, <2>1, <2>2 DEF HeadOf, FirstTailOf
<1>4. Shape(rts)
  <2>1. ASSUME NEW x \in Route PROVE RouteShape(rts[x], x)
    <3>1. PICK s \in Nat : /\ s = (IF x = 1 THEN n ELSE 0)
                           /\ rts[x] \in Seq(Object) /\ Len(rts[x]) = s + 2
                           /\ rts[x][1] = n + x /\ rts[x][s + 2] = n + N + x
                           /\ \A k \in 1 .. s : rts[x][k + 1] = k
      BY <1>3
    <3>2. PICK q : q = rts[x]
      OBVIOUS
    <3>3. x \in 1 .. N
      BY <1>1 DEF Route
    <3>4. n + N + x \in n + N + 1 .. n + 2 * N
      BY <3>3
    <3>5. ASSUME NEW k \in 2 .. s + 1 PROVE q[k] \in Customer
      <4>1. k - 1 \in 1 .. s /\ k - 1 + 1 = k /\ s <= n
        BY <3>1
      <4>2. q[k] = k - 1
        BY <3>1, <3>2, <4>1
      <4> QED
        BY <1>1, <4>1, <4>2 DEF Customer
    <3>6. s + 2 >= 2 /\ s + 2 - 1 = s + 1
      OBVIOUS
    <3> QED
      BY <1>1, <3>1, <3>2, <3>4, <3>5, <3>6 DEF RouteShape, HeadOf, Tails
  <2> QED
    BY <1>2, <2>1 DEF Shape, InitialRoutes
<1>5. ASSUME NEW x \in Route, NEW j \in 0 .. last(rts[x]), NEW c, c = rts[x][j + 1]
      PROVE  \/ c = n + x /\ j = 0
             \/ c = j /\ x = 1 /\ j \in 1 .. n
             \/ c = n + N + x /\ j = (IF x = 1 THEN n + 1 ELSE 1)
  <2>1. PICK s \in Nat : /\ s = (IF x = 1 THEN n ELSE 0) /\ last(rts[x]) = s + 1
                         /\ rts[x][1] = n + x /\ rts[x][s + 2] = n + N + x
                         /\ \A k \in 1 .. s : rts[x][k + 1] = k
    BY <1>3
  <2>2. CASE j = 0
    BY <1>5, <2>1, <2>2
  <2>3. CASE j \in 1 .. s
    BY <1>5, <2>1, <2>3
  <2>4. CASE j = s + 1
    <3>1. j + 1 = s + 2
      BY <2>4
    <3> QED
      BY <1>5, <2>1, <2>4, <3>1
  <2>5. j \in 0 .. s + 1
    BY <2>1
  <2> QED
    BY <2>2, <2>3, <2>4, <2>5
<1>6. Apart(rts)
  <2> SUFFICES ASSUME NEW x \in Route, NEW y \in Route, NEW j \in 0 .. last(rts[x]),
                      NEW k \in 0 .. last(rts[y]), rts[x][j + 1] = rts[y][k + 1]
               PROVE  x = y /\ j = k
    BY DEF Apart
  <2>1. PICK c : c = rts[x][j + 1] /\ c = rts[y][k + 1]
    OBVIOUS
  <2>2. \/ c = n + x /\ j = 0
        \/ c = j /\ x = 1 /\ j \in 1 .. n
        \/ c = n + N + x /\ j = (IF x = 1 THEN n + 1 ELSE 1)
    BY <1>5, <2>1
  <2>3. \/ c = n + y /\ k = 0
        \/ c = k /\ y = 1 /\ k \in 1 .. n
        \/ c = n + N + y /\ k = (IF y = 1 THEN n + 1 ELSE 1)
    BY <1>5, <2>1
  <2>4. x \in 1 .. N /\ y \in 1 .. N
    BY <1>1 DEF Route
  <2> QED
    BY <2>2, <2>3, <2>4
<1> QED
  BY <1>2, <1>4, <1>6

\* The routes up to k are initialised and no object knows another place.
Initialised(rts, d, k) ==
  /\ \A x \in 1 .. k : /\ \A j \in 0 .. last(rts[x]) : d[rts[x][j + 1]].route = x /\ d[rts[x][j + 1]].idx = j
                       /\ Exact(rts[x], d)
  /\ \A c \in Object : d[c].route # 0 =>
       \E x \in Route : \E j \in 0 .. last(rts[x]) : rts[x][j + 1] = c

\* route_init initialises one more.
LEMMA InitStep ==
  ASSUME Instance(problem), NEW rts, Shape(rts), Apart(rts), NEW x \in Route,
         NEW t \in [Object -> Data], NEW g, g = route_refresh_metadata_from(rts, t, x, 0),
         NEW u, u = route_init_penalty(rts, g, x)
  PROVE  u \in [Object -> Data] /\ (Initialised(rts, t, x - 1) => Initialised(rts, u, x))
<1>1. \A y \in Route : ObjectRoute(rts[y])
  BY ApartRoutes
<1>2. 0 \in Nat /\ 0 \in Int
  OBVIOUS
<1>3. Refreshed(rts, x, 0, t, g)
  BY <1>1, <1>2, RefreshPlaces
<1>4. g \in [Object -> Data]
  BY <1>3 DEF Refreshed
<1>5. PICK b \in Int : b = last(rts[x])
  <2>1. Len(rts[x]) \in Nat
    BY <1>1 DEF ObjectRoute
  <2>2. last(rts[x]) \in Int
    BY <2>1 DEF last
  <2> QED
    BY <2>2
<1>6. Cached(rts[x], g, 0, b)
  BY <1>1, <1>5, NothingCached
<1>7. u = route_update_penalty(rts, g, x, 0, b)
  BY <1>5 DEF route_init_penalty
<1>8. /\ u \in [Object -> Data] /\ SamePlaces(g, u)
      /\ Cached(rts[x], u, Len(rts[x]), -1)
      /\ \A c \in Object : c \notin ToSet(rts[x]) => u[c] = g[c]
  BY <1>1, <1>2, <1>4, <1>6, <1>7, UpdateExact
<1>9. \A c \in Object : c \in ToSet(rts[x]) <=> \E j \in 0 .. last(rts[x]) : rts[x][j + 1] = c
  BY <1>1, InRoute
<1>10. \A c \in Object : c \notin ToSet(rts[x]) => u[c] = t[c]
  BY <1>3, <1>8, <1>9 DEF Refreshed
<1>11. \A y \in Route : \A j \in 0 .. last(rts[y]) : rts[y][j + 1] \in Object
  BY <1>1, InRoute
<1>12. ASSUME NEW j \in 0 .. last(rts[x])
       PROVE  u[rts[x][j + 1]].route = x /\ u[rts[x][j + 1]].idx = j
  <2>1. PICK c \in Object : c = rts[x][j + 1]
    BY <1>11
  <2>2. g[c].route = x /\ g[c].idx = j
    BY <1>3, <2>1 DEF Refreshed
  <2> QED
    BY <1>8, <2>1, <2>2 DEF SamePlaces
<1>13. ASSUME NEW y \in Route, y # x, NEW j \in 0 .. last(rts[y])
       PROVE  u[rts[y][j + 1]] = t[rts[y][j + 1]]
  <2>1. PICK c \in Object : c = rts[y][j + 1]
    BY <1>11
  <2>2. c \notin ToSet(rts[x])
    <3> SUFFICES ASSUME c \in ToSet(rts[x]) PROVE FALSE
      OBVIOUS
    <3>1. PICK k \in 0 .. last(rts[x]) : rts[x][k + 1] = c
      BY <1>9
    <3> QED
      BY <1>13, <2>1, <3>1 DEF Apart
  <2> QED
    BY <1>10, <2>1, <2>2
<1>14. ASSUME Initialised(rts, t, x - 1) PROVE Initialised(rts, u, x)
  <2>1. ASSUME NEW y \in 1 .. x
        PROVE  /\ \A j \in 0 .. last(rts[y]) : u[rts[y][j + 1]].route = y /\ u[rts[y][j + 1]].idx = j
               /\ Exact(rts[y], u)
    <3>1. CASE y = x
      BY <1>8, <1>12, <3>1 DEF Exact
    <3>2. CASE y # x
      <4>1. y \in Route /\ y \in 1 .. x - 1
        BY <3>2, RoutesAssumption DEF Route
      <4>2. /\ \A j \in 0 .. last(rts[y]) : t[rts[y][j + 1]].route = y /\ t[rts[y][j + 1]].idx = j
            /\ Exact(rts[y], t)
        BY <1>14, <4>1 DEF Initialised
      <4>3. \A j \in 0 .. last(rts[y]) : u[rts[y][j + 1]] = t[rts[y][j + 1]]
        BY <1>13, <3>2, <4>1
      <4>4. Exact(rts[y], u)
        BY <1>1, <4>1, <4>2, <4>3, CachedStays DEF Exact
      <4> QED
        BY <4>2, <4>3, <4>4
    <3> QED
      BY <3>1, <3>2
  <2>2. ASSUME NEW c \in Object, u[c].route # 0
        PROVE  \E y \in Route : \E j \in 0 .. last(rts[y]) : rts[y][j + 1] = c
    <3>1. CASE c \in ToSet(rts[x])
      BY <1>9, <3>1
    <3>2. CASE c \notin ToSet(rts[x])
      <4>1. t[c].route # 0
        BY <1>10, <2>2, <3>2
      <4> QED
        BY <1>14, <4>1 DEF Initialised
    <3> QED
      BY <3>1, <3>2
  <2> QED
    BY <2>1, <2>2 DEF Initialised
<1> QED
  BY <1>8, <1>14

\* After route_init of all routes all places and values are exact.
LEMMA InitExact ==
  ASSUME Instance(problem), NEW rts, Shape(rts), Apart(rts)
  PROVE  AllExact(rts, route_init(rts))
<1>1. PICK N \in Nat : N = NRoutes /\ Route = 1 .. N
  BY RoutesAssumption DEF Route
<1>2. PICK S : S = [Object -> Data]
  OBVIOUS
<1>3. PICK U : U = [c \in Object |-> Unset]
  OBVIOUS
<1>4. U \in S /\ \A c \in Object : U[c].route = 0
  <2>1. Unset \in Data /\ Unset.route = 0
    <3>1. 0 \in 0 .. NRoutes /\ -1 \in Int /\ 0 \in Int
      BY RoutesAssumption
    <3> QED
      BY <3>1 DEF Unset, Data
  <2> QED
    BY <1>2, <1>3, <2>1
<1> DEFINE step(t, x) == route_init_penalty(rts, route_refresh_metadata_from(rts, t, x, 0), x)
<1>5. ASSUME NEW t \in S, NEW x \in 1 .. N
      PROVE  step(t, x) \in S /\ (Initialised(rts, t, x - 1) => Initialised(rts, step(t, x), x))
  BY <1>1, <1>2, InitStep
<1>6. route_init(rts) =
        (CHOOSE f : f = [x \in 0 .. N |-> IF x = 0 THEN U ELSE step(f[x - 1], x)])[N]
  BY <1>1, <1>3 DEF route_init
<1> HIDE DEF step
<1>7. PICK D : D = [v \in S \X (1 .. N) |-> step(v[1], v[2])]
  OBVIOUS
<1>8. Stepper(D, N, S) /\ \A t \in S, x \in 1 .. N : D[<<t, x>>] = step(t, x)
  BY <1>5, <1>7 DEF Stepper
<1>9. PICK f : Iterates(f, N, S, U, D)
  BY <1>4, <1>8, Recursion
<1>10. f = [x \in 0 .. N |-> IF x = 0 THEN U ELSE step(f[x - 1], x)]
  <2>1. /\ f = [i \in 0 .. N |-> f[i]] /\ f[0] = U
        /\ \A i \in 1 .. N : f[i - 1] \in S /\ f[i] = D[<<f[i - 1], i>>]
        /\ \A i \in 0 .. N : i = 0 \/ i \in 1 .. N
    BY <1>4, <1>8, <1>9, IteratesSteps
  <2>2. \A i \in 0 .. N : f[i] = IF i = 0 THEN U ELSE step(f[i - 1], i)
    BY <1>8, <2>1
  <2> QED
    BY <2>1, <2>2
<1>11. PICK a : /\ a = [x \in 0 .. N |-> IF x = 0 THEN U ELSE step(a[x - 1], x)]
                /\ route_init(rts) = a[N]
  BY <1>6, <1>10
<1>12. /\ a = [x \in 0 .. N |-> a[x]] /\ a[0] = U
       /\ \A x \in 1 .. N : a[x] = step(a[x - 1], x)
  BY <1>11
<1> DEFINE T == {k \in 0 .. N : a[k] \in S /\ Initialised(rts, a[k], k)}
<1>13. 0 \in T
  <2>1. Initialised(rts, U, 0)
    BY <1>4 DEF Initialised
  <2> QED
    BY <1>4, <1>12, <2>1
<1>14. ASSUME NEW k \in 1 .. N, k - 1 \in T PROVE k \in T
  <2>1. PICK t \in S : t = a[k - 1] /\ Initialised(rts, t, k - 1)
    BY <1>14
  <2>2. a[k] = step(t, k)
    BY <1>12, <2>1
  <2>3. a[k] \in S /\ Initialised(rts, a[k], k)
    BY <1>5, <2>1, <2>2
  <2> QED
    BY <2>3
<1>15. 0 .. N \subseteq T
  <2> HIDE DEF T
  <2> QED
    BY <1>13, <1>14, UpTo
<1>16. a[N] \in S /\ Initialised(rts, a[N], N)
  BY <1>15
<1>17. PICK d, E : d = a[N] /\ E = {}
  OBVIOUS
<1>18. KnowsBut(rts, d, E)
  BY <1>1, <1>16, <1>17 DEF KnowsBut, Initialised
<1>19. Knows(rts, d)
  BY <1>17, <1>18, KnowsAll
<1>20. \A x \in Route : Exact(rts[x], d)
  BY <1>1, <1>16, <1>17 DEF Initialised
<1> QED
  BY <1>2, <1>11, <1>16, <1>17, <1>19, <1>20 DEF AllExact
-----------------------------------------------------------------------------
(***************************************************************************)
(* The inductive invariant, and what follows from it.                      *)
(***************************************************************************)
Inv == problem \in Problems /\ AllExact(routes, data)

\* The first solution satisfies it.
LEMMA InitInv == Init => Inv
<1> SUFFICES ASSUME Init PROVE Inv
  OBVIOUS
<1>1. problem \in Problems /\ Instance(problem)
  BY ProblemsAssumption DEF Init
<1>2. routes = InitialRoutes
  BY DEF Init, InitialRoutes
<1>3. AllExact(InitialRoutes, route_init(InitialRoutes))
  BY <1>1, FirstRoutes, InitExact
<1> QED
  BY <1>1, <1>2, <1>3 DEF Init, Inv

\* The object v is at the index i of route x, whose last is n.
IsAt(v, x, n, i) ==
  /\ x \in Route /\ n \in Nat /\ i \in 0 .. n
  /\ x = data[v].route /\ i = data[v].idx
  /\ n = last(routes[x]) /\ n >= 1 /\ Len(routes[x]) = n + 1
  /\ routes[x] \in Seq(Object) /\ routes[x][i + 1] = v
  /\ i = 0 <=> v = HeadOf(x)
  /\ i = n <=> v = depot_tail_of(v)
  /\ v \in Customer <=> i \in 1 .. n - 1

\* An object that knows a place is there.
LEMMA PlacedAt ==
  ASSUME Inv, NEW v \in Placed
  PROVE  \E x, n, i : IsAt(v, x, n, i)
<1>1. /\ Instance(problem) /\ Shape(routes) /\ Knows(routes, data)
      /\ \A y \in Route : ObjectRoute(routes[y])
  BY ProblemsAssumption, KnownRoutes DEF Inv, AllExact
<1>2. v \in Object /\ data[v].route # 0
  BY DEF Placed
<1>3. PICK x \in Route : x = data[v].route
  BY <1>1, <1>2 DEF Knows
<1>4. PICK r : r = routes[x]
  OBVIOUS
<1>5. RouteShape(r, x) /\ ObjectRoute(r)
  BY <1>1, <1>4 DEF Shape
<1>6. PICK n \in Nat : n = last(r) /\ n >= 1 /\ Len(r) = n + 1
  <2>1. Len(r) \in Nat /\ Len(r) >= 2
    BY <1>5 DEF RouteShape
  <2>2. last(r) \in Nat /\ last(r) >= 1 /\ Len(r) = last(r) + 1
    BY <2>1 DEF last
  <2> QED
    BY <2>2
<1>7. PICK i \in 0 .. n : i = data[v].idx /\ r[i + 1] = v
  BY <1>1, <1>2, <1>3, <1>4, <1>6 DEF Knows
<1>8. \A j, k \in 1 .. n + 1 : r[j] = r[k] => j = k
  BY <1>5, <1>6 DEF ObjectRoute
<1>9. i = 0 <=> v = HeadOf(x)
  <2>1. r[1] = HeadOf(x)
    BY <1>5 DEF RouteShape
  <2>2. 1 \in 1 .. n + 1 /\ i + 1 \in 1 .. n + 1 /\ (i + 1 = 1 <=> i = 0)
    OBVIOUS
  <2> QED
    BY <1>7, <1>8, <2>1, <2>2
<1>10. i = n <=> v = depot_tail_of(v)
  <2>1. depot_tail_of(v) = r[n + 1]
    BY <1>3, <1>4, <1>6 DEF depot_tail_of, Last
  <2>2. n + 1 \in 1 .. n + 1 /\ i + 1 \in 1 .. n + 1 /\ (i + 1 = n + 1 <=> i = n)
    OBVIOUS
  <2> QED
    BY <1>7, <1>8, <2>1, <2>2
<1>11. v \in Customer <=> i \in 1 .. n - 1
  <2>1. r[1] \notin Customer /\ r[n + 1] \notin Customer /\ \A k \in 2 .. n : r[k] \in Customer
    BY <1>5, <1>6 DEF ObjectRoute
  <2>2. CASE i = 0
    BY <1>7, <2>1, <2>2
  <2>3. CASE i = n
    BY <1>6, <1>7, <2>1, <2>3
  <2>4. CASE i \in 1 .. n - 1
    <3>1. i + 1 \in 2 .. n
      BY <2>4
    <3> QED
      BY <1>7, <2>1, <2>4, <3>1
  <2> QED
    BY <2>2, <2>3, <2>4
<1>12. routes[x] \in Seq(Object)
  BY <1>4, <1>5 DEF RouteShape
<1> QED
  BY <1>3, <1>4, <1>6, <1>7, <1>9, <1>10, <1>11, <1>12 DEF IsAt

\* The invariant after a step that leaves all exact and keeps the instance.
LEMMA ExactThen ==
  ASSUME NEW rts, NEW d, problem \in Problems, AllExact(rts, d), rts = routes', d = data', problem' = problem
  PROVE  Inv'
<1>1. /\ Shape(rts) /\ d \in [Object -> Data] /\ Knows(rts, d)
      /\ \A x \in Route : Exact(rts[x], d)
  BY DEF AllExact
<1>2. Object' = Object
  BY DEF Object
<1>3. Shape(routes)'
  BY <1>1, <1>2 DEF Shape, RouteShape, Customer, Tails, HeadOf
<1>4. Knows(routes, data)' /\ data' \in [Object' -> Data]
  BY <1>1, <1>2 DEF Knows
<1>5. ASSUME NEW x \in Route PROVE Exact(routes[x], data)'
  <2>1. Exact(rts[x], d)
    BY <1>1
  <2> QED
    BY <2>1 DEF Exact, Cached, Forward, Backward
<1> QED
  BY <1>3, <1>4, <1>5 DEF Inv, AllExact

\* TWO_OPT.
LEMMA TwoOptInv ==
  ASSUME Inv, NEW v \in Placed, NEW w \in Placed, ApplyTwoOpt(v, w)
  PROVE  Inv'
<1>1. PICK x, n, i : IsAt(v, x, n, i)
  BY PlacedAt
<1>2. PICK y, m, j : IsAt(w, y, m, j)
  BY PlacedAt
<1>3. /\ x \in Route /\ i \in Nat /\ i < last(routes[x]) /\ x = data[v].route /\ i = data[v].idx
      /\ y \in Route /\ j \in Nat /\ j < last(routes[y]) /\ y = data[w].route /\ j = data[w].idx
      /\ x # y
  <2>1. x # y /\ i # n /\ j # m
    BY Zenon, <1>1, <1>2 DEF ApplyTwoOpt, CanTwoOpt, IsAt
  <2> QED
    BY <1>1, <1>2, <2>1 DEF IsAt
<1>4. PICK rts, rs, d : rts = routes' /\ rs = routes /\ d = data
  OBVIOUS
<1>5. /\ rts = [rs EXCEPT ![x] = Splice(rs[x], i + 1, rs[y], j + 1),
                          ![y] = Splice(rs[y], j + 1, rs[x], i + 1)]
      /\ problem' = problem
  BY Zenon, <1>3, <1>4 DEF ApplyTwoOpt, Splice
<1>6. PICK g : g = route_refresh_metadata_from(rts, d, x, i + 1)
  OBVIOUS
<1>7. PICK h : h = route_refresh_metadata_from(rts, g, y, j + 1)
  OBVIOUS
<1>8. PICK t : t = route_init_penalty(rts, h, x)
  OBVIOUS
<1>9. data' = route_init_penalty(rts, t, y)
  BY Zenon, <1>3, <1>4, <1>5, <1>6, <1>7, <1>8 DEF ApplyTwoOpt, Splice
<1>10. Instance(problem) /\ AllExact(rs, d)
  BY <1>4, ProblemsAssumption DEF Inv
<1>11. TailsExchanged(rts, rs, x, i, y, j)
  <2>1. Shape(rs) /\ i \in 0 .. last(rs[x]) /\ j \in 0 .. last(rs[y])
    BY <1>1, <1>2, <1>4, <1>10 DEF AllExact, IsAt
  <2> QED
    BY <1>3, <1>5, <2>1, TwoOptElements
<1>12. Refit(rts, d, h)
  <2>1. Shape(rs) /\ d \in [Object -> Data] /\ Knows(rs, d)
    BY <1>10 DEF AllExact
  <2>2. i < last(rs[x]) /\ j < last(rs[y])
    BY <1>3, <1>4
  <2> QED
    BY <1>3, <1>6, <1>7, <1>10, <1>11, <2>1, <2>2, TwoOptPlaces
<1>13. AllExact(rts, data')
  <2>1. i < last(rs[x]) /\ j < last(rs[y])
    BY <1>3, <1>4
  <2> QED
    BY <1>3, <1>8, <1>9, <1>10, <1>11, <1>12, <2>1, TwoOptKeeps
<1>14. problem \in Problems
  BY DEF Inv
<1> QED
  BY <1>4, <1>5, <1>13, <1>14, ExactThen

\* INSERT.
LEMMA InsertInv ==
  ASSUME Inv, NEW v \in Placed, NEW w \in Object \ Placed, ApplyInsert(v, w)
  PROVE  Inv'
<1>1. PICK x, n, i : IsAt(v, x, n, i)
  BY PlacedAt
<1>2. v # HeadOf(x) /\ w \in Customer
  BY <1>1 DEF ApplyInsert, CanInsert, IsAt
<1>3. x \in Route /\ i \in 1 .. n /\ n = last(routes[x]) /\ x = data[v].route /\ i = data[v].idx
  BY <1>1, <1>2 DEF IsAt
<1>4. PICK rts, rs, d : rts = routes' /\ rs = routes /\ d = data
  OBVIOUS
<1>5. /\ rts = [rs EXCEPT ![x] = insert_customer(@, i, w)]
      /\ data' = route_update_penalty(rts, route_refresh_metadata_from(rts, d, x, i), x, i, i)
      /\ problem' = problem
  BY <1>3, <1>4 DEF ApplyInsert
<1>6. problem \in Problems /\ Instance(problem) /\ AllExact(rs, d)
  BY <1>4, ProblemsAssumption DEF Inv
<1>7. TakenOut(d, w)
  BY <1>2, <1>4 DEF TakenOut, InARoute, Placed
<1>8. AllExact(rts, data')
  <2>1. i \in 1 .. last(rs[x])
    BY <1>3, <1>4
  <2>2. PICK g : g = route_refresh_metadata_from(rts, d, x, i)
    OBVIOUS
  <2>3. PICK u : u = data' /\ u = route_update_penalty(rts, g, x, i, i)
    BY <1>5, <2>2
  <2>4. x \in Route /\ w \in Customer /\ rts = [rs EXCEPT ![x] = insert_customer(@, i, w)]
    BY <1>2, <1>3, <1>5
  <2>5. AllExact(rts, u)
    BY <1>6, <1>7, <2>1, <2>2, <2>3, <2>4, InsertKeeps
  <2> QED
    BY <2>3, <2>5
<1> QED
  BY <1>4, <1>5, <1>6, <1>8, ExactThen

\* EJECT.
LEMMA EjectInv ==
  ASSUME Inv, NEW v \in Placed, ApplyEject(v)
  PROVE  Inv'
<1>1. PICK x, n, i : IsAt(v, x, n, i)
  BY PlacedAt
<1>2. v \in Customer
  BY DEF ApplyEject
<1>3. /\ x \in Route /\ i \in 1 .. n - 1 /\ n = last(routes[x]) /\ x = data[v].route /\ i = data[v].idx
      /\ v = routes[x][i + 1]
  BY <1>1, <1>2 DEF IsAt
<1>4. PICK rts, rs, d : rts = routes' /\ rs = routes /\ d = data
  OBVIOUS
<1>5. /\ rts = [rs EXCEPT ![x] = remove_customer(@, i)]
      /\ data' = route_update_penalty(rts, Removed(route_refresh_metadata_from(rts, d, x, i), v), x, i, i - 1)
      /\ problem' = problem
  BY Zenon, <1>3, <1>4 DEF ApplyEject
<1>6. problem \in Problems /\ Instance(problem) /\ AllExact(rs, d)
  BY <1>4, ProblemsAssumption DEF Inv
<1>7. AllExact(rts, data')
  <2>1. i \in 1 .. last(rs[x]) - 1 /\ v = rs[x][i + 1]
    BY Zenon, <1>3, <1>4
  <2>2. PICK g : g = Removed(route_refresh_metadata_from(rts, d, x, i), v)
    OBVIOUS
  <2>3. PICK u : u = data' /\ u = route_update_penalty(rts, g, x, i, i - 1)
    BY <1>5, <2>2
  <2>4. x \in Route /\ rts = [rs EXCEPT ![x] = remove_customer(@, i)]
    BY Zenon, <1>3, <1>5
  <2>5. AllExact(rts, u)
    BY <1>6, <2>1, <2>2, <2>3, <2>4, EjectKeeps
  <2> QED
    BY <2>3, <2>5
<1> QED
  BY <1>4, <1>5, <1>6, <1>7, ExactThen

\* EXCHANGE.
LEMMA ExchangeInv ==
  ASSUME Inv, NEW v \in Placed, NEW w \in Placed, ApplyExchange(v, w)
  PROVE  Inv'
<1>1. PICK x, n, i : IsAt(v, x, n, i)
  BY PlacedAt
<1>2. PICK y, m, j : IsAt(w, y, m, j)
  BY PlacedAt
<1>3. v \in Customer /\ w \in Customer /\ v # w
  BY DEF ApplyExchange, CanExchange
<1>4. /\ x \in Route /\ i \in 0 .. n /\ n = last(routes[x]) /\ x = data[v].route /\ i = data[v].idx
      /\ v = routes[x][i + 1] /\ i \in Nat
  BY <1>1 DEF IsAt
<1>5. /\ y \in Route /\ j \in 0 .. m /\ m = last(routes[y]) /\ y = data[w].route /\ j = data[w].idx
      /\ w = routes[y][j + 1] /\ j \in Nat
  BY <1>2 DEF IsAt
<1>6. PICK rts, rs, d : rts = routes' /\ rs = routes /\ d = data
  OBVIOUS
<1>7. PICK h \in Nat : h = (IF x = y THEN MIN(i, j) ELSE j) /\ h <= j
  <2>1. i \in Nat /\ j \in Nat
    BY Zenon, <1>4, <1>5
  <2>2. MIN(i, j) \in Nat /\ MIN(i, j) <= j /\ j <= j
    BY <2>1 DEF MIN
  <2>3. CASE x = y
    BY <2>2, <2>3
  <2>4. CASE x # y
    BY <2>1, <2>2, <2>4
  <2> QED
    BY <2>3, <2>4
<1>8. PICK g : g = route_refresh_metadata_from(rts, d, x, i)
  OBVIOUS
<1>9. PICK f : f = route_refresh_metadata_from(rts, g, y, h)
  OBVIOUS
<1>10. PICK t : t = route_update_penalty(rts, f, x, i, i)
  OBVIOUS
<1>11. /\ rts = [rs EXCEPT ![x][i + 1] = w, ![y][j + 1] = v]
       /\ data' = (IF x = y THEN route_init_penalty(rts, f, x) ELSE route_update_penalty(rts, t, y, j, j))
       /\ problem' = problem
  BY Zenon, <1>4, <1>5, <1>6, <1>7, <1>8, <1>9, <1>10 DEF ApplyExchange
<1>12. problem \in Problems /\ Instance(problem) /\ AllExact(rs, d)
  BY <1>6, ProblemsAssumption DEF Inv
<1>13. Shape(rs) /\ d \in [Object -> Data] /\ Knows(rs, d)
  BY <1>12 DEF AllExact
<1>14. /\ i \in 0 .. last(rs[x]) /\ v = rs[x][i + 1]
       /\ j \in 0 .. last(rs[y]) /\ w = rs[y][j + 1]
  BY Zenon, <1>4, <1>5, <1>6
<1>15. v \in Object /\ w \in Object
  BY DEF Placed
<1>16. Exchanged(rts, rs, x, i, y, j, v, w)
  <2>1. x \in Route /\ y \in Route
    BY Zenon, <1>4, <1>5
  <2>2. rts = Exchange2(rs, x, i, y, j, v, w)
    BY <1>11 DEF Exchange2
  <2> QED
    BY <1>13, <1>14, <1>15, <2>1, <2>2, ExchangeElements
<1>17. Refit(rts, d, f)
  BY Zenon, <1>3, <1>4, <1>5, <1>7, <1>8, <1>9, <1>12, <1>13, <1>14, <1>16, ExchangePlaces
<1>18. AllExact(rts, data')
  <2>1. x \in Route /\ y \in Route
    BY <1>4, <1>5
  <2>2. PICK u : u = data' /\ u = IF x = y THEN route_init_penalty(rts, f, x)
                                  ELSE route_update_penalty(rts, t, y, j, j)
    BY <1>11
  <2>3. AllExact(rts, u)
    BY <1>3, <1>10, <1>12, <1>14, <1>16, <1>17, <2>1, <2>2, ExchangeKeeps
  <2> QED
    BY <2>2, <2>3
<1> QED
  BY <1>6, <1>11, <1>12, <1>18, ExactThen

\* OUT_RELOCATE.
LEMMA OutRelocateInv ==
  ASSUME Inv, NEW v \in Placed, NEW w \in Placed, ApplyOutRelocate(v, w)
  PROVE  Inv'
<1>1. PICK x, n, i : IsAt(v, x, n, i)
  BY PlacedAt
<1>2. PICK y, m, s : IsAt(w, y, m, s)
  BY PlacedAt
<1>3. w \in Customer /\ v # HeadOf(x) /\ v # w
  BY <1>1 DEF ApplyOutRelocate, CanOutRelocate, IsAt
<1>4. /\ x \in Route /\ n \in Nat /\ i \in 1 .. n /\ n = last(routes[x])
      /\ x = data[v].route /\ i = data[v].idx /\ v = routes[x][i + 1]
  BY <1>1, <1>3 DEF IsAt
<1>5. /\ y \in Route /\ m \in Nat /\ s \in 1 .. m - 1 /\ m = last(routes[y])
      /\ y = data[w].route /\ s = data[w].idx /\ w = routes[y][s + 1] /\ routes[y] \in Seq(Object)
  BY <1>2, <1>3 DEF IsAt
<1>6. PICK rts, rs, d : rts = routes' /\ rs = routes /\ d = data
  OBVIOUS
<1>7. problem \in Problems /\ Instance(problem) /\ AllExact(rs, d)
  BY <1>6, ProblemsAssumption DEF Inv
<1>8. PICK dst : dst = IF x = y /\ s < i THEN i - 1 ELSE i
  OBVIOUS
<1>9. PICK mid : mid = [rs EXCEPT ![y] = remove_customer(@, s)]
  OBVIOUS
<1>10. dst \in 1 .. last(mid[x])
  <2>1. rs = [z \in Route |-> rs[z]]
    BY <1>7 DEF AllExact, Shape
  <2>2. mid[y] = remove_customer(rs[y], s) /\ (x # y => mid[x] = rs[x])
    BY Zenon, <1>4, <1>5, <1>9, <2>1
  <2>3. last(mid[y]) = m - 1
    <3>1. PICK r : r = rs[y]
      OBVIOUS
    <3>2. r \in Seq(Object) /\ m = last(r)
      BY Zenon, <1>5, <1>6, <3>1
    <3>3. m \in Nat /\ m >= 1 /\ s \in 0 .. m
      <4>1. m \in Nat
        BY Zenon, <1>5
      <4>2. s \in 1 .. m - 1
        BY Zenon, <1>5
      <4> QED
        BY <4>1, <4>2
    <3>4. last(remove_customer(r, s)) = m - 1
      BY <3>2, <3>3, RemoveElements
    <3> QED
      BY <2>2, <3>1, <3>4
  <2>4. CASE x # y
    BY Zenon, <1>4, <1>6, <1>8, <2>2, <2>4
  <2>5. CASE x = y
    <3>1. i # s /\ n = m
      BY Zenon, <1>3, <1>4, <1>5, <2>5
    <3>2. n \in Nat /\ i \in 1 .. n /\ s \in 1 .. n - 1
      BY Zenon, <1>4, <1>5, <3>1
    <3>3. dst \in 1 .. n - 1
      <4>1. CASE s < i
        BY <1>8, <2>5, <3>2, <4>1
      <4>2. CASE ~(s < i)
        BY <1>8, <3>1, <3>2, <4>2
      <4> QED
        BY <4>1, <4>2
    <3> QED
      BY <2>3, <2>5, <3>1, <3>3
  <2> QED
    BY <2>4, <2>5
<1>11. PICK g : g = Removed(route_refresh_metadata_from(mid, d, y, s), w)
  OBVIOUS
<1>12. PICK h : h = route_refresh_metadata_from(rts, g, x, dst)
  OBVIOUS
<1>13. PICK t : t = route_update_penalty(rts, h, x, dst, dst)
  OBVIOUS
<1>14. PICK u : u = data'
  OBVIOUS
<1>15. /\ rts = [mid EXCEPT ![x] = insert_customer(@, dst, w)]
       /\ u = (IF x = y THEN route_init_penalty(rts, h, x) ELSE route_update_penalty(rts, t, y, s, s - 1))
       /\ problem' = problem
  BY Zenon, <1>4, <1>5, <1>6, <1>8, <1>9, <1>11, <1>12, <1>13, <1>14 DEF ApplyOutRelocate
<1>16. Relocated(rts, mid, rs, x, dst, y, s, w)
  BY <1>9, <1>15 DEF Relocated
<1>17. AllExact(rts, u)
  <2>1. x \in Route /\ y \in Route /\ s \in 1 .. last(rs[y]) - 1 /\ w = rs[y][s + 1]
    BY Zenon, <1>4, <1>5, <1>6
  <2>2. u = IF x = y THEN route_init_penalty(rts, h, x) ELSE route_update_penalty(rts, t, y, s, s - 1)
    BY <1>15
  <2> QED
    BY <1>7, <1>10, <1>11, <1>12, <1>13, <1>16, <2>1, <2>2, RelocateKeeps
<1> QED
  BY <1>6, <1>7, <1>14, <1>15, <1>17, ExactThen

\* A step that changes nothing.
LEMMA StutterInv ==
  ASSUME Inv, UNCHANGED vars
  PROVE  Inv'
<1>1. problem \in Problems /\ AllExact(routes, data)
  BY DEF Inv
<1> QED
  BY <1>1, ExactThen DEF vars

\* The places and the values of all routes stay exact (modification_apply).
THEOREM AlwaysExact == Spec => []Inv
<1>1. Init => Inv
  BY InitInv
<1>2. Inv /\ [Next]_vars => Inv'
  <2> SUFFICES ASSUME Inv, [Next]_vars PROVE Inv'
    OBVIOUS
  <2>1. CASE \E v, w \in Placed : ApplyTwoOpt(v, w)
    BY <2>1, TwoOptInv
  <2>2. CASE \E v, w \in Placed : ApplyOutRelocate(v, w)
    BY <2>2, OutRelocateInv
  <2>3. CASE \E v, w \in Placed : ApplyExchange(v, w)
    BY <2>3, ExchangeInv
  <2>4. CASE \E v \in Placed, w \in Object \ Placed : ApplyInsert(v, w)
    BY <2>4, InsertInv
  <2>5. CASE \E v \in Placed : ApplyEject(v)
    BY <2>5, EjectInv
  <2>6. CASE UNCHANGED vars
    BY <2>6, StutterInv
  <2> QED
    BY <2>1, <2>2, <2>3, <2>4, <2>5, <2>6 DEF Next
<1> QED
  BY <1>1, <1>2, PTL DEF Spec

\* What the invariant says of a route and of its ids.
LEMMA RouteOfInv ==
  ASSUME Inv, NEW x \in Route
  PROVE  /\ RouteShape(routes[x], x) /\ ObjectRoute(routes[x]) /\ Exact(routes[x], data)
         /\ Ids[x] = IdsOf(routes[x]) /\ RouteOf(problem, Ids[x])
         /\ last(routes[x]) \in Nat /\ last(routes[x]) >= 1 /\ Len(routes[x]) = last(routes[x]) + 1
         /\ Indexes(Ids[x]) = 0 .. last(routes[x])
<1>1. Instance(problem) /\ Shape(routes) /\ Knows(routes, data) /\ Exact(routes[x], data)
  BY ProblemsAssumption DEF Inv, AllExact
<1>2. RouteShape(routes[x], x) /\ ObjectRoute(routes[x])
  BY <1>1, KnownRoutes DEF Shape
<1>3. Ids[x] = IdsOf(routes[x])
  BY DEF Ids, IdsOf
<1>4. Len(routes[x]) \in Nat /\ Len(routes[x]) >= 2
  BY <1>2 DEF RouteShape
<1>5. last(routes[x]) \in Nat /\ last(routes[x]) >= 1 /\ Len(routes[x]) = last(routes[x]) + 1
  BY <1>4 DEF last
<1>6. RouteOf(problem, Ids[x]) /\ last(routes[x]) = Len(Ids[x]) + 1
  BY <1>1, <1>2, <1>3, RouteIds
<1>7. Indexes(Ids[x]) = 0 .. last(routes[x])
  BY <1>6 DEF Indexes
<1> QED
  BY <1>1, <1>2, <1>3, <1>5, <1>6, <1>7

\* Every object knows its route and its index there, and none knows a place it does not have
\* (route_check).
THEOREM PlacesStayExact == Spec => []PlacesExact
<1>1. Inv => PlacesExact
  <2> SUFFICES ASSUME Inv PROVE PlacesExact
    OBVIOUS
  <2>1. Instance(problem) /\ Knows(routes, data)
    BY ProblemsAssumption DEF Inv, AllExact
  <2>2. ASSUME NEW x \in Route, NEW i \in 0 .. last(routes[x]) PROVE Node(routes[x][i + 1]) = <<x, i>>
    BY <2>1 DEF Knows, Node
  <2>3. ASSUME NEW c \in Placed PROVE routes[data[c].route][data[c].idx + 1] = c
    BY <2>1 DEF Knows, Placed
  <2>4. ASSUME NEW x \in Route PROVE routes[x][1] = HeadOf(x) /\ Last(routes[x]) \notin Customer
    BY RouteOfInv DEF RouteShape, ObjectRoute, Last
  <2> QED
    BY <2>2, <2>3, <2>4 DEF PlacesExact
<1> QED
  BY <1>1, AlwaysExact, PTL

\* The cached values are those of a computation anew, whatever modifications led here and
\* whichever direction they updated.
THEOREM CachesStayExact == Spec => []CachesExact
<1>1. Inv => CachesExact
  <2> SUFFICES ASSUME Inv, NEW x \in Route, NEW i \in Indexes(Ids[x])
               PROVE  LET d == data[routes[x][i + 1]]
                          r == Ids[x]
                      IN  /\ d.a = Arrivals(problem, r)[i] /\ d.tw_pf = PrefixLateness(problem, r)[i]
                          /\ d.demand_pf = PrefixDemand(problem, r)[i]
                          /\ d.z = LatestStarts(problem, r)[i] /\ d.tw_sf = SuffixLateness(problem, r)[i]
                          /\ d.demand_sf = SuffixDemand(problem, r)[i]
    BY DEF CachesExact
  <2>1. PICK n \in Nat : n = last(routes[x]) /\ Len(routes[x]) = n + 1
    BY RouteOfInv
  <2>2. i \in 0 .. n /\ i < Len(routes[x]) /\ i > -1
    BY <2>1, RouteOfInv
  <2>3. Forward(routes[x], data, i) /\ Backward(routes[x], data, i)
    BY <2>1, <2>2, RouteOfInv DEF Exact, Cached
  <2>4. IdsOf(routes[x]) = Ids[x]
    BY RouteOfInv
  <2> QED
    BY <2>3, <2>4 DEF Forward, Backward
<1> QED
  BY <1>1, AlwaysExact, PTL
-----------------------------------------------------------------------------
(***************************************************************************)
(* Types: the values are natural and the indexes bounded by the number of  *)
(* customers, also for objects that are in no route any more.              *)
(***************************************************************************)
NaturalData(p) == \A c \in 0 .. p.n : p.e[c] \in Nat /\ p.l[c] \in Nat /\ p.demand[c] \in Nat

NaturalValues(u) ==
  /\ u.a \in Nat /\ u.tw_pf \in Nat /\ u.demand_pf \in Nat
  /\ u.z \in Nat /\ u.tw_sf \in Nat /\ u.demand_sf \in Nat

\* A customer that was taken out has no index, and the values of its last route.
Idle == \A c \in Object : data[c].route = 0 => data[c].idx = -1 /\ NaturalValues(data[c])

TypeInv == Inv /\ Idle

\* A time that is clipped into a natural time window is natural.
LEMMA ClippedNatural ==
  ASSUME NEW p, Instance(p), NaturalData(p), NEW c \in 0 .. p.n, NEW t \in Int
  PROVE  Clip(p, c, t) \in Nat
<1>1. p.e[c] \in Nat /\ p.l[c] \in Nat
  BY DEF NaturalData
<1> QED
  BY <1>1 DEF Clip, MAX, MIN

\* What a computation anew gives is natural if the data of the instance are.
LEMMA ComputedNatural ==
  ASSUME NEW p, NEW r, RouteOf(p, r), NaturalData(p), NEW i \in 0 .. Len(r) + 1
  PROVE  /\ Arrivals(p, r)[i] \in Nat /\ PrefixLateness(p, r)[i] \in Nat /\ PrefixDemand(p, r)[i] \in Nat
         /\ LatestStarts(p, r)[i] \in Nat /\ SuffixLateness(p, r)[i] \in Nat /\ SuffixDemand(p, r)[i] \in Nat
<1>1. Instance(p) /\ p.n \in Nat /\ 0 \in 0 .. p.n
  BY DEF RouteOf, Instance
<1>2. PICK n \in Nat : n = Len(r) + 1 /\ n - 1 = Len(r)
  BY DEF RouteOf
<1>3. i \in 0 .. n
  BY <1>2
<1>4. /\ \A k \in 0 .. n : Id(r, k) \in 0 .. p.n
      /\ \A k \in 1 .. n : Leg(p, Id(r, k - 1), Id(r, k)) \in Int
      /\ \A k \in 0 .. n - 1 : Leg(p, Id(r, k), Id(r, k + 1)) \in Int
  BY <1>2, RouteLegs
<1>5. Arrivals(p, r)[i] \in Nat
  <2>1. /\ Arrivals(p, r) \in [0 .. n -> Int] /\ Arrivals(p, r)[0] = p.e[0]
        /\ \A k \in 1 .. n : Arrivals(p, r)[k] =
             Clip(p, Id(r, k), Arrivals(p, r)[k - 1] + Leg(p, Id(r, k - 1), Id(r, k)))
    BY <1>2, ArrivalsSteps
  <2>2. CASE i = 0
    BY <1>1, <2>1, <2>2 DEF NaturalData
  <2>3. CASE i \in 1 .. n
    <3>1. i - 1 \in 0 .. n /\ i \in 0 .. n
      BY <2>3
    <3>2. PICK t \in Int : t = Arrivals(p, r)[i - 1] + Leg(p, Id(r, i - 1), Id(r, i))
      BY <1>4, <2>1, <2>3, <3>1
    <3> QED
      BY <1>1, <1>4, <2>1, <2>3, <3>1, <3>2, ClippedNatural
  <2> QED
    BY <1>3, <2>2, <2>3
<1>6. LatestStarts(p, r)[i] \in Nat
  <2>1. /\ LatestStarts(p, r) \in [0 .. n -> Int] /\ LatestStarts(p, r)[n] = p.l[0]
        /\ \A k \in 0 .. n - 1 : LatestStarts(p, r)[k] =
             Clip(p, Id(r, k), LatestStarts(p, r)[k + 1] - Leg(p, Id(r, k), Id(r, k + 1)))
    BY <1>2, LatestStartsSteps
  <2>2. CASE i = n
    BY <1>1, <2>1, <2>2 DEF NaturalData
  <2>3. CASE i \in 0 .. n - 1
    <3>1. i + 1 \in 0 .. n /\ i \in 0 .. n
      BY <2>3
    <3>2. PICK t \in Int : t = LatestStarts(p, r)[i + 1] - Leg(p, Id(r, i), Id(r, i + 1))
      BY <1>4, <2>1, <2>3, <3>1
    <3> QED
      BY <1>1, <1>4, <2>1, <2>3, <3>1, <3>2, ClippedNatural
  <2> QED
    BY <1>3, <2>2, <2>3
<1>7. PrefixLateness(p, r)[i] \in Nat /\ SuffixLateness(p, r)[i] \in Nat
  <2>1. PrefixLateness(p, r) \in [0 .. n -> Nat] /\ SuffixLateness(p, r) \in [0 .. n -> Nat]
    BY <1>2, PrefixLatenessSteps, SuffixLatenessSteps
  <2> QED
    BY <1>3, <2>1
<1>8. \A k \in 0 .. n : p.demand[Id(r, k)] \in Nat
  BY <1>4 DEF NaturalData
<1>9. PrefixDemand(p, r)[i] \in Nat
  <2>1. PICK T : T = {k \in 0 .. n : PrefixDemand(p, r)[k] \in Nat}
    OBVIOUS
  <2>2. /\ PrefixDemand(p, r)[0] = p.demand[0]
        /\ \A k \in 1 .. n : PrefixDemand(p, r)[k] = p.demand[Id(r, k)] + PrefixDemand(p, r)[k - 1]
    BY <1>2, PrefixDemandSteps
  <2>3. 0 \in T
    BY <1>1, <2>1, <2>2 DEF NaturalData
  <2>4. ASSUME NEW k \in 1 .. n, k - 1 \in T PROVE k \in T
    BY <1>8, <2>1, <2>2, <2>4
  <2>5. 0 .. n \subseteq T
    BY <2>3, <2>4, UpTo
  <2> QED
    BY <1>3, <2>1, <2>5
<1>10. SuffixDemand(p, r)[i] \in Nat
  <2>1. PICK T : T = {k \in 0 .. n : SuffixDemand(p, r)[k] \in Nat}
    OBVIOUS
  <2>2. /\ SuffixDemand(p, r)[n] = p.demand[0]
        /\ \A k \in 0 .. n - 1 : SuffixDemand(p, r)[k] = p.demand[Id(r, k)] + SuffixDemand(p, r)[k + 1]
    BY <1>2, SuffixDemandSteps
  <2>3. n \in T
    BY <1>1, <2>1, <2>2 DEF NaturalData
  <2>4. ASSUME NEW k \in 0 .. n - 1, k + 1 \in T PROVE k \in T
    BY <1>8, <2>1, <2>2, <2>4
  <2>5. 0 .. n \subseteq T
    BY <2>3, <2>4, DownTo
  <2> QED
    BY <1>3, <2>1, <2>5
<1> QED
  BY <1>5, <1>6, <1>7, <1>9, <1>10

\* Exact values along a route are natural.
LEMMA RouteNatural ==
  ASSUME Instance(problem), NaturalData(problem), NEW r, ObjectRoute(r), NEW d, Exact(r, d),
         NEW k \in 0 .. last(r)
  PROVE  NaturalValues(d[r[k + 1]])
<1>1. PICK q : q = IdsOf(r)
  OBVIOUS
<1>2. RouteOf(problem, q) /\ Len(r) \in Nat /\ last(r) = Len(q) + 1 /\ last(r) = Len(r) - 1
  BY <1>1, RouteIds DEF last
<1>3. k < Len(r) /\ k > -1 /\ k \in 0 .. Len(q) + 1
  BY <1>2
<1>4. Forward(r, d, k) /\ Backward(r, d, k)
  BY <1>3 DEF Exact, Cached
<1>5. /\ Arrivals(problem, q)[k] \in Nat /\ PrefixLateness(problem, q)[k] \in Nat
      /\ PrefixDemand(problem, q)[k] \in Nat /\ LatestStarts(problem, q)[k] \in Nat
      /\ SuffixLateness(problem, q)[k] \in Nat /\ SuffixDemand(problem, q)[k] \in Nat
  BY <1>2, <1>3, ComputedNatural
<1> QED
  BY <1>1, <1>4, <1>5 DEF Forward, Backward, NaturalValues

\* A route has at most all customers.
LEMMA RouteLength ==
  ASSUME Instance(problem), NEW r, ObjectRoute(r)
  PROVE  last(r) \in Nat /\ last(r) <= problem.n + 1
<1>1. PICK q : q = IdsOf(r)
  OBVIOUS
<1>2. /\ RouteOf(problem, q) /\ Len(r) \in Nat /\ last(r) = Len(q) + 1 /\ Len(q) = Len(r) - 2
      /\ \A k \in 1 .. last(r) - 1 : q[k] = r[k + 1]
  BY <1>1, RouteIds
<1>3. problem.n \in Nat /\ q \in Seq(1 .. problem.n)
  BY <1>2 DEF Instance, RouteOf
<1>4. PICK m \in Nat : m = Len(q)
  BY <1>3
<1>5. q \in [1 .. m -> 1 .. problem.n]
  BY <1>3, <1>4
<1>6. ASSUME NEW j \in 1 .. m, NEW k \in 1 .. m, q[j] = q[k] PROVE j = k
  <2>1. q[j] = r[j + 1] /\ q[k] = r[k + 1] /\ j + 1 \in 1 .. Len(r) /\ k + 1 \in 1 .. Len(r)
    BY <1>2, <1>4
  <2>2. j + 1 = k + 1
    BY <1>6, <2>1 DEF ObjectRoute
  <2> QED
    BY <2>2
<1>7. q \in Injection(1 .. m, 1 .. problem.n)
  BY <1>5, <1>6 DEF Injection, IsInjective
<1>8. /\ IsFiniteSet(1 .. problem.n) /\ Cardinality(1 .. problem.n) = problem.n
      /\ Cardinality(1 .. m) = m
  <2>1. ASSUME NEW k \in Nat PROVE IsFiniteSet(1 .. k) /\ Cardinality(1 .. k) = k
    <3>1. 1 \in Int /\ k \in Int /\ (IF 1 > k THEN 0 ELSE k - 1 + 1) = k
      OBVIOUS
    <3> QED
      BY <3>1, FS_Interval
  <2> QED
    BY <1>3, <1>4, <2>1
<1>9. m <= problem.n
  BY <1>7, <1>8, FS_Injection
<1> QED
  BY <1>2, <1>3, <1>4, <1>9

\* An object that believes to be in no route is in none.
LEMMA NowhereElse ==
  ASSUME Instance(problem), NEW rts, Shape(rts), NEW d, Knows(rts, d),
         NEW c \in Object, d[c].route = 0, NEW x \in Route
  PROVE  c \notin ToSet(rts[x])
<1>1. SUFFICES ASSUME c \in ToSet(rts[x]) PROVE FALSE
  OBVIOUS
<1>2. PICK k \in 0 .. last(rts[x]) : rts[x][k + 1] = c
  BY <1>1, KnownRoutes, InRoute
<1>3. d[c].route = x
  BY <1>2 DEF Knows
<1> QED
  BY <1>3, RoutesAssumption DEF Route

\* The refresh of the places in a route changes no data of objects that are not in it.
LEMMA RefreshElsewhere ==
  ASSUME NEW rts, NEW x, ObjectRoute(rts[x]), NEW d, NEW f \in Nat, NEW c \in Object, c \notin ToSet(rts[x])
  PROVE  route_refresh_metadata_from(rts, d, x, f)[c] = d[c]
<1>1. \A i \in f .. last(rts[x]) : i \in 0 .. last(rts[x])
  OBVIOUS
<1>2. c \notin {rts[x][i + 1] : i \in f .. last(rts[x])}
  BY <1>1, InRoute
<1> QED
  BY Zenon, <1>2 DEF route_refresh_metadata_from

\* Neither does the update of its values.
LEMMA UpdateElsewhere ==
  ASSUME NEW rts, NEW x, NEW d, NEW f, NEW b, NEW c \in Object, c \notin ToSet(rts[x])
  PROVE  route_update_penalty(rts, d, x, f, b)[c] = d[c]
  BY Zenon DEF route_update_penalty

\* The exact data after a step that keeps the instance, in terms of its constants.
LEMMA ExactAfter ==
  ASSUME Inv', problem' = problem, NEW rts, NEW d, rts = routes', d = data'
  PROVE  Instance(problem) /\ Shape(rts) /\ d \in [Object -> Data] /\ Knows(rts, d)
<1>1. problem \in Problems /\ Shape(routes)' /\ data' \in [Object' -> Data] /\ Knows(routes, data)'
  BY DEF Inv, AllExact
<1>2. Object' = Object
  BY DEF Object
<1>3. Shape(rts)
  BY <1>1, <1>2 DEF Shape, RouteShape, Customer, Tails, HeadOf
<1>4. Knows(rts, d)
  BY <1>1, <1>2 DEF Knows
<1> QED
  BY <1>1, <1>2, <1>3, <1>4, ProblemsAssumption

\* What a step left of the data of an object that is in no route after it: all, unless the
\* object was taken out.
Untouched(u, c) == u = data[c] \/ (data[c].route # 0 /\ u = [data[c] EXCEPT !.route = 0, !.idx = -1])

\* TWO_OPT.
LEMMA TwoOptElsewhere ==
  ASSUME Inv, Inv', NEW v \in Placed, NEW w \in Placed, ApplyTwoOpt(v, w),
         NEW c \in Object, data'[c].route = 0
  PROVE  Untouched(data'[c], c)
<1>1. PICK x, n, i : IsAt(v, x, n, i)
  BY PlacedAt
<1>2. PICK y, m, j : IsAt(w, y, m, j)
  BY PlacedAt
<1>3. /\ x \in Route /\ i + 1 \in Nat /\ x = data[v].route /\ i = data[v].idx
      /\ y \in Route /\ j + 1 \in Nat /\ y = data[w].route /\ j = data[w].idx
  BY <1>1, <1>2 DEF IsAt
<1>4. PICK rts, u : rts = routes' /\ u = data'
  OBVIOUS
<1>5. PICK g, h : /\ g = route_refresh_metadata_from(rts, data, x, i + 1)
                  /\ h = route_refresh_metadata_from(rts, g, y, j + 1)
  OBVIOUS
<1>6. PICK t : t = route_init_penalty(rts, h, x)
  OBVIOUS
<1>7. u = route_init_penalty(rts, t, y) /\ problem' = problem
  BY Zenon, <1>3, <1>4, <1>5, <1>6 DEF ApplyTwoOpt
<1>8. /\ \A z \in Route : ObjectRoute(rts[z])
      /\ c \notin ToSet(rts[x]) /\ c \notin ToSet(rts[y])
  <2>1. Instance(problem) /\ Shape(rts) /\ Knows(rts, u)
    BY <1>4, <1>7, ExactAfter
  <2> QED
    BY <1>3, <1>4, <2>1, KnownRoutes, NowhereElse
<1>9. u[c] = t[c] /\ t[c] = h[c]
  BY <1>6, <1>7, <1>8, UpdateElsewhere DEF route_init_penalty
<1>10. h[c] = g[c] /\ g[c] = data[c]
  BY <1>3, <1>5, <1>8, RefreshElsewhere
<1> QED
  BY <1>4, <1>9, <1>10 DEF Untouched

\* INSERT.
LEMMA InsertElsewhere ==
  ASSUME Inv, Inv', NEW v \in Placed, NEW w \in Object \ Placed, ApplyInsert(v, w),
         NEW c \in Object, data'[c].route = 0
  PROVE  Untouched(data'[c], c)
<1>1. PICK x, n, i : IsAt(v, x, n, i)
  BY PlacedAt
<1>2. x \in Route /\ i \in Nat /\ x = data[v].route /\ i = data[v].idx
  BY <1>1 DEF IsAt
<1>3. PICK rts, u : rts = routes' /\ u = data'
  OBVIOUS
<1>4. PICK g : g = route_refresh_metadata_from(rts, data, x, i)
  OBVIOUS
<1>5. u = route_update_penalty(rts, g, x, i, i) /\ problem' = problem
  BY Zenon, <1>2, <1>3, <1>4 DEF ApplyInsert
<1>6. ObjectRoute(rts[x]) /\ c \notin ToSet(rts[x])
  <2>1. Instance(problem) /\ Shape(rts) /\ Knows(rts, u)
    BY <1>3, <1>5, ExactAfter
  <2> QED
    BY <1>2, <1>3, <2>1, KnownRoutes, NowhereElse
<1>7. u[c] = g[c] /\ g[c] = data[c]
  BY <1>2, <1>4, <1>5, <1>6, UpdateElsewhere, RefreshElsewhere
<1> QED
  BY <1>3, <1>7 DEF Untouched

\* EXCHANGE.
LEMMA ExchangeElsewhere ==
  ASSUME Inv, Inv', NEW v \in Placed, NEW w \in Placed, ApplyExchange(v, w),
         NEW c \in Object, data'[c].route = 0
  PROVE  Untouched(data'[c], c)
<1>1. PICK x, n, i : IsAt(v, x, n, i)
  BY PlacedAt
<1>2. PICK y, m, j : IsAt(w, y, m, j)
  BY PlacedAt
<1>3. /\ x \in Route /\ i \in Nat /\ x = data[v].route /\ i = data[v].idx
      /\ y \in Route /\ j \in Nat /\ y = data[w].route /\ j = data[w].idx
  BY <1>1, <1>2 DEF IsAt
<1>4. PICK rts, u : rts = routes' /\ u = data'
  OBVIOUS
<1>5. PICK k \in Nat : k = IF x = y THEN MIN(i, j) ELSE j
  BY <1>3 DEF MIN
<1>6. PICK g, h : /\ g = route_refresh_metadata_from(rts, data, x, i)
                  /\ h = route_refresh_metadata_from(rts, g, y, k)
  OBVIOUS
<1>7. PICK t : t = route_update_penalty(rts, h, x, i, i)
  OBVIOUS
<1>8. /\ u = (IF x = y THEN route_init_penalty(rts, h, x) ELSE route_update_penalty(rts, t, y, j, j))
      /\ problem' = problem
  BY Zenon, <1>3, <1>4, <1>5, <1>6, <1>7 DEF ApplyExchange
<1>9. /\ \A z \in Route : ObjectRoute(rts[z])
      /\ c \notin ToSet(rts[x]) /\ c \notin ToSet(rts[y])
  <2>1. Instance(problem) /\ Shape(rts) /\ Knows(rts, u)
    BY <1>4, <1>8, ExactAfter
  <2> QED
    BY <1>3, <1>4, <2>1, KnownRoutes, NowhereElse
<1>10. u[c] = h[c]
  <2>1. route_init_penalty(rts, h, x)[c] = h[c] /\ t[c] = h[c]
    BY <1>7, <1>9, UpdateElsewhere DEF route_init_penalty
  <2>2. route_update_penalty(rts, t, y, j, j)[c] = t[c]
    BY <1>9, UpdateElsewhere
  <2> QED
    BY Zenon, <1>8, <2>1, <2>2
<1>11. h[c] = g[c] /\ g[c] = data[c]
  BY <1>3, <1>5, <1>6, <1>9, RefreshElsewhere
<1> QED
  BY <1>4, <1>10, <1>11 DEF Untouched

\* A customer that is taken out.
LEMMA RemovedData ==
  ASSUME NEW d \in [Object -> Data], NEW g, NEW w \in Object, d[w].route # 0, NEW c \in Object,
         g[c] = d[c], g = [k \in Object |-> g[k]], d = data
  PROVE  Untouched(Removed(g, w)[c], c)
<1>1. PICK p : p = g[c]
  OBVIOUS
<1>2. CASE c # w
  BY Zenon, <1>2 DEF Removed, Untouched
<1>3. CASE c = w
  <2>1. Removed(g, w) = [g EXCEPT ![w] = [[p EXCEPT !.route = 0] EXCEPT !.idx = -1]]
    BY <1>1, <1>3 DEF Removed
  <2>2. Removed(g, w)[c] = [p EXCEPT !.route = 0, !.idx = -1]
    BY <1>3, <2>1
  <2> QED
    BY <1>1, <1>3, <2>2 DEF Untouched
<1> QED
  BY <1>2, <1>3

\* EJECT.
LEMMA EjectElsewhere ==
  ASSUME Inv, Inv', NEW v \in Placed, ApplyEject(v), NEW c \in Object, data'[c].route = 0
  PROVE  Untouched(data'[c], c)
<1>1. PICK x, n, i : IsAt(v, x, n, i)
  BY PlacedAt
<1>2. x \in Route /\ i \in Nat /\ x = data[v].route /\ i = data[v].idx
  BY <1>1 DEF IsAt
<1>3. PICK rts, u : rts = routes' /\ u = data'
  OBVIOUS
<1>4. PICK g : g = route_refresh_metadata_from(rts, data, x, i)
  OBVIOUS
<1>5. u = route_update_penalty(rts, Removed(g, v), x, i, i - 1) /\ problem' = problem
  BY Zenon, <1>2, <1>3, <1>4 DEF ApplyEject
<1>6. ObjectRoute(rts[x]) /\ c \notin ToSet(rts[x])
  <2>1. Instance(problem) /\ Shape(rts) /\ Knows(rts, u)
    BY <1>3, <1>5, ExactAfter
  <2> QED
    BY <1>2, <1>3, <2>1, KnownRoutes, NowhereElse
<1>7. u[c] = Removed(g, v)[c] /\ g[c] = data[c]
  BY <1>2, <1>4, <1>5, <1>6, UpdateElsewhere, RefreshElsewhere
<1>8. g = [k \in Object |-> g[k]]
  BY <1>4 DEF route_refresh_metadata_from
<1>9. v \in Object /\ data[v].route # 0 /\ data \in [Object -> Data]
  BY DEF Placed, Inv, AllExact
<1>10. Untouched(Removed(g, v)[c], c)
  BY <1>7, <1>8, <1>9, RemovedData
<1> QED
  BY <1>3, <1>7, <1>10

\* OUT_RELOCATE.
LEMMA OutRelocateElsewhere ==
  ASSUME Inv, Inv', NEW v \in Placed, NEW w \in Placed, ApplyOutRelocate(v, w),
         NEW c \in Object, data'[c].route = 0
  PROVE  Untouched(data'[c], c)
<1>1. PICK x, n, i : IsAt(v, x, n, i)
  BY PlacedAt
<1>2. PICK y, m, s : IsAt(w, y, m, s)
  BY PlacedAt
<1>3. w \in Customer /\ v # HeadOf(x)
  BY <1>1 DEF ApplyOutRelocate, CanOutRelocate, IsAt
<1>4. x \in Route /\ i \in Nat /\ i >= 1 /\ x = data[v].route /\ i = data[v].idx
  BY <1>1, <1>3 DEF IsAt
<1>5. /\ y \in Route /\ s \in Nat /\ s >= 1 /\ s \in 1 .. last(routes[y]) - 1
      /\ y = data[w].route /\ s = data[w].idx /\ w = routes[y][s + 1]
  BY <1>2, <1>3 DEF IsAt
<1>6. PICK rts, u : rts = routes' /\ u = data'
  OBVIOUS
<1>7. PICK dst \in Nat : dst = IF x = y /\ s < i THEN i - 1 ELSE i
  BY <1>4
<1>8. PICK mid : mid = [routes EXCEPT ![y] = remove_customer(@, s)]
  OBVIOUS
<1>9. PICK f, g : f = route_refresh_metadata_from(mid, data, y, s) /\ g = Removed(f, w)
  OBVIOUS
<1>10. PICK h : h = route_refresh_metadata_from(rts, g, x, dst)
  OBVIOUS
<1>11. PICK t : t = route_update_penalty(rts, h, x, dst, dst)
  OBVIOUS
<1>12. /\ u = (IF x = y THEN route_init_penalty(rts, h, x) ELSE route_update_penalty(rts, t, y, s, s - 1))
       /\ problem' = problem
  BY Zenon, <1>4, <1>5, <1>6, <1>7, <1>8, <1>9, <1>10, <1>11 DEF ApplyOutRelocate
<1>13. /\ \A z \in Route : ObjectRoute(rts[z])
       /\ c \notin ToSet(rts[x]) /\ c \notin ToSet(rts[y])
  <2>1. Instance(problem) /\ Shape(rts) /\ Knows(rts, u)
    BY <1>6, <1>12, ExactAfter
  <2> QED
    BY <1>4, <1>5, <1>6, <2>1, KnownRoutes, NowhereElse
<1>14. u[c] = h[c]
  <2>1. route_init_penalty(rts, h, x)[c] = h[c] /\ t[c] = h[c]
    BY <1>11, <1>13, UpdateElsewhere DEF route_init_penalty
  <2>2. route_update_penalty(rts, t, y, s, s - 1)[c] = t[c]
    BY <1>13, UpdateElsewhere
  <2> QED
    BY Zenon, <1>12, <2>1, <2>2
<1>15. h[c] = g[c]
  BY <1>4, <1>10, <1>13, RefreshElsewhere
<1>16. /\ Instance(problem) /\ Shape(routes) /\ data \in [Object -> Data] /\ Knows(routes, data)
       /\ w \in Object /\ data[w].route # 0
  BY ProblemsAssumption DEF Inv, AllExact, Placed
<1>17. Refit(mid, data, g)
  <2>1. PICK rs, d : rs = routes /\ d = data
    OBVIOUS
  <2>2. /\ Instance(problem) /\ Shape(rs) /\ d \in [Object -> Data] /\ Knows(rs, d)
        /\ y \in Route /\ s \in 1 .. last(rs[y]) - 1 /\ w = rs[y][s + 1]
        /\ mid = [rs EXCEPT ![y] = remove_customer(@, s)]
        /\ g = Removed(route_refresh_metadata_from(mid, d, y, s), w)
    BY Zenon, <1>5, <1>8, <1>9, <1>16, <2>1
  <2>3. Refit(mid, d, g)
    BY <2>2, RemovePlaces
  <2> QED
    BY <2>1, <2>3
<1>18. ObjectRoute(mid[y]) /\ c \notin ToSet(mid[y])
  <2>1. Shape(mid) /\ Knows(mid, g)
    BY <1>17 DEF Refit
  <2>2. g[c].route = 0
    BY <1>6, <1>14, <1>15
  <2> QED
    BY <1>5, <1>16, <2>1, <2>2, KnownRoutes, NowhereElse
<1>19. f[c] = data[c]
  <2>1. s \in Nat /\ f = route_refresh_metadata_from(mid, data, y, s)
    BY Zenon, <1>5, <1>9
  <2> QED
    BY <1>18, <2>1, RefreshElsewhere
<1>20. f = [k \in Object |-> f[k]]
  BY <1>9 DEF route_refresh_metadata_from
<1>21. Untouched(g[c], c)
  BY <1>9, <1>16, <1>19, <1>20, RemovedData
<1> QED
  BY <1>6, <1>14, <1>15, <1>21

\* A customer that is taken out keeps the natural values it had; one that is out keeps all.
LEMMA UntouchedIdle ==
  ASSUME TypeInv, NaturalData(problem), NEW c \in Object, NEW u, Untouched(u, c), u.route = 0
  PROVE  u.idx = -1 /\ NaturalValues(u)
<1>1. PICK d \in Data : d = data[c]
  BY DEF TypeInv, Inv, AllExact
<1>2. CASE u = d
  BY <1>1, <1>2 DEF TypeInv, Idle
<1>3. CASE d.route # 0 /\ u = [d EXCEPT !.route = 0, !.idx = -1]
  <2>1. c \in Placed
    BY <1>1, <1>3 DEF Placed
  <2>2. PICK x, n, i : IsAt(c, x, n, i)
    BY <2>1, PlacedAt, TypeInv DEF TypeInv
  <2>3. x \in Route /\ i \in 0 .. last(routes[x]) /\ routes[x][i + 1] = c
    BY <2>2 DEF IsAt
  <2>4. ObjectRoute(routes[x]) /\ Exact(routes[x], data)
    BY <2>3, RouteOfInv DEF TypeInv
  <2>5. Instance(problem)
    BY ProblemsAssumption DEF TypeInv, Inv
  <2>6. NaturalValues(d)
    BY <1>1, <2>3, <2>4, <2>5, RouteNatural
  <2>7. /\ u.a = d.a /\ u.tw_pf = d.tw_pf /\ u.demand_pf = d.demand_pf
        /\ u.z = d.z /\ u.tw_sf = d.tw_sf /\ u.demand_sf = d.demand_sf /\ u.idx = -1
    BY <1>3 DEF Data
  <2> QED
    BY <2>6, <2>7 DEF NaturalValues
<1> QED
  BY <1>1, <1>2, <1>3 DEF Untouched

\* At the start every object is in a route.
LEMMA InitTypeInv == Init => TypeInv
<1> SUFFICES ASSUME Init, NEW c \in Object, data[c].route = 0 PROVE FALSE
  BY InitInv DEF TypeInv, Idle
<1>1. Instance(problem) /\ routes = InitialRoutes
  BY ProblemsAssumption DEF Init, InitialRoutes
<1>2. Shape(routes) /\ Knows(routes, data)
  BY InitInv DEF Inv, AllExact
<1>3. problem.n \in Nat /\ NRoutes \in Nat /\ NRoutes >= 1 /\ c \in 1 .. problem.n + 2 * NRoutes
  BY <1>1, RoutesAssumption DEF Instance, Object
<1>4. ASSUME NEW x \in Route, NEW k \in 0 .. last(routes[x]), routes[x][k + 1] = c PROVE FALSE
  <2>1. x # 0
    BY DEF Route
  <2> QED
    BY <1>2, <1>4, <2>1 DEF Knows
<1>5. CASE c \in 1 .. problem.n
  <2>1. 1 \in Route
    BY <1>3 DEF Route
  <2>2. PICK s \in Nat : s = IF 1 = 1 THEN problem.n ELSE 0
    BY <1>3
  <2>3. last(routes[1]) = s + 1 /\ \A k \in 1 .. s : routes[1][k + 1] = k
    BY <1>1, <2>1, <2>2, FirstObjects
  <2>4. c \in 1 .. s /\ c \in 0 .. s + 1
    BY <1>5, <2>2
  <2> QED
    BY <1>4, <2>1, <2>3, <2>4
<1>6. CASE c \in problem.n + 1 .. problem.n + NRoutes
  <2>1. PICK x \in Route : c = HeadOf(x)
    <3>1. c - problem.n \in 1 .. NRoutes /\ c = problem.n + (c - problem.n)
      BY <1>3, <1>6
    <3> QED
      BY <3>1 DEF Route, HeadOf
  <2>2. routes[x][1] = c /\ last(routes[x]) \in Nat
    BY <1>2, <2>1 DEF Shape, RouteShape, last
  <2> QED
    BY <1>4, <2>1, <2>2
<1>7. CASE c \in problem.n + NRoutes + 1 .. problem.n + 2 * NRoutes
  <2>1. PICK x \in Route : c = FirstTailOf(x)
    <3>1. /\ c - problem.n - NRoutes \in 1 .. NRoutes
          /\ c = problem.n + NRoutes + (c - problem.n - NRoutes)
      BY <1>3, <1>7
    <3> QED
      BY <3>1 DEF Route, FirstTailOf
  <2>2. PICK s \in Nat : s = IF x = 1 THEN problem.n ELSE 0
    BY <1>3
  <2>3. last(routes[x]) = s + 1 /\ routes[x][s + 2] = c
    BY <1>1, <2>1, <2>2, FirstObjects
  <2>4. s + 1 \in 0 .. s + 1 /\ s + 1 + 1 = s + 2
    OBVIOUS
  <2> QED
    BY <1>4, <2>1, <2>3, <2>4
<1> QED
  BY <1>3, <1>5, <1>6, <1>7

\* Every modification keeps it.
LEMMA NextTypeInv ==
  ASSUME TypeInv, NaturalData(problem), [Next]_vars
  PROVE  TypeInv'
<1>1. Inv
  BY DEF TypeInv
<1>2. CASE UNCHANGED vars
  <2>1. UNCHANGED <<problem, routes, data>>
    BY <1>2 DEF vars
  <2>2. Inv'
    BY <1>1, <1>2, StutterInv
  <2>3. Idle'
    BY <2>1 DEF TypeInv, Idle, Object
  <2> QED
    BY <2>2, <2>3 DEF TypeInv
<1>3. ASSUME Next PROVE TypeInv'
  <2>1. Inv' /\ \A c \in Object : data'[c].route = 0 => Untouched(data'[c], c)
    <3>1. CASE \E v, w \in Placed : ApplyTwoOpt(v, w)
      BY <1>1, <3>1, TwoOptInv, TwoOptElsewhere
    <3>2. CASE \E v, w \in Placed : ApplyOutRelocate(v, w)
      BY <1>1, <3>2, OutRelocateInv, OutRelocateElsewhere
    <3>3. CASE \E v, w \in Placed : ApplyExchange(v, w)
      BY <1>1, <3>3, ExchangeInv, ExchangeElsewhere
    <3>4. CASE \E v \in Placed, w \in Object \ Placed : ApplyInsert(v, w)
      BY <1>1, <3>4, InsertInv, InsertElsewhere
    <3>5. CASE \E v \in Placed : ApplyEject(v)
      BY <1>1, <3>5, EjectInv, EjectElsewhere
    <3> QED
      BY <1>3, <3>1, <3>2, <3>3, <3>4, <3>5 DEF Next
  <2>2. problem' = problem
    BY <1>3 DEF Next, ApplyTwoOpt, ApplyOutRelocate, ApplyExchange, ApplyInsert, ApplyEject
  <2>3. \A c \in Object : data'[c].route = 0 => data'[c].idx = -1 /\ NaturalValues(data'[c])
    BY <2>1, UntouchedIdle
  <2>4. Idle'
    <3>1. Object' = Object
      BY <2>2 DEF Object
    <3> QED
      BY <2>3, <3>1 DEF Idle, NaturalValues
  <2> QED
    BY <2>1, <2>4 DEF TypeInv
<1> QED
  BY <1>2, <1>3

\* It bounds all indexes and makes all values natural.
LEMMA TypesFollow ==
  ASSUME TypeInv, NaturalData(problem)
  PROVE  TypeOK
<1>1. /\ Inv /\ Instance(problem) /\ Shape(routes) /\ data \in [Object -> Data] /\ problem.n \in Nat
  BY ProblemsAssumption DEF TypeInv, Inv, AllExact, Instance
<1>2. routes \in [Route -> Seq(Object)]
  BY <1>1 DEF Shape, RouteShape
<1>3. ASSUME NEW c \in Object PROVE data[c].idx \in -1 .. problem.n + 1 /\ NaturalValues(data[c])
  <2>1. CASE data[c].route = 0
    <3>1. data[c].idx = -1 /\ NaturalValues(data[c])
      BY <2>1 DEF TypeInv, Idle
    <3> QED
      BY <1>1, <3>1
  <2>2. CASE data[c].route # 0
    <3>1. c \in Placed
      BY <2>2 DEF Placed
    <3>2. PICK x, n, i : IsAt(c, x, n, i)
      BY <1>1, <3>1, PlacedAt
    <3>3. x \in Route /\ i \in 0 .. n /\ n = last(routes[x]) /\ i = data[c].idx /\ routes[x][i + 1] = c
      BY <3>2 DEF IsAt
    <3>4. ObjectRoute(routes[x]) /\ Exact(routes[x], data)
      BY <1>1, <3>3, RouteOfInv
    <3>5. NaturalValues(data[c])
      BY <1>1, <3>3, <3>4, RouteNatural
    <3>6. n \in Nat /\ n <= problem.n + 1
      BY <1>1, <3>3, <3>4, RouteLength
    <3> QED
      BY <1>1, <3>3, <3>5, <3>6
  <2> QED
    BY <2>1, <2>2
<1>4. ASSUME NEW c \in Object
      PROVE  data[c] \in [route : 0 .. NRoutes, idx : -1 .. problem.n + 1,
                          a : Nat, tw_pf : Nat, demand_pf : Nat, z : Nat, tw_sf : Nat, demand_sf : Nat]
  <2>1. data[c] \in Data
    BY <1>1
  <2> QED
    BY <1>3, <2>1 DEF Data, NaturalValues
<1> QED
  BY <1>1, <1>2, <1>4 DEF TypeOK

\* Every index an object keeps is one a route can have or -1, and every cached time, lateness
\* and load is natural, also those of a customer that is in no route any more, if the time
\* windows and demands of the instances are natural (struct customer, modification_apply).
THEOREM CacheTypes ==
  ASSUME \A p \in Problems : NaturalData(p)
  PROVE  Spec => []TypeOK
<1>1. Init => TypeInv
  BY InitTypeInv
<1>2. TypeInv => NaturalData(problem)
  BY DEF TypeInv, Inv
<1>3. TypeInv /\ [Next]_vars => TypeInv'
  BY <1>2, NextTypeInv
<1>4. TypeInv => TypeOK
  BY <1>2, TypesFollow
<1> QED
  BY <1>1, <1>3, <1>4, PTL DEF Spec

-----------------------------------------------------------------------------
(***************************************************************************)
(* A route put together from two: the lateness at the place where they     *)
(* meet.                                                                   *)
(***************************************************************************)
\* Every time window opens before it closes.
OpenWindows(p) == \A c \in 0 .. p.n : p.e[c] <= p.l[c]

\* From a node whose window opens at e1 and closes at l1, reached at A and to be left by W, to one
\* reached at B, to be left by Z, with the window e2, l2.
CountedOnce(A, e1, l1, W, B, e2, l2, Z) ==
  /\ MAX(0, e1 - W) \in Int /\ MAX(0, A - MIN(MAX(W, e1), l1)) \in Int
  /\ MAX(0, B - l2) \in Int /\ MAX(0, MIN(MAX(B, e2), l2) - Z) \in Int
  /\ MAX(0, e1 - W) + MAX(0, A - MIN(MAX(W, e1), l1)) = MAX(0, B - Z)
  /\ MAX(0, B - l2) + MAX(0, MIN(MAX(B, e2), l2) - Z) = MAX(0, B - Z)

\* Lateness is counted at the one node or at the other.
LEMMA LegMeets ==
  ASSUME NEW A \in Int, NEW e1 \in Int, NEW l1 \in Int, e1 <= A, A <= l1,
         NEW Z \in Int, NEW e2 \in Int, NEW l2 \in Int, e2 <= Z, Z <= l2,
         NEW B \in Int, NEW W \in Int, B - Z = A - W
  PROVE  CountedOnce(A, e1, l1, W, B, e2, l2, Z)
<1>1. MAX(0, e1 - W) + MAX(0, A - MIN(MAX(W, e1), l1)) = MAX(0, A - W)
  BY DEF MAX, MIN
<1>2. MAX(0, B - l2) + MAX(0, MIN(MAX(B, e2), l2) - Z) = MAX(0, B - Z)
  BY DEF MAX, MIN
<1>3. /\ MAX(0, e1 - W) \in Int /\ MAX(0, A - MIN(MAX(W, e1), l1)) \in Int
      /\ MAX(0, B - l2) \in Int /\ MAX(0, MIN(MAX(B, e2), l2) - Z) \in Int
  BY DEF MAX, MIN
<1> QED
  BY <1>1, <1>2, <1>3 DEF CountedOnce

\* A time moved into an open window is in it.
LEMMA ClippedInWindow ==
  ASSUME NEW p, Instance(p), OpenWindows(p), NEW c \in 0 .. p.n, NEW t \in Int
  PROVE  Clip(p, c, t) \in Int /\ p.e[c] <= Clip(p, c, t) /\ Clip(p, c, t) <= p.l[c]
<1>1. p.e[c] \in Int /\ p.l[c] \in Int /\ p.e[c] <= p.l[c]
  BY DEF Instance, OpenWindows
<1> QED
  BY <1>1 DEF Clip, MAX, MIN

\* Arrivals and latest starts are in the windows.
LEMMA TimesInWindows ==
  ASSUME NEW p, NEW r, RouteOf(p, r), OpenWindows(p), NEW k \in 0 .. Len(r) + 1
  PROVE  /\ p.e[Id(r, k)] <= Arrivals(p, r)[k] /\ Arrivals(p, r)[k] <= p.l[Id(r, k)]
         /\ p.e[Id(r, k)] <= LatestStarts(p, r)[k] /\ LatestStarts(p, r)[k] <= p.l[Id(r, k)]
<1>1. PICK n \in Nat : n = Len(r)
  BY NodeData
<1>2. Instance(p) /\ Id(r, k) \in 0 .. p.n
  BY RouteLegs DEF RouteOf
<1>3. /\ p.e[Id(r, k)] \in Int /\ p.l[Id(r, k)] \in Int /\ p.e[Id(r, k)] <= p.l[Id(r, k)]
  BY <1>2 DEF Instance, OpenWindows
<1>4. p.e[Id(r, k)] <= Arrivals(p, r)[k] /\ Arrivals(p, r)[k] <= p.l[Id(r, k)]
  <2>1. CASE k = 0
    <3>1. Id(r, k) = 0
      BY <2>1 DEF Id
    <3> QED
      BY <1>3, <2>1, <3>1, ArrivalsSteps
  <2>2. CASE k # 0
    <3>1. PICK j \in 1 .. Len(r) + 1 : j = k
      BY <1>1, <2>2
    <3>2. Arrivals(p, r)[j] = Clip(p, Id(r, j), ArrivalQuote(p, r, j)) /\ ArrivalQuote(p, r, j) \in Int
      BY ArrivalsSteps, ArrivalQuotes DEF ArrivalQuote
    <3> QED
      BY <1>2, <3>1, <3>2, ClippedInWindow
  <2> QED
    BY <2>1, <2>2
<1>5. p.e[Id(r, k)] <= LatestStarts(p, r)[k] /\ LatestStarts(p, r)[k] <= p.l[Id(r, k)]
  <2>1. CASE k = n + 1
    <3>1. Id(r, k) = 0
      BY <1>1, <2>1 DEF Id
    <3> QED
      BY <1>1, <1>3, <2>1, <3>1, LatestStartsSteps
  <2>2. CASE k # n + 1
    <3>1. PICK j \in 0 .. Len(r) : j = k
      BY <1>1, <2>2
    <3>2. LatestStarts(p, r)[j] = Clip(p, Id(r, j), LatestQuote(p, r, j)) /\ LatestQuote(p, r, j) \in Int
      BY LatestStartsSteps, LatestQuotes DEF LatestQuote
    <3> QED
      BY <1>2, <3>1, <3>2, ClippedInWindow
  <2> QED
    BY <2>1, <2>2
<1> QED
  BY <1>4, <1>5

\* The lateness of a route is that before a node, that behind it and that between.
Meeting(p, r, k) ==
  PrefixLateness(p, r)[k] + SuffixLateness(p, r)[k] + MAX(0, Arrivals(p, r)[k] - LatestStarts(p, r)[k])

\* It does not depend on the node (penalty_inline.h).
LEMMA LatenessMeets ==
  ASSUME NEW p, NEW r, RouteOf(p, r), OpenWindows(p), NEW k \in 0 .. Len(r) + 1
  PROVE  Meeting(p, r, k) = TwPenalty(p, r)
<1>1. PICK n \in Nat : n = Len(r) + 1
  <2>1. Len(r) \in Nat
    BY NodeData
  <2>2. Len(r) + 1 \in Nat
    BY <2>1
  <2> QED
    BY <2>2
<1> DEFINE T == {j \in 0 .. n : Meeting(p, r, j) = TwPenalty(p, r)}
<1>2. n \in T
  <2>1. /\ PrefixLateness(p, r)[n] \in Nat /\ SuffixLateness(p, r)[n] = 0
        /\ LatestStarts(p, r)[n] = p.l[0] /\ Arrivals(p, r)[n] \in Int /\ p.l[0] \in Int
        /\ Id(r, n) = 0
    <3>1. Id(r, n) = 0
      BY <1>1 DEF Id
    <3>2. p.l[0] \in Int
      BY NodeData
    <3> QED
      BY <1>1, <3>1, <3>2, PrefixLatenessSteps, SuffixLatenessSteps, LatestStartsSteps, ArrivalsSteps
  <2>2. Arrivals(p, r)[n] <= p.l[0]
    BY <1>1, <2>1, TimesInWindows
  <2>3. MAX(0, Arrivals(p, r)[n] - p.l[0]) = 0
    BY <2>1, <2>2 DEF MAX
  <2>4. TwPenalty(p, r) = PrefixLateness(p, r)[n]
    BY <1>1 DEF TwPenalty, depot_tail
  <2> QED
    BY <2>1, <2>3, <2>4 DEF Meeting
<1>3. ASSUME NEW j \in 0 .. n - 1, j + 1 \in T PROVE j \in T
  <2>1. PICK c, d \in 0 .. p.n : c = Id(r, j) /\ d = Id(r, j + 1)
    BY <1>1, RouteLegs
  <2>2. PICK A \in Int, Z \in Int, pf \in Nat, sf \in Nat :
          /\ A = Arrivals(p, r)[j] /\ Z = LatestStarts(p, r)[j + 1]
          /\ pf = PrefixLateness(p, r)[j] /\ sf = SuffixLateness(p, r)[j + 1]
    <3>1. j \in 0 .. Len(r) + 1 /\ j + 1 \in 0 .. Len(r) + 1
      BY <1>1
    <3> QED
      BY Zenon, <3>1, ArrivalsSteps, LatestStartsSteps, PrefixLatenessSteps, SuffixLatenessSteps
  <2>3. PICK L \in Int, B \in Int, W \in Int : L = Leg(p, c, d) /\ B = A + L /\ W = Z - L
    <3>1. Leg(p, c, d) \in Int
      BY <2>1, NodeData
    <3>2. A + Leg(p, c, d) \in Int /\ Z - Leg(p, c, d) \in Int
      BY <3>1
    <3> QED
      BY <3>1, <3>2
  <2>4. /\ Arrivals(p, r)[j + 1] = Clip(p, d, B)
        /\ PrefixLateness(p, r)[j + 1] = pf + MAX(0, B - p.l[d])
    <3>1. PICK i \in 1 .. Len(r) + 1 : i = j + 1 /\ i - 1 = j
      BY <1>1
    <3>2. ArrivalQuote(p, r, i) = B
      BY <2>1, <2>2, <2>3, <3>1 DEF ArrivalQuote
    <3>3. Arrivals(p, r)[i] = Clip(p, Id(r, i), ArrivalQuote(p, r, i))
      BY ArrivalsSteps DEF ArrivalQuote
    <3>4. PrefixLateness(p, r)[i] = PrefixLateness(p, r)[i - 1] + MAX(0, ArrivalQuote(p, r, i) - p.l[Id(r, i)])
      BY PrefixLatenessSteps
    <3> QED
      BY <2>1, <2>2, <3>1, <3>2, <3>3, <3>4
  <2>5. /\ LatestStarts(p, r)[j] = Clip(p, c, W)
        /\ SuffixLateness(p, r)[j] = sf + MAX(0, p.e[c] - W)
    <3>1. j \in 0 .. Len(r)
      BY <1>1
    <3>2. LatestQuote(p, r, j) = W
      BY <2>1, <2>2, <2>3 DEF LatestQuote
    <3>3. LatestStarts(p, r)[j] = Clip(p, c, LatestQuote(p, r, j))
      BY <2>1, <3>1, LatestStartsSteps DEF LatestQuote
    <3>4. SuffixLateness(p, r)[j] = SuffixLateness(p, r)[j + 1] + MAX(0, p.e[c] - LatestQuote(p, r, j))
      BY <2>1, <3>1, SuffixLatenessSteps
    <3> QED
      BY <2>2, <3>2, <3>3, <3>4
  <2>6. /\ p.e[c] <= A /\ A <= p.l[c] /\ p.e[d] <= Z /\ Z <= p.l[d]
        /\ p.e[c] \in Int /\ p.l[c] \in Int /\ p.e[d] \in Int /\ p.l[d] \in Int
    <3>1. j \in 0 .. Len(r) + 1 /\ j + 1 \in 0 .. Len(r) + 1
      BY <1>1
    <3> QED
      BY <2>1, <2>2, <3>1, TimesInWindows, NodeData
  <2>7. B - Z = A - W
    BY <2>3
  <2>8. PICK t \in Int, u \in Int, x \in Int, y \in Int :
          /\ t = MAX(0, p.e[c] - W) /\ u = MAX(0, A - Clip(p, c, W))
          /\ x = MAX(0, B - p.l[d]) /\ y = MAX(0, Clip(p, d, B) - Z)
          /\ t + u = x + y
    <3>1. /\ Clip(p, c, W) = MIN(MAX(W, p.e[c]), p.l[c]) /\ Clip(p, d, B) = MIN(MAX(B, p.e[d]), p.l[d])
      BY DEF Clip
    <3>2. /\ MAX(0, p.e[c] - W) \in Int /\ MAX(0, A - Clip(p, c, W)) \in Int
          /\ MAX(0, B - p.l[d]) \in Int /\ MAX(0, Clip(p, d, B) - Z) \in Int
          /\ MAX(0, p.e[c] - W) + MAX(0, A - Clip(p, c, W)) = MAX(0, B - Z)
          /\ MAX(0, B - p.l[d]) + MAX(0, Clip(p, d, B) - Z) = MAX(0, B - Z)
      <4>1. PICK e1 \in Int, l1 \in Int, e2 \in Int, l2 \in Int :
              e1 = p.e[c] /\ l1 = p.l[c] /\ e2 = p.e[d] /\ l2 = p.l[d]
        BY <2>6
      <4>2. e1 <= A /\ A <= l1 /\ e2 <= Z /\ Z <= l2
        BY <2>6, <4>1
      <4>3. CountedOnce(A, e1, l1, W, B, e2, l2, Z)
        BY <2>7, <4>2, LegMeets
      <4> QED
        BY <3>1, <4>1, <4>3 DEF CountedOnce
    <3> QED
      BY <3>2
  <2>9. Meeting(p, r, j + 1) = (pf + x) + sf + y
    BY <2>2, <2>4, <2>8 DEF Meeting
  <2>10. Meeting(p, r, j) = pf + (sf + t) + u
    BY <2>2, <2>5, <2>8 DEF Meeting
  <2>11. Meeting(p, r, j) = Meeting(p, r, j + 1)
    <3>1. t + u = x + y /\ pf \in Int /\ sf \in Int
      BY <2>8
    <3>2. (pf + x) + sf + y = pf + (sf + t) + u
      BY <3>1
    <3> QED
      BY <2>9, <2>10, <3>2
  <2> QED
    BY <1>1, <1>3, <2>11
<1>4. 0 .. n \subseteq T
  <2> HIDE DEF T
  <2> QED
    BY <1>2, <1>3, DownTo
<1> QED
  BY <1>1, <1>4

\* The demand up to a node and behind it is that of the route.
LEMMA DemandMeets ==
  ASSUME NEW p, NEW r, RouteOf(p, r), NEW k \in 0 .. Len(r)
  PROVE  PrefixDemand(p, r)[k] + SuffixDemand(p, r)[k + 1] = PrefixDemand(p, r)[depot_tail(r)]
<1>1. PICK n \in Nat : n = Len(r)
  BY NodeData
<1> DEFINE T == {j \in 0 .. n : PrefixDemand(p, r)[j] + SuffixDemand(p, r)[j + 1] = PrefixDemand(p, r)[n + 1]}
<1>2. \A i \in 0 .. n + 1 : /\ PrefixDemand(p, r)[i] \in Int /\ SuffixDemand(p, r)[i] \in Int
                            /\ p.demand[Id(r, i)] \in Int
  <2>1. \A i \in 0 .. n + 1 : Id(r, i) \in 0 .. p.n
    BY <1>1, RouteLegs
  <2>2. \A i \in 0 .. n + 1 : p.demand[Id(r, i)] \in Int
    BY <2>1, NodeData
  <2>3. PrefixDemand(p, r) \in [0 .. n + 1 -> Int] /\ SuffixDemand(p, r) \in [0 .. n + 1 -> Int]
    BY <1>1, PrefixDemandSteps, SuffixDemandSteps
  <2> QED
    BY <2>2, <2>3
<1>3. n \in T
  <2>1. PICK i \in 1 .. Len(r) + 1 : i = n + 1 /\ i - 1 = n
    BY <1>1
  <2>2. PrefixDemand(p, r)[i] = p.demand[Id(r, i)] + PrefixDemand(p, r)[i - 1]
    BY PrefixDemandSteps
  <2>3. Id(r, i) = 0 /\ SuffixDemand(p, r)[i] = p.demand[0]
    BY <1>1, <2>1, SuffixDemandSteps DEF Id
  <2>4. PrefixDemand(p, r)[n] \in Int /\ p.demand[0] \in Int
    BY <1>1, <1>2, NodeData
  <2>5. PrefixDemand(p, r)[n + 1] = p.demand[0] + PrefixDemand(p, r)[n] /\ SuffixDemand(p, r)[n + 1] = p.demand[0]
    BY <2>1, <2>2, <2>3
  <2> QED
    BY <2>4, <2>5
<1>4. ASSUME NEW j \in 0 .. n - 1, j + 1 \in T PROVE j \in T
  <2>1. PICK i \in 1 .. Len(r) : i = j + 1 /\ i - 1 = j
    BY <1>1
  <2>2. PrefixDemand(p, r)[i] = p.demand[Id(r, i)] + PrefixDemand(p, r)[i - 1]
    BY <1>1, PrefixDemandSteps
  <2>3. SuffixDemand(p, r)[i] = p.demand[Id(r, i)] + SuffixDemand(p, r)[i + 1]
    BY <1>1, SuffixDemandSteps
  <2>4. PICK a \in Int, b \in Int, c \in Int :
          a = PrefixDemand(p, r)[j] /\ b = p.demand[Id(r, i)] /\ c = SuffixDemand(p, r)[i + 1]
    <3>1. j \in 0 .. n + 1 /\ i \in 0 .. n + 1 /\ i + 1 \in 0 .. n + 1
      BY <1>1, <2>1
    <3> QED
      BY <1>2, <3>1
  <2>5. (b + a) + c = PrefixDemand(p, r)[n + 1]
    BY <1>4, <2>1, <2>2, <2>4
  <2>6. a + (b + c) = (b + a) + c
    BY <2>4
  <2> QED
    BY <2>1, <2>3, <2>4, <2>5, <2>6
<1>5. 0 .. n \subseteq T
  <2> HIDE DEF T
  <2> QED
    BY <1>3, <1>4, DownTo
<1> QED
  BY <1>1, <1>5 DEF depot_tail

-----------------------------------------------------------------------------
(***************************************************************************)
(* Routes put together from the head of one and the tail of another.       *)
(***************************************************************************)
\* The route q is r up to its index i, followed by t from its index j on.
Joined(q, r, i, t, j) ==
  /\ i \in 0 .. Len(r) /\ j \in 1 .. Len(t) + 1 /\ Len(q) = i + (Len(t) + 1 - j)
  /\ \A k \in 0 .. i : Id(q, k) = Id(r, k)
  /\ \A k \in 0 .. Len(t) + 1 - j : Id(q, i + 1 + k) = Id(t, j + k)

\* The route q is r up to its index i, followed by w and then by t from its index j on.
JoinedBy(q, r, i, w, t, j) ==
  /\ i \in 0 .. Len(r) /\ j \in 1 .. Len(t) + 1 /\ Len(q) = i + 1 + (Len(t) + 1 - j)
  /\ \A k \in 0 .. i : Id(q, k) = Id(r, k)
  /\ Id(q, i + 1) = w
  /\ \A k \in 0 .. Len(t) + 1 - j : Id(q, i + 2 + k) = Id(t, j + k)

\* Before the index x of q its values are those of r at i, from y on those of t from j on.
Parts(p, q, x, y, r, i, t, j) ==
  /\ x \in 0 .. Len(q) + 1 /\ y \in 0 .. Len(q) + 1
  /\ i \in 0 .. Len(r) + 1 /\ j \in 0 .. Len(t) + 1
  /\ Id(q, x) = Id(r, i) /\ Id(q, y) = Id(t, j)
  /\ Arrivals(p, q)[x] = Arrivals(p, r)[i] /\ PrefixLateness(p, q)[x] = PrefixLateness(p, r)[i]
  /\ PrefixDemand(p, q)[x] = PrefixDemand(p, r)[i]
  /\ LatestStarts(p, q)[y] = LatestStarts(p, t)[j] /\ SuffixLateness(p, q)[y] = SuffixLateness(p, t)[j]
  /\ SuffixDemand(p, q)[y] = SuffixDemand(p, t)[j]

\* What is the same up to an index and from one on has the same values there.
LEMMA PartValues ==
  ASSUME NEW p, NEW q, RouteOf(p, q), NEW r, RouteOf(p, r), NEW t, RouteOf(p, t),
         NEW i \in 0 .. Len(r), NEW j \in 1 .. Len(t) + 1, NEW y \in 1 .. Len(q) + 1,
         Len(q) + 1 - y = Len(t) + 1 - j, i <= Len(q) + 1,
         \A k \in 0 .. i : Id(q, k) = Id(r, k),
         \A k \in 0 .. Len(t) + 1 - j : Id(q, y + k) = Id(t, j + k)
  PROVE  Parts(p, q, i, y, r, i, t, j)
<1>1. Len(q) \in Nat /\ Len(r) \in Nat /\ Len(t) \in Nat
  BY NodeData
<1>2. SameHead(q, r, i)
  BY <1>1 DEF SameHead
<1>3. PICK m \in Nat : m = Len(t) + 1 - j /\ m = Len(q) + 1 - y
  <2>1. Len(t) + 1 - j \in Nat
    BY <1>1
  <2> QED
    BY <2>1
<1>4. SameTail(q, t, m)
  <2>1. ASSUME NEW k \in 0 .. m PROVE Id(q, FromTail(q, k)) = Id(t, FromTail(t, k))
    <3>1. PICK h \in 0 .. Len(t) + 1 - j : h = m - k
      <4>1. m - k \in 0 .. m
        OBVIOUS
      <4> QED
        BY <1>3, <4>1
    <3>2. FromTail(q, k) = y + h /\ FromTail(t, k) = j + h
      BY <1>1, <1>3, <3>1 DEF FromTail
    <3> QED
      BY <3>2
  <2> QED
    BY <1>1, <1>3, <2>1 DEF SameTail
<1>5. FromTail(q, m) = y /\ FromTail(t, m) = j /\ m \in 0 .. m /\ i \in 0 .. i
  BY <1>1, <1>3 DEF FromTail
<1>6. /\ Arrivals(p, q)[i] = Arrivals(p, r)[i] /\ PrefixLateness(p, q)[i] = PrefixLateness(p, r)[i]
      /\ PrefixDemand(p, q)[i] = PrefixDemand(p, r)[i]
  BY <1>2, <1>5, HeadLocal
<1>7. /\ LatestStarts(p, q)[y] = LatestStarts(p, t)[j] /\ SuffixLateness(p, q)[y] = SuffixLateness(p, t)[j]
      /\ SuffixDemand(p, q)[y] = SuffixDemand(p, t)[j]
  <2>1. /\ LatestStarts(p, q)[FromTail(q, m)] = LatestStarts(p, t)[FromTail(t, m)]
        /\ SuffixLateness(p, q)[FromTail(q, m)] = SuffixLateness(p, t)[FromTail(t, m)]
        /\ SuffixDemand(p, q)[FromTail(q, m)] = SuffixDemand(p, t)[FromTail(t, m)]
    BY <1>4, <1>5, TailLocal
  <2> QED
    BY <1>5, <2>1
<1>8. Id(q, i) = Id(r, i) /\ Id(q, y) = Id(t, j)
  <2>1. 0 \in 0 .. Len(t) + 1 - j /\ y + 0 = y /\ j + 0 = j
    BY <1>1
  <2> QED
    BY <1>5, <2>1
<1>9. /\ i \in 0 .. Len(q) + 1 /\ y \in 0 .. Len(q) + 1
      /\ i \in 0 .. Len(r) + 1 /\ j \in 0 .. Len(t) + 1
  BY <1>1
<1> QED
  BY <1>6, <1>7, <1>8, <1>9 DEF Parts

\* The values of a route at the index k.
ValuesAt(p, r, k) ==
  /\ Id(r, k) \in 0 .. p.n
  /\ Arrivals(p, r)[k] \in Int /\ PrefixLateness(p, r)[k] \in Int /\ PrefixDemand(p, r)[k] \in Int
  /\ LatestStarts(p, r)[k] \in Int /\ SuffixLateness(p, r)[k] \in Int /\ SuffixDemand(p, r)[k] \in Int

\* Ids are nodes of the instance, values along a route are integers.
LEMMA ValueTypes ==
  ASSUME NEW p, NEW r, RouteOf(p, r), NEW k \in 0 .. Len(r) + 1
  PROVE  ValuesAt(p, r, k)
<1>1. Id(r, k) \in 0 .. p.n
  BY RouteLegs
<1>2. /\ Arrivals(p, r)[k] \in Int /\ PrefixLateness(p, r)[k] \in Nat /\ PrefixDemand(p, r)[k] \in Int
      /\ LatestStarts(p, r)[k] \in Int /\ SuffixLateness(p, r)[k] \in Nat /\ SuffixDemand(p, r)[k] \in Int
  BY ArrivalsSteps, PrefixLatenessSteps, PrefixDemandSteps, LatestStartsSteps, SuffixLatenessSteps,
     SuffixDemandSteps
<1>3. PrefixLateness(p, r)[k] \in Int /\ SuffixLateness(p, r)[k] \in Int
  BY <1>2
<1> QED
  BY <1>1, <1>2, <1>3 DEF ValuesAt

\* Lateness at the next node, reached at B, is counted there or when it is left by Z.
CountedNext(B, e2, l2, Z) == MAX(0, B - l2) + MAX(0, MIN(MAX(B, e2), l2) - Z) = MAX(0, B - Z)

\* Lateness is counted once, wherever the times fall in the window.
LEMMA NextCounts ==
  ASSUME NEW B \in Int, NEW e2 \in Int, NEW l2 \in Int, NEW Z \in Int, e2 <= Z, Z <= l2
  PROVE  CountedNext(B, e2, l2, Z)
BY DEF MAX, MIN, CountedNext

\* What penalty_inline.h computes from the values at both sides, and the demand.
JoinExact(p, q, r, i, t, j) ==
  LET a_quote == Arrivals(p, r)[i] + Leg(p, Id(r, i), Id(t, j))
      z == LatestStarts(p, t)[j]
      pf == PrefixLateness(p, r)[i]
      sf == SuffixLateness(p, t)[j]
  IN  /\ TwPenalty(p, q) = (pf + sf) + MAX(0, a_quote - z)
      /\ TwPenalty(p, q) = ((pf + sf) + MAX(0, a_quote - p.l[Id(t, j)]))
                              + MAX(0, Clip(p, Id(t, j), a_quote) - z)
      /\ PrefixDemand(p, q)[depot_tail(q)] = PrefixDemand(p, r)[i] + SuffixDemand(p, t)[j]

\* It is exact.
LEMMA JoinedExact ==
  ASSUME NEW p, NEW q, RouteOf(p, q), NEW r, RouteOf(p, r), NEW t, RouteOf(p, t), OpenWindows(p),
         NEW i, NEW j, Joined(q, r, i, t, j)
  PROVE  JoinExact(p, q, r, i, t, j)
<1>1. Len(q) \in Nat /\ Len(r) \in Nat /\ Len(t) \in Nat
  BY NodeData
<1>2. i \in 0 .. Len(r) /\ j \in 1 .. Len(t) + 1 /\ Len(q) = i + (Len(t) + 1 - j)
  BY DEF Joined
<1>3. PICK y \in 1 .. Len(q) + 1 : y = i + 1 /\ y - 1 = i
  BY <1>1, <1>2
<1>4. Parts(p, q, i, y, r, i, t, j)
  <2>1. Len(q) + 1 - y = Len(t) + 1 - j /\ i <= Len(q) + 1
    BY <1>1, <1>2, <1>3
  <2>2. \A k \in 0 .. i : Id(q, k) = Id(r, k)
    BY DEF Joined
  <2>3. \A k \in 0 .. Len(t) + 1 - j : Id(q, y + k) = Id(t, j + k)
    BY <1>3 DEF Joined
  <2> QED
    BY <1>2, <2>1, <2>2, <2>3, PartValues
<1>5. PICK c, d \in 0 .. p.n : c = Id(r, i) /\ d = Id(t, j)
  <2>1. i \in 0 .. Len(r) + 1 /\ j \in 0 .. Len(t) + 1
    BY <1>1, <1>2
  <2> QED
    BY <2>1, RouteLegs
<1>6. PICK A \in Int, pf \in Int, Z \in Int, sf \in Int, B \in Int :
        /\ A = Arrivals(p, r)[i] /\ pf = PrefixLateness(p, r)[i]
        /\ Z = LatestStarts(p, t)[j] /\ sf = SuffixLateness(p, t)[j] /\ B = A + Leg(p, c, d)
  <2>1. ValuesAt(p, r, i) /\ ValuesAt(p, t, j)
    <3>1. i \in 0 .. Len(r) + 1 /\ j \in 0 .. Len(t) + 1
      BY <1>1, <1>2
    <3> QED
      BY <3>1, ValueTypes
  <2>2. Leg(p, c, d) \in Int
    BY NodeData
  <2>3. Arrivals(p, r)[i] + Leg(p, c, d) \in Int
    BY <2>1, <2>2 DEF ValuesAt
  <2> QED
    BY <2>1, <2>3 DEF ValuesAt
<1>7. /\ Arrivals(p, q)[i] = A /\ PrefixLateness(p, q)[i] = pf
      /\ LatestStarts(p, q)[y] = Z /\ SuffixLateness(p, q)[y] = sf /\ Id(q, i) = c /\ Id(q, y) = d
  BY <1>4, <1>5, <1>6 DEF Parts
<1>8. ArrivalQuote(p, q, y) = B
  BY <1>3, <1>6, <1>7 DEF ArrivalQuote
<1>9. Arrivals(p, q)[y] = Clip(p, d, B) /\ PrefixLateness(p, q)[y] = pf + MAX(0, B - p.l[d])
  <2>1. Arrivals(p, q)[y] = Clip(p, Id(q, y), ArrivalQuote(p, q, y))
    BY ArrivalsSteps DEF ArrivalQuote
  <2>2. PrefixLateness(p, q)[y] = PrefixLateness(p, q)[y - 1] + MAX(0, ArrivalQuote(p, q, y) - p.l[Id(q, y)])
    BY PrefixLatenessSteps
  <2> QED
    BY <1>3, <1>7, <1>8, <2>1, <2>2
<1>10. TwPenalty(p, q) = Meeting(p, q, y)
  <2>1. y \in 0 .. Len(q) + 1
    BY <1>1
  <2> QED
    BY <2>1, LatenessMeets
<1>11. PICK u \in Int, v \in Int : u = MAX(0, B - p.l[d]) /\ v = MAX(0, Clip(p, d, B) - Z)
  <2>1. p.l[d] \in Int /\ Clip(p, d, B) \in Int
    BY NodeData
  <2>2. MAX(0, B - p.l[d]) \in Int /\ MAX(0, Clip(p, d, B) - Z) \in Int
    BY <2>1 DEF MAX
  <2> QED
    BY <2>2
<1>12. u + v = MAX(0, B - Z)
  <2>1. PICK e2 \in Int, l2 \in Int : e2 = p.e[d] /\ l2 = p.l[d] /\ e2 <= Z /\ Z <= l2
    <3>1. j \in 0 .. Len(t) + 1
      BY <1>1, <1>2
    <3>2. p.e[d] <= Z /\ Z <= p.l[d]
      BY <1>5, <1>6, <3>1, TimesInWindows
    <3>3. p.e[d] \in Int /\ p.l[d] \in Int
      BY NodeData
    <3> QED
      BY <3>2, <3>3
  <2>2. CountedNext(B, e2, l2, Z)
    BY <2>1, NextCounts
  <2> QED
    BY <1>11, <2>1, <2>2 DEF Clip, CountedNext
<1>13. TwPenalty(p, q) = (pf + u) + sf + v
  BY <1>7, <1>9, <1>10, <1>11 DEF Meeting
<1>14. TwPenalty(p, q) = (pf + sf) + (u + v) /\ TwPenalty(p, q) = ((pf + sf) + u) + v
  <2>1. (pf + u) + sf + v = (pf + sf) + (u + v) /\ (pf + u) + sf + v = ((pf + sf) + u) + v
    BY <1>6, <1>11
  <2> QED
    BY <1>13, <2>1
<1>15. PrefixDemand(p, q)[depot_tail(q)] = PrefixDemand(p, r)[i] + SuffixDemand(p, t)[j]
  <2>1. i \in 0 .. Len(q)
    BY <1>1, <1>2
  <2>2. PrefixDemand(p, q)[i] + SuffixDemand(p, q)[i + 1] = PrefixDemand(p, q)[depot_tail(q)]
    BY <2>1, DemandMeets
  <2> QED
    BY <1>3, <1>4, <2>2 DEF Parts
<1> QED
  BY <1>5, <1>6, <1>11, <1>12, <1>14, <1>15 DEF JoinExact

\* The same with a customer served between (tw_penalty_get_insert_penalty_inline).
BetweenExact(p, q, r, i, w, t, j) ==
  LET a_quote == Arrivals(p, r)[i] + Leg(p, Id(r, i), w)
      z_quote == LatestStarts(p, t)[j] - Leg(p, w, Id(t, j))
  IN  /\ TwPenalty(p, q) =
           PrefixLateness(p, r)[i] + SuffixLateness(p, t)[j] + MAX(0, a_quote - p.l[w])
             + MAX(0, p.e[w] - z_quote) + MAX(0, Clip(p, w, a_quote) - Clip(p, w, z_quote))
      /\ PrefixDemand(p, q)[depot_tail(q)] =
           PrefixDemand(p, r)[i] + p.demand[w] + SuffixDemand(p, t)[j]

\* It is exact.
LEMMA JoinedByExact ==
  ASSUME NEW p, NEW q, RouteOf(p, q), NEW r, RouteOf(p, r), NEW t, RouteOf(p, t), OpenWindows(p),
         NEW i, NEW j, NEW w, JoinedBy(q, r, i, w, t, j)
  PROVE  BetweenExact(p, q, r, i, w, t, j)
<1>1. Len(q) \in Nat /\ Len(r) \in Nat /\ Len(t) \in Nat
  BY NodeData
<1>2. i \in 0 .. Len(r) /\ j \in 1 .. Len(t) + 1 /\ Len(q) = i + 1 + (Len(t) + 1 - j)
  BY DEF JoinedBy
<1>3. PICK x \in 1 .. Len(q) : x = i + 1 /\ x - 1 = i
  BY <1>1, <1>2
<1>4. PICK y \in 1 .. Len(q) + 1 : y = i + 2 /\ y = x + 1
  BY <1>1, <1>2, <1>3
<1>5. Parts(p, q, i, y, r, i, t, j)
  <2>1. Len(q) + 1 - y = Len(t) + 1 - j /\ i <= Len(q) + 1
    BY <1>1, <1>2, <1>4
  <2>2. \A k \in 0 .. i : Id(q, k) = Id(r, k)
    BY DEF JoinedBy
  <2>3. \A k \in 0 .. Len(t) + 1 - j : Id(q, y + k) = Id(t, j + k)
    BY <1>4 DEF JoinedBy
  <2> QED
    BY <1>2, <2>1, <2>2, <2>3, PartValues
<1>6. Id(q, x) = w
  BY <1>3 DEF JoinedBy
<1>7. PICK c, d \in 0 .. p.n : c = Id(r, i) /\ d = Id(t, j) /\ w \in 0 .. p.n
  <2>1. i \in 0 .. Len(r) + 1 /\ j \in 0 .. Len(t) + 1 /\ x \in 0 .. Len(q) + 1
    BY <1>1, <1>2
  <2> QED
    BY <1>6, <2>1, RouteLegs
<1>8. PICK A \in Int, pf \in Int, dp \in Int, Z \in Int, sf \in Int, ds \in Int :
        /\ A = Arrivals(p, r)[i] /\ pf = PrefixLateness(p, r)[i] /\ dp = PrefixDemand(p, r)[i]
        /\ Z = LatestStarts(p, t)[j] /\ sf = SuffixLateness(p, t)[j] /\ ds = SuffixDemand(p, t)[j]
  <2>1. i \in 0 .. Len(r) + 1 /\ j \in 0 .. Len(t) + 1
    BY <1>1, <1>2
  <2>2. ValuesAt(p, r, i) /\ ValuesAt(p, t, j)
    BY <2>1, ValueTypes
  <2> QED
    BY <2>2 DEF ValuesAt
<1>9. PICK B \in Int, Y \in Int : B = A + Leg(p, c, w) /\ Y = Z - Leg(p, w, d)
  <2>1. Leg(p, c, w) \in Int /\ Leg(p, w, d) \in Int
    BY <1>7, NodeData
  <2>2. A + Leg(p, c, w) \in Int /\ Z - Leg(p, w, d) \in Int
    BY <2>1
  <2> QED
    BY <2>2
<1>10. /\ Arrivals(p, q)[i] = A /\ PrefixLateness(p, q)[i] = pf /\ PrefixDemand(p, q)[i] = dp
       /\ LatestStarts(p, q)[y] = Z /\ SuffixLateness(p, q)[y] = sf /\ SuffixDemand(p, q)[y] = ds
       /\ Id(q, i) = c /\ Id(q, y) = d
  BY <1>5, <1>7, <1>8 DEF Parts
<1>11. ArrivalQuote(p, q, x) = B /\ LatestQuote(p, q, x) = Y
  BY <1>3, <1>4, <1>6, <1>9, <1>10 DEF ArrivalQuote, LatestQuote
<1>12. Arrivals(p, q)[x] = Clip(p, w, B) /\ PrefixLateness(p, q)[x] = pf + MAX(0, B - p.l[w])
  <2>1. x \in 1 .. Len(q) + 1
    BY <1>1
  <2>2. Arrivals(p, q)[x] = Clip(p, Id(q, x), ArrivalQuote(p, q, x))
    BY <2>1, ArrivalsSteps DEF ArrivalQuote
  <2>3. PrefixLateness(p, q)[x] = PrefixLateness(p, q)[x - 1] + MAX(0, ArrivalQuote(p, q, x) - p.l[Id(q, x)])
    BY <2>1, PrefixLatenessSteps
  <2> QED
    BY <1>3, <1>6, <1>10, <1>11, <2>2, <2>3
<1>13. LatestStarts(p, q)[x] = Clip(p, w, Y) /\ SuffixLateness(p, q)[x] = sf + MAX(0, p.e[w] - Y)
  <2>1. x \in 0 .. Len(q)
    BY <1>1
  <2>2. LatestStarts(p, q)[x] = Clip(p, Id(q, x), LatestQuote(p, q, x))
    BY <2>1, LatestStartsSteps DEF LatestQuote
  <2>3. SuffixLateness(p, q)[x] = SuffixLateness(p, q)[x + 1] + MAX(0, p.e[Id(q, x)] - LatestQuote(p, q, x))
    BY <2>1, SuffixLatenessSteps
  <2> QED
    BY <1>4, <1>6, <1>10, <1>11, <2>2, <2>3
<1>14. TwPenalty(p, q) = Meeting(p, q, x)
  <2>1. x \in 0 .. Len(q) + 1
    BY <1>1
  <2> QED
    BY <2>1, LatenessMeets
<1>15. PICK u \in Int, v \in Int, g \in Int :
         /\ u = MAX(0, B - p.l[w]) /\ v = MAX(0, p.e[w] - Y)
         /\ g = MAX(0, Clip(p, w, B) - Clip(p, w, Y))
  <2>1. p.l[w] \in Int /\ p.e[w] \in Int /\ Clip(p, w, B) \in Int /\ Clip(p, w, Y) \in Int
    BY <1>7, NodeData
  <2>2. /\ MAX(0, B - p.l[w]) \in Int /\ MAX(0, p.e[w] - Y) \in Int
        /\ MAX(0, Clip(p, w, B) - Clip(p, w, Y)) \in Int
    BY <2>1 DEF MAX
  <2> QED
    BY <2>2
<1>16. TwPenalty(p, q) = (pf + u) + (sf + v) + g
  BY <1>12, <1>13, <1>14, <1>15 DEF Meeting
<1>17. TwPenalty(p, q) = pf + sf + u + v + g
  <2>1. (pf + u) + (sf + v) + g = pf + sf + u + v + g
    BY <1>8, <1>15
  <2> QED
    BY <1>16, <2>1
<1>18. PrefixDemand(p, q)[depot_tail(q)] = dp + p.demand[w] + ds
  <2>1. x \in 0 .. Len(q) /\ x \in 1 .. Len(q) + 1
    BY <1>1
  <2>2. PrefixDemand(p, q)[x] + SuffixDemand(p, q)[x + 1] = PrefixDemand(p, q)[depot_tail(q)]
    BY <2>1, DemandMeets
  <2>3. PrefixDemand(p, q)[x] = p.demand[Id(q, x)] + PrefixDemand(p, q)[x - 1]
    BY <2>1, PrefixDemandSteps
  <2>4. PICK h \in Int : h = p.demand[w]
    BY <1>7, NodeData
  <2>5. PrefixDemand(p, q)[depot_tail(q)] = (h + dp) + ds
    BY <1>3, <1>4, <1>6, <1>10, <2>2, <2>3, <2>4
  <2>6. (h + dp) + ds = dp + h + ds
    BY <1>8, <2>4
  <2> QED
    BY <2>4, <2>5, <2>6
<1> QED
  BY <1>7, <1>8, <1>9, <1>15, <1>17, <1>18 DEF BetweenExact

\* Each of the array operations puts a route together.
LEMMA RemoveJoins ==
  ASSUME NEW C, NEW r \in Seq(C), NEW i \in 1 .. Len(r)
  PROVE  Joined(RemoveIndex(r, i), r, i - 1, r, i + 1)
<1>1. PICK n \in Nat : n = Len(r)
  OBVIOUS
<1>2. PICK q : q = RemoveIndex(r, i)
  OBVIOUS
<1>3. Len(q) = n - 1 /\ \A k \in 1 .. n - 1 : q[k] = IF k < i THEN r[k] ELSE r[k + 1]
  BY <1>1, <1>2, RemoveIndexElements
<1>4. i - 1 \in 0 .. n /\ i + 1 \in 1 .. n + 1 /\ n - 1 = i - 1 + (n + 1 - (i + 1))
  BY <1>1
<1>5. ASSUME NEW k \in 0 .. i - 1 PROVE Id(q, k) = Id(r, k)
  <2>1. CASE k = 0
    BY <2>1 DEF Id
  <2>2. CASE k # 0
    <3>1. k \in 1 .. n - 1 /\ k < i /\ k \in 1 .. n
      BY <1>1, <2>2
    <3> QED
      BY <1>1, <1>3, <3>1 DEF Id
  <2> QED
    BY <2>1, <2>2
<1>6. ASSUME NEW k \in 0 .. n + 1 - (i + 1) PROVE Id(q, i - 1 + 1 + k) = Id(r, i + 1 + k)
  <2>1. i - 1 + 1 + k = i + k
    OBVIOUS
  <2>2. CASE i + k = n
    <3>1. i + k \notin 1 .. n - 1 /\ i + 1 + k \notin 1 .. n
      BY <1>1, <2>2
    <3> QED
      BY <1>1, <1>3, <2>1, <3>1 DEF Id
  <2>3. CASE i + k # n
    <3>1. i + k \in 1 .. n - 1 /\ ~(i + k < i) /\ i + k + 1 = i + 1 + k /\ i + 1 + k \in 1 .. n
      BY <1>1, <2>3
    <3> QED
      BY <1>1, <1>3, <2>1, <3>1 DEF Id
  <2> QED
    BY <2>2, <2>3
<1> QED
  BY <1>1, <1>2, <1>3, <1>4, <1>5, <1>6 DEF Joined

\* route_insert_customer.
LEMMA InsertJoins ==
  ASSUME NEW C, NEW r \in Seq(C), NEW i \in 1 .. Len(r) + 1, NEW c \in C
  PROVE  JoinedBy(InsertBefore(r, i, c), r, i - 1, c, r, i)
<1>1. PICK n \in Nat : n = Len(r)
  OBVIOUS
<1>2. PICK q : q = InsertBefore(r, i, c)
  OBVIOUS
<1>3. /\ Len(q) = n + 1
      /\ \A k \in 1 .. n + 1 : q[k] = IF k < i THEN r[k] ELSE IF k = i THEN c ELSE r[k - 1]
  BY <1>1, <1>2, InsertBeforeElements
<1>4. i - 1 \in 0 .. n /\ n + 1 = i - 1 + 1 + (n + 1 - i) /\ i - 1 + 1 = i
  BY <1>1
<1>5. ASSUME NEW k \in 0 .. i - 1 PROVE Id(q, k) = Id(r, k)
  <2>1. CASE k = 0
    BY <2>1 DEF Id
  <2>2. CASE k # 0
    <3>1. k \in 1 .. n + 1 /\ k < i /\ k \in 1 .. n
      BY <1>1, <2>2
    <3> QED
      BY <1>1, <1>3, <3>1 DEF Id
  <2> QED
    BY <2>1, <2>2
<1>6. Id(q, i - 1 + 1) = c
  <2>1. i \in 1 .. n + 1 /\ ~(i < i)
    BY <1>1
  <2> QED
    BY <1>3, <1>4, <2>1 DEF Id
<1>7. ASSUME NEW k \in 0 .. n + 1 - i PROVE Id(q, i - 1 + 2 + k) = Id(r, i + k)
  <2>1. i - 1 + 2 + k = i + k + 1
    OBVIOUS
  <2>2. CASE i + k = n + 1
    <3>1. i + k + 1 \notin 1 .. n + 1 /\ i + k \notin 1 .. n
      BY <1>1, <2>2
    <3> QED
      BY <1>1, <1>3, <2>1, <3>1 DEF Id
  <2>3. CASE i + k # n + 1
    <3>1. /\ i + k + 1 \in 1 .. n + 1 /\ ~(i + k + 1 < i) /\ i + k + 1 # i /\ i + k + 1 - 1 = i + k
          /\ i + k \in 1 .. n
      BY <1>1, <2>3
    <3> QED
      BY <1>1, <1>3, <2>1, <3>1 DEF Id
  <2> QED
    BY <2>2, <2>3
<1> QED
  BY <1>1, <1>2, <1>3, <1>4, <1>5, <1>6, <1>7 DEF JoinedBy

\* A customer served in the place of another.
LEMMA ReplaceJoins ==
  ASSUME NEW C, NEW r \in Seq(C), NEW i \in 1 .. Len(r), NEW c \in C
  PROVE  JoinedBy([r EXCEPT ![i] = c], r, i - 1, c, r, i + 1)
<1>1. PICK n \in Nat : n = Len(r)
  OBVIOUS
<1>2. PICK q : q = [r EXCEPT ![i] = c]
  OBVIOUS
<1>3. Len(q) = n /\ \A k \in 1 .. n : q[k] = IF k = i THEN c ELSE r[k]
  BY <1>1, <1>2
<1>4. i - 1 \in 0 .. n /\ i + 1 \in 1 .. n + 1 /\ n = i - 1 + 1 + (n + 1 - (i + 1)) /\ i - 1 + 1 = i
  BY <1>1
<1>5. ASSUME NEW k \in 0 .. i - 1 PROVE Id(q, k) = Id(r, k)
  <2>1. CASE k = 0
    BY <2>1 DEF Id
  <2>2. CASE k # 0
    <3>1. k \in 1 .. n /\ k # i
      BY <1>1, <2>2
    <3> QED
      BY <1>1, <1>3, <3>1 DEF Id
  <2> QED
    BY <2>1, <2>2
<1>6. Id(q, i - 1 + 1) = c
  BY <1>1, <1>3, <1>4 DEF Id
<1>7. ASSUME NEW k \in 0 .. n + 1 - (i + 1) PROVE Id(q, i - 1 + 2 + k) = Id(r, i + 1 + k)
  <2>1. i - 1 + 2 + k = i + 1 + k
    OBVIOUS
  <2>2. i + 1 + k # i
    OBVIOUS
  <2> QED
    BY <1>1, <1>3, <2>1, <2>2 DEF Id
<1> QED
  BY <1>1, <1>2, <1>3, <1>4, <1>5, <1>6, <1>7 DEF JoinedBy

\* TWO_OPT.
LEMMA SpliceJoins ==
  ASSUME NEW C, NEW r \in Seq(C), NEW t \in Seq(C), NEW i \in 0 .. Len(r), NEW j \in 0 .. Len(t)
  PROVE  Joined(Splice(r, i, t, j), r, i, t, j + 1)
<1>1. PICK n \in Nat, m \in Nat : n = Len(r) /\ m = Len(t)
  OBVIOUS
<1>2. PICK q : q = Splice(r, i, t, j)
  OBVIOUS
<1>3. Len(q) = i + m - j /\ \A k \in 1 .. i + m - j : q[k] = IF k <= i THEN r[k] ELSE t[k - i + j]
  <2>1. /\ Len(Splice(r, i, t, j)) = i + Len(t) - j
        /\ \A k \in 1 .. i + Len(t) - j : Splice(r, i, t, j)[k] = IF k <= i THEN r[k] ELSE t[k - i + j]
    BY SpliceElements
  <2> QED
    BY <1>1, <1>2, <2>1
<1>4. j + 1 \in 1 .. m + 1 /\ i + m - j = i + (m + 1 - (j + 1))
  BY <1>1
<1>5. ASSUME NEW k \in 0 .. i PROVE Id(q, k) = Id(r, k)
  <2>1. CASE k = 0
    BY <2>1 DEF Id
  <2>2. CASE k # 0
    <3>1. k \in 1 .. i + m - j /\ k <= i /\ k \in 1 .. n
      BY <1>1, <2>2
    <3> QED
      BY <1>1, <1>3, <3>1 DEF Id
  <2> QED
    BY <2>1, <2>2
<1>6. ASSUME NEW k \in 0 .. m + 1 - (j + 1) PROVE Id(q, i + 1 + k) = Id(t, j + 1 + k)
  <2>1. CASE k = m - j
    <3>1. i + 1 + k \notin 1 .. i + m - j /\ j + 1 + k \notin 1 .. m
      BY <1>1, <2>1
    <3> QED
      BY <1>1, <1>3, <3>1 DEF Id
  <2>2. CASE k # m - j
    <3>1. /\ i + 1 + k \in 1 .. i + m - j /\ ~(i + 1 + k <= i) /\ i + 1 + k - i + j = j + 1 + k
          /\ j + 1 + k \in 1 .. m
      BY <1>1, <2>2
    <3> QED
      BY <1>1, <1>3, <3>1 DEF Id
  <2> QED
    BY <2>1, <2>2
<1> QED
  BY <1>1, <1>2, <1>3, <1>4, <1>5, <1>6 DEF Joined

-----------------------------------------------------------------------------
(***************************************************************************)
(* The array operations on objects are those on their ids.                 *)
(***************************************************************************)
\* The ids of a sequence whose last index is n.
LEMMA IdsElements ==
  ASSUME NEW C, NEW r \in Seq(C), NEW n \in Nat, n >= 1, n = last(r)
  PROVE  /\ IdsOf(r) \in Seq(C) /\ Len(IdsOf(r)) = n - 1
         /\ \A k \in 1 .. n - 1 : IdsOf(r)[k] = r[k + 1]
         /\ IdsOf(r) = [k \in 1 .. n - 1 |-> r[k + 1]]
<1>1. Len(r) = n + 1
  BY DEF last
<1>2. PICK q : q = SubSeq(r, 2, n)
  OBVIOUS
<1>3. q \in Seq(C) /\ Len(q) = n - 1 /\ \A k \in 1 .. n - 1 : q[k] = r[k + 1]
  <2>1. \A k \in 2 .. n : r[k] \in C
    BY <1>1
  <2>2. /\ SubSeq(r, 2, n) \in Seq(C)
        /\ Len(SubSeq(r, 2, n)) = IF 2 <= n THEN n - 2 + 1 ELSE 0
        /\ \A k \in 1 .. n - 2 + 1 : SubSeq(r, 2, n)[k] = r[2 + k - 1]
    BY <2>1, SubSeqProperties
  <2>3. n - 2 + 1 = n - 1 /\ \A k \in 1 .. n - 1 : 2 + k - 1 = k + 1
    OBVIOUS
  <2> QED
    BY <1>2, <2>2, <2>3
<1>4. q = [k \in 1 .. n - 1 |-> r[k + 1]]
  <2>1. DOMAIN q = 1 .. n - 1 /\ q = [k \in DOMAIN q |-> q[k]]
    BY <1>3
  <2> QED
    BY <1>3, <2>1
<1> QED
  BY <1>2, <1>3, <1>4 DEF IdsOf

\* EJECT.
LEMMA RemoveIds ==
  ASSUME NEW C, NEW r \in Seq(C), NEW n \in Nat, n >= 1, n = last(r), NEW i \in 1 .. n - 1
  PROVE  IdsOf(remove_customer(r, i)) = RemoveIndex(IdsOf(r), i)
<1>1. PICK q, s, t : q = remove_customer(r, i) /\ s = IdsOf(r) /\ t = RemoveIndex(s, i)
  OBVIOUS
<1>2. /\ q \in Seq(C) /\ last(q) = n - 1 /\ i \in 0 .. n
      /\ \A k \in 0 .. n - 1 : q[k + 1] = IF k < i THEN r[k + 1] ELSE r[k + 2]
  <2>1. i \in 0 .. n
    OBVIOUS
  <2> QED
    BY <1>1, <2>1, RemoveElements
<1>3. s \in Seq(C) /\ Len(s) = n - 1 /\ \A k \in 1 .. n - 1 : s[k] = r[k + 1]
  BY <1>1, IdsElements
<1>4. t \in Seq(C) /\ Len(t) = n - 2 /\ \A k \in 1 .. n - 2 : t[k] = IF k < i THEN s[k] ELSE s[k + 1]
  <2>1. i \in 1 .. Len(s) /\ Len(s) - 1 = n - 2
    BY <1>3
  <2>2. /\ RemoveIndex(s, i) \in Seq(C) /\ Len(RemoveIndex(s, i)) = Len(s) - 1
        /\ \A k \in 1 .. Len(s) - 1 : RemoveIndex(s, i)[k] = IF k < i THEN s[k] ELSE s[k + 1]
    BY <1>3, <2>1, RemoveIndexElements
  <2> QED
    BY <1>1, <2>1, <2>2
<1>5. IdsOf(q) = [k \in 1 .. n - 2 |-> q[k + 1]]
  <2>1. PICK m \in Nat : m = n - 1 /\ m >= 1 /\ m - 1 = n - 2
    <3>1. n - 1 \in Nat /\ n - 1 >= 1 /\ n - 1 - 1 = n - 2
      OBVIOUS
    <3> QED
      BY <3>1
  <2>2. IdsOf(q) = [k \in 1 .. m - 1 |-> q[k + 1]]
    BY <1>2, <2>1, IdsElements
  <2> QED
    BY <2>1, <2>2
<1>6. ASSUME NEW k \in 1 .. n - 2 PROVE q[k + 1] = t[k]
  <2>1. k \in 0 .. n - 1 /\ k \in 1 .. n - 1 /\ k + 1 \in 1 .. n - 1 /\ k + 1 + 1 = k + 2
    OBVIOUS
  <2>2. q[k + 1] = IF k < i THEN r[k + 1] ELSE r[k + 2]
    BY <1>2, <2>1
  <2>3. t[k] = IF k < i THEN s[k] ELSE s[k + 1]
    BY <1>4
  <2>4. s[k] = r[k + 1] /\ s[k + 1] = r[k + 2]
    BY <1>3, <2>1
  <2> QED
    BY <2>2, <2>3, <2>4
<1>7. t = [k \in 1 .. n - 2 |-> t[k]]
  <2>1. DOMAIN t = 1 .. n - 2
    BY <1>4
  <2> QED
    BY <1>4, <2>1
<1> QED
  BY <1>1, <1>5, <1>6, <1>7

\* INSERT.
LEMMA InsertIds ==
  ASSUME NEW C, NEW r \in Seq(C), NEW n \in Nat, n >= 1, n = last(r), NEW i \in 1 .. n, NEW c \in C
  PROVE  IdsOf(insert_customer(r, i, c)) = InsertBefore(IdsOf(r), i, c)
<1>1. PICK q, s, t : q = insert_customer(r, i, c) /\ s = IdsOf(r) /\ t = InsertBefore(s, i, c)
  OBVIOUS
<1>2. /\ q \in Seq(C) /\ last(q) = n + 1
      /\ \A k \in 0 .. n + 1 : q[k + 1] = IF k < i THEN r[k + 1] ELSE IF k = i THEN c ELSE r[k]
  <2>1. i \in 0 .. n
    OBVIOUS
  <2>2. Inserted(insert_customer(r, i, c), C, r, n, i, c)
    BY <2>1, InsertElements
  <2> QED
    BY <1>1, <2>2 DEF Inserted
<1>3. s \in Seq(C) /\ Len(s) = n - 1 /\ \A k \in 1 .. n - 1 : s[k] = r[k + 1]
  BY <1>1, IdsElements
<1>4. /\ t \in Seq(C) /\ Len(t) = n
      /\ \A k \in 1 .. n : t[k] = IF k < i THEN s[k] ELSE IF k = i THEN c ELSE s[k - 1]
  <2>1. i \in 1 .. Len(s) + 1 /\ Len(s) + 1 = n
    BY <1>3
  <2>2. PICK j \in 1 .. Len(s) + 1 : j = i
    BY <2>1
  <2>3. s \in Seq(C)
    BY <1>3
  <2>4. /\ InsertBefore(s, j, c) \in Seq(C) /\ Len(InsertBefore(s, j, c)) = Len(s) + 1
        /\ \A k \in 1 .. Len(s) + 1 :
             InsertBefore(s, j, c)[k] = IF k < j THEN s[k] ELSE IF k = j THEN c ELSE s[k - 1]
    BY <2>3, InsertBeforeElements
  <2> QED
    BY <1>1, <2>1, <2>2, <2>4
<1>5. IdsOf(q) = [k \in 1 .. n |-> q[k + 1]]
  <2>1. PICK m \in Nat : m = n + 1 /\ m >= 1 /\ m - 1 = n
    OBVIOUS
  <2>2. IdsOf(q) = [k \in 1 .. m - 1 |-> q[k + 1]]
    BY <1>2, <2>1, IdsElements
  <2> QED
    BY <2>1, <2>2
<1>6. ASSUME NEW k \in 1 .. n PROVE q[k + 1] = t[k]
  <2>1. q[k + 1] = IF k < i THEN r[k + 1] ELSE IF k = i THEN c ELSE r[k]
    BY <1>2
  <2>2. t[k] = IF k < i THEN s[k] ELSE IF k = i THEN c ELSE s[k - 1]
    BY <1>4
  <2>3. CASE k < i
    <3>1. k \in 1 .. n - 1
      BY <2>3
    <3> QED
      BY <1>3, <2>1, <2>2, <2>3, <3>1
  <2>4. CASE k = i
    BY <2>1, <2>2, <2>4
  <2>5. CASE k > i
    <3>1. k - 1 \in 1 .. n - 1 /\ k - 1 + 1 = k /\ ~(k < i) /\ k # i
      BY <2>5
    <3>2. s[k - 1] = r[k]
      BY <1>3, <3>1
    <3> QED
      BY <2>1, <2>2, <3>1, <3>2
  <2> QED
    BY <2>3, <2>4, <2>5
<1>7. t = [k \in 1 .. n |-> t[k]]
  <2>1. DOMAIN t = 1 .. n
    BY <1>4
  <2> QED
    BY <1>4, <2>1
<1> QED
  BY <1>1, <1>5, <1>6, <1>7

\* TWO_OPT.
LEMMA SpliceIds ==
  ASSUME NEW C, NEW r \in Seq(C), NEW n \in Nat, n >= 1, n = last(r), NEW i \in 0 .. n - 1,
         NEW t \in Seq(C), NEW m \in Nat, m >= 1, m = last(t), NEW j \in 0 .. m - 1,
         NEW q, Spliced(q, C, r, n, i, t, m, j)
  PROVE  IdsOf(q) = Splice(IdsOf(r), i, IdsOf(t), j)
<1>1. PICK s, u, w : s = IdsOf(r) /\ u = IdsOf(t) /\ w = Splice(s, i, u, j)
  OBVIOUS
<1>2. PICK h \in Nat : h = i + m - j /\ h >= 1
  <2>1. i + m - j \in Nat /\ i + m - j >= 1
    OBVIOUS
  <2> QED
    BY <2>1
<1>3. /\ q \in Seq(C) /\ last(q) = h
      /\ \A k \in 0 .. h : q[k + 1] = IF k <= i THEN r[k + 1] ELSE t[k - i + j + 1]
  BY <1>2 DEF Spliced
<1>4. s \in Seq(C) /\ Len(s) = n - 1 /\ \A k \in 1 .. n - 1 : s[k] = r[k + 1]
  BY <1>1, IdsElements
<1>5. u \in Seq(C) /\ Len(u) = m - 1 /\ \A k \in 1 .. m - 1 : u[k] = t[k + 1]
  BY <1>1, IdsElements
<1>6. w \in Seq(C) /\ Len(w) = h - 1 /\ \A k \in 1 .. h - 1 : w[k] = IF k <= i THEN s[k] ELSE u[k - i + j]
  <2>1. i \in 0 .. Len(s) /\ j \in 0 .. Len(u) /\ i + Len(u) - j = h - 1
    <3>1. Len(s) = n - 1 /\ Len(u) = m - 1
      BY <1>4, <1>5
    <3>2. i \in 0 .. n - 1 /\ j \in 0 .. m - 1 /\ i + (m - 1) - j = h - 1
      BY <1>2
    <3> QED
      BY <3>1, <3>2
  <2>2. PICK a \in 0 .. Len(s), b \in 0 .. Len(u) : a = i /\ b = j
    BY <2>1
  <2>3. s \in Seq(C) /\ u \in Seq(C)
    BY <1>4, <1>5
  <2>4. /\ Splice(s, a, u, b) \in Seq(C) /\ Len(Splice(s, a, u, b)) = a + Len(u) - b
        /\ \A k \in 1 .. a + Len(u) - b : Splice(s, a, u, b)[k] = IF k <= a THEN s[k] ELSE u[k - a + b]
    BY <2>3, SpliceElements
  <2> QED
    BY <1>1, <2>1, <2>2, <2>4
<1>7. IdsOf(q) = [k \in 1 .. h - 1 |-> q[k + 1]]
  BY <1>2, <1>3, IdsElements
<1>8. ASSUME NEW k \in 1 .. h - 1 PROVE q[k + 1] = w[k]
  <2>1. q[k + 1] = IF k <= i THEN r[k + 1] ELSE t[k - i + j + 1]
    BY <1>3
  <2>2. w[k] = IF k <= i THEN s[k] ELSE u[k - i + j]
    BY <1>6
  <2>3. CASE k <= i
    <3>1. k \in 1 .. n - 1
      BY <2>3
    <3> QED
      BY <1>4, <2>1, <2>2, <2>3, <3>1
  <2>4. CASE ~(k <= i)
    <3>1. k - i + j \in 1 .. m - 1
      BY <1>2, <2>4
    <3>2. u[k - i + j] = t[k - i + j + 1]
      BY <1>5, <3>1
    <3> QED
      BY <2>1, <2>2, <2>4, <3>2
  <2> QED
    BY <2>3, <2>4
<1>9. w = [k \in 1 .. h - 1 |-> w[k]]
  <2>1. DOMAIN w = 1 .. h - 1
    BY <1>6
  <2> QED
    BY <1>6, <2>1
<1> QED
  BY <1>1, <1>7, <1>8, <1>9

\* The ids of all routes.
IdsOfAll(rts) == [x \in Route |-> IdsOf(rts[x])]

\* The routes of the objects are sequences of n + 1 objects.
LEMMA ShapeOfRoutes ==
  ASSUME NEW rts, Shape(rts), NEW x \in Route
  PROVE  \E n \in Nat : rts[x] \in Seq(Object) /\ n >= 1 /\ n = last(rts[x]) /\ Len(rts[x]) = n + 1
<1>1. PICK r : r = rts[x]
  OBVIOUS
<1>2. r \in Seq(Object) /\ Len(r) \in Nat /\ Len(r) >= 2
  BY <1>1 DEF Shape, RouteShape
<1>3. last(r) \in Nat /\ last(r) >= 1 /\ Len(r) = last(r) + 1
  BY <1>2 DEF last
<1> QED
  BY <1>1, <1>2, <1>3

\* EJECT.
LEMMA EjectIds ==
  ASSUME NEW rts, Shape(rts), NEW x \in Route, NEW i \in 1 .. last(rts[x]) - 1,
         NEW out, out = [rts EXCEPT ![x] = remove_customer(@, i)]
  PROVE  IdsOfAll(out) = Eject(IdsOfAll(rts), <<x, i>>)
<1>1. rts = [z \in Route |-> rts[z]]
  BY DEF Shape
<1>2. out[x] = remove_customer(rts[x], i) /\ \A z \in Route : z # x => out[z] = rts[z]
  BY <1>1
<1>3. IdsOf(out[x]) = RemoveIndex(IdsOf(rts[x]), i)
  <2>1. PICK n \in Nat : rts[x] \in Seq(Object) /\ n >= 1 /\ n = last(rts[x]) /\ Len(rts[x]) = n + 1
    BY ShapeOfRoutes
  <2>2. PICK r : r = rts[x]
    OBVIOUS
  <2>3. r \in Seq(Object) /\ n = last(r) /\ i \in 1 .. n - 1
    BY <2>1, <2>2
  <2>4. IdsOf(remove_customer(r, i)) = RemoveIndex(IdsOf(r), i)
    BY <2>1, <2>3, RemoveIds
  <2> QED
    BY <1>2, <2>2, <2>4
<1>4. PICK g : g = IdsOfAll(rts)
  OBVIOUS
<1>5. g = [z \in Route |-> g[z]] /\ \A z \in Route : g[z] = IdsOf(rts[z])
  BY <1>4 DEF IdsOfAll
<1>6. Eject(g, <<x, i>>) = [z \in Route |-> IF z = x THEN RemoveIndex(g[x], i) ELSE g[z]]
  BY <1>5 DEF Eject
<1>7. \A z \in Route : IdsOf(out[z]) = IF z = x THEN RemoveIndex(g[x], i) ELSE g[z]
  BY <1>2, <1>3, <1>5
<1> QED
  BY <1>4, <1>6, <1>7 DEF IdsOfAll

\* INSERT.
InsertsAt(out, rts, x, i, c) == out = [rts EXCEPT ![x] = insert_customer(@, i, c)]

\* INSERT: the ids of all routes with the customer inserted.
LEMMA InsertIdsAll ==
  ASSUME NEW rts, Shape(rts), NEW x \in Route, NEW i \in 1 .. last(rts[x]), NEW c \in Object,
         NEW out, InsertsAt(out, rts, x, i, c)
  PROVE  IdsOfAll(out) = Insert(IdsOfAll(rts), <<x, i>>, c)
<1>1. rts = [z \in Route |-> rts[z]]
  BY DEF Shape
<1>2. out[x] = insert_customer(rts[x], i, c) /\ \A z \in Route : z # x => out[z] = rts[z]
  BY <1>1 DEF InsertsAt
<1>3. IdsOf(out[x]) = InsertBefore(IdsOf(rts[x]), i, c)
  <2>1. PICK n \in Nat : rts[x] \in Seq(Object) /\ n >= 1 /\ n = last(rts[x]) /\ Len(rts[x]) = n + 1
    BY ShapeOfRoutes
  <2>2. PICK r : r = rts[x]
    OBVIOUS
  <2>3. r \in Seq(Object) /\ n = last(r) /\ i \in 1 .. n
    BY <2>1, <2>2
  <2>4. IdsOf(insert_customer(r, i, c)) = InsertBefore(IdsOf(r), i, c)
    BY <2>1, <2>3, InsertIds
  <2> QED
    BY <1>2, <2>2, <2>4
<1>4. PICK g : g = IdsOfAll(rts)
  OBVIOUS
<1>5. g = [z \in Route |-> g[z]] /\ \A z \in Route : g[z] = IdsOf(rts[z])
  BY <1>4 DEF IdsOfAll
<1>6. Insert(g, <<x, i>>, c) = [z \in Route |-> IF z = x THEN InsertBefore(g[x], i, c) ELSE g[z]]
  BY <1>5 DEF Insert
<1>7. \A z \in Route : IdsOf(out[z]) = IF z = x THEN InsertBefore(g[x], i, c) ELSE g[z]
  BY <1>2, <1>3, <1>5
<1> QED
  BY <1>4, <1>6, <1>7 DEF IdsOfAll

\* TWO_OPT.
LEMMA TwoOptIds ==
  ASSUME NEW rts, Shape(rts), NEW x \in Route, NEW y \in Route, x # y,
         NEW i \in 0 .. last(rts[x]) - 1, NEW j \in 0 .. last(rts[y]) - 1,
         NEW out, TailsExchanged(out, rts, x, i, y, j)
  PROVE  IdsOfAll(out) = TwoOpt(IdsOfAll(rts), <<x, i>>, <<y, j>>)
<1>1. PICK g : g = IdsOfAll(rts)
  OBVIOUS
<1>2. g = [z \in Route |-> g[z]] /\ \A z \in Route : g[z] = IdsOf(rts[z])
  BY <1>1 DEF IdsOfAll
<1>3. PICK r, t, p, q : r = rts[x] /\ t = rts[y] /\ p = out[x] /\ q = out[y]
  OBVIOUS
<1>4. PICK n \in Nat : r \in Seq(Object) /\ n >= 1 /\ n = last(r)
  BY <1>3, ShapeOfRoutes
<1>5. PICK m \in Nat : t \in Seq(Object) /\ m >= 1 /\ m = last(t)
  BY <1>3, ShapeOfRoutes
<1>6. Spliced(p, Object, r, n, i, t, m, j) /\ Spliced(q, Object, t, m, j, r, n, i)
  BY <1>3, <1>4, <1>5 DEF TailsExchanged
<1>7. i \in 0 .. n - 1 /\ j \in 0 .. m - 1
  BY <1>3, <1>4, <1>5
<1>8. IdsOf(p) = Splice(IdsOf(r), i, IdsOf(t), j)
  BY <1>4, <1>5, <1>6, <1>7, SpliceIds
<1>9. IdsOf(q) = Splice(IdsOf(t), j, IdsOf(r), i)
  BY <1>4, <1>5, <1>6, <1>7, SpliceIds
<1>10. TwoOpt(g, <<x, i>>, <<y, j>>) =
         [z \in Route |-> IF z = y THEN Splice(g[y], j, g[x], i)
                          ELSE IF z = x THEN Splice(g[x], i, g[y], j) ELSE g[z]]
  <2>1. TwoOpt(g, <<x, i>>, <<y, j>>) =
          [g EXCEPT ![x] = Splice(g[x], i, g[y], j), ![y] = Splice(g[y], j, g[x], i)]
    BY DEF TwoOpt
  <2> QED
    BY <1>2, <2>1
<1>11. \A z \in Route : z # x /\ z # y => out[z] = rts[z]
  BY DEF TailsExchanged
<1>12. \A z \in Route : IdsOf(out[z]) = IF z = y THEN Splice(g[y], j, g[x], i)
                                       ELSE IF z = x THEN Splice(g[x], i, g[y], j) ELSE g[z]
  BY <1>2, <1>3, <1>8, <1>9, <1>11
<1> QED
  BY <1>1, <1>10, <1>12 DEF IdsOfAll

\* EXCHANGE.
LEMMA ExchangeIds ==
  ASSUME NEW rts, Shape(rts), NEW x \in Route, NEW i \in 1 .. last(rts[x]) - 1, NEW v, v = rts[x][i + 1],
         NEW y \in Route, NEW j \in 1 .. last(rts[y]) - 1, NEW w, w = rts[y][j + 1],
         NEW out, Exchanged(out, rts, x, i, y, j, v, w)
  PROVE  IdsOfAll(out) = Exchange(IdsOfAll(rts), <<x, i>>, <<y, j>>)
<1>1. PICK g : g = IdsOfAll(rts)
  OBVIOUS
<1>2. g = [z \in Route |-> g[z]] /\ \A z \in Route : g[z] = IdsOf(rts[z])
  BY <1>1 DEF IdsOfAll
<1>3. ASSUME NEW z \in Route
      PROVE  /\ IdsOf(out[z]) = [k \in DOMAIN g[z] |-> IF z = y /\ k = j THEN v
                                                      ELSE IF z = x /\ k = i THEN w ELSE g[z][k]]
             /\ g[z] = [k \in DOMAIN g[z] |-> g[z][k]]
             /\ \A k \in 1 .. last(rts[z]) - 1 : k \in DOMAIN g[z] /\ g[z][k] = rts[z][k + 1]
  <2>1. PICK n \in Nat : rts[z] \in Seq(Object) /\ n >= 1 /\ n = last(rts[z]) /\ Len(rts[z]) = n + 1
    BY ShapeOfRoutes
  <2>2. PICK r, q : r = rts[z] /\ q = out[z]
    OBVIOUS
  <2>3. /\ r \in Seq(Object) /\ n = last(r) /\ q \in Seq(Object) /\ last(q) = n
        /\ \A k \in 0 .. n : q[k + 1] = IF z = y /\ k = j THEN v
                                        ELSE IF z = x /\ k = i THEN w ELSE r[k + 1]
    BY <2>1, <2>2 DEF Exchanged
  <2>4. IdsOf(q) = [k \in 1 .. n - 1 |-> q[k + 1]] /\ IdsOf(r) = [k \in 1 .. n - 1 |-> r[k + 1]]
    BY <2>1, <2>3, IdsElements
  <2>5. g[z] = [k \in 1 .. n - 1 |-> r[k + 1]]
    BY <1>2, <2>2, <2>4
  <2>6. DOMAIN g[z] = 1 .. n - 1 /\ \A k \in 1 .. n - 1 : g[z][k] = r[k + 1] /\ k \in 0 .. n
    BY <2>5
  <2>7. IdsOf(q) = [k \in 1 .. n - 1 |-> IF z = y /\ k = j THEN v ELSE IF z = x /\ k = i THEN w ELSE g[z][k]]
    BY <2>3, <2>4, <2>6
  <2>8. g[z] = [k \in DOMAIN g[z] |-> g[z][k]]
    BY <2>5
  <2> QED
    BY <2>1, <2>2, <2>6, <2>7, <2>8
<1>4. g[x][i] = v /\ i \in DOMAIN g[x] /\ g[y][j] = w /\ j \in DOMAIN g[y]
  BY <1>3
<1>5. Exchange(g, <<x, i>>, <<y, j>>) = [g EXCEPT ![x][i] = w, ![y][j] = v]
  BY <1>4 DEF Exchange
<1>6. PICK h : h = [g EXCEPT ![x] = [@ EXCEPT ![i] = w]]
  OBVIOUS
<1>7. [g EXCEPT ![x][i] = w, ![y][j] = v] = [h EXCEPT ![y] = [@ EXCEPT ![j] = v]]
  BY <1>6
<1>8. PICK f : f = [h EXCEPT ![y] = [@ EXCEPT ![j] = v]]
  OBVIOUS
<1>9. /\ h = [z \in Route |-> h[z]] /\ h[x] = [g[x] EXCEPT ![i] = w]
      /\ \A z \in Route : z # x => h[z] = g[z]
  BY <1>2, <1>6
<1>10. /\ f = [z \in Route |-> f[z]] /\ f[y] = [h[y] EXCEPT ![j] = v]
       /\ \A z \in Route : z # y => f[z] = h[z]
  BY <1>8, <1>9
<1>11. ASSUME NEW z \in Route PROVE f[z] = IdsOf(out[z])
  <2>1. PICK D : D = DOMAIN g[z] /\ g[z] = [k \in D |-> g[z][k]]
    BY <1>3
  <2>2. h[z] = [k \in D |-> IF z = x /\ k = i THEN w ELSE g[z][k]]
    <3>1. CASE z = x
      BY <1>9, <2>1, <3>1
    <3>2. CASE z # x
      BY <1>9, <2>1, <3>2
    <3> QED
      BY <3>1, <3>2
  <2>3. f[z] = [k \in D |-> IF z = y /\ k = j THEN v ELSE h[z][k]]
    <3>1. CASE z = y
      BY <1>10, <2>2, <3>1
    <3>2. CASE z # y
      BY <1>10, <2>2, <3>2
    <3> QED
      BY <3>1, <3>2
  <2>4. f[z] = [k \in D |-> IF z = y /\ k = j THEN v ELSE IF z = x /\ k = i THEN w ELSE g[z][k]]
    BY <2>2, <2>3
  <2> QED
    BY <1>3, <2>1, <2>4
<1> QED
  BY Zenon, <1>1, <1>5, <1>7, <1>8, <1>10, <1>11 DEF IdsOfAll

\* OUT_RELOCATE.
LEMMA RelocateIds ==
  ASSUME NEW rts, Shape(rts), NEW mid, Shape(mid),
         NEW y \in Route, NEW s \in 1 .. last(rts[y]) - 1, NEW w \in Object, w = rts[y][s + 1],
         NEW x \in Route, NEW i, <<x, i>> # <<y, s>>, NEW m \in 1 .. last(mid[x]),
         m = IF x = y /\ s < i THEN i - 1 ELSE i,
         NEW out, Relocated(out, mid, rts, x, m, y, s, w)
  PROVE  IdsOfAll(out) = OutRelocate(IdsOfAll(rts), <<x, i>>, <<y, s>>)
<1>1. IdsOfAll(mid) = Eject(IdsOfAll(rts), <<y, s>>)
  BY Zenon, EjectIds DEF Relocated
<1>2. IdsOfAll(out) = Insert(IdsOfAll(mid), <<x, m>>, w)
  <2>1. InsertsAt(out, mid, x, m, w)
    BY DEF Relocated, InsertsAt
  <2> QED
    BY <2>1, InsertIdsAll
<1>3. IdsOfAll(rts)[y][s] = w
  <2>1. PICK n \in Nat : rts[y] \in Seq(Object) /\ n >= 1 /\ n = last(rts[y]) /\ Len(rts[y]) = n + 1
    BY ShapeOfRoutes
  <2>2. PICK r : r = rts[y]
    OBVIOUS
  <2>3. r \in Seq(Object) /\ n = last(r) /\ s \in 1 .. n - 1
    BY <2>1, <2>2
  <2>4. IdsOf(r)[s] = r[s + 1]
    BY <2>1, <2>3, IdsElements
  <2> QED
    BY <2>2, <2>4 DEF IdsOfAll
<1>4. PICK g : g = IdsOfAll(rts)
  OBVIOUS
<1>5. OutRelocate(g, <<x, i>>, <<y, s>>) = Insert(Eject(g, <<y, s>>), <<x, m>>, w)
  <2>1. CASE x = y /\ s < i
    BY <1>3, <1>4, <2>1 DEF OutRelocate
  <2>2. CASE ~(x = y /\ s < i)
    BY <1>3, <1>4, <2>2 DEF OutRelocate
  <2> QED
    BY <2>1, <2>2
<1> QED
  BY <1>1, <1>2, <1>4, <1>5

\* The routes as EamaSolver knows them, and the node of an object.
LEMMA NodeAt ==
  ASSUME Inv, NEW v, NEW x, NEW n, NEW i, IsAt(v, x, n, i)
  PROVE  /\ Ids = IdsOfAll(routes) /\ Node(v) = <<x, i>>
         /\ IsHead(<<x, i>>) <=> i = 0
         /\ IsTail(Ids, <<x, i>>) <=> i = n
<1>1. x \in Route /\ Node(v) = <<x, i>> /\ n = last(routes[x])
  BY DEF IsAt, Node
<1>2. Ids = IdsOfAll(routes)
  BY DEF Ids, IdsOfAll, IdsOf
<1>3. last(routes[x]) = Len(Ids[x]) + 1
  <2>1. Instance(problem) /\ ObjectRoute(routes[x]) /\ Ids[x] = IdsOf(routes[x])
    <3>1. Instance(problem)
      BY ProblemsAssumption DEF Inv
    <3> QED
      BY <1>1, <3>1, RouteOfInv
  <2> QED
    BY <2>1, RouteIds
<1> QED
  BY <1>1, <1>2, <1>3 DEF IsHead, IsTail

\* TWO_OPT, as EamaSolver has it.
LEMMA AppliesTwoOpt ==
  ASSUME Inv, NEW v \in Placed, NEW w \in Placed, ApplyTwoOpt(v, w)
  PROVE  /\ modification_applicable(Ids, "TWO_OPT", Node(v), Node(w))
         /\ Ids' = modification_apply(Ids, "TWO_OPT", Node(v), Node(w))
<1>1. PICK x, n, i : IsAt(v, x, n, i)
  BY PlacedAt
<1>2. PICK y, m, j : IsAt(w, y, m, j)
  BY PlacedAt
<1>3. /\ x \in Route /\ n \in Nat /\ i \in 0 .. n - 1 /\ n = last(routes[x]) /\ x = data[v].route /\ i = data[v].idx
      /\ y \in Route /\ m \in Nat /\ j \in 0 .. m - 1 /\ m = last(routes[y]) /\ y = data[w].route /\ j = data[w].idx
      /\ x # y /\ i # n /\ j # m
  <2>1. x # y /\ i # n /\ j # m
    BY Zenon, <1>1, <1>2 DEF ApplyTwoOpt, CanTwoOpt, IsAt
  <2> QED
    BY <1>1, <1>2, <2>1 DEF IsAt
<1>4. PICK rts, rs : rts = routes' /\ rs = routes
  OBVIOUS
<1>5. rts = [rs EXCEPT ![x] = Splice(rs[x], i + 1, rs[y], j + 1),
                       ![y] = Splice(rs[y], j + 1, rs[x], i + 1)]
  BY Zenon, <1>3, <1>4 DEF ApplyTwoOpt, Splice
<1>6. Shape(rs)
  BY <1>4 DEF Inv, AllExact
<1>7. TailsExchanged(rts, rs, x, i, y, j)
  <2>1. i \in Nat /\ i < last(rs[x]) /\ i \in 0 .. last(rs[x]) /\ j \in Nat /\ j < last(rs[y]) /\ j \in 0 .. last(rs[y])
    BY <1>3, <1>4
  <2> QED
    BY <1>3, <1>5, <1>6, <2>1, TwoOptElements
<1>8. IdsOfAll(rts) = TwoOpt(IdsOfAll(rs), <<x, i>>, <<y, j>>)
  <2>1. i \in 0 .. last(rs[x]) - 1 /\ j \in 0 .. last(rs[y]) - 1
    BY <1>3, <1>4
  <2> QED
    BY <1>3, <1>6, <1>7, <2>1, TwoOptIds
<1>9. Ids' = IdsOfAll(rts)
  BY <1>4 DEF Ids, IdsOfAll, IdsOf
<1>10. /\ Ids = IdsOfAll(rs) /\ Node(v) = <<x, i>> /\ Node(w) = <<y, j>>
       /\ ~IsTail(Ids, <<x, i>>) /\ ~IsTail(Ids, <<y, j>>)
  BY <1>1, <1>2, <1>3, <1>4, NodeAt
<1> QED
  BY <1>3, <1>8, <1>9, <1>10 DEF modification_applicable, modification_apply

\* OUT_RELOCATE, as EamaSolver has it.
LEMMA AppliesOutRelocate ==
  ASSUME Inv, NEW v \in Placed, NEW w \in Placed, ApplyOutRelocate(v, w)
  PROVE  /\ modification_applicable(Ids, "OUT_RELOCATE", Node(v), Node(w))
         /\ Ids' = modification_apply(Ids, "OUT_RELOCATE", Node(v), Node(w))
<1>1. PICK x, n, i : IsAt(v, x, n, i)
  BY PlacedAt
<1>2. PICK y, m, s : IsAt(w, y, m, s)
  BY PlacedAt
<1>3. w \in Customer /\ v # HeadOf(x) /\ v # w
  BY <1>1 DEF ApplyOutRelocate, CanOutRelocate, IsAt
<1>4. /\ x \in Route /\ n \in Nat /\ i \in 1 .. n /\ n = last(routes[x]) /\ i # 0
      /\ x = data[v].route /\ i = data[v].idx /\ v = routes[x][i + 1]
  BY <1>1, <1>3 DEF IsAt
<1>5. /\ y \in Route /\ m \in Nat /\ s \in 1 .. m - 1 /\ m = last(routes[y]) /\ s # 0 /\ s # m
      /\ y = data[w].route /\ s = data[w].idx /\ w = routes[y][s + 1] /\ routes[y] \in Seq(Object)
  BY <1>2, <1>3 DEF IsAt
<1>6. PICK rts, rs, d : rts = routes' /\ rs = routes /\ d = data
  OBVIOUS
<1>7. Instance(problem) /\ Shape(rs) /\ d \in [Object -> Data] /\ Knows(rs, d)
  BY <1>6, ProblemsAssumption DEF Inv, AllExact
<1>8. PICK dst : dst = IF x = y /\ s < i THEN i - 1 ELSE i
  OBVIOUS
<1>9. PICK mid : mid = [rs EXCEPT ![y] = remove_customer(@, s)]
  OBVIOUS
<1>10. Shape(mid)
  <2>1. PICK g : g = Removed(route_refresh_metadata_from(mid, d, y, s), w)
    OBVIOUS
  <2>2. s \in 1 .. last(rs[y]) - 1 /\ w = rs[y][s + 1]
    BY Zenon, <1>5, <1>6
  <2>3. Refit(mid, d, g)
    BY Zenon, <1>5, <1>7, <1>9, <2>1, <2>2, RemovePlaces
  <2> QED
    BY <2>3 DEF Refit
<1>11. dst \in 1 .. last(mid[x])
  <2>1. rs = [z \in Route |-> rs[z]]
    BY <1>7 DEF Shape
  <2>2. mid[y] = remove_customer(rs[y], s) /\ (x # y => mid[x] = rs[x])
    BY Zenon, <1>4, <1>5, <1>9, <2>1
  <2>3. last(mid[y]) = m - 1
    <3>1. PICK r : r = rs[y]
      OBVIOUS
    <3>2. r \in Seq(Object) /\ m = last(r)
      BY Zenon, <1>5, <1>6, <3>1
    <3>3. m \in Nat /\ m >= 1 /\ s \in 0 .. m
      <4>1. m \in Nat
        BY Zenon, <1>5
      <4>2. s \in 1 .. m - 1
        BY Zenon, <1>5
      <4> QED
        BY <4>1, <4>2
    <3>4. last(remove_customer(r, s)) = m - 1
      BY <3>2, <3>3, RemoveElements
    <3> QED
      BY <2>2, <3>1, <3>4
  <2>4. CASE x # y
    BY Zenon, <1>4, <1>6, <1>8, <2>2, <2>4
  <2>5. CASE x = y
    <3>1. i # s /\ n = m
      BY Zenon, <1>3, <1>4, <1>5, <2>5
    <3>2. n \in Nat /\ i \in 1 .. n /\ s \in 1 .. n - 1
      BY Zenon, <1>4, <1>5, <3>1
    <3>3. dst \in 1 .. n - 1
      <4>1. CASE s < i
        BY <1>8, <2>5, <3>2, <4>1
      <4>2. CASE ~(s < i)
        BY <1>8, <3>1, <3>2, <4>2
      <4> QED
        BY <4>1, <4>2
    <3> QED
      BY <2>3, <2>5, <3>1, <3>3
  <2> QED
    BY <2>4, <2>5
<1>12. rts = [mid EXCEPT ![x] = insert_customer(@, dst, w)]
  BY Zenon, <1>4, <1>5, <1>6, <1>8, <1>9 DEF ApplyOutRelocate
<1>13. Relocated(rts, mid, rs, x, dst, y, s, w)
  BY <1>9, <1>12 DEF Relocated
<1>14. <<x, i>> # <<y, s>>
  BY Zenon, <1>3, <1>4, <1>5
<1>15. <<y, s>> # <<x, i - 1>>
  <2>1. routes[x][i] # w
    BY Zenon, <1>4 DEF ApplyOutRelocate, CanOutRelocate, route_prev
  <2>2. i \in 1 .. n
    BY Zenon, <1>4
  <2>3. i - 1 + 1 = i
    BY <2>2
  <2>4. <<y, s>> = <<x, i - 1>> => w = routes[x][i - 1 + 1]
    BY <1>5
  <2> QED
    BY <2>1, <2>3, <2>4
<1>16. IdsOfAll(rts) = OutRelocate(IdsOfAll(rs), <<x, i>>, <<y, s>>)
  <2>1. s \in 1 .. last(rs[y]) - 1 /\ w = rs[y][s + 1] /\ w \in Object
    BY Zenon, <1>5, <1>6 DEF Placed
  <2>2. x \in Route /\ y \in Route
    BY Zenon, <1>4, <1>5
  <2>3. Shape(rs) /\ Shape(mid) /\ dst \in 1 .. last(mid[x]) /\ <<x, i>> # <<y, s>>
        /\ dst = (IF x = y /\ s < i THEN i - 1 ELSE i) /\ Relocated(rts, mid, rs, x, dst, y, s, w)
    BY <1>7, <1>8, <1>10, <1>11, <1>13, <1>14
  <2> QED
    BY <2>1, <2>2, <2>3, RelocateIds
<1>17. Ids' = IdsOfAll(rts)
  BY <1>6 DEF Ids, IdsOfAll, IdsOf
<1>18. /\ Ids = IdsOfAll(rs) /\ Node(v) = <<x, i>> /\ Node(w) = <<y, s>>
       /\ ~IsDepot(Ids, <<y, s>>) /\ ~IsHead(<<x, i>>)
  <2>1. i # 0 /\ s # 0 /\ s # m
    BY Zenon, <1>4, <1>5
  <2>2. Ids = IdsOfAll(routes) /\ Node(v) = <<x, i>> /\ ~IsHead(<<x, i>>)
    BY <1>1, <2>1, NodeAt
  <2>3. Node(w) = <<y, s>> /\ ~IsHead(<<y, s>>) /\ ~IsTail(Ids, <<y, s>>)
    BY <1>2, <2>1, NodeAt
  <2> QED
    BY <1>6, <2>2, <2>3 DEF IsDepot
<1> QED
  BY <1>15, <1>16, <1>17, <1>18 DEF modification_applicable, modification_apply

\* EXCHANGE, as EamaSolver has it.
LEMMA AppliesExchange ==
  ASSUME Inv, NEW v \in Placed, NEW w \in Placed, ApplyExchange(v, w)
  PROVE  /\ modification_applicable(Ids, "EXCHANGE", Node(v), Node(w))
         /\ Ids' = modification_apply(Ids, "EXCHANGE", Node(v), Node(w))
<1>1. PICK x, n, i : IsAt(v, x, n, i)
  BY PlacedAt
<1>2. PICK y, m, j : IsAt(w, y, m, j)
  BY PlacedAt
<1>3. v \in Customer /\ w \in Customer
  BY DEF ApplyExchange, CanExchange
<1>4. /\ x \in Route /\ n \in Nat /\ i \in 1 .. n - 1 /\ n = last(routes[x]) /\ x = data[v].route /\ i = data[v].idx
      /\ v = routes[x][i + 1] /\ i # 0 /\ i # n
  BY <1>1, <1>3 DEF IsAt
<1>5. /\ y \in Route /\ m \in Nat /\ j \in 1 .. m - 1 /\ m = last(routes[y]) /\ y = data[w].route /\ j = data[w].idx
      /\ w = routes[y][j + 1] /\ j # 0 /\ j # m
  BY <1>2, <1>3 DEF IsAt
<1>6. PICK rts, rs : rts = routes' /\ rs = routes
  OBVIOUS
<1>7. Shape(rs)
  BY <1>6 DEF Inv, AllExact
<1>8. rts = [rs EXCEPT ![x][i + 1] = w, ![y][j + 1] = v]
  BY Zenon, <1>4, <1>5, <1>6 DEF ApplyExchange
<1>9. Exchanged(rts, rs, x, i, y, j, v, w)
  <2>1. rts = Exchange2(rs, x, i, y, j, v, w)
    BY <1>8 DEF Exchange2
  <2>2. v \in Object /\ w \in Object
    BY DEF Placed
  <2>3. i \in 0 .. last(rs[x])
    <3>1. n \in Nat /\ i \in 1 .. n - 1 /\ n = last(rs[x])
      BY Zenon, <1>4, <1>6
    <3> QED
      BY <3>1
  <2>4. j \in 0 .. last(rs[y])
    <3>1. m \in Nat /\ j \in 1 .. m - 1 /\ m = last(rs[y])
      BY Zenon, <1>5, <1>6
    <3> QED
      BY <3>1
  <2>5. x \in Route /\ y \in Route
    BY Zenon, <1>4, <1>5
  <2> QED
    BY <1>7, <2>1, <2>2, <2>3, <2>4, <2>5, ExchangeElements
<1>10. IdsOfAll(rts) = Exchange(IdsOfAll(rs), <<x, i>>, <<y, j>>)
  <2>1. /\ i \in 1 .. last(rs[x]) - 1 /\ v = rs[x][i + 1]
        /\ j \in 1 .. last(rs[y]) - 1 /\ w = rs[y][j + 1]
    BY Zenon, <1>4, <1>5, <1>6
  <2>2. x \in Route /\ y \in Route
    BY <1>4, <1>5
  <2> QED
    BY <1>7, <1>9, <2>1, <2>2, ExchangeIds
<1>11. Ids' = IdsOfAll(rts)
  BY <1>6 DEF Ids, IdsOfAll, IdsOf
<1>12. /\ Ids = IdsOfAll(rs) /\ Node(v) = <<x, i>> /\ Node(w) = <<y, j>>
       /\ ~IsDepot(Ids, <<x, i>>) /\ ~IsDepot(Ids, <<y, j>>)
  <2>1. i # 0 /\ i # n /\ j # 0 /\ j # m
    BY Zenon, <1>4, <1>5
  <2>2. Ids = IdsOfAll(routes) /\ Node(v) = <<x, i>> /\ ~IsHead(<<x, i>>) /\ ~IsTail(Ids, <<x, i>>)
    BY <1>1, <2>1, NodeAt
  <2>3. Node(w) = <<y, j>> /\ ~IsHead(<<y, j>>) /\ ~IsTail(Ids, <<y, j>>)
    BY <1>2, <2>1, NodeAt
  <2> QED
    BY <1>6, <2>2, <2>3 DEF IsDepot
<1> QED
  BY <1>10, <1>11, <1>12 DEF modification_applicable, modification_apply

\* INSERT and EJECT, as EamaSolver has them.
LEMMA AppliesInsert ==
  ASSUME Inv, NEW v \in Placed, NEW w \in Object \ Placed, ApplyInsert(v, w)
  PROVE  ~IsHead(Node(v)) /\ Ids' = Insert(Ids, Node(v), w)
<1>1. PICK x, n, i : IsAt(v, x, n, i)
  BY PlacedAt
<1>2. v # HeadOf(x)
  BY <1>1 DEF ApplyInsert, CanInsert, IsAt
<1>3. x \in Route /\ n \in Nat /\ i \in 1 .. n /\ i # 0 /\ n = last(routes[x]) /\ x = data[v].route /\ i = data[v].idx
  BY <1>1, <1>2 DEF IsAt
<1>4. PICK rts, rs : rts = routes' /\ rs = routes
  OBVIOUS
<1>5. rts = [rs EXCEPT ![x] = insert_customer(@, i, w)]
  BY <1>3, <1>4 DEF ApplyInsert
<1>6. Shape(rs) /\ i \in 1 .. last(rs[x])
  BY <1>3, <1>4 DEF Inv, AllExact
<1>7. IdsOfAll(rts) = Insert(IdsOfAll(rs), <<x, i>>, w)
  <2>1. x \in Route /\ w \in Object /\ InsertsAt(rts, rs, x, i, w)
    BY <1>3, <1>5 DEF InsertsAt
  <2> QED
    BY <1>6, <2>1, InsertIdsAll
<1>8. Ids' = IdsOfAll(rts)
  BY <1>4 DEF Ids, IdsOfAll, IdsOf
<1>9. Ids = IdsOfAll(rs) /\ Node(v) = <<x, i>> /\ ~IsHead(<<x, i>>)
  BY <1>1, <1>3, <1>4, NodeAt
<1> QED
  BY <1>7, <1>8, <1>9

\* EJECT is carried out as Modification has it.
LEMMA AppliesEject ==
  ASSUME Inv, NEW v \in Placed, ApplyEject(v)
  PROVE  v \in Customer /\ Ids' = Eject(Ids, Node(v))
<1>1. PICK x, n, i : IsAt(v, x, n, i)
  BY PlacedAt
<1>2. v \in Customer
  BY DEF ApplyEject
<1>3. x \in Route /\ i \in 1 .. n - 1 /\ n = last(routes[x]) /\ x = data[v].route /\ i = data[v].idx
  BY <1>1, <1>2 DEF IsAt
<1>4. PICK rts, rs : rts = routes' /\ rs = routes
  OBVIOUS
<1>5. rts = [rs EXCEPT ![x] = remove_customer(@, i)]
  BY <1>3, <1>4 DEF ApplyEject
<1>6. Shape(rs) /\ i \in 1 .. last(rs[x]) - 1
  BY <1>3, <1>4 DEF Inv, AllExact
<1>7. IdsOfAll(rts) = Eject(IdsOfAll(rs), <<x, i>>)
  BY <1>3, <1>5, <1>6, EjectIds
<1>8. Ids' = IdsOfAll(rts)
  BY <1>4 DEF Ids, IdsOfAll, IdsOf
<1>9. Ids = IdsOfAll(rs) /\ Node(v) = <<x, i>>
  BY <1>1, <1>4, NodeAt
<1> QED
  BY <1>2, <1>7, <1>8, <1>9

\* Every step on the arrays is the modification EamaSolver has, at the nodes of its objects
\* (modification_apply, route_insert_customer, route_remove_customer).
THEOREM StepsApply == Spec => AppliesModification
<1> DEFINE A == \/ \E v, w \in Placed, type \in Moves :
                     /\ modification_applicable(Ids, type, Node(v), Node(w))
                     /\ Ids' = modification_apply(Ids, type, Node(v), Node(w))
                \/ \E v \in Placed, w \in Object \ Placed :
                     ~IsHead(Node(v)) /\ Ids' = Insert(Ids, Node(v), w)
                \/ \E v \in Placed \cap Customer : Ids' = Eject(Ids, Node(v))
<1>1. Inv /\ [Next]_vars => [A]_vars
  <2> SUFFICES ASSUME Inv, Next PROVE A
    OBVIOUS
  <2>1. "TWO_OPT" \in Moves /\ "OUT_RELOCATE" \in Moves /\ "EXCHANGE" \in Moves
    BY DEF Moves
  <2>2. CASE \E v, w \in Placed : ApplyTwoOpt(v, w)
    BY <2>1, <2>2, AppliesTwoOpt
  <2>3. CASE \E v, w \in Placed : ApplyOutRelocate(v, w)
    BY <2>1, <2>3, AppliesOutRelocate
  <2>4. CASE \E v, w \in Placed : ApplyExchange(v, w)
    BY <2>1, <2>4, AppliesExchange
  <2>5. CASE \E v \in Placed, w \in Object \ Placed : ApplyInsert(v, w)
    BY <2>5, AppliesInsert
  <2>6. CASE \E v \in Placed : ApplyEject(v)
    BY <2>6, AppliesEject
  <2> QED
    BY <2>2, <2>3, <2>4, <2>5, <2>6 DEF Next
<1> QED
  BY <1>1, AlwaysExact, PTL DEF Spec, AppliesModification

-----------------------------------------------------------------------------
(***************************************************************************)
(* The deltas computed from the cached values.                             *)
(***************************************************************************)
\* The object c has the values of the index k of the ids r.
Has(c, r, k) ==
  /\ id(c) = Id(r, k)
  /\ data[c].a = Arrivals(problem, r)[k] /\ data[c].tw_pf = PrefixLateness(problem, r)[k]
  /\ data[c].demand_pf = PrefixDemand(problem, r)[k]
  /\ data[c].z = LatestStarts(problem, r)[k] /\ data[c].tw_sf = SuffixLateness(problem, r)[k]
  /\ data[c].demand_sf = SuffixDemand(problem, r)[k]

\* The objects of a route have the values of their indexes.
LEMMA ObjectsHave ==
  ASSUME Inv, NEW x \in Route, NEW k \in 0 .. last(routes[x])
  PROVE  Has(routes[x][k + 1], Ids[x], k)
<1>1. PICK n \in Nat : n = last(routes[x]) /\ Len(routes[x]) = n + 1
  BY RouteOfInv
<1>2. k < Len(routes[x]) /\ k > -1
  BY <1>1
<1>3. Exact(routes[x], data) /\ IdsOf(routes[x]) = Ids[x] /\ ObjectRoute(routes[x])
  BY RouteOfInv
<1>4. Forward(routes[x], data, k) /\ Backward(routes[x], data, k)
  BY <1>2, <1>3 DEF Exact, Cached
<1>5. id(routes[x][k + 1]) = Id(Ids[x], k)
  <2>1. Instance(problem)
    BY ProblemsAssumption DEF Inv
  <2> QED
    BY <1>3, <2>1, RouteIds
<1> QED
  BY <1>3, <1>4, <1>5 DEF Forward, Backward, Has

\* Its place, those of its neighbours and the penalties of its route.
Placing(v, r, n, i) ==
  /\ RouteOf(problem, r) /\ n \in Nat /\ n = Len(r) + 1 /\ i \in 0 .. n /\ Has(v, r, i)
  /\ v \in Customer => i \in 1 .. n - 1 /\ r[i] = v /\ id(v) = v
  /\ i # 0 => Has(route_prev(v), r, i - 1)
  /\ i # n => Has(route_next(v), r, i + 1)
  /\ tw_penalty(v) = TwPenalty(problem, r)
  /\ over_capacity(c_total(v)) = CPenalty(problem, r)
  /\ c_total(v) = PrefixDemand(problem, r)[depot_tail(r)]

\* An object that is in a route has the values of its place, and so have its neighbours.
LEMMA ObjectPlacing ==
  ASSUME Inv, NEW v, NEW x, NEW n, NEW i, IsAt(v, x, n, i)
  PROVE  Placing(v, Ids[x], n, i)
<1>1. /\ x \in Route /\ n \in Nat /\ i \in 0 .. n /\ x = data[v].route /\ i = data[v].idx
      /\ n = last(routes[x]) /\ Len(routes[x]) = n + 1 /\ routes[x][i + 1] = v
      /\ v \in Customer <=> i \in 1 .. n - 1
  BY DEF IsAt
<1>2. PICK r : r = Ids[x]
  OBVIOUS
<1>3. RouteOf(problem, r) /\ n = Len(r) + 1 /\ \A k \in 1 .. n - 1 : r[k] = routes[x][k + 1]
  <2>1. Instance(problem) /\ ObjectRoute(routes[x]) /\ Ids[x] = IdsOf(routes[x])
    <3>1. Instance(problem)
      BY ProblemsAssumption DEF Inv
    <3> QED
      BY <1>1, <3>1, RouteOfInv
  <2> QED
    BY Zenon, <1>1, <1>2, <2>1, RouteIds
<1>4. \A k \in 0 .. n : Has(routes[x][k + 1], r, k)
  BY <1>1, <1>2, ObjectsHave
<1>5. Has(v, r, i)
  BY <1>1, <1>4
<1>6. v \in Customer => i \in 1 .. n - 1 /\ r[i] = v /\ id(v) = v
  BY <1>1, <1>3 DEF id
<1>7. ASSUME i # 0 PROVE Has(route_prev(v), r, i - 1)
  <2>1. PICK k \in 0 .. n : k = i - 1 /\ k + 1 = i
    <3>1. n \in Nat /\ i \in 0 .. n
      BY <1>1
    <3> QED
      BY <1>7, <3>1
  <2>2. route_prev(v) = routes[x][i]
    BY <1>1 DEF route_prev
  <2> QED
    BY <1>4, <2>1, <2>2
<1>8. ASSUME i # n PROVE Has(route_next(v), r, i + 1)
  <2>1. PICK k \in 0 .. n : k = i + 1 /\ k + 1 = i + 2
    <3>1. n \in Nat /\ i \in 0 .. n
      BY <1>1
    <3> QED
      BY <1>8, <3>1
  <2>2. route_next(v) = routes[x][i + 2]
    BY <1>1 DEF route_next
  <2> QED
    BY <1>4, <2>1, <2>2
<1>9. Has(depot_tail_of(v), r, n)
  <2>1. depot_tail_of(v) = routes[x][n + 1]
    BY <1>1 DEF depot_tail_of, Last
  <2>2. n \in 0 .. n
    BY <1>1
  <2> QED
    BY <1>4, <2>1, <2>2
<1>10. /\ tw_penalty(v) = TwPenalty(problem, r)
       /\ c_total(v) = PrefixDemand(problem, r)[depot_tail(r)]
  BY <1>3, <1>9 DEF Has, tw_penalty, c_total, TwPenalty, depot_tail
<1>11. over_capacity(c_total(v)) = CPenalty(problem, r)
  BY <1>10 DEF over_capacity, CPenalty
<1> QED
  BY <1>1, <1>2, <1>3, <1>5, <1>6, <1>7, <1>8, <1>10, <1>11 DEF Placing

\* What the route r becoming q does to its penalties.
Shifts(q, r, dt, dc) ==
  /\ dt \in Int /\ dc \in Int
  /\ TwPenalty(problem, q) - TwPenalty(problem, r) = dt
  /\ CPenalty(problem, q) - CPenalty(problem, r) = dc

\* A new route's penalties against the old one's.
LEMMA ShiftsBy ==
  ASSUME NEW v, NEW r, NEW n, NEW i, Placing(v, r, n, i), NEW q, RouteOf(problem, q),
         NEW total, total = PrefixDemand(problem, q)[depot_tail(q)]
  PROVE  Shifts(q, r, TwPenalty(problem, q) - tw_penalty(v), over_capacity(total) - over_capacity(c_total(v)))
<1>1. PICK a \in Nat, b \in Nat, c \in Nat, g \in Nat :
        /\ a = TwPenalty(problem, q) /\ b = CPenalty(problem, q)
        /\ c = TwPenalty(problem, r) /\ g = CPenalty(problem, r)
  <2>1. RouteOf(problem, r)
    BY DEF Placing
  <2> QED
    BY <2>1, PenaltyTypes
<1>2. tw_penalty(v) = TwPenalty(problem, r) /\ over_capacity(c_total(v)) = CPenalty(problem, r)
  BY DEF Placing
<1>3. over_capacity(total) = CPenalty(problem, q)
  BY DEF over_capacity, CPenalty
<1> QED
  BY <1>1, <1>2, <1>3 DEF Shifts

\* With a customer served between two objects (tw_penalty_get_insert_penalty_inline).
LEMMA BetweenHas ==
  ASSUME NEW b, NEW w, NEW f, NEW r, NEW i, NEW t, NEW j, NEW q,
         Has(b, r, i), Has(f, t, j), id(w) = w, BetweenExact(problem, q, r, i, w, t, j)
  PROVE  /\ Between(b, w, f) = TwPenalty(problem, q)
         /\ PrefixDemand(problem, q)[depot_tail(q)] = data[b].demand_pf + demand(w) + data[f].demand_sf
BY DEF Has, BetweenExact, Between, leg, e, l, demand

\* INSERT.
LEMMA InsertShifts ==
  ASSUME NEW v, NEW r, NEW n, NEW i, Placing(v, r, n, i), i # 0, NEW w \in Customer, OpenWindows(problem)
  PROVE  Shifts(InsertBefore(r, i, w), r, tw_insert_delta(v, w), c_change(v, demand(w)))
<1>1. /\ RouteOf(problem, r) /\ r \in Seq(Customer) /\ i \in 1 .. Len(r) + 1 /\ i - 1 \in 0 .. Len(r)
      /\ i - 1 + 1 = i
  <2>1. RouteOf(problem, r) /\ n \in Nat /\ n = Len(r) + 1 /\ i \in 0 .. n
    BY DEF Placing
  <2>2. i \in 1 .. n /\ i - 1 \in 0 .. n - 1 /\ i - 1 + 1 = i
    BY <2>1
  <2> QED
    BY <2>1, <2>2 DEF RouteOf, Customer
<1>2. PICK q : q = InsertBefore(r, i, w)
  OBVIOUS
<1>3. RouteOf(problem, q)
  <2>1. q \in Seq(Customer)
    BY <1>1, <1>2, InsertBeforeElements
  <2> QED
    BY <1>1, <2>1 DEF RouteOf, Customer
<1>4. BetweenExact(problem, q, r, i - 1, w, r, i)
  <2>1. JoinedBy(q, r, i - 1, w, r, i)
    BY <1>1, <1>2, InsertJoins
  <2> QED
    BY <1>1, <1>3, <2>1, JoinedByExact
<1>5. PICK b : b = route_prev(v) /\ Has(b, r, i - 1) /\ Has(v, r, i)
  BY DEF Placing
<1>6. /\ Between(b, w, v) = TwPenalty(problem, q)
      /\ PrefixDemand(problem, q)[depot_tail(q)] = data[b].demand_pf + demand(w) + data[v].demand_sf
  <2>1. id(w) = w
    BY DEF id
  <2> QED
    BY <1>4, <1>5, <2>1, BetweenHas
<1>7. PrefixDemand(problem, q)[depot_tail(q)] = c_total(v) + demand(w)
  <2>1. c_total(v) = data[b].demand_pf + data[v].demand_sf
    <3>1. PrefixDemand(problem, r)[i - 1] + SuffixDemand(problem, r)[i - 1 + 1] = PrefixDemand(problem, r)[depot_tail(r)]
      BY <1>1, DemandMeets
    <3> QED
      BY <1>1, <1>5, <3>1 DEF Placing, Has
  <2>2. PICK dp \in Int, ds \in Int, g \in Int : dp = data[b].demand_pf /\ ds = data[v].demand_sf /\ g = demand(w)
    <3>1. ValuesAt(problem, r, i - 1) /\ ValuesAt(problem, r, i)
      <4>1. i - 1 \in 0 .. Len(r) + 1 /\ i \in 0 .. Len(r) + 1
        BY <1>1
      <4> QED
        BY <1>1, <4>1, ValueTypes
    <3>2. demand(w) \in Int
      <4>1. w \in 0 .. problem.n /\ id(w) = w
        BY DEF Customer, id
      <4> QED
        BY <1>1, <4>1, NodeData DEF demand
    <3> QED
      BY <1>5, <3>1, <3>2 DEF Has, ValuesAt
  <2> QED
    BY <1>6, <2>1, <2>2
<1>8. Shifts(q, r, TwPenalty(problem, q) - tw_penalty(v),
             over_capacity(c_total(v) + demand(w)) - over_capacity(c_total(v)))
  BY <1>3, <1>7, ShiftsBy
<1> QED
  BY <1>2, <1>5, <1>6, <1>8 DEF tw_insert_delta, c_change

\* EJECT.
LEMMA EjectShifts ==
  ASSUME NEW v \in Customer, NEW r, NEW n, NEW i, Placing(v, r, n, i), OpenWindows(problem)
  PROVE  Shifts(RemoveIndex(r, i), r, tw_eject_delta(v), c_change(v, -demand(v)))
<1>1. /\ RouteOf(problem, r) /\ r \in Seq(Customer) /\ i \in 1 .. Len(r)
      /\ i - 1 \in 0 .. Len(r) + 1 /\ i \in 1 .. Len(r) + 1 /\ i \in 0 .. Len(r) /\ i + 1 \in 0 .. Len(r) + 1
      /\ i # 0 /\ i # n
  <2>1. RouteOf(problem, r) /\ n \in Nat /\ n = Len(r) + 1 /\ i \in 1 .. n - 1
    BY DEF Placing
  <2>2. /\ Len(r) = n - 1 /\ i \in 1 .. n /\ i \in 0 .. n - 1 /\ i - 1 \in 0 .. n /\ i + 1 \in 0 .. n
        /\ i # 0 /\ i # n
    <3>1. Len(r) \in Nat
      BY <2>1, NodeData
    <3> QED
      BY <2>1, <3>1
  <2> QED
    BY <2>1, <2>2 DEF RouteOf, Customer
<1>2. PICK q : q = RemoveIndex(r, i)
  OBVIOUS
<1>3. RouteOf(problem, q)
  <2>1. q \in Seq(Customer)
    BY <1>1, <1>2, RemoveIndexElements
  <2> QED
    BY <1>1, <2>1 DEF RouteOf, Customer
<1>4. JoinExact(problem, q, r, i - 1, r, i + 1)
  <2>1. Joined(q, r, i - 1, r, i + 1)
    BY <1>1, <1>2, RemoveJoins
  <2> QED
    BY <1>1, <1>3, <2>1, JoinedExact
<1>5. PICK b, f : b = route_prev(v) /\ Has(b, r, i - 1) /\ Has(v, r, i) /\ f = route_next(v) /\ Has(f, r, i + 1)
  BY <1>1 DEF Placing
<1>6. PICK dp \in Int, ds \in Int, g \in Int, total \in Int :
        /\ dp = data[b].demand_pf /\ ds = data[f].demand_sf /\ g = demand(v) /\ total = c_total(v)
        /\ total = (g + dp) + ds
  <2>1. ValuesAt(problem, r, i - 1) /\ ValuesAt(problem, r, i) /\ ValuesAt(problem, r, i + 1)
    BY <1>1, ValueTypes
  <2>2. demand(v) \in Int
    <3>1. id(v) \in 0 .. problem.n
      BY <1>5, <2>1 DEF Has, ValuesAt
    <3> QED
      BY <1>1, <3>1, NodeData DEF demand
  <2>3. PrefixDemand(problem, r)[i] + SuffixDemand(problem, r)[i + 1] = c_total(v)
    BY <1>1, DemandMeets DEF Placing
  <2>4. PrefixDemand(problem, r)[i] = demand(v) + PrefixDemand(problem, r)[i - 1]
    <3>1. PrefixDemand(problem, r)[i] = problem.demand[Id(r, i)] + PrefixDemand(problem, r)[i - 1]
      BY <1>1, PrefixDemandSteps
    <3> QED
      BY <1>5, <3>1 DEF Has, demand
  <2>5. data[b].demand_pf \in Int /\ data[f].demand_sf \in Int
    BY <1>5, <2>1 DEF Has, ValuesAt
  <2>6. c_total(v) = (demand(v) + data[b].demand_pf) + data[f].demand_sf
    BY <1>5, <2>3, <2>4 DEF Has
  <2> QED
    BY <2>2, <2>5, <2>6
<1>7. PrefixDemand(problem, q)[depot_tail(q)] = c_total(v) + -demand(v)
  <2>1. PrefixDemand(problem, q)[depot_tail(q)] = dp + ds
    BY <1>4, <1>5, <1>6 DEF JoinExact, Has
  <2>2. dp + ds = total + -g
    BY <1>6
  <2> QED
    BY <1>6, <2>1, <2>2
<1>8. Shifts(q, r, TwPenalty(problem, q) - tw_penalty(v),
             over_capacity(c_total(v) + -demand(v)) - over_capacity(c_total(v)))
  BY <1>3, <1>7, ShiftsBy
<1>9. TwPenalty(problem, q) - tw_penalty(v) = tw_eject_delta(v)
  <2>1. PICK pf \in Int, sf \in Int, u \in Int, h \in Int, t \in Int :
          /\ pf = data[b].tw_pf /\ sf = data[f].tw_sf /\ t = tw_penalty(v)
          /\ u = MAX(0, (data[b].a + leg(b, f)) - l(f))
          /\ h = MAX(0, Clip(problem, id(f), data[b].a + leg(b, f)) - data[f].z)
          /\ TwPenalty(problem, q) = ((pf + sf) + u) + h
    <3>1. ValuesAt(problem, r, i - 1) /\ ValuesAt(problem, r, i + 1)
      BY <1>1, ValueTypes
    <3>2. /\ id(b) \in 0 .. problem.n /\ id(f) \in 0 .. problem.n
          /\ data[b].a \in Int /\ data[b].tw_pf \in Int /\ data[f].z \in Int /\ data[f].tw_sf \in Int
      BY <1>5, <3>1 DEF Has, ValuesAt
    <3>3. leg(b, f) \in Int /\ l(f) \in Int
      BY <1>1, <3>2, NodeData DEF leg, l
    <3>4. data[b].a + leg(b, f) \in Int
      BY <3>2, <3>3
    <3>5. Clip(problem, id(f), data[b].a + leg(b, f)) \in Int
      BY <1>1, <3>2, <3>4, NodeData
    <3>6. /\ MAX(0, (data[b].a + leg(b, f)) - l(f)) \in Int
          /\ MAX(0, Clip(problem, id(f), data[b].a + leg(b, f)) - data[f].z) \in Int
      BY <3>2, <3>3, <3>4, <3>5 DEF MAX
    <3>7. tw_penalty(v) \in Int
      <4>1. tw_penalty(v) \in Nat
        BY <1>1, PenaltyTypes DEF Placing
      <4> QED
        BY <4>1
    <3>8. TwPenalty(problem, q) = ((data[b].tw_pf + data[f].tw_sf) + MAX(0, (data[b].a + leg(b, f)) - l(f)))
             + MAX(0, Clip(problem, id(f), data[b].a + leg(b, f)) - data[f].z)
      BY <1>4, <1>5 DEF JoinExact, Has, leg, l
    <3> QED
      BY <3>2, <3>6, <3>7, <3>8
  <2>2. tw_eject_delta(v) = pf + sf + u + h - t
    BY <1>5, <2>1 DEF tw_eject_delta
  <2>3. ((pf + sf) + u) + h - t = pf + sf + u + h - t
    OBVIOUS
  <2> QED
    BY <2>1, <2>2, <2>3
<1> QED
  BY <1>2, <1>8, <1>9 DEF c_change

\* EXCHANGE, the one of the two routes.
LEMMA ReplaceShifts ==
  ASSUME NEW v \in Customer, NEW r, NEW n, NEW i, Placing(v, r, n, i), NEW w \in Customer, OpenWindows(problem)
  PROVE  Shifts([r EXCEPT ![i] = w], r, tw_replace_delta(v, w), c_change(v, demand(w) - demand(v)))
<1>1. /\ RouteOf(problem, r) /\ r \in Seq(Customer) /\ i \in 1 .. Len(r)
      /\ i - 1 \in 0 .. Len(r) + 1 /\ i \in 1 .. Len(r) + 1 /\ i \in 0 .. Len(r) /\ i + 1 \in 0 .. Len(r) + 1
      /\ i # 0 /\ i # n
  <2>1. RouteOf(problem, r) /\ n \in Nat /\ n = Len(r) + 1 /\ i \in 1 .. n - 1
    BY DEF Placing
  <2>2. /\ Len(r) = n - 1 /\ i \in 1 .. n /\ i \in 0 .. n - 1 /\ i - 1 \in 0 .. n /\ i + 1 \in 0 .. n
        /\ i # 0 /\ i # n
    <3>1. Len(r) \in Nat
      BY <2>1, NodeData
    <3> QED
      BY <2>1, <3>1
  <2> QED
    BY <2>1, <2>2 DEF RouteOf, Customer
<1>2. PICK q : q = [r EXCEPT ![i] = w]
  OBVIOUS
<1>3. RouteOf(problem, q)
  <2>1. q \in Seq(Customer)
    BY <1>1, <1>2
  <2> QED
    BY <1>1, <2>1 DEF RouteOf, Customer
<1>4. BetweenExact(problem, q, r, i - 1, w, r, i + 1)
  <2>1. JoinedBy(q, r, i - 1, w, r, i + 1)
    BY <1>1, <1>2, ReplaceJoins
  <2> QED
    BY <1>1, <1>3, <2>1, JoinedByExact
<1>5. PICK b, f : b = route_prev(v) /\ Has(b, r, i - 1) /\ Has(v, r, i) /\ f = route_next(v) /\ Has(f, r, i + 1)
  BY <1>1 DEF Placing
<1>6. /\ Between(b, w, f) = TwPenalty(problem, q)
      /\ PrefixDemand(problem, q)[depot_tail(q)] = data[b].demand_pf + demand(w) + data[f].demand_sf
  <2>1. id(w) = w
    BY DEF id
  <2> QED
    BY <1>4, <1>5, <2>1, BetweenHas
<1>7. PICK dp \in Int, ds \in Int, g \in Int, h \in Int, total \in Int :
        /\ dp = data[b].demand_pf /\ ds = data[f].demand_sf /\ g = demand(v) /\ h = demand(w)
        /\ total = c_total(v) /\ total = (g + dp) + ds
  <2>1. ValuesAt(problem, r, i - 1) /\ ValuesAt(problem, r, i) /\ ValuesAt(problem, r, i + 1)
    BY <1>1, ValueTypes
  <2>2. demand(v) \in Int /\ demand(w) \in Int
    <3>1. id(v) \in 0 .. problem.n /\ id(w) \in 0 .. problem.n
      BY <1>5, <2>1 DEF Has, ValuesAt, Customer, id
    <3> QED
      BY <1>1, <3>1, NodeData DEF demand
  <2>3. PrefixDemand(problem, r)[i] + SuffixDemand(problem, r)[i + 1] = c_total(v)
    BY <1>1, DemandMeets DEF Placing
  <2>4. PrefixDemand(problem, r)[i] = demand(v) + PrefixDemand(problem, r)[i - 1]
    <3>1. PrefixDemand(problem, r)[i] = problem.demand[Id(r, i)] + PrefixDemand(problem, r)[i - 1]
      BY <1>1, PrefixDemandSteps
    <3> QED
      BY <1>5, <3>1 DEF Has, demand
  <2>5. data[b].demand_pf \in Int /\ data[f].demand_sf \in Int
    BY <1>5, <2>1 DEF Has, ValuesAt
  <2>6. c_total(v) = (demand(v) + data[b].demand_pf) + data[f].demand_sf
    BY <1>5, <2>3, <2>4 DEF Has
  <2> QED
    BY <2>2, <2>5, <2>6
<1>8. PrefixDemand(problem, q)[depot_tail(q)] = c_total(v) + (demand(w) - demand(v))
  BY <1>6, <1>7
<1>9. Shifts(q, r, TwPenalty(problem, q) - tw_penalty(v),
             over_capacity(c_total(v) + (demand(w) - demand(v))) - over_capacity(c_total(v)))
  BY <1>3, <1>8, ShiftsBy
<1> QED
  BY <1>2, <1>5, <1>6, <1>9 DEF tw_replace_delta, c_change

\* TWO_OPT, the one of the two routes (tw_penalty_get_one_opt_penalty).
LEMMA SpliceShifts ==
  ASSUME NEW v, NEW r, NEW n, NEW i, Placing(v, r, n, i), i # n,
         NEW w, NEW t, NEW m, NEW j, Placing(w, t, m, j), j # m, OpenWindows(problem)
  PROVE  Shifts(Splice(r, i, t, j), r, tw_one_opt_delta(v, w), c_one_opt_delta(v, w))
<1>1. /\ RouteOf(problem, r) /\ r \in Seq(Customer) /\ i \in 0 .. Len(r)
      /\ RouteOf(problem, t) /\ t \in Seq(Customer) /\ j \in 0 .. Len(t)
  <2>1. /\ RouteOf(problem, r) /\ n \in Nat /\ n = Len(r) + 1 /\ i \in 0 .. n
        /\ RouteOf(problem, t) /\ m \in Nat /\ m = Len(t) + 1 /\ j \in 0 .. m
    BY DEF Placing
  <2>2. Len(r) \in Nat /\ Len(t) \in Nat
    BY <2>1, NodeData
  <2> QED
    BY <2>1, <2>2 DEF RouteOf, Customer
<1>2. PICK q : q = Splice(r, i, t, j)
  OBVIOUS
<1>3. RouteOf(problem, q)
  <2>1. q \in Seq(Customer)
    BY <1>1, <1>2, SpliceElements
  <2> QED
    BY <1>1, <2>1 DEF RouteOf, Customer
<1>4. JoinExact(problem, q, r, i, t, j + 1)
  <2>1. Joined(q, r, i, t, j + 1)
    BY <1>1, <1>2, SpliceJoins
  <2> QED
    BY <1>1, <1>3, <2>1, JoinedExact
<1>5. PICK f : f = route_next(w) /\ Has(f, t, j + 1) /\ Has(v, r, i)
  BY DEF Placing
<1>6. /\ TwPenalty(problem, q) = (data[v].tw_pf + data[f].tw_sf) + MAX(0, (data[v].a + leg(v, f)) - data[f].z)
      /\ PrefixDemand(problem, q)[depot_tail(q)] = data[v].demand_pf + data[f].demand_sf
  BY <1>4, <1>5 DEF JoinExact, Has, leg
<1>7. Shifts(q, r, TwPenalty(problem, q) - tw_penalty(v),
             over_capacity(data[v].demand_pf + data[f].demand_sf) - over_capacity(c_total(v)))
  BY <1>3, <1>6, ShiftsBy
<1>8. TwPenalty(problem, q) - tw_penalty(v) = tw_one_opt_delta(v, w)
  <2>1. PICK y \in Int, z \in Int, h \in Int, k \in Int, o \in Int :
          /\ y = data[v].a /\ z = data[f].z /\ h = leg(v, f)
          /\ k = data[v].tw_pf + data[f].tw_sf /\ o = tw_penalty(v)
    <3>1. i \in 0 .. Len(r) + 1 /\ j + 1 \in 0 .. Len(t) + 1
      <4>1. Len(r) \in Nat /\ Len(t) \in Nat
        BY <1>1, NodeData
      <4> QED
        BY <1>1, <4>1
    <3>2. ValuesAt(problem, r, i) /\ ValuesAt(problem, t, j + 1)
      BY <1>1, <3>1, ValueTypes
    <3>3. /\ id(v) \in 0 .. problem.n /\ id(f) \in 0 .. problem.n /\ data[v].a \in Int /\ data[f].z \in Int
          /\ data[v].tw_pf \in Int /\ data[f].tw_sf \in Int
      BY <1>5, <3>2 DEF Has, ValuesAt
    <3>4. leg(v, f) \in Int
      BY <1>1, <3>3, NodeData DEF leg
    <3>5. tw_penalty(v) \in Int
      <4>1. tw_penalty(v) \in Nat
        BY <1>1, PenaltyTypes DEF Placing
      <4> QED
        BY <4>1
    <3>6. data[v].tw_pf + data[f].tw_sf \in Int
      BY <3>3
    <3> QED
      BY <3>3, <3>4, <3>5, <3>6
  <2>2. PICK u \in Int : u = MAX(0, (y + h) - z)
    <3>1. MAX(0, (y + h) - z) \in Int
      BY DEF MAX
    <3> QED
      BY <3>1
  <2>3. MAX(0, y + h - z) = u
    <3>1. y + h - z = (y + h) - z
      OBVIOUS
    <3> QED
      BY <2>2, <3>1
  <2>4. tw_one_opt_delta(v, w) = k + (u - o)
    BY <1>5, <2>1, <2>3 DEF tw_one_opt_delta
  <2>5. TwPenalty(problem, q) - tw_penalty(v) = (k + u) - o
    BY <1>6, <2>1, <2>2
  <2>6. (k + u) - o = k + (u - o)
    OBVIOUS
  <2> QED
    BY <2>4, <2>5, <2>6
<1> QED
  BY <1>2, <1>5, <1>7, <1>8 DEF c_one_opt_delta

\* What changes one route does to the penalties.
LEMMA ChangeOfOne ==
  ASSUME NEW after, NEW x, NEW dt, NEW dc, Shifts(after[x], Ids[x], dt, dc)
  PROVE  Change(after, x, x) = <<dt, dc>>
<1>1. Change(after, x, x) = <<TwPenalty(problem, after[x]) - TwPenalty(problem, Ids[x]) + 0,
                              CPenalty(problem, after[x]) - CPenalty(problem, Ids[x]) + 0>>
  BY DEF Change
<1>2. dt + 0 = dt /\ dc + 0 = dc
  BY DEF Shifts
<1> QED
  BY <1>1, <1>2 DEF Shifts

\* The modification of two routes, one of them at a time.
RoutesOf(g) == g = [z \in Route |-> g[z]]

\* TWO_OPT of two routes splices each with the other.
LEMMA TwoOptOfTwo ==
  ASSUME NEW g, NEW x \in Route, NEW y \in Route, x # y, NEW i, NEW j, RoutesOf(g)
  PROVE  /\ TwoOpt(g, <<x, i>>, <<y, j>>)[x] = Splice(g[x], i, g[y], j)
         /\ TwoOpt(g, <<x, i>>, <<y, j>>)[y] = Splice(g[y], j, g[x], i)
<1>1. TwoOpt(g, <<x, i>>, <<y, j>>) =
        [g EXCEPT ![x] = Splice(g[x], i, g[y], j), ![y] = Splice(g[y], j, g[x], i)]
  BY DEF TwoOpt
<1> QED
  BY <1>1 DEF RoutesOf

\* EXCHANGE between two routes replaces one customer in each.
LEMMA ExchangeOfTwo ==
  ASSUME NEW g, NEW x \in Route, NEW y \in Route, x # y, NEW i, NEW j, RoutesOf(g)
  PROVE  /\ Exchange(g, <<x, i>>, <<y, j>>)[x] = [g[x] EXCEPT ![i] = g[y][j]]
         /\ Exchange(g, <<x, i>>, <<y, j>>)[y] = [g[y] EXCEPT ![j] = g[x][i]]
<1>1. Exchange(g, <<x, i>>, <<y, j>>) = [g EXCEPT ![x][i] = g[y][j], ![y][j] = g[x][i]]
  BY DEF Exchange
<1>2. PICK h : h = [g EXCEPT ![x][i] = g[y][j]]
  OBVIOUS
<1>3. h[x] = [g[x] EXCEPT ![i] = g[y][j]] /\ h[y] = g[y] /\ RoutesOf(h)
  BY <1>2 DEF RoutesOf
<1>4. PICK f : f = [h EXCEPT ![y][j] = g[x][i]]
  OBVIOUS
<1>5. f[x] = h[x] /\ f[y] = [h[y] EXCEPT ![j] = g[x][i]]
  BY <1>3, <1>4 DEF RoutesOf
<1>6. Exchange(g, <<x, i>>, <<y, j>>) = f
  BY <1>1, <1>2, <1>4
<1> QED
  BY <1>3, <1>5, <1>6

\* OUT_RELOCATE between two routes inserts into the one and removes from the other.
LEMMA RelocateOfTwo ==
  ASSUME NEW g, NEW x \in Route, NEW y \in Route, x # y, NEW i, NEW j, RoutesOf(g)
  PROVE  /\ OutRelocate(g, <<x, i>>, <<y, j>>)[x] = InsertBefore(g[x], i, g[y][j])
         /\ OutRelocate(g, <<x, i>>, <<y, j>>)[y] = RemoveIndex(g[y], j)
<1>1. OutRelocate(g, <<x, i>>, <<y, j>>) = Insert(Eject(g, <<y, j>>), <<x, i>>, g[y][j])
  BY DEF OutRelocate
<1>2. PICK h : h = Eject(g, <<y, j>>)
  OBVIOUS
<1>3. h = [z \in Route |-> h[z]] /\ h[x] = g[x] /\ h[y] = RemoveIndex(g[y], j)
  BY <1>2 DEF Eject, RoutesOf
<1>4. /\ Insert(h, <<x, i>>, g[y][j])[x] = InsertBefore(h[x], i, g[y][j])
      /\ Insert(h, <<x, i>>, g[y][j])[y] = h[y]
  BY <1>3 DEF Insert
<1> QED
  BY <1>1, <1>2, <1>3, <1>4

\* A move between two routes.
LEMMA MoveDelta ==
  ASSUME Inv, OpenWindows(problem), NEW v \in Placed, NEW w \in Placed, data[v].route # data[w].route,
         NEW type \in Moves, modification_applicable(Ids, type, Node(v), Node(w))
  PROVE  modification_delta(type, v, w) =
           Change(modification_apply(Ids, type, Node(v), Node(w)), data[v].route, data[w].route)
<1>1. PICK x, n, i : IsAt(v, x, n, i)
  BY PlacedAt
<1>2. PICK y, m, j : IsAt(w, y, m, j)
  BY PlacedAt
<1>3. PICK g, r, t : g = Ids /\ r = g[x] /\ t = g[y]
  OBVIOUS
<1>4. Placing(v, r, n, i) /\ Placing(w, t, m, j)
  BY <1>1, <1>2, <1>3, ObjectPlacing
<1>5. /\ x \in Route /\ x = data[v].route /\ Node(v) = <<x, i>>
      /\ (v \in Customer <=> i \in 1 .. n - 1) /\ n \in Nat /\ i \in 0 .. n
      /\ IsHead(<<x, i>>) <=> i = 0
      /\ IsTail(Ids, <<x, i>>) <=> i = n
  <2>1. /\ Node(v) = <<x, i>>
        /\ IsHead(<<x, i>>) <=> i = 0
        /\ IsTail(Ids, <<x, i>>) <=> i = n
    BY <1>1, NodeAt
  <2>2. /\ x \in Route /\ x = data[v].route
        /\ (v \in Customer <=> i \in 1 .. n - 1) /\ n \in Nat /\ i \in 0 .. n
    BY <1>1 DEF IsAt
  <2> QED
    BY <2>1, <2>2
<1>6. /\ y \in Route /\ y = data[w].route /\ Node(w) = <<y, j>>
      /\ (w \in Customer <=> j \in 1 .. m - 1) /\ m \in Nat /\ j \in 0 .. m
      /\ IsHead(<<y, j>>) <=> j = 0
      /\ IsTail(Ids, <<y, j>>) <=> j = m
  <2>1. /\ Node(w) = <<y, j>>
        /\ IsHead(<<y, j>>) <=> j = 0
        /\ IsTail(Ids, <<y, j>>) <=> j = m
    BY <1>2, NodeAt
  <2>2. /\ y \in Route /\ y = data[w].route
        /\ (w \in Customer <=> j \in 1 .. m - 1) /\ m \in Nat /\ j \in 0 .. m
    BY <1>2 DEF IsAt
  <2> QED
    BY <2>1, <2>2
<1>7. x # y /\ RoutesOf(g) /\ modification_applicable(Ids, type, <<x, i>>, <<y, j>>)
  BY <1>3, <1>5, <1>6 DEF Ids, RoutesOf
<1>8. CASE type = "TWO_OPT"
  <2>1. i # n /\ j # m
    BY <1>5, <1>6, <1>7, <1>8 DEF modification_applicable
  <2>2. PICK after : after = TwoOpt(g, <<x, i>>, <<y, j>>)
    OBVIOUS
  <2>3. after[x] = Splice(r, i, t, j) /\ after[y] = Splice(t, j, r, i)
    <3>1. x \in Route /\ y \in Route
      BY <1>5, <1>6
    <3>2. /\ TwoOpt(g, <<x, i>>, <<y, j>>)[x] = Splice(g[x], i, g[y], j)
          /\ TwoOpt(g, <<x, i>>, <<y, j>>)[y] = Splice(g[y], j, g[x], i)
      BY <1>7, <3>1, TwoOptOfTwo
    <3> QED
      BY <1>3, <2>2, <3>2
  <2>4. /\ Shifts(after[x], r, tw_one_opt_delta(v, w), c_one_opt_delta(v, w))
        /\ Shifts(after[y], t, tw_one_opt_delta(w, v), c_one_opt_delta(w, v))
    <3>1. Shifts(Splice(r, i, t, j), r, tw_one_opt_delta(v, w), c_one_opt_delta(v, w))
      BY <1>4, <2>1, SpliceShifts
    <3>2. Shifts(Splice(t, j, r, i), t, tw_one_opt_delta(w, v), c_one_opt_delta(w, v))
      BY <1>4, <2>1, SpliceShifts
    <3> QED
      BY <2>3, <3>1, <3>2
  <2>5. Change(after, x, y) = <<tw_one_opt_delta(v, w) + tw_one_opt_delta(w, v),
                                c_one_opt_delta(v, w) + c_one_opt_delta(w, v)>>
    <3>1. x # y /\ r = Ids[x] /\ t = Ids[y]
      BY <1>3, <1>7
    <3>2. PICK dt, dc, dt2, dc2 : /\ dt = tw_one_opt_delta(v, w) /\ dc = c_one_opt_delta(v, w)
                                  /\ dt2 = tw_one_opt_delta(w, v) /\ dc2 = c_one_opt_delta(w, v)
      OBVIOUS
    <3>3. Shifts(after[x], Ids[x], dt, dc) /\ Shifts(after[y], Ids[y], dt2, dc2)
      BY <2>4, <3>1, <3>2
    <3>4. Change(after, x, y) = <<dt + dt2, dc + dc2>>
      BY <3>1, <3>3 DEF Change, Shifts
    <3> QED
      BY <3>2, <3>4
  <2> QED
    BY <1>3, <1>5, <1>6, <1>8, <2>2, <2>5 DEF modification_delta, modification_apply
<1>9. CASE type = "OUT_RELOCATE"
  <2>1. i # 0 /\ j # 0 /\ j # m
    BY <1>5, <1>6, <1>7, <1>9 DEF modification_applicable, IsDepot
  <2>2. w \in Customer /\ t[j] = w
    BY <1>4, <1>6, <2>1 DEF Placing
  <2>3. PICK after : after = OutRelocate(g, <<x, i>>, <<y, j>>)
    OBVIOUS
  <2>4. after[x] = InsertBefore(r, i, w) /\ after[y] = RemoveIndex(t, j)
    <3>1. x \in Route /\ y \in Route
      BY <1>5, <1>6
    <3>2. /\ OutRelocate(g, <<x, i>>, <<y, j>>)[x] = InsertBefore(g[x], i, g[y][j])
          /\ OutRelocate(g, <<x, i>>, <<y, j>>)[y] = RemoveIndex(g[y], j)
      BY <1>7, <3>1, RelocateOfTwo
    <3> QED
      BY <1>3, <2>2, <2>3, <3>2
  <2>5. /\ Shifts(after[x], r, tw_insert_delta(v, w), c_change(v, demand(w)))
        /\ Shifts(after[y], t, tw_eject_delta(w), c_change(w, -demand(w)))
    <3>1. Shifts(after[x], r, tw_insert_delta(v, w), c_change(v, demand(w)))
      BY <1>4, <2>1, <2>2, <2>4, InsertShifts
    <3>2. w \in Customer /\ Placing(w, t, m, j) /\ after[y] = RemoveIndex(t, j)
      BY <1>4, <2>2, <2>4
    <3>3. Shifts(after[y], t, tw_eject_delta(w), c_change(w, -demand(w)))
      BY <3>2, EjectShifts
    <3> QED
      BY <3>1, <3>3
  <2>6. Change(after, x, y) = <<tw_eject_delta(w) + tw_insert_delta(v, w),
                                c_change(w, -demand(w)) + c_change(v, demand(w))>>
    <3>1. x # y /\ r = Ids[x] /\ t = Ids[y]
      BY <1>3, <1>7
    <3>2. PICK dt, dc, dt2, dc2 : /\ dt = tw_insert_delta(v, w) /\ dc = c_change(v, demand(w))
                                  /\ dt2 = tw_eject_delta(w) /\ dc2 = c_change(w, -demand(w))
      OBVIOUS
    <3>3. Shifts(after[x], Ids[x], dt, dc) /\ Shifts(after[y], Ids[y], dt2, dc2)
      BY <2>5, <3>1, <3>2
    <3>4. Change(after, x, y) = <<dt + dt2, dc + dc2>>
      BY <3>1, <3>3 DEF Change, Shifts
    <3>5. dt + dt2 = dt2 + dt /\ dc + dc2 = dc2 + dc
      BY <3>3 DEF Shifts
    <3> QED
      BY <3>2, <3>4, <3>5
  <2> QED
    BY <1>3, <1>5, <1>6, <1>9, <2>3, <2>6 DEF modification_delta, modification_apply
<1>10. CASE type = "EXCHANGE"
  <2>1. i # 0 /\ i # n /\ j # 0 /\ j # m
    BY <1>5, <1>6, <1>7, <1>10 DEF modification_applicable, IsDepot
  <2>2. v \in Customer /\ r[i] = v /\ w \in Customer /\ t[j] = w
    BY <1>4, <1>5, <1>6, <2>1 DEF Placing
  <2>3. PICK after : after = Exchange(g, <<x, i>>, <<y, j>>)
    OBVIOUS
  <2>4. after[x] = [r EXCEPT ![i] = w] /\ after[y] = [t EXCEPT ![j] = v]
    <3>1. x \in Route /\ y \in Route
      BY <1>5, <1>6
    <3>2. /\ Exchange(g, <<x, i>>, <<y, j>>)[x] = [g[x] EXCEPT ![i] = g[y][j]]
          /\ Exchange(g, <<x, i>>, <<y, j>>)[y] = [g[y] EXCEPT ![j] = g[x][i]]
      BY <1>7, <3>1, ExchangeOfTwo
    <3> QED
      BY <1>3, <2>2, <2>3, <3>2
  <2>5. /\ Shifts(after[x], r, tw_replace_delta(v, w), c_change(v, demand(w) - demand(v)))
        /\ Shifts(after[y], t, tw_replace_delta(w, v), c_change(w, demand(v) - demand(w)))
    BY <1>4, <2>2, <2>4, ReplaceShifts
  <2>6. Change(after, x, y) = <<tw_replace_delta(v, w) + tw_replace_delta(w, v),
                                c_change(v, demand(w) - demand(v)) + c_change(w, demand(v) - demand(w))>>
    <3>1. x # y /\ r = Ids[x] /\ t = Ids[y]
      BY <1>3, <1>7
    <3>2. PICK dt, dc, dt2, dc2 : /\ dt = tw_replace_delta(v, w) /\ dc = c_change(v, demand(w) - demand(v))
                                  /\ dt2 = tw_replace_delta(w, v) /\ dc2 = c_change(w, demand(v) - demand(w))
      OBVIOUS
    <3>3. Shifts(after[x], Ids[x], dt, dc) /\ Shifts(after[y], Ids[y], dt2, dc2)
      BY <2>5, <3>1, <3>2
    <3>4. Change(after, x, y) = <<dt + dt2, dc + dc2>>
      BY <3>1, <3>3 DEF Change, Shifts
    <3> QED
      BY <3>2, <3>4
  <2> QED
    BY <1>3, <1>5, <1>6, <1>10, <2>3, <2>6 DEF modification_delta, modification_apply
<1> QED
  BY <1>8, <1>9, <1>10 DEF Moves

\* INSERT and EJECT.
LEMMA InsertDelta ==
  ASSUME Inv, OpenWindows(problem), NEW v \in Placed, NEW w \in Object \ Placed, CanInsert(v, w)
  PROVE  modification_delta("INSERT", v, w) =
           Change(Insert(Ids, Node(v), w), data[v].route, data[v].route)
<1>1. PICK x, n, i : IsAt(v, x, n, i)
  BY PlacedAt
<1>2. PICK g, r : g = Ids /\ r = g[x]
  OBVIOUS
<1>3. Placing(v, r, n, i)
  BY <1>1, <1>2, ObjectPlacing
<1>4. x \in Route /\ x = data[v].route /\ Node(v) = <<x, i>> /\ (i = 0 <=> v = HeadOf(x))
  <2>1. Node(v) = <<x, i>>
    BY <1>1, NodeAt
  <2> QED
    BY <1>1, <2>1 DEF IsAt
<1>5. w \in Customer /\ i # 0
  BY <1>4 DEF CanInsert
<1>6. Shifts(InsertBefore(r, i, w), r, tw_insert_delta(v, w), c_change(v, demand(w)))
  BY <1>3, <1>5, InsertShifts
<1>7. PICK after : after = Insert(g, <<x, i>>, w)
  OBVIOUS
<1>8. after[x] = InsertBefore(r, i, w)
  <2>1. g = [z \in Route |-> g[z]]
    BY <1>2 DEF Ids
  <2> QED
    BY <1>2, <1>4, <1>7, <2>1 DEF Insert
<1>9. Change(after, x, x) = <<tw_insert_delta(v, w), c_change(v, demand(w))>>
  BY <1>2, <1>6, <1>8, ChangeOfOne
<1> QED
  BY <1>2, <1>4, <1>7, <1>9 DEF modification_delta

\* EJECT: the delta is the change of the penalties.
LEMMA EjectDelta ==
  ASSUME Inv, OpenWindows(problem), NEW v \in Placed, v \in Customer
  PROVE  modification_delta("EJECT", v, v) =
           Change(Eject(Ids, Node(v)), data[v].route, data[v].route)
<1>1. PICK x, n, i : IsAt(v, x, n, i)
  BY PlacedAt
<1>2. PICK g, r : g = Ids /\ r = g[x]
  OBVIOUS
<1>3. Placing(v, r, n, i)
  BY <1>1, <1>2, ObjectPlacing
<1>4. x \in Route /\ x = data[v].route /\ Node(v) = <<x, i>>
  <2>1. Node(v) = <<x, i>>
    BY <1>1, NodeAt
  <2> QED
    BY <1>1, <2>1 DEF IsAt
<1>5. Shifts(RemoveIndex(r, i), r, tw_eject_delta(v), c_change(v, -demand(v)))
  BY <1>3, EjectShifts
<1>6. PICK after : after = Eject(g, <<x, i>>)
  OBVIOUS
<1>7. after[x] = RemoveIndex(r, i)
  <2>1. g = [z \in Route |-> g[z]]
    BY <1>2 DEF Ids
  <2> QED
    BY <1>2, <1>4, <1>6, <2>1 DEF Eject
<1>8. Change(after, x, x) = <<tw_eject_delta(v), c_change(v, -demand(v))>>
  BY <1>2, <1>5, <1>7, ChangeOfOne
<1> QED
  BY <1>2, <1>4, <1>6, <1>8 DEF modification_delta

\* Where every time window opens before it closes, the constant-time deltas are the changes of the
\* penalties of the routes they are about (modification_delta, penalty_inline.h).
THEOREM DeltasStayExact ==
  ASSUME \A p \in Problems : OpenWindows(p)
  PROVE  Spec => []DeltasExact
<1>1. Inv => DeltasExact
  <2> SUFFICES ASSUME Inv PROVE DeltasExact
    OBVIOUS
  <2>1. OpenWindows(problem)
    BY DEF Inv
  <2>2. ASSUME NEW v \in Placed, NEW w \in Placed, data[v].route # data[w].route,
               NEW type \in Moves, modification_applicable(Ids, type, Node(v), Node(w))
        PROVE  modification_delta(type, v, w) =
                 Change(modification_apply(Ids, type, Node(v), Node(w)), data[v].route, data[w].route)
    BY <2>1, <2>2, MoveDelta
  <2>3. ASSUME NEW v \in Placed, NEW w \in Object \ Placed, CanInsert(v, w)
        PROVE  modification_delta("INSERT", v, w) =
                 Change(Insert(Ids, Node(v), w), data[v].route, data[v].route)
    BY <2>1, <2>3, InsertDelta
  <2>4. ASSUME NEW v \in Placed \cap Customer
        PROVE  modification_delta("EJECT", v, v) =
                 Change(Eject(Ids, Node(v)), data[v].route, data[v].route)
    BY <2>1, <2>4, EjectDelta
  <2> QED
    BY <2>2, <2>3, <2>4 DEF DeltasExact
<1> QED
  BY <1>1, AlwaysExact, PTL

-----------------------------------------------------------------------------
(***************************************************************************)
(* The bound on an exchange within a route.                                *)
(***************************************************************************)
\* The lateness at d and at f on the way from c, left at a (upd_through_seg).
LateThrough(p, a, c, d, f) ==
  LET a_quote == a + Leg(p, c, d)
  IN  MAX(0, a_quote - p.l[d]) + MAX(0, (Clip(p, d, a_quote) + Leg(p, d, f)) - p.l[f])

\* Two steps along a route.
TwoSteps(p, q, k) ==
  LET a == Arrivals(p, q)[k]
  IN  /\ Arrivals(p, q)[k + 2] = ThroughSegment(p, a, Id(q, k), Id(q, k + 1), Id(q, k + 2))
      /\ PrefixLateness(p, q)[k + 2] =
           PrefixLateness(p, q)[k] + LateThrough(p, a, Id(q, k), Id(q, k + 1), Id(q, k + 2))
      /\ LateThrough(p, a, Id(q, k), Id(q, k + 1), Id(q, k + 2)) \in Int

\* Two steps along a route are what upd_through_seg computes.
LEMMA StepsThrough ==
  ASSUME NEW p, NEW q, RouteOf(p, q), NEW k \in Nat, k + 2 <= Len(q) + 1
  PROVE  TwoSteps(p, q, k)
<1>1. PICK n \in Nat : n = Len(q) + 1
  <2>1. Len(q) \in Nat
    BY NodeData
  <2>2. Len(q) + 1 \in Nat
    BY <2>1
  <2> QED
    BY <2>2
<1>2. PICK x \in 1 .. n, y \in 1 .. n : x = k + 1 /\ x - 1 = k /\ y = k + 2 /\ y - 1 = x
  BY <1>1
<1>3. PICK c, d, f \in 0 .. p.n : c = Id(q, k) /\ d = Id(q, x) /\ f = Id(q, y)
  <2>1. k \in 0 .. n /\ x \in 0 .. n /\ y \in 0 .. n
    BY <1>1, <1>2
  <2> QED
    BY <1>1, <2>1, RouteLegs
<1>4. PICK a \in Int, g \in Int : a = Arrivals(p, q)[k] /\ g = PrefixLateness(p, q)[k]
  <2>1. k \in 0 .. Len(q) + 1
    BY <1>1
  <2>2. ValuesAt(p, q, k)
    BY <2>1, ValueTypes
  <2> QED
    BY <2>2 DEF ValuesAt
<1>5. PICK s \in Int, t \in Int, lx \in Int, ly \in Int :
        s = Leg(p, c, d) /\ t = Leg(p, d, f) /\ lx = p.l[d] /\ ly = p.l[f]
  BY NodeData
<1>6. ArrivalQuote(p, q, x) = a + s
  BY <1>2, <1>3, <1>4, <1>5 DEF ArrivalQuote
<1>7. Arrivals(p, q)[x] = Clip(p, d, a + s) /\ PrefixLateness(p, q)[x] = g + MAX(0, (a + s) - lx)
  <2>1. Arrivals(p, q)[x] = Clip(p, Id(q, x), ArrivalQuote(p, q, x))
    BY <1>1, ArrivalsSteps DEF ArrivalQuote
  <2>2. PrefixLateness(p, q)[x] = PrefixLateness(p, q)[x - 1] + MAX(0, ArrivalQuote(p, q, x) - p.l[Id(q, x)])
    BY <1>1, PrefixLatenessSteps
  <2> QED
    BY <1>2, <1>3, <1>4, <1>5, <1>6, <2>1, <2>2
<1>8. PICK h \in Int : h = Clip(p, d, a + s)
  <2>1. a + s \in Int
    OBVIOUS
  <2>2. Clip(p, d, a + s) \in Int
    BY <2>1, NodeData
  <2> QED
    BY <2>2
<1>9. ArrivalQuote(p, q, y) = h + t
  BY <1>2, <1>3, <1>5, <1>7, <1>8 DEF ArrivalQuote
<1>10. /\ Arrivals(p, q)[y] = Clip(p, f, h + t)
       /\ PrefixLateness(p, q)[y] = (g + MAX(0, (a + s) - lx)) + MAX(0, (h + t) - ly)
  <2>1. Arrivals(p, q)[y] = Clip(p, Id(q, y), ArrivalQuote(p, q, y))
    BY <1>1, ArrivalsSteps DEF ArrivalQuote
  <2>2. PrefixLateness(p, q)[y] = PrefixLateness(p, q)[y - 1] + MAX(0, ArrivalQuote(p, q, y) - p.l[Id(q, y)])
    BY <1>1, PrefixLatenessSteps
  <2> QED
    BY <1>2, <1>3, <1>5, <1>7, <1>9, <2>1, <2>2
<1>11. PICK u \in Int, v \in Int : u = MAX(0, (a + s) - lx) /\ v = MAX(0, (h + t) - ly)
  <2>1. MAX(0, (a + s) - lx) \in Int /\ MAX(0, (h + t) - ly) \in Int
    BY DEF MAX
  <2> QED
    BY <2>1
<1>12. LateThrough(p, a, c, d, f) = u + v /\ ThroughSegment(p, a, c, d, f) = Clip(p, f, h + t)
  BY <1>5, <1>8, <1>11 DEF LateThrough, ThroughSegment
<1>13. PrefixLateness(p, q)[y] = g + (u + v) /\ u + v \in Int
  <2>1. (g + u) + v = g + (u + v) /\ u + v \in Int
    OBVIOUS
  <2> QED
    BY <1>10, <1>11, <2>1
<1> QED
  BY <1>2, <1>3, <1>4, <1>10, <1>12, <1>13 DEF TwoSteps

\* Lateness only grows along a route.
LEMMA LatenessGrows ==
  ASSUME NEW p, NEW r, RouteOf(p, r), NEW k \in 0 .. Len(r) + 1
  PROVE  PrefixLateness(p, r)[k] <= TwPenalty(p, r)
<1>1. PICK n \in Nat : n = Len(r) + 1
  <2>1. Len(r) \in Nat
    BY NodeData
  <2>2. Len(r) + 1 \in Nat
    BY <2>1
  <2> QED
    BY <2>2
<1>2. \A j \in 0 .. n : PrefixLateness(p, r)[j] \in Int
  <2>1. \A j \in 0 .. n : PrefixLateness(p, r)[j] \in Nat
    BY <1>1, PrefixLatenessSteps
  <2> QED
    BY <2>1
<1> DEFINE T == {j \in 0 .. n : PrefixLateness(p, r)[j] <= PrefixLateness(p, r)[n]}
<1>3. n \in T
  BY <1>2
<1>4. ASSUME NEW j \in 0 .. n - 1, j + 1 \in T PROVE j \in T
  <2>1. PICK i \in 1 .. n : i = j + 1 /\ i - 1 = j
    OBVIOUS
  <2>2. PICK t \in Int : t = MAX(0, ArrivalQuote(p, r, i) - p.l[Id(r, i)]) /\ t >= 0
    <3>1. ArrivalQuote(p, r, i) \in Int /\ p.l[Id(r, i)] \in Int
      BY <1>1, ArrivalQuotes
    <3>2. MAX(0, ArrivalQuote(p, r, i) - p.l[Id(r, i)]) \in Int /\ MAX(0, ArrivalQuote(p, r, i) - p.l[Id(r, i)]) >= 0
      BY <3>1 DEF MAX
    <3> QED
      BY <3>2
  <2>3. PrefixLateness(p, r)[i] = PrefixLateness(p, r)[i - 1] + t
    BY <1>1, <2>2, PrefixLatenessSteps
  <2>4. j \in 0 .. n /\ i \in 0 .. n /\ n \in 0 .. n
    OBVIOUS
  <2>5. PrefixLateness(p, r)[i] <= PrefixLateness(p, r)[n]
    BY <1>4, <2>1
  <2>6. PICK a \in Int, b \in Int, c \in Int :
          a = PrefixLateness(p, r)[j] /\ b = PrefixLateness(p, r)[i] /\ c = PrefixLateness(p, r)[n]
    BY <1>2, <2>4
  <2>7. a <= c
    BY <2>1, <2>2, <2>3, <2>5, <2>6
  <2> QED
    BY <2>4, <2>6, <2>7
<1>5. 0 .. n \subseteq T
  <2> HIDE DEF T
  <2> QED
    BY <1>3, <1>4, DownTo
<1>6. TwPenalty(p, r) = PrefixLateness(p, r)[n]
  BY <1>1 DEF TwPenalty, depot_tail
<1> QED
  BY <1>1, <1>5, <1>6

\* Two routes that are alike from the index x to y, and reach x at the same time, are late by the
\* same between.
SameStretch(p, q, r, x, y) ==
  /\ x \in Nat /\ y \in Nat /\ x <= y /\ y <= Len(q) + 1 /\ y <= Len(r) + 1
  /\ \A k \in x .. y : Id(q, k) = Id(r, k)
  /\ Arrivals(p, q)[x] = Arrivals(p, r)[x]

\* By induction along the stretch, arrivals stay the same and lateness grows by the same.
LEMMA StretchLateness ==
  ASSUME NEW p, NEW q, RouteOf(p, q), NEW r, RouteOf(p, r), NEW x, NEW y, SameStretch(p, q, r, x, y)
  PROVE  /\ Arrivals(p, q)[y] = Arrivals(p, r)[y]
         /\ PrefixLateness(p, q)[y] - PrefixLateness(p, q)[x] = PrefixLateness(p, r)[y] - PrefixLateness(p, r)[x]
<1>1. PICK m \in Nat : m = y - x /\ x \in Nat /\ x + m = y
  <2>1. y - x \in Nat /\ x + (y - x) = y /\ x \in Nat
    BY DEF SameStretch
  <2> QED
    BY <2>1
<1>2. \A h \in 0 .. m : x + h \in 0 .. Len(q) + 1 /\ x + h \in 0 .. Len(r) + 1
  <2>1. Len(q) \in Nat /\ Len(r) \in Nat
    BY NodeData
  <2>2. y <= Len(q) + 1 /\ y <= Len(r) + 1
    BY DEF SameStretch
  <2> QED
    BY <1>1, <2>1, <2>2
<1>3. \A h \in 0 .. m : PrefixLateness(p, q)[x + h] \in Int /\ PrefixLateness(p, r)[x + h] \in Int
  <2>1. ASSUME NEW h \in 0 .. m PROVE PrefixLateness(p, q)[x + h] \in Int /\ PrefixLateness(p, r)[x + h] \in Int
    <3>1. ValuesAt(p, q, x + h) /\ ValuesAt(p, r, x + h)
      BY <1>2, ValueTypes
    <3> QED
      BY <3>1 DEF ValuesAt
  <2> QED
    BY <2>1
<1> DEFINE T == {h \in 0 .. m :
                   /\ Arrivals(p, q)[x + h] = Arrivals(p, r)[x + h]
                   /\ PrefixLateness(p, q)[x + h] - PrefixLateness(p, q)[x] =
                        PrefixLateness(p, r)[x + h] - PrefixLateness(p, r)[x]}
<1>4. 0 \in T
  <2>1. 0 \in 0 .. m /\ x + 0 = x
    BY <1>1
  <2>2. Arrivals(p, q)[x] = Arrivals(p, r)[x]
    BY DEF SameStretch
  <2>3. PrefixLateness(p, q)[x] \in Int /\ PrefixLateness(p, r)[x] \in Int
    BY <1>3, <2>1
  <2>4. PrefixLateness(p, q)[x] - PrefixLateness(p, q)[x] = PrefixLateness(p, r)[x] - PrefixLateness(p, r)[x]
    BY <2>3
  <2> QED
    BY <2>1, <2>2, <2>4
<1>5. ASSUME NEW h \in 1 .. m, h - 1 \in T PROVE h \in T
  <2>1. PICK i \in 1 .. Len(q) + 1 : i = x + h /\ i - 1 = x + (h - 1) /\ i \in 1 .. Len(r) + 1
    <3>1. x + h \in 0 .. Len(q) + 1 /\ x + h \in 0 .. Len(r) + 1
      BY <1>2
    <3>2. x + h >= 1 /\ (x + h) - 1 = x + (h - 1)
      BY <1>1
    <3>3. Len(q) \in Nat /\ Len(r) \in Nat
      BY NodeData
    <3>4. x + h \in 1 .. Len(q) + 1 /\ x + h \in 1 .. Len(r) + 1
      BY <3>1, <3>2, <3>3
    <3> QED
      BY <3>2, <3>4
  <2>2. h \in 0 .. m /\ h - 1 \in 0 .. m
    OBVIOUS
  <2>3. Id(q, i) = Id(r, i) /\ Id(q, i - 1) = Id(r, i - 1)
    <3>1. i \in x .. y /\ i - 1 \in x .. y
      BY <1>1, <2>1
    <3> QED
      BY <3>1 DEF SameStretch
  <2>4. Arrivals(p, q)[i - 1] = Arrivals(p, r)[i - 1]
    BY <1>5, <2>1
  <2>5. ArrivalQuote(p, q, i) = ArrivalQuote(p, r, i)
    BY <2>3, <2>4 DEF ArrivalQuote
  <2>6. Arrivals(p, q)[i] = Arrivals(p, r)[i]
    <3>1. Arrivals(p, q)[i] = Clip(p, Id(q, i), ArrivalQuote(p, q, i))
      BY ArrivalsSteps DEF ArrivalQuote
    <3>2. Arrivals(p, r)[i] = Clip(p, Id(r, i), ArrivalQuote(p, r, i))
      BY <2>1, ArrivalsSteps DEF ArrivalQuote
    <3> QED
      BY <2>3, <2>5, <3>1, <3>2
  <2>7. PICK t \in Int : t = MAX(0, ArrivalQuote(p, q, i) - p.l[Id(q, i)])
    <3>1. ArrivalQuote(p, q, i) \in Int /\ p.l[Id(q, i)] \in Int
      BY ArrivalQuotes
    <3>2. MAX(0, ArrivalQuote(p, q, i) - p.l[Id(q, i)]) \in Int
      BY <3>1 DEF MAX
    <3> QED
      BY <3>2
  <2>8. PrefixLateness(p, q)[i] = PrefixLateness(p, q)[i - 1] + t
    BY <2>7, PrefixLatenessSteps
  <2>9. PrefixLateness(p, r)[i] = PrefixLateness(p, r)[i - 1] + t
    <3>1. PrefixLateness(p, r)[i] = PrefixLateness(p, r)[i - 1] + MAX(0, ArrivalQuote(p, r, i) - p.l[Id(r, i)])
      BY <2>1, PrefixLatenessSteps
    <3> QED
      BY <2>3, <2>5, <2>7, <3>1
  <2>10. PICK a \in Int, b \in Int, c \in Int, g \in Int :
           /\ a = PrefixLateness(p, q)[i - 1] /\ b = PrefixLateness(p, r)[i - 1]
           /\ c = PrefixLateness(p, q)[x] /\ g = PrefixLateness(p, r)[x]
    <3>1. PrefixLateness(p, q)[i - 1] \in Int /\ PrefixLateness(p, r)[i - 1] \in Int
      BY <1>3, <2>1, <2>2
    <3>2. 0 \in 0 .. m /\ x + 0 = x
      BY <1>1
    <3>3. PrefixLateness(p, q)[x] \in Int /\ PrefixLateness(p, r)[x] \in Int
      BY <1>3, <3>2
    <3> QED
      BY <3>1, <3>3
  <2>11. a - c = b - g
    BY <1>5, <2>1, <2>10
  <2>12. PrefixLateness(p, q)[i] - PrefixLateness(p, q)[x] = PrefixLateness(p, r)[i] - PrefixLateness(p, r)[x]
    <3>1. (a + t) - c = (b + t) - g
      BY <2>11
    <3>2. PrefixLateness(p, q)[i] = a + t /\ PrefixLateness(p, r)[i] = b + t
      BY <2>8, <2>9, <2>10
    <3> QED
      BY <2>10, <3>1, <3>2
  <2> QED
    BY <2>1, <2>2, <2>6, <2>12
<1>6. 0 .. m \subseteq T
  <2> HIDE DEF T
  <2> QED
    BY <1>4, <1>5, UpTo
<1>7. m \in T
  BY <1>6
<1> QED
  BY <1>1, <1>7

\* The nodes behind h and behind g change places.
Swapped(q, r, h, g) ==
  /\ h \in Nat /\ g \in Nat /\ h < g /\ g + 1 <= Len(r) /\ Len(q) = Len(r)
  /\ Id(q, h + 1) = Id(r, g + 1) /\ Id(q, g + 1) = Id(r, h + 1)
  /\ \A k \in 0 .. Len(r) + 1 : k # h + 1 /\ k # g + 1 => Id(q, k) = Id(r, k)

\* The way from h through c to f.
FirstSwapped(p, q, r, h, c, f) ==
  LET a == Arrivals(p, r)[h]
      b == Id(r, h)
  IN  /\ Arrivals(p, q)[h + 2] = ThroughSegment(p, a, b, c, f)
      /\ LateThrough(p, a, b, c, f) \in Int /\ PrefixLateness(p, r)[h] \in Int
      /\ PrefixLateness(p, q)[h + 2] = PrefixLateness(p, r)[h] + LateThrough(p, a, b, c, f)

\* The exchange changes nothing before the first of the two, which is reached as before.
LEMMA SwapsFirst ==
  ASSUME NEW p, NEW q, RouteOf(p, q), NEW r, RouteOf(p, r), NEW h, NEW g, Swapped(q, r, h, g)
  PROVE  FirstSwapped(p, q, r, h, Id(q, h + 1), Id(q, h + 2))
<1>1. PICK n \in Nat : n = Len(r) /\ n = Len(q) /\ h \in Nat /\ g \in Nat /\ h < g /\ g + 1 <= n
  <2>1. Len(r) \in Nat
    BY NodeData
  <2>2. h \in Nat /\ g \in Nat /\ h < g /\ g + 1 <= Len(r) /\ Len(q) = Len(r)
    BY DEF Swapped
  <2> QED
    BY <2>1, <2>2
<1>2. \A k \in 0 .. h : Id(q, k) = Id(r, k)
  <2>1. ASSUME NEW k \in 0 .. h PROVE k \in 0 .. n + 1 /\ k # h + 1 /\ k # g + 1
    BY <1>1
  <2> QED
    BY <1>1, <2>1 DEF Swapped
<1>3. SameHead(q, r, h)
  <2>1. h <= n + 1
    BY <1>1
  <2> QED
    BY <1>1, <1>2, <2>1 DEF SameHead
<1>4. h \in 0 .. h
  BY <1>1
<1>5. Arrivals(p, q)[h] = Arrivals(p, r)[h] /\ PrefixLateness(p, q)[h] = PrefixLateness(p, r)[h]
  BY <1>3, <1>4, HeadLocal
<1>6. Id(q, h) = Id(r, h)
  BY <1>2, <1>4
<1>7. TwoSteps(p, q, h)
  <2>1. h + 2 <= Len(q) + 1
    BY <1>1
  <2> QED
    BY <1>1, <2>1, StepsThrough
<1>8. PrefixLateness(p, r)[h] \in Int
  <2>1. h \in 0 .. Len(r) + 1
    BY <1>1
  <2>2. ValuesAt(p, r, h)
    BY <2>1, ValueTypes
  <2> QED
    BY <2>2 DEF ValuesAt
<1> QED
  BY <1>5, <1>6, <1>7, <1>8 DEF TwoSteps, FirstSwapped

\* The exchange of neighbours: the rest of the route follows as before.
NeighboursSwapped(p, q, r, h) ==
  LET a == Arrivals(p, r)[h]
      b == Id(r, h)
      c == Id(r, h + 2)
      d == Id(r, h + 1)
      f == Id(r, h + 3)
      late == LateThrough(p, a, b, c, d)
  IN  /\ late \in Int
      /\ TwPenalty(p, q) =
           ((PrefixLateness(p, r)[h] + late) + SuffixLateness(p, r)[h + 3])
             + MAX(0, (ThroughSegment(p, a, b, c, d) + Leg(p, d, f)) - LatestStarts(p, r)[h + 3])

\* Exchanged neighbours: the formula of the bound is the lateness of the new route.
LEMMA SwapsNeighbours ==
  ASSUME NEW p, OpenWindows(p), NEW q, RouteOf(p, q), NEW r, RouteOf(p, r), NEW h, NEW g,
         Swapped(q, r, h, g), g = h + 1
  PROVE  NeighboursSwapped(p, q, r, h)
<1>1. PICK n \in Nat : n = Len(r) /\ n = Len(q) /\ h \in Nat /\ h + 2 <= n
  <2>1. Len(r) \in Nat
    BY NodeData
  <2>2. h \in Nat /\ g + 1 <= Len(r) /\ Len(q) = Len(r)
    BY DEF Swapped
  <2> QED
    BY <2>1, <2>2
<1>2. PICK x \in Nat, y \in Nat : x = h + 2 /\ x = g + 1 /\ y = h + 3 /\ y = x + 1 /\ y <= n + 1
  <2>1. h + 2 \in Nat /\ h + 3 \in Nat /\ h + 2 = g + 1 /\ h + 3 = (h + 2) + 1 /\ h + 3 <= n + 1
    BY <1>1
  <2> QED
    BY <2>1
<1>3. Id(q, h + 1) = Id(r, x) /\ Id(q, x) = Id(r, h + 1)
  BY <1>2 DEF Swapped
<1>4. \A k \in y .. n + 1 : Id(q, k) = Id(r, k)
  <2>1. ASSUME NEW k \in y .. n + 1 PROVE k \in 0 .. n + 1 /\ k # h + 1 /\ k # g + 1
    BY <1>1, <1>2
  <2> QED
    BY <1>1, <2>1 DEF Swapped
<1>5. Parts(p, q, 0, y, r, 0, r, y)
  <2>1. 0 \in 0 .. Len(r) /\ y \in 1 .. Len(r) + 1 /\ y \in 1 .. Len(q) + 1 /\ 0 <= Len(q) + 1
    BY <1>1, <1>2
  <2>2. Len(q) + 1 - y = Len(r) + 1 - y
    BY <1>1
  <2>3. ASSUME NEW k \in 0 .. 0 PROVE Id(q, k) = Id(r, k)
    <3>1. k \in 0 .. n + 1 /\ k # h + 1 /\ k # g + 1
      BY <1>1, <1>2
    <3> QED
      BY <1>1, <3>1 DEF Swapped
  <2>4. ASSUME NEW k \in 0 .. Len(r) + 1 - y PROVE Id(q, y + k) = Id(r, y + k)
    <3>1. y + k \in y .. n + 1
      BY <1>1, <1>2
    <3> QED
      BY <1>4, <3>1
  <2> QED
    BY <2>1, <2>2, <2>3, <2>4, PartValues
<1>6. /\ Id(q, y) = Id(r, y) /\ LatestStarts(p, q)[y] = LatestStarts(p, r)[y]
      /\ SuffixLateness(p, q)[y] = SuffixLateness(p, r)[y]
  BY <1>5 DEF Parts
<1>7. JoinExact(p, q, q, x, q, y)
  <2>1. Joined(q, q, x, q, y)
    <3>1. x \in 0 .. Len(q) /\ y \in 1 .. Len(q) + 1 /\ Len(q) = x + (Len(q) + 1 - y)
      BY <1>1, <1>2
    <3>2. ASSUME NEW k \in 0 .. Len(q) + 1 - y PROVE Id(q, x + 1 + k) = Id(q, y + k)
      BY <1>2
    <3> QED
      BY <3>1, <3>2 DEF Joined
  <2> QED
    BY <2>1, JoinedExact
<1>8. FirstSwapped(p, q, r, h, Id(r, x), Id(r, h + 1))
  <2>1. FirstSwapped(p, q, r, h, Id(q, h + 1), Id(q, h + 2))
    BY SwapsFirst
  <2> QED
    BY <1>2, <1>3, <2>1
<1>9. TwPenalty(p, q) = (PrefixLateness(p, q)[x] + SuffixLateness(p, q)[y])
                          + MAX(0, (Arrivals(p, q)[x] + Leg(p, Id(q, x), Id(q, y))) - LatestStarts(p, q)[y])
  BY <1>7 DEF JoinExact
<1> QED
  BY <1>2, <1>3, <1>6, <1>8, <1>9 DEF FirstSwapped, NeighboursSwapped

\* The exchange of two that are not neighbours, as far as the bound follows it.
ApartSwapped(p, q, r, h, g) ==
  LET a == Arrivals(p, r)
      pf == PrefixLateness(p, r)
      late == LateThrough(p, a[h], Id(r, h), Id(r, g + 1), Id(r, h + 2))
      late2 == LateThrough(p, a[g], Id(r, g), Id(r, h + 1), Id(r, g + 2))
      head == pf[h] + late
      middle == (head + (pf[g] - pf[h + 2])) + late2
      asBefore == ThroughSegment(p, a[h], Id(r, h), Id(r, g + 1), Id(r, h + 2)) = a[h + 2]
      asBefore2 == ThroughSegment(p, a[g], Id(r, g), Id(r, h + 1), Id(r, g + 2)) = a[g + 2]
  IN  /\ late \in Int /\ head <= TwPenalty(p, q)
      /\ asBefore => late2 \in Int /\ middle <= TwPenalty(p, q)
      /\ asBefore /\ asBefore2 => TwPenalty(p, q) = middle + (TwPenalty(p, r) - pf[g + 2])

\* Exchanged customers further apart: each partial sum of the bound is a lower bound.
LEMMA SwapsApart ==
  ASSUME NEW p, NEW q, RouteOf(p, q), NEW r, RouteOf(p, r), NEW h, NEW g,
         Swapped(q, r, h, g), h + 2 <= g
  PROVE  ApartSwapped(p, q, r, h, g)
<1>1. PICK n \in Nat : n = Len(r) /\ n = Len(q) /\ h \in Nat /\ g \in Nat /\ h < g /\ g + 1 <= n
  <2>1. Len(r) \in Nat
    BY NodeData
  <2>2. h \in Nat /\ g \in Nat /\ h < g /\ g + 1 <= Len(r) /\ Len(q) = Len(r)
    BY DEF Swapped
  <2> QED
    BY <2>1, <2>2
<1>2. PICK x \in Nat, z \in Nat, m \in Nat :
        x = h + 2 /\ z = g + 2 /\ m = n + 1 /\ x <= g /\ g <= m /\ z <= m /\ x <= m
  <2>1. h + 2 \in Nat /\ g + 2 \in Nat /\ n + 1 \in Nat /\ g <= n + 1 /\ g + 2 <= n + 1 /\ h + 2 <= n + 1
    BY <1>1
  <2> QED
    BY <2>1
<1>3. PICK c, d : c = Id(r, g + 1) /\ c = Id(q, h + 1) /\ d = Id(r, h + 1) /\ d = Id(q, g + 1)
  BY DEF Swapped
<1>4. Id(q, x) = Id(r, x)
  <2>1. x \in 0 .. n + 1 /\ x # h + 1 /\ x # g + 1
    BY <1>1, <1>2
  <2> QED
    BY <1>1, <2>1 DEF Swapped
<1>5. FirstSwapped(p, q, r, h, c, Id(r, x))
  <2>1. FirstSwapped(p, q, r, h, Id(q, h + 1), Id(q, h + 2))
    BY SwapsFirst
  <2> QED
    BY <1>2, <1>3, <1>4, <2>1
<1>6. PICK late, thr : /\ late = LateThrough(p, Arrivals(p, r)[h], Id(r, h), c, Id(r, x))
                       /\ thr = ThroughSegment(p, Arrivals(p, r)[h], Id(r, h), c, Id(r, x))
  OBVIOUS
<1>7. PICK late2, thr2 : /\ late2 = LateThrough(p, Arrivals(p, r)[g], Id(r, g), d, Id(r, z))
                         /\ thr2 = ThroughSegment(p, Arrivals(p, r)[g], Id(r, g), d, Id(r, z))
  OBVIOUS
<1>8. \A k \in {h, g, x, z, m} : PrefixLateness(p, r)[k] \in Int /\ PrefixLateness(p, q)[k] \in Int
  <2>1. ASSUME NEW k \in {h, g, x, z, m} PROVE PrefixLateness(p, r)[k] \in Int /\ PrefixLateness(p, q)[k] \in Int
    <3>1. k \in 0 .. Len(r) + 1 /\ k \in 0 .. Len(q) + 1
      BY <1>1, <1>2
    <3>2. ValuesAt(p, r, k) /\ ValuesAt(p, q, k)
      BY <3>1, ValueTypes
    <3> QED
      BY <3>2 DEF ValuesAt
  <2> QED
    BY <2>1
<1>9. PICK ph \in Int, pg \in Int, px \in Int, pz \in Int, pm \in Int :
        /\ ph = PrefixLateness(p, r)[h] /\ pg = PrefixLateness(p, r)[g] /\ px = PrefixLateness(p, r)[x]
        /\ pz = PrefixLateness(p, r)[z] /\ pm = PrefixLateness(p, r)[m]
  BY <1>8
<1>10. PICK qg \in Int, qx \in Int, qz \in Int, qm \in Int :
        /\ qg = PrefixLateness(p, q)[g] /\ qx = PrefixLateness(p, q)[x]
        /\ qz = PrefixLateness(p, q)[z] /\ qm = PrefixLateness(p, q)[m]
  BY <1>8
<1>11. late \in Int /\ qx = ph + late /\ Arrivals(p, q)[x] = thr
  BY <1>2, <1>5, <1>6, <1>9, <1>10 DEF FirstSwapped
<1>12. qx <= qm /\ qz <= qm /\ TwPenalty(p, q) = qm /\ TwPenalty(p, r) = pm
  <2>1. x \in 0 .. Len(q) + 1 /\ z \in 0 .. Len(q) + 1
    BY <1>1, <1>2
  <2>2. PrefixLateness(p, q)[x] <= TwPenalty(p, q) /\ PrefixLateness(p, q)[z] <= TwPenalty(p, q)
    BY <2>1, LatenessGrows
  <2>3. TwPenalty(p, q) = PrefixLateness(p, q)[m] /\ TwPenalty(p, r) = PrefixLateness(p, r)[m]
    BY <1>1, <1>2 DEF TwPenalty, depot_tail
  <2> QED
    BY <1>9, <1>10, <2>2, <2>3
<1>13. ASSUME thr = Arrivals(p, r)[x]
       PROVE  /\ late2 \in Int /\ qz = ((ph + late) + (pg - px)) + late2
              /\ Arrivals(p, q)[z] = thr2
  <2>1. \A k \in x .. g : Id(q, k) = Id(r, k)
    <3>1. ASSUME NEW k \in x .. g PROVE k \in 0 .. n + 1 /\ k # h + 1 /\ k # g + 1
      BY <1>1, <1>2
    <3> QED
      BY <1>1, <3>1 DEF Swapped
  <2>2. SameStretch(p, q, r, x, g)
    <3>1. g <= Len(q) + 1 /\ g <= Len(r) + 1
      BY <1>1, <1>2
    <3> QED
      BY <1>1, <1>2, <1>11, <1>13, <2>1, <3>1 DEF SameStretch
  <2>3. Arrivals(p, q)[g] = Arrivals(p, r)[g] /\ qg - qx = pg - px
    <3>1. /\ Arrivals(p, q)[g] = Arrivals(p, r)[g]
          /\ PrefixLateness(p, q)[g] - PrefixLateness(p, q)[x] = PrefixLateness(p, r)[g] - PrefixLateness(p, r)[x]
      BY <2>2, StretchLateness
    <3> QED
      BY <1>9, <1>10, <3>1
  <2>4. Id(q, g) = Id(r, g)
    BY <1>1, <1>2, <2>1
  <2>5. Id(q, z) = Id(r, z)
    <3>1. z \in 0 .. n + 1 /\ z # h + 1 /\ z # g + 1
      BY <1>1, <1>2
    <3> QED
      BY <1>1, <3>1 DEF Swapped
  <2>6. TwoSteps(p, q, g)
    <3>1. g + 2 <= Len(q) + 1
      BY <1>1
    <3> QED
      BY <1>1, <3>1, StepsThrough
  <2>7. late2 \in Int /\ qz = qg + late2 /\ Arrivals(p, q)[z] = thr2
    BY <1>2, <1>3, <1>7, <1>10, <2>3, <2>4, <2>5, <2>6 DEF TwoSteps
  <2>8. qg = (ph + late) + (pg - px)
    BY <1>11, <2>3
  <2> QED
    BY <2>7, <2>8
<1>14. ASSUME thr = Arrivals(p, r)[x], thr2 = Arrivals(p, r)[z]
       PROVE  qm = qz + (pm - pz)
  <2>1. \A k \in z .. m : Id(q, k) = Id(r, k)
    <3>1. ASSUME NEW k \in z .. m PROVE k \in 0 .. n + 1 /\ k # h + 1 /\ k # g + 1
      BY <1>1, <1>2
    <3> QED
      BY <1>1, <3>1 DEF Swapped
  <2>2. SameStretch(p, q, r, z, m)
    <3>1. m <= Len(q) + 1 /\ m <= Len(r) + 1
      BY <1>1, <1>2
    <3>2. Arrivals(p, q)[z] = Arrivals(p, r)[z]
      BY <1>13, <1>14
    <3> QED
      BY <1>2, <2>1, <3>1, <3>2 DEF SameStretch
  <2>3. PrefixLateness(p, q)[m] - PrefixLateness(p, q)[z] = PrefixLateness(p, r)[m] - PrefixLateness(p, r)[z]
    BY <2>2, StretchLateness
  <2>4. qm - qz = pm - pz
    BY <1>9, <1>10, <2>3
  <2> QED
    BY <2>4
<1>15. late \in Int /\ ph + late <= qm
  BY <1>11, <1>12
<1>16. ASSUME thr = Arrivals(p, r)[x]
       PROVE  /\ late2 \in Int
              /\ ((ph + late) + (pg - px)) + late2 <= qm
  BY <1>12, <1>13, <1>16
<1>17. ASSUME thr = Arrivals(p, r)[x], thr2 = Arrivals(p, r)[z]
       PROVE  qm = (((ph + late) + (pg - px)) + late2) + (pm - pz)
  BY <1>13, <1>14, <1>17
<1> QED
  BY <1>2, <1>3, <1>6, <1>7, <1>9, <1>12, <1>15, <1>16, <1>17 DEF ApartSwapped

\* upd_through_seg, from the cached arrival of b.
LEMMA ThroughHas ==
  ASSUME NEW r, RouteOf(problem, r), NEW b, NEW k \in 0 .. Len(r) + 1, Has(b, r, k),
         NEW c, NEW c1 \in 0 .. problem.n, id(c) = c1, NEW f, NEW f1 \in 0 .. problem.n, id(f) = f1
  PROVE  /\ Through(b, c, f) = ThroughSegment(problem, Arrivals(problem, r)[k], Id(r, k), c1, f1)
         /\ ThroughLateness(b, c, f) = LateThrough(problem, Arrivals(problem, r)[k], Id(r, k), c1, f1)
<1>1. data[b].a = Arrivals(problem, r)[k] /\ id(b) = Id(r, k)
  BY DEF Has
<1>2. PICK a \in Int, b1 \in 0 .. problem.n : a = Arrivals(problem, r)[k] /\ b1 = Id(r, k)
  <2>1. ValuesAt(problem, r, k)
    BY ValueTypes
  <2> QED
    BY <2>1 DEF ValuesAt
<1>3. PICK s \in Int, t \in Int, y \in Int, z \in Int :
        s = Leg(problem, b1, c1) /\ t = Leg(problem, c1, f1) /\ y = problem.l[c1] /\ z = problem.l[f1]
  BY NodeData
<1>4. leg(b, c) = s /\ leg(c, f) = t /\ l(c) = y /\ l(f) = z
  BY <1>1, <1>2, <1>3 DEF leg, l
<1>5. PICK o \in Int : o = Clip(problem, c1, a + s)
  <2>1. a + s \in Int
    OBVIOUS
  <2>2. Clip(problem, c1, a + s) \in Int
    BY <2>1, NodeData
  <2> QED
    BY <2>2
<1>6. Through(b, c, f) = ThroughSegment(problem, a, b1, c1, f1)
  BY <1>1, <1>2 DEF Through
<1>7. LateThrough(problem, a, b1, c1, f1) = MAX(0, (a + s) - y) + MAX(0, (o + t) - z)
  BY <1>3, <1>5 DEF LateThrough
<1>8. ThroughLateness(b, c, f) = MAX(0, (a + s) - y) + MAX(0, o + t - z)
  BY <1>1, <1>2, <1>4, <1>5 DEF ThroughLateness
<1>9. o + t - z = (o + t) - z
  OBVIOUS
<1> QED
  BY <1>2, <1>6, <1>7, <1>8, <1>9

\* EXCHANGE within the route x.
LEMMA ExchangeWithin ==
  ASSUME NEW C, NEW f, RoutesOf(f), NEW x \in Route, NEW r \in Seq(C), f[x] = r,
         NEW h \in Nat, NEW g \in Nat, h < g, g + 1 <= Len(r)
  PROVE  LET q == Exchange(f, <<x, h + 1>>, <<x, g + 1>>)[x]
         IN  q \in Seq(C) /\ Swapped(q, r, h, g)
<1>1. PICK i \in 1 .. Len(r), j \in 1 .. Len(r), n \in Nat : i = h + 1 /\ j = g + 1 /\ i # j /\ n = Len(r)
  <2>1. Len(r) \in Nat
    OBVIOUS
  <2>2. h + 1 \in 1 .. Len(r) /\ g + 1 \in 1 .. Len(r) /\ h + 1 # g + 1
    BY <2>1
  <2> QED
    BY <2>1, <2>2
<1>2. PICK s : s = [f EXCEPT ![x][i] = r[j]]
  OBVIOUS
<1>3. PICK t : t = [r EXCEPT ![i] = r[j]]
  OBVIOUS
<1>4. s[x] = t /\ RoutesOf(s)
  BY <1>2, <1>3 DEF RoutesOf
<1>5. PICK q : q = [t EXCEPT ![j] = r[i]]
  OBVIOUS
<1>6. Exchange(f, <<x, i>>, <<x, j>>) = [s EXCEPT ![x][j] = r[i]]
  BY <1>2 DEF Exchange
<1>7. Exchange(f, <<x, i>>, <<x, j>>)[x] = q
  BY <1>4, <1>5, <1>6 DEF RoutesOf
<1>8. q \in Seq(C) /\ Len(q) = n /\ q[i] = r[j] /\ q[j] = r[i] /\ \A k \in 1 .. n : k # i /\ k # j => q[k] = r[k]
  <2>1. t \in Seq(C) /\ Len(t) = Len(r)
    BY <1>3
  <2>2. q \in Seq(C) /\ Len(q) = Len(t)
    BY <1>5, <2>1
  <2> QED
    BY <1>1, <1>3, <1>5, <2>1, <2>2
<1>9. Swapped(q, r, h, g)
  <2>1. Id(q, i) = Id(r, j) /\ Id(q, j) = Id(r, i)
    BY <1>1, <1>8 DEF Id
  <2>2. ASSUME NEW k \in 0 .. n + 1, k # i, k # j PROVE Id(q, k) = Id(r, k)
    BY <1>1, <1>8, <2>2 DEF Id
  <2> QED
    BY <1>1, <1>8, <2>1, <2>2 DEF Swapped
<1> QED
  BY <1>1, <1>7, <1>8, <1>9

\* What is around the customers v and w of one route, v before w.
Pair(v, w, r, h, g) ==
  /\ RouteOf(problem, r) /\ r \in Seq(Customer) /\ h \in Nat /\ g \in Nat /\ h < g /\ g + 1 <= Len(r)
  /\ v \in Customer /\ w \in Customer
  /\ r[h + 1] = v /\ r[g + 1] = w /\ id(v) = v /\ id(w) = w
  /\ Has(route_prev(v), r, h) /\ Has(route_next(v), r, h + 2)
  /\ Has(route_prev(w), r, g) /\ Has(route_next(w), r, g + 2)
  /\ route_next(v) = w <=> h + 1 = g
  /\ tw_penalty(v) = TwPenalty(problem, r)

\* Customers of one route, v before w, are such a pair.
LEMMA PairAt ==
  ASSUME Inv, NEW v \in Placed \cap Customer, NEW w \in Placed \cap Customer,
         data[v].route = data[w].route, data[v].idx < data[w].idx
  PROVE  \E x \in Route : \E h, g : /\ x = data[v].route /\ Node(v) = <<x, h + 1>> /\ Node(w) = <<x, g + 1>>
                                    /\ data[v].idx = h + 1 /\ data[w].idx = g + 1
                                    /\ Pair(v, w, Ids[x], h, g)
<1>1. PICK x, n, i : IsAt(v, x, n, i)
  BY PlacedAt
<1>2. PICK y, n2, j : IsAt(w, y, n2, j)
  BY PlacedAt
<1>3. y = x /\ n2 = n /\ i < j /\ x \in Route /\ x = data[v].route /\ i = data[v].idx /\ j = data[w].idx
  BY <1>1, <1>2 DEF IsAt
<1>4. PICK r : r = Ids[x]
  OBVIOUS
<1>5. Placing(v, r, n, i) /\ Placing(w, r, n, j)
  BY <1>1, <1>2, <1>3, <1>4, ObjectPlacing
<1>6. /\ i \in 1 .. n - 1 /\ j \in 1 .. n - 1 /\ n \in Nat /\ n = Len(r) + 1 /\ RouteOf(problem, r)
      /\ r[i] = v /\ r[j] = w /\ id(v) = v /\ id(w) = w /\ tw_penalty(v) = TwPenalty(problem, r)
      /\ Has(route_prev(v), r, i - 1) /\ Has(route_next(v), r, i + 1)
      /\ Has(route_prev(w), r, j - 1) /\ Has(route_next(w), r, j + 1)
  <2>1. /\ i \in 1 .. n - 1 /\ j \in 1 .. n - 1 /\ n \in Nat /\ n = Len(r) + 1 /\ RouteOf(problem, r)
        /\ r[i] = v /\ r[j] = w /\ id(v) = v /\ id(w) = w /\ tw_penalty(v) = TwPenalty(problem, r)
    BY <1>5 DEF Placing
  <2>2. i # 0 /\ i # n /\ j # 0 /\ j # n
    BY <2>1
  <2>3. /\ Has(route_prev(v), r, i - 1) /\ Has(route_next(v), r, i + 1)
        /\ Has(route_prev(w), r, j - 1) /\ Has(route_next(w), r, j + 1)
    BY <1>5, <2>2 DEF Placing
  <2> QED
    BY <2>1, <2>3
<1>7. PICK h \in Nat, g \in Nat : /\ h = i - 1 /\ i = h + 1 /\ i + 1 = h + 2
                                  /\ g = j - 1 /\ j = g + 1 /\ j + 1 = g + 2
  <2>1. /\ i - 1 \in Nat /\ i = (i - 1) + 1 /\ i + 1 = (i - 1) + 2
        /\ j - 1 \in Nat /\ j = (j - 1) + 1 /\ j + 1 = (j - 1) + 2
    BY <1>6
  <2> QED
    BY <2>1
<1>8. route_next(v) = w <=> h + 1 = g
  <2>1. routes[x][j + 1] = w /\ n = last(routes[x]) /\ route_next(v) = routes[x][i + 2]
    BY <1>1, <1>2, <1>3 DEF IsAt, route_next
  <2>2. Knows(routes, data)
    BY DEF Inv, AllExact
  <2>3. PICK k \in 0 .. n : k = i + 1 /\ k + 1 = i + 2
    <3>1. i + 1 \in 0 .. n /\ (i + 1) + 1 = i + 2
      BY <1>6
    <3> QED
      BY <3>1
  <2>4. data[routes[x][k + 1]].idx = k
    BY <1>3, <2>1, <2>2 DEF Knows
  <2>5. route_next(v) = w <=> k = j
    BY <1>3, <2>1, <2>3, <2>4
  <2>6. k = j <=> h + 1 = g
    BY <1>7, <2>3
  <2> QED
    BY <2>5, <2>6
<1>9. r \in Seq(Customer) /\ h < g /\ g + 1 <= Len(r)
  <2>1. Len(r) \in Nat
    BY <1>6, NodeData
  <2>2. r \in Seq(Customer)
    BY <1>6 DEF RouteOf, Customer
  <2>3. h < g /\ g + 1 <= Len(r)
    <3>1. i \in 1 .. n - 1 /\ j \in 1 .. n - 1 /\ n \in Nat /\ n = Len(r) + 1 /\ i < j
      BY <1>3, <1>6
    <3>2. i = h + 1 /\ j = g + 1
      BY <1>7
    <3>3. h < g
      BY <3>1, <3>2
    <3>4. g + 1 <= Len(r)
      BY <2>1, <3>1, <3>2
    <3> QED
      BY <3>3, <3>4
  <2> QED
    BY <2>2, <2>3
<1>10. Pair(v, w, r, h, g)
  BY <1>6, <1>7, <1>8, <1>9 DEF Pair
<1>11. Node(v) = <<x, h + 1>> /\ Node(w) = <<x, g + 1>>
  BY <1>3, <1>7 DEF Node
<1> QED
  BY <1>3, <1>4, <1>7, <1>10, <1>11

\* The change by the exchange, and its bound.
Bounds(v, w, r, q, h, g) ==
  LET bound == exchange_lower_bound(v, w)
      delta == TwPenalty(problem, q) - TwPenalty(problem, r)
  IN  /\ bound.delta <= delta
      /\ bound.exact => bound.delta = delta
      /\ bound.exact = ExchangeExact(problem, r, h + 1, g + 1)

\* The bound for neighbours is exact.
LEMMA BoundNeighbours ==
  ASSUME OpenWindows(problem), NEW v, NEW w, NEW r, NEW h, NEW g, Pair(v, w, r, h, g), h + 1 = g,
         NEW q, RouteOf(problem, q), Swapped(q, r, h, g)
  PROVE  Bounds(v, w, r, q, h, g)
<1>1. /\ RouteOf(problem, r) /\ h \in Nat /\ g = h + 1 /\ h + 2 <= Len(r) /\ v \in Customer /\ w \in Customer
      /\ r[h + 1] = v /\ r[h + 2] = w /\ id(v) = v /\ id(w) = w
      /\ Has(route_prev(v), r, h) /\ Has(route_next(w), r, h + 3)
      /\ route_next(v) = w /\ tw_penalty(v) = TwPenalty(problem, r)
  <2>1. /\ RouteOf(problem, r) /\ h \in Nat /\ g \in Nat /\ g + 1 <= Len(r) /\ v \in Customer /\ w \in Customer
        /\ r[h + 1] = v /\ r[g + 1] = w /\ id(v) = v /\ id(w) = w
        /\ Has(route_prev(v), r, h) /\ Has(route_next(w), r, g + 2)
        /\ route_next(v) = w /\ tw_penalty(v) = TwPenalty(problem, r)
    BY DEF Pair
  <2>2. g = h + 1 /\ g + 1 = h + 2 /\ g + 2 = h + 3
    BY <2>1
  <2> QED
    BY <2>1, <2>2
<1>2. PICK n \in Nat : n = Len(r) /\ h + 2 <= n
  <2>1. Len(r) \in Nat
    BY <1>1, NodeData
  <2> QED
    BY <1>1, <2>1
<1>3. Id(r, h + 1) = v /\ Id(r, h + 2) = w /\ v \in 0 .. problem.n /\ w \in 0 .. problem.n
  <2>1. problem.n \in Nat
    BY <1>1 DEF RouteOf, Instance
  <2>2. h + 1 \in 1 .. n /\ h + 2 \in 1 .. n
    BY <1>1, <1>2
  <2> QED
    BY <1>1, <1>2, <2>1, <2>2 DEF Id, Customer
<1>4. PICK b, f : b = route_prev(v) /\ f = route_next(w) /\ Has(b, r, h) /\ Has(f, r, h + 3)
  BY <1>1
<1>5. PICK late, thr : /\ late = LateThrough(problem, Arrivals(problem, r)[h], Id(r, h), w, v)
                       /\ thr = ThroughSegment(problem, Arrivals(problem, r)[h], Id(r, h), w, v)
  OBVIOUS
<1>6. Through(b, w, v) = thr /\ ThroughLateness(b, w, v) = late
  <2>1. h \in 0 .. Len(r) + 1
    BY <1>1, <1>2
  <2> QED
    BY <1>1, <1>3, <1>4, <1>5, <2>1, ThroughHas
<1>7. NeighboursSwapped(problem, q, r, h)
  BY <1>1, SwapsNeighbours
<1>8. PICK pf \in Int, sf \in Int, z \in Int, t \in Int, f1 \in 0 .. problem.n :
        /\ pf = PrefixLateness(problem, r)[h] /\ sf = SuffixLateness(problem, r)[h + 3]
        /\ z = LatestStarts(problem, r)[h + 3] /\ t = Leg(problem, v, f1) /\ f1 = Id(r, h + 3)
  <2>1. h \in 0 .. Len(r) + 1 /\ h + 3 \in 0 .. Len(r) + 1
    BY <1>1, <1>2
  <2>2. ValuesAt(problem, r, h) /\ ValuesAt(problem, r, h + 3)
    BY <1>1, <2>1, ValueTypes
  <2>3. Id(r, h + 3) \in 0 .. problem.n
    BY <2>2 DEF ValuesAt
  <2>4. Leg(problem, v, Id(r, h + 3)) \in Int
    BY <1>1, <1>3, <2>3, NodeData
  <2> QED
    BY <2>2, <2>3, <2>4 DEF ValuesAt
<1>9. /\ data[b].tw_pf = pf /\ data[f].tw_sf = sf /\ data[f].z = z /\ leg(v, f) = t
  BY <1>1, <1>4, <1>8 DEF Has, leg
<1>10. late \in Int /\ TwPenalty(problem, q) = ((pf + late) + sf) + MAX(0, (thr + t) - z)
  BY <1>3, <1>5, <1>7, <1>8 DEF NeighboursSwapped
<1>11. thr \in Int
  <2>1. ThroughSegment(problem, Arrivals(problem, r)[h], Id(r, h), w, v) = Arrivals(problem, q)[h + 2]
    <3>1. Id(q, h + 1) = w /\ Id(q, h + 2) = v
      BY <1>1, <1>3 DEF Swapped
    <3>2. FirstSwapped(problem, q, r, h, Id(q, h + 1), Id(q, h + 2))
      BY <1>1, SwapsFirst
    <3> QED
      BY <3>1, <3>2 DEF FirstSwapped
  <2>2. h + 2 \in 0 .. Len(q) + 1
    <3>1. Len(q) = n
      BY <1>2 DEF Swapped
    <3> QED
      BY <1>1, <1>2, <3>1
  <2>3. ValuesAt(problem, q, h + 2)
    BY <2>2, ValueTypes
  <2> QED
    BY <1>5, <2>1, <2>3 DEF ValuesAt
<1>12. PICK u \in Int, T \in Int, Q \in Int :
         u = MAX(0, (thr + t) - z) /\ T = TwPenalty(problem, r) /\ Q = TwPenalty(problem, q)
  <2>1. MAX(0, (thr + t) - z) \in Int
    BY <1>11 DEF MAX
  <2>2. TwPenalty(problem, r) \in Nat /\ TwPenalty(problem, q) \in Nat
    BY <1>1, PenaltyTypes
  <2> QED
    BY <2>1, <2>2
<1>13. thr + t - z = (thr + t) - z
  BY <1>11
<1>14. exchange_lower_bound(v, w) =
         [exact |-> TRUE, delta |-> pf + late + sf + u - T]
  BY <1>1, <1>4, <1>6, <1>9, <1>12, <1>13 DEF exchange_lower_bound
<1>15. pf + late + sf + u - T = Q - T
  BY <1>10, <1>12
<1>16. ExchangeExact(problem, r, h + 1, g + 1)
  <2>1. MIN(h + 1, g + 1) = h + 1 /\ MAX(h + 1, g + 1) = g + 1 /\ (h + 1) + 1 = g + 1
    BY <1>1 DEF MIN, MAX
  <2> QED
    BY <2>1 DEF ExchangeExact
<1>17. TRUE = ExchangeExact(problem, r, h + 1, g + 1)
  BY <1>16 DEF ExchangeExact
<1>18. exchange_lower_bound(v, w).exact = TRUE /\ exchange_lower_bound(v, w).delta = Q - T
  BY <1>14, <1>15
<1>19. Q - T <= Q - T
  OBVIOUS
<1> QED
  BY <1>12, <1>17, <1>18, <1>19 DEF Bounds

\* The bound for customers further apart holds, and is exact when it says so.
LEMMA BoundApart ==
  ASSUME OpenWindows(problem), NEW v, NEW w, NEW r, NEW h, NEW g, Pair(v, w, r, h, g), h + 1 # g,
         NEW q, RouteOf(problem, q), Swapped(q, r, h, g)
  PROVE  Bounds(v, w, r, q, h, g)
<1>1. /\ RouteOf(problem, r) /\ h \in Nat /\ g \in Nat /\ h + 2 <= g /\ g + 1 <= Len(r)
      /\ v \in Customer /\ w \in Customer
      /\ r[h + 1] = v /\ r[g + 1] = w /\ id(v) = v /\ id(w) = w
      /\ route_next(v) # w /\ tw_penalty(v) = TwPenalty(problem, r)
  <2>1. /\ RouteOf(problem, r) /\ h \in Nat /\ g \in Nat /\ h < g /\ g + 1 <= Len(r)
        /\ v \in Customer /\ w \in Customer
        /\ r[h + 1] = v /\ r[g + 1] = w /\ id(v) = v /\ id(w) = w
        /\ route_next(v) # w /\ tw_penalty(v) = TwPenalty(problem, r)
    BY DEF Pair
  <2>2. h + 2 <= g
    BY <2>1
  <2> QED
    BY <2>1, <2>2
<1>2. PICK n \in Nat : n = Len(r) /\ g + 1 <= n
  <2>1. Len(r) \in Nat
    BY <1>1, NodeData
  <2> QED
    BY <1>1, <2>1
<1>3. Id(r, h + 1) = v /\ Id(r, g + 1) = w /\ v \in 0 .. problem.n /\ w \in 0 .. problem.n
  <2>1. problem.n \in Nat
    BY <1>1 DEF RouteOf, Instance
  <2>2. h + 1 \in 1 .. n /\ g + 1 \in 1 .. n
    BY <1>1, <1>2
  <2> QED
    BY <1>1, <1>2, <2>1, <2>2 DEF Id, Customer
<1>4. PICK b, f, o, t : /\ b = route_prev(v) /\ f = route_next(v) /\ o = route_prev(w) /\ t = route_next(w)
                        /\ Has(b, r, h) /\ Has(f, r, h + 2) /\ Has(o, r, g) /\ Has(t, r, g + 2)
  BY DEF Pair
<1>5. /\ ValuesAt(problem, r, h) /\ ValuesAt(problem, r, h + 2)
      /\ ValuesAt(problem, r, g) /\ ValuesAt(problem, r, g + 2)
      /\ h \in 0 .. Len(r) + 1 /\ g \in 0 .. Len(r) + 1
  <2>1. h \in 0 .. Len(r) + 1 /\ h + 2 \in 0 .. Len(r) + 1 /\ g \in 0 .. Len(r) + 1 /\ g + 2 \in 0 .. Len(r) + 1
    BY <1>1, <1>2
  <2> QED
    BY <1>1, <2>1, ValueTypes
<1>6. PICK late, thr : /\ late = LateThrough(problem, Arrivals(problem, r)[h], Id(r, h), w, Id(r, h + 2))
                       /\ thr = ThroughSegment(problem, Arrivals(problem, r)[h], Id(r, h), w, Id(r, h + 2))
  OBVIOUS
<1>7. PICK late2, thr2 : /\ late2 = LateThrough(problem, Arrivals(problem, r)[g], Id(r, g), v, Id(r, g + 2))
                         /\ thr2 = ThroughSegment(problem, Arrivals(problem, r)[g], Id(r, g), v, Id(r, g + 2))
  OBVIOUS
<1>8. Through(b, w, f) = thr /\ ThroughLateness(b, w, f) = late
  <2>1. Id(r, h + 2) \in 0 .. problem.n
    BY <1>5 DEF ValuesAt
  <2>2. id(f) = Id(r, h + 2)
    BY <1>4 DEF Has
  <2> QED
    BY <1>1, <1>3, <1>4, <1>5, <1>6, <2>1, <2>2, ThroughHas
<1>9. Through(o, v, t) = thr2 /\ ThroughLateness(o, v, t) = late2
  <2>1. Id(r, g + 2) \in 0 .. problem.n
    BY <1>5 DEF ValuesAt
  <2>2. id(t) = Id(r, g + 2)
    BY <1>4 DEF Has
  <2> QED
    BY <1>1, <1>3, <1>4, <1>5, <1>7, <2>1, <2>2, ThroughHas
<1>10. PICK ph \in Int, px \in Int, pg \in Int, pz \in Int :
         /\ ph = PrefixLateness(problem, r)[h] /\ px = PrefixLateness(problem, r)[h + 2]
         /\ pg = PrefixLateness(problem, r)[g] /\ pz = PrefixLateness(problem, r)[g + 2]
  BY <1>5 DEF ValuesAt
<1>11. /\ data[b].tw_pf = ph /\ data[f].tw_pf = px /\ data[o].tw_pf = pg /\ data[t].tw_pf = pz
       /\ data[f].a = Arrivals(problem, r)[h + 2] /\ data[t].a = Arrivals(problem, r)[g + 2]
  BY <1>4, <1>10 DEF Has
<1>12. PICK T \in Int, Q \in Int : T = TwPenalty(problem, r) /\ Q = TwPenalty(problem, q)
  <2>1. TwPenalty(problem, r) \in Nat /\ TwPenalty(problem, q) \in Nat
    BY <1>1, PenaltyTypes
  <2> QED
    BY <2>1
<1>13. ApartSwapped(problem, q, r, h, g)
  BY <1>1, SwapsApart
<1>14. /\ late \in Int /\ ph + late <= Q
       /\ thr = data[f].a => /\ late2 \in Int
                             /\ ((ph + late) + (pg - px)) + late2 <= Q
       /\ thr = data[f].a /\ thr2 = data[t].a => Q = (((ph + late) + (pg - px)) + late2) + (T - pz)
  BY <1>3, <1>6, <1>7, <1>10, <1>11, <1>12, <1>13 DEF ApartSwapped
<1>15. ExchangeExact(problem, r, h + 1, g + 1) <=> thr = data[f].a /\ thr2 = data[t].a
  <2>1. MIN(h + 1, g + 1) = h + 1 /\ MAX(h + 1, g + 1) = g + 1 /\ (h + 1) + 1 # g + 1
    BY <1>1 DEF MIN, MAX
  <2>2. (h + 1) - 1 = h /\ (h + 1) + 1 = h + 2 /\ (g + 1) - 1 = g /\ (g + 1) + 1 = g + 2
    BY <1>1
  <2> QED
    BY <1>1, <1>6, <1>7, <1>11, <2>1, <2>2 DEF ExchangeExact
<1>16. CASE thr # data[f].a
  <2>1. exchange_lower_bound(v, w) = [exact |-> FALSE, delta |-> (ph + late) - T]
    BY <1>1, <1>4, <1>8, <1>11, <1>12, <1>16 DEF exchange_lower_bound
  <2>2. (ph + late) - T <= Q - T
    BY <1>14
  <2>3. FALSE = ExchangeExact(problem, r, h + 1, g + 1)
    BY <1>15, <1>16 DEF ExchangeExact
  <2>4. exchange_lower_bound(v, w).exact = FALSE /\ exchange_lower_bound(v, w).delta = (ph + late) - T
    BY <2>1
  <2> QED
    BY <1>12, <2>2, <2>3, <2>4 DEF Bounds
<1>17. CASE thr = data[f].a /\ thr2 # data[t].a
  <2>1. late2 \in Int /\ ((ph + late) + (pg - px)) + late2 <= Q
    BY <1>14, <1>17
  <2>2. exchange_lower_bound(v, w) = [exact |-> FALSE, delta |-> ((ph + late) + pg - px + late2) - T]
    BY <1>1, <1>4, <1>8, <1>9, <1>11, <1>12, <1>17 DEF exchange_lower_bound
  <2>3. ((ph + late) + pg - px + late2) - T <= Q - T
    BY <1>14, <2>1
  <2>4. FALSE = ExchangeExact(problem, r, h + 1, g + 1)
    BY <1>15, <1>17 DEF ExchangeExact
  <2>5. /\ exchange_lower_bound(v, w).exact = FALSE
        /\ exchange_lower_bound(v, w).delta = ((ph + late) + pg - px + late2) - T
    BY <2>2
  <2> QED
    BY <1>12, <2>3, <2>4, <2>5 DEF Bounds
<1>18. CASE thr = data[f].a /\ thr2 = data[t].a
  <2>1. late2 \in Int /\ Q = (((ph + late) + (pg - px)) + late2) + (T - pz)
    BY <1>14, <1>18
  <2>2. exchange_lower_bound(v, w) = [exact |-> TRUE, delta |-> ((ph + late) + pg - px + late2) + T - pz - T]
    BY <1>1, <1>4, <1>8, <1>9, <1>11, <1>12, <1>18 DEF exchange_lower_bound
  <2>3. ((ph + late) + pg - px + late2) + T - pz - T = Q - T
    BY <1>14, <2>1
  <2>4. TRUE = ExchangeExact(problem, r, h + 1, g + 1)
    BY <1>15, <1>18 DEF ExchangeExact
  <2>5. Q - T <= Q - T
    OBVIOUS
  <2>6. exchange_lower_bound(v, w).exact = TRUE /\ exchange_lower_bound(v, w).delta = Q - T
    BY <2>2, <2>3
  <2> QED
    BY <1>12, <2>4, <2>5, <2>6 DEF Bounds
<1> QED
  BY <1>16, <1>17, <1>18

(***************************************************************************)
(* Where every time window opens before it closes, the bound of            *)
(* tw_penalty_exchange_penalty_delta_lower_bound never exceeds the change  *)
(* of the lateness by an exchange within a route, and is that change       *)
(* whenever it is said to be exact.                                        *)
(***************************************************************************)
THEOREM ExchangesStayBounded ==
  ASSUME \A p \in Problems : OpenWindows(p)
  PROVE  Spec => []ExchangeBounded
<1>1. Inv => ExchangeBounded
  <2> SUFFICES ASSUME Inv, NEW v \in Placed \cap Customer, NEW w \in Placed \cap Customer,
                      data[v].route = data[w].route, data[v].idx < data[w].idx
               PROVE  LET bound == exchange_lower_bound(v, w)
                          x == data[v].route
                          delta == Change(Exchange(Ids, Node(v), Node(w)), x, x)[1]
                      IN  /\ bound.delta <= delta
                          /\ bound.exact => bound.delta = delta
                          /\ bound.exact = ExchangeExact(problem, Ids[x], data[v].idx, data[w].idx)
    BY DEF ExchangeBounded
  <2>0. PICK x \in Route :
          \E h, g : /\ x = data[v].route /\ Node(v) = <<x, h + 1>> /\ Node(w) = <<x, g + 1>>
                    /\ data[v].idx = h + 1 /\ data[w].idx = g + 1
                    /\ Pair(v, w, Ids[x], h, g)
    BY PairAt
  <2>1. PICK h, g : /\ x = data[v].route /\ Node(v) = <<x, h + 1>> /\ Node(w) = <<x, g + 1>>
                    /\ data[v].idx = h + 1 /\ data[w].idx = g + 1
                    /\ Pair(v, w, Ids[x], h, g)
    BY <2>0
  <2>2. PICK f, r, q : f = Ids /\ r = f[x] /\ q = Exchange(f, <<x, h + 1>>, <<x, g + 1>>)[x]
    OBVIOUS
  <2>3. q \in Seq(Customer) /\ Swapped(q, r, h, g)
    <3>1. r \in Seq(Customer) /\ h \in Nat /\ g \in Nat /\ h < g /\ g + 1 <= Len(r)
      BY <2>1, <2>2 DEF Pair
    <3>2. RoutesOf(f)
      BY <2>2 DEF Ids, RoutesOf
    <3> QED
      BY <2>2, <3>1, <3>2, ExchangeWithin
  <2>4. OpenWindows(problem) /\ RouteOf(problem, r) /\ RouteOf(problem, q)
    <3>1. OpenWindows(problem) /\ Instance(problem)
      BY ProblemsAssumption DEF Inv
    <3>2. RouteOf(problem, r)
      BY <2>1, <2>2 DEF Pair
    <3>3. RouteOf(problem, q)
      BY <2>3, <3>1 DEF RouteOf, Customer
    <3> QED
      BY <3>1, <3>2, <3>3
  <2>5. Bounds(v, w, r, q, h, g)
    <3>1. Pair(v, w, r, h, g)
      BY <2>1, <2>2
    <3>2. CASE h + 1 = g
      BY <2>3, <2>4, <3>1, <3>2, BoundNeighbours
    <3>3. CASE h + 1 # g
      BY <2>3, <2>4, <3>1, <3>3, BoundApart
    <3> QED
      BY <3>2, <3>3
  <2>6. Change(Exchange(f, <<x, h + 1>>, <<x, g + 1>>), x, x)[1] = TwPenalty(problem, q) - TwPenalty(problem, r)
    <3>1. Change(Exchange(f, <<x, h + 1>>, <<x, g + 1>>), x, x)[1] = TwPenalty(problem, q) - TwPenalty(problem, r) + 0
      BY <2>2 DEF Change
    <3>2. TwPenalty(problem, q) \in Nat /\ TwPenalty(problem, r) \in Nat
      BY <2>4, PenaltyTypes
    <3> QED
      BY <3>1, <3>2
  <2> QED
    BY <2>1, <2>2, <2>5, <2>6 DEF Bounds
<1> QED
  BY <1>1, AlwaysExact, PTL
================================================================================
