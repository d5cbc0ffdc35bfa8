----------------------------- MODULE RouteProofs -----------------------------
(***************************************************************************)
(* What the array operations and the modifications of Modification do to   *)
(* the elements of the routes, for routes over any set C of customers; and *)
(* the values that are computed along a route: arrivals, lateness, demand, *)
(* and the sums and rests of ejections.  These are functions defined by    *)
(* recursion on an index.  That such a function exists is Recursion; what  *)
(* it computes follows by UpTo, induction on the index, which rests on the *)
(* order of the natural numbers.                                           *)
(***************************************************************************)
EXTENDS Ejection, SequenceTheorems, WellFoundedInduction, TLAPS

\* route_insert_customer: c at index i, the customers from there on one later.
LEMMA InsertBeforeElements ==
  ASSUME NEW C, NEW r \in Seq(C), NEW i \in 1 .. Len(r) + 1, NEW c \in C
  PROVE  /\ InsertBefore(r, i, c) \in Seq(C)
         /\ Len(InsertBefore(r, i, c)) = Len(r) + 1
         /\ \A k \in 1 .. Len(r) + 1 :
              InsertBefore(r, i, c)[k] =
                IF k < i THEN r[k] ELSE IF k = i THEN c ELSE r[k - 1]
<1> DEFINE before == SubSeq(r, 1, i - 1)
           after == SubSeq(r, i, Len(r))
<1>1. /\ before \in Seq(C) /\ Len(before) = i - 1
      /\ \A k \in 1 .. i - 1 : before[k] = r[k]
  <2>1. \A k \in 1 .. i - 1 : r[k] \in C
    OBVIOUS
  <2> QED
    BY <2>1, SubSeqProperties
<1>2. /\ after \in Seq(C) /\ Len(after) = Len(r) - i + 1
      /\ \A k \in 1 .. Len(r) - i + 1 : after[k] = r[k + i - 1]
  <2>1. \A k \in i .. Len(r) : r[k] \in C
    OBVIOUS
  <2> QED
    BY <2>1, SubSeqProperties
<1> DEFINE front == before \o <<c>>
<1>3. /\ front \in Seq(C) /\ Len(front) = i
      /\ \A k \in 1 .. i : front[k] = IF k < i THEN before[k] ELSE c
  <2> HIDE DEF before
  <2> QED
    BY <1>1
<1>4. /\ front \o after \in Seq(C) /\ Len(front \o after) = Len(r) + 1
      /\ \A k \in 1 .. Len(r) + 1 :
           (front \o after)[k] = IF k <= i THEN front[k] ELSE after[k - i]
  <2> HIDE DEF before, front, after
  <2>1. front \in Seq(C) /\ after \in Seq(C)
    BY <1>2, <1>3
  <2>2. front \o after \in Seq(C) /\ Len(front \o after) = Len(front) + Len(after)
    BY <2>1
  <2>3. \A k \in 1 .. Len(r) + 1 :
          (front \o after)[k] = IF k <= i THEN front[k] ELSE after[k - i]
    BY <1>2, <1>3
  <2> QED
    BY <1>2, <1>3, <2>2, <2>3
<1>5. InsertBefore(r, i, c) = front \o after
  BY DEF InsertBefore
<1>6. ASSUME NEW k \in 1 .. Len(r) + 1
      PROVE  (front \o after)[k] = IF k < i THEN r[k] ELSE IF k = i THEN c ELSE r[k - 1]
  <2> HIDE DEF before, after
  <2> QED
    BY <1>1, <1>2, <1>3, <1>4
<1> QED
  <2> HIDE DEF before, after, front
  <2> QED
    BY <1>4, <1>5, <1>6

\* route_remove_customer: the customers after index i one earlier.
LEMMA RemoveIndexElements ==
  ASSUME NEW C, NEW r \in Seq(C), NEW i \in 1 .. Len(r)
  PROVE  /\ RemoveIndex(r, i) \in Seq(C)
         /\ Len(RemoveIndex(r, i)) = Len(r) - 1
         /\ \A k \in 1 .. Len(r) - 1 :
              RemoveIndex(r, i)[k] = IF k < i THEN r[k] ELSE r[k + 1]
<1> DEFINE before == SubSeq(r, 1, i - 1)
           after == SubSeq(r, i + 1, Len(r))
<1>1. /\ before \in Seq(C) /\ Len(before) = i - 1
      /\ \A k \in 1 .. i - 1 : before[k] = r[k]
  <2>1. \A k \in 1 .. i - 1 : r[k] \in C
    OBVIOUS
  <2> QED
    BY <2>1, SubSeqProperties
<1>2. /\ after \in Seq(C) /\ Len(after) = Len(r) - i
      /\ \A k \in 1 .. Len(r) - i : after[k] = r[k + i]
  <2>1. \A k \in i + 1 .. Len(r) : r[k] \in C
    OBVIOUS
  <2> QED
    BY <2>1, SubSeqProperties
<1>3. /\ before \o after \in Seq(C) /\ Len(before \o after) = Len(r) - 1
      /\ \A k \in 1 .. Len(r) - 1 :
           (before \o after)[k] = IF k < i THEN before[k] ELSE after[k - (i - 1)]
  <2> HIDE DEF before, after
  <2>1. before \o after \in Seq(C) /\ Len(before \o after) = Len(r) - 1
    BY <1>1, <1>2
  <2>2. \A k \in 1 .. Len(r) - 1 :
          (before \o after)[k] = IF k < i THEN before[k] ELSE after[k - (i - 1)]
    BY <1>1, <1>2
  <2> QED
    BY <2>1, <2>2
<1>4. RemoveIndex(r, i) = before \o after
  BY DEF RemoveIndex
<1>5. ASSUME NEW k \in 1 .. Len(r) - 1
      PROVE  (before \o after)[k] = IF k < i THEN r[k] ELSE r[k + 1]
  <2> HIDE DEF before, after
  <2> QED
    BY <1>1, <1>2, <1>3
<1> QED
  <2> HIDE DEF before, after
  <2> QED
    BY <1>3, <1>4, <1>5

\* The two memcpy of TWO_OPT: the head of r in front of the rest of q.
LEMMA SpliceElements ==
  ASSUME NEW C, NEW r \in Seq(C), NEW i \in 0 .. Len(r),
         NEW q \in Seq(C), NEW j \in 0 .. Len(q)
  PROVE  /\ Splice(r, i, q, j) \in Seq(C)
         /\ Len(Splice(r, i, q, j)) = i + Len(q) - j
         /\ \A k \in 1 .. i + Len(q) - j :
              Splice(r, i, q, j)[k] = IF k <= i THEN r[k] ELSE q[k - i + j]
<1> DEFINE before == SubSeq(r, 1, i)
           after == SubSeq(q, j + 1, Len(q))
<1>1. /\ before \in Seq(C) /\ Len(before) = i
      /\ \A k \in 1 .. i : before[k] = r[k]
  <2>1. \A k \in 1 .. i : r[k] \in C
    OBVIOUS
  <2> QED
    BY <2>1, SubSeqProperties
<1>2. /\ after \in Seq(C) /\ Len(after) = Len(q) - j
      /\ \A k \in 1 .. Len(q) - j : after[k] = q[k + j]
  <2>1. \A k \in j + 1 .. Len(q) : q[k] \in C
    OBVIOUS
  <2> QED
    BY <2>1, SubSeqProperties
<1>3. /\ before \o after \in Seq(C) /\ Len(before \o after) = i + Len(q) - j
      /\ \A k \in 1 .. i + Len(q) - j :
           (before \o after)[k] = IF k <= i THEN before[k] ELSE after[k - i]
  <2> HIDE DEF before, after
  <2>1. before \in Seq(C) /\ after \in Seq(C)
    BY <1>1, <1>2
  <2>2. before \o after \in Seq(C) /\ Len(before \o after) = Len(before) + Len(after)
    BY <2>1
  <2>3. \A k \in 1 .. i + Len(q) - j :
          (before \o after)[k] = IF k <= i THEN before[k] ELSE after[k - i]
    BY <1>1, <1>2
  <2> QED
    BY <1>1, <1>2, <2>2, <2>3
<1>4. Splice(r, i, q, j) = before \o after
  BY DEF Splice
<1>5. ASSUME NEW k \in 1 .. i + Len(q) - j
      PROVE  (before \o after)[k] = IF k <= i THEN r[k] ELSE q[k - i + j]
  <2> HIDE DEF before, after
  <2> QED
    BY <1>1, <1>2, <1>3
<1> QED
  <2> HIDE DEF before, after
  <2> QED
    BY <1>3, <1>4, <1>5
-----------------------------------------------------------------------------
\* The nodes v an insertion may be made at, and those that are customers.
LEMMA NodeTypes ==
  ASSUME NEW C, NEW rts \in Seq(Seq(C))
  PROVE  /\ \A v \in InsertNodes(rts) :
              v \in Nat \X Nat /\ v[1] \in 1 .. Len(rts) /\ v[2] \in 1 .. Len(rts[v[1]]) + 1
         /\ \A v \in CustomerNodes(rts) :
              v \in Nat \X Nat /\ v[1] \in 1 .. Len(rts) /\ v[2] \in 1 .. Len(rts[v[1]])
         /\ \A x \in 1 .. Len(rts) : \A i \in 1 .. Len(rts[x]) + 1 : <<x, i>> \in InsertNodes(rts)
         /\ \A x \in 1 .. Len(rts) : \A i \in 1 .. Len(rts[x]) : <<x, i>> \in CustomerNodes(rts)
<1>1. \A x \in 1 .. Len(rts) : rts[x] \in Seq(C) /\ Len(rts[x]) \in Nat
  OBVIOUS
<1>2. DOMAIN rts = 1 .. Len(rts)
  OBVIOUS
<1>3. ASSUME NEW v \in InsertNodes(rts)
      PROVE  v \in Nat \X Nat /\ v[1] \in 1 .. Len(rts) /\ v[2] \in 1 .. Len(rts[v[1]]) + 1
  <2>1. PICK x \in 1 .. Len(rts) : v \in {x} \X (1 .. Len(rts[x]) + 1)
    BY <1>2 DEF InsertNodes
  <2> QED
    BY <2>1, <1>1
<1>4. ASSUME NEW v \in CustomerNodes(rts)
      PROVE  v \in Nat \X Nat /\ v[1] \in 1 .. Len(rts) /\ v[2] \in 1 .. Len(rts[v[1]])
  <2>1. PICK x \in 1 .. Len(rts) : v \in {x} \X (1 .. Len(rts[x]))
    BY <1>2 DEF CustomerNodes
  <2> QED
    BY <2>1, <1>1
<1>5. \A x \in 1 .. Len(rts) : \A i \in 1 .. Len(rts[x]) + 1 : <<x, i>> \in InsertNodes(rts)
  BY <1>2 DEF InsertNodes
<1>6. \A x \in 1 .. Len(rts) : \A i \in 1 .. Len(rts[x]) : <<x, i>> \in CustomerNodes(rts)
  BY <1>2 DEF CustomerNodes
<1> QED
  BY <1>3, <1>4, <1>5, <1>6

\* INSERT changes the route of v alone, as InsertBefore does.
LEMMA InsertRoutes ==
  ASSUME NEW C, NEW rts \in Seq(Seq(C)), NEW v \in InsertNodes(rts), NEW c \in C
  PROVE  /\ Insert(rts, v, c) \in Seq(Seq(C))
         /\ Len(Insert(rts, v, c)) = Len(rts)
         /\ \A x \in 1 .. Len(rts) :
              Insert(rts, v, c)[x] = IF x = v[1] THEN InsertBefore(rts[x], v[2], c) ELSE rts[x]
<1>1. v[1] \in 1 .. Len(rts) /\ v[2] \in 1 .. Len(rts[v[1]]) + 1
  BY NodeTypes
<1>2. rts[v[1]] \in Seq(C)
  BY <1>1
<1>3. InsertBefore(rts[v[1]], v[2], c) \in Seq(C)
  BY <1>1, <1>2, InsertBeforeElements
<1> QED
  BY <1>1, <1>3, ExceptSeq DEF Insert

\* EJECT changes the route of v alone, as RemoveIndex does.
LEMMA EjectRoutes ==
  ASSUME NEW C, NEW rts \in Seq(Seq(C)), NEW v \in CustomerNodes(rts)
  PROVE  /\ Eject(rts, v) \in Seq(Seq(C))
         /\ Len(Eject(rts, v)) = Len(rts)
         /\ \A x \in 1 .. Len(rts) :
              Eject(rts, v)[x] = IF x = v[1] THEN RemoveIndex(rts[x], v[2]) ELSE rts[x]
<1>1. v[1] \in 1 .. Len(rts) /\ v[2] \in 1 .. Len(rts[v[1]])
  BY NodeTypes
<1>2. rts[v[1]] \in Seq(C)
  BY <1>1
<1>3. RemoveIndex(rts[v[1]], v[2]) \in Seq(C)
  BY <1>1, <1>2, RemoveIndexElements
<1> QED
  BY <1>1, <1>3, ExceptSeq DEF Eject

\* The roll-back of a try of insert_eject: EJECT of the customer just inserted.
LEMMA EjectAfterInsert ==
  ASSUME NEW C, NEW rts \in Seq(Seq(C)), NEW v \in InsertNodes(rts), NEW c \in C
  PROVE  /\ v \in CustomerNodes(Insert(rts, v, c))
         /\ Eject(Insert(rts, v, c), v) = rts
<1> DEFINE after == Insert(rts, v, c)
<1>1. v[1] \in 1 .. Len(rts) /\ v[2] \in 1 .. Len(rts[v[1]]) + 1 /\ v = <<v[1], v[2]>>
  BY NodeTypes
<1>2. after \in Seq(Seq(C)) /\ Len(after) = Len(rts)
      /\ \A x \in 1 .. Len(rts) :
           after[x] = IF x = v[1] THEN InsertBefore(rts[x], v[2], c) ELSE rts[x]
  BY InsertRoutes
<1>3. PICK r \in Seq(C) : r = rts[v[1]]
  BY <1>1
<1>4. PICK i \in 1 .. Len(r) + 1 : i = v[2]
  BY <1>1, <1>3
<1>5. PICK q : q = after[v[1]]
  OBVIOUS
<1>6. q = InsertBefore(r, i, c)
  <2> HIDE DEF after
  <2> QED
    BY <1>1, <1>2, <1>3, <1>4, <1>5
<1>7. /\ q \in Seq(C) /\ Len(q) = Len(r) + 1
      /\ \A k \in 1 .. Len(r) + 1 :
           q[k] = IF k < i THEN r[k] ELSE IF k = i THEN c ELSE r[k - 1]
  <2>1. /\ InsertBefore(r, i, c) \in Seq(C)
        /\ Len(InsertBefore(r, i, c)) = Len(r) + 1
        /\ \A k \in 1 .. Len(r) + 1 :
             InsertBefore(r, i, c)[k] = IF k < i THEN r[k] ELSE IF k = i THEN c ELSE r[k - 1]
    BY InsertBeforeElements
  <2> QED
    BY <1>6, <2>1
<1>8. v \in CustomerNodes(after)
  <2> HIDE DEF after
  <2>1. v[1] \in 1 .. Len(after) /\ v[2] \in 1 .. Len(after[v[1]])
    BY <1>1, <1>2, <1>4, <1>5, <1>7
  <2> QED
    BY <1>1, <1>2, <2>1, NodeTypes
<1>9. RemoveIndex(q, i) = r
  <2>1. i \in 1 .. Len(q)
    BY <1>7
  <2>2. /\ RemoveIndex(q, i) \in Seq(C)
        /\ Len(RemoveIndex(q, i)) = Len(q) - 1
        /\ \A k \in 1 .. Len(q) - 1 :
             RemoveIndex(q, i)[k] = IF k < i THEN q[k] ELSE q[k + 1]
    BY <1>7, <2>1, RemoveIndexElements
  <2>3. Len(RemoveIndex(q, i)) = Len(r)
    BY <1>7, <2>2
  <2>4. ASSUME NEW k \in 1 .. Len(r)
        PROVE  RemoveIndex(q, i)[k] = r[k]
    <3>1. RemoveIndex(q, i)[k] = IF k < i THEN q[k] ELSE q[k + 1]
      BY <1>7, <2>2
    <3>2. CASE k < i
      BY <1>7, <3>1, <3>2
    <3>3. CASE k >= i
      <4>1. q[k + 1] = r[(k + 1) - 1]
        BY <1>7, <3>3
      <4> QED
        BY <3>1, <3>3, <4>1
    <3> QED
      BY <3>2, <3>3
  <2> QED
    BY <2>2, <2>3, <2>4, SeqEqual
<1>10. Eject(after, v) = rts
  <2> HIDE DEF after
  <2>1. Eject(after, v) \in Seq(Seq(C)) /\ Len(Eject(after, v)) = Len(rts)
        /\ \A x \in 1 .. Len(rts) :
             Eject(after, v)[x] = IF x = v[1] THEN RemoveIndex(after[x], v[2]) ELSE after[x]
    BY <1>2, <1>8, EjectRoutes
  <2>2. \A x \in 1 .. Len(rts) : Eject(after, v)[x] = rts[x]
    BY <1>2, <1>3, <1>4, <1>5, <1>9, <2>1
  <2> QED
    BY <2>1, <2>2, SeqEqual
<1> QED
  BY <1>8, <1>10
-----------------------------------------------------------------------------
\* TWO_OPT leaves two routes of C where there were two.
LEMMA TwoOptRoutes ==
  ASSUME NEW C, NEW rts \in Seq(Seq(C)), NEW v \in Nat \X Nat, NEW w \in Nat \X Nat,
         v[1] \in 1 .. Len(rts), v[2] \in 0 .. Len(rts[v[1]]),
         w[1] \in 1 .. Len(rts), w[2] \in 0 .. Len(rts[w[1]])
  PROVE  TwoOpt(rts, v, w) \in Seq(Seq(C)) /\ Len(TwoOpt(rts, v, w)) = Len(rts)
<1> DEFINE first == Splice(rts[v[1]], v[2], rts[w[1]], w[2])
           second == Splice(rts[w[1]], w[2], rts[v[1]], v[2])
<1>1. rts[v[1]] \in Seq(C) /\ rts[w[1]] \in Seq(C)
  OBVIOUS
<1>2. first \in Seq(C)
  BY <1>1, SpliceElements
<1>3. second \in Seq(C)
  BY <1>1, SpliceElements
<1>4. TwoOpt(rts, v, w) = [rts EXCEPT ![v[1]] = first, ![w[1]] = second]
  BY DEF TwoOpt
<1> HIDE DEF first, second
<1> QED
  BY <1>2, <1>3, <1>4

\* OUT_RELOCATE ejects w and inserts it at a node of what is left.
LEMMA OutRelocateNode ==
  ASSUME NEW C, NEW rts \in Seq(Seq(C)), NEW v \in InsertNodes(rts),
         NEW w \in CustomerNodes(rts), v # w
  PROVE  (IF v[1] = w[1] /\ w[2] < v[2] THEN <<v[1], v[2] - 1>> ELSE v)
           \in InsertNodes(Eject(rts, w))
<1> DEFINE left == Eject(rts, w)
           to == IF v[1] = w[1] /\ w[2] < v[2] THEN <<v[1], v[2] - 1>> ELSE v
<1>1. /\ v \in Nat \X Nat /\ v[1] \in 1 .. Len(rts) /\ v[2] \in 1 .. Len(rts[v[1]]) + 1
      /\ w \in Nat \X Nat /\ w[1] \in 1 .. Len(rts) /\ w[2] \in 1 .. Len(rts[w[1]])
  BY NodeTypes
<1>2. /\ left \in Seq(Seq(C)) /\ Len(left) = Len(rts)
      /\ \A x \in 1 .. Len(rts) :
           left[x] = IF x = w[1] THEN RemoveIndex(rts[x], w[2]) ELSE rts[x]
  BY EjectRoutes
<1>3. rts[w[1]] \in Seq(C)
  BY <1>1
<1>4. Len(RemoveIndex(rts[w[1]], w[2])) = Len(rts[w[1]]) - 1
  BY <1>1, <1>3, RemoveIndexElements
<1>5. v[1] # w[1] \/ v[2] # w[2]
  <2>1. v = <<v[1], v[2]>> /\ w = <<w[1], w[2]>>
    BY <1>1
  <2> QED
    BY <2>1
<1> HIDE DEF left
<1>6. Len(left[v[1]]) = IF v[1] = w[1] THEN Len(rts[v[1]]) - 1 ELSE Len(rts[v[1]])
  BY <1>1, <1>2, <1>4
<1>7. to[1] = v[1] /\ to = <<to[1], to[2]>> /\ to[2] \in 1 .. Len(left[v[1]]) + 1
  <2>1. PICK n \in Nat : n = Len(rts[v[1]])
    BY <1>1
  <2>2. CASE v[1] = w[1] /\ w[2] < v[2]
    BY <1>1, <1>6, <2>1, <2>2
  <2>3. CASE ~(v[1] = w[1] /\ w[2] < v[2])
    <3>1. v = <<v[1], v[2]>> /\ to = v
      BY <1>1, <2>3
    <3> QED
      BY <1>1, <1>5, <1>6, <2>1, <2>3, <3>1
  <2> QED
    BY <2>2, <2>3
<1>8. to \in InsertNodes(left)
  <2> HIDE DEF to
  <2>1. to[1] \in 1 .. Len(left) /\ to[2] \in 1 .. Len(left[to[1]]) + 1
    BY <1>1, <1>2, <1>7
  <2>2. <<to[1], to[2]>> \in InsertNodes(left)
    BY <1>2, <2>1, NodeTypes
  <2> QED
    BY <1>7, <2>2
<1> QED
  BY <1>8 DEF left

\* OUT_RELOCATE gives sequences of customers, as many as before.
LEMMA OutRelocateRoutes ==
  ASSUME NEW C, NEW rts \in Seq(Seq(C)), NEW v \in InsertNodes(rts),
         NEW w \in CustomerNodes(rts)
  PROVE  OutRelocate(rts, v, w) \in Seq(Seq(C)) /\ Len(OutRelocate(rts, v, w)) = Len(rts)
<1>1. CASE v = w
  BY <1>1 DEF OutRelocate
<1>2. CASE v # w
  <2> DEFINE left == Eject(rts, w)
             to == IF v[1] = w[1] /\ w[2] < v[2] THEN <<v[1], v[2] - 1>> ELSE v
             c == rts[w[1]][w[2]]
  <2>1. left \in Seq(Seq(C)) /\ Len(left) = Len(rts)
    BY EjectRoutes
  <2>2. to \in InsertNodes(left)
    BY <1>2, OutRelocateNode
  <2>3. c \in C
    <3>1. w[1] \in 1 .. Len(rts) /\ w[2] \in 1 .. Len(rts[w[1]])
      BY NodeTypes
    <3> QED
      BY <3>1
  <2>4. OutRelocate(rts, v, w) = Insert(left, to, c)
    BY <1>2 DEF OutRelocate
  <2> HIDE DEF left, to, c
  <2> QED
    BY <2>1, <2>2, <2>3, <2>4, InsertRoutes
<1> QED
  BY <1>1, <1>2

\* EXCHANGE changes the customers at two places only.
LEMMA ExchangeRoutes ==
  ASSUME NEW C, NEW rts \in Seq(Seq(C)), NEW v \in CustomerNodes(rts),
         NEW w \in CustomerNodes(rts)
  PROVE  Exchange(rts, v, w) \in Seq(Seq(C)) /\ Len(Exchange(rts, v, w)) = Len(rts)
<1>1. /\ v[1] \in 1 .. Len(rts) /\ v[2] \in 1 .. Len(rts[v[1]])
      /\ w[1] \in 1 .. Len(rts) /\ w[2] \in 1 .. Len(rts[w[1]])
  BY NodeTypes
<1>2. rts[v[1]] \in Seq(C) /\ rts[w[1]] \in Seq(C)
  BY <1>1
<1>3. PICK c \in C : c = rts[w[1]][w[2]]
  BY <1>1, <1>2
<1>4. PICK d \in C : d = rts[v[1]][v[2]]
  BY <1>1, <1>2
<1> DEFINE half == [rts EXCEPT ![v[1]] = [rts[v[1]] EXCEPT ![v[2]] = c]]
<1>5. half \in Seq(Seq(C)) /\ Len(half) = Len(rts)
      /\ half[w[1]] \in Seq(C) /\ Len(half[w[1]]) = Len(rts[w[1]])
  BY <1>1, <1>2
<1>6. Exchange(rts, v, w) = [half EXCEPT ![w[1]] = [half[w[1]] EXCEPT ![w[2]] = d]]
  BY <1>1, <1>3, <1>4 DEF Exchange
<1> HIDE DEF half
<1>7. [half[w[1]] EXCEPT ![w[2]] = d] \in Seq(C)
  BY <1>1, <1>5
<1> QED
  BY <1>1, <1>5, <1>6, <1>7

\* What the kind of a node says about its index.
LEMMA NodeKinds ==
  ASSUME NEW C, NEW rts \in Seq(Seq(C)), NEW u \in Nodes(rts)
  PROVE  /\ u \in Nat \X Nat /\ u[1] \in 1 .. Len(rts) /\ u[2] \in 0 .. Len(rts[u[1]]) + 1
         /\ ~IsHead(u) => u \in InsertNodes(rts)
         /\ ~IsDepot(rts, u) => u \in CustomerNodes(rts)
         /\ ~IsTail(rts, u) => u[2] \in 0 .. Len(rts[u[1]])
<1>1. PICK x \in 1 .. Len(rts) : u \in {x} \X (0 .. Len(rts[x]) + 1)
  <2>1. DOMAIN rts = 1 .. Len(rts)
    OBVIOUS
  <2> QED
    BY <2>1 DEF Nodes
<1>2. Len(rts[x]) \in Nat
  OBVIOUS
<1>3. /\ u \in Nat \X Nat /\ u[1] = x /\ u[2] \in 0 .. Len(rts[u[1]]) + 1
      /\ u = <<u[1], u[2]>>
  BY <1>1, <1>2
<1>4. ~IsHead(u) => u[2] \in 1 .. Len(rts[x]) + 1
  BY <1>2, <1>3 DEF IsHead
<1>5. ~IsTail(rts, u) => u[2] \in 0 .. Len(rts[x])
  BY <1>2, <1>3 DEF IsTail
<1>6. ~IsDepot(rts, u) => u[2] \in 1 .. Len(rts[x])
  BY <1>2, <1>4, <1>5 DEF IsDepot
<1> QED
  BY <1>3, <1>4, <1>5, <1>6, NodeTypes

\* A move that is applicable to two nodes keeps the array of routes one of C.
LEMMA MoveRoutes ==
  ASSUME NEW C, NEW rts \in Seq(Seq(C)), NEW type \in Moves,
         NEW v \in Nodes(rts), NEW w \in Nodes(rts),
         modification_applicable(rts, type, v, w)
  PROVE  /\ modification_apply(rts, type, v, w) \in Seq(Seq(C))
         /\ Len(modification_apply(rts, type, v, w)) = Len(rts)
<1>1. CASE type = "TWO_OPT"
  <2>1. ~IsTail(rts, v) /\ ~IsTail(rts, w)
    BY <1>1 DEF modification_applicable
  <2> QED
    BY <1>1, <2>1, NodeKinds, TwoOptRoutes DEF modification_apply
<1>2. CASE type = "OUT_RELOCATE"
  <2>1. ~IsDepot(rts, w) /\ ~IsHead(v)
    BY <1>2 DEF modification_applicable
  <2> QED
    BY <1>2, <2>1, NodeKinds, OutRelocateRoutes DEF modification_apply
<1>3. CASE type = "EXCHANGE"
  <2>1. ~IsDepot(rts, v) /\ ~IsDepot(rts, w)
    BY <1>3 DEF modification_applicable
  <2> QED
    BY <1>3, <2>1, NodeKinds, ExchangeRoutes DEF modification_apply
<1> QED
  BY <1>1, <1>2, <1>3 DEF Moves

\* A move leaves the routes other than those of its two nodes as they are.
LEMMA MoveOthers ==
  ASSUME NEW C, NEW rts \in Seq(Seq(C)), NEW type \in Moves, NEW v, NEW w,
         NEW x \in 1 .. Len(rts), x # v[1], x # w[1]
  PROVE  modification_apply(rts, type, v, w)[x] = rts[x]
<1>1. x \in DOMAIN rts
  OBVIOUS
<1>2. TwoOpt(rts, v, w)[x] = rts[x]
  BY <1>1 DEF TwoOpt
<1>3. OutRelocate(rts, v, w)[x] = rts[x]
  <2> DEFINE to == IF v[1] = w[1] /\ w[2] < v[2] THEN <<v[1], v[2] - 1>> ELSE v
  <2>1. to[1] = v[1]
    OBVIOUS
  <2>2. x \in DOMAIN Eject(rts, w) /\ Eject(rts, w)[x] = rts[x]
    BY <1>1 DEF Eject
  <2> HIDE DEF to
  <2>3. Insert(Eject(rts, w), to, rts[w[1]][w[2]])[x] = rts[x]
    BY <2>1, <2>2 DEF Insert
  <2> QED
    BY <2>3 DEF OutRelocate, to
<1>4. Exchange(rts, v, w)[x] = rts[x]
  BY <1>1 DEF Exchange
<1> QED
  BY <1>2, <1>3, <1>4 DEF modification_apply, Moves
-----------------------------------------------------------------------------
(***************************************************************************)
(* Which customers the routes hold after a modification: first which ones  *)
(* a route has after each of the array operations, then which ones all     *)
(* routes have together.                                                   *)
(***************************************************************************)
\* The customers of a route or of the pool, and that none is there twice.
Elems(r) == {r[i] : i \in 1 .. Len(r)}
Distinct(r) == \A i, j \in 1 .. Len(r) : r[i] = r[j] => i = j

\* The customers up to an index and those behind it.
Upto(r, i) == {r[k] : k \in 1 .. i}
Behind(r, i) == {r[k] : k \in i + 1 .. Len(r)}

\* The places EXCHANGE writes to.
Replace(r, i, c) == [r EXCEPT ![i] = c]
Swap(r, i, j) == [r EXCEPT ![i] = r[j], ![j] = r[i]]

\* One customer more in a route.
LEMMA InsertBeforeElems ==
  ASSUME NEW C, NEW r \in Seq(C), NEW i \in 1 .. Len(r) + 1, NEW c \in C,
         Distinct(r), c \notin Elems(r)
  PROVE  /\ Distinct(InsertBefore(r, i, c))
         /\ Elems(InsertBefore(r, i, c)) = Elems(r) \cup {c}
<1>1. PICK n \in Nat : n = Len(r)
  OBVIOUS
<1>2. i \in 1 .. n + 1
  BY <1>1
<1>3. PICK q : q = InsertBefore(r, i, c)
  OBVIOUS
<1>4. Len(q) = n + 1
  BY <1>1, <1>3, InsertBeforeElements
<1>5. \A k \in 1 .. n + 1 : q[k] = IF k < i THEN r[k] ELSE IF k = i THEN c ELSE r[k - 1]
  BY <1>1, <1>3, InsertBeforeElements
<1>6. \A k \in 1 .. n : r[k] # c
  BY <1>1 DEF Elems
<1>7. \A j, k \in 1 .. n : r[j] = r[k] => j = k
  BY <1>1 DEF Distinct
<1>8. ASSUME NEW j \in 1 .. n + 1, NEW k \in 1 .. n + 1, q[j] = q[k]
      PROVE  j = k
  <2>1. ASSUME NEW h \in 1 .. n + 1, q[h] = c
        PROVE  h = i
    BY <1>2, <1>5, <1>6, <2>1
  <2>2. CASE j = i \/ k = i
    BY <1>2, <1>5, <1>8, <2>1, <2>2
  <2>3. CASE j # i /\ k # i
    <3>1. PICK g \in 1 .. n : q[j] = r[g] /\ j = IF g < i THEN g ELSE g + 1
      BY <1>2, <1>5, <2>3
    <3>2. PICK h \in 1 .. n : q[k] = r[h] /\ k = IF h < i THEN h ELSE h + 1
      BY <1>2, <1>5, <2>3
    <3>3. g = h
      BY <1>7, <1>8, <3>1, <3>2
    <3> QED
      BY <3>1, <3>2, <3>3
  <2> QED
    BY <2>2, <2>3
<1>9. ASSUME NEW k \in 1 .. n + 1
      PROVE  q[k] \in Elems(r) \cup {c}
  <2>1. q[k] = c \/ \E j \in 1 .. n : q[k] = r[j]
    BY <1>2, <1>5
  <2> QED
    BY <1>1, <2>1 DEF Elems
<1>10. ASSUME NEW j \in 1 .. n
       PROVE  \E k \in 1 .. n + 1 : q[k] = r[j]
  <2>1. CASE j < i
    BY <1>5, <2>1
  <2>2. CASE j >= i
    <3>1. j + 1 \in 1 .. n + 1 /\ q[j + 1] = r[(j + 1) - 1]
      BY <1>2, <1>5, <2>2
    <3>2. (j + 1) - 1 = j
      OBVIOUS
    <3> QED
      BY <3>1, <3>2
  <2> QED
    BY <1>2, <2>1, <2>2
<1>11. i \in 1 .. n + 1 /\ q[i] = c
  BY <1>2, <1>5
<1>12. Distinct(q)
  BY <1>4, <1>8 DEF Distinct
<1>13. Elems(q) = Elems(r) \cup {c}
  <2>1. \A d \in Elems(q) : d \in Elems(r) \cup {c}
    BY <1>4, <1>9 DEF Elems
  <2>2. \A d \in Elems(r) : d \in Elems(q)
    BY <1>1, <1>4, <1>10 DEF Elems
  <2>3. c \in Elems(q)
    BY <1>4, <1>11 DEF Elems
  <2> QED
    BY <2>1, <2>2, <2>3
<1> QED
  BY <1>3, <1>12, <1>13

\* One customer less in a route.
LEMMA RemoveIndexElems ==
  ASSUME NEW C, NEW r \in Seq(C), NEW i \in 1 .. Len(r), Distinct(r)
  PROVE  /\ Distinct(RemoveIndex(r, i))
         /\ Elems(RemoveIndex(r, i)) = Elems(r) \ {r[i]}
<1>1. PICK n \in Nat : n = Len(r)
  OBVIOUS
<1>2. i \in 1 .. n
  BY <1>1
<1>3. PICK q : q = RemoveIndex(r, i)
  OBVIOUS
<1>4. Len(q) = n - 1
  BY <1>1, <1>3, RemoveIndexElements
<1>5. \A k \in 1 .. n - 1 : q[k] = IF k < i THEN r[k] ELSE r[k + 1]
  BY <1>1, <1>3, RemoveIndexElements
<1>6. \A j, k \in 1 .. n : r[j] = r[k] => j = k
  BY <1>1 DEF Distinct
<1>7. ASSUME NEW j \in 1 .. n - 1, NEW k \in 1 .. n - 1, q[j] = q[k]
      PROVE  j = k
  BY <1>2, <1>5, <1>6, <1>7
<1>8. ASSUME NEW k \in 1 .. n - 1
      PROVE  \E j \in 1 .. n : q[k] = r[j] /\ r[j] # r[i]
  BY <1>2, <1>5, <1>6
<1>9. ASSUME NEW j \in 1 .. n, r[j] # r[i]
      PROVE  \E k \in 1 .. n - 1 : q[k] = r[j]
  <2>1. j # i
    BY <1>9
  <2>2. CASE j < i
    BY <1>2, <1>5, <2>2
  <2>3. CASE j > i
    <3>1. j - 1 \in 1 .. n - 1 /\ q[j - 1] = r[(j - 1) + 1]
      BY <1>2, <1>5, <2>3
    <3>2. (j - 1) + 1 = j
      OBVIOUS
    <3> QED
      BY <3>1, <3>2
  <2> QED
    BY <1>2, <2>1, <2>2, <2>3
<1>10. Distinct(q)
  BY <1>4, <1>7 DEF Distinct
<1>11. Elems(q) = Elems(r) \ {r[i]}
  <2>1. \A d \in Elems(q) : d \in Elems(r) /\ d # r[i]
    BY <1>1, <1>4, <1>8 DEF Elems
  <2>2. \A d \in Elems(r) \ {r[i]} : d \in Elems(q)
    BY <1>1, <1>4, <1>9 DEF Elems
  <2> QED
    BY <2>1, <2>2
<1> QED
  BY <1>3, <1>10, <1>11

\* TWO_OPT joins the customers up to index i of r and those after index j of q.
LEMMA SpliceElems ==
  ASSUME NEW C, NEW r \in Seq(C), NEW i \in 0 .. Len(r),
         NEW q \in Seq(C), NEW j \in 0 .. Len(q),
         Distinct(r), Distinct(q), Elems(r) \cap Elems(q) = {}
  PROVE  /\ Distinct(Splice(r, i, q, j))
         /\ Elems(Splice(r, i, q, j)) = Upto(r, i) \cup Behind(q, j)
<1>1. PICK m \in Nat : m = Len(r)
  OBVIOUS
<1>2. PICK n \in Nat : n = Len(q)
  OBVIOUS
<1>3. i \in 0 .. m /\ j \in 0 .. n
  BY <1>1, <1>2
<1>4. PICK f : f = Splice(r, i, q, j)
  OBVIOUS
<1>5. /\ Len(f) = i + n - j
      /\ \A k \in 1 .. i + n - j : f[k] = IF k <= i THEN r[k] ELSE q[k - i + j]
  <2>1. /\ Len(Splice(r, i, q, j)) = i + Len(q) - j
        /\ \A k \in 1 .. i + Len(q) - j :
             Splice(r, i, q, j)[k] = IF k <= i THEN r[k] ELSE q[k - i + j]
    BY SpliceElements
  <2> QED
    BY <1>2, <1>4, <2>1
<1>6. \A k \in 1 .. i + n - j : f[k] = IF k <= i THEN r[k] ELSE q[k - i + j]
  BY <1>5
<1>7. \A g, h \in 1 .. m : r[g] = r[h] => g = h
  BY <1>1 DEF Distinct
<1>8. \A g, h \in 1 .. n : q[g] = q[h] => g = h
  BY <1>2 DEF Distinct
<1>9. \A g \in 1 .. m, h \in 1 .. n : r[g] # q[h]
  BY <1>1, <1>2 DEF Elems
<1>10. ASSUME NEW g \in 1 .. i + n - j
       PROVE  \/ g \in 1 .. i /\ f[g] = r[g]
              \/ g > i /\ g - i + j \in j + 1 .. n /\ f[g] = q[g - i + j]
  BY <1>3, <1>6
<1>11. ASSUME NEW g \in 1 .. i + n - j, NEW h \in 1 .. i + n - j, f[g] = f[h]
       PROVE  g = h
  <2>1. CASE g \in 1 .. i /\ h \in 1 .. i
    BY <1>3, <1>6, <1>7, <1>11, <2>1
  <2>2. CASE g > i /\ h > i
    <3>1. q[g - i + j] = q[h - i + j]
      BY <1>3, <1>6, <1>11, <2>2
    <3>2. g - i + j \in 1 .. n /\ h - i + j \in 1 .. n
      BY <1>3, <2>2
    <3>3. g - i + j = h - i + j
      BY <1>8, <3>1, <3>2
    <3> QED
      BY <1>3, <3>3
  <2>3. CASE g \in 1 .. i /\ h > i
    <3>1. r[g] = q[h - i + j] /\ h - i + j \in 1 .. n /\ g \in 1 .. m
      BY <1>3, <1>6, <1>11, <2>3
    <3> QED
      BY <1>9, <3>1
  <2>4. CASE g > i /\ h \in 1 .. i
    <3>1. r[h] = q[g - i + j] /\ g - i + j \in 1 .. n /\ h \in 1 .. m
      BY <1>3, <1>6, <1>11, <2>4
    <3> QED
      BY <1>9, <3>1
  <2> QED
    BY <1>3, <2>1, <2>2, <2>3, <2>4
<1>12. \A k \in 1 .. i : k \in 1 .. i + n - j /\ f[k] = r[k]
  BY <1>3, <1>6
<1>13. ASSUME NEW k \in j + 1 .. n
       PROVE  \E g \in 1 .. i + n - j : f[g] = q[k]
  <2>1. PICK g \in 1 .. i + n - j : g = k - j + i
    BY <1>3
  <2>2. g > i /\ g - i + j = k
    BY <1>3, <2>1
  <2>3. f[g] = q[g - i + j]
    BY <1>3, <1>6, <2>2
  <2> QED
    BY <2>2, <2>3
<1>14. Distinct(f)
  BY <1>5, <1>11 DEF Distinct
<1>15. Elems(f) = {r[k] : k \in 1 .. i} \cup {q[k] : k \in j + 1 .. n}
  <2>1. \A d \in Elems(f) : d \in {r[k] : k \in 1 .. i} \cup {q[k] : k \in j + 1 .. n}
    BY <1>5, <1>10 DEF Elems
  <2>2. \A d \in {r[k] : k \in 1 .. i} : d \in Elems(f)
    BY <1>5, <1>12 DEF Elems
  <2>3. ASSUME NEW k \in j + 1 .. n
        PROVE  q[k] \in Elems(f)
    <3>1. PICK g \in 1 .. Len(f) : f[g] = q[k]
      BY <1>5, <1>13
    <3> QED
      BY <3>1 DEF Elems
  <2> QED
    BY <2>1, <2>2, <2>3
<1> QED
  BY <1>2, <1>4, <1>14, <1>15 DEF Upto, Behind

\* EXCHANGE within one route leaves it its customers.
LEMMA SwapElems ==
  ASSUME NEW C, NEW r \in Seq(C), NEW i \in 1 .. Len(r), NEW j \in 1 .. Len(r), Distinct(r)
  PROVE  /\ Swap(r, i, j) \in Seq(C)
         /\ Distinct(Swap(r, i, j))
         /\ Elems(Swap(r, i, j)) = Elems(r)
<1>1. PICK n \in Nat : n = Len(r)
  OBVIOUS
<1>2. i \in 1 .. n /\ j \in 1 .. n
  BY <1>1
<1>3. PICK q : q = Swap(r, i, j)
  OBVIOUS
<1>4. q \in Seq(C) /\ Len(q) = n
  BY <1>1, <1>3 DEF Swap
<1>5. \A k \in 1 .. n : q[k] = IF k = j THEN r[i] ELSE IF k = i THEN r[j] ELSE r[k]
  BY <1>1, <1>3 DEF Swap
<1>6. \A g, h \in 1 .. n : r[g] = r[h] => g = h
  BY <1>1 DEF Distinct
<1>7. ASSUME NEW g \in 1 .. n, NEW h \in 1 .. n, q[g] = q[h]
      PROVE  g = h
  BY <1>2, <1>5, <1>6, <1>7
<1>8. \A k \in 1 .. n : \E g \in 1 .. n : q[k] = r[g]
  BY <1>2, <1>5
<1>9. \A k \in 1 .. n : \E g \in 1 .. n : q[g] = r[k]
  BY <1>2, <1>5
<1>10. Distinct(q)
  BY <1>4, <1>7 DEF Distinct
<1>11. Elems(q) = Elems(r)
  <2>1. \A d \in Elems(q) : d \in Elems(r)
    BY <1>1, <1>4, <1>8 DEF Elems
  <2>2. \A d \in Elems(r) : d \in Elems(q)
    BY <1>1, <1>4, <1>9 DEF Elems
  <2> QED
    BY <2>1, <2>2
<1> QED
  BY <1>3, <1>4, <1>10, <1>11

\* EXCHANGE between two routes replaces one customer in each.
LEMMA ReplaceElems ==
  ASSUME NEW C, NEW r \in Seq(C), NEW i \in 1 .. Len(r), NEW c \in C,
         Distinct(r), c \notin Elems(r)
  PROVE  /\ Replace(r, i, c) \in Seq(C)
         /\ Distinct(Replace(r, i, c))
         /\ Elems(Replace(r, i, c)) = (Elems(r) \ {r[i]}) \cup {c}
<1>1. PICK n \in Nat : n = Len(r)
  OBVIOUS
<1>2. i \in 1 .. n
  BY <1>1
<1>3. PICK q : q = Replace(r, i, c)
  OBVIOUS
<1>4. q \in Seq(C) /\ Len(q) = n
  BY <1>1, <1>3 DEF Replace
<1>5. \A k \in 1 .. n : q[k] = IF k = i THEN c ELSE r[k]
  BY <1>1, <1>3 DEF Replace
<1>6. \A g, h \in 1 .. n : r[g] = r[h] => g = h
  BY <1>1 DEF Distinct
<1>7. \A g \in 1 .. n : r[g] # c
  BY <1>1 DEF Elems
<1>8. Distinct(q)
  BY <1>2, <1>4, <1>5, <1>6, <1>7 DEF Distinct
<1>9. Elems(q) = (Elems(r) \ {r[i]}) \cup {c}
  <2>1. \A d \in Elems(q) : d \in (Elems(r) \ {r[i]}) \cup {c}
    BY <1>1, <1>2, <1>4, <1>5, <1>6 DEF Elems
  <2>2. \A d \in Elems(r) \ {r[i]} : d \in Elems(q)
    BY <1>1, <1>4, <1>5 DEF Elems
  <2>3. c \in Elems(q)
    BY <1>2, <1>4, <1>5 DEF Elems
  <2> QED
    BY <2>1, <2>2, <2>3
<1> QED
  BY <1>3, <1>4, <1>8, <1>9
-----------------------------------------------------------------------------
\* The routes hold the members of A and nothing else, each at one place.
Holds(rts, A) ==
  /\ \A x \in 1 .. Len(rts) : Distinct(rts[x]) /\ Elems(rts[x]) \subseteq A
  /\ \A c \in A : \E x \in 1 .. Len(rts) : c \in Elems(rts[x])
  /\ \A x, y \in 1 .. Len(rts) : x # y => Elems(rts[x]) \cap Elems(rts[y]) = {}

\* One route is replaced by one that shares no customer with the others.
LEMMA ReplaceHolds ==
  ASSUME NEW C, NEW rts \in Seq(Seq(C)), NEW A, Holds(rts, A),
         NEW z \in 1 .. Len(rts), NEW q \in Seq(C), Distinct(q),
         Elems(q) \cap (A \ Elems(rts[z])) = {}
  PROVE  /\ [rts EXCEPT ![z] = q] \in Seq(Seq(C))
         /\ Len([rts EXCEPT ![z] = q]) = Len(rts)
         /\ Holds([rts EXCEPT ![z] = q], (A \ Elems(rts[z])) \cup Elems(q))
<1>1. PICK after : after = [rts EXCEPT ![z] = q]
  OBVIOUS
<1>2. /\ after \in Seq(Seq(C)) /\ Len(after) = Len(rts)
      /\ \A x \in 1 .. Len(rts) : after[x] = IF x = z THEN q ELSE rts[x]
  BY <1>1
<1>3. PICK B : B = (A \ Elems(rts[z])) \cup Elems(q)
  OBVIOUS
<1>4. ASSUME NEW x \in 1 .. Len(rts), x # z
      PROVE  Elems(rts[x]) \subseteq A \ Elems(rts[z])
  BY <1>4 DEF Holds
<1>5. ASSUME NEW x \in 1 .. Len(rts)
      PROVE  Distinct(after[x]) /\ Elems(after[x]) \subseteq B
  <2>1. CASE x = z
    BY <1>2, <1>3, <2>1
  <2>2. CASE x # z
    BY <1>2, <1>3, <1>4, <2>2 DEF Holds
  <2> QED
    BY <2>1, <2>2
<1>6. ASSUME NEW c \in B
      PROVE  \E x \in 1 .. Len(rts) : c \in Elems(after[x])
  <2>1. CASE c \in Elems(q)
    BY <1>2, <2>1
  <2>2. CASE c \in A \ Elems(rts[z])
    <3>1. PICK x \in 1 .. Len(rts) : c \in Elems(rts[x])
      BY <2>2 DEF Holds
    <3>2. x # z
      BY <2>2, <3>1
    <3> QED
      BY <1>2, <3>1, <3>2
  <2> QED
    BY <1>3, <2>1, <2>2
<1>7. ASSUME NEW x \in 1 .. Len(rts), NEW y \in 1 .. Len(rts), x # y
      PROVE  Elems(after[x]) \cap Elems(after[y]) = {}
  <2>1. CASE x # z /\ y # z
    BY <1>2, <1>7, <2>1 DEF Holds
  <2>2. CASE x = z
    BY <1>2, <1>4, <1>7, <2>2
  <2>3. CASE y = z
    BY <1>2, <1>4, <1>7, <2>3
  <2> QED
    BY <2>1, <2>2, <2>3
<1> QED
  BY <1>1, <1>2, <1>3, <1>5, <1>6, <1>7 DEF Holds

\* INSERT of a customer that no route holds.
LEMMA InsertHolds ==
  ASSUME NEW C, NEW rts \in Seq(Seq(C)), NEW A, Holds(rts, A),
         NEW v \in InsertNodes(rts), NEW c \in C, c \notin A
  PROVE  Holds(Insert(rts, v, c), A \cup {c})
<1>1. PICK z \in 1 .. Len(rts) : z = v[1]
  BY NodeTypes
<1>2. PICK r \in Seq(C) : r = rts[z]
  OBVIOUS
<1>3. PICK i \in 1 .. Len(r) + 1 : i = v[2]
  BY <1>1, <1>2, NodeTypes
<1>4. Distinct(r) /\ Elems(r) \subseteq A
  BY <1>2 DEF Holds
<1>5. PICK q \in Seq(C) : q = InsertBefore(r, i, c)
  BY InsertBeforeElements
<1>6. Distinct(q) /\ Elems(q) = Elems(r) \cup {c}
  BY <1>4, <1>5, InsertBeforeElems
<1>7. Holds([rts EXCEPT ![z] = q], (A \ Elems(r)) \cup Elems(q))
  <2>1. Elems(q) \cap (A \ Elems(rts[z])) = {}
    BY <1>2, <1>4, <1>6
  <2> QED
    BY <1>2, <1>6, <2>1, ReplaceHolds
<1>8. (A \ Elems(r)) \cup Elems(q) = A \cup {c}
  BY <1>4, <1>6
<1>9. Insert(rts, v, c) = [rts EXCEPT ![z] = q]
  BY <1>1, <1>2, <1>3, <1>5 DEF Insert
<1> QED
  BY <1>7, <1>8, <1>9

\* EJECT of the customer at v.
LEMMA EjectHolds ==
  ASSUME NEW C, NEW rts \in Seq(Seq(C)), NEW A, Holds(rts, A),
         NEW v \in CustomerNodes(rts)
  PROVE  /\ rts[v[1]][v[2]] \in A
         /\ Holds(Eject(rts, v), A \ {rts[v[1]][v[2]]})
<1>1. PICK z \in 1 .. Len(rts) : z = v[1]
  BY NodeTypes
<1>2. PICK r \in Seq(C) : r = rts[z]
  OBVIOUS
<1>3. PICK i \in 1 .. Len(r) : i = v[2]
  BY <1>1, <1>2, NodeTypes
<1>4. Distinct(r) /\ Elems(r) \subseteq A
  BY <1>2 DEF Holds
<1>5. PICK q \in Seq(C) : q = RemoveIndex(r, i)
  BY RemoveIndexElements
<1>6. Distinct(q) /\ Elems(q) = Elems(r) \ {r[i]}
  BY <1>4, <1>5, RemoveIndexElems
<1>7. r[i] \in Elems(r)
  BY DEF Elems
<1>8. Holds([rts EXCEPT ![z] = q], (A \ Elems(r)) \cup Elems(q))
  <2>1. Elems(q) \cap (A \ Elems(rts[z])) = {}
    BY <1>2, <1>6
  <2> QED
    BY <1>2, <1>6, <2>1, ReplaceHolds
<1>9. (A \ Elems(r)) \cup Elems(q) = A \ {r[i]}
  BY <1>4, <1>6, <1>7
<1>10. Eject(rts, v) = [rts EXCEPT ![z] = q]
  BY <1>1, <1>2, <1>3, <1>5 DEF Eject
<1>11. rts[v[1]][v[2]] = r[i]
  BY <1>1, <1>2, <1>3
<1> QED
  BY <1>4, <1>7, <1>8, <1>9, <1>10, <1>11

\* OUT_RELOCATE ejects a customer and inserts it again.
LEMMA OutRelocateHolds ==
  ASSUME NEW C, NEW rts \in Seq(Seq(C)), NEW A, Holds(rts, A),
         NEW v \in InsertNodes(rts), NEW w \in CustomerNodes(rts)
  PROVE  Holds(OutRelocate(rts, v, w), A)
<1>1. CASE v = w
  BY <1>1 DEF OutRelocate
<1>2. CASE v # w
  <2>1. PICK left : left = Eject(rts, w)
    OBVIOUS
  <2>2. PICK c : c = rts[w[1]][w[2]]
    OBVIOUS
  <2>3. PICK to : to = IF v[1] = w[1] /\ w[2] < v[2] THEN <<v[1], v[2] - 1>> ELSE v
    OBVIOUS
  <2>4. c \in A /\ Holds(left, A \ {c})
    BY <2>1, <2>2, EjectHolds
  <2>5. left \in Seq(Seq(C))
    BY <2>1, EjectRoutes
  <2>6. to \in InsertNodes(left)
    BY <1>2, <2>1, <2>3, OutRelocateNode
  <2>7. c \in C
    <3>1. w[1] \in 1 .. Len(rts) /\ w[2] \in 1 .. Len(rts[w[1]])
      BY NodeTypes
    <3> QED
      BY <2>2, <3>1
  <2>8. Holds(Insert(left, to, c), (A \ {c}) \cup {c})
    <3>1. c \notin A \ {c}
      OBVIOUS
    <3> QED
      BY <2>4, <2>5, <2>6, <2>7, <3>1, InsertHolds
  <2>9. (A \ {c}) \cup {c} = A
    BY <2>4
  <2>10. OutRelocate(rts, v, w) = Insert(left, to, c)
    BY <1>2, <2>1, <2>2, <2>3 DEF OutRelocate
  <2> QED
    BY <2>8, <2>9, <2>10
<1> QED
  BY <1>1, <1>2

\* Two routes are replaced by two that share out their customers.
LEMMA ReplaceTwoHolds ==
  ASSUME NEW C, NEW rts \in Seq(Seq(C)), NEW A, Holds(rts, A),
         NEW y \in 1 .. Len(rts), NEW z \in 1 .. Len(rts), y # z,
         NEW f \in Seq(C), NEW g \in Seq(C), Distinct(f), Distinct(g),
         Elems(f) \cap Elems(g) = {},
         Elems(f) \cup Elems(g) = Elems(rts[y]) \cup Elems(rts[z])
  PROVE  Holds([rts EXCEPT ![y] = f, ![z] = g], A)
<1>1. PICK Y : Y = Elems(rts[y])
  OBVIOUS
<1>2. PICK Z : Z = Elems(rts[z])
  OBVIOUS
<1>3. Y \subseteq A /\ Z \subseteq A /\ Y \cap Z = {}
  BY <1>1, <1>2 DEF Holds
<1>4. PICK none \in Seq(C) : none = <<>>
  <2>1. <<>> \in Seq(C)
    OBVIOUS
  <2> QED
    BY <2>1
<1>5. Distinct(none) /\ Elems(none) = {}
  BY <1>4 DEF Distinct, Elems
<1>6. PICK one : one = [rts EXCEPT ![y] = none]
  OBVIOUS
<1>7. one \in Seq(Seq(C)) /\ Len(one) = Len(rts) /\ Holds(one, A \ Y)
  <2>1. Elems(none) \cap (A \ Elems(rts[y])) = {}
    BY <1>5
  <2>2. (A \ Elems(rts[y])) \cup Elems(none) = A \ Y
    BY <1>1, <1>5
  <2>3. /\ [rts EXCEPT ![y] = none] \in Seq(Seq(C))
        /\ Len([rts EXCEPT ![y] = none]) = Len(rts)
        /\ Holds([rts EXCEPT ![y] = none], (A \ Elems(rts[y])) \cup Elems(none))
    BY <1>5, <2>1, ReplaceHolds
  <2> QED
    BY <1>6, <2>2, <2>3
<1>8. Elems(one[z]) = Z
  BY <1>2, <1>6
<1>9. PICK two : two = [one EXCEPT ![z] = g]
  OBVIOUS
<1>10. /\ two \in Seq(Seq(C)) /\ Len(two) = Len(rts)
       /\ Holds(two, ((A \ Y) \ Z) \cup Elems(g))
  <2>1. Elems(g) \cap ((A \ Y) \ Elems(one[z])) = {}
    BY <1>1, <1>2, <1>8
  <2>2. z \in 1 .. Len(one)
    BY <1>7
  <2>3. /\ [one EXCEPT ![z] = g] \in Seq(Seq(C))
        /\ Len([one EXCEPT ![z] = g]) = Len(one)
        /\ Holds([one EXCEPT ![z] = g], ((A \ Y) \ Elems(one[z])) \cup Elems(g))
    BY <1>7, <2>1, <2>2, ReplaceHolds
  <2> QED
    BY <1>7, <1>8, <1>9, <2>3
<1>11. Elems(two[y]) = {}
  BY <1>5, <1>6, <1>7, <1>9
<1>12. Holds([two EXCEPT ![y] = f], ((((A \ Y) \ Z) \cup Elems(g)) \ {}) \cup Elems(f))
  <2>1. Elems(f) \cap ((((A \ Y) \ Z) \cup Elems(g)) \ Elems(two[y])) = {}
    BY <1>1, <1>2, <1>11
  <2> QED
    BY <1>10, <1>11, <2>1, ReplaceHolds
<1>13. ((((A \ Y) \ Z) \cup Elems(g)) \ {}) \cup Elems(f) = A
  BY <1>1, <1>2, <1>3
<1>14. [rts EXCEPT ![y] = f, ![z] = g] = [two EXCEPT ![y] = f]
  BY <1>6, <1>9
<1> QED
  BY <1>12, <1>13, <1>14

\* The customers up to an index of a route and those behind it.
LEMMA SplitElems ==
  ASSUME NEW C, NEW r \in Seq(C), NEW i \in 0 .. Len(r), Distinct(r)
  PROVE  Upto(r, i) \cup Behind(r, i) = Elems(r) /\ Upto(r, i) \cap Behind(r, i) = {}
<1>1. PICK m \in Nat : m = Len(r)
  OBVIOUS
<1>2. i \in 0 .. m
  BY <1>1
<1>3. \A k, h \in 1 .. m : r[k] = r[h] => k = h
  BY <1>1 DEF Distinct
<1>4. 1 .. m = (1 .. i) \cup (i + 1 .. m)
  BY <1>2
<1>5. \A k \in 1 .. i, h \in i + 1 .. m : k # h /\ k \in 1 .. m /\ h \in 1 .. m
  BY <1>2
<1>6. Elems(r) = {r[k] : k \in 1 .. m}
  BY <1>1 DEF Elems
<1>7. {r[k] : k \in 1 .. i} \cup {r[k] : k \in i + 1 .. m} = Elems(r)
  BY <1>4, <1>6, Zenon
<1>8. \A k \in 1 .. i, h \in i + 1 .. m : r[k] # r[h]
  BY <1>3, <1>5
<1>9. {r[k] : k \in 1 .. i} \cap {r[k] : k \in i + 1 .. m} = {}
  BY <1>8, Zenon
<1> QED
  BY <1>1, <1>7, <1>9 DEF Upto, Behind

\* Both routes that TWO_OPT joins from the pieces of two.
LEMMA BothSpliceElems ==
  ASSUME NEW C, NEW r \in Seq(C), NEW i \in 0 .. Len(r),
         NEW q \in Seq(C), NEW j \in 0 .. Len(q),
         Distinct(r), Distinct(q), Elems(r) \cap Elems(q) = {}
  PROVE  /\ Distinct(Splice(r, i, q, j))
         /\ Elems(Splice(r, i, q, j)) = Upto(r, i) \cup Behind(q, j)
         /\ Distinct(Splice(q, j, r, i))
         /\ Elems(Splice(q, j, r, i)) = Upto(q, j) \cup Behind(r, i)
<1>1. Elems(q) \cap Elems(r) = {}
  OBVIOUS
<1>2. Distinct(Splice(r, i, q, j)) /\ Elems(Splice(r, i, q, j)) = Upto(r, i) \cup Behind(q, j)
  BY SpliceElems
<1>3. Distinct(Splice(q, j, r, i)) /\ Elems(Splice(q, j, r, i)) = Upto(q, j) \cup Behind(r, i)
  BY <1>1, SpliceElems
<1> QED
  BY <1>2, <1>3

\* TWO_OPT shares out the customers of two routes anew.
LEMMA TwoOptHolds ==
  ASSUME NEW C, NEW rts, rts \in Seq(Seq(C)), NEW A, Holds(rts, A),
         NEW v, NEW w, v[1] # w[1],
         v[1] \in 1 .. Len(rts), v[2] \in 0 .. Len(rts[v[1]]),
         w[1] \in 1 .. Len(rts), w[2] \in 0 .. Len(rts[w[1]])
  PROVE  Holds(TwoOpt(rts, v, w), A)
<1>1. PICK y : y \in 1 .. Len(rts) /\ y = v[1]
  OBVIOUS
<1>2. PICK z : z \in 1 .. Len(rts) /\ z = w[1]
  OBVIOUS
<1>3. PICK r : r \in Seq(C) /\ r = rts[y]
  BY <1>1
<1>4. PICK q : q \in Seq(C) /\ q = rts[z]
  BY <1>2
<1>5. PICK i : i \in 0 .. Len(r) /\ i = v[2]
  BY <1>1, <1>3
<1>6. PICK j : j \in 0 .. Len(q) /\ j = w[2]
  BY <1>2, <1>4
<1>7. Distinct(r) /\ Distinct(q) /\ Elems(r) \cap Elems(q) = {}
  BY <1>1, <1>2, <1>3, <1>4 DEF Holds
<1>8. PICK f : f \in Seq(C) /\ f = Splice(r, i, q, j)
  BY <1>3, <1>4, <1>5, <1>6, SpliceElements
<1>9. PICK g : g \in Seq(C) /\ g = Splice(q, j, r, i)
  BY <1>3, <1>4, <1>5, <1>6, SpliceElements
<1>10. /\ Distinct(f) /\ Elems(f) = Upto(r, i) \cup Behind(q, j)
       /\ Distinct(g) /\ Elems(g) = Upto(q, j) \cup Behind(r, i)
  <2>1. r \in Seq(C) /\ q \in Seq(C) /\ i \in 0 .. Len(r) /\ j \in 0 .. Len(q)
    BY <1>3, <1>4, <1>5, <1>6
  <2>2. /\ Distinct(Splice(r, i, q, j))
        /\ Elems(Splice(r, i, q, j)) = Upto(r, i) \cup Behind(q, j)
        /\ Distinct(Splice(q, j, r, i))
        /\ Elems(Splice(q, j, r, i)) = Upto(q, j) \cup Behind(r, i)
    BY <1>7, <2>1, BothSpliceElems
  <2> QED
    BY <1>8, <1>9, <2>2
<1>11. Upto(r, i) \cup Behind(r, i) = Elems(r) /\ Upto(r, i) \cap Behind(r, i) = {}
  BY <1>3, <1>5, <1>7, SplitElems
<1>12. Upto(q, j) \cup Behind(q, j) = Elems(q) /\ Upto(q, j) \cap Behind(q, j) = {}
  BY <1>4, <1>6, <1>7, SplitElems
<1>13. Elems(f) \cap Elems(g) = {} /\ Elems(f) \cup Elems(g) = Elems(r) \cup Elems(q)
  BY <1>7, <1>10, <1>11, <1>12
<1>14. Holds([rts EXCEPT ![y] = f, ![z] = g], A)
  <2>1. Distinct(f) /\ Distinct(g) /\ y # z
    BY <1>1, <1>2, <1>10
  <2>2. /\ Elems(f) \cap Elems(g) = {}
        /\ Elems(f) \cup Elems(g) = Elems(rts[y]) \cup Elems(rts[z])
    BY <1>3, <1>4, <1>13
  <2> QED
    BY <1>1, <1>2, <1>8, <1>9, <2>1, <2>2, ReplaceTwoHolds
<1>15. TwoOpt(rts, v, w) = [rts EXCEPT ![y] = f, ![z] = g]
  BY <1>1, <1>2, <1>3, <1>4, <1>5, <1>6, <1>8, <1>9 DEF TwoOpt
<1> QED
  BY <1>14, <1>15

\* EXCHANGE of two customers, of one route or of two.
LEMMA ExchangeHolds ==
  ASSUME NEW C, NEW rts \in Seq(Seq(C)), NEW A, Holds(rts, A),
         NEW v \in CustomerNodes(rts), NEW w \in CustomerNodes(rts)
  PROVE  Holds(Exchange(rts, v, w), A)
<1>1. PICK y \in 1 .. Len(rts) : y = v[1]
  BY NodeTypes
<1>2. PICK z \in 1 .. Len(rts) : z = w[1]
  BY NodeTypes
<1>3. PICK r \in Seq(C) : r = rts[y]
  OBVIOUS
<1>4. PICK q \in Seq(C) : q = rts[z]
  OBVIOUS
<1>5. PICK i \in 1 .. Len(r) : i = v[2]
  BY <1>1, <1>3, NodeTypes
<1>6. PICK j \in 1 .. Len(q) : j = w[2]
  BY <1>2, <1>4, NodeTypes
<1>7. PICK c \in C : c = r[i]
  OBVIOUS
<1>8. PICK d \in C : d = q[j]
  OBVIOUS
<1>9. Distinct(r) /\ Distinct(q) /\ c \in Elems(r) /\ d \in Elems(q)
  BY <1>3, <1>4, <1>7, <1>8 DEF Holds, Elems
<1>10. Exchange(rts, v, w) = [rts EXCEPT ![y][i] = d, ![z][j] = c]
  BY <1>1, <1>2, <1>3, <1>4, <1>5, <1>6, <1>7, <1>8 DEF Exchange
<1>11. CASE y = z
  <2>1. PICK f : f = Swap(r, i, j)
    OBVIOUS
  <2>2. q = r /\ j \in 1 .. Len(r)
    BY <1>3, <1>4, <1>11
  <2>3. f \in Seq(C) /\ Distinct(f) /\ Elems(f) = Elems(r)
    BY <1>9, <2>1, <2>2, SwapElems
  <2>4. Elems(f) \cap (A \ Elems(rts[y])) = {}
    BY <1>3, <2>3
  <2>5. Holds([rts EXCEPT ![y] = f], (A \ Elems(rts[y])) \cup Elems(f))
    BY <2>3, <2>4, ReplaceHolds
  <2>6. (A \ Elems(rts[y])) \cup Elems(f) = A
    BY <1>3, <2>3 DEF Holds
  <2>7. [rts EXCEPT ![y][i] = d, ![z][j] = c] = [rts EXCEPT ![y] = f]
    BY <1>3, <1>7, <1>8, <1>11, <2>1, <2>2 DEF Swap
  <2> QED
    BY <1>10, <2>5, <2>6, <2>7
<1>12. CASE y # z
  <2>1. Elems(r) \cap Elems(q) = {}
    BY <1>3, <1>4, <1>12 DEF Holds
  <2>2. PICK f : f = Replace(r, i, d)
    OBVIOUS
  <2>3. PICK g : g = Replace(q, j, c)
    OBVIOUS
  <2>4. f \in Seq(C) /\ Distinct(f) /\ Elems(f) = (Elems(r) \ {c}) \cup {d}
    <3>1. d \notin Elems(r)
      BY <1>9, <2>1
    <3> QED
      BY <1>7, <1>9, <2>2, <3>1, ReplaceElems
  <2>5. g \in Seq(C) /\ Distinct(g) /\ Elems(g) = (Elems(q) \ {d}) \cup {c}
    <3>1. c \notin Elems(q)
      BY <1>9, <2>1
    <3> QED
      BY <1>8, <1>9, <2>3, <3>1, ReplaceElems
  <2>6. Elems(f) \cap Elems(g) = {} /\ Elems(f) \cup Elems(g) = Elems(r) \cup Elems(q)
    BY <1>9, <2>1, <2>4, <2>5
  <2>7. Holds([rts EXCEPT ![y] = f, ![z] = g], A)
    BY <1>3, <1>4, <1>12, <2>4, <2>5, <2>6, ReplaceTwoHolds
  <2>8. [rts EXCEPT ![y][i] = d, ![z][j] = c] = [rts EXCEPT ![y] = f, ![z] = g]
    BY <1>3, <1>4, <1>12, <2>2, <2>3 DEF Replace
  <2> QED
    BY <1>10, <2>7, <2>8
<1> QED
  BY <1>11, <1>12

\* A move changes which route has a customer, not which customers they have.
LEMMA MoveHolds ==
  ASSUME NEW C, NEW rts \in Seq(Seq(C)), NEW A, Holds(rts, A), NEW type \in Moves,
         NEW v \in Nodes(rts), NEW w \in Nodes(rts),
         modification_applicable(rts, type, v, w)
  PROVE  Holds(modification_apply(rts, type, v, w), A)
<1>1. CASE type = "TWO_OPT"
  <2>1. v[1] # w[1] /\ ~IsTail(rts, v) /\ ~IsTail(rts, w)
    BY <1>1 DEF modification_applicable
  <2> QED
    BY <1>1, <2>1, NodeKinds, TwoOptHolds DEF modification_apply
<1>2. CASE type = "OUT_RELOCATE"
  <2>1. ~IsDepot(rts, w) /\ ~IsHead(v)
    BY <1>2 DEF modification_applicable
  <2> QED
    BY <1>2, <2>1, NodeKinds, OutRelocateHolds DEF modification_apply
<1>3. CASE type = "EXCHANGE"
  <2>1. ~IsDepot(rts, v) /\ ~IsDepot(rts, w)
    BY <1>3 DEF modification_applicable
  <2> QED
    BY <1>3, <2>1, NodeKinds, ExchangeHolds DEF modification_apply
<1> QED
  BY <1>1, <1>2, <1>3 DEF Moves
-----------------------------------------------------------------------------
(***************************************************************************)
(* The values along a route.                                               *)
(***************************************************************************)
\* Sets of natural numbers have least elements.
LEMMA LeastElement ==
  ASSUME NEW T, T \subseteq Nat, T # {}
  PROVE  \E x \in T : \A y \in T : x <= y
<1>1. PICK x \in T : \A y \in T : <<y, x>> \notin OpToRel(<, Nat)
  BY NatLessThanWellFounded, WFMin
<1>2. \A y \in T : ~(y < x)
  BY <1>1 DEF OpToRel
<1> QED
  BY <1>2

\* Induction on an index: a set that holds 0 and with k - 1 also k.
LEMMA UpTo ==
  ASSUME NEW n \in Nat, NEW T, 0 \in T, \A k \in 1 .. n : k - 1 \in T => k \in T
  PROVE  0 .. n \subseteq T
<1> DEFINE missing == (0 .. n) \ T
<1>1. ASSUME missing # {} PROVE FALSE
  <2>1. PICK k \in missing : \A j \in missing : k <= j
    <3>1. missing \subseteq Nat
      OBVIOUS
    <3> HIDE DEF missing
    <3> QED
      BY <1>1, <3>1, LeastElement
  <2>2. k \in 1 .. n /\ k - 1 \in 0 .. n /\ ~(k <= k - 1)
    BY <2>1
  <2> QED
    BY <2>1, <2>2
<1> QED
  BY <1>1

\* Induction from the last index n down to 0.
LEMMA DownTo ==
  ASSUME NEW n \in Nat, NEW T, n \in T, \A k \in 0 .. n - 1 : k + 1 \in T => k \in T
  PROVE  0 .. n \subseteq T
<1> DEFINE U == {j \in 0 .. n : n - j \in T}
<1>1. 0 \in U
  OBVIOUS
<1>2. ASSUME NEW k \in 1 .. n, k - 1 \in U PROVE k \in U
  <2>1. n - k \in 0 .. n - 1 /\ n - k + 1 = n - (k - 1)
    OBVIOUS
  <2> QED
    BY <1>2, <2>1
<1>3. 0 .. n \subseteq U
  <2> HIDE DEF U
  <2> QED
    BY <1>1, <1>2, UpTo
<1>4. \A i \in 0 .. n : n - i \in U /\ n - (n - i) = i
  BY <1>3
<1> QED
  BY <1>4

\* D is a step of a recursion over 1 .. n with values in S; f iterates it from c.
Stepper(D, n, S) == D \in [S \X (1 .. n) -> S]

Iterates(f, n, S, c, D) ==
  /\ f \in [0 .. n -> S]
  /\ f[0] = c
  /\ \A i \in 1 .. n : f[i] = D[<<f[i - 1], i>>]

\* Functions defined by recursion exist.
LEMMA Recursion ==
  ASSUME NEW n \in Nat, NEW S, NEW c \in S, NEW D, Stepper(D, n, S)
  PROVE  \E f : Iterates(f, n, S, c, D)
<1> USE DEF Stepper, Iterates
<1> DEFINE has(k, g) == g[0] = c /\ \A i \in 1 .. k : g[i] = D[<<g[i - 1], i>>]
           T == {k \in 0 .. n : \E g \in [0 .. k -> S] : has(k, g)}
<1>1. 0 \in T
  <2>1. PICK g : g = [i \in 0 .. 0 |-> c]
    OBVIOUS
  <2>2. g \in [0 .. 0 -> S] /\ g[0] = c
    BY <2>1
  <2>3. has(0, g)
    BY <2>2
  <2>4. \E f \in [0 .. 0 -> S] : has(0, f)
    BY <2>2, <2>3
  <2> HIDE DEF has
  <2> QED
    BY <2>4
<1>2. ASSUME NEW k \in 1 .. n, k - 1 \in T PROVE k \in T
  <2>1. PICK g \in [0 .. k - 1 -> S] : has(k - 1, g)
    BY <1>2
  <2>2. PICK next : next = D[<<g[k - 1], k>>]
    OBVIOUS
  <2>3. k - 1 \in 0 .. k - 1 /\ g[k - 1] \in S /\ next \in S
    BY <2>2
  <2>4. PICK h : h = [i \in 0 .. k |-> IF i = k THEN next ELSE g[i]]
    OBVIOUS
  <2>5. h \in [0 .. k -> S] /\ h[0] = c
    BY <2>1, <2>3, <2>4
  <2>6. ASSUME NEW i \in 1 .. k PROVE h[i] = D[<<h[i - 1], i>>]
    <3>1. i - 1 \in 0 .. k - 1 /\ i - 1 # k /\ h[i - 1] = g[i - 1]
      BY <2>4
    <3>2. CASE i = k
      <4>1. h[i] = next /\ h[i - 1] = g[k - 1]
        BY <2>4, <3>1, <3>2
      <4> QED
        BY <2>2, <3>2, <4>1
    <3>3. CASE i \in 1 .. k - 1
      <4>1. h[i] = g[i]
        BY <2>4, <3>3
      <4> QED
        BY <2>1, <3>1, <3>3, <4>1
    <3> QED
      BY <3>2, <3>3
  <2>7. has(k, h)
    BY <2>5, <2>6
  <2> HIDE DEF has
  <2> QED
    BY <2>5, <2>7
<1> HIDE DEF T
<1>3. n \in T
  <2>1. 0 .. n \subseteq T
    BY <1>1, <1>2, UpTo
  <2> QED
    BY <2>1
<1> QED
  BY <1>3 DEF T

\* What obeys the steps is such a function, and so has its type.
LEMMA Iterated ==
  ASSUME NEW n \in Nat, NEW S, NEW c \in S, NEW D, Stepper(D, n, S),
         NEW a, a = [i \in 0 .. n |-> a[i]], a[0] = c,
         \A i \in 1 .. n : a[i - 1] \in S => a[i] = D[<<a[i - 1], i>>]
  PROVE  Iterates(a, n, S, c, D)
<1> DEFINE T == {i \in 0 .. n : a[i] \in S}
<1>1. 0 \in T
  OBVIOUS
<1>2. ASSUME NEW k \in 1 .. n, k - 1 \in T PROVE k \in T
  <2>1. a[k] = D[<<a[k - 1], k>>] /\ a[k - 1] \in S
    BY <1>2
  <2>2. D[<<a[k - 1], k>>] \in S
    BY <2>1 DEF Stepper
  <2> QED
    BY <2>1, <2>2
<1>3. 0 .. n \subseteq T
  <2> HIDE DEF T
  <2> QED
    BY <1>1, <1>2, UpTo
<1>4. \A i \in 1 .. n : i \in 0 .. n /\ i - 1 \in 0 .. n
  OBVIOUS
<1>5. \A i \in 0 .. n : a[i] \in S
  BY <1>3
<1>6. a \in [0 .. n -> S]
  BY <1>5
<1> QED
  BY <1>4, <1>5, <1>6 DEF Iterates

\* What such a function is at each index.
LEMMA IteratesSteps ==
  ASSUME NEW n \in Nat, NEW S, NEW c, NEW D, NEW f, Iterates(f, n, S, c, D)
  PROVE  /\ f = [i \in 0 .. n |-> f[i]]
         /\ f[0] = c
         /\ \A i \in 1 .. n : f[i - 1] \in S /\ f[i] = D[<<f[i - 1], i>>]
         /\ \A i \in 0 .. n : i = 0 \/ i \in 1 .. n
<1>1. \A i \in 1 .. n : i - 1 \in 0 .. n
  OBVIOUS
<1>2. f = [i \in 0 .. n |-> f[i]]
  BY DEF Iterates
<1>3. \A i \in 1 .. n : f[i - 1] \in S
  BY <1>1 DEF Iterates
<1>4. \A i \in 0 .. n : i = 0 \/ i \in 1 .. n
  OBVIOUS
<1> QED
  BY <1>2, <1>3, <1>4 DEF Iterates

\* The same from the last index down.
IteratesDown(f, n, S, c, D) ==
  /\ f \in [0 .. n -> S]
  /\ f[n] = c
  /\ \A i \in 0 .. n - 1 : f[i] = D[<<f[i + 1], n - i>>]

\* A recursion from the last index down has a solution.
LEMMA RecursionDown ==
  ASSUME NEW n \in Nat, NEW S, NEW c \in S, NEW D, Stepper(D, n, S)
  PROVE  \E f : IteratesDown(f, n, S, c, D)
<1>1. PICK g : Iterates(g, n, S, c, D)
  BY Recursion
<1>2. PICK f : f = [i \in 0 .. n |-> g[n - i]]
  OBVIOUS
<1>3. f \in [0 .. n -> S] /\ f[n] = c
  <2>1. \A i \in 0 .. n : n - i \in 0 .. n
    OBVIOUS
  <2> QED
    BY <1>1, <1>2, <2>1 DEF Iterates
<1>4. ASSUME NEW i \in 0 .. n - 1 PROVE f[i] = D[<<f[i + 1], n - i>>]
  <2>1. n - i \in 1 .. n /\ n - (i + 1) = n - i - 1 /\ i + 1 \in 0 .. n
    OBVIOUS
  <2>2. g[n - i] = D[<<g[n - i - 1], n - i>>]
    BY <1>1, <2>1 DEF Iterates
  <2>3. f[i] = g[n - i] /\ f[i + 1] = g[n - i - 1]
    BY <1>2, <2>1
  <2> QED
    BY <2>2, <2>3
<1> QED
  BY <1>3, <1>4 DEF IteratesDown

\* A function defined so is one.
LEMMA IteratedDown ==
  ASSUME NEW n \in Nat, NEW S, NEW c \in S, NEW D, Stepper(D, n, S),
         NEW a, a = [i \in 0 .. n |-> a[i]], a[n] = c,
         \A i \in 0 .. n - 1 : a[i + 1] \in S => a[i] = D[<<a[i + 1], n - i>>]
  PROVE  IteratesDown(a, n, S, c, D)
<1> DEFINE T == {i \in 0 .. n : a[i] \in S}
<1>1. n \in T
  OBVIOUS
<1>2. ASSUME NEW k \in 0 .. n - 1, k + 1 \in T PROVE k \in T
  <2>1. a[k + 1] \in S /\ n - k \in 1 .. n
    BY <1>2
  <2>3. a[k] = D[<<a[k + 1], n - k>>]
    BY <2>1
  <2>2. D[<<a[k + 1], n - k>>] \in S
    BY <2>1 DEF Stepper
  <2> QED
    BY <2>2, <2>3
<1>3. 0 .. n \subseteq T
  <2> HIDE DEF T
  <2> QED
    BY <1>1, <1>2, DownTo
<1>4. \A i \in 0 .. n - 1 : i \in 0 .. n /\ i + 1 \in 0 .. n
  OBVIOUS
<1>5. \A i \in 0 .. n : a[i] \in S
  BY <1>3
<1>6. a \in [0 .. n -> S]
  BY <1>5
<1> QED
  BY <1>4, <1>5, <1>6 DEF IteratesDown
-----------------------------------------------------------------------------
\* r is a route of customers of the instance p.
RouteOf(p, r) == Instance(p) /\ r \in Seq(1 .. p.n)

\* The data of the nodes of a route are integers.
LEMMA NodeData ==
  ASSUME NEW p, NEW r, RouteOf(p, r)
  PROVE  /\ Len(r) \in Nat /\ 0 \in 0 .. p.n
         /\ \A i \in Int : Id(r, i) \in 0 .. p.n
         /\ \A c \in 0 .. p.n : /\ p.e[c] \in Int /\ p.l[c] \in Int
                                /\ p.s[c] \in Int /\ p.demand[c] \in Int
         /\ \A c, d \in 0 .. p.n : Leg(p, c, d) \in Int
         /\ \A c \in 0 .. p.n, t \in Int : Clip(p, c, t) \in Int
<1> USE DEF RouteOf
<1>1. p.n \in Nat
  BY DEF Instance
<1>2. Len(r) \in Nat /\ \A i \in Int : Id(r, i) \in 0 .. p.n
  BY <1>1 DEF Id
<1>3. \A c \in 0 .. p.n : /\ p.e[c] \in Int /\ p.l[c] \in Int
                          /\ p.s[c] \in Int /\ p.demand[c] \in Int
  BY DEF Instance
<1>4. \A c, d \in 0 .. p.n : Leg(p, c, d) \in Int
  <2>1. \A c, d \in 0 .. p.n : p.dist[c][d] \in Int
    BY DEF Instance
  <2> QED
    BY <1>3, <2>1 DEF Leg, dist
<1>5. \A c \in 0 .. p.n, t \in Int : Clip(p, c, t) \in Int
  BY <1>3 DEF Clip, MIN, MAX
<1> QED
  BY <1>1, <1>2, <1>3, <1>4, <1>5

\* A vehicle's way to the node at index i, or from it.
LEMMA RouteLegs ==
  ASSUME NEW p, NEW r, RouteOf(p, r)
  PROVE  /\ \A i \in 0 .. Len(r) + 1 : Id(r, i) \in 0 .. p.n
         /\ \A i \in 1 .. Len(r) + 1 : Leg(p, Id(r, i - 1), Id(r, i)) \in Int
         /\ \A i \in 0 .. Len(r) : Leg(p, Id(r, i), Id(r, i + 1)) \in Int
<1>1. \A i \in Int : Id(r, i) \in 0 .. p.n
  BY NodeData
<1>2. \A i \in 0 .. Len(r) + 1 : i \in Int /\ i - 1 \in Int /\ i + 1 \in Int
  OBVIOUS
<1>3. \A c, d \in 0 .. p.n : Leg(p, c, d) \in Int
  BY NodeData
<1>4. \A i \in 0 .. Len(r) + 1 :
        Id(r, i) \in 0 .. p.n /\ Id(r, i - 1) \in 0 .. p.n /\ Id(r, i + 1) \in 0 .. p.n
  BY <1>1, <1>2, Zenon
<1>5. \A i \in 0 .. Len(r) + 1 :
        Leg(p, Id(r, i - 1), Id(r, i)) \in Int /\ Leg(p, Id(r, i), Id(r, i + 1)) \in Int
  BY <1>3, <1>4, Zenon
<1>6. /\ \A i \in 1 .. Len(r) + 1 : i \in 0 .. Len(r) + 1
      /\ \A i \in 0 .. Len(r) : i \in 0 .. Len(r) + 1
  <2>1. Len(r) \in Nat
    BY NodeData
  <2> QED
    BY <2>1
<1> QED
  BY <1>4, <1>5, <1>6, Zenon

\* tw_penalty_init, a: each node is left at the time its predecessor allows.
LEMMA ArrivalsSteps ==
  ASSUME NEW p, NEW r, RouteOf(p, r)
  PROVE  /\ Arrivals(p, r) \in [0 .. Len(r) + 1 -> Int]
         /\ Arrivals(p, r)[0] = p.e[0]
         /\ \A i \in 1 .. Len(r) + 1 :
              Arrivals(p, r)[i] =
                Clip(p, Id(r, i), Arrivals(p, r)[i - 1] + Leg(p, Id(r, i - 1), Id(r, i)))
<1> DEFINE n == Len(r) + 1
           a == Arrivals(p, r)
           step(t, i) == Clip(p, Id(r, i), t + Leg(p, Id(r, i - 1), Id(r, i)))
<1>1. n \in Nat /\ Indexes(r) = 0 .. n /\ p.e[0] \in Int
  <2>1. Len(r) \in Nat /\ 0 \in 0 .. p.n
    BY NodeData
  <2>2. p.e[0] \in Int
    BY <2>1, NodeData
  <2> QED
    BY <2>1, <2>2 DEF Indexes
<1>2. PICK D : D = [u \in Int \X (1 .. n) |-> step(u[1], u[2])]
  OBVIOUS
<1>3. \A t \in Int, i \in 1 .. n : step(t, i) \in Int
  <2>1. \A i \in 1 .. n : Leg(p, Id(r, i - 1), Id(r, i)) \in Int /\ Id(r, i) \in 0 .. p.n
    BY <1>1, RouteLegs
  <2>2. \A t \in Int, i \in 1 .. n : t + Leg(p, Id(r, i - 1), Id(r, i)) \in Int
    BY <2>1
  <2>3. \A c \in 0 .. p.n, t \in Int : Clip(p, c, t) \in Int
    BY NodeData
  <2> HIDE DEF n
  <2> QED
    BY <2>1, <2>2, <2>3, Zenon
<1> HIDE DEF n, step
<1>4. Stepper(D, n, Int) /\ \A t \in Int, i \in 1 .. n : D[<<t, i>>] = step(t, i)
  BY <1>2, <1>3 DEF Stepper
<1>5. PICK f : Iterates(f, n, Int, p.e[0], D)
  BY <1>1, <1>4, Recursion
<1>6. f = [i \in 0 .. n |-> IF i = 0 THEN p.e[0] ELSE step(f[i - 1], i)]
  <2>1. /\ f = [i \in 0 .. n |-> f[i]] /\ f[0] = p.e[0]
        /\ \A i \in 1 .. n : f[i - 1] \in Int /\ f[i] = D[<<f[i - 1], i>>]
        /\ \A i \in 0 .. n : i = 0 \/ i \in 1 .. n
    BY <1>1, <1>5, IteratesSteps
  <2>2. \A i \in 0 .. n : f[i] = IF i = 0 THEN p.e[0] ELSE step(f[i - 1], i)
    BY <1>4, <2>1
  <2> QED
    BY <2>1, <2>2
<1>7. a = [i \in 0 .. n |-> IF i = 0 THEN p.e[0] ELSE step(a[i - 1], i)]
  BY <1>1, <1>6 DEF Arrivals, depot_head, step
<1>8. a = [i \in 0 .. n |-> a[i]] /\ a[0] = p.e[0] /\ \A i \in 1 .. n : a[i] = step(a[i - 1], i)
  BY <1>1, <1>7
<1>9. Iterates(a, n, Int, p.e[0], D)
  BY <1>1, <1>4, <1>8, Iterated
<1> QED
  BY <1>8, <1>9 DEF Iterates, n, step

\* The arrival before it is clipped.
LEMMA ArrivalQuotes ==
  ASSUME NEW p, NEW r, RouteOf(p, r), NEW i \in 1 .. Len(r) + 1
  PROVE  ArrivalQuote(p, r, i) \in Int /\ p.l[Id(r, i)] \in Int /\ p.e[Id(r, i)] \in Int
<1>1. Leg(p, Id(r, i - 1), Id(r, i)) \in Int
  BY RouteLegs
<1>2. i - 1 \in 0 .. Len(r) + 1 /\ i \in 0 .. Len(r) + 1
  <2>1. Len(r) \in Nat
    BY NodeData
  <2> QED
    BY <2>1
<1>3. Arrivals(p, r)[i - 1] \in Int
  BY <1>2, ArrivalsSteps
<1>4. Id(r, i) \in 0 .. p.n
  BY <1>2, RouteLegs
<1>5. p.l[Id(r, i)] \in Int /\ p.e[Id(r, i)] \in Int
  BY <1>4, NodeData
<1> QED
  BY <1>1, <1>3, <1>5 DEF ArrivalQuote

\* tw_penalty_init, tw_pf: lateness adds up from the head.
LEMMA PrefixLatenessSteps ==
  ASSUME NEW p, NEW r, RouteOf(p, r)
  PROVE  /\ PrefixLateness(p, r) \in [0 .. Len(r) + 1 -> Nat]
         /\ PrefixLateness(p, r)[0] = 0
         /\ \A i \in 1 .. Len(r) + 1 :
              PrefixLateness(p, r)[i] = PrefixLateness(p, r)[i - 1]
                  + MAX(0, ArrivalQuote(p, r, i) - p.l[Id(r, i)])
<1> DEFINE n == Len(r) + 1
           a == PrefixLateness(p, r)
           step(t, i) == t + MAX(0, ArrivalQuote(p, r, i) - p.l[Id(r, i)])
<1>1. n \in Nat /\ Indexes(r) = 0 .. n /\ 0 \in Nat
  <2>1. Len(r) \in Nat /\ 0 \in 0 .. p.n
    BY NodeData
  <2>2. 0 \in Nat
    OBVIOUS
  <2> QED
    BY <2>1, <2>2 DEF Indexes
<1>2. PICK D : D = [u \in Nat \X (1 .. n) |-> step(u[1], u[2])]
  OBVIOUS
<1>3. \A t \in Nat, i \in 1 .. n : step(t, i) \in Nat
  <2>1. \A i \in 1 .. n : ArrivalQuote(p, r, i) \in Int /\ p.l[Id(r, i)] \in Int
    BY ArrivalQuotes
  <2> QED
    BY <2>1 DEF MAX
<1> HIDE DEF n, step
<1>4. Stepper(D, n, Nat) /\ \A t \in Nat, i \in 1 .. n : D[<<t, i>>] = step(t, i)
  BY <1>2, <1>3 DEF Stepper
<1>5. PICK f : Iterates(f, n, Nat, 0, D)
  BY <1>1, <1>4, Recursion
<1>6. f = [i \in 0 .. n |-> IF i = 0 THEN 0 ELSE step(f[i - 1], i)]
  <2>1. /\ f = [i \in 0 .. n |-> f[i]] /\ f[0] = 0
        /\ \A i \in 1 .. n : f[i - 1] \in Nat /\ f[i] = D[<<f[i - 1], i>>]
        /\ \A i \in 0 .. n : i = 0 \/ i \in 1 .. n
    BY <1>1, <1>5, IteratesSteps
  <2>2. \A i \in 0 .. n : f[i] = IF i = 0 THEN 0 ELSE step(f[i - 1], i)
    BY <1>4, <2>1
  <2> QED
    BY <2>1, <2>2
<1>7. a = [i \in 0 .. n |-> IF i = 0 THEN 0 ELSE step(a[i - 1], i)]
  BY <1>1, <1>6 DEF PrefixLateness, depot_head, step
<1>8. a = [i \in 0 .. n |-> a[i]] /\ a[0] = 0 /\ \A i \in 1 .. n : a[i] = step(a[i - 1], i)
  BY <1>1, <1>7
<1>9. Iterates(a, n, Nat, 0, D)
  BY <1>1, <1>4, <1>8, Iterated
<1> QED
  BY <1>8, <1>9 DEF Iterates, n, step

\* c_penalty_init, demand_pf: demand adds up from the head.
LEMMA PrefixDemandSteps ==
  ASSUME NEW p, NEW r, RouteOf(p, r)
  PROVE  /\ PrefixDemand(p, r) \in [0 .. Len(r) + 1 -> Int]
         /\ PrefixDemand(p, r)[0] = p.demand[0]
         /\ \A i \in 1 .. Len(r) + 1 :
              PrefixDemand(p, r)[i] = p.demand[Id(r, i)] + PrefixDemand(p, r)[i - 1]
<1> DEFINE n == Len(r) + 1
           a == PrefixDemand(p, r)
           q == [i \in 0 .. n |-> p.demand[Id(r, i)]]
<1>1. n \in Nat /\ Indexes(r) = 0 .. n /\ q \in [0 .. n -> Int] /\ q[0] = p.demand[0]
  <2>1. Len(r) \in Nat
    BY NodeData
  <2>2. \A i \in 0 .. Len(r) + 1 : p.demand[Id(r, i)] \in Int
    BY RouteLegs, NodeData
  <2>3. Id(r, 0) = 0
    BY <2>1 DEF Id
  <2> QED
    BY <2>1, <2>2, <2>3 DEF Indexes
<1>2. \A i \in 0 .. n : p.demand[Id(r, i)] = q[i]
  OBVIOUS
<1> HIDE DEF q, n
<1>3. PICK D : D = [u \in Int \X (1 .. n) |-> q[u[2]] + u[1]]
  OBVIOUS
<1>4. Stepper(D, n, Int) /\ \A t \in Int, i \in 1 .. n : D[<<t, i>>] = q[i] + t
  <2>1. \A i \in 1 .. n : q[i] \in Int
    BY <1>1
  <2> QED
    BY <1>3, <2>1 DEF Stepper
<1>5. PICK f : Iterates(f, n, Int, q[0], D)
  <2>1. q[0] \in Int
    BY <1>1
  <2> QED
    BY <1>1, <1>4, <2>1, Recursion
<1>6. f = [i \in 0 .. n |-> q[i] + IF i = 0 THEN 0 ELSE f[i - 1]]
  <2>1. /\ f = [i \in 0 .. n |-> f[i]] /\ f[0] = q[0]
        /\ \A i \in 1 .. n : f[i - 1] \in Int /\ f[i] = D[<<f[i - 1], i>>]
        /\ \A i \in 0 .. n : i = 0 \/ i \in 1 .. n
    BY <1>1, <1>5, IteratesSteps
  <2>2. \A i \in 0 .. n : f[i] = q[i] + IF i = 0 THEN 0 ELSE f[i - 1]
    <3>1. q[0] \in Int /\ q[0] + 0 = q[0]
      BY <1>1
    <3>2. \A i \in 1 .. n : f[i] = q[i] + f[i - 1]
      BY <1>4, <2>1
    <3>3. \A i \in 1 .. n : i # 0
      BY <1>1
    <3> QED
      BY <2>1, <3>1, <3>2, <3>3
  <2> QED
    BY <2>1, <2>2
<1>7. a = [i \in 0 .. n |-> p.demand[Id(r, i)] + IF i = 0 THEN 0 ELSE a[i - 1]]
  <2>1. f = [i \in 0 .. n |-> p.demand[Id(r, i)] + IF i = 0 THEN 0 ELSE f[i - 1]]
    <3>1. \A i \in 0 .. n : q[i] + (IF i = 0 THEN 0 ELSE f[i - 1])
                              = p.demand[Id(r, i)] + IF i = 0 THEN 0 ELSE f[i - 1]
      BY <1>2
    <3> QED
      BY <1>6, <3>1
  <2> QED
    BY <1>1, <2>1 DEF PrefixDemand, depot_head
<1>8. a = [i \in 0 .. n |-> q[i] + IF i = 0 THEN 0 ELSE a[i - 1]]
  <2>1. \A i \in 0 .. n : q[i] + (IF i = 0 THEN 0 ELSE a[i - 1])
                            = p.demand[Id(r, i)] + IF i = 0 THEN 0 ELSE a[i - 1]
    BY <1>2
  <2> QED
    BY <1>7, <2>1
<1>9. /\ a = [i \in 0 .. n |-> a[i]] /\ a[0] = q[0]
      /\ \A i \in 1 .. n : a[i] = q[i] + a[i - 1]
  <2>1. \A i \in 0 .. n : a[i] = q[i] + IF i = 0 THEN 0 ELSE a[i - 1]
    BY <1>8
  <2>2. 0 \in 0 .. n /\ q[0] \in Int /\ \A i \in 1 .. n : i \in 0 .. n /\ i # 0
    BY <1>1
  <2>3. a[0] = q[0]
    BY <2>1, <2>2
  <2> QED
    BY <1>8, <2>1, <2>2, <2>3
<1>10. Iterates(a, n, Int, q[0], D)
  <2>1. \A i \in 1 .. n : a[i - 1] \in Int => a[i] = D[<<a[i - 1], i>>]
    BY <1>4, <1>9
  <2>2. q[0] \in Int
    BY <1>1
  <2> QED
    BY <1>1, <1>4, <1>9, <2>1, <2>2, Iterated
<1>11. \A i \in 1 .. n : a[i] = p.demand[Id(r, i)] + a[i - 1]
  <2>1. \A i \in 1 .. n : i \in 0 .. n
    BY <1>1
  <2> QED
    BY <1>2, <1>9, <2>1
<1> QED
  BY <1>1, <1>9, <1>10, <1>11 DEF Iterates, n
-----------------------------------------------------------------------------
\* The penalties of a route are natural numbers.
LEMMA PenaltyTypes ==
  ASSUME NEW p, NEW r, RouteOf(p, r)
  PROVE  TwPenalty(p, r) \in Nat /\ CPenalty(p, r) \in Nat
<1>1. Len(r) \in Nat /\ Len(r) + 1 \in 0 .. Len(r) + 1
  <2>1. Len(r) \in Nat
    BY NodeData
  <2> QED
    BY <2>1
<1>2. TwPenalty(p, r) \in Nat
  BY <1>1, PrefixLatenessSteps DEF TwPenalty, depot_tail
<1>3. PrefixDemand(p, r)[Len(r) + 1] \in Int /\ p.vc \in Int
  BY <1>1, PrefixDemandSteps DEF RouteOf, Instance
<1>4. CPenalty(p, r) \in Nat
  BY <1>3 DEF CPenalty, depot_tail, MAX
<1> QED
  BY <1>2, <1>4

\* Where the tolerance is below the resolution of the data, feasible means that
\* there is no penalty.
LEMMA ExactFeasibility ==
  ASSUME NEW p, NEW r, RouteOf(p, r)
  PROVE  /\ route_feasible(p, r, 1) <=> TwPenalty(p, r) = 0 /\ CPenalty(p, r) = 0
         /\ route_feasible(p, r, 1) <=> route_penalty(p, r, 1, 1) <= 0
         /\ route_penalty(p, r, 1, 1) \in Nat
BY PenaltyTypes DEF route_feasible, route_penalty
-----------------------------------------------------------------------------
\* x is the increasing tuple of n indexes of r; f removes them one by one.
Picked(r, x, n) ==
  /\ n \in Nat /\ x \in [1 .. n -> 1 .. Len(r)]
  /\ \A i, j \in 1 .. n : i < j => x[i] < x[j]

Removes(f, r, x, n) ==
  f[0] = r /\ \A k \in 1 .. n : f[k] = RemoveIndex(f[k - 1], x[k] - (k - 1))

\* An index follows as many smaller ones as there are before it in the tuple.
LEMMA PickedBounds ==
  ASSUME NEW C, NEW r \in Seq(C), NEW x, NEW n, Picked(r, x, n)
  PROVE  \A k \in 1 .. n : x[k] \in Int /\ k <= x[k] /\ x[k] <= Len(r)
<1>1. Len(r) \in Nat /\ n \in Nat /\ \A k \in 1 .. n : x[k] \in 1 .. Len(r)
  BY DEF Picked
<1> DEFINE T == {k \in 0 .. n : k \in 1 .. n => k <= x[k]}
<1>2. 0 \in T
  BY <1>1
<1>3. ASSUME NEW k \in 1 .. n, k - 1 \in T PROVE k \in T
  <2>1. CASE k = 1
    BY <1>1, <2>1
  <2>2. CASE k # 1
    <3>1. k - 1 \in 1 .. n /\ k - 1 < k
      BY <1>1, <2>2
    <3>2. x[k - 1] < x[k] /\ k - 1 <= x[k - 1]
      BY <1>3, <3>1 DEF Picked
    <3>3. x[k - 1] \in Int /\ x[k] \in Int
      BY <1>1, <3>1
    <3> QED
      BY <3>2, <3>3
  <2> QED
    BY <2>1, <2>2
<1>4. 0 .. n \subseteq T
  <2> HIDE DEF T
  <2> QED
    BY <1>1, <1>2, <1>3, UpTo
<1>5. \A k \in 1 .. n : k \in 0 .. n
  BY <1>1
<1> QED
  BY <1>1, <1>4, <1>5

\* What is left after each removal.
LEMMA RemovesSteps ==
  ASSUME NEW C, NEW r \in Seq(C), NEW x, NEW n, Picked(r, x, n), NEW f, Removes(f, r, x, n)
  PROVE  \A k \in 0 .. n : f[k] \in Seq(C) /\ Len(f[k]) = Len(r) - k
<1>1. Len(r) \in Nat /\ n \in Nat
  BY DEF Picked
<1> DEFINE T == {k \in 0 .. n : f[k] \in Seq(C) /\ Len(f[k]) = Len(r) - k}
<1>2. 0 \in T
  BY <1>1 DEF Removes
<1>3. ASSUME NEW k \in 1 .. n, k - 1 \in T PROVE k \in T
  <2>1. PICK t \in Seq(C) : t = f[k - 1] /\ Len(t) = Len(r) - (k - 1)
    BY <1>3
  <2>2. x[k] \in Int /\ k <= x[k] /\ x[k] <= Len(r)
    BY PickedBounds
  <2>3. x[k] - (k - 1) \in 1 .. Len(t)
    BY <1>1, <2>1, <2>2
  <2>4. f[k] = RemoveIndex(t, x[k] - (k - 1))
    BY <2>1 DEF Removes
  <2>5. f[k] \in Seq(C) /\ Len(f[k]) = Len(t) - 1
    BY <2>3, <2>4, RemoveIndexElements
  <2>6. Len(f[k]) = Len(r) - k
    BY <1>1, <2>1, <2>5
  <2> QED
    BY <2>5, <2>6
<1>4. 0 .. n \subseteq T
  <2> HIDE DEF T
  <2> QED
    BY <1>1, <1>2, <1>3, UpTo
<1> QED
  BY <1>4

\* The removals can be carried out, and have one result.
LEMMA RemovesExist ==
  ASSUME NEW C, NEW r \in Seq(C), NEW x, NEW n, Picked(r, x, n)
  PROVE  \E f : f = [k \in 0 .. n |-> IF k = 0 THEN r
                                      ELSE RemoveIndex(f[k - 1], x[k] - (k - 1))]
<1> DEFINE step(t, k) == IF x[k] - (k - 1) \in 1 .. Len(t)
                         THEN RemoveIndex(t, x[k] - (k - 1)) ELSE t
<1>1. Len(r) \in Nat /\ n \in Nat
  BY DEF Picked
<1>2. \A t \in Seq(C), k \in 1 .. n : step(t, k) \in Seq(C)
  BY RemoveIndexElements
<1>3. PICK D : D = [u \in Seq(C) \X (1 .. n) |-> step(u[1], u[2])]
  OBVIOUS
<1> HIDE DEF step
<1>4. Stepper(D, n, Seq(C)) /\ \A t \in Seq(C), k \in 1 .. n : D[<<t, k>>] = step(t, k)
  BY <1>2, <1>3 DEF Stepper
<1>5. PICK f : Iterates(f, n, Seq(C), r, D)
  BY <1>1, <1>4, Recursion
<1>6. /\ f = [k \in 0 .. n |-> f[k]] /\ f[0] = r
      /\ \A k \in 1 .. n : f[k - 1] \in Seq(C) /\ f[k] = step(f[k - 1], k)
      /\ \A k \in 0 .. n : k = 0 \/ k \in 1 .. n
  <2>1. /\ f = [k \in 0 .. n |-> f[k]] /\ f[0] = r
        /\ \A k \in 1 .. n : f[k - 1] \in Seq(C) /\ f[k] = D[<<f[k - 1], k>>]
        /\ \A k \in 0 .. n : k = 0 \/ k \in 1 .. n
    BY <1>1, <1>5, IteratesSteps
  <2> QED
    BY <1>4, <2>1
<1> DEFINE T == {k \in 0 .. n : Len(f[k]) = Len(r) - k}
<1>7. ASSUME NEW k \in 1 .. n, Len(f[k - 1]) = Len(r) - (k - 1)
      PROVE  /\ f[k] = RemoveIndex(f[k - 1], x[k] - (k - 1))
             /\ Len(f[k]) = Len(r) - k
  <2>1. PICK t \in Seq(C) : t = f[k - 1]
    BY <1>6
  <2>2. x[k] \in Int /\ k <= x[k] /\ x[k] <= Len(r)
    BY PickedBounds
  <2>3. x[k] - (k - 1) \in 1 .. Len(t)
    BY <1>1, <1>7, <2>1, <2>2
  <2>4. f[k] = RemoveIndex(t, x[k] - (k - 1))
    BY <1>6, <2>1, <2>3 DEF step
  <2>5. Len(f[k]) = Len(t) - 1
    BY <2>3, <2>4, RemoveIndexElements
  <2>6. Len(f[k]) = Len(r) - k
    BY <1>1, <1>7, <2>1, <2>5
  <2> QED
    BY <2>1, <2>4, <2>6
<1>8. 0 .. n \subseteq T
  <2>1. 0 \in T
    BY <1>1, <1>6
  <2>2. ASSUME NEW k \in 1 .. n, k - 1 \in T PROVE k \in T
    <3>1. Len(f[k - 1]) = Len(r) - (k - 1)
      BY <2>2
    <3>2. Len(f[k]) = Len(r) - k
      BY <1>7, <3>1
    <3>3. k \in 0 .. n
      BY <1>1
    <3> QED
      BY <3>2, <3>3
  <2> HIDE DEF T
  <2> QED
    BY <1>1, <2>1, <2>2, UpTo
<1>9. \A k \in 1 .. n : k # 0 /\ f[k] = RemoveIndex(f[k - 1], x[k] - (k - 1))
  <2>1. \A k \in 1 .. n : k - 1 \in 0 .. n /\ k # 0
    BY <1>1
  <2> QED
    BY <1>7, <1>8, <2>1
<1>10. \A k \in 0 .. n :
         f[k] = IF k = 0 THEN r ELSE RemoveIndex(f[k - 1], x[k] - (k - 1))
  BY <1>6, <1>9
<1> QED
  BY <1>6, <1>10

\* Rest is the result of any such removals.
LEMMA RestRemoves ==
  ASSUME NEW C, NEW r \in Seq(C), NEW x, NEW n, Picked(r, x, n), NEW f, Removes(f, r, x, n)
  PROVE  Rest(r, x) = f[n]
<1>1. n \in Nat /\ Len(x) = n
  BY DEF Picked
<1> DEFINE a[k \in 0 .. Len(x)] == IF k = 0 THEN r ELSE RemoveIndex(a[k - 1], x[k] - (k - 1))
<1>2. a = [k \in 0 .. n |-> IF k = 0 THEN r ELSE RemoveIndex(a[k - 1], x[k] - (k - 1))]
  BY <1>1, RemovesExist
<1>3. Rest(r, x) = a[n]
  BY <1>1 DEF Rest
<1> HIDE DEF a
<1> DEFINE T == {k \in 0 .. n : a[k] = f[k]}
<1>4. 0 \in T
  BY <1>1, <1>2 DEF Removes
<1>5. ASSUME NEW k \in 1 .. n, k - 1 \in T PROVE k \in T
  <2>1. k \in 0 .. n /\ k # 0
    BY <1>1
  <2>2. a[k] = RemoveIndex(a[k - 1], x[k] - (k - 1))
    BY <1>2, <2>1
  <2>3. f[k] = RemoveIndex(f[k - 1], x[k] - (k - 1))
    BY DEF Removes
  <2>4. a[k - 1] = f[k - 1]
    BY <1>5
  <2> QED
    BY <2>1, <2>2, <2>3, <2>4
<1>6. 0 .. n \subseteq T
  <2> HIDE DEF T
  <2> QED
    BY <1>1, <1>4, <1>5, UpTo
<1>7. n \in 0 .. n
  BY <1>1
<1> QED
  BY <1>3, <1>6, <1>7

\* Removing nothing, and removing the customer at one index.
LEMMA RestSmall ==
  ASSUME NEW C, NEW r \in Seq(C)
  PROVE  /\ \A x : Picked(r, x, 0) => Rest(r, x) = r
         /\ \A i \in 1 .. Len(r) :
              /\ Picked(r, [k \in 1 .. 1 |-> i], 1)
              /\ Rest(r, [k \in 1 .. 1 |-> i]) = RemoveIndex(r, i)
<1>1. ASSUME NEW x, Picked(r, x, 0) PROVE Rest(r, x) = r
  <2>1. PICK f : f = [k \in 0 .. 0 |-> r]
    OBVIOUS
  <2>2. f[0] = r
    BY <2>1
  <2>3. Removes(f, r, x, 0)
    BY <2>2 DEF Removes
  <2> QED
    BY <1>1, <2>2, <2>3, RestRemoves
<1>2. ASSUME NEW i \in 1 .. Len(r)
      PROVE  /\ Picked(r, [k \in 1 .. 1 |-> i], 1)
             /\ Rest(r, [k \in 1 .. 1 |-> i]) = RemoveIndex(r, i)
  <2>1. PICK x : x = [k \in 1 .. 1 |-> i]
    OBVIOUS
  <2>2. x \in [1 .. 1 -> 1 .. Len(r)] /\ x[1] = i
    BY <2>1
  <2>3. Picked(r, x, 1)
    BY <2>2 DEF Picked
  <2>4. PICK f : f = [k \in 0 .. 1 |-> IF k = 0 THEN r ELSE RemoveIndex(r, i)]
    OBVIOUS
  <2>5. f[0] = r /\ f[1] = RemoveIndex(r, i)
    BY <2>4
  <2>6. Removes(f, r, x, 1)
    <3>1. \A k \in 1 .. 1 : k = 1 /\ k - 1 = 0
      OBVIOUS
    <3>2. x[1] - 0 = i
      BY <2>2
    <3> QED
      BY <2>5, <3>1, <3>2 DEF Removes
  <2> QED
    BY <2>1, <2>3, <2>5, <2>6, RestRemoves
<1> QED
  BY <1>1, <1>2

\* Removing the first customer of an ejection leaves the rest of it, whose
\* indexes have moved by one.
Shifted(y, x, n) == y = [k \in 1 .. n - 1 |-> x[k + 1] - 1]

StaysPicked(q, y, r, x, n) == \A k \in 1 .. n - 1 : q[y[k]] = r[x[k + 1]]

\* What is left is the same whether the first is removed on its own or with the others.
LEMMA RestFirst ==
  ASSUME NEW C, NEW r \in Seq(C), NEW x, NEW n, Picked(r, x, n), n # 0,
         NEW y, Shifted(y, x, n)
  PROVE  /\ x[1] \in 1 .. Len(r)
         /\ Picked(RemoveIndex(r, x[1]), y, n - 1)
         /\ Rest(RemoveIndex(r, x[1]), y) = Rest(r, x)
         /\ StaysPicked(RemoveIndex(r, x[1]), y, r, x, n)
<1> USE DEF Shifted, StaysPicked
<1>1. Len(r) \in Nat /\ n \in Nat /\ 1 \in 1 .. n /\ n - 1 \in Nat
  BY DEF Picked
<1>2. \A k \in 1 .. n : x[k] \in Int /\ k <= x[k] /\ x[k] <= Len(r)
  BY PickedBounds
<1>3. x[1] \in 1 .. Len(r)
  BY <1>1, <1>2
<1>4. PICK q : q = RemoveIndex(r, x[1])
  OBVIOUS
<1>5. /\ q \in Seq(C) /\ Len(q) = Len(r) - 1
      /\ \A k \in 1 .. Len(r) - 1 : q[k] = IF k < x[1] THEN r[k] ELSE r[k + 1]
  BY <1>3, <1>4, RemoveIndexElements
<1>6. ASSUME NEW k \in 1 .. n - 1
      PROVE  /\ y[k] = x[k + 1] - 1 /\ y[k] \in 1 .. Len(q)
             /\ ~(y[k] < x[1]) /\ y[k] + 1 = x[k + 1]
  <2>1. k + 1 \in 1 .. n /\ 1 < k + 1
    BY <1>1
  <2>2. x[k + 1] \in Int /\ k + 1 <= x[k + 1] /\ x[k + 1] <= Len(r)
    BY <1>2, <2>1
  <2>3. x[1] < x[k + 1] /\ x[1] \in Int
    BY <1>1, <1>3, <2>1 DEF Picked
  <2> QED
    BY <1>1, <1>5, <2>2, <2>3
<1>7. Picked(q, y, n - 1)
  <2>1. y \in [1 .. n - 1 -> 1 .. Len(q)]
    BY <1>6
  <2>2. ASSUME NEW i \in 1 .. n - 1, NEW j \in 1 .. n - 1, i < j
        PROVE  y[i] < y[j]
    <3>1. i + 1 \in 1 .. n /\ j + 1 \in 1 .. n /\ i + 1 < j + 1
      BY <1>1, <2>2
    <3>2. x[i + 1] < x[j + 1] /\ x[i + 1] \in Int /\ x[j + 1] \in Int
      BY <1>2, <3>1 DEF Picked
    <3> QED
      BY <1>6, <3>2
  <2> QED
    BY <1>1, <2>1, <2>2 DEF Picked
<1>8. \A k \in 1 .. n - 1 : q[y[k]] = r[x[k + 1]]
  BY <1>5, <1>6
<1>9. Rest(q, y) = Rest(r, x)
  <2>1. PICK f : f = [k \in 0 .. n |-> IF k = 0 THEN r
                                       ELSE RemoveIndex(f[k - 1], x[k] - (k - 1))]
    BY RemovesExist
  <2>2. f[0] = r /\ \A k \in 1 .. n : f[k] = RemoveIndex(f[k - 1], x[k] - (k - 1))
    BY <1>1, <2>1
  <2>3. Removes(f, r, x, n)
    BY <2>2 DEF Removes
  <2>4. PICK g : g = [k \in 0 .. n - 1 |-> f[k + 1]]
    OBVIOUS
  <2>5. g[0] = q
    <3>1. 0 \in 0 .. n - 1 /\ 0 + 1 = 1 /\ 1 - 1 = 0
      BY <1>1
    <3>2. f[1] = RemoveIndex(f[0], x[1] - 0)
      BY <1>1, <2>2
    <3>3. x[1] - 0 = x[1]
      BY <1>3
    <3> QED
      BY <1>4, <2>2, <2>4, <3>1, <3>2, <3>3
  <2>6. ASSUME NEW k \in 1 .. n - 1
        PROVE  g[k] = RemoveIndex(g[k - 1], y[k] - (k - 1))
    <3>1. /\ k \in 0 .. n - 1 /\ k - 1 \in 0 .. n - 1 /\ k - 1 + 1 = k
          /\ k + 1 \in 1 .. n /\ k + 1 - 1 = k
      BY <1>1
    <3>2. g[k] = f[k + 1] /\ g[k - 1] = f[k]
      BY <2>4, <3>1
    <3>3. f[k + 1] = RemoveIndex(f[k], x[k + 1] - k)
      BY <2>2, <3>1
    <3>4. x[k + 1] \in Int
      BY <1>2, <3>1
    <3>5. x[k + 1] - k = y[k] - (k - 1)
      BY <1>6, <3>4
    <3> QED
      BY <3>2, <3>3, <3>5
  <2>7. Removes(g, q, y, n - 1)
    BY <2>5, <2>6 DEF Removes
  <2>8. Rest(q, y) = g[n - 1]
    BY <1>5, <1>7, <2>7, RestRemoves
  <2>9. g[n - 1] = f[n]
    <3>1. n - 1 \in 0 .. n - 1 /\ n - 1 + 1 = n
      BY <1>1
    <3> QED
      BY <2>4, <3>1
  <2>10. Rest(r, x) = f[n]
    BY <2>3, RestRemoves
  <2> QED
    BY <2>8, <2>9, <2>10
<1> QED
  BY <1>3, <1>4, <1>7, <1>8, <1>9

\* The sum over one customer.
LEMMA PSumOne ==
  ASSUME NEW ps, NEW c, ps[c] \in Int
  PROVE  PSum(ps, [k \in 1 .. 1 |-> c]) = ps[c]
<1> DEFINE cs == [k \in 1 .. 1 |-> c]
           sum[k \in 0 .. Len(cs)] == IF k = 0 THEN 0 ELSE sum[k - 1] + ps[cs[k]]
<1>1. Len(cs) = 1 /\ cs[1] = c
  <2>1. DOMAIN cs = 1 .. 1 /\ cs \in Seq({c})
    OBVIOUS
  <2> QED
    BY <2>1
<1> HIDE DEF cs
<1>2. PICK f : f = [k \in 0 .. 1 |-> IF k = 0 THEN 0 ELSE ps[c]]
  OBVIOUS
<1>3. f = [k \in 0 .. 1 |-> IF k = 0 THEN 0 ELSE f[k - 1] + ps[cs[k]]]
  <2>1. \A k \in 0 .. 1 : k = 0 \/ k = 1
    OBVIOUS
  <2>2. f[0] = 0 /\ f[1] = ps[c] /\ 0 + ps[c] = ps[c]
    BY <1>2
  <2>3. \A k \in 0 .. 1 : f[k] = IF k = 0 THEN 0 ELSE f[k - 1] + ps[cs[k]]
    BY <1>1, <2>1, <2>2
  <2> QED
    BY <1>2, <2>3
<1>4. sum = [k \in 0 .. 1 |-> IF k = 0 THEN 0 ELSE sum[k - 1] + ps[cs[k]]]
  BY <1>1, <1>3
<1>5. PSum(ps, cs) = sum[1]
  BY <1>1 DEF PSum
<1> HIDE DEF sum
<1>6. sum[0] = 0
  BY <1>4
<1>7. sum[1] = sum[0] + ps[cs[1]]
  BY <1>4
<1> QED
  BY <1>1, <1>5, <1>6, <1>7 DEF cs
-----------------------------------------------------------------------------
\* f adds up q.
SumsUp(f, n, q) == f[0] = 0 /\ \A k \in 1 .. n : f[k] = f[k - 1] + q[k]

\* The sums exist.
LEMMA SumsExist ==
  ASSUME NEW n \in Nat, NEW q \in [1 .. n -> Int]
  PROVE  \E f : f = [k \in 0 .. n |-> IF k = 0 THEN 0 ELSE f[k - 1] + q[k]]
<1>1. PICK D : D = [u \in Int \X (1 .. n) |-> u[1] + q[u[2]]]
  OBVIOUS
<1>2. Stepper(D, n, Int) /\ \A t \in Int, k \in 1 .. n : D[<<t, k>>] = t + q[k]
  BY <1>1 DEF Stepper
<1>3. PICK f : Iterates(f, n, Int, 0, D)
  <2>1. 0 \in Int
    OBVIOUS
  <2> QED
    BY <1>2, <2>1, Recursion
<1>4. /\ f = [k \in 0 .. n |-> f[k]] /\ f[0] = 0
      /\ \A k \in 1 .. n : f[k - 1] \in Int /\ f[k] = D[<<f[k - 1], k>>]
      /\ \A k \in 0 .. n : k = 0 \/ k \in 1 .. n
  BY <1>3, IteratesSteps
<1>5. \A k \in 1 .. n : f[k] = f[k - 1] + q[k]
  BY <1>2, <1>4
<1>6. \A k \in 1 .. n : k # 0
  OBVIOUS
<1>7. \A k \in 0 .. n : f[k] = IF k = 0 THEN 0 ELSE f[k - 1] + q[k]
  BY <1>4, <1>5, <1>6
<1>8. f = [k \in 0 .. n |-> IF k = 0 THEN 0 ELSE f[k - 1] + q[k]]
  BY <1>4, <1>7
<1> QED
  BY <1>8

\* q and r agree but for the indexes x and y.
AgreeBut(q, r, n, x, y) ==
  /\ q \in [1 .. n -> Int] /\ r \in [1 .. n -> Int] /\ x \in 1 .. n /\ y \in 1 .. n
  /\ \A z \in 1 .. n : z # x /\ z # y => r[z] = q[z]

\* Sums of what differs at x and y alone differ by what x and y changed.
LEMMA SumsDiffer ==
  ASSUME NEW n \in Nat, NEW q, NEW r, NEW f, SumsUp(f, n, q), NEW g, SumsUp(g, n, r),
         NEW x, NEW y, AgreeBut(q, r, n, x, y)
  PROVE  /\ f[n] \in Int
         /\ g[n] = f[n] + (r[x] - q[x] + IF x = y THEN 0 ELSE r[y] - q[y])
<1> USE DEF AgreeBut
<1> DEFINE up(z, k) == IF z <= k THEN r[z] - q[z] ELSE 0
           T == {k \in 0 .. n : /\ f[k] \in Int
                                /\ g[k] = f[k] + (up(x, k) + IF x = y THEN 0 ELSE up(y, k))}
<1>1. \A z \in 1 .. n : q[z] \in Int /\ r[z] \in Int
  OBVIOUS
<1>2. 0 \in T
  <2>1. f[0] = 0 /\ g[0] = 0
    BY DEF SumsUp
  <2>2. up(x, 0) = 0 /\ up(y, 0) = 0
    OBVIOUS
  <2> HIDE DEF up
  <2> QED
    BY <2>1, <2>2
<1>3. ASSUME NEW k \in 1 .. n, k - 1 \in T PROVE k \in T
  <2>1. f[k] = f[k - 1] + q[k] /\ g[k] = g[k - 1] + r[k]
    BY DEF SumsUp
  <2>2. PICK d \in Int : d = r[k] - q[k]
    BY <1>1
  <2>3. \A z \in 1 .. n : /\ up(z, k - 1) \in Int /\ up(z, k) \in Int
                          /\ up(z, k) = up(z, k - 1) + IF z = k THEN d ELSE 0
    BY <1>1, <2>2
  <2>4. k # x /\ k # y => d = 0
    BY <1>1, <2>2
  <2>5. /\ f[k - 1] \in Int
        /\ g[k - 1] = f[k - 1] + (up(x, k - 1) + IF x = y THEN 0 ELSE up(y, k - 1))
    BY <1>3
  <2> HIDE DEF up
  <2>6. r[k] = q[k] + d /\ q[k] \in Int
    BY <1>1, <2>2
  <2>7. f[k] \in Int
    BY <2>1, <2>5, <2>6
  <2>8. g[k] = f[k] + (up(x, k) + IF x = y THEN 0 ELSE up(y, k))
    <3>1. PICK u \in Int : u = up(x, k - 1) /\ up(x, k) = u + IF x = k THEN d ELSE 0
      BY <2>3
    <3>2. PICK v \in Int : v = up(y, k - 1) /\ up(y, k) = v + IF y = k THEN d ELSE 0
      BY <2>3
    <3>3. PICK t \in Int : t = f[k - 1] /\ g[k - 1] = t + (u + IF x = y THEN 0 ELSE v)
      BY <2>5, <3>1, <3>2
    <3>4. PICK c \in Int : c = q[k] /\ r[k] = c + d
      BY <2>6
    <3>5. f[k] = t + c /\ g[k] = t + (u + IF x = y THEN 0 ELSE v) + (c + d)
      BY <2>1, <3>3, <3>4
    <3>6. CASE k # x /\ k # y
      <4>1. d = 0 /\ up(x, k) = u /\ up(y, k) = v
        BY <2>4, <3>1, <3>2, <3>6
      <4> QED
        BY <3>5, <4>1
    <3>7. CASE k = x /\ k = y
      BY <3>1, <3>2, <3>5, <3>7
    <3>8. CASE k = x /\ k # y
      BY <3>1, <3>2, <3>5, <3>8
    <3>9. CASE k # x /\ k = y
      BY <3>1, <3>2, <3>5, <3>9
    <3> QED
      BY <3>6, <3>7, <3>8, <3>9
  <2> QED
    BY <2>7, <2>8
<1>4. 0 .. n \subseteq T
  <2> HIDE DEF T
  <2> QED
    BY <1>2, <1>3, UpTo
<1>5. n \in 0 .. n /\ up(x, n) = r[x] - q[x] /\ up(y, n) = r[y] - q[y]
  OBVIOUS
<1> HIDE DEF up
<1> QED
  BY <1>4, <1>5
-----------------------------------------------------------------------------
\* D is the step g of a recursion from the index n down, as a step up.
Downwards(D, g, n, S) ==
  /\ g \in [S \X (0 .. n - 1) -> S]
  /\ D = [u \in S \X (1 .. n) |-> g[<<u[1], n - u[2]>>]]

Mirrors(D, g, n, S) == \A t \in S, i \in 0 .. n - 1 : D[<<t, n - i>>] = g[<<t, i>>]

\* A step down is a step up of the mirrored index.
LEMMA DownSteps ==
  ASSUME NEW n \in Nat, NEW S, NEW D, NEW g, Downwards(D, g, n, S)
  PROVE  Stepper(D, n, S) /\ Mirrors(D, g, n, S)
<1> USE DEF Downwards
<1>1. \A i \in 1 .. n : n - i \in 0 .. n - 1
  OBVIOUS
<1>2. \A u \in S \X (1 .. n) : <<u[1], n - u[2]>> \in S \X (0 .. n - 1)
  BY <1>1
<1>3. D \in [S \X (1 .. n) -> S]
  BY <1>2
<1>4. \A i \in 0 .. n - 1 : n - i \in 1 .. n /\ n - (n - i) = i
  OBVIOUS
<1>5. ASSUME NEW t \in S, NEW i \in 0 .. n - 1
      PROVE  D[<<t, n - i>>] = g[<<t, i>>]
  <2>1. <<t, n - i>> \in S \X (1 .. n)
    BY <1>4
  <2>2. D[<<t, n - i>>] = g[<<t, n - (n - i)>>]
    BY <2>1
  <2> QED
    BY <1>4, <2>2
<1> QED
  BY <1>3, <1>5 DEF Stepper, Mirrors

\* tw_penalty_init, z: the latest start from which the nodes behind can be reached.
LEMMA LatestStartsSteps ==
  ASSUME NEW p, NEW r, RouteOf(p, r)
  PROVE  /\ LatestStarts(p, r) \in [0 .. Len(r) + 1 -> Int]
         /\ LatestStarts(p, r)[Len(r) + 1] = p.l[0]
         /\ \A i \in 0 .. Len(r) :
              LatestStarts(p, r)[i] =
                Clip(p, Id(r, i), LatestStarts(p, r)[i + 1] - Leg(p, Id(r, i), Id(r, i + 1)))
<1> DEFINE n == Len(r) + 1
           a == LatestStarts(p, r)
           step(t, i) == Clip(p, Id(r, i), t - Leg(p, Id(r, i), Id(r, i + 1)))
<1>1. /\ n \in Nat /\ Indexes(r) = 0 .. n /\ p.l[0] \in Int /\ 0 .. n - 1 = 0 .. Len(r)
      /\ depot_tail(r) = n
  <2>1. Len(r) \in Nat /\ 0 \in 0 .. p.n
    BY NodeData
  <2>2. p.l[0] \in Int
    BY <2>1, NodeData
  <2> QED
    BY <2>1, <2>2 DEF Indexes, depot_tail
<1>2. \A t \in Int, i \in 0 .. n - 1 : step(t, i) \in Int
  <2>1. \A i \in 0 .. n - 1 : Leg(p, Id(r, i), Id(r, i + 1)) \in Int /\ Id(r, i) \in 0 .. p.n
    BY <1>1, RouteLegs
  <2>2. \A t \in Int, i \in 0 .. n - 1 : t - Leg(p, Id(r, i), Id(r, i + 1)) \in Int
    BY <2>1
  <2>3. \A c \in 0 .. p.n, t \in Int : Clip(p, c, t) \in Int
    BY NodeData
  <2> HIDE DEF n
  <2> QED
    BY <2>1, <2>2, <2>3, Zenon
<1> HIDE DEF n, step
<1>3. PICK g : g = [u \in Int \X (0 .. n - 1) |-> step(u[1], u[2])]
  OBVIOUS
<1>4. g \in [Int \X (0 .. n - 1) -> Int] /\ \A t \in Int, i \in 0 .. n - 1 : g[<<t, i>>] = step(t, i)
  BY <1>2, <1>3
<1>5. PICK D : D = [u \in Int \X (1 .. n) |-> g[<<u[1], n - u[2]>>]]
  OBVIOUS
<1>6. Stepper(D, n, Int) /\ \A t \in Int, i \in 0 .. n - 1 : D[<<t, n - i>>] = step(t, i)
  <2>1. Downwards(D, g, n, Int)
    BY <1>4, <1>5 DEF Downwards
  <2>2. Stepper(D, n, Int) /\ Mirrors(D, g, n, Int)
    BY <1>1, <2>1, DownSteps
  <2> QED
    BY <1>4, <2>2 DEF Mirrors
<1>7. PICK f : IteratesDown(f, n, Int, p.l[0], D)
  BY <1>1, <1>6, RecursionDown
<1>8. f = [i \in 0 .. n |-> IF i = n THEN p.l[0] ELSE step(f[i + 1], i)]
  <2>1. /\ f \in [0 .. n -> Int] /\ f[n] = p.l[0]
        /\ \A i \in 0 .. n - 1 : f[i] = D[<<f[i + 1], n - i>>]
    BY <1>7 DEF IteratesDown
  <2>2. \A i \in 0 .. n - 1 : i + 1 \in 0 .. n
    BY <1>1
  <2>3. \A i \in 0 .. n - 1 : f[i] = step(f[i + 1], i)
    BY <1>6, <2>1, <2>2
  <2>4. \A i \in 0 .. n : i = n \/ i \in 0 .. n - 1
    BY <1>1
  <2>5. \A i \in 0 .. n : f[i] = IF i = n THEN p.l[0] ELSE step(f[i + 1], i)
    BY <2>1, <2>3, <2>4
  <2> QED
    BY <2>1, <2>5
<1>9. a = [i \in 0 .. n |-> IF i = n THEN p.l[0] ELSE step(a[i + 1], i)]
  BY <1>1, <1>8 DEF LatestStarts, step
<1>10. /\ a = [i \in 0 .. n |-> a[i]] /\ a[n] = p.l[0]
       /\ \A i \in 0 .. n - 1 : a[i] = step(a[i + 1], i)
  <2>1. \A i \in 0 .. n - 1 : i \in 0 .. n /\ i # n
    BY <1>1
  <2>2. n \in 0 .. n
    BY <1>1
  <2> QED
    BY <1>9, <2>1, <2>2
<1>11. IteratesDown(a, n, Int, p.l[0], D)
  <2>1. \A i \in 0 .. n - 1 : a[i + 1] \in Int => a[i] = D[<<a[i + 1], n - i>>]
    BY <1>6, <1>10
  <2> QED
    BY <1>1, <1>6, <1>10, <2>1, IteratedDown
<1>12. a \in [0 .. n -> Int]
  BY <1>11 DEF IteratesDown
<1> QED
  BY <1>1, <1>10, <1>12 DEF n, step

\* The latest start before it is clipped.
LEMMA LatestQuotes ==
  ASSUME NEW p, NEW r, RouteOf(p, r), NEW i \in 0 .. Len(r)
  PROVE  LatestQuote(p, r, i) \in Int /\ p.l[Id(r, i)] \in Int /\ p.e[Id(r, i)] \in Int
<1>1. Leg(p, Id(r, i), Id(r, i + 1)) \in Int
  BY RouteLegs
<1>2. i + 1 \in 0 .. Len(r) + 1 /\ i \in 0 .. Len(r) + 1
  <2>1. Len(r) \in Nat
    BY NodeData
  <2> QED
    BY <2>1
<1>3. LatestStarts(p, r)[i + 1] \in Int
  BY <1>2, LatestStartsSteps
<1>4. Id(r, i) \in 0 .. p.n
  BY <1>2, RouteLegs
<1>5. p.l[Id(r, i)] \in Int /\ p.e[Id(r, i)] \in Int
  BY <1>4, NodeData
<1> QED
  BY <1>1, <1>3, <1>5 DEF LatestQuote

\* tw_penalty_init, tw_sf: lateness adds up from the tail.
LEMMA SuffixLatenessSteps ==
  ASSUME NEW p, NEW r, RouteOf(p, r)
  PROVE  /\ SuffixLateness(p, r) \in [0 .. Len(r) + 1 -> Nat]
         /\ SuffixLateness(p, r)[Len(r) + 1] = 0
         /\ \A i \in 0 .. Len(r) :
              SuffixLateness(p, r)[i] = SuffixLateness(p, r)[i + 1]
                  + MAX(0, p.e[Id(r, i)] - LatestQuote(p, r, i))
<1> DEFINE n == Len(r) + 1
           a == SuffixLateness(p, r)
           step(t, i) == t + MAX(0, p.e[Id(r, i)] - LatestQuote(p, r, i))
<1>1. n \in Nat /\ Indexes(r) = 0 .. n /\ 0 \in Nat /\ 0 .. n - 1 = 0 .. Len(r) /\ depot_tail(r) = n
  <2>1. Len(r) \in Nat /\ 0 \in 0 .. p.n
    BY NodeData
  <2>2. 0 \in Nat
    OBVIOUS
  <2> QED
    BY <2>1, <2>2 DEF Indexes, depot_tail
<1>2. \A t \in Nat, i \in 0 .. n - 1 : step(t, i) \in Nat
  <2>1. \A i \in 0 .. n - 1 : LatestQuote(p, r, i) \in Int /\ p.e[Id(r, i)] \in Int
    BY <1>1, LatestQuotes
  <2> QED
    BY <2>1 DEF MAX
<1> HIDE DEF n, step
<1>3. PICK g : g = [u \in Nat \X (0 .. n - 1) |-> step(u[1], u[2])]
  OBVIOUS
<1>4. g \in [Nat \X (0 .. n - 1) -> Nat] /\ \A t \in Nat, i \in 0 .. n - 1 : g[<<t, i>>] = step(t, i)
  BY <1>2, <1>3
<1>5. PICK D : D = [u \in Nat \X (1 .. n) |-> g[<<u[1], n - u[2]>>]]
  OBVIOUS
<1>6. Stepper(D, n, Nat) /\ \A t \in Nat, i \in 0 .. n - 1 : D[<<t, n - i>>] = step(t, i)
  <2>1. Downwards(D, g, n, Nat)
    BY <1>4, <1>5 DEF Downwards
  <2>2. Stepper(D, n, Nat) /\ Mirrors(D, g, n, Nat)
    BY <1>1, <2>1, DownSteps
  <2> QED
    BY <1>4, <2>2 DEF Mirrors
<1>7. PICK f : IteratesDown(f, n, Nat, 0, D)
  BY <1>1, <1>6, RecursionDown
<1>8. f = [i \in 0 .. n |-> IF i = n THEN 0 ELSE step(f[i + 1], i)]
  <2>1. /\ f \in [0 .. n -> Nat] /\ f[n] = 0
        /\ \A i \in 0 .. n - 1 : f[i] = D[<<f[i + 1], n - i>>]
    BY <1>7 DEF IteratesDown
  <2>2. \A i \in 0 .. n - 1 : i + 1 \in 0 .. n
    BY <1>1
  <2>3. \A i \in 0 .. n - 1 : f[i] = step(f[i + 1], i)
    BY <1>6, <2>1, <2>2
  <2>4. \A i \in 0 .. n : i = n \/ i \in 0 .. n - 1
    BY <1>1
  <2>5. \A i \in 0 .. n : f[i] = IF i = n THEN 0 ELSE step(f[i + 1], i)
    BY <2>1, <2>3, <2>4
  <2> QED
    BY <2>1, <2>5
<1>9. a = [i \in 0 .. n |-> IF i = n THEN 0 ELSE step(a[i + 1], i)]
  BY <1>1, <1>8 DEF SuffixLateness, step
<1>10. /\ a = [i \in 0 .. n |-> a[i]] /\ a[n] = 0
       /\ \A i \in 0 .. n - 1 : a[i] = step(a[i + 1], i)
  <2>1. \A i \in 0 .. n - 1 : i \in 0 .. n /\ i # n
    BY <1>1
  <2>2. n \in 0 .. n
    BY <1>1
  <2> QED
    BY <1>9, <2>1, <2>2
<1>11. IteratesDown(a, n, Nat, 0, D)
  <2>1. \A i \in 0 .. n - 1 : a[i + 1] \in Nat => a[i] = D[<<a[i + 1], n - i>>]
    BY <1>6, <1>10
  <2> QED
    BY <1>1, <1>6, <1>10, <2>1, IteratedDown
<1>12. a \in [0 .. n -> Nat]
  BY <1>11 DEF IteratesDown
<1> QED
  BY <1>1, <1>10, <1>12 DEF n, step
-----------------------------------------------------------------------------
\* There is no lateness if and only if no node is reached too late.
LEMMA NoLateness ==
  ASSUME NEW p, NEW q, RouteOf(p, q)
  PROVE  TwPenalty(p, q) = 0 <=>
           \A i \in 1 .. Len(q) + 1 : ArrivalQuote(p, q, i) <= p.l[Id(q, i)]
<1> DEFINE n == Len(q) + 1
<1>1. n \in Nat /\ TwPenalty(p, q) = PrefixLateness(p, q)[n]
  <2>1. Len(q) \in Nat
    BY NodeData
  <2> QED
    BY <2>1 DEF TwPenalty, depot_tail
<1>2. PICK a : a = PrefixLateness(p, q)
  OBVIOUS
<1>3. /\ \A i \in 0 .. n : a[i] \in Nat
      /\ a[0] = 0
      /\ \A i \in 1 .. n : a[i] = a[i - 1] + MAX(0, ArrivalQuote(p, q, i) - p.l[Id(q, i)])
  BY <1>2, PrefixLatenessSteps
<1>4. \A i \in 1 .. n : ArrivalQuote(p, q, i) \in Int /\ p.l[Id(q, i)] \in Int
  BY ArrivalQuotes
<1>5. \A i \in 1 .. n : i \in 0 .. n /\ i - 1 \in 0 .. n
  BY <1>1
<1> HIDE DEF n
<1>6. ASSUME NEW i \in 1 .. n
      PROVE  a[i] = 0 <=> a[i - 1] = 0 /\ ArrivalQuote(p, q, i) <= p.l[Id(q, i)]
  <2>1. PICK x \in Int : x = ArrivalQuote(p, q, i)
    BY <1>4
  <2>2. PICK y \in Int : y = p.l[Id(q, i)]
    BY <1>4
  <2>3. PICK t \in Nat : t = a[i - 1]
    BY <1>3, <1>5
  <2>4. a[i] = t + MAX(0, x - y)
    BY <1>3, <2>1, <2>2, <2>3
  <2>5. t + MAX(0, x - y) = 0 <=> t = 0 /\ x <= y
    BY DEF MAX
  <2> QED
    BY <2>1, <2>2, <2>3, <2>4, <2>5
<1>7. ASSUME \A i \in 1 .. n : ArrivalQuote(p, q, i) <= p.l[Id(q, i)]
      PROVE  a[n] = 0
  <2> DEFINE T == {i \in 0 .. n : a[i] = 0}
  <2>1. 0 \in T
    BY <1>1, <1>3
  <2>2. ASSUME NEW k \in 1 .. n, k - 1 \in T PROVE k \in T
    BY <1>5, <1>6, <1>7, <2>2
  <2>3. 0 .. n \subseteq T
    <3> HIDE DEF T
    <3> QED
      BY <1>1, <2>1, <2>2, UpTo
  <2>4. n \in 0 .. n
    BY <1>1
  <2> QED
    BY <2>3, <2>4
<1>8. ASSUME a[n] = 0, NEW i \in 1 .. n
      PROVE  ArrivalQuote(p, q, i) <= p.l[Id(q, i)]
  <2> DEFINE T == {j \in 0 .. n : a[j] = 0}
  <2>1. n \in T
    BY <1>1, <1>8
  <2>2. ASSUME NEW k \in 0 .. n - 1, k + 1 \in T PROVE k \in T
    <3>1. k \in 0 .. n /\ k + 1 \in 1 .. n /\ k + 1 - 1 = k
      BY <1>1
    <3>2. a[k + 1] = 0
      BY <2>2
    <3>3. a[k] = 0
      BY <1>6, <3>1, <3>2
    <3> QED
      BY <3>1, <3>3
  <2>3. 0 .. n \subseteq T
    <3> HIDE DEF T
    <3> QED
      BY <1>1, <2>1, <2>2, DownTo
  <2>4. i \in T
    BY <1>5, <2>3
  <2> QED
    BY <1>6, <2>4
<1> QED
  BY <1>1, <1>2, <1>7, <1>8 DEF n

\* A latest start lies in the time window, or at its end where the window is empty.
LEMMA LatestWithin ==
  ASSUME NEW p, NEW r, RouteOf(p, r), NEW i \in 0 .. Len(r) + 1
  PROVE  /\ LatestStarts(p, r)[i] \in Int
         /\ p.l[Id(r, i)] \in Int /\ p.e[Id(r, i)] \in Int
         /\ LatestStarts(p, r)[i] <= p.l[Id(r, i)]
         /\ LatestStarts(p, r)[i] < p.e[Id(r, i)] => LatestStarts(p, r)[i] = p.l[Id(r, i)]
<1>1. LatestStarts(p, r)[i] \in Int
  BY LatestStartsSteps
<1>2. Id(r, i) \in 0 .. p.n
  BY RouteLegs
<1>3. p.l[Id(r, i)] \in Int /\ p.e[Id(r, i)] \in Int
  BY <1>2, NodeData
<1>4. CASE i = Len(r) + 1
  <2>1. Len(r) \in Nat
    BY NodeData
  <2>2. Id(r, i) = 0
    BY <1>4, <2>1 DEF Id
  <2>3. LatestStarts(p, r)[i] = p.l[0]
    BY <1>4, LatestStartsSteps
  <2> QED
    BY <1>1, <1>3, <2>2, <2>3
<1>5. CASE i \in 0 .. Len(r)
  <2>1. LatestStarts(p, r)[i] = Clip(p, Id(r, i), LatestQuote(p, r, i))
    BY <1>5, LatestStartsSteps DEF LatestQuote
  <2>2. LatestQuote(p, r, i) \in Int
    BY <1>5, LatestQuotes
  <2> QED
    BY <1>1, <1>3, <2>1, <2>2 DEF Clip, MIN, MAX
<1> QED
  <2>1. Len(r) \in Nat
    BY NodeData
  <2> QED
    BY <1>4, <1>5, <2>1

\* So does the arrival at a node behind the head.
LEMMA ArrivalWithin ==
  ASSUME NEW p, NEW q, RouteOf(p, q), NEW i \in 1 .. Len(q) + 1
  PROVE  /\ Arrivals(p, q)[i] \in Int
         /\ p.l[Id(q, i)] \in Int /\ p.e[Id(q, i)] \in Int
         /\ Arrivals(p, q)[i] <= p.l[Id(q, i)]
         /\ Arrivals(p, q)[i] < p.e[Id(q, i)] => Arrivals(p, q)[i] = p.l[Id(q, i)]
<1>1. ArrivalQuote(p, q, i) \in Int /\ p.l[Id(q, i)] \in Int /\ p.e[Id(q, i)] \in Int
  BY ArrivalQuotes
<1>2. Arrivals(p, q)[i] = Clip(p, Id(q, i), ArrivalQuote(p, q, i))
  BY ArrivalsSteps DEF ArrivalQuote
<1> QED
  BY <1>1, <1>2 DEF Clip, MIN, MAX

\* The nodes of r from index f on are those of q, d indexes earlier.
SharesTail(q, r, d, f) ==
  /\ d \in Nat /\ f \in d + 1 .. Len(r) + 1 /\ Len(q) = Len(r) - d
  /\ \A j \in f .. Len(r) + 1 : Id(q, j - d) = Id(r, j)

\* The start at index j of r in q is not after the latest one, and no lateness follows.
Reaches(p, q, r, d, j) ==
  /\ Arrivals(p, q)[j - d] <= LatestStarts(p, r)[j]
  /\ SuffixLateness(p, r)[j] = 0

\* One step of the induction along the shared nodes.
LEMMA ReachStep ==
  ASSUME NEW p, NEW q, NEW r, RouteOf(p, q), RouteOf(p, r), NEW d, NEW f,
         SharesTail(q, r, d, f), NEW j \in f .. Len(r)
  PROVE  /\ Reaches(p, q, r, d, j) =>
              /\ ArrivalQuote(p, q, j + 1 - d) <= p.l[Id(r, j + 1)]
              /\ Reaches(p, q, r, d, j + 1)
         /\ /\ p.e[Id(r, j)] <= p.l[Id(r, j)]
            /\ ArrivalQuote(p, q, j + 1 - d) <= p.l[Id(r, j + 1)]
            /\ Reaches(p, q, r, d, j + 1)
            => Reaches(p, q, r, d, j)
<1>1. /\ Len(r) \in Nat /\ d \in Nat /\ f \in Int /\ d < f /\ j \in 0 .. Len(r)
      /\ j \in 0 .. Len(r) + 1 /\ j + 1 \in 0 .. Len(r) + 1
      /\ j - d \in 1 .. Len(q) + 1 /\ j - d \in 0 .. Len(q) + 1 /\ j + 1 - d \in 1 .. Len(q) + 1
      /\ j + 1 - d - 1 = j - d
  <2>1. Len(r) \in Nat
    BY NodeData
  <2> QED
    BY <2>1 DEF SharesTail
<1>2. Id(q, j - d) = Id(r, j) /\ Id(q, j + 1 - d) = Id(r, j + 1)
  BY <1>1 DEF SharesTail
<1>3. PICK leg \in Int : leg = Leg(p, Id(r, j), Id(r, j + 1))
  BY <1>1, RouteLegs
<1>4. PICK a \in Int : a = Arrivals(p, q)[j - d]
  BY <1>1, ArrivalsSteps
<1>5. ArrivalQuote(p, q, j + 1 - d) = a + leg
  BY <1>1, <1>2, <1>3, <1>4 DEF ArrivalQuote
<1>6. PICK z \in Int : /\ z = LatestStarts(p, r)[j + 1]
                       /\ z <= p.l[Id(r, j + 1)]
                       /\ z < p.e[Id(r, j + 1)] => z = p.l[Id(r, j + 1)]
  BY <1>1, LatestWithin
<1>7. PICK e \in Int : e = p.e[Id(r, j)]
  BY <1>1, LatestWithin
<1>8. PICK l \in Int : l = p.l[Id(r, j)]
  BY <1>1, LatestWithin
<1>9. PICK e1 \in Int : e1 = p.e[Id(r, j + 1)]
  BY <1>1, LatestWithin
<1>10. PICK l1 \in Int : l1 = p.l[Id(r, j + 1)]
  BY <1>1, LatestWithin
<1>11. Arrivals(p, q)[j + 1 - d] = MIN(MAX(a + leg, e1), l1)
  <2>1. /\ Id(q, j + 1 - d - 1) = Id(r, j)
        /\ Arrivals(p, q)[j + 1 - d - 1] + Leg(p, Id(r, j), Id(r, j + 1)) = a + leg
    BY <1>1, <1>2, <1>3, <1>4
  <2>2. Arrivals(p, q)[j + 1 - d] =
          Clip(p, Id(q, j + 1 - d),
               Arrivals(p, q)[j + 1 - d - 1] + Leg(p, Id(q, j + 1 - d - 1), Id(q, j + 1 - d)))
    BY <1>1, ArrivalsSteps
  <2>3. Arrivals(p, q)[j + 1 - d] = Clip(p, Id(r, j + 1), a + leg)
    BY <1>2, <2>1, <2>2
  <2> QED
    BY <1>9, <1>10, <2>3 DEF Clip
<1>12. LatestStarts(p, r)[j] = MIN(MAX(z - leg, e), l)
  BY <1>1, <1>3, <1>6, <1>7, <1>8, LatestStartsSteps DEF Clip
<1>13. PICK s \in Nat : s = SuffixLateness(p, r)[j + 1]
  BY <1>1, SuffixLatenessSteps
<1>14. SuffixLateness(p, r)[j] = s + MAX(0, e - (z - leg))
  BY <1>1, <1>3, <1>6, <1>7, <1>13, SuffixLatenessSteps DEF LatestQuote
<1>15. ASSUME Reaches(p, q, r, d, j)
       PROVE  /\ ArrivalQuote(p, q, j + 1 - d) <= p.l[Id(r, j + 1)]
              /\ Reaches(p, q, r, d, j + 1)
  <2>1. s + MAX(0, e - (z - leg)) = 0 /\ a <= MIN(MAX(z - leg, e), l)
    BY <1>4, <1>12, <1>14, <1>15 DEF Reaches
  <2>2. s = 0 /\ e <= z - leg
    BY <2>1 DEF MAX
  <2>3. a <= z - leg
    BY <2>1, <2>2 DEF MAX, MIN
  <2>4. a + leg <= l1
    BY <1>6, <1>10, <2>3
  <2>5. MIN(MAX(a + leg, e1), l1) <= z
    BY <1>6, <1>9, <1>10, <2>3 DEF MAX, MIN
  <2>6. Reaches(p, q, r, d, j + 1)
    <3>1. Arrivals(p, q)[j + 1 - d] <= LatestStarts(p, r)[j + 1]
      BY <1>6, <1>11, <2>5
    <3>2. SuffixLateness(p, r)[j + 1] = 0
      BY <1>13, <2>2
    <3> QED
      BY <1>1, <3>1, <3>2 DEF Reaches
  <2> QED
    BY <1>5, <1>10, <2>4, <2>6
<1>16. ASSUME p.e[Id(r, j)] <= p.l[Id(r, j)],
              ArrivalQuote(p, q, j + 1 - d) <= p.l[Id(r, j + 1)],
              Reaches(p, q, r, d, j + 1)
       PROVE  Reaches(p, q, r, d, j)
  <2>1. s = 0 /\ MIN(MAX(a + leg, e1), l1) <= z
    <3>1. /\ Arrivals(p, q)[j + 1 - d] <= LatestStarts(p, r)[j + 1]
          /\ SuffixLateness(p, r)[j + 1] = 0
      BY <1>1, <1>16 DEF Reaches
    <3> QED
      BY <1>6, <1>11, <1>13, <3>1
  <2>2. a + leg <= l1 /\ e <= l
    BY <1>5, <1>7, <1>8, <1>10, <1>16
  <2>3. a <= l /\ (a < e => a = l)
    BY <1>1, <1>2, <1>4, <1>7, <1>8, ArrivalWithin
  <2>4. a <= z - leg
    BY <2>1, <2>2 DEF MIN, MAX
  <2>5. MAX(0, e - (z - leg)) = 0 /\ a <= MIN(MAX(z - leg, e), l)
    BY <2>2, <2>3, <2>4 DEF MIN, MAX
  <2> QED
    BY <1>4, <1>12, <1>14, <2>1, <2>5 DEF Reaches
<1> QED
  BY <1>15, <1>16

\* Whether the constant-time test accepts the start at index f: exactly where no node
\* behind it is reached too late.
LEMMA ReachesTail ==
  ASSUME NEW p, NEW q, NEW r, RouteOf(p, q), RouteOf(p, r), NEW d, NEW f,
         SharesTail(q, r, d, f)
  PROVE  /\ Reaches(p, q, r, d, f) =>
              \A j \in f .. Len(r) : ArrivalQuote(p, q, j + 1 - d) <= p.l[Id(r, j + 1)]
         /\ /\ \A j \in f .. Len(r) : p.e[Id(r, j)] <= p.l[Id(r, j)]
            /\ \A j \in f .. Len(r) : ArrivalQuote(p, q, j + 1 - d) <= p.l[Id(r, j + 1)]
            => Reaches(p, q, r, d, f)
<1>1. Len(r) \in Nat /\ f \in Nat /\ d \in Nat /\ f <= Len(r) + 1 /\ d < f
  <2>1. Len(r) \in Nat
    BY NodeData
  <2> QED
    BY <2>1 DEF SharesTail
<1>2. ASSUME Reaches(p, q, r, d, f), NEW j \in f .. Len(r)
      PROVE  ArrivalQuote(p, q, j + 1 - d) <= p.l[Id(r, j + 1)]
  <2> DEFINE T == {i \in 0 .. Len(r) + 1 : f <= i => Reaches(p, q, r, d, i)}
  <2>1. 0 \in T
    BY <1>1, <1>2
  <2>2. ASSUME NEW k \in 1 .. Len(r) + 1, k - 1 \in T PROVE k \in T
    <3>1. CASE k <= f
      BY <1>1, <1>2, <3>1
    <3>2. CASE ~(k <= f)
      <4>1. k - 1 \in f .. Len(r) /\ k - 1 + 1 = k /\ k \in 0 .. Len(r) + 1
        BY <1>1, <3>2
      <4>2. Reaches(p, q, r, d, k - 1)
        BY <2>2, <4>1
      <4>3. Reaches(p, q, r, d, k)
        BY <4>1, <4>2, ReachStep
      <4> QED
        BY <4>1, <4>3
    <3> QED
      BY <3>1, <3>2
  <2>3. 0 .. Len(r) + 1 \subseteq T
    <3>1. Len(r) + 1 \in Nat
      BY <1>1
    <3> HIDE DEF T
    <3> QED
      BY <2>1, <2>2, <3>1, UpTo
  <2>4. Reaches(p, q, r, d, j)
    BY <1>1, <2>3
  <2> QED
    BY <2>4, ReachStep
<1>3. ASSUME \A j \in f .. Len(r) : p.e[Id(r, j)] <= p.l[Id(r, j)],
             \A j \in f .. Len(r) : ArrivalQuote(p, q, j + 1 - d) <= p.l[Id(r, j + 1)]
      PROVE  Reaches(p, q, r, d, f)
  <2> DEFINE T == {i \in 0 .. Len(r) + 1 : f <= i => Reaches(p, q, r, d, i)}
  <2>1. Len(r) + 1 \in T
    <3>1. Len(r) + 1 - d \in 1 .. Len(q) + 1 /\ Len(r) + 1 \in f .. Len(r) + 1
      BY <1>1 DEF SharesTail
    <3>2. Id(q, Len(r) + 1 - d) = 0 /\ Id(r, Len(r) + 1) = 0
      BY <1>1, <3>1 DEF SharesTail, Id
    <3>3. /\ p.l[0] \in Int /\ Arrivals(p, q)[Len(r) + 1 - d] <= p.l[0]
      BY <3>1, <3>2, ArrivalWithin
    <3>4. LatestStarts(p, r)[Len(r) + 1] = p.l[0] /\ SuffixLateness(p, r)[Len(r) + 1] = 0
      BY LatestStartsSteps, SuffixLatenessSteps
    <3> QED
      BY <1>1, <3>3, <3>4 DEF Reaches
  <2>2. ASSUME NEW k \in 0 .. Len(r), k + 1 \in T PROVE k \in T
    <3>1. CASE k < f
      BY <1>1, <3>1
    <3>2. CASE ~(k < f)
      <4>1. k \in f .. Len(r) /\ k \in 0 .. Len(r) + 1 /\ f <= k + 1
        BY <1>1, <3>2
      <4>2. Reaches(p, q, r, d, k + 1)
        BY <2>2, <4>1
      <4>3. Reaches(p, q, r, d, k)
        BY <1>3, <4>1, <4>2, ReachStep
      <4> QED
        BY <4>1, <4>3
    <3> QED
      BY <3>1, <3>2
  <2>3. 0 .. Len(r) + 1 \subseteq T
    <3>1. Len(r) + 1 \in Nat /\ Len(r) + 1 - 1 = Len(r)
      BY <1>1
    <3> HIDE DEF T
    <3> QED
      BY <2>1, <2>2, <3>1, DownTo
  <2> QED
    BY <1>1, <2>3
<1> QED
  BY <1>2, <1>3
-----------------------------------------------------------------------------
\* The demand of a whole route, which falls by that of a customer who is removed.
Load(p, q) == PrefixDemand(p, q)[Len(q) + 1]

\* Removing a customer takes its demand off the total.
LEMMA LoadRemoved ==
  ASSUME NEW p, NEW q, RouteOf(p, q), NEW k \in 1 .. Len(q)
  PROVE  /\ RouteOf(p, RemoveIndex(q, k))
         /\ Load(p, q) \in Int /\ p.demand[q[k]] \in Int
         /\ Load(p, RemoveIndex(q, k)) = Load(p, q) - p.demand[q[k]]
<1>1. PICK t : t = RemoveIndex(q, k)
  OBVIOUS
<1>2. /\ t \in Seq(1 .. p.n) /\ Len(t) = Len(q) - 1
      /\ \A i \in 1 .. Len(q) - 1 : t[i] = IF i < k THEN q[i] ELSE q[i + 1]
  BY <1>1, RemoveIndexElements DEF RouteOf
<1>3. RouteOf(p, t)
  BY <1>2 DEF RouteOf
<1>4. PICK n \in Nat : n = Len(q)
  BY NodeData
<1>5. Len(t) + 1 = n /\ k \in 1 .. n
  BY <1>2, <1>4
<1>6. PICK d \in Int : d = p.demand[q[k]]
  <2>1. q[k] \in 1 .. p.n /\ p.n \in Nat
    BY DEF RouteOf, Instance
  <2>2. q[k] \in 0 .. p.n
    BY <2>1
  <2>3. p.demand[q[k]] \in Int
    BY <2>2, NodeData
  <2> QED
    BY <2>3
<1>7. PICK a : a = PrefixDemand(p, q)
  OBVIOUS
<1>8. PICK b : b = PrefixDemand(p, t)
  OBVIOUS
<1>9. /\ \A i \in 0 .. n + 1 : a[i] \in Int
      /\ a[0] = p.demand[0]
      /\ \A i \in 1 .. n + 1 : a[i] = p.demand[Id(q, i)] + a[i - 1]
  BY <1>4, <1>7, PrefixDemandSteps
<1>10. /\ \A i \in 0 .. n : b[i] \in Int
       /\ b[0] = p.demand[0]
       /\ \A i \in 1 .. n : b[i] = p.demand[Id(t, i)] + b[i - 1]
  BY <1>3, <1>5, <1>8, PrefixDemandSteps
<1>11. \A i \in 0 .. n + 1 : p.demand[Id(q, i)] \in Int
  BY <1>4, RouteLegs, NodeData
<1>12. /\ \A i \in 1 .. n : i < k => Id(t, i) = Id(q, i)
       /\ \A i \in 1 .. n : ~(i < k) => Id(t, i) = Id(q, i + 1)
       /\ Id(q, k) = q[k]
  BY <1>2, <1>4, <1>5 DEF Id
<1> DEFINE T == {i \in 0 .. n : IF i < k THEN b[i] = a[i] ELSE b[i] = a[i + 1] - d}
<1>13. 0 \in T
  BY <1>5, <1>9, <1>10
<1>14. ASSUME NEW i \in 1 .. n, i - 1 \in T PROVE i \in T
  <2>1. i \in 0 .. n /\ i \in 1 .. n + 1 /\ i \in 0 .. n + 1 /\ i + 1 \in 1 .. n + 1 /\ i + 1 \in 0 .. n + 1
        /\ i + 1 - 1 = i /\ i - 1 \in 0 .. n + 1
    OBVIOUS
  <2>2. PICK u \in Int : u = a[i - 1]
    BY <1>9, <2>1
  <2>3. PICK v \in Int : v = p.demand[Id(q, i)] /\ a[i] = v + u
    BY <1>9, <1>11, <2>1, <2>2
  <2>4. CASE i < k
    <3>1. b[i] = v + b[i - 1]
      BY <1>10, <1>12, <2>3, <2>4
    <3>2. b[i - 1] = u
      BY <1>5, <1>14, <2>2, <2>4
    <3> QED
      BY <2>1, <2>3, <2>4, <3>1, <3>2
  <2>5. CASE ~(i < k)
    <3>1. PICK w \in Int : w = p.demand[Id(q, i + 1)] /\ a[i + 1] = w + a[i]
      <4>1. a[i + 1] = p.demand[Id(q, i + 1)] + a[i]
        BY <1>9, <2>1
      <4>2. p.demand[Id(q, i + 1)] \in Int
        BY <1>11, <2>1
      <4> QED
        BY <4>1, <4>2
    <3>2. b[i] = w + b[i - 1]
      BY <1>10, <1>12, <2>5, <3>1
    <3>3. b[i - 1] = a[i] - d
      <4>1. CASE i = k
        <5>1. b[i - 1] = u
          BY <1>5, <1>14, <2>2, <4>1
        <5>2. v = d
          BY <1>6, <1>12, <2>3, <4>1
        <5> QED
          BY <2>3, <5>1, <5>2
      <4>2. CASE i # k
        <5>1. ~(i - 1 < k) /\ i - 1 + 1 = i
          BY <1>5, <2>5, <4>2
        <5> QED
          BY <1>14, <5>1
      <4> QED
        BY <4>1, <4>2
    <3>4. b[i] = a[i + 1] - d
      BY <2>3, <3>1, <3>2, <3>3
    <3> QED
      BY <2>1, <2>5, <3>4
  <2> QED
    BY <2>4, <2>5
<1>15. 0 .. n \subseteq T
  <2> HIDE DEF T
  <2> QED
    BY <1>13, <1>14, UpTo
<1>16. b[n] = a[n + 1] - d
  <2>1. n \in 0 .. n /\ ~(n < k)
    BY <1>5
  <2>2. n \in T
    BY <1>15, <2>1
  <2> QED
    BY <2>1, <2>2
<1>17. Load(p, q) = a[n + 1] /\ Load(p, t) = b[n] /\ a[n + 1] \in Int
  BY <1>4, <1>5, <1>7, <1>8, <1>9 DEF Load
<1> QED
  BY <1>1, <1>3, <1>6, <1>16, <1>17

\* f adds up ps over the customers cs.
Adds(f, ps, cs) == f[0] = 0 /\ \A k \in 1 .. Len(cs) : f[k] = f[k - 1] + ps[cs[k]]

\* PSum is the last of these sums.
LEMMA PSumAdds ==
  ASSUME NEW C, NEW cs \in Seq(C), NEW ps, ps \in [C -> Nat], NEW f, Adds(f, ps, cs)
  PROVE  PSum(ps, cs) = f[Len(cs)] /\ PSum(ps, cs) \in Nat
<1>1. PICK n \in Nat : n = Len(cs)
  OBVIOUS
<1>2. PICK q : q = [k \in 1 .. n |-> ps[cs[k]]]
  OBVIOUS
<1>3. q \in [1 .. n -> Int] /\ \A k \in 1 .. n : q[k] = ps[cs[k]] /\ ps[cs[k]] \in Nat
  BY <1>1, <1>2
<1>4. PICK g : g = [k \in 0 .. n |-> IF k = 0 THEN 0 ELSE g[k - 1] + q[k]]
  BY <1>3, SumsExist
<1>5. \A k \in 0 .. n : k = 0 \/ k \in 1 .. n
  OBVIOUS
<1> DEFINE sum[k \in 0 .. Len(cs)] == IF k = 0 THEN 0 ELSE sum[k - 1] + ps[cs[k]]
<1>6. g = [k \in 0 .. n |-> IF k = 0 THEN 0 ELSE g[k - 1] + ps[cs[k]]]
  <2>1. \A k \in 0 .. n : (IF k = 0 THEN 0 ELSE g[k - 1] + q[k])
                          = IF k = 0 THEN 0 ELSE g[k - 1] + ps[cs[k]]
    BY <1>3, <1>5
  <2> QED
    BY <1>4, <2>1
<1>7. sum = [k \in 0 .. n |-> IF k = 0 THEN 0 ELSE sum[k - 1] + ps[cs[k]]]
  BY <1>1, <1>6
<1>8. PSum(ps, cs) = sum[n]
  BY <1>1 DEF PSum
<1> HIDE DEF sum
<1>9. sum[0] = 0 /\ \A k \in 1 .. n : sum[k] = sum[k - 1] + ps[cs[k]]
  <2>1. \A k \in 1 .. n : k # 0 /\ k \in 0 .. n
    OBVIOUS
  <2> QED
    BY <1>7, <2>1
<1> DEFINE T == {k \in 0 .. n : sum[k] = f[k] /\ f[k] \in Nat}
<1>10. 0 \in T
  BY <1>9 DEF Adds
<1>11. ASSUME NEW k \in 1 .. n, k - 1 \in T PROVE k \in T
  <2>1. f[k] = f[k - 1] + ps[cs[k]]
    BY <1>1 DEF Adds
  <2>2. sum[k] = sum[k - 1] + ps[cs[k]] /\ ps[cs[k]] \in Nat
    BY <1>3, <1>9
  <2>3. sum[k - 1] = f[k - 1] /\ f[k - 1] \in Nat
    BY <1>11
  <2> QED
    BY <2>1, <2>2, <2>3
<1>12. 0 .. n \subseteq T
  <2> HIDE DEF T
  <2> QED
    BY <1>10, <1>11, UpTo
<1> QED
  BY <1>1, <1>8, <1>12

\* The sum is a natural number.
LEMMA PSumNat ==
  ASSUME NEW C, NEW cs \in Seq(C), NEW ps, ps \in [C -> Nat]
  PROVE  PSum(ps, cs) \in Nat
<1>1. PICK n \in Nat : n = Len(cs)
  OBVIOUS
<1>2. PICK q : q = [k \in 1 .. n |-> ps[cs[k]]]
  OBVIOUS
<1>3. q \in [1 .. n -> Int]
  BY <1>1, <1>2
<1>4. PICK g : g = [k \in 0 .. n |-> IF k = 0 THEN 0 ELSE g[k - 1] + q[k]]
  BY <1>3, SumsExist
<1>5. g[0] = 0 /\ \A k \in 1 .. n : g[k] = g[k - 1] + ps[cs[k]]
  <2>1. 0 \in 0 .. n /\ \A k \in 1 .. n : k # 0 /\ k \in 0 .. n
    OBVIOUS
  <2> QED
    BY <1>2, <1>4, <2>1
<1>6. Adds(g, ps, cs)
  BY <1>1, <1>5 DEF Adds
<1> QED
  BY <1>6, PSumAdds

\* One more customer adds its p.
LEMMA PSumAppend ==
  ASSUME NEW C, NEW cs \in Seq(C), NEW c \in C, NEW ps, ps \in [C -> Nat]
  PROVE  /\ PSum(ps, cs) \in Nat
         /\ PSum(ps, Append(cs, c)) = PSum(ps, cs) + ps[c]
<1>1. PICK n \in Nat : n = Len(cs)
  OBVIOUS
<1>2. PICK t : t = Append(cs, c)
  OBVIOUS
<1>3. t \in Seq(C) /\ Len(t) = n + 1 /\ t[n + 1] = c /\ \A k \in 1 .. n : t[k] = cs[k]
  BY <1>1, <1>2
<1>4. PICK q : q = [k \in 1 .. n + 1 |-> ps[t[k]]]
  OBVIOUS
<1>5. q \in [1 .. n + 1 -> Int] /\ n + 1 \in Nat
  BY <1>3, <1>4
<1>6. PICK g : g = [k \in 0 .. n + 1 |-> IF k = 0 THEN 0 ELSE g[k - 1] + q[k]]
  BY <1>5, SumsExist
<1>7. g[0] = 0 /\ \A k \in 1 .. n + 1 : g[k] = g[k - 1] + ps[t[k]]
  <2>1. 0 \in 0 .. n + 1 /\ \A k \in 1 .. n + 1 : k # 0 /\ k \in 0 .. n + 1
    OBVIOUS
  <2> QED
    BY <1>4, <1>6, <2>1
<1>8. Adds(g, ps, t)
  BY <1>3, <1>7 DEF Adds
<1>9. Adds(g, ps, cs)
  <2>1. \A k \in 1 .. n : k \in 1 .. n + 1
    OBVIOUS
  <2> QED
    BY <1>1, <1>3, <1>7, <2>1 DEF Adds
<1>10. PSum(ps, t) = g[n + 1]
  BY <1>3, <1>8, PSumAdds
<1>11. PSum(ps, cs) = g[n] /\ PSum(ps, cs) \in Nat
  BY <1>1, <1>9, PSumAdds
<1>12. g[n + 1] = g[n] + ps[c]
  <2>1. n + 1 \in 1 .. n + 1 /\ n + 1 - 1 = n
    OBVIOUS
  <2> QED
    BY <1>3, <1>7, <2>1
<1> QED
  BY <1>2, <1>10, <1>11, <1>12

\* One more customer is removed behind the others.
Lengthens(y, x, n, i) == y[n + 1] = i /\ \A k \in 1 .. n : y[k] = x[k]

\* Removing one more behind the others removes it from what they leave.
LEMMA RestAppend ==
  ASSUME NEW C, NEW r \in Seq(C), NEW x, NEW n \in Nat, NEW i,
         Picked(r, x, n), NEW y, Picked(r, y, n + 1), Lengthens(y, x, n, i)
  PROVE  /\ Rest(r, x) \in Seq(C) /\ Len(Rest(r, x)) = Len(r) - n
         /\ Rest(r, y) = RemoveIndex(Rest(r, x), i - n)
<1> USE DEF Lengthens
<1>1. n + 1 \in Nat /\ n + 1 \in 1 .. n + 1 /\ n \in 0 .. n /\ n + 1 - 1 = n
      /\ \A k \in 1 .. n : k \in 1 .. n + 1
  OBVIOUS
<1>2. PICK f : f = [k \in 0 .. n + 1 |-> IF k = 0 THEN r
                                         ELSE RemoveIndex(f[k - 1], y[k] - (k - 1))]
  BY RemovesExist
<1>3. f[0] = r /\ \A k \in 1 .. n + 1 : f[k] = RemoveIndex(f[k - 1], y[k] - (k - 1))
  <2>1. 0 \in 0 .. n + 1 /\ \A k \in 1 .. n + 1 : k # 0 /\ k \in 0 .. n + 1
    OBVIOUS
  <2> QED
    BY <1>2, <2>1
<1>4. Removes(f, r, y, n + 1)
  BY <1>3 DEF Removes
<1>5. Removes(f, r, x, n)
  BY <1>1, <1>3 DEF Removes
<1>6. Rest(r, y) = f[n + 1]
  BY <1>4, RestRemoves
<1>7. Rest(r, x) = f[n]
  BY <1>5, RestRemoves
<1>8. f[n] \in Seq(C) /\ Len(f[n]) = Len(r) - n
  BY <1>1, <1>5, RemovesSteps
<1> QED
  BY <1>1, <1>3, <1>6, <1>7, <1>8
=============================================================================
