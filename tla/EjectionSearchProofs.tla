------------------------- MODULE EjectionSearchProofs -------------------------
(***************************************************************************)
(* Proofs about feasible_ejections_f: its arrays share out the nodes of    *)
(* the route, its sums and times are those of the ejection at hand, its    *)
(* constant-time test is sound (and exact where no time window is empty),  *)
(* it goes through the ejections in lexicographic order, and it misses     *)
(* none of those it is bound to consider.                                  *)
(***************************************************************************)
EXTENDS EjectionSearch, RouteProofs, FiniteSetTheorems

-----------------------------------------------------------------------------
(***************************************************************************)
(* Increasing sequences.                                                   *)
(***************************************************************************)

\* Appending a larger element.
LEMMA IncreasingAppend ==
  ASSUME NEW s \in Seq(Nat), Increasing(s), NEW m \in Nat, \A x \in ToSet(s) : x < m
  PROVE  /\ Append(s, m) \in Seq(Nat) /\ Append(s, m) # <<>>
         /\ Len(Append(s, m)) = Len(s) + 1
         /\ Increasing(Append(s, m))
         /\ ToSet(Append(s, m)) = ToSet(s) \cup {m}
         /\ Front(Append(s, m)) = s /\ Last(Append(s, m)) = m
<1>1. PICK n \in Nat : n = Len(s)
  OBVIOUS
<1>2. PICK t : t = Append(s, m)
  OBVIOUS
<1>3. /\ t \in Seq(Nat) /\ t # <<>> /\ Len(t) = n + 1 /\ DOMAIN t = 1 .. n + 1
      /\ DOMAIN s = 1 .. n
      /\ t[n + 1] = m /\ \A k \in 1 .. n : t[k] = s[k]
  BY <1>1, <1>2
<1>4. \A k \in 1 .. n + 1 : k = n + 1 \/ k \in 1 .. n
  OBVIOUS
<1>5. \A k \in 1 .. n : s[k] \in Nat /\ s[k] < m
  BY <1>1 DEF ToSet
<1>6. Increasing(t)
  <2>1. ASSUME NEW i \in 1 .. n + 1, NEW j \in 1 .. n + 1, i < j PROVE t[i] < t[j]
    <3>1. i \in 1 .. n
      BY <2>1
    <3>2. CASE j = n + 1
      BY <1>3, <1>5, <3>1, <3>2
    <3>3. CASE j \in 1 .. n
      BY <1>3, <2>1, <3>1, <3>3 DEF Increasing
    <3> QED
      BY <1>4, <3>2, <3>3
  <2> QED
    BY <1>3, <2>1 DEF Increasing
<1>7. ToSet(t) = ToSet(s) \cup {m}
  BY <1>3, <1>4 DEF ToSet
<1>8. Front(t) = s
  <2>1. SubSeq(t, 1, n) \in Seq(Nat) /\ Len(SubSeq(t, 1, n)) = n
        /\ \A k \in 1 .. n : SubSeq(t, 1, n)[k] = t[k]
    BY <1>3
  <2>2. Len(t) - 1 = n
    BY <1>3
  <2>3. Front(t) = SubSeq(t, 1, n)
    BY <2>2 DEF Front
  <2> QED
    BY <1>1, <1>3, <2>1, <2>3, SeqEqual
<1> QED
  BY <1>1, <1>2, <1>3, <1>6, <1>7, <1>8 DEF Last

\* Taking off the last element.
LEMMA IncreasingFront ==
  ASSUME NEW s \in Seq(Nat), Increasing(s), s # <<>>
  PROVE  /\ Front(s) \in Seq(Nat) /\ Len(Front(s)) = Len(s) - 1
         /\ \A k \in 1 .. Len(s) - 1 : Front(s)[k] = s[k]
         /\ Increasing(Front(s))
         /\ Last(s) \in Nat /\ Last(s) \in ToSet(s)
         /\ ToSet(s) = ToSet(Front(s)) \cup {Last(s)}
         /\ \A x \in ToSet(Front(s)) : x \in Nat /\ x < Last(s)
         /\ s = Append(Front(s), Last(s))
<1>1. PICK n \in Nat : Len(s) = n + 1 /\ Len(s) - 1 = n
  <2>1. Len(s) \in Nat /\ Len(s) # 0
    OBVIOUS
  <2>2. Len(s) - 1 \in Nat /\ Len(s) = Len(s) - 1 + 1
    BY <2>1
  <2> QED
    BY <2>2
<1>2. PICK t : t = Front(s)
  OBVIOUS
<1>3. /\ t \in Seq(Nat) /\ Len(t) = n /\ \A k \in 1 .. n : t[k] = s[k]
      /\ DOMAIN t = 1 .. n /\ DOMAIN s = 1 .. n + 1
  BY <1>1, <1>2 DEF Front
<1>4. \A k \in 1 .. n + 1 : k = n + 1 \/ (k \in 1 .. n /\ k < n + 1)
  OBVIOUS
<1>5. \A k \in 1 .. n + 1 : s[k] \in Nat
  BY <1>1
<1>6. \A k \in 1 .. n : k \in 1 .. n + 1 /\ k < n + 1 /\ n + 1 \in 1 .. n + 1
  OBVIOUS
<1>7. Last(s) = s[n + 1] /\ n + 1 \in 1 .. n + 1
  BY <1>1 DEF Last
<1>8. Increasing(t)
  BY <1>3, <1>6 DEF Increasing
<1>9. \A k \in 1 .. n : t[k] \in Nat /\ t[k] < s[n + 1]
  BY <1>3, <1>5, <1>6 DEF Increasing
<1>10. ToSet(s) = ToSet(t) \cup {s[n + 1]}
  BY <1>3, <1>4, <1>6, <1>7 DEF ToSet
<1>11. \A x \in ToSet(t) : x \in Nat /\ x < s[n + 1]
  BY <1>3, <1>9 DEF ToSet
<1>12. s = Append(t, s[n + 1])
  <2>1. s[n + 1] \in Nat
    BY <1>5, <1>7
  <2>2. /\ Append(t, s[n + 1]) \in Seq(Nat) /\ Len(Append(t, s[n + 1])) = n + 1
        /\ Append(t, s[n + 1])[n + 1] = s[n + 1]
        /\ \A k \in 1 .. n : Append(t, s[n + 1])[k] = t[k]
    BY <1>3, <2>1
  <2>3. \A k \in 1 .. n + 1 : Append(t, s[n + 1])[k] = s[k]
    BY <1>3, <1>4, <2>2
  <2> QED
    BY <1>1, <2>2, <2>3, SeqEqual
<1> QED
  BY <1>1, <1>2, <1>3, <1>5, <1>7, <1>8, <1>10, <1>11, <1>12

\* An increasing sequence is given by its elements up to a bound on each.
LEMMA IncreasingPrefix ==
  ASSUME NEW s \in Seq(Nat), Increasing(s), NEW n \in 0 .. Len(s)
  PROVE  /\ SubSeq(s, 1, n) \in Seq(Nat) /\ Len(SubSeq(s, 1, n)) = n
         /\ \A k \in 1 .. n : SubSeq(s, 1, n)[k] = s[k]
         /\ Increasing(SubSeq(s, 1, n))
<1>1. PICK m \in Nat : m = Len(s)
  OBVIOUS
<1>2. n \in Nat /\ DOMAIN s = 1 .. m /\ n <= m
  BY <1>1
<1>3. PICK t : t = SubSeq(s, 1, n)
  OBVIOUS
<1>4. t \in Seq(Nat) /\ Len(t) = n /\ DOMAIN t = 1 .. n /\ \A k \in 1 .. n : t[k] = s[k]
  BY <1>1, <1>2, <1>3
<1>5. \A k \in 1 .. n : k \in 1 .. m
  BY <1>2
<1>6. Increasing(t)
  BY <1>2, <1>4, <1>5 DEF Increasing
<1> QED
  BY <1>3, <1>4, <1>6
-----------------------------------------------------------------------------
(***************************************************************************)
(* The nodes before index f are shared out between the kept customers ne,  *)
(* with the depot first, and the ejection e, each in order.                *)
(***************************************************************************)
Share(ne, e, f) ==
  /\ ne \in Seq(Nat) /\ e \in Seq(Nat)
  /\ Increasing(ne) /\ Increasing(e)
  /\ ToSet(ne) \cup ToSet(e) = 0 .. f - 1
  /\ ToSet(ne) \cap ToSet(e) = {}
  /\ ne # <<>> /\ ne[1] = 0

\* Node f is ejected, or kept.
LEMMA SharePush ==
  ASSUME NEW f \in Nat, NEW ne, NEW e, Share(ne, e, f)
  PROVE  Share(ne, Append(e, f), f + 1) /\ Share(Append(ne, f), e, f + 1)
<1>1. \A x \in ToSet(ne) \cup ToSet(e) : x \in 0 .. f - 1 /\ x < f
  BY DEF Share
<1>2. 0 .. f - 1 \cup {f} = 0 .. f + 1 - 1 /\ f \notin 0 .. f - 1
  OBVIOUS
<1>3. /\ Append(e, f) \in Seq(Nat) /\ Increasing(Append(e, f))
      /\ ToSet(Append(e, f)) = ToSet(e) \cup {f}
  BY <1>1, IncreasingAppend DEF Share
<1>4. /\ Append(ne, f) \in Seq(Nat) /\ Increasing(Append(ne, f)) /\ Append(ne, f) # <<>>
      /\ ToSet(Append(ne, f)) = ToSet(ne) \cup {f}
  BY <1>1, IncreasingAppend DEF Share
<1>5. Append(ne, f)[1] = 0
  <2>1. ne \in Seq(Nat) /\ Len(ne) \in Nat /\ Len(ne) # 0 /\ ne[1] = 0
    BY DEF Share
  <2> QED
    BY <2>1
<1>6. Share(ne, Append(e, f), f + 1)
  BY <1>1, <1>2, <1>3 DEF Share
<1>7. Share(Append(ne, f), e, f + 1)
  BY <1>1, <1>2, <1>4, <1>5 DEF Share
<1> QED
  BY <1>6, <1>7

\* The last node shared out is the last of its sequence, and can be taken back.
LEMMA ShareLast ==
  ASSUME NEW f \in Nat, NEW ne, NEW e, Share(ne, e, f + 1), f # 0
  PROVE  \/ e # <<>> /\ Last(e) = f /\ Share(ne, Front(e), f)
         \/ Last(ne) = f /\ Share(Front(ne), e, f) /\ (e # <<>> => Last(e) < f)
<1>1. \A x \in ToSet(ne) \cup ToSet(e) : x \in 0 .. f
  BY DEF Share
<1>2. f \in ToSet(ne) \cup ToSet(e)
  BY DEF Share
<1>3. 0 .. f + 1 - 1 = 0 .. f /\ 0 .. f - 1 = 0 .. f \ {f}
  OBVIOUS
<1>4. CASE f \in ToSet(e)
  <2>1. e # <<>>
    BY <1>4 DEF ToSet
  <2>2. /\ Front(e) \in Seq(Nat) /\ Increasing(Front(e))
        /\ Last(e) \in Nat /\ Last(e) \in ToSet(e)
        /\ ToSet(e) = ToSet(Front(e)) \cup {Last(e)}
        /\ \A x \in ToSet(Front(e)) : x \in Nat /\ x < Last(e)
    BY <2>1, IncreasingFront DEF Share
  <2>3. Last(e) = f
    <3>1. Last(e) \in 0 .. f
      BY <1>1, <2>2
    <3>2. f = Last(e) \/ f < Last(e)
      BY <1>4, <2>2
    <3> QED
      BY <3>1, <3>2
  <2>4. f \notin ToSet(Front(e))
    BY <2>2, <2>3
  <2>5. /\ ToSet(ne) \cup ToSet(Front(e)) = 0 .. f - 1
        /\ ToSet(ne) \cap ToSet(Front(e)) = {}
    BY <1>3, <2>2, <2>3, <2>4 DEF Share
  <2>6. Share(ne, Front(e), f)
    BY <2>2, <2>5 DEF Share
  <2> QED
    BY <2>1, <2>3, <2>6
<1>5. CASE f \in ToSet(ne)
  <2>1. ne # <<>>
    BY DEF Share
  <2>2. /\ Front(ne) \in Seq(Nat) /\ Increasing(Front(ne))
        /\ Last(ne) \in Nat /\ Last(ne) \in ToSet(ne)
        /\ ToSet(ne) = ToSet(Front(ne)) \cup {Last(ne)}
        /\ \A x \in ToSet(Front(ne)) : x \in Nat /\ x < Last(ne)
        /\ Len(Front(ne)) = Len(ne) - 1
        /\ \A k \in 1 .. Len(ne) - 1 : Front(ne)[k] = ne[k]
    BY <2>1, IncreasingFront DEF Share
  <2>3. Last(ne) = f
    <3>1. Last(ne) \in 0 .. f
      BY <1>1, <2>2
    <3>2. f = Last(ne) \/ f < Last(ne)
      BY <1>5, <2>2
    <3> QED
      BY <3>1, <3>2
  <2>4. f \notin ToSet(Front(ne))
    BY <2>2, <2>3
  <2>5. /\ ToSet(Front(ne)) \cup ToSet(e) = 0 .. f - 1
        /\ ToSet(Front(ne)) \cap ToSet(e) = {}
    BY <1>3, <2>2, <2>3, <2>4 DEF Share
  <2>6. Front(ne) # <<>> /\ Front(ne)[1] = 0
    <3>1. Len(ne) \in Nat /\ Len(ne) # 0 /\ ne[1] = 0
      BY DEF Share
    <3>2. Len(ne) # 1
      BY <2>3, <3>1 DEF Last
    <3>3. Len(ne) - 1 # 0 /\ 1 \in 1 .. Len(ne) - 1
      BY <3>1, <3>2
    <3> QED
      BY <2>2, <3>1, <3>3
  <2>7. Share(Front(ne), e, f)
    BY <2>2, <2>5, <2>6 DEF Share
  <2>8. e # <<>> => Last(e) < f
    <3>1. ASSUME e # <<>> PROVE Last(e) < f
      <4>1. Last(e) \in ToSet(e)
        BY <3>1, IncreasingFront DEF Share
      <4>2. Last(e) \in 0 .. f - 1
        BY <2>5, <4>1
      <4> QED
        BY <4>2
    <3> QED
      BY <3>1
  <2> QED
    BY <2>3, <2>7, <2>8
<1> QED
  BY <1>2, <1>4, <1>5

\* Where only the depot is shared out.
LEMMA ShareFirst ==
  ASSUME NEW ne, NEW e, Share(ne, e, 1)
  PROVE  e = <<>> /\ Len(ne) = 1 /\ ne = <<0>>
<1>1. ne \in Seq(Nat) /\ e \in Seq(Nat) /\ Len(ne) \in Nat /\ Len(ne) # 0 /\ ne[1] = 0
  BY DEF Share
<1>2. ToSet(ne) \cup ToSet(e) = 0 .. 0 /\ ToSet(ne) \cap ToSet(e) = {}
  BY DEF Share
<1>3. 0 \in ToSet(ne)
  BY <1>1 DEF ToSet
<1>4. ToSet(e) = {}
  BY <1>2, <1>3
<1>5. e = <<>>
  <2>1. DOMAIN e = 1 .. Len(e) /\ Len(e) \in Nat
    BY <1>1
  <2>2. ~(1 \in DOMAIN e)
    BY <1>4 DEF ToSet
  <2>3. Len(e) = 0
    BY <2>1, <2>2
  <2> QED
    BY <1>1, <2>3
<1>6. Len(ne) = 1
  <2>1. ASSUME Len(ne) # 1 PROVE FALSE
    <3>1. 1 \in DOMAIN ne /\ 2 \in DOMAIN ne /\ 1 < 2
      <4>1. DOMAIN ne = 1 .. Len(ne) /\ 2 <= Len(ne)
        <5>1. PICK l \in Nat : l = Len(ne)
          BY <1>1
        <5>2. l # 0 /\ l # 1
          BY <1>1, <2>1, <5>1
        <5>3. 2 <= l
          BY <5>2
        <5> QED
          BY <1>1, <5>1, <5>3
      <4> QED
        BY <1>1, <4>1
    <3>2. ne[1] < ne[2]
      BY <3>1 DEF Share, Increasing
    <3>3. ne[2] \in ToSet(ne)
      BY <3>1 DEF ToSet
    <3>4. ne[2] = 0
      BY <1>2, <3>3
    <3> QED
      BY <1>1, <3>2, <3>4
  <2> QED
    BY <2>1
<1>7. <<0>> \in Seq(Nat) /\ Len(<<0>>) = 1 /\ <<0>>[1] = 0
  OBVIOUS
<1>8. \A i \in 1 .. 1 : i = 1
  OBVIOUS
<1>9. ne = <<0>>
  BY <1>1, <1>6, <1>7, <1>8, SeqEqual
<1> QED
  BY <1>5, <1>6, <1>9

\* No node is lost or repeated.
LEMMA ShareLen ==
  ASSUME NEW f \in Nat, NEW ne, NEW e, Share(ne, e, f + 1)
  PROVE  Len(ne) + Len(e) = f + 1
<1> DEFINE all(g) == \A x, y : Share(x, y, g + 1) => Len(x) + Len(y) = g + 1
           T == {g \in 0 .. f : all(g)}
<1>1. 0 \in T
  <2>1. ASSUME NEW x, NEW y, Share(x, y, 1) PROVE Len(x) + Len(y) = 1
    <3>1. Len(x) = 1 /\ y = <<>>
      BY <2>1, ShareFirst
    <3> QED
      BY <3>1
  <2>2. 0 + 1 = 1 /\ 0 \in 0 .. f
    OBVIOUS
  <2> QED
    BY <2>1, <2>2
<1>2. ASSUME NEW g \in 1 .. f, g - 1 \in T PROVE g \in T
  <2>1. g \in Nat /\ g # 0 /\ g - 1 + 1 = g /\ g \in 0 .. f
    OBVIOUS
  <2>2. \A x, y : Share(x, y, g) => Len(x) + Len(y) = g
    BY <1>2, <2>1
  <2>3. ASSUME NEW x, NEW y, Share(x, y, g + 1) PROVE Len(x) + Len(y) = g + 1
    <3>1. x \in Seq(Nat) /\ y \in Seq(Nat) /\ x # <<>> /\ Increasing(x) /\ Increasing(y)
      BY <2>3 DEF Share
    <3>2. CASE y # <<>> /\ Share(x, Front(y), g)
      <4>1. Len(x) + Len(Front(y)) = g
        BY <2>2, <3>2
      <4>2. Len(Front(y)) = Len(y) - 1
        BY <3>1, <3>2, IncreasingFront
      <4>3. Len(x) \in Nat /\ Len(y) \in Nat
        BY <3>1
      <4> QED
        BY <2>1, <4>1, <4>2, <4>3
    <3>3. CASE Share(Front(x), y, g)
      <4>1. Len(Front(x)) + Len(y) = g
        BY <2>2, <3>3
      <4>2. Len(Front(x)) = Len(x) - 1
        BY <3>1, IncreasingFront
      <4>3. Len(x) \in Nat /\ Len(y) \in Nat
        BY <3>1
      <4> QED
        BY <2>1, <4>1, <4>2, <4>3
    <3> QED
      BY <2>1, <2>3, <3>2, <3>3, ShareLast
  <2> QED
    BY <2>1, <2>3
<1>3. 0 .. f \subseteq T
  <2> HIDE DEF T
  <2> QED
    BY <1>1, <1>2, UpTo
<1>4. all(f)
  BY <1>3
<1> QED
  BY <1>4

\* The kept customers behind the last one ejected are all those up to index f; k of
\* the others are kept.
Popped(ne, e, f, k) ==
  /\ k \in 1 .. Len(ne) /\ Last(e) \in 0 .. f /\ Len(ne) = k + (f - Last(e))
  /\ \A j \in k + 1 .. Len(ne) : ne[j] = Last(e) + (j - k)
  /\ Share(SubSeq(ne, 1, k), Front(e), Last(e))

\* Until the last one ejected is the last of all, backtracking takes kept customers back.
LEMMA SharePops ==
  ASSUME NEW f \in Nat, NEW ne, NEW e, Share(ne, e, f + 1), e # <<>>
  PROVE  \E k \in Nat : Popped(ne, e, f, k)
<1> DEFINE all(g) == \A x, y : Share(x, y, g + 1) /\ y # <<>> =>
                                 \E k \in Nat : Popped(x, y, g, k)
           T == {g \in 0 .. f : all(g)}
<1>1. 0 \in T
  <2>1. ASSUME NEW x, NEW y, Share(x, y, 1), y # <<>> PROVE FALSE
    BY <2>1, ShareFirst
  <2>2. 0 + 1 = 1 /\ 0 \in 0 .. f
    OBVIOUS
  <2> QED
    BY <2>1, <2>2
<1>2. ASSUME NEW g \in 1 .. f, g - 1 \in T PROVE g \in T
  <2>1. g \in Nat /\ g # 0 /\ g - 1 + 1 = g /\ g \in 0 .. f /\ g + 1 - 1 = g
    OBVIOUS
  <2>2. \A x, y : Share(x, y, g) /\ y # <<>> => \E k \in Nat : Popped(x, y, g - 1, k)
    BY <1>2, <2>1
  <2>3. ASSUME NEW x, NEW y, Share(x, y, g + 1), y # <<>>
        PROVE  \E k \in Nat : Popped(x, y, g, k)
    <3>1. /\ x \in Seq(Nat) /\ y \in Seq(Nat) /\ x # <<>> /\ Increasing(x) /\ Increasing(y)
          /\ Len(x) \in Nat
      BY <2>3 DEF Share
    <3>2. Len(x) \in 1 .. Len(x)
      BY <3>1
    <3>3. CASE Last(y) = g /\ Share(x, Front(y), g)
      <4>1. SubSeq(x, 1, Len(x)) = x
        BY <3>1, SubSeqFull
      <4>2. Len(x) = Len(x) + (g - g) /\ g \in 0 .. g
        BY <2>1, <3>1
      <4>3. \A j \in Len(x) + 1 .. Len(x) : FALSE
        BY <3>1
      <4>4. Popped(x, y, g, Len(x))
        BY <3>2, <3>3, <4>1, <4>2, <4>3 DEF Popped
      <4> QED
        BY <3>1, <4>4
    <3>4. CASE Last(x) = g /\ Share(Front(x), y, g) /\ Last(y) < g
      <4>1. PICK k \in Nat : Popped(Front(x), y, g - 1, k)
        BY <2>2, <2>3, <3>4
      <4>2. /\ Front(x) \in Seq(Nat) /\ Len(Front(x)) = Len(x) - 1
            /\ \A j \in 1 .. Len(x) - 1 : Front(x)[j] = x[j]
        BY <3>1, IncreasingFront
      <4>3. PICK m \in Nat : m = Last(y) /\ m <= g - 1
        BY <4>1 DEF Popped
      <4>4. /\ k \in 1 .. Len(x) - 1 /\ Len(x) - 1 = k + ((g - 1) - m)
            /\ \A j \in k + 1 .. Len(x) - 1 : Front(x)[j] = m + (j - k)
            /\ Share(SubSeq(Front(x), 1, k), Front(y), m)
        BY <4>1, <4>2, <4>3 DEF Popped
      <4>5. k \in 1 .. Len(x) /\ m \in 0 .. g /\ Len(x) = k + (g - m)
        <5>1. PICK l \in Nat : l = Len(x)
          BY <3>1
        <5>2. k \in 1 .. l - 1 /\ l - 1 = k + ((g - 1) - m)
          BY <4>4, <5>1
        <5>3. k \in 1 .. l /\ m \in 0 .. g /\ l = k + (g - m)
          BY <4>3, <5>2
        <5> QED
          BY <5>1, <5>3
      <4>6. ASSUME NEW j \in k + 1 .. Len(x) PROVE x[j] = m + (j - k)
        <5>1. CASE j \in k + 1 .. Len(x) - 1
          <6>1. j \in 1 .. Len(x) - 1
            BY <3>1, <4>4, <5>1
          <6> QED
            BY <4>2, <4>4, <5>1, <6>1
        <5>2. CASE j = Len(x)
          <6>1. x[j] = g
            BY <3>4, <5>2 DEF Last
          <6>2. m + (Len(x) - k) = g
            <7>1. PICK l \in Nat : l = Len(x)
              BY <3>1
            <7>2. l = k + (g - m)
              BY <4>5, <7>1
            <7>3. m + (l - k) = g
              BY <7>2
            <7> QED
              BY <7>1, <7>3
          <6> QED
            BY <5>2, <6>1, <6>2
        <5> QED
          BY <3>1, <5>1, <5>2
      <4>7. SubSeq(x, 1, k) = SubSeq(Front(x), 1, k)
        <5>1. Increasing(Front(x)) /\ k \in 0 .. Len(x) /\ k \in 0 .. Len(Front(x))
          BY <3>1, <4>2, <4>4, IncreasingFront
        <5>2. /\ SubSeq(x, 1, k) \in Seq(Nat) /\ Len(SubSeq(x, 1, k)) = k
              /\ \A j \in 1 .. k : SubSeq(x, 1, k)[j] = x[j]
          BY <3>1, <5>1, IncreasingPrefix
        <5>3. /\ SubSeq(Front(x), 1, k) \in Seq(Nat) /\ Len(SubSeq(Front(x), 1, k)) = k
              /\ \A j \in 1 .. k : SubSeq(Front(x), 1, k)[j] = Front(x)[j]
          BY <4>2, <5>1, IncreasingPrefix
        <5>4. \A j \in 1 .. k : j \in 1 .. Len(x) - 1
          BY <3>1, <4>4
        <5>5. \A j \in 1 .. k : SubSeq(x, 1, k)[j] = SubSeq(Front(x), 1, k)[j]
          BY <4>2, <5>2, <5>3, <5>4
        <5> QED
          BY <5>2, <5>3, <5>5, SeqEqual
      <4>8. Popped(x, y, g, k)
        BY <4>3, <4>4, <4>5, <4>6, <4>7 DEF Popped
      <4> QED
        BY <4>8
    <3> QED
      BY <2>1, <2>3, <3>3, <3>4, ShareLast
  <2> QED
    BY <2>1, <2>3
<1>3. 0 .. f \subseteq T
  <2> HIDE DEF T
  <2> QED
    BY <1>1, <1>2, UpTo
<1>4. all(f)
  BY <1>3
<1> QED
  BY <1>4

\* So the loop that pops them stops at that one.
LEMMA ShareRemaining ==
  ASSUME NEW f \in Nat, NEW ne, NEW e, Share(ne, e, f + 1), e # <<>>
  PROVE  Popped(ne, e, f, Remaining(ne, Last(e)))
<1>1. PICK k \in Nat : Popped(ne, e, f, k)
  BY SharePops
<1>2. PICK m \in Nat : m = Last(e)
  BY <1>1 DEF Popped
<1>3. ne \in Seq(Nat) /\ Len(ne) \in Nat /\ k \in 1 .. Len(ne) /\ k \in 0 .. Len(ne)
  BY <1>1 DEF Popped, Share
<1>4. ne[k] < m
  <2>1. SubSeq(ne, 1, k)[k] = ne[k] /\ Len(SubSeq(ne, 1, k)) = k
    BY <1>3
  <2>2. SubSeq(ne, 1, k) \in Seq(Nat) /\ k \in DOMAIN SubSeq(ne, 1, k)
    BY <1>3, <2>1
  <2>3. ne[k] \in ToSet(SubSeq(ne, 1, k))
    BY <2>1, <2>2 DEF ToSet
  <2>4. ne[k] \in 0 .. m - 1
    BY <1>1, <1>2, <2>3 DEF Popped, Share
  <2> QED
    BY <2>4
<1>5. \A j \in k + 1 .. Len(ne) : ne[j] > m
  BY <1>1, <1>2, <1>3 DEF Popped
<1> DEFINE stays(x) == (x > 0 => ne[x] <= m) /\ \A j \in x + 1 .. Len(ne) : ne[j] > m
<1>6. stays(k) /\ ne[k] \in Nat
  BY <1>3, <1>4, <1>5
<1>7. ASSUME NEW x \in 0 .. Len(ne), stays(x) PROVE x = k
  <2>1. CASE x < k
    <3>1. k \in x + 1 .. Len(ne)
      BY <1>3, <2>1
    <3> QED
      BY <1>2, <1>4, <1>6, <1>7, <3>1
  <2>2. CASE k < x
    <3>1. x \in k + 1 .. Len(ne) /\ x > 0 /\ ne[x] \in Nat
      BY <1>3, <2>2
    <3> QED
      BY <1>2, <1>5, <1>7, <3>1
  <2> QED
    BY <1>3, <2>1, <2>2
<1>8. Remaining(ne, m) = CHOOSE x \in 0 .. Len(ne) : stays(x)
  BY DEF Remaining
<1> HIDE DEF stays
<1>9. Remaining(ne, m) = k
  BY <1>3, <1>6, <1>7, <1>8
<1> QED
  BY <1>1, <1>2, <1>9
-----------------------------------------------------------------------------
(***************************************************************************)
(* What is left of the route: the kept customers and those not decided.    *)
(***************************************************************************)

\* The ejection is an increasing tuple of indexes of the route.
LEMMA SharePicked ==
  ASSUME NEW C, NEW r \in Seq(C), NEW f \in 0 .. Len(r), NEW ne, NEW e, Share(ne, e, f + 1)
  PROVE  Picked(r, e, Len(e)) /\ DOMAIN e = 1 .. Len(e) /\ Len(e) \in Nat
<1>1. e \in Seq(Nat) /\ Len(e) \in Nat /\ DOMAIN e = 1 .. Len(e) /\ Len(r) \in Nat
  BY DEF Share
<1>2. 0 \in ToSet(ne)
  <2>1. ne \in Seq(Nat) /\ Len(ne) \in Nat /\ Len(ne) # 0 /\ ne[1] = 0
    BY DEF Share
  <2>2. 1 \in DOMAIN ne
    BY <2>1
  <2> QED
    BY <2>1, <2>2 DEF ToSet
<1>3. \A x \in ToSet(e) : x \in 0 .. f + 1 - 1 /\ x # 0
  BY <1>2 DEF Share
<1>4. \A x \in ToSet(e) : x \in 1 .. Len(r)
  BY <1>1, <1>3
<1>5. \A k \in 1 .. Len(e) : e[k] \in 1 .. Len(r)
  BY <1>1, <1>4 DEF ToSet
<1>6. e \in [1 .. Len(e) -> 1 .. Len(r)]
  BY <1>1, <1>5
<1>7. \A i, j \in 1 .. Len(e) : i < j => e[i] < e[j]
  BY <1>1 DEF Share, Increasing
<1> QED
  BY <1>1, <1>6, <1>7 DEF Picked

RestIs(r, ne, e, f) ==
  /\ \A g \in 1 .. Len(ne) - 1 : Rest(r, e)[g] = r[ne[g + 1]]
  /\ \A j \in f .. Len(r) : Rest(r, e)[j - Len(e)] = r[j]

RestSeq(C, r, e) == Rest(r, e) \in Seq(C) /\ Len(Rest(r, e)) = Len(r) - Len(e)

\* Node f is ejected.
LEMMA RestPush ==
  ASSUME NEW C, NEW r \in Seq(C), NEW f \in 1 .. Len(r), NEW ne, NEW e, Share(ne, e, f)
  PROVE  /\ RestSeq(C, r, e) /\ f - Len(e) \in 1 .. Len(Rest(r, e)) /\ f - Len(e) = Len(ne)
         /\ Rest(r, Append(e, f)) = RemoveIndex(Rest(r, e), f - Len(e))
         /\ RestSeq(C, r, Append(e, f)) /\ Len(Append(e, f)) = Len(e) + 1
<1>1. PICK m \in Nat : m = Len(r)
  OBVIOUS
<1>2. f \in Nat /\ f \in 1 .. m /\ f - 1 \in 0 .. m /\ f - 1 \in Nat /\ f - 1 + 1 = f /\ f \in 0 .. m
  BY <1>1
<1>3. PICK n \in Nat : n = Len(e)
  BY DEF Share
<1>4. PICK y : y = Append(e, f)
  OBVIOUS
<1>5. Share(ne, y, f + 1)
  BY <1>2, <1>4, SharePush
<1>6. Picked(r, e, n)
  BY <1>1, <1>2, <1>3, SharePicked
<1>7. Len(y) = n + 1 /\ y[n + 1] = f /\ \A k \in 1 .. n : y[k] = e[k]
  <2>1. e \in Seq(Nat)
    BY DEF Share
  <2> QED
    BY <1>2, <1>3, <1>4, <2>1
<1>8. Picked(r, y, n + 1)
  BY <1>1, <1>2, <1>5, <1>7, SharePicked
<1>9. Rest(r, e) \in Seq(C) /\ Len(Rest(r, e)) = m - n /\ Rest(r, y) = RemoveIndex(Rest(r, e), f - n)
  <2>1. Lengthens(y, e, n, f)
    BY <1>7 DEF Lengthens
  <2>2. Rest(r, e) \in Seq(C)
    BY <1>6, <1>8, <2>1, RestAppend
  <2>3. Len(Rest(r, e)) = Len(r) - n
    BY <1>6, <1>8, <2>1, RestAppend
  <2>4. Rest(r, y) = RemoveIndex(Rest(r, e), f - n)
    BY <1>6, <1>8, <2>1, RestAppend
  <2> QED
    BY <1>1, <2>2, <2>3, <2>4
<1>10. PICK l \in Nat : l = Len(ne) /\ l # 0
  BY DEF Share
<1>11. l + n = f
  BY <1>2, <1>3, <1>10, ShareLen
<1>12. f - n \in 1 .. m - n /\ f - n = l
  BY <1>2, <1>10, <1>11
<1>13. Rest(r, y) \in Seq(C) /\ Len(Rest(r, y)) = m - n - 1
  BY <1>9, <1>12, RemoveIndexElements
<1>14. Len(Rest(r, y)) = m - (n + 1)
  BY <1>13
<1> QED
  BY <1>1, <1>3, <1>4, <1>7, <1>9, <1>10, <1>12, <1>13, <1>14 DEF RestSeq

\* The rest of the route without an ejection is what the kept ones list.
LEMMA RestShare ==
  ASSUME NEW C, NEW r \in Seq(C), NEW f \in 0 .. Len(r), NEW ne, NEW e, Share(ne, e, f + 1)
  PROVE  RestSeq(C, r, e) /\ RestIs(r, ne, e, f + 1)
<1>1. PICK m \in Nat : m = Len(r)
  OBVIOUS
<1> DEFINE all(g) == \A x, y : Share(x, y, g + 1) => RestSeq(C, r, y) /\ RestIs(r, x, y, g + 1)
           T == {g \in 0 .. m : all(g)}
<1>2. 0 \in T
  <2>1. ASSUME NEW x, NEW y, Share(x, y, 1) PROVE RestSeq(C, r, y) /\ RestIs(r, x, y, 1)
    <3>1. Len(x) = 1 /\ y = <<>> /\ Len(y) = 0
      BY <2>1, ShareFirst
    <3>2. Picked(r, y, Len(y))
      BY <1>1, <2>1, SharePicked
    <3>3. Rest(r, y) = r
      BY <3>1, <3>2, RestSmall
    <3>4. \A j \in 1 .. Len(r) : j - 0 = j
      OBVIOUS
    <3>5. \A g \in 1 .. Len(x) - 1 : FALSE
      BY <3>1
    <3> QED
      BY <3>1, <3>3, <3>4, <3>5 DEF RestSeq, RestIs
  <2>2. 0 + 1 = 1 /\ 0 \in 0 .. m
    OBVIOUS
  <2> QED
    BY <2>1, <2>2
<1>3. ASSUME NEW g \in 1 .. m, g - 1 \in T PROVE g \in T
  <2>1. g \in Nat /\ g # 0 /\ g - 1 + 1 = g /\ g \in 0 .. m /\ g \in 1 .. Len(r)
    BY <1>1
  <2>2. \A x, y : Share(x, y, g) => RestSeq(C, r, y) /\ RestIs(r, x, y, g)
    BY <1>3, <2>1
  <2>3. ASSUME NEW x, NEW y, Share(x, y, g + 1)
        PROVE  RestSeq(C, r, y) /\ RestIs(r, x, y, g + 1)
    <3>1. x \in Seq(Nat) /\ y \in Seq(Nat) /\ x # <<>> /\ Increasing(x) /\ Increasing(y)
      BY <2>3 DEF Share
    <3>2. Len(x) \in Nat /\ Len(y) \in Nat /\ Len(x) # 0
      BY <3>1
    <3>3. CASE y # <<>> /\ Last(y) = g /\ Share(x, Front(y), g)
      <4>1. PICK z : z = Front(y)
        OBVIOUS
      <4>2. y = Append(z, g) /\ Share(x, z, g)
        BY <3>1, <3>3, <4>1, IncreasingFront
      <4>3. /\ RestSeq(C, r, z) /\ g - Len(z) \in 1 .. Len(Rest(r, z)) /\ g - Len(z) = Len(x)
            /\ Rest(r, y) = RemoveIndex(Rest(r, z), g - Len(z))
            /\ RestSeq(C, r, y) /\ Len(y) = Len(z) + 1
        BY <2>1, <4>2, RestPush
      <4>4. RestIs(r, x, z, g)
        BY <2>2, <4>2
      <4>5. PICK q \in Seq(C) : q = Rest(r, z)
        BY <4>3 DEF RestSeq
      <4>6. PICK n \in Nat : n = Len(z)
        BY <4>2 DEF Share
      <4>7. PICK l \in Nat : l = Len(x) /\ l # 0
        BY <3>2
      <4>8. g - n = l /\ l \in 1 .. Len(q) /\ Len(q) = m - n /\ Len(y) = n + 1
        BY <1>1, <4>3, <4>5, <4>6, <4>7 DEF RestSeq
      <4>9. \A k \in 1 .. Len(q) - 1 : Rest(r, y)[k] = IF k < l THEN q[k] ELSE q[k + 1]
        <5>1. Rest(r, y) = RemoveIndex(q, l)
          BY <4>3, <4>5, <4>7
        <5> QED
          BY <4>8, <5>1, RemoveIndexElements
      <4>10. ASSUME NEW k \in 1 .. Len(x) - 1 PROVE Rest(r, y)[k] = r[x[k + 1]]
        <5>1. k \in 1 .. Len(q) - 1 /\ k < l
          BY <4>7, <4>8
        <5>2. q[k] = r[x[k + 1]]
          BY <4>4, <4>5 DEF RestIs
        <5> QED
          BY <4>9, <5>1, <5>2
      <4>11. ASSUME NEW j \in g + 1 .. Len(r) PROVE Rest(r, y)[j - Len(y)] = r[j]
        <5>1. PICK k \in Int : k = j - (n + 1)
          BY <1>1, <2>1
        <5>2. k \in 1 .. Len(q) - 1 /\ ~(k < l) /\ k + 1 = j - n /\ j \in g .. Len(r)
          BY <1>1, <2>1, <4>8, <5>1
        <5>3. q[j - n] = r[j]
          BY <4>4, <4>5, <4>6, <5>2 DEF RestIs
        <5>4. Rest(r, y)[k] = r[j]
          BY <4>9, <5>2, <5>3
        <5> QED
          BY <4>8, <5>1, <5>4
      <4> QED
        BY <4>3, <4>10, <4>11 DEF RestIs
    <3>4. CASE Last(x) = g /\ Share(Front(x), y, g)
      <4>1. /\ Front(x) \in Seq(Nat) /\ Len(Front(x)) = Len(x) - 1
            /\ \A k \in 1 .. Len(x) - 1 : Front(x)[k] = x[k]
        BY <3>1, IncreasingFront
      <4>2. RestSeq(C, r, y) /\ RestIs(r, Front(x), y, g)
        BY <2>2, <3>4
      <4>3. PICK l \in Nat : l = Len(x) /\ l # 0
        BY <3>2
      <4>4. PICK n \in Nat : n = Len(y)
        BY <3>2
      <4>5. l + n = g + 1
        BY <2>1, <2>3, <4>3, <4>4, ShareLen
      <4>6. ASSUME NEW k \in 1 .. Len(x) - 1 PROVE Rest(r, y)[k] = r[x[k + 1]]
        <5>1. CASE k = Len(x) - 1
          <6>1. k + 1 = l /\ k = g - n /\ g \in g .. Len(r)
            BY <2>1, <4>3, <4>5, <5>1
          <6>2. x[k + 1] = g
            BY <3>4, <4>3, <6>1 DEF Last
          <6>3. Rest(r, y)[g - n] = r[g]
            BY <4>2, <4>4, <6>1 DEF RestIs
          <6> QED
            BY <6>1, <6>2, <6>3
        <5>2. CASE k # Len(x) - 1
          <6>1. k \in 1 .. l - 2 /\ k + 1 \in 1 .. l - 1 /\ (l - 1) - 1 = l - 2
            BY <4>3, <5>2
          <6>2. Rest(r, y)[k] = r[Front(x)[k + 1]]
            BY <4>1, <4>2, <4>3, <6>1 DEF RestIs
          <6>3. Front(x)[k + 1] = x[k + 1]
            BY <4>1, <4>3, <6>1
          <6> QED
            BY <6>2, <6>3
        <5> QED
          BY <5>1, <5>2
      <4>7. \A j \in g + 1 .. Len(r) : j \in g .. Len(r)
        BY <2>1
      <4> QED
        BY <4>2, <4>6, <4>7 DEF RestIs
    <3> QED
      BY <2>1, <2>3, <3>3, <3>4, ShareLast
  <2> QED
    BY <2>1, <2>3
<1>4. 0 .. m \subseteq T
  <2> HIDE DEF T
  <2> QED
    BY <1>2, <1>3, UpTo
<1>5. all(f)
  BY <1>1, <1>4
<1> QED
  BY <1>5
-----------------------------------------------------------------------------
(***************************************************************************)
(* The times of the nodes up to index g when the nodes of K are kept: each *)
(* node is reached from the last kept one before it.                       *)
(***************************************************************************)
Before(K, m, i) == m \in K /\ m < i /\ \A x \in K : x < i => x <= m

EarliestFrom(p, r, at, m, i) == MAX(p.e[Id(r, i)], at[m] + Leg(p, Id(r, m), Id(r, i)))

TimedAt(p, r, at, ae, m, i) ==
  ae[i] = EarliestFrom(p, r, at, m, i) /\ at[i] = MIN(ae[i], p.l[Id(r, i)])

Timed(p, r, at, ae, K, g) ==
  /\ at \in [0 .. Len(r) + 1 -> Int] /\ ae \in [0 .. Len(r) + 1 -> Int]
  /\ at[0] = p.e[0]
  /\ \A i \in 1 .. g : \A m \in K : Before(K, m, i) => TimedAt(p, r, at, ae, m, i)

\* In an increasing sequence the element before is the last one that is smaller.
LEMMA BeforeNext ==
  ASSUME NEW s \in Seq(Nat), Increasing(s), NEW k \in 1 .. Len(s) - 1
  PROVE  Before(ToSet(s), s[k], s[k + 1]) /\ s[k] \in ToSet(s) /\ s[k + 1] \in ToSet(s)
<1>1. PICK n \in Nat : n = Len(s) /\ DOMAIN s = 1 .. n
  OBVIOUS
<1>2. k \in 1 .. n /\ k + 1 \in 1 .. n /\ k < k + 1
  BY <1>1
<1>3. s[k] \in ToSet(s) /\ s[k + 1] \in ToSet(s) /\ s[k] < s[k + 1]
  BY <1>1, <1>2 DEF ToSet, Increasing
<1>4. \A i \in 1 .. n : s[i] \in Nat
  BY <1>1
<1>5. ASSUME NEW i \in 1 .. n, s[i] < s[k + 1] PROVE s[i] <= s[k]
  <2>1. CASE i < k
    <3>1. s[i] < s[k]
      BY <1>1, <1>2, <2>1 DEF Increasing
    <3> QED
      BY <1>2, <1>4, <3>1
  <2>2. CASE i = k
    BY <1>2, <1>4, <2>2
  <2>3. CASE i = k + 1
    BY <1>2, <1>4, <1>5, <2>3
  <2>4. CASE k + 1 < i
    <3>1. s[k + 1] < s[i]
      BY <1>1, <1>2, <2>4 DEF Increasing
    <3> QED
      BY <1>2, <1>4, <1>5, <3>1
  <2> QED
    BY <1>2, <2>1, <2>2, <2>3, <2>4
<1>6. \A x \in ToSet(s) : x < s[k + 1] => x <= s[k]
  BY <1>1, <1>5 DEF ToSet
<1> QED
  BY <1>3, <1>6 DEF Before

\* q starts with the nodes of r at the indexes of ne.
Follows(q, r, ne) ==
  /\ Len(ne) \in 1 .. Len(q) + 2
  /\ \A k \in 0 .. Len(ne) - 1 : Id(q, k) = Id(r, ne[k + 1])

Within(ne, g) ==
  /\ ne \in Seq(Nat) /\ Increasing(ne) /\ ne # <<>> /\ ne[1] = 0
  /\ \A x \in ToSet(ne) : x <= g

\* a_temp at the node at index k of q, and a_earliest_temp.
Arrives(p, q, r, at, ae, ne, k) ==
  /\ Arrivals(p, q)[k] = at[ne[k + 1]]
  /\ k # 0 => ae[ne[k + 1]] = MAX(p.e[Id(q, k)], ArrivalQuote(p, q, k))

\* Times of the kept customers are those of the route they make.
LEMMA ArrivalsFollow ==
  ASSUME NEW p, NEW q, NEW r, RouteOf(p, q), RouteOf(p, r),
         NEW ne, NEW g \in 0 .. Len(r) + 1, Within(ne, g), Follows(q, r, ne),
         NEW at, NEW ae, Timed(p, r, at, ae, ToSet(ne), g)
  PROVE  \A k \in 0 .. Len(ne) - 1 : Arrives(p, q, r, at, ae, ne, k)
<1>1. PICK n \in Nat : n = Len(ne) - 1 /\ Len(ne) = n + 1 /\ n + 1 # 0
  <2>1. Len(ne) \in Nat /\ Len(ne) # 0
    BY DEF Within
  <2>2. Len(ne) - 1 \in Nat /\ Len(ne) = Len(ne) - 1 + 1
    BY <2>1
  <2> QED
    BY <2>1, <2>2
<1>2. PICK m \in Nat : m = Len(q)
  BY NodeData
<1>3. n + 1 <= m + 2 /\ \A k \in 0 .. n : Id(q, k) = Id(r, ne[k + 1])
  BY <1>1, <1>2 DEF Follows
<1> DEFINE T == {k \in 0 .. n : Arrives(p, q, r, at, ae, ne, k)}
<1>4. 0 \in T
  <2>1. ne[0 + 1] = 0
    BY DEF Within
  <2>2. Arrivals(p, q)[0] = p.e[0] /\ at[0] = p.e[0]
    BY ArrivalsSteps DEF Timed
  <2> QED
    BY <1>1, <2>1, <2>2 DEF Arrives
<1>5. ASSUME NEW k \in 1 .. n, k - 1 \in T PROVE k \in T
  <2>1. k \in Nat /\ k # 0 /\ k \in 0 .. n /\ k - 1 \in 0 .. n /\ k - 1 + 1 = k /\ k \in 1 .. m + 1
    BY <1>3
  <2>2. Before(ToSet(ne), ne[k], ne[k + 1]) /\ ne[k] \in ToSet(ne) /\ ne[k + 1] \in ToSet(ne)
    BY <1>1, BeforeNext DEF Within
  <2>3. ne[k] \in Nat /\ ne[k + 1] \in Nat /\ ne[k] < ne[k + 1] /\ ne[k + 1] <= g
    <3>1. ne \in Seq(Nat) /\ k \in 1 .. Len(ne) /\ k + 1 \in 1 .. Len(ne)
      BY <1>1, <2>1 DEF Within
    <3>2. ne[k] \in Nat /\ ne[k + 1] \in Nat
      BY <3>1
    <3> QED
      BY <2>2, <3>2 DEF Before, Within
  <2>4. PICK i \in 1 .. g : i = ne[k + 1]
    BY <2>3
  <2>5. PICK j \in Nat : j = ne[k]
    BY <2>3
  <2>6. TimedAt(p, r, at, ae, j, i)
    BY <2>2, <2>4, <2>5 DEF Timed
  <2>7. Id(q, k) = Id(r, i) /\ Id(q, k - 1) = Id(r, j)
    BY <1>3, <2>1, <2>4, <2>5
  <2>8. Arrivals(p, q)[k - 1] = at[j]
    BY <1>5, <2>1, <2>5 DEF Arrives
  <2>9. PICK t \in Int : t = ArrivalQuote(p, q, k)
    BY <1>2, <2>1, ArrivalQuotes
  <2>10. t = at[j] + Leg(p, Id(r, j), Id(r, i))
    BY <2>7, <2>8, <2>9 DEF ArrivalQuote
  <2>11. ae[i] = MAX(p.e[Id(q, k)], t) /\ at[i] = MIN(ae[i], p.l[Id(q, k)])
    BY <2>6, <2>7, <2>10 DEF TimedAt, EarliestFrom
  <2>12. Arrivals(p, q)[k] = Clip(p, Id(q, k), t)
    BY <1>2, <2>1, <2>9, ArrivalsSteps DEF ArrivalQuote
  <2>13. p.e[Id(q, k)] \in Int /\ p.l[Id(q, k)] \in Int
    BY <1>2, <2>1, ArrivalQuotes
  <2>14. MAX(p.e[Id(q, k)], t) = MAX(t, p.e[Id(q, k)])
    BY <2>13 DEF MAX
  <2>15. Arrivals(p, q)[k] = at[i]
    BY <2>11, <2>12, <2>14 DEF Clip
  <2>16. Arrives(p, q, r, at, ae, ne, k)
    BY <2>4, <2>9, <2>11, <2>15 DEF Arrives
  <2> QED
    BY <2>1, <2>16
<1>6. 0 .. n \subseteq T
  <2> HIDE DEF T
  <2> QED
    BY <1>4, <1>5, UpTo
<1> QED
  BY <1>1, <1>6

\* The kept customers are indexes of the route.
LEMMA ShareKept ==
  ASSUME NEW f \in Nat, NEW ne, NEW e, Share(ne, e, f + 1)
  PROVE  /\ Len(ne) \in Nat /\ Len(ne) # 0
         /\ \A k \in 1 .. Len(ne) - 1 : ne[k + 1] \in 1 .. f
         /\ Within(ne, f)
<1>1. ne \in Seq(Nat) /\ Len(ne) \in Nat /\ Len(ne) # 0 /\ ne[1] = 0 /\ Increasing(ne)
  BY DEF Share
<1>2. \A x \in ToSet(ne) : x \in 0 .. f
  BY DEF Share
<1>3. ASSUME NEW k \in 1 .. Len(ne) - 1 PROVE ne[k + 1] \in 1 .. f
  <2>1. 1 \in DOMAIN ne /\ k + 1 \in DOMAIN ne /\ 1 < k + 1
    BY <1>1
  <2>2. ne[1] < ne[k + 1]
    BY <1>1, <2>1 DEF Increasing
  <2>3. ne[k + 1] \in 0 .. f
    BY <1>2, <2>1 DEF ToSet
  <2> QED
    BY <1>1, <2>2, <2>3
<1>4. Within(ne, f)
  BY <1>1, <1>2 DEF Within
<1> QED
  BY <1>1, <1>3, <1>4

\* The times are those of a route of the kept customers alone.
KeptOf(r, ne) == [k \in 1 .. Len(ne) - 1 |-> r[ne[k + 1]]]

\* Kept customers arrive as in the route of the kept alone.
LEMMA KeptTimes ==
  ASSUME NEW p, NEW r, RouteOf(p, r), NEW f \in 0 .. Len(r), NEW ne, NEW e, Share(ne, e, f + 1),
         NEW at, NEW ae, Timed(p, r, at, ae, ToSet(ne), f)
  PROVE  \A k \in DOMAIN ne : at[ne[k]] = Arrivals(p, KeptOf(r, ne))[k - 1]
<1>1. PICK n \in Nat : Len(ne) = n + 1 /\ Len(ne) - 1 = n
  <2>1. Len(ne) \in Nat /\ Len(ne) # 0
    BY ShareKept
  <2>2. Len(ne) - 1 \in Nat /\ Len(ne) = Len(ne) - 1 + 1
    BY <2>1
  <2> QED
    BY <2>2
<1>2. Len(r) \in Nat /\ r \in Seq(1 .. p.n) /\ f \in Nat /\ f \in 0 .. Len(r) + 1
  BY NodeData DEF RouteOf
<1>3. Within(ne, f) /\ \A k \in 1 .. n : ne[k + 1] \in 1 .. f
  BY <1>1, <1>2, ShareKept
<1>4. PICK q : q = KeptOf(r, ne)
  OBVIOUS
<1>5. q \in Seq(1 .. p.n) /\ Len(q) = n /\ \A k \in 1 .. n : q[k] = r[ne[k + 1]]
  <2>1. \A k \in 1 .. n : r[ne[k + 1]] \in 1 .. p.n
    <3>1. \A k \in 1 .. n : ne[k + 1] \in 1 .. Len(r)
      BY <1>2, <1>3
    <3>2. \A i \in 1 .. Len(r) : r[i] \in 1 .. p.n
      BY <1>2, ElementOfSeq
    <3> QED
      BY <3>1, <3>2, Zenon
  <2> QED
    BY <1>1, <1>4, <2>1 DEF KeptOf
<1>6. RouteOf(p, q)
  BY <1>5 DEF RouteOf
<1>7. \A k \in 0 .. n : Id(q, k) = Id(r, ne[k + 1])
  <2>1. ne[0 + 1] = 0
    BY <1>3 DEF Within
  <2>2. Id(q, 0) = 0 /\ Id(r, 0) = 0
    BY <1>2, <1>5 DEF Id
  <2>3. ASSUME NEW k \in 1 .. n PROVE Id(q, k) = Id(r, ne[k + 1])
    <3>1. Id(q, k) = q[k]
      BY <1>5 DEF Id
    <3>2. ne[k + 1] \in 1 .. Len(r)
      BY <1>2, <1>3
    <3> QED
      BY <1>5, <3>1, <3>2 DEF Id
  <2> QED
    BY <2>1, <2>2, <2>3
<1>8. Follows(q, r, ne)
  BY <1>1, <1>5, <1>7 DEF Follows
<1>9. \A k \in 0 .. n : Arrives(p, q, r, at, ae, ne, k)
  BY <1>1, <1>2, <1>3, <1>6, <1>8, ArrivalsFollow
<1>10. ASSUME NEW k \in DOMAIN ne PROVE at[ne[k]] = Arrivals(p, q)[k - 1]
  <2>1. DOMAIN ne = 1 .. n + 1
    BY <1>1, <1>3 DEF Within
  <2>2. k - 1 \in 0 .. n /\ k - 1 + 1 = k
    BY <2>1
  <2> QED
    BY <1>9, <2>2 DEF Arrives
<1> QED
  BY <1>4, <1>10
-----------------------------------------------------------------------------
(***************************************************************************)
(* The constant-time test at index x against the lateness of the rest.     *)
(***************************************************************************)
KeptOnTime(p, r, ae, ne) == \A m \in ToSet(ne) \ {0} : ae[m] <= p.l[Id(r, m)]

TestsTw(p, r, at, ae, x) ==
  /\ ae[x] <= p.l[Id(r, x)]
  /\ at[x] <= LatestStarts(p, r)[x]
  /\ SuffixLateness(p, r)[x] = 0

WindowsOpen(p) == \A c \in 0 .. p.n : p.e[c] <= p.l[c]

\* The rest is a route whose nodes from x on are those of r.
LEMMA RestTail ==
  ASSUME NEW p, NEW r, RouteOf(p, r), NEW f \in 0 .. Len(r), NEW ne, NEW e, Share(ne, e, f + 1)
  PROVE  /\ RouteOf(p, Rest(r, e)) /\ Len(Rest(r, e)) = Len(r) - Len(e)
         /\ Len(ne) + Len(e) = f + 1 /\ Len(e) \in Nat
         /\ SharesTail(Rest(r, e), r, Len(e), f + 1)
         /\ Follows(Rest(r, e), r, Append(ne, f + 1))
<1>1. PICK m \in Nat : m = Len(r)
  BY NodeData
<1>2. r \in Seq(1 .. p.n) /\ f \in Nat /\ f \in 0 .. m
  BY <1>1 DEF RouteOf
<1>3. PICK q : q = Rest(r, e)
  OBVIOUS
<1>4. RestSeq(1 .. p.n, r, e) /\ RestIs(r, ne, e, f + 1)
  BY <1>2, RestShare
<1>5. PICK d \in Nat : d = Len(e)
  BY DEF Share
<1>6. PICK n \in Nat : n = Len(ne) /\ n # 0
  BY <1>2, ShareKept
<1>7. n + d = f + 1
  BY <1>2, <1>5, <1>6, ShareLen
<1>8. q \in Seq(1 .. p.n) /\ Len(q) = m - d /\ RouteOf(p, q)
  BY <1>1, <1>3, <1>4, <1>5 DEF RestSeq, RouteOf
<1>9. /\ \A k \in 1 .. n - 1 : q[k] = r[ne[k + 1]]
      /\ \A j \in f + 1 .. m : q[j - d] = r[j]
  BY <1>1, <1>3, <1>4, <1>5, <1>6 DEF RestIs
<1>10. ASSUME NEW j \in f + 1 .. m + 1 PROVE Id(q, j - d) = Id(r, j)
  <2>1. CASE j = m + 1
    <3>1. Id(r, j) = 0
      BY <1>1, <2>1 DEF Id
    <3>2. ~(j - d \in 1 .. Len(q))
      BY <1>8, <2>1
    <3> QED
      BY <3>1, <3>2 DEF Id
  <2>2. CASE j \in f + 1 .. m
    <3>1. j - d \in 1 .. Len(q) /\ j \in 1 .. Len(r)
      BY <1>1, <1>2, <1>6, <1>7, <1>8, <2>2
    <3> QED
      BY <1>9, <2>2, <3>1 DEF Id
  <2> QED
    BY <1>2, <2>1, <2>2
<1>11. SharesTail(q, r, d, f + 1)
  <2>1. f + 1 \in d + 1 .. m + 1
    BY <1>2, <1>6, <1>7
  <2> QED
    BY <1>1, <1>8, <1>10, <2>1 DEF SharesTail
<1>12. PICK x : x = Append(ne, f + 1)
  OBVIOUS
<1>13. Len(x) = n + 1 /\ x[n + 1] = f + 1 /\ \A k \in 1 .. n : x[k] = ne[k]
  <2>1. ne \in Seq(Nat) /\ f + 1 \in Nat
    BY <1>2 DEF Share
  <2> QED
    BY <1>6, <1>12, <2>1
<1>14. ASSUME NEW k \in 0 .. n PROVE Id(q, k) = Id(r, x[k + 1])
  <2>1. CASE k = 0
    <3>1. x[k + 1] = 0
      BY <1>6, <1>13, <2>1 DEF Share
    <3> QED
      BY <1>1, <1>8, <2>1, <3>1 DEF Id
  <2>2. CASE k \in 1 .. n - 1
    <3>1. k + 1 \in 1 .. n /\ k \in 1 .. Len(q)
      BY <1>2, <1>6, <1>7, <1>8, <2>2
    <3>2. x[k + 1] = ne[k + 1] /\ ne[k + 1] \in 1 .. f
      BY <1>2, <1>6, <1>13, <2>2, <3>1, ShareKept
    <3>3. x[k + 1] \in 1 .. Len(r)
      BY <1>1, <1>2, <3>2
    <3> QED
      BY <1>9, <2>2, <3>1, <3>2, <3>3 DEF Id
  <2>3. CASE k = n
    <3>1. f + 1 \in f + 1 .. m + 1 /\ (f + 1) - d = n
      BY <1>2, <1>7
    <3>2. Id(q, n) = Id(r, f + 1)
      BY <1>10, <3>1
    <3> QED
      BY <1>13, <2>3, <3>2
  <2> QED
    BY <1>6, <2>1, <2>2, <2>3
<1>15. Follows(q, r, x)
  <2>1. n + 1 \in 1 .. Len(q) + 2 /\ Len(x) - 1 = n
    BY <1>2, <1>6, <1>7, <1>8, <1>13
  <2> QED
    BY <1>13, <1>14, <2>1 DEF Follows
<1> QED
  BY <1>1, <1>3, <1>5, <1>6, <1>7, <1>8, <1>11, <1>12, <1>15

\* What the test compares is what the penalties of the rest are made of.
LEMMA TestLateness ==
  ASSUME NEW p, NEW r, RouteOf(p, r), NEW f \in 0 .. Len(r), NEW ne, NEW e, Share(ne, e, f + 1),
         NEW at, NEW ae, Timed(p, r, at, ae, ToSet(ne), f + 1), KeptOnTime(p, r, ae, ne)
  PROVE  /\ TestsTw(p, r, at, ae, f + 1) => TwPenalty(p, Rest(r, e)) = 0
         /\ WindowsOpen(p) /\ TwPenalty(p, Rest(r, e)) = 0 => TestsTw(p, r, at, ae, f + 1)
<1>1. PICK m \in Nat : m = Len(r)
  BY NodeData
<1>2. f \in Nat /\ f \in 0 .. m /\ f + 1 \in 0 .. m + 1 /\ f + 1 \in Nat /\ f + 1 \in 1 .. m + 1
  BY <1>1
<1>3. PICK q : q = Rest(r, e)
  OBVIOUS
<1>4. PICK x : x = Append(ne, f + 1)
  OBVIOUS
<1>5. PICK d \in Nat : d = Len(e)
  BY RestTail
<1>6. PICK n \in Nat : n = Len(ne) /\ n # 0
  BY <1>2, ShareKept
<1>7. /\ RouteOf(p, q) /\ Len(q) = m - d /\ n + d = f + 1
      /\ SharesTail(q, r, d, f + 1) /\ Follows(q, r, x)
  BY <1>1, <1>3, <1>4, <1>5, <1>6, RestTail
<1>8. Share(x, e, f + 1 + 1)
  BY <1>2, <1>4, SharePush
<1>9. Within(x, f + 1) /\ \A k \in 1 .. Len(x) - 1 : x[k + 1] \in 1 .. f + 1
  BY <1>2, <1>8, ShareKept
<1>10. /\ ne \in Seq(Nat) /\ Increasing(ne) /\ ne[1] = 0 /\ DOMAIN ne = 1 .. n
       /\ Len(x) = n + 1 /\ x[n + 1] = f + 1 /\ \A k \in 1 .. n : x[k] = ne[k]
       /\ ToSet(x) = ToSet(ne) \cup {f + 1}
  <2>1. ne \in Seq(Nat) /\ Increasing(ne) /\ ne[1] = 0 /\ \A y \in ToSet(ne) : y < f + 1
    BY <1>2 DEF Share
  <2>2. ToSet(x) = ToSet(ne) \cup {f + 1}
    BY <1>2, <1>4, <2>1, IncreasingAppend
  <2> QED
    BY <1>2, <1>4, <1>6, <2>1, <2>2
<1>11. Timed(p, r, at, ae, ToSet(x), f + 1)
  <2>1. ASSUME NEW i \in 1 .. f + 1, NEW y \in ToSet(x), Before(ToSet(x), y, i)
        PROVE  TimedAt(p, r, at, ae, y, i)
    <3>1. y \in ToSet(ne) /\ Before(ToSet(ne), y, i)
      BY <1>2, <1>10, <2>1 DEF Before
    <3> QED
      BY <3>1 DEF Timed
  <2> QED
    BY <2>1 DEF Timed
<1>12. ASSUME NEW k \in 0 .. n PROVE Arrives(p, q, r, at, ae, x, k)
  <2>1. Len(x) - 1 = n
    BY <1>10
  <2> QED
    BY <1>1, <1>2, <1>7, <1>9, <1>11, <2>1, ArrivalsFollow
<1>13. f + 1 - 0 = f + 1 /\ (f + 1) - d = n
  BY <1>2, <1>7
<1>14. Reaches(p, q, r, d, f + 1) <=>
         at[f + 1] <= LatestStarts(p, r)[f + 1] /\ SuffixLateness(p, r)[f + 1] = 0
  <2>1. Arrivals(p, q)[n] = at[f + 1]
    BY <1>10, <1>12 DEF Arrives
  <2> QED
    BY <1>13, <2>1 DEF Reaches
<1> DEFINE ontime(i) == ArrivalQuote(p, q, i) <= p.l[Id(q, i)]
<1>15. TwPenalty(p, q) = 0 <=> \A i \in 1 .. m - d + 1 : ontime(i)
  <2>1. (m - d) + 1 = Len(q) + 1
    BY <1>7
  <2> QED
    BY <1>7, <2>1, NoLateness
<1> HIDE DEF ontime
<1>16. (\A i \in 1 .. (m - d) + 1 : ontime(i)) <=>
         /\ \A k \in 1 .. n : ontime(k)
         /\ \A j \in f + 1 .. m : ontime((j + 1) - d)
  <2>1. \A k \in 1 .. n : k \in 1 .. (m - d) + 1
    BY <1>2, <1>7
  <2>2. \A j \in f + 1 .. m : (j + 1) - d \in 1 .. (m - d) + 1
    BY <1>2, <1>6, <1>7
  <2>3. \A i \in 1 .. (m - d) + 1 :
          \/ i \in 1 .. n
          \/ (i + d) - 1 \in f + 1 .. m /\ (((i + d) - 1) + 1) - d = i
    BY <1>2, <1>7
  <2> QED
    BY <2>1, <2>2, <2>3
<1>17. ASSUME NEW j \in f + 1 .. m
       PROVE  ontime((j + 1) - d) <=> ArrivalQuote(p, q, (j + 1) - d) <= p.l[Id(r, j + 1)]
  <2>1. j + 1 \in f + 1 .. m + 1
    BY <1>2
  <2>2. Id(q, (j + 1) - d) = Id(r, j + 1)
    BY <1>1, <1>7, <2>1 DEF SharesTail
  <2> QED
    BY <2>2 DEF ontime
<1>18. ASSUME NEW k \in 1 .. n
       PROVE  /\ ae[x[k + 1]] = MAX(p.e[Id(q, k)], ArrivalQuote(p, q, k))
              /\ Id(q, k) = Id(r, x[k + 1])
              /\ ArrivalQuote(p, q, k) \in Int /\ p.e[Id(q, k)] \in Int /\ p.l[Id(q, k)] \in Int
              /\ Id(q, k) \in 0 .. p.n
  <2>1. k # 0 /\ k \in 0 .. n /\ k \in 1 .. Len(q) + 1 /\ k \in 0 .. Len(q) + 1 /\ k \in 0 .. Len(x) - 1
    BY <1>2, <1>7, <1>10
  <2>2. Arrives(p, q, r, at, ae, x, k)
    BY <1>12, <2>1
  <2>3. ae[x[k + 1]] = MAX(p.e[Id(q, k)], ArrivalQuote(p, q, k))
    BY <2>1, <2>2 DEF Arrives
  <2>4. Id(q, k) = Id(r, x[k + 1])
    BY <1>7, <2>1 DEF Follows
  <2>5. ArrivalQuote(p, q, k) \in Int /\ p.e[Id(q, k)] \in Int /\ p.l[Id(q, k)] \in Int
    BY <1>7, <2>1, ArrivalQuotes
  <2>6. Id(q, k) \in 0 .. p.n
    BY <1>7, <2>1, RouteLegs
  <2> QED
    BY <2>3, <2>4, <2>5, <2>6
<1>19. ASSUME NEW k \in 1 .. n, ae[x[k + 1]] <= p.l[Id(r, x[k + 1])] PROVE ontime(k)
  <2>1. PICK t \in Int : t = ArrivalQuote(p, q, k)
    BY <1>18
  <2>2. PICK y \in Int : y = p.e[Id(q, k)]
    BY <1>18
  <2>3. PICK l \in Int : l = p.l[Id(q, k)]
    BY <1>18
  <2>4. MAX(y, t) <= l
    BY <1>18, <1>19, <2>1, <2>2, <2>3
  <2>5. t <= l
    BY <2>4 DEF MAX
  <2> QED
    BY <2>1, <2>3, <2>5 DEF ontime
<1>20. ASSUME NEW k \in 1 .. n, k # n PROVE ontime(k)
  <2>1. k + 1 \in 1 .. n /\ k \in 1 .. Len(x) - 1
    BY <1>10, <1>20
  <2>2. x[k + 1] = ne[k + 1] /\ x[k + 1] # 0
    BY <1>9, <1>10, <2>1
  <2>3. x[k + 1] \in ToSet(ne) \ {0}
    BY <1>10, <2>1, <2>2 DEF ToSet
  <2>4. ae[x[k + 1]] <= p.l[Id(r, x[k + 1])]
    BY <2>3 DEF KeptOnTime
  <2> QED
    BY <1>19, <2>4
<1>21. ASSUME TestsTw(p, r, at, ae, f + 1) PROVE TwPenalty(p, q) = 0
  <2>1. n \in 1 .. n
    BY <1>6
  <2>2. ontime(n)
    BY <1>10, <1>19, <1>21, <2>1 DEF TestsTw
  <2>3. Reaches(p, q, r, d, f + 1)
    BY <1>14, <1>21 DEF TestsTw
  <2>4. \A j \in f + 1 .. m : ArrivalQuote(p, q, (j + 1) - d) <= p.l[Id(r, j + 1)]
    BY <1>1, <1>7, <2>3, ReachesTail
  <2>5. \A j \in f + 1 .. m : ontime((j + 1) - d)
    BY <1>17, <2>4
  <2>6. \A k \in 1 .. n : ontime(k)
    BY <1>20, <2>2
  <2> QED
    BY <1>15, <1>16, <2>5, <2>6
<1>22. ASSUME WindowsOpen(p), TwPenalty(p, q) = 0 PROVE TestsTw(p, r, at, ae, f + 1)
  <2>1. /\ \A k \in 1 .. n : ontime(k)
        /\ \A j \in f + 1 .. m : ontime((j + 1) - d)
    BY <1>15, <1>16, <1>22
  <2>2. \A j \in f + 1 .. m : ArrivalQuote(p, q, (j + 1) - d) <= p.l[Id(r, j + 1)]
    BY <1>17, <2>1
  <2>3. \A j \in f + 1 .. m : p.e[Id(r, j)] <= p.l[Id(r, j)]
    <3>1. \A j \in f + 1 .. m : j \in 0 .. m + 1
      BY <1>2
    <3>2. \A j \in f + 1 .. m : Id(r, j) \in 0 .. p.n
      BY <1>1, <3>1, RouteLegs
    <3> QED
      BY <1>22, <3>2 DEF WindowsOpen
  <2>4. Reaches(p, q, r, d, f + 1)
    BY <1>1, <1>7, <2>2, <2>3, ReachesTail
  <2>5. n \in 1 .. n
    BY <1>6
  <2>6. ontime(n) /\ p.e[Id(q, n)] <= p.l[Id(q, n)]
    BY <1>18, <1>22, <2>1, <2>5 DEF WindowsOpen
  <2>7. ae[f + 1] = MAX(p.e[Id(q, n)], ArrivalQuote(p, q, n)) /\ Id(q, n) = Id(r, f + 1)
    BY <1>10, <1>18, <2>5
  <2>8. ae[f + 1] <= p.l[Id(r, f + 1)]
    BY <2>6, <2>7 DEF ontime, MAX
  <2> QED
    BY <1>14, <2>4, <2>8 DEF TestsTw
<1> QED
  BY <1>3, <1>21, <1>22
-----------------------------------------------------------------------------
(***************************************************************************)
(* The sums over the ejection.                                             *)
(***************************************************************************)
SumsOf(e, a, b, c) ==
  /\ a = PSum(inst.ps, Ejected(inst.r, e))
  /\ b = Load(inst.p, Rest(inst.r, e))
  /\ c = Cardinality(ToSet(e) \cap Late(inst.p, inst.r))

\* The arguments of a search.
LEMMA Arguments ==
  ASSUME inst \in Instances
  PROVE  /\ RouteOf(inst.p, inst.r) /\ inst.r \in Seq(1 .. inst.p.n)
         /\ Len(inst.r) \in Nat /\ Len(inst.r) # 0 /\ tail = Len(inst.r) + 1
         /\ inst.ps \in [1 .. inst.p.n -> Nat]
         /\ inst.k_max \in Nat /\ inst.p_best \in Nat
<1>1. /\ Instance(inst.p) /\ inst.r \in Seq(1 .. inst.p.n) /\ inst.r # <<>>
      /\ inst.ps \in [1 .. inst.p.n -> Nat]
      /\ inst.k_max \in Nat /\ inst.p_best \in Nat
  BY InstancesAssumption
<1>2. Len(inst.r) \in Nat /\ Len(inst.r) # 0
  BY <1>1
<1> QED
  BY <1>1, <1>2 DEF RouteOf, tail

\* What the customer at index f contributes to them.
LEMMA SumsPush ==
  ASSUME inst \in Instances, NEW f \in 1 .. Len(inst.r), NEW ne, NEW e, Share(ne, e, f)
  PROVE  /\ inst.ps[inst.r[f]] \in Nat /\ demand_at(f) \in Int /\ late_at(f) \in Nat
         /\ \E a \in Nat, b \in Int, c \in Nat :
              /\ SumsOf(e, a, b, c)
              /\ SumsOf(Append(e, f), a + inst.ps[inst.r[f]], b - demand_at(f), c + late_at(f))
<1> DEFINE r == inst.r
           p == inst.p
           C == 1 .. p.n
           y == Append(e, f)
<1>1. /\ RouteOf(p, r) /\ r \in Seq(C) /\ Len(r) \in Nat /\ inst.ps \in [C -> Nat]
      /\ f \in 1 .. Len(r) /\ f \in Nat /\ f - 1 \in 0 .. Len(r) /\ f - 1 + 1 = f
      /\ f - 1 \in Nat
  <2>1. /\ RouteOf(p, r) /\ r \in Seq(C) /\ Len(r) \in Nat /\ inst.ps \in [C -> Nat]
    BY Arguments
  <2> QED
    BY <2>1
<1>2. r[f] \in C /\ inst.ps[r[f]] \in Nat /\ Id(r, f) = r[f]
  <2>1. r[f] \in C
    BY <1>1, ElementOfSeq
  <2> QED
    BY <1>1, <2>1 DEF Id
<1>3. Share(ne, e, f - 1 + 1) /\ Share(ne, y, f + 1)
  BY <1>1, SharePush
<1>4. e \in Seq(Nat) /\ DOMAIN e = 1 .. Len(e) /\ Len(e) \in Nat /\ Picked(r, e, Len(e))
  <2>1. e \in Seq(Nat)
    BY DEF Share
  <2> QED
    BY <1>1, <1>3, <2>1, SharePicked
<1>5. PICK l \in Nat : l = Len(e)
  BY <1>4
<1>6. PICK cs : cs = Ejected(r, e)
  OBVIOUS
<1>7. cs \in Seq(C) /\ Len(cs) = l /\ \A k \in 1 .. l : cs[k] = r[e[k]]
  <2>1. \A k \in 1 .. l : e[k] \in 1 .. Len(r)
    BY <1>4, <1>5 DEF Picked
  <2>2. \A i \in 1 .. Len(r) : r[i] \in C
    BY <1>1, ElementOfSeq
  <2>3. \A k \in 1 .. l : r[e[k]] \in C
    BY <2>1, <2>2, Zenon
  <2> QED
    BY <1>4, <1>5, <1>6, <2>3 DEF Ejected
<1>8. Ejected(r, y) = Append(cs, r[f])
  <2>1. y \in Seq(Nat) /\ DOMAIN y = 1 .. l + 1 /\ y[l + 1] = f /\ \A k \in 1 .. l : y[k] = e[k]
    BY <1>1, <1>4, <1>5
  <2>2. PICK t : t = Append(cs, r[f])
    OBVIOUS
  <2>3. t \in Seq(C) /\ DOMAIN t = 1 .. l + 1 /\ t[l + 1] = r[f] /\ \A k \in 1 .. l : t[k] = cs[k]
    BY <1>2, <1>7, <2>2
  <2>4. \A k \in 1 .. l + 1 : k \in 1 .. l \/ k = l + 1
    BY <1>5
  <2>5. \A k \in 1 .. l + 1 : r[y[k]] = t[k]
    BY <1>7, <2>1, <2>3, <2>4
  <2>6. t = [k \in 1 .. l + 1 |-> t[k]]
    BY <2>3
  <2> HIDE DEF y, r
  <2>7. Ejected(r, y) = t
    BY <2>1, <2>5, <2>6 DEF Ejected
  <2> QED
    BY <2>2, <2>7
<1>9. PICK a \in Nat : a = PSum(inst.ps, cs) /\ PSum(inst.ps, Append(cs, r[f])) = a + inst.ps[r[f]]
  <2>1. PICK ps : ps = inst.ps
    OBVIOUS
  <2>2. PICK c : c = r[f]
    OBVIOUS
  <2>3. ps \in [C -> Nat] /\ cs \in Seq(C) /\ c \in C
    BY <1>1, <1>2, <1>7, <2>1, <2>2
  <2> HIDE DEF C, r, p
  <2>4. PSum(ps, cs) \in Nat
    BY <2>3, PSumAppend
  <2>5. PSum(ps, Append(cs, c)) = PSum(ps, cs) + ps[c]
    BY <2>3, PSumAppend
  <2> QED
    BY <2>1, <2>2, <2>4, <2>5
<1>10. /\ RestSeq(C, r, e) /\ f - Len(e) \in 1 .. Len(Rest(r, e))
       /\ Rest(r, y) = RemoveIndex(Rest(r, e), f - Len(e))
  BY <1>1, RestPush
<1>11. Rest(r, e)[f - Len(e)] = r[f]
  <2>1. RestIs(r, ne, e, f)
    BY <1>1, <1>3, RestShare
  <2>2. f \in f .. Len(r)
    BY <1>1
  <2> QED
    BY <2>1, <2>2 DEF RestIs
<1>12. PICK b \in Int : /\ b = Load(p, Rest(r, e)) /\ demand_at(f) \in Int
                        /\ Load(p, Rest(r, y)) = b - demand_at(f)
  <2>1. PICK q : q = Rest(r, e)
    OBVIOUS
  <2>2. PICK k \in 1 .. Len(q) : k = f - Len(e)
    BY <1>10, <2>1
  <2>3. RouteOf(p, q)
    BY <1>1, <1>10, <2>1 DEF RestSeq, RouteOf
  <2>4. /\ Load(p, q) \in Int /\ p.demand[q[k]] \in Int
        /\ Load(p, RemoveIndex(q, k)) = Load(p, q) - p.demand[q[k]]
    BY <2>3, LoadRemoved
  <2>5. demand_at(f) = p.demand[q[k]]
    BY <1>2, <1>11, <2>1, <2>2 DEF demand_at
  <2> QED
    BY <1>10, <2>1, <2>2, <2>4, <2>5
<1>13. PICK late : late = Late(p, r)
  OBVIOUS
<1>14. late_at(f) = IF f \in late THEN 1 ELSE 0
  BY <1>1, <1>13 DEF late_at, Late, l_at, a_earliest
<1>15. ToSet(y) = ToSet(e) \cup {f} /\ f \notin ToSet(e)
  <2>1. \A x \in ToSet(e) : x \in 0 .. f - 1 /\ x < f
    BY <1>1 DEF Share
  <2>2. f \notin ToSet(e)
    BY <1>1, <2>1
  <2>3. ToSet(y) = ToSet(e) \cup {f}
    BY <1>1, <1>4, <2>1, IncreasingAppend DEF Share
  <2> QED
    BY <2>2, <2>3
<1>16. IsFiniteSet(ToSet(e) \cap late)
  <2>1. PICK m \in Nat : m = Len(r)
    BY <1>1
  <2>2. IsFiniteSet(1 .. m)
    BY FS_Interval
  <2>3. ToSet(e) \cap late \subseteq 1 .. m
    BY <1>13, <2>1 DEF Late
  <2> QED
    BY <2>2, <2>3, FS_Subset
<1>17. PICK c \in Nat : c = Cardinality(ToSet(e) \cap late)
  BY <1>16, FS_CardinalityType
<1>18. Cardinality(ToSet(y) \cap late) = c + late_at(f)
  <2>1. CASE f \in late
    <3>1. ToSet(y) \cap late = (ToSet(e) \cap late) \cup {f} /\ f \notin ToSet(e) \cap late
      BY <1>15, <2>1
    <3>2. Cardinality((ToSet(e) \cap late) \cup {f}) = c + 1
      BY <1>16, <1>17, <3>1, FS_AddElement
    <3> QED
      BY <1>14, <2>1, <3>1, <3>2
  <2>2. CASE f \notin late
    <3>1. ToSet(y) \cap late = ToSet(e) \cap late
      BY <1>15, <2>2
    <3>2. late_at(f) = 0
      BY <1>14, <2>2
    <3>3. c + late_at(f) = c
      BY <3>2
    <3>4. Cardinality(ToSet(y) \cap late) = c
      BY <1>17, <3>1, Zenon
    <3> QED
      BY <3>3, <3>4, Zenon
  <2> QED
    BY <2>1, <2>2
<1>19. SumsOf(e, a, b, c)
  BY <1>6, <1>9, <1>12, <1>13, <1>17 DEF SumsOf
<1>20. SumsOf(y, a + inst.ps[r[f]], b - demand_at(f), c + late_at(f))
  BY <1>8, <1>9, <1>12, <1>13, <1>18 DEF SumsOf
<1>21. late_at(f) \in Nat
  BY <1>14
<1> QED
  BY <1>2, <1>12, <1>19, <1>20, <1>21
-----------------------------------------------------------------------------
(***************************************************************************)
(* st: the nodes up to index f are decided, those behind it are in s, the  *)
(* next one last.                                                          *)
(***************************************************************************)
Stacks ==
  [ne : Seq(Nat), e : Seq(Nat), s : Seq(Nat), p_sum : Int, total_demand : Int, late : Int,
   incremented_last : BOOLEAN]

Undecided(n, f) == [i \in 1 .. n - f |-> (n + 1) - i]

Stacked(x, f) == x \in Stacks /\ Share(x.ne, x.e, f + 1) /\ x.s = Undecided(tail, f)

Summed(x) == SumsOf(x.e, x.p_sum, x.total_demand, x.late)

\* The undecided nodes, from both ends of s.
LEMMA UndecidedSteps ==
  ASSUME NEW n \in Nat, NEW f \in 0 .. n
  PROVE  /\ Undecided(n, f) \in Seq(Nat) /\ Len(Undecided(n, f)) = n - f
         /\ Undecided(n, f) = Reverse([i \in 1 .. n - f |-> f + i])
         /\ f # n => Last(Undecided(n, f)) = f + 1 /\ Front(Undecided(n, f)) = Undecided(n, f + 1)
         /\ f # 0 => Append(Undecided(n, f), f) = Undecided(n, f - 1)
<1>1. PICK d \in Nat : d = n - f
  OBVIOUS
<1>2. f \in Nat /\ n = f + d
  BY <1>1
<1>3. PICK u : u = Undecided(n, f)
  OBVIOUS
<1>4. u = [i \in 1 .. d |-> (n + 1) - i] /\ \A i \in 1 .. d : (n + 1) - i \in Nat
  BY <1>1, <1>2, <1>3 DEF Undecided
<1>5. u \in Seq(Nat) /\ Len(u) = d /\ DOMAIN u = 1 .. d /\ \A i \in 1 .. d : u[i] = (n + 1) - i
  BY <1>4
<1>6. u = Reverse([i \in 1 .. n - f |-> f + i])
  <2>1. PICK v : v = [i \in 1 .. d |-> f + i]
    OBVIOUS
  <2>2. v \in Seq(Nat) /\ Len(v) = d /\ \A i \in 1 .. d : v[i] = f + i
    BY <1>2, <2>1
  <2>3. \A i \in 1 .. d : (d - i) + 1 \in 1 .. d /\ f + ((d - i) + 1) = (n + 1) - i
    BY <1>2
  <2>4. \A i \in 1 .. d : v[(d - i) + 1] = (n + 1) - i
    BY <2>2, <2>3
  <2>5. [i \in 1 .. d |-> v[(d - i) + 1]] = u
    BY <1>4, <2>4
  <2>6. Reverse(v) = [i \in 1 .. d |-> v[(d - i) + 1]]
    BY <2>2 DEF Reverse
  <2> QED
    BY <1>1, <2>1, <2>5, <2>6
<1>7. ASSUME f # n PROVE Last(u) = f + 1 /\ Front(u) = Undecided(n, f + 1)
  <2>1. d # 0 /\ d - 1 \in Nat /\ d \in 1 .. d /\ n - (f + 1) = d - 1
    BY <1>2, <1>7
  <2>2. Last(u) = u[d]
    BY <1>5 DEF Last
  <2>3. u[d] = f + 1
    BY <1>2, <1>5, <2>1
  <2>4. PICK v : v = SubSeq(u, 1, d - 1)
    OBVIOUS
  <2>5. /\ v \in Seq(Nat) /\ Len(v) = d - 1 /\ DOMAIN v = 1 .. d - 1
        /\ \A i \in 1 .. d - 1 : v[i] = u[i]
    BY <1>5, <2>1, <2>4
  <2>6. \A i \in 1 .. d - 1 : v[i] = (n + 1) - i
    BY <1>5, <2>1, <2>5
  <2>7. v = [i \in 1 .. d - 1 |-> v[i]]
    BY <2>5
  <2>8. v = [i \in 1 .. d - 1 |-> (n + 1) - i]
    BY <2>6, <2>7
  <2>9. v = Undecided(n, f + 1)
    BY <2>1, <2>8 DEF Undecided
  <2> QED
    BY <1>5, <2>2, <2>3, <2>4, <2>9 DEF Front
<1>8. ASSUME f # 0 PROVE Append(u, f) = Undecided(n, f - 1)
  <2>1. n - (f - 1) = d + 1 /\ (n + 1) - (d + 1) = f
    BY <1>2
  <2>2. PICK v : v = Append(u, f)
    OBVIOUS
  <2>3. /\ v \in Seq(Nat) /\ DOMAIN v = 1 .. d + 1 /\ v[d + 1] = f
        /\ \A i \in 1 .. d : v[i] = u[i]
    BY <1>2, <1>5, <2>2
  <2>4. \A i \in 1 .. d + 1 : i \in 1 .. d \/ i = d + 1
    BY <1>1
  <2>5. \A i \in 1 .. d + 1 : v[i] = (n + 1) - i
    BY <1>5, <2>1, <2>3, <2>4
  <2>6. v = [i \in 1 .. d + 1 |-> v[i]]
    BY <2>3
  <2>7. v = [i \in 1 .. d + 1 |-> (n + 1) - i]
    BY <2>5, <2>6
  <2> QED
    BY <2>1, <2>2, <2>7 DEF Undecided
<1> QED
  BY <1>1, <1>3, <1>5, <1>6, <1>7, <1>8

\* The kept customers that are popped go back to the undecided ones.
LEMMA UndecidedAgain ==
  ASSUME NEW n \in Nat, NEW f \in 1 .. n, NEW ne \in Seq(Nat), NEW e, NEW k,
         Popped(ne, e, f - 1, k)
  PROVE  (Undecided(n, f) \o <<f>>) \o Reverse(SubSeq(ne, k + 1, Len(ne))) = Undecided(n, Last(e))
<1>1. PICK m \in Nat : m = Last(e) /\ m \in 0 .. f - 1
  BY DEF Popped
<1>2. PICK l \in Nat : l = Len(ne)
  OBVIOUS
<1>3. /\ k \in Nat /\ f \in Nat /\ k \in 1 .. l /\ l = k + ((f - 1) - m)
      /\ \A j \in k + 1 .. l : ne[j] = m + (j - k)
  BY <1>1, <1>2 DEF Popped
<1>4. PICK c \in Nat : c = (f - 1) - m
  BY <1>1
<1>5. PICK d \in Nat : d = n - f
  OBVIOUS
<1>6. n = d + f /\ f = (m + c) + 1 /\ l = k + c /\ n - m = (d + 1) + c
  BY <1>1, <1>3, <1>4, <1>5
<1>7. PICK v : v = SubSeq(ne, k + 1, l)
  OBVIOUS
<1>8. v \in Seq(Nat) /\ Len(v) = c /\ \A i \in 1 .. c : v[i] = ne[k + i]
  BY <1>2, <1>3, <1>6, <1>7
<1>9. PICK w : w = Reverse(v)
  OBVIOUS
<1>10. w = [i \in 1 .. c |-> v[(c - i) + 1]]
  BY <1>8, <1>9 DEF Reverse
<1>11. \A i \in 1 .. c : v[(c - i) + 1] = f - i
  <2>1. ASSUME NEW i \in 1 .. c PROVE v[(c - i) + 1] = f - i
    <3>1. /\ (c - i) + 1 \in 1 .. c /\ k + ((c - i) + 1) \in k + 1 .. l
          /\ m + ((k + ((c - i) + 1)) - k) = f - i
      BY <1>3, <1>6
    <3> QED
      BY <1>3, <1>8, <3>1
  <2> QED
    BY <2>1
<1>12. w \in Seq(Nat) /\ Len(w) = c /\ \A i \in 1 .. c : w[i] = f - i
  <2>1. w = [i \in 1 .. c |-> f - i]
    BY <1>10, <1>11
  <2>2. \A i \in 1 .. c : f - i \in Nat
    BY <1>6
  <2> QED
    BY <2>1, <2>2
<1>13. PICK u : u = Undecided(n, f)
  OBVIOUS
<1>14. u \in Seq(Nat) /\ Len(u) = d /\ \A i \in 1 .. d : u[i] = (n + 1) - i
  <2>1. u \in Seq(Nat) /\ Len(u) = d
    <3>1. f \in 0 .. n
      BY <1>3
    <3>2. Undecided(n, f) \in Seq(Nat)
      BY <3>1, UndecidedSteps
    <3>3. Len(Undecided(n, f)) = n - f
      BY <3>1, UndecidedSteps
    <3> QED
      BY <1>5, <1>13, <3>2, <3>3
  <2> QED
    BY <1>5, <1>13, <2>1 DEF Undecided
<1>15. PICK z : z = (u \o <<f>>) \o w
  OBVIOUS
<1>16. /\ z \in Seq(Nat) /\ DOMAIN z = 1 .. (d + 1) + c
       /\ \A i \in 1 .. d : z[i] = u[i]
       /\ z[d + 1] = f
       /\ \A i \in 1 .. c : z[(d + 1) + i] = w[i]
  <2>1. PICK y : y = u \o <<f>>
    OBVIOUS
  <2>2. y \in Seq(Nat) /\ Len(y) = d + 1 /\ y[d + 1] = f /\ \A i \in 1 .. d : y[i] = u[i]
    <3>1. y = Append(u, f)
      BY <1>3, <1>14, <2>1
    <3>2. /\ Append(u, f) \in Seq(Nat) /\ Len(Append(u, f)) = d + 1
          /\ Append(u, f)[d + 1] = f /\ \A i \in 1 .. d : Append(u, f)[i] = u[i]
      BY <1>3, <1>14
    <3> QED
      BY <3>1, <3>2
  <2>3. z = y \o w
    BY <1>15, <2>1
  <2>4. z \in Seq(Nat) /\ Len(z) = (d + 1) + c
    BY <1>12, <2>2, <2>3
  <2>5. /\ \A i \in 1 .. d + 1 : z[i] = y[i]
        /\ \A i \in 1 .. c : z[(d + 1) + i] = w[i]
    <3>1. PICK D \in Nat : D = d + 1
      BY <1>14
    <3>2. y \in Seq(Nat) /\ w \in Seq(Nat) /\ Len(y) = D /\ Len(w) = c
      BY <1>12, <2>2, <3>1
    <3>3. \A i \in 1 .. D : z[i] = y[i]
      BY <2>3, <3>2
    <3>4. \A i \in 1 .. c : z[D + i] = w[i]
      BY <2>3, <3>2
    <3> QED
      BY <3>1, <3>3, <3>4
  <2>6. d + 1 \in 1 .. d + 1 /\ \A i \in 1 .. d : i \in 1 .. d + 1
    OBVIOUS
  <2> QED
    BY <2>2, <2>4, <2>5, <2>6
<1>17. ASSUME NEW i \in 1 .. (d + 1) + c PROVE z[i] = (n + 1) - i
  <2>1. CASE i \in 1 .. d
    BY <1>14, <1>16, <2>1
  <2>2. CASE i = d + 1
    BY <1>6, <1>16, <2>2
  <2>3. CASE i \in d + 2 .. (d + 1) + c
    <3>1. PICK j \in 1 .. c : j = i - (d + 1)
      BY <2>3
    <3>2. i = (d + 1) + j
      BY <3>1
    <3>3. z[(d + 1) + j] = w[j] /\ w[j] = f - j
      BY <1>12, <1>16
    <3>4. f - j = (n + 1) - i
      BY <1>6, <3>2
    <3> QED
      BY <3>2, <3>3, <3>4
  <2> QED
    BY <2>1, <2>2, <2>3
<1>18. z = [i \in 1 .. (d + 1) + c |-> z[i]]
  BY <1>16
<1>19. z = Undecided(n, m)
  BY <1>6, <1>17, <1>18 DEF Undecided
<1> QED
  BY <1>1, <1>2, <1>7, <1>9, <1>13, <1>15, <1>19

\* A sequence is its front and its last element.
LEMMA FrontLast ==
  ASSUME NEW s \in Seq(Nat), s # <<>>
  PROVE  /\ Front(s) \in Seq(Nat) /\ s = Append(Front(s), Last(s)) /\ Last(s) \in Nat
         /\ Len(Front(s)) = Len(s) - 1 /\ Last(s) \in ToSet(s)
<1>1. PICK k \in Nat : Len(s) = k + 1
  <2>1. Len(s) \in Nat /\ Len(s) # 0
    OBVIOUS
  <2>2. Len(s) - 1 \in Nat /\ Len(s) = Len(s) - 1 + 1
    BY <2>1
  <2> QED
    BY <2>2
<1>2. PICK e : e = SubSeq(s, 1, k)
  OBVIOUS
<1>3. Front(s) = e /\ Last(s) = s[k + 1] /\ DOMAIN s = 1 .. k + 1 /\ k + 1 \in 1 .. k + 1
  BY <1>1, <1>2 DEF Front, Last
<1>4. s[k + 1] \in Nat /\ s[k + 1] \in ToSet(s)
  BY <1>3 DEF ToSet
<1>5. e \in Seq(Nat) /\ Len(e) = k /\ \A i \in 1 .. k : e[i] = s[i]
  BY <1>1, <1>2
<1>6. PICK z : z = Append(e, s[k + 1])
  OBVIOUS
<1>7. /\ z \in Seq(Nat) /\ Len(z) = k + 1 /\ z[k + 1] = s[k + 1]
      /\ \A i \in 1 .. k : z[i] = e[i]
  BY <1>4, <1>5, <1>6
<1>8. \A i \in 1 .. k + 1 : i \in 1 .. k \/ i = k + 1
  BY <1>1
<1>9. \A i \in 1 .. k + 1 : z[i] = s[i]
  BY <1>5, <1>7, <1>8
<1>10. z = s
  BY <1>1, <1>7, <1>9, SeqEqual
<1> QED
  BY <1>1, <1>3, <1>4, <1>5, <1>6, <1>10

\* What a backtrack, incr_last or the end of the search takes e_last out of.
LEMMA UnejectSteps ==
  ASSUME inst \in Instances, NEW f \in 1 .. Len(inst.r), NEW x,
         Stacked(x, f), Summed(x), x.e # <<>>, Last(x.e) = f
  PROVE  /\ Uneject(x) \in Stacks /\ Summed(Uneject(x))
         /\ Uneject(x).ne = x.ne /\ Uneject(x).e = Front(x.e) /\ Uneject(x).s = x.s
         /\ Uneject(x).incremented_last = x.incremented_last
         /\ Share(x.ne, Front(x.e), f)
<1>1. /\ x \in Stacks /\ Share(x.ne, x.e, f + 1) /\ x.e \in Seq(Nat)
      /\ SumsOf(x.e, x.p_sum, x.total_demand, x.late)
  BY DEF Stacked, Summed, Stacks
<1>2. f \in Nat /\ f # 0
  BY Arguments
<1>3. PICK e : e = Front(x.e)
  OBVIOUS
<1>4. Share(x.ne, e, f)
  <2>1. \/ x.e # <<>> /\ Last(x.e) = f /\ Share(x.ne, Front(x.e), f)
        \/ Last(x.ne) = f /\ Share(Front(x.ne), x.e, f) /\ (x.e # <<>> => Last(x.e) < f)
    BY <1>1, <1>2, ShareLast
  <2>2. ~(f < f)
    BY <1>2
  <2> QED
    BY <1>3, <2>1, <2>2
<1>5. e \in Seq(Nat) /\ x.e = Append(e, f)
  BY <1>1, <1>3, FrontLast
<1>6. /\ inst.ps[inst.r[f]] \in Nat /\ demand_at(f) \in Int /\ late_at(f) \in Nat
      /\ \E a \in Nat, b \in Int, c \in Nat :
           /\ SumsOf(e, a, b, c)
           /\ SumsOf(Append(e, f), a + inst.ps[inst.r[f]], b - demand_at(f), c + late_at(f))
  BY <1>4, SumsPush
<1>7. PICK a \in Nat, b \in Int, c \in Nat :
        /\ SumsOf(e, a, b, c)
        /\ SumsOf(Append(e, f), a + inst.ps[inst.r[f]], b - demand_at(f), c + late_at(f))
  BY <1>6
<1>8. /\ x.p_sum = a + inst.ps[inst.r[f]] /\ x.total_demand = b - demand_at(f)
      /\ x.late = c + late_at(f)
  BY <1>1, <1>5, <1>7 DEF SumsOf
<1>9. PICK dp \in Nat : dp = inst.ps[inst.r[f]]
  BY <1>6
<1>10. PICK dd \in Int : dd = demand_at(f)
  BY <1>6
<1>11. PICK dl \in Nat : dl = late_at(f)
  BY <1>6
<1>12. x.p_sum - dp = a /\ x.total_demand + dd = b /\ x.late - dl = c
  <2>1. x.p_sum = a + dp /\ x.total_demand = b - dd /\ x.late = c + dl
    BY <1>8, <1>9, <1>10, <1>11, Zenon
  <2>2. (a + dp) - dp = a /\ (b - dd) + dd = b /\ (c + dl) - dl = c
    OBVIOUS
  <2> QED
    BY <2>1, <2>2, Zenon
<1>13. PICK y : y = [x EXCEPT !.e = e, !.p_sum = x.p_sum - dp,
                              !.total_demand = x.total_demand + dd, !.late = x.late - dl]
  OBVIOUS
<1>14. Uneject(x) = y
  BY <1>3, <1>9, <1>10, <1>11, <1>13 DEF Uneject
<1>15. /\ y.ne = x.ne /\ y.e = e /\ y.s = x.s /\ y.incremented_last = x.incremented_last
       /\ y.p_sum = a /\ y.total_demand = b /\ y.late = c /\ y \in Stacks
  <2>1. y = [x EXCEPT !.e = e, !.p_sum = a, !.total_demand = b, !.late = c]
    BY <1>12, <1>13
  <2>2. a \in Int /\ b \in Int /\ c \in Int
    OBVIOUS
  <2>3. y \in Stacks
    BY <1>1, <1>5, <2>1, <2>2 DEF Stacks
  <2>4. /\ y.ne = x.ne /\ y.e = e /\ y.s = x.s /\ y.incremented_last = x.incremented_last
        /\ y.p_sum = a /\ y.total_demand = b /\ y.late = c
    BY <1>1, <2>1 DEF Stacks
  <2> QED
    BY <2>3, <2>4
<1>16. Summed(y)
  BY <1>7, <1>15 DEF Summed
<1> QED
  BY <1>3, <1>4, <1>14, <1>15, <1>16

\* incr_k ejects the next node.
LEMMA IncrKSteps ==
  ASSUME inst \in Instances, NEW f \in 1 .. Len(inst.r), NEW x, Stacked(x, f - 1), Summed(x)
  PROVE  /\ Stacked(incr_k(x), f) /\ Summed(incr_k(x))
         /\ Last(x.s) = f /\ Last(incr_k(x).e) = f /\ Last(incr_k(x).s) = f + 1
         /\ incr_k(x).e = Append(x.e, f) /\ incr_k(x).e # <<>> /\ incr_k(x).ne = x.ne
         /\ Len(incr_k(x).e) = Len(x.e) + 1
         /\ incr_k(x).incremented_last = x.incremented_last
<1>1. /\ f \in Nat /\ f - 1 + 1 = f /\ Len(inst.r) \in Nat /\ tail \in Nat
      /\ f - 1 \in 0 .. tail /\ f \in 0 .. tail /\ f - 1 # tail /\ f # tail
  BY Arguments
<1>2. /\ x \in Stacks /\ Share(x.ne, x.e, f) /\ x.e \in Seq(Nat) /\ x.s = Undecided(tail, f - 1)
      /\ SumsOf(x.e, x.p_sum, x.total_demand, x.late)
  BY <1>1 DEF Stacked, Summed, Stacks
<1>3. Last(x.s) = f /\ Front(x.s) = Undecided(tail, f)
  <2>1. /\ Last(Undecided(tail, f - 1)) = f - 1 + 1
        /\ Front(Undecided(tail, f - 1)) = Undecided(tail, f - 1 + 1)
    BY <1>1, UndecidedSteps
  <2> QED
    BY <1>1, <1>2, <2>1
<1>4. Last(Undecided(tail, f)) = f + 1 /\ Undecided(tail, f) \in Seq(Nat)
  BY <1>1, UndecidedSteps
<1>5. /\ inst.ps[inst.r[f]] \in Nat /\ demand_at(f) \in Int /\ late_at(f) \in Nat
      /\ \E a \in Nat, b \in Int, c \in Nat :
           /\ SumsOf(x.e, a, b, c)
           /\ SumsOf(Append(x.e, f), a + inst.ps[inst.r[f]], b - demand_at(f), c + late_at(f))
  BY <1>2, SumsPush
<1>6. SumsOf(Append(x.e, f), x.p_sum + inst.ps[inst.r[f]], x.total_demand - demand_at(f),
             x.late + late_at(f))
  BY <1>2, <1>5 DEF SumsOf
<1>7. PICK dp \in Nat : dp = inst.ps[inst.r[f]]
  BY <1>5
<1>8. PICK dd \in Int : dd = demand_at(f)
  BY <1>5
<1>9. PICK dl \in Nat : dl = late_at(f)
  BY <1>5
<1>10. PICK e : e = Append(x.e, f)
  OBVIOUS
<1>11. e \in Seq(Nat) /\ Len(e) = Len(x.e) + 1 /\ e # <<>> /\ Last(e) = f
  BY <1>1, <1>2, <1>10 DEF Last
<1>12. PICK y : y = [x EXCEPT !.e = e, !.s = Undecided(tail, f), !.p_sum = x.p_sum + dp,
                              !.total_demand = x.total_demand - dd, !.late = x.late + dl]
  OBVIOUS
<1>13. incr_k(x) = y
  BY <1>3, <1>7, <1>8, <1>9, <1>10, <1>12 DEF incr_k
<1>14. /\ y.ne = x.ne /\ y.e = e /\ y.s = Undecided(tail, f)
       /\ y.incremented_last = x.incremented_last
       /\ y.p_sum = x.p_sum + dp /\ y.total_demand = x.total_demand - dd
       /\ y.late = x.late + dl /\ y \in Stacks
  <2>1. x.p_sum \in Int /\ x.total_demand \in Int /\ x.late \in Int
    BY <1>2 DEF Stacks
  <2>2. PICK a \in Int : a = x.p_sum + dp
    BY <2>1
  <2>3. PICK b \in Int : b = x.total_demand - dd
    BY <2>1
  <2>4. PICK c \in Int : c = x.late + dl
    BY <2>1
  <2>5. PICK s \in Seq(Nat) : s = Undecided(tail, f)
    BY <1>4
  <2>6. y = [x EXCEPT !.e = e, !.s = s, !.p_sum = a, !.total_demand = b, !.late = c]
    BY <1>12, <2>2, <2>3, <2>4, <2>5
  <2>7. y \in Stacks
    BY <1>2, <1>11, <2>6 DEF Stacks
  <2>8. /\ y.ne = x.ne /\ y.e = e /\ y.s = s /\ y.incremented_last = x.incremented_last
        /\ y.p_sum = a /\ y.total_demand = b /\ y.late = c
    BY <1>2, <2>6 DEF Stacks
  <2> QED
    BY <2>2, <2>3, <2>4, <2>5, <2>7, <2>8
<1>15. Share(x.ne, e, f + 1)
  BY <1>1, <1>2, <1>10, SharePush
<1>16. Stacked(y, f)
  BY <1>14, <1>15 DEF Stacked
<1>17. Summed(y)
  BY <1>6, <1>7, <1>8, <1>9, <1>10, <1>14 DEF Summed
<1> QED
  BY <1>3, <1>4, <1>10, <1>11, <1>13, <1>14, <1>16, <1>17

\* incr_last keeps e_last.
LEMMA IncrLastSteps ==
  ASSUME inst \in Instances, NEW f \in 1 .. Len(inst.r), NEW x,
         Stacked(x, f), Summed(x), x.e # <<>>, Last(x.e) = f
  PROVE  /\ Stacked(incr_last(x), f) /\ Summed(incr_last(x))
         /\ incr_last(x).ne = Append(x.ne, f) /\ incr_last(x).e = Front(x.e)
<1>1. PICK y : y = Uneject(x)
  OBVIOUS
<1>2. /\ y \in Stacks /\ Summed(y) /\ y.ne = x.ne /\ y.e = Front(x.e) /\ y.s = x.s
      /\ Share(x.ne, Front(x.e), f) /\ x.s = Undecided(tail, f)
  BY <1>1, UnejectSteps DEF Stacked
<1>3. PICK ne : ne = Append(x.ne, f)
  OBVIOUS
<1>4. f \in Nat
  BY Arguments
<1>5. Share(ne, Front(x.e), f + 1)
  BY <1>2, <1>3, <1>4, SharePush
<1>6. PICK z : z = [y EXCEPT !.ne = ne, !.incremented_last = TRUE]
  OBVIOUS
<1>7. incr_last(x) = z
  BY <1>1, <1>2, <1>3, <1>6 DEF incr_last
<1>8. ne \in Seq(Nat)
  BY <1>5 DEF Share
<1>9. /\ z \in Stacks /\ z.ne = ne /\ z.e = y.e /\ z.s = y.s /\ z.p_sum = y.p_sum
      /\ z.total_demand = y.total_demand /\ z.late = y.late
  BY <1>2, <1>6, <1>8 DEF Stacks
<1>10. Stacked(z, f)
  BY <1>2, <1>5, <1>9 DEF Stacked
<1>11. Summed(z)
  BY <1>2, <1>9 DEF Summed
<1> QED
  BY <1>2, <1>3, <1>7, <1>9, <1>10, <1>11

\* backtrack: the nodes behind the new e_last are undecided again.
LEMMA BacktrackSteps ==
  ASSUME inst \in Instances, NEW f \in 1 .. Len(inst.r), NEW x,
         Stacked(x, f), Summed(x), x.e # <<>>, Last(x.e) = f, Front(x.e) # <<>>
  PROVE  \E m \in 1 .. f - 1 :
           /\ Stacked(backtrack(x), m) /\ Summed(backtrack(x))
           /\ backtrack(x).e = Front(x.e) /\ Last(Front(x.e)) = m
           /\ ToSet(backtrack(x).ne) = {i \in ToSet(x.ne) : i < m}
<1>1. PICK y : y = Uneject(x)
  OBVIOUS
<1>2. /\ y \in Stacks /\ Summed(y) /\ y.ne = x.ne /\ y.e = Front(x.e) /\ y.s = x.s
      /\ Share(x.ne, Front(x.e), f) /\ x.s = Undecided(tail, f)
  BY <1>1, UnejectSteps DEF Stacked
<1>3. f \in Nat /\ f - 1 \in Nat /\ f - 1 + 1 = f /\ tail \in Nat /\ f \in 1 .. tail
  BY Arguments
<1>4. PICK k : k = Remaining(x.ne, Last(y.e))
  OBVIOUS
<1>5. Share(x.ne, y.e, f - 1 + 1) /\ y.e # <<>>
  BY <1>2, <1>3
<1>6. Popped(x.ne, y.e, f - 1, k)
  BY <1>3, <1>4, <1>5, ShareRemaining
<1>7. PICK m \in Nat : m = Last(y.e) /\ m \in 0 .. f - 1
  BY <1>3, <1>6 DEF Popped
<1>8. PICK ne : ne = SubSeq(x.ne, 1, k)
  OBVIOUS
<1>9. Share(ne, Front(y.e), m)
  BY <1>6, <1>7, <1>8 DEF Popped
<1>10. y.e \in Seq(Nat) /\ Increasing(y.e) /\ Len(y.e) \in Nat /\ Len(y.e) # 0 /\ x.ne \in Seq(Nat)
  BY <1>5 DEF Share
<1>11. m \in ToSet(y.e) /\ m # 0 /\ m \in 1 .. f - 1
  <2>1. m \in ToSet(y.e)
    BY <1>7, <1>10 DEF Last, ToSet
  <2>2. 0 \in ToSet(x.ne)
    <3>1. x.ne # <<>> /\ x.ne[1] = 0
      BY <1>5 DEF Share
    <3>2. Len(x.ne) \in Nat /\ Len(x.ne) # 0
      BY <1>10, <3>1
    <3>3. 1 \in DOMAIN x.ne
      BY <1>10, <3>2
    <3> QED
      BY <3>1, <3>3 DEF ToSet
  <2>3. m # 0
    BY <1>5, <2>1, <2>2 DEF Share
  <2> QED
    BY <1>3, <1>7, <2>1, <2>3
<1>12. Share(ne, y.e, m + 1)
  <2>1. Share(ne, Append(Front(y.e), m), m + 1)
    BY <1>9, SharePush
  <2>2. Append(Front(y.e), m) = y.e
    <3>1. y.e \in Seq(Nat) /\ y.e # <<>>
      BY <1>5, <1>10
    <3> QED
      BY <1>7, <3>1, FrontLast
  <2> QED
    BY <2>1, <2>2
<1>13. (Undecided(tail, f) \o <<f>>) \o Reverse(SubSeq(x.ne, k + 1, Len(x.ne))) = Undecided(tail, m)
  <2>1. tail \in Nat /\ f \in 1 .. tail /\ x.ne \in Seq(Nat)
    BY <1>3, <1>10
  <2>2. (Undecided(tail, f) \o <<f>>) \o Reverse(SubSeq(x.ne, k + 1, Len(x.ne)))
          = Undecided(tail, Last(y.e))
    <3>1. PICK e : e = y.e
      OBVIOUS
    <3>2. PICK nodes : nodes = x.ne
      OBVIOUS
    <3>3. PICK n : n = tail
      OBVIOUS
    <3>4. n \in Nat /\ f \in 1 .. n /\ nodes \in Seq(Nat) /\ Popped(nodes, e, f - 1, k)
      BY <1>6, <2>1, <3>1, <3>2, <3>3, Zenon
    <3>5. (Undecided(n, f) \o <<f>>) \o Reverse(SubSeq(nodes, k + 1, Len(nodes)))
            = Undecided(n, Last(e))
      BY <3>4, UndecidedAgain
    <3> QED
      BY <3>1, <3>2, <3>3, <3>5, Zenon
  <2> QED
    BY <1>7, <2>2
<1>14. PICK z : z = [y EXCEPT !.ne = ne, !.s = Undecided(tail, m)]
  OBVIOUS
<1>15. backtrack(x) = z
  BY <1>1, <1>2, <1>4, <1>8, <1>13, <1>14 DEF backtrack
<1>16. ne \in Seq(Nat) /\ Undecided(tail, m) \in Seq(Nat)
  <2>1. m \in 0 .. tail
    BY <1>3, <1>7
  <2> QED
    BY <1>3, <1>12, <2>1, UndecidedSteps DEF Share
<1>17. /\ z \in Stacks /\ z.ne = ne /\ z.e = y.e /\ z.s = Undecided(tail, m) /\ z.p_sum = y.p_sum
       /\ z.total_demand = y.total_demand /\ z.late = y.late
  BY <1>2, <1>14, <1>16 DEF Stacks
<1>18. Stacked(z, m)
  BY <1>12, <1>17 DEF Stacked
<1>19. Summed(z)
  BY <1>2, <1>17 DEF Summed
<1>20. ToSet(ne) = {i \in ToSet(x.ne) : i < m}
  <2>1. /\ k \in 1 .. Len(x.ne) /\ \A j \in k + 1 .. Len(x.ne) : x.ne[j] = m + (j - k)
    BY <1>6, <1>7 DEF Popped
  <2>2. PICK l \in Nat : l = Len(x.ne) /\ DOMAIN x.ne = 1 .. l
    BY <1>10
  <2>3. k \in Nat /\ k <= l /\ DOMAIN ne = 1 .. k /\ \A j \in 1 .. k : ne[j] = x.ne[j] /\ j \in 1 .. l
    BY <1>8, <1>10, <2>1, <2>2
  <2>4. \A i \in ToSet(ne) : i \in 0 .. m - 1
    BY <1>9 DEF Share
  <2>5. \A i \in ToSet(ne) : i \in ToSet(x.ne) /\ i < m
    <3>1. ASSUME NEW i \in ToSet(ne) PROVE i \in ToSet(x.ne)
      <4>1. PICK j \in 1 .. k : ne[j] = i
        BY <2>3, <3>1 DEF ToSet
      <4>2. x.ne[j] = i /\ j \in DOMAIN x.ne
        BY <2>2, <2>3, <4>1
      <4> QED
        BY <4>2 DEF ToSet
    <3>2. \A i \in 0 .. m - 1 : i < m
      BY <1>7
    <3> QED
      BY <2>4, <3>1, <3>2
  <2>6. ASSUME NEW i \in ToSet(x.ne), i < m PROVE i \in ToSet(ne)
    <3>1. PICK j \in 1 .. l : x.ne[j] = i
      BY <2>2 DEF ToSet
    <3>2. CASE j \in 1 .. k
      BY <2>3, <3>1, <3>2 DEF ToSet
    <3>3. CASE j \in k + 1 .. l
      <4>1. i = m + (j - k) /\ j - k \in Nat
        BY <2>1, <2>2, <2>3, <3>1, <3>3
      <4> QED
        BY <1>7, <2>6, <4>1
    <3> QED
      BY <2>3, <3>1, <3>2, <3>3
  <2> QED
    BY <2>5, <2>6
<1> QED
  BY <1>2, <1>7, <1>8, <1>11, <1>15, <1>17, <1>18, <1>19, <1>20
-----------------------------------------------------------------------------
(***************************************************************************)
(* The times when the cursor moves.                                        *)
(***************************************************************************)

\* The times up to index h are those of any kept set that is the same before h.
LEMMA TimedAgain ==
  ASSUME NEW p, NEW r, NEW at, NEW ae, NEW K, NEW L, NEW g \in Nat, NEW h \in 0 .. g,
         Timed(p, r, at, ae, K, g), K \subseteq Int, L \subseteq Int,
         \A x \in Int : x < h => (x \in K <=> x \in L)
  PROVE  Timed(p, r, at, ae, L, h)
<1>1. ASSUME NEW i \in 1 .. h, NEW m \in L, Before(L, m, i) PROVE TimedAt(p, r, at, ae, m, i)
  <2>1. i \in Int /\ i <= h /\ i \in 1 .. g /\ m \in Int /\ m < i
    BY <1>1 DEF Before
  <2>2. m \in K
    BY <2>1
  <2>3. \A x \in K : x < i => x \in L
    BY <2>1
  <2>4. Before(K, m, i)
    BY <1>1, <2>2, <2>3 DEF Before
  <2> QED
    BY <2>1, <2>2, <2>4 DEF Timed
<1> QED
  BY <1>1 DEF Timed

\* bt and be are at and ae with f and the next node reached from m.
Advances(p, r, at, ae, m, f, bt, be) ==
  /\ be = [i \in 0 .. Len(r) + 1 |->
             IF i \in {f, f + 1} THEN EarliestFrom(p, r, at, m, i) ELSE ae[i]]
  /\ bt = [i \in 0 .. Len(r) + 1 |->
             IF i \in {f, f + 1} THEN MIN(EarliestFrom(p, r, at, m, i), p.l[Id(r, i)]) ELSE at[i]]

\* Index f and the next one are reached from the last kept node before them.
LEMMA TimedGoto ==
  ASSUME NEW p, NEW r, RouteOf(p, r), NEW f \in 1 .. Len(r), NEW ne, NEW e,
         Share(ne, e, f + 1), f \in ToSet(e),
         NEW at, NEW ae, Timed(p, r, at, ae, ToSet(ne), f - 1),
         NEW bt, NEW be, Advances(p, r, at, ae, Last(ne), f, bt, be)
  PROVE  /\ Timed(p, r, bt, be, ToSet(ne), f + 1)
         /\ \A m \in ToSet(ne) : m \in 0 .. f - 1 /\ be[m] = ae[m]
         /\ Last(ne) \in ToSet(ne)
<1>1. PICK m \in Nat : m = Len(r)
  BY NodeData
<1>2. f \in Nat /\ f \in 1 .. m /\ f \in 0 .. m + 1 /\ f + 1 \in 0 .. m + 1
  BY <1>1
<1> DEFINE K == ToSet(ne)
<1>3. \A x \in K : x \in 0 .. f - 1 /\ x \in 0 .. m + 1 /\ x # f /\ x # f + 1
  <2>1. \A x \in K : x \in 0 .. f /\ x # f
    BY <1>2 DEF Share
  <2> QED
    BY <1>2, <2>1
<1>4. PICK l : l = Last(ne)
  OBVIOUS
<1>5. l \in K /\ \A x \in K : x <= l
  <2>1. ne \in Seq(Nat) /\ ne # <<>> /\ Increasing(ne)
    BY DEF Share
  <2>2. PICK k \in Nat : k = Len(ne)
    BY <2>1
  <2>3. k # 0 /\ k \in 1 .. k /\ DOMAIN ne = 1 .. k /\ l = ne[k] /\ \A i \in 1 .. k : ne[i] \in Nat
    BY <1>4, <2>1, <2>2 DEF Last
  <2>4. \A i \in 1 .. k : i = k \/ i < k
    BY <2>2
  <2>5. \A i \in 1 .. k : ne[i] <= l
    <3>1. ASSUME NEW i \in 1 .. k PROVE ne[i] <= l
      <4>1. CASE i = k
        BY <2>3, <4>1
      <4>2. CASE i < k
        <5>1. ne[i] < ne[k]
          BY <2>1, <2>3, <4>2 DEF Increasing
        <5> QED
          BY <2>3, <5>1
      <4> QED
        BY <2>4, <4>1, <4>2
    <3> QED
      BY <3>1
  <2> QED
    BY <2>3, <2>5 DEF ToSet
<1>6. /\ at \in [0 .. m + 1 -> Int] /\ ae \in [0 .. m + 1 -> Int] /\ at[0] = p.e[0]
      /\ \A i \in 1 .. f - 1 : \A x \in K : Before(K, x, i) => TimedAt(p, r, at, ae, x, i)
  BY <1>1 DEF Timed
<1>7. \A i \in {f, f + 1} : EarliestFrom(p, r, at, l, i) \in Int /\ p.l[Id(r, i)] \in Int
  <2>1. ASSUME NEW i \in {f, f + 1} PROVE EarliestFrom(p, r, at, l, i) \in Int /\ p.l[Id(r, i)] \in Int
    <3>1. i \in 0 .. m + 1 /\ l \in 0 .. m + 1
      BY <1>2, <1>3, <1>5
    <3>2. Id(r, i) \in 0 .. p.n /\ Id(r, l) \in 0 .. p.n
      BY <1>1, <3>1, RouteLegs
    <3>3. p.e[Id(r, i)] \in Int /\ p.l[Id(r, i)] \in Int /\ Leg(p, Id(r, l), Id(r, i)) \in Int
      BY <3>2, NodeData
    <3>4. at[l] \in Int
      BY <1>6, <3>1
    <3> QED
      BY <3>3, <3>4 DEF EarliestFrom, MAX
  <2> QED
    BY <2>1
<1>8. be \in [0 .. m + 1 -> Int] /\ bt \in [0 .. m + 1 -> Int]
  <2>1. \A i \in {f, f + 1} : MIN(EarliestFrom(p, r, at, l, i), p.l[Id(r, i)]) \in Int
    BY <1>7 DEF MIN
  <2> QED
    BY <1>1, <1>4, <1>6, <1>7, <2>1 DEF Advances
<1>9. /\ \A i \in 0 .. m + 1 : i \notin {f, f + 1} => be[i] = ae[i] /\ bt[i] = at[i]
      /\ \A i \in {f, f + 1} : /\ be[i] = EarliestFrom(p, r, at, l, i)
                               /\ bt[i] = MIN(be[i], p.l[Id(r, i)])
  BY <1>1, <1>2, <1>4 DEF Advances
<1>10. \A x \in K : be[x] = ae[x] /\ bt[x] = at[x]
  BY <1>3, <1>9
<1>11. bt[0] = p.e[0]
  <2>1. 0 \in 0 .. m + 1 /\ 0 \notin {f, f + 1}
    BY <1>2
  <2> QED
    BY <1>6, <1>9, <2>1
<1>12. ASSUME NEW i \in 1 .. f + 1, NEW x \in K, Before(K, x, i)
       PROVE  TimedAt(p, r, bt, be, x, i)
  <2>1. CASE i \in 1 .. f - 1
    <3>1. TimedAt(p, r, at, ae, x, i)
      BY <1>6, <1>12, <2>1
    <3>2. be[i] = ae[i] /\ bt[i] = at[i] /\ bt[x] = at[x]
      <4>1. i \in 0 .. m + 1 /\ i \notin {f, f + 1}
        BY <1>2, <2>1
      <4> QED
        BY <1>9, <1>10, <4>1
    <3> QED
      BY <3>1, <3>2 DEF TimedAt, EarliestFrom
  <2>2. CASE i \in {f, f + 1}
    <3>1. x = l
      <4>1. l < i
        BY <1>2, <1>3, <1>5, <2>2
      <4>2. l <= x /\ x <= l
        BY <1>5, <1>12, <4>1 DEF Before
      <4> QED
        BY <1>3, <1>5, <4>2
    <3>2. EarliestFrom(p, r, bt, x, i) = EarliestFrom(p, r, at, l, i)
      BY <1>10, <3>1 DEF EarliestFrom
    <3> QED
      BY <1>9, <2>2, <3>2 DEF TimedAt
  <2> QED
    BY <1>2, <2>1, <2>2
<1>13. Timed(p, r, bt, be, K, f + 1)
  BY <1>1, <1>8, <1>11, <1>12 DEF Timed
<1> QED
  BY <1>3, <1>4, <1>5, <1>10, <1>13
-----------------------------------------------------------------------------
(***************************************************************************)
(* The inductive invariant.  Where the search is under way, f is the last  *)
(* ejected node, the times are those of its kept nodes up to f + 1, and no *)
(* kept node is late, but for the one before f: that one was last when b)  *)
(* found it late, and the search backtracks.                               *)
(***************************************************************************)
OnlyLastLate(K, ae, f) == \A m \in K \ {0} : m + 1 = f \/ ae[m] <= l_at(m)

Cursor(f) ==
  /\ f \in 1 .. Len(inst.r) /\ st.e # <<>> /\ Last(st.e) = f
  /\ Stacked(st, f) /\ Summed(st) /\ Len(st.e) <= inst.k_max
  /\ Timed(inst.p, inst.r, a_temp, a_earliest_temp, ToSet(st.ne), f + 1)
  /\ OnlyLastLate(ToSet(st.ne), a_earliest_temp, f)
  /\ pc # "backtrack" => KeptOnTime(inst.p, inst.r, a_earliest_temp, st.ne)

Types ==
  /\ inst \in Instances
  /\ pc \in {"start", "test", "yield", "branch", "backtrack", "dead"}
  /\ st \in Stacks
  /\ a_temp \in [0 .. tail -> Int] /\ a_earliest_temp \in [0 .. tail -> Int]
  /\ p_best \in Nat

Fresh == Stacked(st, 0) /\ Summed(st) /\ st.e = <<>> /\ a_temp[0] = inst.p.e[0]

Yields ==
  /\ FeasibleEjection(inst.p, inst.r, st.e)
  /\ p_best = PSum(inst.ps, Ejected(inst.r, st.e))

SearchInv ==
  /\ Types
  /\ pc = "start" => Fresh
  /\ Searching => \E f \in Nat : Cursor(f)
  /\ pc = "yield" => Yields

\* The node that is decided next.
LEMMA NextUndecided ==
  ASSUME inst \in Instances, NEW f \in 0 .. Len(inst.r), NEW x, Stacked(x, f)
  PROVE  Last(x.s) = f + 1 /\ (Last(x.s) # tail => f + 1 \in 1 .. Len(inst.r))
<1>1. Len(inst.r) \in Nat /\ tail = Len(inst.r) + 1 /\ tail \in Nat /\ f \in 0 .. tail /\ f # tail
  BY Arguments
<1>2. Last(Undecided(tail, f)) = f + 1
  BY <1>1, UndecidedSteps
<1>3. Last(x.s) = f + 1
  BY <1>2 DEF Stacked
<1> QED
  BY <1>1, <1>3

\* Every move of the cursor to f leaves it there, with its times.
LEMMA GotoSteps ==
  ASSUME Types, NEW f \in 1 .. Len(inst.r), NEW x,
         Stacked(x, f), Summed(x), Last(x.e) = f, x.e # <<>>, Last(x.s) = f + 1,
         Len(x.e) <= inst.k_max,
         Timed(inst.p, inst.r, a_temp, a_earliest_temp, ToSet(x.ne), f - 1),
         OnlyLastLate(ToSet(x.ne), a_earliest_temp, f),
         Goto(x)
  PROVE  Types' /\ Cursor(f)' /\ pc' \in {"test", "backtrack"}
<1>1. inst \in Instances /\ RouteOf(inst.p, inst.r) /\ tail = Len(inst.r) + 1 /\ Len(inst.r) \in Nat
  BY Arguments DEF Types
<1>2. PICK p : p = inst.p
  OBVIOUS
<1>3. PICK r : r = inst.r
  OBVIOUS
<1>4. PICK n : n = Last(x.ne)
  OBVIOUS
<1>5. PICK at : at = a_temp
  OBVIOUS
<1>6. PICK ae : ae = a_earliest_temp
  OBVIOUS
<1>7. PICK K : K = ToSet(x.ne)
  OBVIOUS
<1>8. PICK be : be = [i \in 0 .. Len(r) + 1 |->
                        IF i \in {f, f + 1} THEN EarliestFrom(p, r, at, n, i) ELSE ae[i]]
  OBVIOUS
<1>9. PICK bt : bt = [i \in 0 .. Len(r) + 1 |->
                        IF i \in {f, f + 1}
                        THEN MIN(EarliestFrom(p, r, at, n, i), p.l[Id(r, i)])
                        ELSE at[i]]
  OBVIOUS
<1>10. /\ st' = x /\ inst' = inst /\ p_best' = p_best
       /\ a_earliest_temp' = be /\ a_temp' = bt
       /\ pc' = IF Pruned(x, be) THEN "backtrack" ELSE "test"
  <2>1. \A i : EarliestAfter(x, i) = EarliestFrom(p, r, at, n, i) /\ l_at(i) = p.l[Id(r, i)]
    BY <1>2, <1>3, <1>4, <1>5 DEF EarliestAfter, EarliestFrom, e_at, l_at
  <2>2. a_earliest_temp' = be
    BY <1>1, <1>3, <1>6, <1>8, <2>1 DEF Goto
  <2>3. a_temp' = bt
    BY <1>1, <1>3, <1>5, <1>9, <2>1 DEF Goto
  <2> QED
    BY <2>2, <2>3 DEF Goto
<1>11. Share(x.ne, x.e, f + 1) /\ f \in ToSet(x.e) /\ x \in Stacks /\ 0 \in Nat
  <2>1. x \in Stacks /\ x.e \in Seq(Nat)
    BY DEF Stacked, Stacks
  <2> QED
    BY <2>1, FrontLast DEF Stacked
<1>12. /\ Timed(p, r, bt, be, K, f + 1) /\ n \in K
       /\ \A m \in K : m \in 0 .. f - 1 /\ be[m] = ae[m]
  <2>1. Timed(p, r, at, ae, ToSet(x.ne), f - 1)
    BY <1>2, <1>3, <1>5, <1>6
  <2>2. RouteOf(p, r) /\ f \in 1 .. Len(r)
    BY <1>1, <1>2, <1>3
  <2>3. Advances(p, r, at, ae, Last(x.ne), f, bt, be)
    BY <1>4, <1>8, <1>9 DEF Advances
  <2>4. PICK ne : ne = x.ne
    OBVIOUS
  <2>5. PICK e : e = x.e
    OBVIOUS
  <2>6. /\ Share(ne, e, f + 1) /\ f \in ToSet(e) /\ Timed(p, r, at, ae, ToSet(ne), f - 1)
        /\ Advances(p, r, at, ae, Last(ne), f, bt, be)
    BY <1>11, <2>1, <2>3, <2>4, <2>5, Zenon
  <2>7. Timed(p, r, bt, be, ToSet(ne), f + 1)
    BY <2>2, <2>6, TimedGoto
  <2>8. \A m \in ToSet(ne) : m \in 0 .. f - 1 /\ be[m] = ae[m]
    BY <2>2, <2>6, TimedGoto
  <2>9. Last(ne) \in ToSet(ne)
    BY <2>2, <2>6, TimedGoto
  <2> QED
    BY <1>4, <1>7, <2>4, <2>7, <2>8, <2>9
<1>13. bt \in [0 .. tail -> Int] /\ be \in [0 .. tail -> Int]
  BY <1>1, <1>3, <1>12 DEF Timed
<1>14. \A m \in K \ {0} : m + 1 = f \/ be[m] <= p.l[Id(r, m)]
  BY <1>2, <1>3, <1>6, <1>7, <1>12 DEF OnlyLastLate, l_at
<1>15. ASSUME ~Pruned(x, be) PROVE \A m \in K \ {0} : be[m] <= p.l[Id(r, m)]
  <2>1. ~(p.l[Id(r, n)] < be[n])
    BY <1>2, <1>3, <1>4, <1>15 DEF Pruned, l_at
  <2>2. be[n] \in Int /\ p.l[Id(r, n)] \in Int
    <3>1. n \in 0 .. Len(r) + 1
      BY <1>1, <1>3, <1>12
    <3>2. RouteOf(p, r) /\ Id(r, n) \in 0 .. p.n
      BY <1>1, <1>2, <1>3, <3>1, RouteLegs
    <3>3. p.l[Id(r, n)] \in Int
      BY <3>2, NodeData
    <3> QED
      BY <1>12, <3>1, <3>3 DEF Timed
  <2>3. be[n] <= p.l[Id(r, n)]
    BY <2>1, <2>2
  <2>4. ASSUME NEW m \in K \ {0}, m + 1 = f PROVE m = n
    <3>1. m \in Int /\ n \in Int
      BY <1>12, <2>4
    <3>2. CASE x.ne = <<>>
      BY <1>11, <3>2 DEF Share
    <3>3. PICK s \in Seq(Nat) : s = x.ne /\ Increasing(s)
      BY <1>11 DEF Share
    <3>4. PICK k \in Nat : k = Len(s)
      OBVIOUS
    <3>5. PICK i \in 1 .. k : s[i] = m
      BY <1>7, <2>4, <3>3, <3>4 DEF ToSet
    <3>6. CASE i < k
      <4>1. s[i] < s[k] /\ s[k] = n
        BY <1>4, <3>3, <3>4, <3>6 DEF Increasing, Last
      <4>2. n \in 0 .. f - 1
        BY <1>12
      <4> QED
        BY <2>4, <3>1, <3>5, <4>1, <4>2
    <3>7. CASE i = k
      BY <1>4, <3>3, <3>4, <3>5, <3>7 DEF Last
    <3> QED
      BY <3>6, <3>7
  <2> QED
    BY <1>14, <2>3, <2>4
<1>16. Types'
  <2>1. inst' \in Instances /\ st' \in Stacks /\ p_best' \in Nat /\ tail' = tail
    BY <1>1, <1>10, <1>11 DEF Types, tail
  <2>2. pc' \in {"start", "test", "yield", "branch", "backtrack", "dead"}
    BY <1>10
  <2> QED
    BY <1>10, <1>13, <2>1, <2>2 DEF Types
<1>17. Stacked(st, f)' /\ Summed(st)'
  <2>1. tail' = tail
    BY <1>10 DEF tail
  <2>2. Stacked(st, f)'
    BY <1>10, <2>1 DEF Stacked
  <2>3. Summed(st)'
    BY <1>10 DEF Summed, SumsOf
  <2> QED
    BY <2>2, <2>3
<1>18. OnlyLastLate(ToSet(st.ne), a_earliest_temp, f)'
  <2>1. \A m \in ToSet(x.ne) \ {0} : m + 1 = f \/ be[m] <= inst.p.l[Id(inst.r, m)]
    BY <1>2, <1>3, <1>7, <1>14
  <2> QED
    BY <1>10, <2>1 DEF OnlyLastLate, l_at
<1>19. (pc # "backtrack" => KeptOnTime(inst.p, inst.r, a_earliest_temp, st.ne))'
  <2>1. pc' # "backtrack" => \A m \in ToSet(x.ne) \ {0} : be[m] <= inst.p.l[Id(inst.r, m)]
    BY <1>2, <1>3, <1>7, <1>10, <1>15
  <2>2. pc' # "backtrack" => KeptOnTime(inst.p, inst.r, be, x.ne)
    BY <2>1 DEF KeptOnTime
  <2> QED
    BY <1>10, <2>2
<1>20. Timed(inst.p, inst.r, a_temp, a_earliest_temp, ToSet(st.ne), f + 1)'
  <2>1. Timed(inst.p, inst.r, bt, be, ToSet(x.ne), f + 1)
    BY <1>2, <1>3, <1>7, <1>12
  <2> QED
    BY <1>10, <2>1
<1>21. (f \in 1 .. Len(inst.r) /\ st.e # <<>> /\ Last(st.e) = f /\ Len(st.e) <= inst.k_max)'
  BY <1>10
<1> QED
  BY <1>10, <1>16, <1>17, <1>18, <1>19, <1>20, <1>21 DEF Cursor

\* The search starts with nothing decided.
LEMMA InitInv == Init => SearchInv
<1> SUFFICES ASSUME Init PROVE SearchInv
  OBVIOUS
<1>1. /\ inst \in Instances /\ RouteOf(inst.p, inst.r) /\ inst.p_best \in Nat
      /\ Len(inst.r) \in Nat /\ tail = Len(inst.r) + 1 /\ tail \in Nat
  BY Arguments DEF Init
<1>2. PICK t \in Stale : a_temp = [i \in 0 .. tail |-> IF i = 0 THEN inst.p.e[0] ELSE t]
  BY DEF Init
<1>3. t \in Int /\ inst.p.e[0] \in Int
  BY <1>1, StaleAssumption, NodeData
<1>4. a_temp \in [0 .. tail -> Int] /\ a_temp[0] = inst.p.e[0] /\ a_earliest_temp = a_temp
  BY <1>1, <1>2, <1>3 DEF Init
<1>5. Share(<<0>>, <<>>, 0 + 1)
  <2>1. PICK s : s = <<0>>
    OBVIOUS
  <2>2. s \in Seq(Nat) /\ DOMAIN s = {1} /\ s[1] = 0 /\ s # <<>>
    BY <2>1
  <2>3. ToSet(s) = {0}
    BY <2>2 DEF ToSet
  <2>4. PICK e : e = <<>>
    OBVIOUS
  <2>5. e \in Seq(Nat) /\ DOMAIN e = {}
    BY <2>4
  <2>6. ToSet(e) = {} /\ Increasing(e) /\ Increasing(s)
    BY <2>2, <2>5 DEF ToSet, Increasing
  <2>7. 0 .. 0 + 1 - 1 = {0}
    OBVIOUS
  <2> QED
    BY <2>1, <2>2, <2>3, <2>4, <2>5, <2>6, <2>7 DEF Share
<1>6. Reverse([i \in 1 .. tail |-> i]) = Undecided(tail, 0) /\ Undecided(tail, 0) \in Seq(Nat)
  <2>1. 0 \in 0 .. tail
    BY <1>1
  <2>2. Undecided(tail, 0) = Reverse([i \in 1 .. tail - 0 |-> 0 + i])
    BY <1>1, <2>1, UndecidedSteps
  <2>3. tail - 0 = tail /\ [i \in 1 .. tail |-> 0 + i] = [i \in 1 .. tail |-> i]
    BY <1>1
  <2>4. Undecided(tail, 0) \in Seq(Nat)
    BY <1>1, <2>1, UndecidedSteps
  <2> QED
    BY <2>2, <2>3, <2>4
<1>7. PICK b \in Int : b = PrefixDemand(inst.p, inst.r)[tail]
  <2>1. PrefixDemand(inst.p, inst.r) \in [0 .. Len(inst.r) + 1 -> Int]
    BY <1>1, PrefixDemandSteps
  <2> QED
    BY <1>1, <2>1
<1>8. st = [ne |-> <<0>>, e |-> <<>>, s |-> Undecided(tail, 0), p_sum |-> 0, total_demand |-> b,
            late |-> 0, incremented_last |-> FALSE]
  BY <1>6, <1>7 DEF Init
<1>9. st \in Stacks
  <2>1. <<0>> \in Seq(Nat) /\ <<>> \in Seq(Nat)
    BY <1>5 DEF Share
  <2> QED
    BY <1>6, <1>8, <2>1 DEF Stacks
<1>10. Stacked(st, 0)
  BY <1>5, <1>8, <1>9 DEF Stacked
<1>11. Summed(st)
  <2>1. PSum(inst.ps, Ejected(inst.r, <<>>)) = 0
    <3>1. PICK cs : cs = Ejected(inst.r, <<>>)
      OBVIOUS
    <3>2. DOMAIN cs = {} /\ cs = <<>> /\ Len(cs) = 0
      BY <3>1 DEF Ejected
    <3>3. PICK g : g = [k \in 0 .. 0 |-> 0]
      OBVIOUS
    <3>4. g[0] = 0 /\ \A k \in 1 .. Len(cs) : FALSE
      BY <3>2, <3>3
    <3>5. Adds(g, inst.ps, cs)
      BY <3>4 DEF Adds
    <3>6. cs \in Seq(1 .. inst.p.n) /\ inst.ps \in [1 .. inst.p.n -> Nat]
      BY <1>1, <3>2, Arguments
    <3>7. PICK ps : ps = inst.ps
      OBVIOUS
    <3>8. PSum(ps, cs) = g[Len(cs)]
      BY <3>5, <3>6, <3>7, PSumAdds
    <3> QED
      BY <3>1, <3>2, <3>4, <3>7, <3>8
  <2>2. Rest(inst.r, <<>>) = inst.r
    <3>1. PICK x : x = <<>>
      OBVIOUS
    <3>2. Len(x) = 0 /\ DOMAIN x = {} /\ x \in [1 .. 0 -> 1 .. Len(inst.r)]
      BY <3>1
    <3>3. Picked(inst.r, x, 0) /\ inst.r \in Seq(1 .. inst.p.n)
      BY <1>1, <3>2, Arguments DEF Picked
    <3> QED
      BY <3>1, <3>3, RestSmall
  <2>3. ToSet(<<>>) \cap Late(inst.p, inst.r) = {}
    BY DEF ToSet
  <2>4. Cardinality({}) = 0
    BY FS_EmptySet
  <2> QED
    BY <1>1, <1>7, <1>8, <2>1, <2>2, <2>3, <2>4 DEF Summed, SumsOf, Load
<1>12. pc = "start" /\ p_best \in Nat
  BY <1>1 DEF Init
<1>13. Fresh
  BY <1>4, <1>8, <1>10, <1>11 DEF Fresh
<1> QED
  BY <1>1, <1>4, <1>9, <1>12, <1>13 DEF SearchInv, Types, Searching
-----------------------------------------------------------------------------
(***************************************************************************)
(* The lexicographic order.                                                *)
(***************************************************************************)

\* A larger element after the same ones.
LEMMA LexLarger ==
  ASSUME NEW s \in Seq(Nat), NEW t \in Seq(Nat), NEW i \in Nat,
         i \in 1 .. Len(s), i \in 1 .. Len(t), s[i] < t[i], \A k \in 1 .. i - 1 : s[k] = t[k]
  PROVE  LexicographicallyBefore(s, t)
<1>1. i \in DOMAIN s \cap DOMAIN t
  OBVIOUS
<1>2. PICK n \in Nat : n = i - 1
  OBVIOUS
<1>3. PICK u : u = SubSeq(s, 1, n)
  OBVIOUS
<1>4. PICK v : v = SubSeq(t, 1, n)
  OBVIOUS
<1>5. u \in Seq(Nat) /\ Len(u) = n /\ \A k \in 1 .. n : u[k] = s[k]
  BY <1>2, <1>3
<1>6. v \in Seq(Nat) /\ Len(v) = n /\ \A k \in 1 .. n : v[k] = t[k]
  BY <1>2, <1>4
<1>7. u = v
  BY <1>2, <1>5, <1>6, SeqEqual
<1> QED
  BY <1>1, <1>2, <1>3, <1>4, <1>7 DEF LexicographicallyBefore

\* One more element.
LEMMA LexLonger ==
  ASSUME NEW s \in Seq(Nat), NEW m \in Nat
  PROVE  LexicographicallyBefore(s, Append(s, m))
<1>1. PICK n \in Nat : n = Len(s)
  OBVIOUS
<1>2. PICK t : t = Append(s, m)
  OBVIOUS
<1>3. t \in Seq(Nat) /\ Len(t) = n + 1 /\ \A k \in 1 .. n : t[k] = s[k]
  BY <1>1, <1>2
<1>4. PICK u : u = SubSeq(t, 1, n)
  OBVIOUS
<1>5. u \in Seq(Nat) /\ Len(u) = n /\ \A k \in 1 .. n : u[k] = t[k]
  BY <1>3, <1>4
<1>6. u = s
  BY <1>1, <1>3, <1>5, SeqEqual
<1>7. n < n + 1
  OBVIOUS
<1> QED
  BY <1>1, <1>2, <1>3, <1>4, <1>6, <1>7 DEF LexicographicallyBefore

\* The last element, or the one before it, gives way to a larger one.
LEMMA LexLast ==
  ASSUME NEW s \in Seq(Nat), s # <<>>, NEW m \in Nat
  PROVE  /\ Last(s) < m => LexicographicallyBefore(s, Append(Front(s), m))
         /\ Front(s) # <<>> /\ Last(Front(s)) < m =>
              LexicographicallyBefore(s, Append(Front(Front(s)), m))
<1>1. PICK a : a = Front(s)
  OBVIOUS
<1>2. PICK k \in Nat : Len(s) = k + 1
  <2>1. Len(s) \in Nat /\ Len(s) # 0
    OBVIOUS
  <2>2. Len(s) - 1 \in Nat /\ Len(s) = Len(s) - 1 + 1
    BY <2>1
  <2> QED
    BY <2>2
<1>3. a \in Seq(Nat) /\ Len(a) = k /\ \A i \in 1 .. k : a[i] = s[i]
  <2>1. a = SubSeq(s, 1, k)
    BY <1>1, <1>2 DEF Front
  <2> QED
    BY <1>2, <2>1
<1>4. ASSUME Last(s) < m PROVE LexicographicallyBefore(s, Append(a, m))
  <2>1. PICK t : t = Append(a, m)
    OBVIOUS
  <2>2. t \in Seq(Nat) /\ Len(t) = k + 1 /\ t[k + 1] = m /\ \A i \in 1 .. k : t[i] = a[i]
    BY <1>3, <2>1
  <2>3. s[k + 1] < t[k + 1]
    BY <1>2, <1>4, <2>2 DEF Last
  <2>4. k + 1 \in Nat /\ k + 1 \in 1 .. k + 1 /\ k + 1 - 1 = k
    OBVIOUS
  <2>5. \A i \in 1 .. k + 1 - 1 : s[i] = t[i]
    BY <1>3, <2>2, <2>4
  <2>6. PICK i \in Nat : i = k + 1
    BY <2>4
  <2>7. /\ i \in 1 .. Len(s) /\ i \in 1 .. Len(t) /\ s[i] < t[i]
        /\ \A j \in 1 .. i - 1 : s[j] = t[j]
    BY <1>2, <2>2, <2>3, <2>4, <2>5, <2>6
  <2>8. LexicographicallyBefore(s, t)
    BY <2>2, <2>7, LexLarger
  <2> QED
    BY <2>1, <2>8
<1>5. ASSUME a # <<>>, Last(a) < m PROVE LexicographicallyBefore(s, Append(Front(a), m))
  <2>1. PICK b : b = Front(a)
    OBVIOUS
  <2>2. PICK j \in Nat : k = j + 1
    <3>1. k # 0
      BY <1>3, <1>5
    <3>2. k - 1 \in Nat /\ k = k - 1 + 1
      BY <3>1
    <3> QED
      BY <3>2
  <2>3. b \in Seq(Nat) /\ Len(b) = j /\ \A i \in 1 .. j : b[i] = a[i]
    <3>1. b = SubSeq(a, 1, j)
      BY <1>3, <2>1, <2>2 DEF Front
    <3> QED
      BY <1>3, <2>2, <3>1
  <2>4. PICK t : t = Append(b, m)
    OBVIOUS
  <2>5. t \in Seq(Nat) /\ Len(t) = k /\ t[k] = m /\ \A i \in 1 .. j : t[i] = b[i]
    BY <2>2, <2>3, <2>4
  <2>6. k \in 1 .. k /\ k \in 1 .. k + 1 /\ k - 1 = j
    BY <2>2
  <2>7. s[k] < t[k]
    BY <1>3, <1>5, <2>5, <2>6 DEF Last
  <2>8. \A i \in 1 .. j : s[i] = t[i]
    BY <1>3, <2>2, <2>3, <2>5
  <2> QED
    BY <1>2, <2>1, <2>4, <2>5, <2>6, <2>7, <2>8, LexLarger
<1> QED
  BY <1>1, <1>4, <1>5
-----------------------------------------------------------------------------
(***************************************************************************)
(* The steps.                                                              *)
(***************************************************************************)
Moved(e) == SearchInv' /\ pc' # "dead" /\ LexicographicallyBefore(e, st'.e)

\* f is ejected behind the customers of d; where it took the place of another one, that
\* one is the last one kept.
Decided(d, f) == st'.e = Append(d, f) /\ (st'.incremented_last => Last(st'.ne) + 1 = f)

\* One more customer in e is not an increment.
LEMMA IncrKKeeps ==
  ASSUME NEW x \in Stacks
  PROVE  incr_k(x).incremented_last = x.incremented_last
BY DEF incr_k, Stacks

\* The first customer of the route is ejected.
LEMMA StartStep ==
  SearchInv /\ Start =>
    /\ Moved(st.e)
    /\ st.e = <<>> /\ st'.e = Append(st.e, 1) /\ st'.incremented_last = st.incremented_last
<1> SUFFICES ASSUME SearchInv, Start
             PROVE  /\ Moved(st.e)
                    /\ st.e = <<>> /\ st'.e = Append(st.e, 1)
                    /\ st'.incremented_last = st.incremented_last
  OBVIOUS
<1>1. /\ Types /\ Stacked(st, 0) /\ Summed(st) /\ st.e = <<>> /\ a_temp[0] = inst.p.e[0]
      /\ inst \in Instances /\ inst.k_max > 0
  BY DEF SearchInv, Fresh, Start, Types
<1>2. /\ Len(inst.r) \in Nat /\ 1 \in 1 .. Len(inst.r) /\ inst.k_max \in Nat
      /\ tail = Len(inst.r) + 1 /\ 1 - 1 = 0
  BY <1>1, Arguments
<1>3. PICK x : x = incr_k(st)
  OBVIOUS
<1>4. /\ Stacked(x, 1) /\ Summed(x) /\ Last(x.e) = 1 /\ Last(x.s) = 1 + 1 /\ x.e # <<>>
      /\ x.e = Append(st.e, 1) /\ x.ne = st.ne /\ Len(x.e) = Len(st.e) + 1
  BY <1>1, <1>2, <1>3, IncrKSteps
<1>5. Len(x.e) <= inst.k_max
  BY <1>1, <1>2, <1>4
<1>6. Timed(inst.p, inst.r, a_temp, a_earliest_temp, ToSet(x.ne), 1 - 1)
  BY <1>1, <1>2 DEF Timed, Types
<1>7. OnlyLastLate(ToSet(x.ne), a_earliest_temp, 1)
  <2>1. Share(st.ne, st.e, 1)
    BY <1>1 DEF Stacked
  <2>2. ToSet(st.ne) \ {0} = {}
    BY <2>1 DEF Share
  <2> QED
    BY <1>4, <2>2 DEF OnlyLastLate
<1>8. Goto(x)
  BY <1>3 DEF Start
<1>9. Types' /\ Cursor(1)' /\ pc' \in {"test", "backtrack"} /\ st' = x
  BY <1>1, <1>2, <1>4, <1>5, <1>6, <1>7, <1>8, GotoSteps DEF Goto
<1>10. SearchInv'
  BY <1>9 DEF SearchInv
<1>11. LexicographicallyBefore(st.e, st'.e)
  <2>1. st.e \in Seq(Nat) /\ 1 \in Nat
    BY <1>1
  <2>2. LexicographicallyBefore(st.e, Append(st.e, 1))
    BY <2>1, LexLonger
  <2> QED
    BY <1>4, <1>9, <2>2
<1>12. x.incremented_last = st.incremented_last
  BY <1>1, <1>3, IncrKKeeps DEF Types
<1> QED
  BY <1>1, <1>4, <1>9, <1>10, <1>11, <1>12 DEF Moved

\* Where the search is under way.
LEMMA UnderWay ==
  ASSUME SearchInv, Searching
  PROVE  /\ Types /\ inst \in Instances
         /\ \E f \in 1 .. Len(inst.r) : Cursor(f)
BY DEF SearchInv, Cursor, Types

\* The next customer is ejected as well.
LEMMA ExtendStep == SearchInv /\ Extend => Moved(st.e) /\ Decided(st.e, Last(st.e) + 1)
<1> SUFFICES ASSUME SearchInv, Extend PROVE Moved(st.e) /\ Decided(st.e, Last(st.e) + 1)
  OBVIOUS
<1>1. Searching /\ pc # "backtrack" /\ Last(st.s) # tail /\ Len(st.e) < inst.k_max
  BY DEF Extend, MayExtend, Searching
<1>2. PICK f \in 1 .. Len(inst.r) : Cursor(f)
  BY <1>1, UnderWay
<1>3. Types /\ inst \in Instances /\ Stacked(st, f) /\ Summed(st) /\ st \in Stacks
  BY <1>1, <1>2, UnderWay DEF Cursor, Stacked
<1>4. /\ f \in Nat /\ f \in 0 .. Len(inst.r) /\ f + 1 - 1 = f /\ f + 1 \in Nat /\ f \in 0 .. f + 1
      /\ inst.k_max \in Nat
  BY <1>3, Arguments
<1>5. f + 1 \in 1 .. Len(inst.r)
  BY <1>1, <1>3, <1>4, NextUndecided
<1>6. PICK y : y = [st EXCEPT !.incremented_last = FALSE]
  OBVIOUS
<1>7. /\ y \in Stacks /\ y.ne = st.ne /\ y.e = st.e /\ y.s = st.s /\ y.p_sum = st.p_sum
      /\ y.total_demand = st.total_demand /\ y.late = st.late
  BY <1>3, <1>6 DEF Stacks
<1>8. Stacked(y, f + 1 - 1) /\ Summed(y)
  BY <1>3, <1>4, <1>7 DEF Stacked, Summed
<1>9. PICK x : x = incr_k(y)
  OBVIOUS
<1>10. /\ Stacked(x, f + 1) /\ Summed(x) /\ Last(x.e) = f + 1 /\ Last(x.s) = f + 1 + 1
       /\ x.e = Append(st.e, f + 1) /\ x.e # <<>> /\ x.ne = st.ne /\ Len(x.e) = Len(st.e) + 1
  BY <1>3, <1>5, <1>7, <1>8, <1>9, IncrKSteps
<1>11. Len(x.e) <= inst.k_max
  <2>1. st.e \in Seq(Nat)
    BY <1>3 DEF Stacks
  <2> QED
    BY <1>1, <1>4, <1>10, <2>1
<1>12. Timed(inst.p, inst.r, a_temp, a_earliest_temp, ToSet(x.ne), f + 1 - 1)
  <2>1. ToSet(st.ne) \subseteq Int
    BY <1>3, <1>4 DEF Stacked, Share
  <2>2. Timed(inst.p, inst.r, a_temp, a_earliest_temp, ToSet(st.ne), f + 1)
    BY <1>2 DEF Cursor
  <2> QED
    BY <1>4, <1>10, <2>1, <2>2, TimedAgain
<1>13. OnlyLastLate(ToSet(x.ne), a_earliest_temp, f + 1)
  BY <1>1, <1>2, <1>10 DEF Cursor, KeptOnTime, OnlyLastLate, l_at
<1>14. Goto(x)
  BY <1>6, <1>9 DEF Extend
<1>15. /\ Types' /\ pc' \in {"test", "backtrack"} /\ st' = x
       /\ \E g \in Nat : Cursor(g)'
  <2>1. PICK g \in 1 .. Len(inst.r) : g = f + 1
    BY <1>5
  <2>2. g \in Nat
    BY <1>4, <2>1
  <2>3. /\ Stacked(x, g) /\ Summed(x) /\ Last(x.e) = g /\ x.e # <<>> /\ Last(x.s) = g + 1
        /\ Timed(inst.p, inst.r, a_temp, a_earliest_temp, ToSet(x.ne), g - 1)
        /\ OnlyLastLate(ToSet(x.ne), a_earliest_temp, g)
    BY <1>10, <1>12, <1>13, <2>1
  <2>4. Types' /\ Cursor(g)' /\ pc' \in {"test", "backtrack"}
    BY <1>3, <1>11, <1>14, <2>3, GotoSteps
  <2> QED
    BY <1>14, <2>2, <2>4 DEF Goto
<1>16. SearchInv'
  BY <1>15 DEF SearchInv
<1>17. LexicographicallyBefore(st.e, st'.e)
  BY <1>3, <1>4, <1>10, <1>15, LexLonger DEF Stacks
<1>18. Decided(st.e, Last(st.e) + 1)
  <2>1. ~x.incremented_last
    BY <1>3, <1>6, <1>7, <1>9, IncrKKeeps DEF Stacks
  <2>2. Last(st.e) = f
    BY <1>2 DEF Cursor
  <2> QED
    BY <1>10, <1>15, <2>1, <2>2 DEF Decided
<1> QED
  BY <1>15, <1>16, <1>17, <1>18 DEF Moved

\* The last ejected customer gives way to the next one.
LEMMA IncrementLastStep ==
  SearchInv /\ IncrementLast => Moved(st.e) /\ Decided(Front(st.e), Last(st.e) + 1)
<1> SUFFICES ASSUME SearchInv, IncrementLast
             PROVE  Moved(st.e) /\ Decided(Front(st.e), Last(st.e) + 1)
  OBVIOUS
<1>1. Searching /\ pc # "backtrack" /\ Last(st.s) # tail
  BY DEF IncrementLast, Searching
<1>2. PICK f \in 1 .. Len(inst.r) : Cursor(f)
  BY <1>1, UnderWay
<1>3. /\ Types /\ inst \in Instances /\ Stacked(st, f) /\ Summed(st) /\ st \in Stacks
      /\ st.e # <<>> /\ Last(st.e) = f /\ st.e \in Seq(Nat) /\ Len(st.e) <= inst.k_max
  BY <1>1, <1>2, UnderWay DEF Cursor, Stacked, Stacks
<1>4. /\ f \in Nat /\ f \in 0 .. Len(inst.r) /\ f + 1 - 1 = f /\ f + 1 \in Nat /\ f \in 0 .. f + 1
      /\ inst.k_max \in Nat /\ f < f + 1
  BY <1>3, Arguments
<1>5. f + 1 \in 1 .. Len(inst.r)
  BY <1>1, <1>3, <1>4, NextUndecided
<1>6. PICK y : y = incr_last(st)
  OBVIOUS
<1>7. Stacked(y, f) /\ Summed(y) /\ y.ne = Append(st.ne, f) /\ y.e = Front(st.e)
  BY <1>3, <1>6, IncrLastSteps
<1>8. PICK x : x = incr_k(y)
  OBVIOUS
<1>9. Stacked(y, f + 1 - 1)
  BY <1>4, <1>7
<1>10. /\ Stacked(x, f + 1) /\ Summed(x) /\ Last(x.e) = f + 1 /\ Last(x.s) = f + 1 + 1
       /\ x.e = Append(y.e, f + 1) /\ x.e # <<>> /\ x.ne = y.ne /\ Len(x.e) = Len(y.e) + 1
  BY <1>3, <1>5, <1>7, <1>8, <1>9, IncrKSteps
<1>11. Len(x.e) <= inst.k_max
  <2>1. Len(y.e) = Len(st.e) - 1 /\ Len(st.e) \in Nat
    BY <1>3, <1>7, FrontLast
  <2> QED
    BY <1>3, <1>4, <1>10, <2>1
<1>12. ToSet(x.ne) = ToSet(st.ne) \cup {f} /\ \A i \in ToSet(st.ne) : i \in 0 .. f
  <2>1. Share(st.ne, st.e, f + 1) /\ Share(st.ne, Front(st.e), f)
    BY <1>3, UnejectSteps DEF Stacked
  <2>2. st.ne \in Seq(Nat) /\ Increasing(st.ne) /\ \A i \in ToSet(st.ne) : i \in 0 .. f - 1 /\ i < f
    BY <1>4, <2>1 DEF Share
  <2>3. ToSet(Append(st.ne, f)) = ToSet(st.ne) \cup {f}
    BY <1>4, <2>2, IncreasingAppend
  <2> QED
    BY <1>4, <1>7, <1>10, <2>2, <2>3
<1>13. Timed(inst.p, inst.r, a_temp, a_earliest_temp, ToSet(x.ne), f + 1 - 1)
  <2>1. ToSet(st.ne) \subseteq Int /\ ToSet(x.ne) \subseteq Int
    BY <1>4, <1>12
  <2>2. Timed(inst.p, inst.r, a_temp, a_earliest_temp, ToSet(st.ne), f + 1)
    BY <1>2 DEF Cursor
  <2>3. \A i \in Int : i < f => (i \in ToSet(st.ne) <=> i \in ToSet(x.ne))
    BY <1>4, <1>12
  <2> QED
    BY <1>4, <2>1, <2>2, <2>3, TimedAgain
<1>14. OnlyLastLate(ToSet(x.ne), a_earliest_temp, f + 1)
  BY <1>1, <1>2, <1>12 DEF Cursor, KeptOnTime, OnlyLastLate, l_at
<1>15. Goto(x)
  BY <1>6, <1>8 DEF IncrementLast
<1>16. /\ Types' /\ pc' \in {"test", "backtrack"} /\ st' = x
       /\ \E g \in Nat : Cursor(g)'
  <2>1. PICK g \in 1 .. Len(inst.r) : g = f + 1
    BY <1>5
  <2>2. g \in Nat
    BY <1>4, <2>1
  <2>3. /\ Stacked(x, g) /\ Summed(x) /\ Last(x.e) = g /\ x.e # <<>> /\ Last(x.s) = g + 1
        /\ Timed(inst.p, inst.r, a_temp, a_earliest_temp, ToSet(x.ne), g - 1)
        /\ OnlyLastLate(ToSet(x.ne), a_earliest_temp, g)
    BY <1>10, <1>13, <1>14, <2>1
  <2>4. Types' /\ Cursor(g)' /\ pc' \in {"test", "backtrack"}
    BY <1>3, <1>11, <1>15, <2>3, GotoSteps
  <2> QED
    BY <1>15, <2>2, <2>4 DEF Goto
<1>17. SearchInv'
  BY <1>16 DEF SearchInv
<1>18. LexicographicallyBefore(st.e, st'.e)
  BY <1>3, <1>4, <1>7, <1>10, <1>16, LexLast
<1>19. Decided(Front(st.e), Last(st.e) + 1)
  <2>1. Last(x.ne) = f
    <3>1. PICK ne \in Seq(Nat) : ne = st.ne
      BY <1>3 DEF Stacks
    <3>2. Last(Append(ne, f)) = f
      BY <1>4 DEF Last
    <3> QED
      BY <1>7, <1>10, <3>1, <3>2
  <2> QED
    BY <1>3, <1>7, <1>10, <1>16, <2>1 DEF Decided
<1> QED
  BY <1>16, <1>17, <1>18, <1>19 DEF Moved

\* The last ejected customer is undecided again, and the one before it gives way.
LEMMA BacktrackStep ==
  SearchInv /\ Backtrack =>
    Moved(st.e) /\ Front(st.e) # <<>> /\ Decided(Front(Front(st.e)), Last(Front(st.e)) + 1)
<1> SUFFICES ASSUME SearchInv, Backtrack
             PROVE  /\ Moved(st.e) /\ Front(st.e) # <<>>
                    /\ Decided(Front(Front(st.e)), Last(Front(st.e)) + 1)
  OBVIOUS
<1>1. Searching /\ Len(st.e) # 1
  BY DEF Backtrack, MustBacktrack, Searching
<1>2. PICK f \in 1 .. Len(inst.r) : Cursor(f)
  BY <1>1, UnderWay
<1>3. /\ Types /\ inst \in Instances /\ Stacked(st, f) /\ Summed(st) /\ st \in Stacks
      /\ st.e # <<>> /\ Last(st.e) = f /\ st.e \in Seq(Nat) /\ Len(st.e) <= inst.k_max
  BY <1>1, <1>2, UnderWay DEF Cursor, Stacked, Stacks
<1>4. f \in Nat /\ inst.k_max \in Nat /\ Len(inst.r) \in Nat
  BY <1>3, Arguments
<1>5. PICK d : d = Front(st.e)
  OBVIOUS
<1>6. d \in Seq(Nat) /\ Len(d) = Len(st.e) - 1 /\ Len(st.e) \in Nat /\ Len(st.e) # 0
  BY <1>3, <1>5, FrontLast
<1>7. d # <<>>
  <2>1. Len(d) # 0
    BY <1>1, <1>6
  <2> QED
    BY <2>1
<1>8. PICK y : y = backtrack(st)
  OBVIOUS
<1>9. PICK m \in 1 .. f - 1 : /\ Stacked(y, m) /\ Summed(y) /\ y.e = d /\ Last(d) = m
                              /\ ToSet(y.ne) = {i \in ToSet(st.ne) : i < m}
  BY <1>3, <1>5, <1>7, <1>8, BacktrackSteps
<1>10. /\ m \in 1 .. Len(inst.r) /\ m + 1 \in 1 .. Len(inst.r) /\ m \in Nat /\ m + 1 - 1 = m
       /\ m < m + 1 /\ m \in 0 .. f + 1 /\ f + 1 \in Nat /\ m + 1 <= f /\ m + 1 \in Nat
  BY <1>4
<1>11. PICK z : z = incr_last(y)
  OBVIOUS
<1>12. Stacked(z, m) /\ Summed(z) /\ z.ne = Append(y.ne, m) /\ z.e = Front(d)
  BY <1>3, <1>7, <1>9, <1>10, <1>11, IncrLastSteps
<1>13. PICK x : x = incr_k(z)
  OBVIOUS
<1>14. Stacked(z, m + 1 - 1)
  BY <1>10, <1>12
<1>15. /\ Stacked(x, m + 1) /\ Summed(x) /\ Last(x.e) = m + 1 /\ Last(x.s) = m + 1 + 1
       /\ x.e = Append(z.e, m + 1) /\ x.e # <<>> /\ x.ne = z.ne /\ Len(x.e) = Len(z.e) + 1
  BY <1>3, <1>10, <1>12, <1>13, <1>14, IncrKSteps
<1>16. Len(x.e) <= inst.k_max
  <2>1. Len(z.e) = Len(d) - 1 /\ Len(d) \in Nat
    BY <1>6, <1>7, <1>12, FrontLast
  <2> QED
    BY <1>3, <1>4, <1>6, <1>15, <2>1
<1>17. ToSet(x.ne) = {i \in ToSet(st.ne) : i < m} \cup {m}
  <2>1. Share(y.ne, Front(y.e), m)
    BY <1>3, <1>7, <1>9, <1>10, UnejectSteps
  <2>2. y.ne \in Seq(Nat) /\ Increasing(y.ne) /\ \A i \in ToSet(y.ne) : i < m
    BY <1>9, <1>10, <2>1 DEF Share
  <2>3. ToSet(Append(y.ne, m)) = ToSet(y.ne) \cup {m}
    BY <1>10, <2>2, IncreasingAppend
  <2> QED
    BY <1>9, <1>12, <1>15, <2>3
<1>18. \A i \in ToSet(st.ne) : i \in 0 .. f
  BY <1>3, <1>4 DEF Stacked, Share
<1>19. Timed(inst.p, inst.r, a_temp, a_earliest_temp, ToSet(x.ne), m + 1 - 1)
  <2>1. ToSet(st.ne) \subseteq Int /\ ToSet(x.ne) \subseteq Int
    BY <1>10, <1>17, <1>18
  <2>2. Timed(inst.p, inst.r, a_temp, a_earliest_temp, ToSet(st.ne), f + 1)
    BY <1>2 DEF Cursor
  <2>3. \A i \in Int : i < m => (i \in ToSet(st.ne) <=> i \in ToSet(x.ne))
    BY <1>10, <1>17
  <2> QED
    BY <1>10, <2>1, <2>2, <2>3, TimedAgain
<1>20. OnlyLastLate(ToSet(x.ne), a_earliest_temp, m + 1)
  <2>1. ASSUME NEW i \in ToSet(x.ne) \ {0}, i # m PROVE a_earliest_temp[i] <= l_at(i)
    <3>1. i \in ToSet(st.ne) \ {0} /\ i \in Nat /\ i < m
      BY <1>17, <1>18, <2>1
    <3>2. i + 1 # f
      BY <1>4, <1>10, <3>1
    <3> QED
      BY <1>2, <3>1, <3>2 DEF Cursor, OnlyLastLate
  <2> QED
    BY <2>1 DEF OnlyLastLate
<1>21. Goto(x)
  BY <1>8, <1>11, <1>13 DEF Backtrack
<1>22. /\ Types' /\ pc' \in {"test", "backtrack"} /\ st' = x
       /\ \E g \in Nat : Cursor(g)'
  <2>1. PICK g \in 1 .. Len(inst.r) : g = m + 1
    BY <1>10
  <2>2. g \in Nat
    BY <1>4, <1>10, <2>1
  <2>3. /\ Stacked(x, g) /\ Summed(x) /\ Last(x.e) = g /\ x.e # <<>> /\ Last(x.s) = g + 1
        /\ Timed(inst.p, inst.r, a_temp, a_earliest_temp, ToSet(x.ne), g - 1)
        /\ OnlyLastLate(ToSet(x.ne), a_earliest_temp, g)
    BY <1>15, <1>19, <1>20, <2>1
  <2>4. Types' /\ Cursor(g)' /\ pc' \in {"test", "backtrack"}
    BY <1>3, <1>16, <1>21, <2>3, GotoSteps
  <2> QED
    BY <1>21, <2>2, <2>4 DEF Goto
<1>23. SearchInv'
  BY <1>22 DEF SearchInv
<1>24. LexicographicallyBefore(st.e, st'.e)
  BY <1>3, <1>5, <1>7, <1>9, <1>10, <1>12, <1>15, <1>22, LexLast
<1>25. Decided(Front(d), Last(d) + 1)
  <2>1. Last(x.ne) = m
    <3>1. PICK ne \in Seq(Nat) : ne = y.ne
      BY <1>9 DEF Stacked, Stacks
    <3>2. Last(Append(ne, m)) = m
      BY <1>10 DEF Last
    <3> QED
      BY <1>12, <1>15, <3>1, <3>2
  <2> QED
    BY <1>9, <1>12, <1>15, <1>22, <2>1 DEF Decided
<1> QED
  BY <1>5, <1>7, <1>22, <1>23, <1>24, <1>25 DEF Moved

\* At the test the sums and the times decide whether the ejection is feasible and
\* improves; a time window that ends before it opens can only make the test fail.
LEMMA TestSound ==
  ASSUME SearchInv, pc = "test"
  PROVE  /\ Accepts => Improving(inst.p, inst.r, inst.ps, p_best, st.e)
         /\ WindowsOpen(inst.p) /\ Improving(inst.p, inst.r, inst.ps, p_best, st.e) => Accepts
<1>1. Searching /\ pc # "backtrack"
  BY DEF Searching
<1>2. PICK f \in 1 .. Len(inst.r) : Cursor(f)
  BY <1>1, UnderWay
<1>3. /\ inst \in Instances /\ Stacked(st, f) /\ Summed(st)
      /\ Timed(inst.p, inst.r, a_temp, a_earliest_temp, ToSet(st.ne), f + 1)
      /\ KeptOnTime(inst.p, inst.r, a_earliest_temp, st.ne)
  BY <1>1, <1>2, UnderWay DEF Cursor
<1>4. PICK p : p = inst.p
  OBVIOUS
<1>5. PICK r : r = inst.r
  OBVIOUS
<1>6. PICK q : q = Rest(r, st.e)
  OBVIOUS
<1>7. RouteOf(p, r) /\ f \in 0 .. Len(r)
  <2>1. RouteOf(inst.p, inst.r) /\ Len(inst.r) \in Nat
    BY <1>3, Arguments
  <2> QED
    BY <1>4, <1>5, <2>1
<1>8. Share(st.ne, st.e, f + 1)
  BY <1>3 DEF Stacked
<1>9. /\ TestsTw(p, r, a_temp, a_earliest_temp, f + 1) => TwPenalty(p, q) = 0
      /\ WindowsOpen(p) /\ TwPenalty(p, q) = 0 => TestsTw(p, r, a_temp, a_earliest_temp, f + 1)
  <2>1. PICK ne : ne = st.ne
    OBVIOUS
  <2>2. PICK e : e = st.e
    OBVIOUS
  <2>3. /\ Share(ne, e, f + 1) /\ Timed(p, r, a_temp, a_earliest_temp, ToSet(ne), f + 1)
        /\ KeptOnTime(p, r, a_earliest_temp, ne)
    BY <1>3, <1>4, <1>5, <1>8, <2>1, <2>2, Zenon
  <2>4. TestsTw(p, r, a_temp, a_earliest_temp, f + 1) => TwPenalty(p, Rest(r, e)) = 0
    BY <1>7, <2>3, TestLateness
  <2>5. WindowsOpen(p) /\ TwPenalty(p, Rest(r, e)) = 0 =>
          TestsTw(p, r, a_temp, a_earliest_temp, f + 1)
    BY <1>7, <2>3, TestLateness
  <2> QED
    BY <1>6, <2>2, <2>4, <2>5, Zenon
<1>10. CPenalty(p, q) = 0 <=> st.total_demand <= p.vc
  <2>1. RouteOf(p, q)
    BY <1>6, <1>7, <1>8, RestTail
  <2>2. PICK b \in Int : b = PrefixDemand(p, q)[Len(q) + 1]
    <3>1. Len(q) \in Nat /\ PrefixDemand(p, q) \in [0 .. Len(q) + 1 -> Int]
      BY <2>1, NodeData, PrefixDemandSteps
    <3> QED
      BY <3>1
  <2>3. st.total_demand = b
    BY <1>3, <1>4, <1>5, <1>6, <2>2 DEF Summed, SumsOf, Load
  <2>4. p.vc \in Int
    BY <1>7 DEF RouteOf, Instance
  <2>5. CPenalty(p, q) = MAX(0, b - p.vc)
    BY <2>2 DEF CPenalty, depot_tail
  <2> QED
    BY <2>2, <2>3, <2>4, <2>5 DEF MAX
<1>11. st.p_sum = PSum(inst.ps, Ejected(r, st.e))
  BY <1>3, <1>5 DEF Summed, SumsOf
<1>12. Last(st.s) = f + 1
  BY <1>3, <1>5, <1>7, NextUndecided
<1>13. Accepts <=> /\ st.p_sum < p_best /\ TestsTw(p, r, a_temp, a_earliest_temp, f + 1)
                   /\ st.total_demand <= p.vc
  BY <1>4, <1>5, <1>12 DEF Accepts, TestsTw, l_at
<1>14. Improving(inst.p, inst.r, inst.ps, p_best, st.e)
         <=> TwPenalty(p, q) = 0 /\ CPenalty(p, q) = 0 /\ st.p_sum < p_best
  BY <1>4, <1>5, <1>6, <1>11 DEF Improving, FeasibleEjection
<1> QED
  BY <1>4, <1>9, <1>10, <1>13, <1>14

\* Without a move of the cursor.
LEMMA CursorStays ==
  ASSUME SearchInv, Searching, pc # "backtrack",
         UNCHANGED <<inst, st, a_temp, a_earliest_temp>>
  PROVE  \E f \in Nat : Cursor(f)'
<1>1. PICK f \in 1 .. Len(inst.r) : Cursor(f)
  BY UnderWay
<1>2. f \in Nat
  BY UnderWay, Arguments
<1>3. tail' = tail
  BY DEF tail
<1>4. Stacked(st, f)' /\ Summed(st)'
  BY <1>1, <1>3 DEF Cursor, Stacked, Summed, SumsOf
<1>5. OnlyLastLate(ToSet(st.ne), a_earliest_temp, f)'
  BY <1>1 DEF Cursor, OnlyLastLate, l_at
<1>6. Cursor(f)'
  BY <1>1, <1>4, <1>5 DEF Cursor
<1> QED
  BY <1>2, <1>6

\* The test passes: p_best becomes the sum of a feasible ejection.
LEMMA AcceptStep == SearchInv /\ Accept => SearchInv'
<1> SUFFICES ASSUME SearchInv, Accept PROVE SearchInv'
  OBVIOUS
<1>1. /\ pc = "test" /\ Accepts /\ p_best' = st.p_sum /\ pc' = "yield"
      /\ UNCHANGED <<inst, st, a_temp, a_earliest_temp>>
  BY DEF Accept
<1>2. Improving(inst.p, inst.r, inst.ps, p_best, st.e)
  BY <1>1, TestSound
<1>3. Searching /\ pc # "backtrack"
  BY <1>1 DEF Searching
<1>4. PICK f \in 1 .. Len(inst.r) : Cursor(f)
  BY <1>3, UnderWay
<1>5. inst \in Instances /\ Summed(st) /\ Stacked(st, f) /\ Types
  BY <1>3, <1>4, UnderWay DEF Cursor
<1>6. st.p_sum = PSum(inst.ps, Ejected(inst.r, st.e))
  BY <1>5 DEF Summed, SumsOf
<1>7. st.p_sum \in Nat
  <2>1. PICK r : r = inst.r
    OBVIOUS
  <2>2. PICK ps : ps = inst.ps
    OBVIOUS
  <2>3. PICK e : e = st.e
    OBVIOUS
  <2>4. PICK C : C = 1 .. inst.p.n
    OBVIOUS
  <2>5. r \in Seq(C) /\ ps \in [C -> Nat] /\ f \in 0 .. Len(r)
    BY <1>5, <2>1, <2>2, <2>4, Arguments
  <2>6. Share(st.ne, e, f + 1)
    BY <1>5, <2>3 DEF Stacked
  <2>7. Picked(r, e, Len(e)) /\ DOMAIN e = 1 .. Len(e) /\ Len(e) \in Nat
    BY <2>5, <2>6, SharePicked
  <2>8. \A k \in 1 .. Len(e) : r[e[k]] \in C
    <3>1. \A k \in 1 .. Len(e) : e[k] \in 1 .. Len(r)
      BY <2>7 DEF Picked
    <3>2. \A i \in 1 .. Len(r) : r[i] \in C
      BY <2>5, ElementOfSeq
    <3> QED
      BY <3>1, <3>2, Zenon
  <2>9. PICK cs : cs = Ejected(r, e)
    OBVIOUS
  <2>10. cs = [k \in 1 .. Len(e) |-> r[e[k]]]
    BY <2>7, <2>9 DEF Ejected
  <2>11. cs \in Seq(C)
    BY <2>7, <2>8, <2>10
  <2>12. PSum(ps, cs) \in Nat
    BY <2>5, <2>11, PSumNat
  <2> QED
    BY <1>6, <2>1, <2>2, <2>3, <2>9, <2>12
<1>8. Types'
  <2>1. tail' = tail
    BY <1>1 DEF tail
  <2> QED
    BY <1>1, <1>5, <1>7, <2>1 DEF Types
<1>9. Yields'
  BY <1>1, <1>2, <1>6 DEF Yields, Improving
<1>10. \E g \in Nat : Cursor(g)'
  BY <1>1, <1>3, CursorStays
<1> QED
  BY <1>1, <1>8, <1>9, <1>10 DEF SearchInv

\* The steps that leave the cursor where it is, and those that end the search.
LEMMA OtherSteps ==
  SearchInv /\ (NothingToEject \/ Reject \/ Resumed \/ Cancelled \/ Exhausted) => SearchInv'
<1> SUFFICES ASSUME SearchInv PROVE
      NothingToEject \/ Reject \/ Resumed \/ Cancelled \/ Exhausted => SearchInv'
  OBVIOUS
<1>1. Types
  BY DEF SearchInv
<1>2. ASSUME Reject \/ Resumed PROVE SearchInv'
  <2>1. /\ pc \in {"test", "yield"} /\ pc' = "branch"
        /\ UNCHANGED <<inst, st, a_temp, a_earliest_temp, p_best>>
    BY <1>2 DEF Reject, Resumed
  <2>2. Searching /\ pc # "backtrack"
    BY <2>1 DEF Searching
  <2>3. \E f \in Nat : Cursor(f)'
    BY <2>1, <2>2, CursorStays
  <2>4. tail' = tail
    BY <2>1 DEF tail
  <2>5. Types'
    BY <1>1, <2>1, <2>4 DEF Types
  <2> QED
    BY <2>1, <2>3, <2>5 DEF SearchInv
<1>3. ASSUME NothingToEject \/ Cancelled PROVE SearchInv'
  <2>1. pc' = "dead" /\ UNCHANGED <<inst, st, a_temp, a_earliest_temp, p_best>>
    BY <1>3 DEF NothingToEject, Cancelled
  <2>2. tail' = tail
    BY <2>1 DEF tail
  <2>3. Types'
    BY <1>1, <2>1, <2>2 DEF Types
  <2> QED
    BY <2>1, <2>3 DEF SearchInv, Searching
<1>4. ASSUME Exhausted PROVE SearchInv'
  <2>1. /\ pc' = "dead" /\ UNCHANGED <<inst, a_temp, a_earliest_temp, p_best>>
        /\ st' = [st EXCEPT !.e = <<>>, !.s = Append(@, Last(st.e))]
        /\ Searching
    BY <1>4 DEF Exhausted, MustBacktrack, Searching
  <2>2. tail' = tail
    BY <2>1 DEF tail
  <2>3. PICK f \in 1 .. Len(inst.r) : Cursor(f)
    BY <2>1, UnderWay
  <2>4. Last(st.e) \in Nat /\ st.s \in Seq(Nat)
    <3>1. Len(inst.r) \in Nat
      BY <1>1, Arguments DEF Types
    <3> QED
      BY <1>1, <2>3, <3>1 DEF Cursor, Types, Stacks
  <2>5. Append(st.s, Last(st.e)) \in Seq(Nat) /\ <<>> \in Seq(Nat)
    BY <2>4
  <2>6. st' \in Stacks
    BY <1>1, <2>1, <2>5 DEF Types, Stacks
  <2>7. Types'
    BY <1>1, <2>1, <2>2, <2>6 DEF Types
  <2> QED
    BY <2>1, <2>7 DEF SearchInv, Searching
<1> QED
  BY <1>2, <1>3, <1>4

\* A step without any change.
LEMMA Stutters == SearchInv /\ UNCHANGED vars => SearchInv'
<1> SUFFICES ASSUME SearchInv, UNCHANGED vars PROVE SearchInv'
  OBVIOUS
<1>1. UNCHANGED <<inst, pc, st, a_temp, a_earliest_temp, p_best>> /\ tail' = tail
  BY DEF vars, tail
<1>2. Types'
  BY <1>1 DEF SearchInv, Types
<1>3. ASSUME NEW f \in Nat, Stacked(st, f), Summed(st) PROVE Stacked(st, f)' /\ Summed(st)'
  BY <1>1, <1>3 DEF Stacked, Summed, SumsOf
<1>4. pc' = "start" => Fresh'
  <2>1. 0 \in Nat
    OBVIOUS
  <2> QED
    BY <1>1, <1>3, <2>1 DEF SearchInv, Fresh
<1>5. Searching' => \E f \in Nat : Cursor(f)'
  <2>1. ASSUME Searching PROVE \E f \in Nat : Cursor(f)'
    <3>1. PICK f \in Nat : Cursor(f)
      BY <2>1 DEF SearchInv
    <3>2. OnlyLastLate(ToSet(st.ne), a_earliest_temp, f)'
      BY <1>1, <3>1 DEF Cursor, OnlyLastLate, l_at
    <3>3. Stacked(st, f)' /\ Summed(st)'
      BY <1>3, <3>1 DEF Cursor
    <3>4. Cursor(f)'
      BY <1>1, <3>1, <3>2, <3>3 DEF Cursor
    <3> QED
      BY <3>4
  <2> QED
    BY <1>1, <2>1 DEF Searching
<1>6. pc' = "yield" => Yields'
  BY <1>1 DEF SearchInv, Yields
<1> QED
  BY <1>2, <1>4, <1>5, <1>6 DEF SearchInv

\* The invariant is inductive.
LEMMA NextInv == SearchInv /\ [Next]_vars => SearchInv'
BY StartStep, ExtendStep, IncrementLastStep, BacktrackStep, AcceptStep, OtherSteps, Stutters
   DEF Next, Moved

\* The search keeps the invariant.
LEMMA Searches == Spec => []SearchInv
<1>1. Init => SearchInv
  BY InitInv
<1>2. SearchInv /\ [Next]_vars => SearchInv'
  BY NextInv
<1> QED
  BY <1>1, <1>2, PTL DEF Spec
-----------------------------------------------------------------------------
(***************************************************************************)
(* The theorems.                                                           *)
(***************************************************************************)

\* Every variable of feasible_ejections_f keeps its type; the times at each index of
\* the route stay numbers, whatever an earlier search left in them.
THEOREM SearchTypes == Spec => []TypeOK
<1>1. SearchInv => TypeOK
  BY DEF SearchInv, Types, Stacks, TypeOK
<1> QED
  BY <1>1, Searches, PTL

\* ne, e and s always share out the nodes of the route: no sequence of extensions,
\* increments and backtracks through kept customers loses or repeats one.
THEOREM SearchPartitions == Spec => []StacksPartition
<1>1. SearchInv => StacksPartition
  <2> SUFFICES ASSUME SearchInv, Searching
               PROVE  /\ Increasing(st.ne) /\ Increasing(st.e) /\ st.e # <<>>
                      /\ st.s = Reverse([i \in 1 .. tail - Last(st.e) |-> Last(st.e) + i])
                      /\ ToSet(st.ne) \cup ToSet(st.e) = 0 .. Last(st.e)
                      /\ ToSet(st.ne) \cap ToSet(st.e) = {}
    BY DEF StacksPartition
  <2>1. PICK f \in 1 .. Len(inst.r) : Cursor(f)
    BY UnderWay
  <2>2. /\ Share(st.ne, st.e, f + 1) /\ st.s = Undecided(tail, f)
        /\ st.e # <<>> /\ Last(st.e) = f
    BY <2>1 DEF Cursor, Stacked
  <2>3. tail \in Nat /\ f \in 0 .. tail /\ f + 1 - 1 = f
    BY UnderWay, Arguments
  <2>4. Undecided(tail, f) = Reverse([i \in 1 .. tail - f |-> f + i])
    BY <2>3, UndecidedSteps
  <2> QED
    BY <2>2, <2>3, <2>4 DEF Share
<1> QED
  BY <1>1, Searches, PTL

\* p_sum, total_demand and late, which every label updates by one customer, are at
\* each step those of the ejection e, and a_temp holds the times of serving ne.
THEOREM SearchSums == Spec => []SumsExact
<1>1. SearchInv => SumsExact
  <2> SUFFICES ASSUME SearchInv, Searching
               PROVE  /\ st.p_sum = PSum(inst.ps, Ejected(inst.r, st.e))
                      /\ st.total_demand =
                           PrefixDemand(inst.p, Rest(inst.r, st.e))[Len(inst.r) - Len(st.e) + 1]
                      /\ st.late = Cardinality(ToSet(st.e) \cap Late(inst.p, inst.r))
                      /\ \A i \in DOMAIN st.ne :
                           a_temp[st.ne[i]] = Arrivals(inst.p, KeptOf(inst.r, st.ne))[i - 1]
    BY DEF SumsExact, KeptOf
  <2>1. PICK f \in 1 .. Len(inst.r) : Cursor(f)
    BY UnderWay
  <2>2. /\ Share(st.ne, st.e, f + 1) /\ Summed(st)
        /\ Timed(inst.p, inst.r, a_temp, a_earliest_temp, ToSet(st.ne), f + 1)
    BY <2>1 DEF Cursor, Stacked
  <2>3. PICK p : p = inst.p
    OBVIOUS
  <2>4. PICK r : r = inst.r
    OBVIOUS
  <2>5. PICK ne : ne = st.ne
    OBVIOUS
  <2>6. PICK e : e = st.e
    OBVIOUS
  <2>7. RouteOf(p, r) /\ f \in 0 .. Len(r) /\ f \in 0 .. f + 1 /\ f + 1 \in Nat /\ f \in Nat
    <3>1. RouteOf(inst.p, inst.r) /\ Len(inst.r) \in Nat
      BY UnderWay, Arguments
    <3> QED
      BY <2>3, <2>4, <3>1
  <2>8. /\ Share(ne, e, f + 1)
        /\ Timed(p, r, a_temp, a_earliest_temp, ToSet(ne), f + 1)
    BY <2>2, <2>3, <2>4, <2>5, <2>6, Zenon
  <2>9. Len(Rest(r, e)) = Len(r) - Len(e)
    <3>1. r \in Seq(1 .. p.n) /\ f \in 0 .. Len(r) /\ Share(ne, e, f + 1)
      BY <2>7, <2>8 DEF RouteOf
    <3> QED
      BY <3>1, RestShare DEF RestSeq
  <2>10. ToSet(ne) \subseteq Int
    BY <2>7, <2>8 DEF Share
  <2>11. Timed(p, r, a_temp, a_earliest_temp, ToSet(ne), f)
    BY <2>7, <2>8, <2>10, TimedAgain
  <2>12. \A i \in DOMAIN ne : a_temp[ne[i]] = Arrivals(p, KeptOf(r, ne))[i - 1]
    BY <2>7, <2>8, <2>11, KeptTimes
  <2>13. /\ st.p_sum = PSum(inst.ps, Ejected(inst.r, st.e))
         /\ st.total_demand = Load(inst.p, Rest(inst.r, st.e))
         /\ st.late = Cardinality(ToSet(st.e) \cap Late(inst.p, inst.r))
    BY <2>2 DEF Summed, SumsOf
  <2> QED
    BY <2>3, <2>4, <2>5, <2>6, <2>9, <2>12, <2>13 DEF Load
<1> QED
  BY <1>1, Searches, PTL

\* Whatever the time windows, insert_eject only ever gets a feasible ejection of at
\* most k_max customers, and p_best is the sum of its p.
THEOREM SearchYields == Spec => []YieldsFeasible
<1>1. SearchInv => YieldsFeasible
  <2> SUFFICES ASSUME SearchInv, pc = "yield"
               PROVE  /\ Len(st.e) \in 1 .. inst.k_max
                      /\ FeasibleEjection(inst.p, inst.r, st.e)
                      /\ p_best = PSum(inst.ps, Ejected(inst.r, st.e))
    BY DEF YieldsFeasible
  <2>1. Searching
    BY DEF Searching
  <2>2. PICK f \in 1 .. Len(inst.r) : Cursor(f)
    BY <2>1, UnderWay
  <2>3. st.e # <<>> /\ st.e \in Seq(Nat) /\ Len(st.e) <= inst.k_max
    BY <2>2 DEF Cursor, Stacked, Stacks
  <2>4. inst.k_max \in Nat
    BY <2>1, UnderWay, Arguments
  <2>5. Len(st.e) \in Nat /\ Len(st.e) # 0
    BY <2>3
  <2>6. Len(st.e) \in 1 .. inst.k_max
    BY <2>3, <2>4, <2>5
  <2> QED
    BY <2>6 DEF SearchInv, Yields
<1> QED
  BY <1>1, Searches, PTL

\* Where every time window opens before it ends, as in the instances the program is
\* for, the constant-time test is equivalent to computing the penalties of the rest.
THEOREM SearchTests ==
  ASSUME \A i \in Instances : WindowsOpen(i.p)
  PROVE  Spec => []TestExact
<1>1. SearchInv => TestExact
  <2> SUFFICES ASSUME SearchInv, pc = "test"
               PROVE  Accepts <=> Improving(inst.p, inst.r, inst.ps, p_best, st.e)
    BY DEF TestExact
  <2>1. inst \in Instances
    BY DEF SearchInv, Types
  <2>2. WindowsOpen(inst.p)
    BY <2>1
  <2> QED
    BY <2>2, TestSound
<1> QED
  BY <1>1, Searches, PTL

\* The ejections are visited in lexicographic order, so that none is visited twice.
THEOREM SearchOrder == Spec => Lexicographic
<1>1. SearchInv /\ [Next]_vars =>
        [st'.e # st.e /\ pc' # "dead" => LexicographicallyBefore(st.e, st'.e)]_vars
  <2> SUFFICES ASSUME SearchInv, Next, st'.e # st.e, pc' # "dead"
               PROVE  LexicographicallyBefore(st.e, st'.e)
    OBVIOUS
  <2>1. CASE Start
    BY <2>1, StartStep DEF Moved
  <2>2. CASE Extend
    BY <2>2, ExtendStep DEF Moved
  <2>3. CASE IncrementLast
    BY <2>3, IncrementLastStep DEF Moved
  <2>4. CASE Backtrack
    BY <2>4, BacktrackStep DEF Moved
  <2>5. CASE Accept \/ Reject \/ Resumed \/ Cancelled \/ NothingToEject
    BY <2>5 DEF Accept, Reject, Resumed, Cancelled, NothingToEject
  <2>6. CASE Exhausted
    BY <2>6 DEF Exhausted
  <2> QED
    BY <2>1, <2>2, <2>3, <2>4, <2>5, <2>6 DEF Next
<1> QED
  BY <1>1, Searches, PTL DEF Spec, Lexicographic
-----------------------------------------------------------------------------
(***************************************************************************)
(* The rest of the route where customers from index f on are removed       *)
(* behind those of d, and where they are removed without those of d.       *)
(***************************************************************************)

\* The first nodes of a and b are those of s and t, and from f on b is a without the
\* d customers that only a lacks.
Ahead(a, b, s, t, d, f) ==
  /\ Len(b) = Len(a) + d /\ f - 1 <= Len(b)
  /\ \A g \in 1 .. f - 1 - d : a[g] = s[g]
  /\ \A g \in 1 .. f - 1 : b[g] = t[g]
  /\ \A j \in f .. Len(b) : a[j - d] = b[j]

\* One more customer is removed from both.
LEMMA AheadStep ==
  ASSUME NEW C, NEW a \in Seq(C), NEW b \in Seq(C), NEW s, NEW t, NEW d \in Nat, NEW f \in Nat,
         d < f, Ahead(a, b, s, t, d, f), NEW i \in f .. Len(b)
  PROVE  Ahead(RemoveIndex(a, i - d), RemoveIndex(b, i), s, t, d, f)
<1>1. PICK n \in Nat : n = Len(b)
  OBVIOUS
<1>2. PICK m \in Nat : m = Len(a)
  OBVIOUS
<1>3. n = m + d /\ i \in f .. n /\ i \in 1 .. n /\ i - d \in 1 .. m
  BY <1>1, <1>2 DEF Ahead
<1>4. PICK v : v = RemoveIndex(a, i - d)
  OBVIOUS
<1>5. PICK w : w = RemoveIndex(b, i)
  OBVIOUS
<1>6. /\ Len(v) = m - 1
      /\ \A k \in 1 .. m - 1 : v[k] = IF k < i - d THEN a[k] ELSE a[k + 1]
  BY <1>2, <1>3, <1>4, RemoveIndexElements
<1>7. /\ Len(w) = n - 1
      /\ \A k \in 1 .. n - 1 : w[k] = IF k < i THEN b[k] ELSE b[k + 1]
  <2>1. i \in 1 .. Len(b)
    BY <1>1, <1>3
  <2>2. /\ Len(RemoveIndex(b, i)) = Len(b) - 1
        /\ \A k \in 1 .. Len(b) - 1 :
             RemoveIndex(b, i)[k] = IF k < i THEN b[k] ELSE b[k + 1]
    BY <2>1, RemoveIndexElements
  <2> QED
    BY <1>1, <1>5, <2>2
<1>8. \A g \in 1 .. f - 1 - d : v[g] = s[g]
  <2>1. ASSUME NEW g \in 1 .. f - 1 - d PROVE v[g] = s[g]
    <3>1. g \in 1 .. m - 1 /\ g < i - d
      BY <1>3
    <3> QED
      BY <1>6, <3>1 DEF Ahead
  <2> QED
    BY <2>1
<1>9. \A g \in 1 .. f - 1 : w[g] = t[g]
  <2>1. ASSUME NEW g \in 1 .. f - 1 PROVE w[g] = t[g]
    <3>1. g \in 1 .. n - 1 /\ g < i
      BY <1>3
    <3> QED
      BY <1>7, <3>1 DEF Ahead
  <2> QED
    BY <2>1
<1>10. \A j \in f .. n - 1 : v[j - d] = w[j]
  <2>1. ASSUME NEW j \in f .. n - 1 PROVE v[j - d] = w[j]
    <3>1. /\ j \in 1 .. n - 1 /\ j - d \in 1 .. m - 1 /\ j \in f .. n /\ j + 1 \in f .. n
          /\ (j - d) + 1 = (j + 1) - d /\ (j - d < i - d <=> j < i)
      BY <1>3
    <3>2. a[j - d] = b[j] /\ a[(j + 1) - d] = b[j + 1]
      BY <1>1, <3>1 DEF Ahead
    <3>3. w[j] = IF j < i THEN b[j] ELSE b[j + 1]
      BY <1>7, <3>1
    <3>4. v[j - d] = IF j < i THEN a[j - d] ELSE a[(j + 1) - d]
      BY <1>6, <3>1
    <3> QED
      BY <3>2, <3>3, <3>4
  <2> QED
    BY <2>1
<1>11. Len(w) = Len(v) + d /\ f - 1 <= Len(w)
  BY <1>3, <1>6, <1>7
<1>12. Ahead(v, w, s, t, d, f)
  BY <1>7, <1>8, <1>9, <1>10, <1>11 DEF Ahead
<1> QED
  BY <1>4, <1>5, <1>12

\* y begins with the n indexes of d and goes on with those of z, from f on.
Splits(y, d, z, f) ==
  /\ Len(d) \in Nat /\ Len(z) \in Nat /\ Len(y) = Len(d) + Len(z)
  /\ \A k \in 1 .. Len(d) : y[k] = d[k]
  /\ \A k \in 1 .. Len(z) : z[k] = y[Len(d) + k] /\ f <= z[k]

\* What d leaves, what is left without d, and what only removing z leaves.
LEMMA RestBehind ==
  ASSUME NEW C, NEW r \in Seq(C), NEW f \in 1 .. Len(r), NEW d, NEW y, NEW z,
         Len(d) < f, Picked(r, d, Len(d)), Picked(r, y, Len(y)), Picked(r, z, Len(z)),
         Splits(y, d, z, f),
         \A j \in f .. Len(r) : Rest(r, d)[j - Len(d)] = r[j]
  PROVE  /\ RestSeq(C, r, d) /\ RestSeq(C, r, y) /\ RestSeq(C, r, z)
         /\ Ahead(Rest(r, y), Rest(r, z), Rest(r, d), r, Len(d), f)
<1>1. PICK c \in Nat : c = Len(d)
  BY DEF Splits
<1>2. PICK n \in Nat : n = Len(z)
  BY DEF Splits
<1>3. PICK m \in Nat : m = Len(r)
  OBVIOUS
<1>4. /\ Len(y) = c + n /\ c < f /\ f \in Nat /\ f \in 1 .. m
      /\ Picked(r, d, c) /\ Picked(r, y, c + n) /\ Picked(r, z, n)
      /\ \A k \in 1 .. c : y[k] = d[k]
      /\ \A k \in 1 .. n : z[k] = y[c + k] /\ f <= z[k]
  BY <1>1, <1>2, <1>3 DEF Splits
<1>5. PICK A : A = [k \in 0 .. c + n |-> IF k = 0 THEN r
                                         ELSE RemoveIndex(A[k - 1], y[k] - (k - 1))]
  <2>1. PICK N : N = c + n
    OBVIOUS
  <2>2. Picked(r, y, N)
    BY <1>4, <2>1
  <2>3. \E F : F = [k \in 0 .. N |-> IF k = 0 THEN r
                                     ELSE RemoveIndex(F[k - 1], y[k] - (k - 1))]
    BY <2>2, RemovesExist
  <2> QED
    BY <2>1, <2>3
<1>6. PICK B : B = [k \in 0 .. n |-> IF k = 0 THEN r
                                     ELSE RemoveIndex(B[k - 1], z[k] - (k - 1))]
  <2>1. PICK N : N = n
    OBVIOUS
  <2>2. Picked(r, z, N)
    BY <1>4, <2>1
  <2>3. \E F : F = [k \in 0 .. N |-> IF k = 0 THEN r
                                     ELSE RemoveIndex(F[k - 1], z[k] - (k - 1))]
    BY <2>2, RemovesExist
  <2> QED
    BY <2>1, <2>3
<1>7. A[0] = r /\ \A k \in 1 .. c + n : A[k] = RemoveIndex(A[k - 1], y[k] - (k - 1))
  <2>1. 0 \in 0 .. c + n /\ \A k \in 1 .. c + n : k # 0 /\ k \in 0 .. c + n
    OBVIOUS
  <2> QED
    BY <1>5, <2>1
<1>8. B[0] = r /\ \A k \in 1 .. n : B[k] = RemoveIndex(B[k - 1], z[k] - (k - 1))
  <2>1. 0 \in 0 .. n /\ \A k \in 1 .. n : k # 0 /\ k \in 0 .. n
    OBVIOUS
  <2> QED
    BY <1>6, <2>1
<1>9. Removes(A, r, y, c + n) /\ Removes(B, r, z, n)
  BY <1>7, <1>8 DEF Removes
<1>10. Removes(A, r, d, c)
  <2>1. \A k \in 1 .. c : k \in 1 .. c + n
    OBVIOUS
  <2> QED
    BY <1>4, <1>7, <2>1 DEF Removes
<1>11. Rest(r, y) = A[c + n] /\ Rest(r, z) = B[n] /\ Rest(r, d) = A[c]
  BY <1>4, <1>9, <1>10, RestRemoves
<1>12. /\ \A k \in 0 .. c + n : A[k] \in Seq(C) /\ Len(A[k]) = m - k
       /\ \A k \in 0 .. n : B[k] \in Seq(C) /\ Len(B[k]) = m - k
  <2>1. PICK N : N = c + n
    OBVIOUS
  <2>2. Picked(r, y, N) /\ Removes(A, r, y, N) /\ Picked(r, z, n) /\ Removes(B, r, z, n)
    BY <1>4, <1>9, <2>1
  <2>3. \A k \in 0 .. N : A[k] \in Seq(C) /\ Len(A[k]) = Len(r) - k
    BY <2>2, RemovesSteps
  <2>4. \A k \in 0 .. n : B[k] \in Seq(C) /\ Len(B[k]) = Len(r) - k
    BY <2>2, RemovesSteps
  <2> QED
    BY <1>3, <2>1, <2>3, <2>4
<1> DEFINE T == {k \in 0 .. n : Ahead(A[c + k], B[k], A[c], r, c, f)}
<1>13. 0 \in T
  <2>1. c \in 0 .. c + n /\ 0 \in 0 .. n /\ c + 0 = c
    OBVIOUS
  <2>2. Len(A[c]) = m - c
    BY <1>12, <2>1
  <2>3. \A j \in f .. m : A[c][j - c] = r[j]
    BY <1>1, <1>3, <1>11
  <2>4. Ahead(A[c], r, A[c], r, c, f)
    BY <1>3, <1>4, <2>2, <2>3 DEF Ahead
  <2> QED
    BY <1>8, <2>1, <2>4
<1>14. ASSUME NEW k \in 1 .. n, k - 1 \in T PROVE k \in T
  <2>1. /\ k \in 0 .. n /\ c + k \in 1 .. c + n /\ (c + k) - 1 = c + (k - 1)
        /\ c + (k - 1) \in 0 .. c + n /\ k - 1 \in 0 .. n /\ k \in Nat
    OBVIOUS
  <2>2. PICK a \in Seq(C) : a = A[c + (k - 1)]
    BY <1>12, <2>1
  <2>3. PICK b \in Seq(C) : b = B[k - 1] /\ Len(b) = m - (k - 1)
    BY <1>12, <2>1
  <2>4. PICK i \in Int : i = z[k] /\ f <= i
    <3>1. z[k] \in 1 .. Len(r)
      BY <1>4 DEF Picked
    <3> QED
      BY <1>4, <3>1
  <2>5. B[k] = RemoveIndex(b, i - (k - 1))
    BY <1>8, <2>3, <2>4
  <2>6. A[c + k] = RemoveIndex(a, (i - (k - 1)) - c)
    <3>1. y[c + k] = i
      BY <1>4, <2>4
    <3>2. A[c + k] = RemoveIndex(A[(c + k) - 1], y[c + k] - ((c + k) - 1))
      BY <1>7, <2>1
    <3>3. i - ((c + k) - 1) = (i - (k - 1)) - c
      BY <2>1
    <3> QED
      BY <2>1, <2>2, <3>1, <3>2, <3>3
  <2>7. Ahead(a, b, A[c], r, c, f)
    BY <1>14, <2>2, <2>3
  <2>8. i - (k - 1) \in f .. Len(b)
    <3>1. i <= m /\ f + (k - 1) <= i
      <4>1. i <= m
        BY <1>3, <1>4, <2>4 DEF Picked
      <4> DEFINE U == {j \in 0 .. n : j \in 1 .. n => f + (j - 1) <= z[j]}
      <4>2. \A j \in 1 .. n : z[j] \in Int
        <5>1. \A j \in 1 .. n : z[j] \in 1 .. Len(r)
          BY <1>4 DEF Picked
        <5> QED
          BY <5>1
      <4>3. 0 \in U
        OBVIOUS
      <4>4. ASSUME NEW j \in 1 .. n, j - 1 \in U PROVE j \in U
        <5>1. CASE j = 1
          BY <1>4, <4>2, <5>1
        <5>2. CASE j # 1
          <6>1. j - 1 \in 1 .. n /\ j - 1 < j
            BY <5>2
          <6>2. z[j - 1] < z[j] /\ f + ((j - 1) - 1) <= z[j - 1]
            BY <1>4, <4>4, <6>1 DEF Picked
          <6>3. z[j - 1] \in Int /\ z[j] \in Int
            BY <4>2, <6>1
          <6> QED
            BY <1>4, <6>2, <6>3
        <5> QED
          BY <5>1, <5>2
      <4>5. 0 .. n \subseteq U
        <5> HIDE DEF U
        <5> QED
          BY <4>3, <4>4, UpTo
      <4>6. k \in U
        BY <2>1, <4>5
      <4> QED
        BY <2>4, <4>1, <4>6
    <3> QED
      BY <1>4, <2>1, <2>3, <3>1
  <2>9. Ahead(RemoveIndex(a, (i - (k - 1)) - c), RemoveIndex(b, i - (k - 1)), A[c], r, c, f)
    BY <1>4, <2>7, <2>8, AheadStep
  <2> QED
    BY <2>1, <2>5, <2>6, <2>9
<1>15. 0 .. n \subseteq T
  <2> HIDE DEF T
  <2> QED
    BY <1>13, <1>14, UpTo
<1>16. n \in 0 .. n /\ c + n \in 0 .. c + n /\ c \in 0 .. c + n
  OBVIOUS
<1>17. Ahead(A[c + n], B[n], A[c], r, c, f)
  BY <1>15, <1>16
<1> QED
  BY <1>1, <1>2, <1>3, <1>4, <1>11, <1>12, <1>16, <1>17 DEF RestSeq
\* Two routes that share their nodes from an index on, and the arrival there.
SharesArrivals(p, q, r, d, i, h) ==
  /\ i \in d .. h /\ h - d <= Len(q) + 1 /\ h <= Len(r) + 1
  /\ \A j \in i .. h : Id(q, j - d) = Id(r, j)
  /\ Arrivals(p, q)[i - d] = Arrivals(p, r)[i]

\* They are served at the same times.
LEMMA SameArrivals ==
  ASSUME NEW p, NEW q, NEW r, RouteOf(p, q), RouteOf(p, r), NEW d \in Nat, NEW h \in Nat, NEW i,
         SharesArrivals(p, q, r, d, i, h)
  PROVE  /\ \A j \in i .. h : Arrivals(p, q)[j - d] = Arrivals(p, r)[j]
         /\ \A j \in i + 1 .. h : ArrivalQuote(p, q, j - d) = ArrivalQuote(p, r, j)
<1>1. i \in Nat /\ i <= h /\ d <= i
  BY DEF SharesArrivals
<1>2. PICK n \in Nat : n = h - i
  BY <1>1
<1>3. Len(q) \in Nat /\ Len(r) \in Nat
  BY NodeData
<1> DEFINE T == {k \in 0 .. n : Arrivals(p, q)[(i + k) - d] = Arrivals(p, r)[i + k]}
<1>4. ASSUME NEW j \in i + 1 .. h, Arrivals(p, q)[(j - 1) - d] = Arrivals(p, r)[j - 1]
      PROVE  /\ ArrivalQuote(p, q, j - d) = ArrivalQuote(p, r, j)
             /\ Arrivals(p, q)[j - d] = Arrivals(p, r)[j]
  <2>1. /\ j \in i .. h /\ j - 1 \in i .. h /\ j - d \in 1 .. Len(q) + 1 /\ j \in 1 .. Len(r) + 1
        /\ (j - d) - 1 = (j - 1) - d
    BY <1>1, <1>3 DEF SharesArrivals
  <2>2. Id(q, j - d) = Id(r, j) /\ Id(q, (j - d) - 1) = Id(r, j - 1)
    BY <2>1 DEF SharesArrivals
  <2>3. ArrivalQuote(p, q, j - d) = ArrivalQuote(p, r, j)
    BY <1>4, <2>1, <2>2 DEF ArrivalQuote
  <2>4. Arrivals(p, q)[j - d] = Clip(p, Id(q, j - d), ArrivalQuote(p, q, j - d))
    BY <2>1, ArrivalsSteps DEF ArrivalQuote
  <2>5. Arrivals(p, r)[j] = Clip(p, Id(r, j), ArrivalQuote(p, r, j))
    BY <2>1, ArrivalsSteps DEF ArrivalQuote
  <2> QED
    BY <2>2, <2>3, <2>4, <2>5
<1>5. 0 \in T
  BY <1>1, <1>2 DEF SharesArrivals
<1>6. ASSUME NEW k \in 1 .. n, k - 1 \in T PROVE k \in T
  <2>1. i + k \in i + 1 .. h /\ (i + k) - 1 = i + (k - 1) /\ k \in 0 .. n
    BY <1>1, <1>2
  <2>2. Arrivals(p, q)[((i + k) - 1) - d] = Arrivals(p, r)[(i + k) - 1]
    BY <1>6, <2>1
  <2>3. Arrivals(p, q)[(i + k) - d] = Arrivals(p, r)[i + k]
    BY <1>4, <2>1, <2>2
  <2> QED
    BY <2>1, <2>3
<1>7. 0 .. n \subseteq T
  <2> HIDE DEF T
  <2> QED
    BY <1>2, <1>5, <1>6, UpTo
<1>8. \A j \in i .. h : Arrivals(p, q)[j - d] = Arrivals(p, r)[j]
  <2>1. ASSUME NEW j \in i .. h PROVE Arrivals(p, q)[j - d] = Arrivals(p, r)[j]
    <3>1. j - i \in 0 .. n /\ i + (j - i) = j
      BY <1>1, <1>2
    <3>2. j - i \in T
      BY <1>7, <3>1
    <3> QED
      BY <3>1, <3>2
  <2> QED
    BY <2>1
<1>9. \A j \in i + 1 .. h : j - 1 \in i .. h
  BY <1>1
<1> QED
  BY <1>4, <1>8, <1>9

\* What the removals behind d do to the total demand.
LEMMA LoadFalls ==
  ASSUME NEW p, NEW r, RouteOf(p, r), \A c \in 0 .. p.n : p.demand[c] >= 0,
         NEW z, NEW n, Picked(r, z, n)
  PROVE  RouteOf(p, Rest(r, z)) /\ Load(p, Rest(r, z)) \in Int /\ Load(p, r) \in Int
         /\ Load(p, Rest(r, z)) <= Load(p, r)
<1>1. PICK C : C = 1 .. p.n
  OBVIOUS
<1>2. r \in Seq(C) /\ Instance(p) /\ n \in Nat /\ Len(r) \in Nat
  BY <1>1 DEF RouteOf, Picked
<1>3. PICK B : B = [k \in 0 .. n |-> IF k = 0 THEN r
                                     ELSE RemoveIndex(B[k - 1], z[k] - (k - 1))]
  <2>1. PICK N : N = n
    OBVIOUS
  <2>2. Picked(r, z, N)
    BY <2>1
  <2>3. \E F : F = [k \in 0 .. N |-> IF k = 0 THEN r
                                     ELSE RemoveIndex(F[k - 1], z[k] - (k - 1))]
    BY <1>2, <2>2, RemovesExist
  <2> QED
    BY <2>1, <2>3
<1>4. B[0] = r /\ \A k \in 1 .. n : B[k] = RemoveIndex(B[k - 1], z[k] - (k - 1))
  <2>1. 0 \in 0 .. n /\ \A k \in 1 .. n : k # 0 /\ k \in 0 .. n
    BY <1>2
  <2> QED
    BY <1>3, <2>1
<1>5. Removes(B, r, z, n)
  BY <1>4 DEF Removes
<1>6. Rest(r, z) = B[n]
  BY <1>2, <1>5, RestRemoves
<1>7. \A k \in 0 .. n : B[k] \in Seq(C) /\ Len(B[k]) = Len(r) - k
  BY <1>2, <1>5, RemovesSteps
<1> DEFINE T == {k \in 0 .. n : Load(p, B[k]) \in Int /\ Load(p, B[k]) <= Load(p, r)}
<1>8. Load(p, r) \in Int
  <2>1. Len(r) + 1 \in 0 .. Len(r) + 1
    BY <1>2
  <2> QED
    BY <2>1, PrefixDemandSteps DEF Load
<1>9. 0 \in T
  BY <1>2, <1>4, <1>8
<1>10. ASSUME NEW k \in 1 .. n, k - 1 \in T PROVE k \in T
  <2>1. k \in 0 .. n /\ k - 1 \in 0 .. n
    BY <1>2
  <2>2. PICK b \in Seq(C) : b = B[k - 1] /\ Len(b) = Len(r) - (k - 1)
    BY <1>7, <2>1
  <2>3. z[k] \in Int /\ k <= z[k] /\ z[k] <= Len(r)
    BY <1>2, PickedBounds
  <2>4. PICK i \in 1 .. Len(b) : i = z[k] - (k - 1)
    BY <1>2, <2>2, <2>3
  <2>5. B[k] = RemoveIndex(b, i)
    BY <1>4, <2>2, <2>4
  <2>6. RouteOf(p, b)
    BY <1>1, <1>2, <2>2 DEF RouteOf
  <2>7. Load(p, b) \in Int /\ p.demand[b[i]] \in Int /\ Load(p, B[k]) = Load(p, b) - p.demand[b[i]]
    BY <2>4, <2>5, <2>6, LoadRemoved
  <2>8. b[i] \in 0 .. p.n
    <3>1. b[i] \in C
      BY <2>2, <2>4
    <3> QED
      BY <1>1, <3>1
  <2>9. p.demand[b[i]] >= 0
    BY <2>8
  <2>10. Load(p, b) <= Load(p, r)
    BY <1>10, <2>2
  <2>11. Load(p, B[k]) \in Int /\ Load(p, B[k]) <= Load(p, r)
    BY <1>8, <2>7, <2>9, <2>10
  <2> QED
    BY <2>1, <2>11
<1>11. 0 .. n \subseteq T
  <2> HIDE DEF T
  <2> QED
    BY <1>2, <1>9, <1>10, UpTo
<1>12. n \in 0 .. n
  BY <1>2
<1>13. RouteOf(p, B[n])
  BY <1>1, <1>2, <1>7, <1>12 DEF RouteOf
<1> QED
  BY <1>6, <1>8, <1>11, <1>12, <1>13

\* The customers an ejection takes out of a route.
LEMMA EjectedSeq ==
  ASSUME NEW C, NEW r \in Seq(C), NEW x, NEW n, Picked(r, x, n)
  PROVE  /\ n \in Nat /\ Len(x) = n /\ Len(Ejected(r, x)) = n /\ Ejected(r, x) \in Seq(C)
         /\ \A k \in 1 .. n : Ejected(r, x)[k] = r[x[k]] /\ r[x[k]] \in C
<1>1. n \in Nat /\ x \in [1 .. n -> 1 .. Len(r)]
  BY DEF Picked
<1>2. DOMAIN x = 1 .. n /\ Len(x) = n /\ \A k \in 1 .. n : x[k] \in 1 .. Len(r)
  BY <1>1
<1>3. \A k \in 1 .. n : r[x[k]] \in C
  <2>1. \A i \in 1 .. Len(r) : r[i] \in C
    BY ElementOfSeq
  <2> QED
    BY <1>2, <2>1, Zenon
<1>4. PICK cs : cs = [k \in 1 .. n |-> r[x[k]]]
  OBVIOUS
<1>5. Ejected(r, x) = cs
  BY <1>2, <1>4 DEF Ejected
<1>6. cs \in Seq(C) /\ Len(cs) = n /\ \A k \in 1 .. n : cs[k] = r[x[k]]
  BY <1>1, <1>3, <1>4
<1> QED
  BY <1>1, <1>2, <1>3, <1>5, <1>6

\* The running sums of p over an ejection.
SumsOver(f, ps, r, x, n) ==
  /\ f[0] = 0 /\ \A k \in 1 .. n : ps[r[x[k]]] \in Nat /\ f[k] = f[k - 1] + ps[r[x[k]]]
  /\ \A k \in 0 .. n : f[k] \in Nat

\* They exist, and the last one is the sum.
LEMMA SumsOverExist ==
  ASSUME NEW C, NEW r \in Seq(C), NEW x, NEW n, Picked(r, x, n), NEW ps, ps \in [C -> Nat]
  PROVE  \E f : SumsOver(f, ps, r, x, n)
<1>1. /\ n \in Nat /\ Ejected(r, x) \in Seq(C) /\ Len(Ejected(r, x)) = n
      /\ \A k \in 1 .. n : r[x[k]] \in C
  BY EjectedSeq
<1>2. PICK q : q = [k \in 1 .. n |-> ps[r[x[k]]]]
  OBVIOUS
<1>3. \A k \in 1 .. n : ps[r[x[k]]] \in Nat /\ q[k] = ps[r[x[k]]]
  BY <1>1, <1>2
<1>4. q \in [1 .. n -> Int]
  <2>1. \A k \in 1 .. n : ps[r[x[k]]] \in Int
    BY <1>3
  <2> QED
    BY <1>2, <2>1
<1>5. PICK f : f = [k \in 0 .. n |-> IF k = 0 THEN 0 ELSE f[k - 1] + q[k]]
  BY <1>1, <1>4, SumsExist
<1>6. f[0] = 0 /\ \A k \in 1 .. n : f[k] = f[k - 1] + ps[r[x[k]]]
  <2>1. 0 \in 0 .. n /\ \A k \in 1 .. n : k # 0 /\ k \in 0 .. n
    BY <1>1
  <2>2. f[0] = 0 /\ \A k \in 1 .. n : f[k] = f[k - 1] + q[k]
    BY <1>5, <2>1
  <2> QED
    BY <1>3, <2>2
<1> DEFINE T == {k \in 0 .. n : f[k] \in Nat}
<1>7. 0 \in T
  BY <1>1, <1>6
<1>8. ASSUME NEW k \in 1 .. n, k - 1 \in T PROVE k \in T
  <2>1. f[k - 1] \in Nat /\ k \in 0 .. n
    BY <1>1, <1>8
  <2>2. f[k] = f[k - 1] + ps[r[x[k]]] /\ ps[r[x[k]]] \in Nat
    BY <1>3, <1>6
  <2>3. f[k] \in Nat
    BY <2>1, <2>2
  <2> QED
    BY <2>1, <2>3
<1>9. 0 .. n \subseteq T
  <2> HIDE DEF T
  <2> QED
    BY <1>1, <1>7, <1>8, UpTo
<1> QED
  BY <1>3, <1>6, <1>9 DEF SumsOver

\* Two tuples have the same first m elements.
Agree(y, x, m) == \A k \in 1 .. m : y[k] = x[k]

\* So they give the sum of any tuple that agrees with the first indexes.
LEMMA SumsOverLast ==
  ASSUME NEW C, NEW r \in Seq(C), NEW x, NEW n, NEW ps, ps \in [C -> Nat], NEW f,
         SumsOver(f, ps, r, x, n), NEW y, NEW m, Picked(r, y, m), n \in Nat, m <= n,
         Agree(y, x, m)
  PROVE  PSum(ps, Ejected(r, y)) = f[m] /\ f[m] \in Nat
<1>1. PICK cs \in Seq(C) : cs = Ejected(r, y) /\ Len(cs) = m /\ m \in Nat
  BY EjectedSeq
<1>2. \A k \in 1 .. m : cs[k] = r[x[k]]
  BY <1>1, EjectedSeq DEF Agree
<1>3. Adds(f, ps, cs)
  <2>1. \A k \in 1 .. m : k \in 1 .. n
    BY <1>1
  <2> QED
    BY <1>1, <1>2, <2>1 DEF Adds, SumsOver
<1>4. PSum(ps, cs) = f[Len(cs)] /\ PSum(ps, cs) \in Nat
  BY <1>3, PSumAdds
<1> QED
  BY <1>1, <1>4

\* More customers have no smaller sum, and leaving out the first ones has no larger one.
LEMMA SumsOverSplit ==
  ASSUME NEW C, NEW r \in Seq(C), NEW ps, ps \in [C -> Nat], NEW d, NEW y, NEW z, NEW f,
         Picked(r, d, Len(d)), Picked(r, y, Len(y)), Picked(r, z, Len(z)), Splits(y, d, z, f)
  PROVE  /\ PSum(ps, Ejected(r, d)) \in Nat /\ PSum(ps, Ejected(r, z)) \in Nat
         /\ PSum(ps, Ejected(r, y)) = PSum(ps, Ejected(r, d)) + PSum(ps, Ejected(r, z))
<1>1. PICK c \in Nat : c = Len(d)
  BY DEF Splits
<1>2. PICK n \in Nat : n = Len(z)
  BY DEF Splits
<1>3. /\ Len(y) = c + n /\ Picked(r, d, c) /\ Picked(r, y, c + n) /\ Picked(r, z, n)
      /\ \A k \in 1 .. c : y[k] = d[k]
      /\ \A k \in 1 .. n : z[k] = y[c + k]
  BY <1>1, <1>2 DEF Splits
<1>4. PICK F : SumsOver(F, ps, r, y, c + n)
  BY <1>3, SumsOverExist
<1>5. PICK G : SumsOver(G, ps, r, z, n)
  BY <1>3, SumsOverExist
<1>6. PSum(ps, Ejected(r, d)) = F[c] /\ F[c] \in Nat
  <2>1. Agree(d, y, c)
    BY <1>3 DEF Agree
  <2>2. PICK N \in Nat : N = c + n
    OBVIOUS
  <2>3. SumsOver(F, ps, r, y, N) /\ Picked(r, d, c) /\ c <= N
    BY <1>3, <1>4, <2>2
  <2> QED
    BY <2>1, <2>2, <2>3, SumsOverLast
<1>7. PSum(ps, Ejected(r, y)) = F[c + n] /\ F[c + n] \in Nat
  <2>1. c + n \in Nat /\ c + n <= c + n /\ Agree(y, y, c + n)
    BY DEF Agree
  <2> QED
    BY <1>3, <1>4, <2>1, SumsOverLast
<1>8. PSum(ps, Ejected(r, z)) = G[n] /\ G[n] \in Nat
  <2>1. n \in Nat /\ n <= n /\ Agree(z, z, n)
    BY DEF Agree
  <2> QED
    BY <1>3, <1>5, <2>1, SumsOverLast
<1> DEFINE T == {k \in 0 .. n : F[c + k] = F[c] + G[k]}
<1>9. 0 \in T
  BY <1>6, <1>5 DEF SumsOver
<1>10. ASSUME NEW k \in 1 .. n, k - 1 \in T PROVE k \in T
  <2>1. /\ k \in 0 .. n /\ k - 1 \in 0 .. n /\ c + k \in 1 .. c + n /\ (c + k) - 1 = c + (k - 1)
        /\ c + (k - 1) \in 0 .. c + n
    OBVIOUS
  <2>2. /\ F[c + k] = F[(c + k) - 1] + ps[r[y[c + k]]] /\ ps[r[y[c + k]]] \in Nat
        /\ G[k] = G[k - 1] + ps[r[z[k]]] /\ G[k - 1] \in Nat /\ F[c + (k - 1)] \in Nat
    BY <1>4, <1>5, <2>1 DEF SumsOver
  <2>3. z[k] = y[c + k] /\ F[c + (k - 1)] = F[c] + G[k - 1]
    BY <1>3, <1>10
  <2>4. F[c + k] = F[c] + G[k]
    BY <1>6, <2>1, <2>2, <2>3
  <2> QED
    BY <2>1, <2>4
<1>11. 0 .. n \subseteq T
  <2> HIDE DEF T
  <2> QED
    BY <1>9, <1>10, UpTo
<1>12. n \in 0 .. n
  OBVIOUS
<1> QED
  BY <1>6, <1>7, <1>8, <1>11, <1>12
-----------------------------------------------------------------------------
(***************************************************************************)
(* What pruning hides.  Where b) ends a branch every ejection in it is     *)
(* late; where c) does, a feasible one needs none of the customers before  *)
(* its last one, and without them it is smaller and no more expensive.     *)
(***************************************************************************)

\* An ejection is an increasing tuple of at most k_max indexes.
LEMMA EjectionPicked ==
  ASSUME NEW C, NEW r \in Seq(C), NEW k_max \in Nat, NEW y \in Ejections(r, k_max)
  PROVE  Picked(r, y, Len(y)) /\ Len(y) \in 1 .. k_max /\ y \in Seq(Nat)
<1>1. Len(r) \in Nat
  OBVIOUS
<1>2. PICK k \in 1 .. MIN(k_max, Len(r)) :
        y \in [1 .. k -> 1 .. Len(r)] /\ \A i, j \in 1 .. k : i < j => y[i] < y[j]
  BY DEF Ejections
<1>3. k \in 1 .. k_max
  BY <1>1, <1>2 DEF MIN
<1>4. Len(y) = k /\ y \in Seq(Nat)
  BY <1>1, <1>2, <1>3
<1> QED
  BY <1>2, <1>3, <1>4 DEF Picked

\* And every such tuple is one.
LEMMA PickedEjection ==
  ASSUME NEW C, NEW r \in Seq(C), NEW k_max \in Nat, NEW y, NEW n, Picked(r, y, n), n \in 1 .. k_max
  PROVE  y \in Ejections(r, k_max)
<1>1. Len(r) \in Nat /\ y \in [1 .. n -> 1 .. Len(r)] /\ \A i, j \in 1 .. n : i < j => y[i] < y[j]
  BY DEF Picked
<1>2. n <= Len(r)
  <2>1. n \in 1 .. n
    OBVIOUS
  <2>2. y[n] \in Int /\ n <= y[n] /\ y[n] <= Len(r)
    BY <2>1, PickedBounds
  <2> QED
    BY <1>1, <2>2
<1>3. n \in 1 .. MIN(k_max, Len(r))
  BY <1>1, <1>2 DEF MIN
<1> QED
  BY <1>1, <1>3 DEF Ejections

\* The last k indexes of an ejection.
Suffix(y, c) == [k \in 1 .. Len(y) - c |-> y[c + k]]

\* y goes on at or behind index f where d ends.
Continues(y, d, f) == Len(d) < Len(y) /\ Agree(y, d, Len(d)) /\ f <= y[Len(d) + 1]

\* An ejection that goes on behind d is split there.
LEMMA SuffixPicked ==
  ASSUME NEW C, NEW r \in Seq(C), NEW f \in Nat, NEW d, Len(d) \in Nat,
         NEW y, Picked(r, y, Len(y)), Continues(y, d, f)
  PROVE  /\ Len(Suffix(y, Len(d))) = Len(y) - Len(d)
         /\ Picked(r, Suffix(y, Len(d)), Len(Suffix(y, Len(d))))
         /\ Splits(y, d, Suffix(y, Len(d)), f)
<1>1. PICK c \in Nat : c = Len(d)
  OBVIOUS
<1>2. PICK m \in Nat : m = Len(y)
  BY DEF Picked
<1>3. PICK n \in Nat : n = m - c /\ n # 0
  BY <1>1, <1>2 DEF Continues
<1>4. PICK z : z = Suffix(y, c)
  OBVIOUS
<1>5. z = [k \in 1 .. n |-> y[c + k]]
  BY <1>2, <1>3, <1>4 DEF Suffix
<1>6. \A k \in 1 .. n : c + k \in 1 .. m
  BY <1>3
<1>7. y \in [1 .. m -> 1 .. Len(r)] /\ \A i, j \in 1 .. m : i < j => y[i] < y[j]
  BY <1>2 DEF Picked
<1>8. z \in [1 .. n -> 1 .. Len(r)] /\ \A k \in 1 .. n : z[k] = y[c + k]
  BY <1>5, <1>6, <1>7
<1>9. Len(z) = n
  BY <1>8
<1>10. \A i, j \in 1 .. n : i < j => z[i] < z[j]
  <2>1. ASSUME NEW i \in 1 .. n, NEW j \in 1 .. n, i < j PROVE z[i] < z[j]
    <3>1. c + i \in 1 .. m /\ c + j \in 1 .. m /\ c + i < c + j
      BY <1>6, <2>1
    <3> QED
      BY <1>7, <1>8, <3>1
  <2> QED
    BY <2>1
<1>11. Picked(r, z, n)
  BY <1>8, <1>10 DEF Picked
<1>12. \A k \in 1 .. n : f <= z[k]
  <2>1. ASSUME NEW k \in 1 .. n PROVE f <= z[k]
    <3>1. c + 1 \in 1 .. m /\ c + k \in 1 .. m /\ f <= y[c + 1]
      BY <1>1, <1>3, <1>6 DEF Continues
    <3>2. y[c + 1] \in Int /\ y[c + k] \in Int
      BY <1>7, <3>1
    <3>3. k = 1 \/ y[c + 1] < y[c + k]
      BY <1>7, <3>1
    <3> QED
      BY <1>8, <3>1, <3>2, <3>3
  <2> QED
    BY <2>1
<1>13. Splits(y, d, z, f)
  BY <1>1, <1>2, <1>3, <1>8, <1>9, <1>12 DEF Splits, Continues, Agree
<1> QED
  BY <1>1, <1>2, <1>3, <1>4, <1>9, <1>11, <1>13

\* What is left begins with the kept customers, at their times.
LEMMA KeptStay ==
  ASSUME NEW p, NEW r, RouteOf(p, r), NEW f \in 1 .. Len(r), NEW ne, NEW d, Share(ne, d, f),
         NEW y, NEW z, Picked(r, y, Len(y)), Picked(r, z, Len(z)), Splits(y, d, z, f),
         NEW at, NEW ae, Timed(p, r, at, ae, ToSet(ne), f - 1)
  PROVE  /\ RouteOf(p, Rest(r, y)) /\ RouteOf(p, Rest(r, z))
         /\ Ahead(Rest(r, y), Rest(r, z), Rest(r, d), r, Len(d), f)
         /\ Len(ne) \in Nat /\ Len(ne) + Len(d) = f /\ Len(ne) - 1 <= Len(Rest(r, y))
         /\ Follows(Rest(r, y), r, ne)
         /\ \A k \in 0 .. Len(ne) - 1 : Arrives(p, Rest(r, y), r, at, ae, ne, k)
<1>1. PICK g \in 0 .. Len(r) : g = f - 1 /\ g + 1 = f
  OBVIOUS
<1>2. g \in Nat /\ f \in Nat /\ Share(ne, d, g + 1) /\ r \in Seq(1 .. p.n) /\ g \in 0 .. Len(r) + 1
  BY <1>1, NodeData DEF RouteOf
<1>3. RestSeq(1 .. p.n, r, d) /\ RestIs(r, ne, d, f)
  <2>1. Share(ne, d, g + 1) /\ r \in Seq(1 .. p.n)
    BY <1>2
  <2>2. RestSeq(1 .. p.n, r, d) /\ RestIs(r, ne, d, g + 1)
    BY <2>1, RestShare
  <2> QED
    BY <1>1, <2>2
<1>4. PICK c \in Nat : c = Len(d)
  BY DEF Splits
<1>5. PICK n \in Nat : n = Len(ne) /\ n + c = f /\ n # 0
  <2>1. Len(ne) \in Nat /\ Len(ne) # 0
    BY <1>2, ShareKept
  <2>2. Len(ne) + Len(d) = g + 1
    BY <1>2, ShareLen
  <2> QED
    BY <1>1, <1>4, <2>1, <2>2
<1>6. Picked(r, d, Len(d))
  BY <1>2, SharePicked
<1>7. PICK q : q = Rest(r, y)
  OBVIOUS
<1>8. PICK b : b = Rest(r, z)
  OBVIOUS
<1>9. /\ RestSeq(1 .. p.n, r, y) /\ RestSeq(1 .. p.n, r, z)
      /\ Ahead(q, b, Rest(r, d), r, c, f)
  <2>1. Len(d) < f
    BY <1>4, <1>5
  <2>2. \A j \in f .. Len(r) : Rest(r, d)[j - Len(d)] = r[j]
    BY <1>3 DEF RestIs
  <2>3. /\ RestSeq(1 .. p.n, r, y) /\ RestSeq(1 .. p.n, r, z)
        /\ Ahead(Rest(r, y), Rest(r, z), Rest(r, d), r, Len(d), f)
    BY <1>2, <1>6, <2>1, <2>2, RestBehind
  <2> QED
    BY <1>4, <1>7, <1>8, <2>3
<1>10. RouteOf(p, q) /\ RouteOf(p, b)
  BY <1>7, <1>8, <1>9 DEF RouteOf, RestSeq
<1>11. PICK m \in Nat : m = Len(q)
  BY <1>10, NodeData
<1>12. n - 1 <= m
  <2>1. Len(b) \in Nat
    BY <1>10, NodeData
  <2> QED
    BY <1>4, <1>5, <1>9, <1>11, <2>1 DEF Ahead
<1>13. Within(ne, g) /\ \A k \in 1 .. n - 1 : ne[k + 1] \in 1 .. g
  BY <1>2, <1>5, ShareKept
<1>14. \A k \in 0 .. n - 1 : Id(q, k) = Id(r, ne[k + 1])
  <2>1. ASSUME NEW k \in 0 .. n - 1 PROVE Id(q, k) = Id(r, ne[k + 1])
    <3>1. CASE k = 0
      <4>1. ne[k + 1] = 0
        BY <1>13, <3>1 DEF Within
      <4> QED
        BY <3>1, <4>1 DEF Id
    <3>2. CASE k # 0
      <4>1. k \in 1 .. n - 1 /\ k \in 1 .. m /\ k \in 1 .. (f - 1) - c
        BY <1>5, <1>12, <3>2
      <4>2. q[k] = Rest(r, d)[k]
        BY <1>4, <1>9, <4>1 DEF Ahead
      <4>3. Rest(r, d)[k] = r[ne[k + 1]]
        BY <1>3, <1>5, <4>1 DEF RestIs
      <4>4. ne[k + 1] \in 1 .. Len(r)
        <5>1. ne[k + 1] \in 1 .. g
          BY <1>13, <4>1
        <5> QED
          BY <1>1, <1>2, <5>1
      <4> QED
        BY <1>11, <4>1, <4>2, <4>3, <4>4 DEF Id
    <3> QED
      BY <3>1, <3>2
  <2> QED
    BY <2>1
<1>15. Follows(q, r, ne)
  BY <1>5, <1>11, <1>12, <1>14 DEF Follows
<1>16. \A k \in 0 .. Len(ne) - 1 : Arrives(p, q, r, at, ae, ne, k)
  <2>1. Timed(p, r, at, ae, ToSet(ne), g)
    BY <1>1
  <2> QED
    BY <1>2, <1>10, <1>13, <1>15, <2>1, ArrivalsFollow
<1> QED
  BY <1>4, <1>5, <1>7, <1>8, <1>9, <1>10, <1>11, <1>12, <1>15, <1>16

\* b) no ejection that keeps a late customer is feasible.
LEMMA LatePruned ==
  ASSUME NEW p, NEW r, RouteOf(p, r), NEW f \in 1 .. Len(r), NEW ne, NEW d, Share(ne, d, f),
         NEW y, Picked(r, y, Len(y)), Continues(y, d, f),
         NEW at, NEW ae, Timed(p, r, at, ae, ToSet(ne), f - 1), ae[0] = p.e[0],
         WindowsOpen(p), p.l[Id(r, Last(ne))] < ae[Last(ne)]
  PROVE  ~FeasibleEjection(p, r, y)
<1>1. Len(d) \in Nat
  <2>1. d \in Seq(Nat)
    BY DEF Share
  <2> QED
    BY <2>1
<1>2. PICK z : z = Suffix(y, Len(d))
  OBVIOUS
<1>3. Picked(r, z, Len(z)) /\ Splits(y, d, z, f)
  <2>1. r \in Seq(1 .. p.n) /\ f \in Nat
    BY NodeData DEF RouteOf
  <2> QED
    BY <1>1, <1>2, <2>1, SuffixPicked
<1>4. PICK q : q = Rest(r, y)
  OBVIOUS
<1>5. /\ RouteOf(p, q) /\ Len(ne) \in Nat /\ Len(ne) - 1 <= Len(q) /\ Follows(q, r, ne)
      /\ \A k \in 0 .. Len(ne) - 1 : Arrives(p, q, r, at, ae, ne, k)
  BY <1>3, <1>4, KeptStay
<1>6. PICK n \in Nat : n = Len(ne) - 1
  <2>1. Len(q) \in Nat
    BY <1>5, NodeData
  <2>2. Len(ne) \in 1 .. Len(q) + 2
    BY <1>5 DEF Follows
  <2> QED
    BY <2>1, <2>2
<1>7. Last(ne) = ne[n + 1] /\ Len(q) \in Nat /\ n \in 0 .. Len(ne) - 1
  BY <1>5, <1>6, NodeData DEF Last
<1>8. Id(q, n) = Id(r, Last(ne))
  BY <1>5, <1>7 DEF Follows
<1>9. CASE n = 0
  <2>1. ne[1] = 0
    BY DEF Share
  <2>2. Last(ne) = 0 /\ Id(r, 0) = 0
    BY <1>7, <1>9, <2>1 DEF Id
  <2>3. p.e[0] <= p.l[0] /\ p.e[0] \in Int /\ p.l[0] \in Int
    BY NodeData DEF WindowsOpen
  <2> QED
    BY <2>2, <2>3
<1>10. CASE n # 0
  <2>1. n \in 1 .. Len(q) + 1 /\ n \in 0 .. Len(q) + 1
    BY <1>5, <1>6, <1>7, <1>10
  <2>2. PICK t \in Int : t = ArrivalQuote(p, q, n)
    BY <1>5, <2>1, ArrivalQuotes
  <2>3. PICK l \in Int : l = p.l[Id(q, n)]
    BY <1>5, <2>1, ArrivalQuotes
  <2>4. PICK e \in Int : e = p.e[Id(q, n)] /\ e <= l
    <3>1. Id(q, n) \in 0 .. p.n
      BY <1>5, <2>1, RouteLegs
    <3>2. p.e[Id(q, n)] \in Int
      BY <1>5, <2>1, ArrivalQuotes
    <3> QED
      BY <2>3, <3>1, <3>2 DEF WindowsOpen
  <2>5. ae[Last(ne)] = MAX(e, t)
    BY <1>5, <1>7, <1>10, <2>2, <2>4 DEF Arrives
  <2>6. l < MAX(e, t)
    BY <1>8, <2>3, <2>5
  <2>7. ~(t <= l)
    BY <2>4, <2>6 DEF MAX
  <2>8. TwPenalty(p, q) # 0
    BY <1>5, <2>1, <2>2, <2>3, <2>7, NoLateness
  <2> QED
    BY <1>4, <2>8 DEF FeasibleEjection
<1> QED
  BY <1>9, <1>10

\* The arrival is the quote, moved into the time window.
LEMMA ArrivalClipped ==
  ASSUME NEW p, NEW r, RouteOf(p, r), NEW i \in 1 .. Len(r) + 1
  PROVE  Arrivals(p, r)[i] = Clip(p, Id(r, i), ArrivalQuote(p, r, i))
BY ArrivalsSteps DEF ArrivalQuote

\* c) where the vehicle is on its original time behind d, d is not needed.
LEMMA PrefixPruned ==
  ASSUME NEW p, NEW r, RouteOf(p, r), NEW f \in 1 .. Len(r), NEW ne, NEW d, Share(ne, d, f),
         NEW y, NEW z, Picked(r, y, Len(y)), Picked(r, z, Len(z)), Splits(y, d, z, f),
         NEW at, NEW ae, Timed(p, r, at, ae, ToSet(ne), f - 1),
         Last(ne) + 1 = f, f # 1, ae[f - 1] = Earliest(p, r, f - 1),
         \A i \in 1 .. f - 1 : i \notin Late(p, r),
         TwPenalty(p, Rest(r, y)) = 0
  PROVE  TwPenalty(p, Rest(r, z)) = 0
<1>1. PICK c \in Nat : c = Len(d)
  BY DEF Splits
<1>2. PICK q : q = Rest(r, y)
  OBVIOUS
<1>3. PICK b : b = Rest(r, z)
  OBVIOUS
<1>4. /\ RouteOf(p, q) /\ RouteOf(p, b) /\ Ahead(q, b, Rest(r, d), r, c, f)
      /\ Len(ne) \in Nat /\ Len(ne) + c = f /\ Len(ne) - 1 <= Len(q)
      /\ Follows(q, r, ne)
      /\ \A k \in 0 .. Len(ne) - 1 : Arrives(p, q, r, at, ae, ne, k)
  BY <1>1, <1>2, <1>3, KeptStay
<1>5. PICK n \in Nat : n = f - 1 /\ n # 0 /\ n \in 1 .. Len(r) /\ n + 1 = f
  BY NodeData
<1>6. PICK m \in Nat : m = Len(b)
  BY <1>4, NodeData
<1>7. Len(q) = m - c /\ Len(q) \in Nat /\ n <= m /\ n - c <= Len(q) /\ Len(ne) - 1 = n - c /\ c <= n
  <2>1. Len(q) \in Nat
    BY <1>4, NodeData
  <2>2. Len(ne) # 0
    <3>1. Len(ne) \in 1 .. Len(q) + 2
      BY <1>4 DEF Follows
    <3> QED
      BY <2>1, <3>1
  <2>3. m = Len(q) + c /\ f - 1 <= m
    BY <1>4, <1>6 DEF Ahead
  <2> QED
    BY <1>4, <1>5, <2>1, <2>2, <2>3
<1>8. Last(ne) = ne[(n - c) + 1] /\ Last(ne) = n
  <2>1. Last(ne) \in Nat
    <3>1. ne \in Seq(Nat) /\ ne # <<>>
      BY DEF Share
    <3> QED
      BY <3>1, FrontLast
  <2>2. Len(ne) = (n - c) + 1
    BY <1>4, <1>7
  <2> QED
    BY <1>5, <2>1, <2>2 DEF Last
<1>9. /\ Id(q, n - c) = Id(r, n) /\ Arrivals(p, q)[n - c] = at[n]
      /\ n - c # 0 => ae[n] = MAX(p.e[Id(q, n - c)], ArrivalQuote(p, q, n - c))
  <2>1. n - c \in 0 .. Len(ne) - 1
    BY <1>7
  <2>2. Arrives(p, q, r, at, ae, ne, n - c)
    BY <1>4, <2>1
  <2>3. Id(q, n - c) = Id(r, ne[(n - c) + 1])
    BY <1>4, <2>1 DEF Follows
  <2> QED
    BY <1>8, <2>2, <2>3 DEF Arrives
<1>10. n - c # 0
  <2>1. CASE n - c = 0
    <3>1. ne[1] = 0
      BY DEF Share
    <3>2. (n - c) + 1 = 1
      BY <2>1
    <3> QED
      BY <1>5, <1>8, <3>1, <3>2
  <2> QED
    BY <2>1
<1>11. Arrivals(p, q)[n - c] = Arrivals(p, r)[n]
  <2>1. n - c \in 1 .. Len(q) + 1 /\ n \in 1 .. Len(r) + 1
    BY <1>5, <1>7, <1>10
  <2>2. PICK t \in Int : t = ArrivalQuote(p, q, n - c)
    BY <1>4, <2>1, ArrivalQuotes
  <2>3. PICK u \in Int : u = ArrivalQuote(p, r, n)
    BY <2>1, ArrivalQuotes
  <2>4. PICK e \in Int : e = p.e[Id(r, n)]
    BY <2>1, ArrivalQuotes
  <2>5. PICK l \in Int : l = p.l[Id(r, n)]
    BY <2>1, ArrivalQuotes
  <2>6. Earliest(p, r, n) = MAX(e, u)
    BY <1>5, <2>3, <2>4 DEF Earliest, depot_head
  <2>7. ae[n] = MAX(e, t)
    BY <1>9, <1>10, <2>2, <2>4
  <2>8. MAX(e, t) = MAX(e, u)
    BY <1>5, <2>6, <2>7
  <2>9. Arrivals(p, q)[n - c] = MIN(MAX(t, e), l)
    <3>1. Arrivals(p, q)[n - c] = Clip(p, Id(q, n - c), t)
      BY <1>4, <2>1, <2>2, ArrivalClipped
    <3>2. Id(q, n - c) = Id(r, n)
      BY <1>9
    <3> QED
      BY <2>4, <2>5, <3>1, <3>2 DEF Clip
  <2>10. Arrivals(p, r)[n] = MIN(MAX(u, e), l)
    BY <2>1, <2>3, <2>4, <2>5, ArrivalClipped DEF Clip
  <2>11. MAX(t, e) = MAX(u, e)
    BY <2>8 DEF MAX
  <2> QED
    BY <2>9, <2>10, <2>11
<1>12. \A j \in 1 .. n : ArrivalQuote(p, b, j) = ArrivalQuote(p, r, j) /\ Id(b, j) = Id(r, j)
  <2>1. ASSUME NEW j \in 0 .. n PROVE Id(b, j - 0) = Id(r, j)
    <3>1. CASE j = 0
      BY <3>1 DEF Id
    <3>2. CASE j # 0
      <4>1. j \in 1 .. f - 1 /\ j \in 1 .. Len(b) /\ j \in 1 .. Len(r) /\ j - 0 = j
        BY <1>5, <1>6, <1>7, <3>2
      <4>2. b[j] = r[j]
        BY <1>4, <4>1 DEF Ahead
      <4> QED
        BY <4>1, <4>2 DEF Id
    <3> QED
      BY <3>1, <3>2
  <2>2. Arrivals(p, b)[0 - 0] = Arrivals(p, r)[0]
    BY <1>4, ArrivalsSteps
  <2>3. SharesArrivals(p, b, r, 0, 0, n)
    BY <1>5, <1>6, <1>7, <2>1, <2>2 DEF SharesArrivals
  <2>4. PICK o \in Nat : o = 0
    OBVIOUS
  <2>5. SharesArrivals(p, b, r, o, o, n)
    BY <2>3, <2>4
  <2>6. \A j \in o + 1 .. n : ArrivalQuote(p, b, j - o) = ArrivalQuote(p, r, j)
    BY <1>4, <2>5, SameArrivals
  <2>7. \A j \in 1 .. n : j \in o + 1 .. n /\ j - o = j /\ j \in 0 .. n /\ j - 0 = j
    BY <2>4
  <2> QED
    BY <2>1, <2>6, <2>7
<1>13. Arrivals(p, b)[n] = Arrivals(p, r)[n]
  <2>1. n \in 1 .. n /\ n \in 1 .. Len(b) + 1 /\ n \in 1 .. Len(r) + 1
    BY <1>5, <1>6, <1>7
  <2>2. ArrivalQuote(p, b, n) = ArrivalQuote(p, r, n) /\ Id(b, n) = Id(r, n)
    BY <1>12, <2>1
  <2>3. Arrivals(p, b)[n] = Clip(p, Id(b, n), ArrivalQuote(p, b, n))
    BY <1>4, <2>1, ArrivalClipped
  <2>4. Arrivals(p, r)[n] = Clip(p, Id(r, n), ArrivalQuote(p, r, n))
    BY <2>1, ArrivalClipped
  <2> QED
    BY <2>2, <2>3, <2>4
<1>14. \A j \in n + 1 .. m + 1 :
         ArrivalQuote(p, q, j - c) = ArrivalQuote(p, b, j) /\ Id(q, j - c) = Id(b, j)
  <2>1. ASSUME NEW j \in n .. m + 1 PROVE Id(q, j - c) = Id(b, j)
    <3>1. CASE j = n
      BY <1>5, <1>9, <1>12, <3>1
    <3>2. CASE j = m + 1
      <4>1. ~(j \in 1 .. Len(b)) /\ ~(j - c \in 1 .. Len(q))
        BY <1>6, <1>7, <3>2
      <4> QED
        BY <4>1 DEF Id
    <3>3. CASE j # n /\ j # m + 1
      <4>1. j \in f .. Len(b) /\ j \in 1 .. Len(b) /\ j - c \in 1 .. Len(q)
        BY <1>5, <1>6, <1>7, <3>3
      <4>2. q[j - c] = b[j]
        BY <1>4, <4>1 DEF Ahead
      <4> QED
        BY <4>1, <4>2 DEF Id
    <3> QED
      BY <3>1, <3>2, <3>3
  <2>2. Arrivals(p, q)[n - c] = Arrivals(p, b)[n]
    BY <1>11, <1>13
  <2>3. PICK h \in Nat : h = m + 1
    OBVIOUS
  <2>4. SharesArrivals(p, q, b, c, n, h)
    BY <1>6, <1>7, <2>1, <2>2, <2>3 DEF SharesArrivals
  <2>5. \A j \in n + 1 .. h : ArrivalQuote(p, q, j - c) = ArrivalQuote(p, b, j)
    BY <1>4, <2>4, SameArrivals
  <2>6. \A j \in n + 1 .. m + 1 : j \in n .. m + 1
    OBVIOUS
  <2> QED
    BY <2>1, <2>3, <2>5, <2>6
<1>15. ASSUME NEW j \in 1 .. Len(b) + 1 PROVE ArrivalQuote(p, b, j) <= p.l[Id(b, j)]
  <2>1. CASE j \in 1 .. n
    <3>1. j \in 1 .. f - 1 /\ j \in 1 .. Len(r) /\ j \in 1 .. Len(r) + 1 /\ j # 0
      BY <1>5, <2>1
    <3>2. PICK u \in Int : u = ArrivalQuote(p, r, j)
      BY <3>1, ArrivalQuotes
    <3>3. PICK e \in Int : e = p.e[Id(r, j)]
      BY <3>1, ArrivalQuotes
    <3>4. PICK l \in Int : l = p.l[Id(r, j)]
      BY <3>1, ArrivalQuotes
    <3>5. Earliest(p, r, j) = MAX(e, u)
      BY <3>1, <3>2, <3>3 DEF Earliest, depot_head
    <3>6. ~(l < MAX(e, u))
      BY <3>1, <3>4, <3>5 DEF Late
    <3>7. u <= l
      BY <3>6 DEF MAX
    <3> QED
      BY <1>12, <2>1, <3>2, <3>4, <3>7
  <2>2. CASE ~(j \in 1 .. n)
    <3>1. j \in n + 1 .. m + 1 /\ j - c \in 1 .. Len(q) + 1
      BY <1>6, <1>7, <2>2
    <3>2. ArrivalQuote(p, q, j - c) <= p.l[Id(q, j - c)]
      BY <1>2, <1>4, <3>1, NoLateness
    <3> QED
      BY <1>14, <3>1, <3>2
  <2> QED
    BY <2>1, <2>2
<1>16. TwPenalty(p, b) = 0
  BY <1>4, <1>15, NoLateness
<1> QED
  BY <1>3, <1>16

\* z does as well as y, with fewer customers.
Instead(i, y, z) ==
  /\ Considered(i.p, i.r, z) /\ FeasibleEjection(i.p, i.r, z)
  /\ Len(z) < Len(y) /\ PSum(i.ps, Ejected(i.r, z)) <= PSum(i.ps, Ejected(i.r, y))

\* y need not be visited when p_best is b: it is not one to report, or another is.
Handled(i, b, y) ==
  Considered(i.p, i.r, y) /\ Improving(i.p, i.r, i.ps, b, y) =>
    \E z \in Ejections(i.r, i.k_max) : Instead(i, y, z)

\* No customer has a negative demand.
DemandsNatural(p) == \A c \in 0 .. p.n : p.demand[c] >= 0

\* The sum of an ejection is a natural number.
LEMMA EjectionSum ==
  ASSUME inst \in Instances, NEW y \in Ejections(inst.r, inst.k_max)
  PROVE  /\ PSum(inst.ps, Ejected(inst.r, y)) \in Nat /\ Len(y) \in Nat /\ Len(y) # 0
         /\ Picked(inst.r, y, Len(y)) /\ y \in Seq(Nat) /\ Len(y) \in 1 .. inst.k_max
<1>1. PICK C : C = 1 .. inst.p.n
  OBVIOUS
<1>2. inst.r \in Seq(C) /\ inst.k_max \in Nat /\ inst.ps \in [C -> Nat]
  BY <1>1, Arguments
<1>3. Picked(inst.r, y, Len(y)) /\ Len(y) \in 1 .. inst.k_max /\ y \in Seq(Nat)
  BY <1>2, EjectionPicked
<1>4. PICK cs \in Seq(C) : cs = Ejected(inst.r, y)
  BY <1>2, <1>3, EjectedSeq
<1>5. PSum(inst.ps, cs) \in Nat
  BY <1>2, PSumNat
<1> QED
  BY <1>2, <1>3, <1>4, <1>5

\* A smallest ejection that improves has none instead of it.
LEMMA AllHandled ==
  ASSUME inst \in Instances, NEW b \in Nat,
         \A y \in Ejections(inst.r, inst.k_max) : Handled(inst, b, y)
  PROVE  NoneLeft(inst.p, inst.r, inst.k_max, inst.ps, b)
<1> DEFINE left(y) == /\ y \in Ejections(inst.r, inst.k_max)
                      /\ Considered(inst.p, inst.r, y)
                      /\ Improving(inst.p, inst.r, inst.ps, b, y)
           T == {n \in Nat : \E y : left(y) /\ Len(y) = n}
<1>1. SUFFICES ASSUME NEW y, left(y) PROVE FALSE
  BY DEF NoneLeft
<1>2. Len(y) \in T
  BY <1>1, EjectionSum
<1>3. PICK n \in T : \A k \in T : n <= k
  <2>1. T \subseteq Nat /\ T # {}
    BY <1>2
  <2> HIDE DEF T
  <2> QED
    BY <2>1, LeastElement
<1>4. PICK x : left(x) /\ Len(x) = n /\ n \in Nat
  BY <1>3
<1>5. Handled(inst, b, x)
  BY <1>4
<1>6. PICK z \in Ejections(inst.r, inst.k_max) : Instead(inst, x, z)
  BY <1>4, <1>5 DEF Handled
<1>7. PSum(inst.ps, Ejected(inst.r, z)) \in Nat /\ Len(z) \in Nat
  BY <1>6, EjectionSum
<1>8. PSum(inst.ps, Ejected(inst.r, x)) \in Nat /\ PSum(inst.ps, Ejected(inst.r, x)) < b
  BY <1>4, EjectionSum DEF Improving
<1>9. /\ Considered(inst.p, inst.r, z) /\ FeasibleEjection(inst.p, inst.r, z)
      /\ PSum(inst.ps, Ejected(inst.r, z)) <= PSum(inst.ps, Ejected(inst.r, x))
      /\ Len(z) < n
  BY <1>4, <1>6 DEF Instead
<1>10. PSum(inst.ps, Ejected(inst.r, z)) < b
  BY <1>7, <1>8, <1>9
<1>11. left(z)
  BY <1>9, <1>10 DEF Improving
<1>12. Len(z) \in T
  BY <1>7, <1>11
<1> QED
  BY <1>3, <1>4, <1>7, <1>9, <1>12

\* What is left without z is within the capacity if the whole route is.
LEMMA CapacityKept ==
  ASSUME NEW p, NEW r, RouteOf(p, r), DemandsNatural(p), NEW z, NEW n, Picked(r, z, n),
         ~capacity_violated(p, r)
  PROVE  CPenalty(p, Rest(r, z)) = 0
<1>1. PICK q : q = Rest(r, z)
  OBVIOUS
<1>2. RouteOf(p, q) /\ Load(p, q) \in Int /\ Load(p, r) \in Int /\ Load(p, q) <= Load(p, r)
  BY <1>1, LoadFalls DEF DemandsNatural
<1>3. ~(Load(p, r) > p.vc) /\ p.vc \in Int
  BY DEF capacity_violated, Load, depot_tail, RouteOf, Instance
<1>4. PICK a \in Int : a = Load(p, q) /\ a <= p.vc
  BY <1>2, <1>3
<1>5. CPenalty(p, q) = MAX(0, a - p.vc)
  BY <1>4 DEF CPenalty, Load, depot_tail
<1>6. MAX(0, a - p.vc) = 0
  BY <1>3, <1>4 DEF MAX
<1> QED
  BY <1>1, <1>5, <1>6

\* A considered ejection still takes out every late customer without its first ones
\* if none of those is late.
LEMMA LateCovered ==
  ASSUME NEW p, NEW r, Len(r) \in Nat, NEW f \in 1 .. Len(r), NEW d, NEW y, NEW z, Splits(y, d, z, f),
         DOMAIN y = 1 .. Len(y), DOMAIN z = 1 .. Len(z), DOMAIN d = 1 .. Len(d), Len(d) # 0,
         Len(z) # 0, ToSet(d) \cap Late(p, r) = {},
         ~capacity_violated(p, r), Considered(p, r, y)
  PROVE  Considered(p, r, z) /\ \A i \in 1 .. f - 1 : i \notin Late(p, r)
<1>1. PICK c \in Nat : c = Len(d)
  BY DEF Splits
<1>2. PICK n \in Nat : n = Len(z)
  BY DEF Splits
<1>3. /\ Len(y) = c + n /\ c # 0 /\ n # 0
      /\ \A k \in 1 .. c : y[k] = d[k]
      /\ \A k \in 1 .. n : z[k] = y[c + k] /\ f <= z[k]
  BY <1>1, <1>2 DEF Splits
<1>4. Late(p, r) \subseteq {y[k] : k \in 1 .. c + n}
  <2>1. Len(y) # 1
    BY <1>3
  <2> QED
    BY <1>3, <2>1 DEF Considered
<1>5. ASSUME NEW i \in Late(p, r) PROVE \E k \in 1 .. n : i = z[k]
  <2>1. PICK k \in 1 .. c + n : i = y[k]
    BY <1>4
  <2>2. ~(k \in 1 .. c)
    <3>1. ASSUME k \in 1 .. c PROVE FALSE
      <4>1. i = d[k]
        BY <1>3, <2>1, <3>1
      <4>2. i \in ToSet(d)
        BY <1>1, <3>1, <4>1 DEF ToSet
      <4> QED
        BY <4>2
    <3> QED
      BY <3>1
  <2>3. k - c \in 1 .. n /\ c + (k - c) = k
    BY <2>2
  <2> QED
    BY <1>3, <2>1, <2>3
<1>6. Late(p, r) \subseteq {z[k] : k \in DOMAIN z}
  BY <1>2, <1>5
<1>7. ASSUME NEW i \in 1 .. f - 1 PROVE i \notin Late(p, r)
  <2>1. ASSUME i \in Late(p, r) PROVE FALSE
    <3>1. PICK k \in 1 .. n : i = z[k]
      BY <1>5, <2>1
    <3>2. f <= i
      BY <1>3, <3>1
    <3> QED
      BY <3>2
  <2> QED
    BY <2>1
<1> QED
  BY <1>6, <1>7 DEF Considered

\* y is in the branch of e or in one behind it that shares e but for its last index.
Beyond(y, e) == Continues(y, Front(e), Last(e))

\* Where the search gives up a branch, what is in it and behind it need not be visited.
LEMMA BranchHandled ==
  ASSUME inst \in Instances, WindowsOpen(inst.p), DemandsNatural(inst.p),
         NEW f \in 1 .. Len(inst.r), NEW x, Stacked(x, f), Summed(x), x.e # <<>>, Last(x.e) = f,
         NEW at, NEW ae, Timed(inst.p, inst.r, at, ae, ToSet(x.ne), f + 1), ae[0] = inst.p.e[0],
         x.incremented_last => Last(x.ne) + 1 = f,
         Pruned(x, ae), NEW b \in Nat,
         NEW y \in Ejections(inst.r, inst.k_max), Beyond(y, x.e)
  PROVE  Handled(inst, b, y)
<1>1. PICK p : p = inst.p
  OBVIOUS
<1>2. PICK r : r = inst.r
  OBVIOUS
<1>3. /\ RouteOf(p, r) /\ WindowsOpen(p) /\ DemandsNatural(p) /\ r \in Seq(1 .. p.n)
      /\ Len(r) \in Nat /\ f \in 1 .. Len(r) /\ f \in Nat /\ inst.k_max \in Nat
      /\ inst.ps \in [1 .. p.n -> Nat]
  BY <1>1, <1>2, Arguments
<1>4. PICK ne : ne = x.ne
  OBVIOUS
<1>5. PICK d : d = Front(x.e)
  OBVIOUS
<1>6. /\ Share(ne, d, f) /\ Summed(Uneject(x)) /\ Uneject(x).e = d /\ x \in Stacks
      /\ Share(ne, x.e, f + 1)
  BY <1>4, <1>5, UnejectSteps DEF Stacked
<1>7. /\ x.e \in Seq(Nat) /\ d \in Seq(Nat) /\ Len(d) = Len(x.e) - 1 /\ Len(x.e) \in Nat
      /\ Len(d) \in Nat /\ DOMAIN d = 1 .. Len(d)
  <2>1. x.e \in Seq(Nat)
    BY <1>6 DEF Stacks
  <2>2. d \in Seq(Nat) /\ Len(d) = Len(x.e) - 1
    BY <1>5, <2>1, FrontLast
  <2> QED
    BY <2>1, <2>2
<1>8. Timed(p, r, at, ae, ToSet(ne), f - 1)
  <2>1. PICK g \in Nat : g = f + 1
    BY <1>3
  <2>2. PICK h \in 0 .. g : h = f - 1
    BY <1>3, <2>1
  <2>3. ToSet(ne) \subseteq Int
    BY <1>3, <1>6 DEF Share
  <2>4. Timed(p, r, at, ae, ToSet(ne), g)
    BY <1>1, <1>2, <1>4, <2>1
  <2>5. Timed(p, r, at, ae, ToSet(ne), h)
    BY <2>3, <2>4, TimedAgain
  <2> QED
    BY <2>2, <2>5
<1>9. /\ PSum(inst.ps, Ejected(r, y)) \in Nat /\ Picked(r, y, Len(y)) /\ y \in Seq(Nat)
      /\ Len(y) \in 1 .. inst.k_max /\ Len(y) \in Nat
  BY <1>2, EjectionSum
<1>10. Continues(y, d, f)
  BY <1>5 DEF Beyond
<1>11. PICK z : z = Suffix(y, Len(d))
  OBVIOUS
<1>12. Len(z) = Len(y) - Len(d) /\ Picked(r, z, Len(z)) /\ Splits(y, d, z, f)
  <2>1. PICK C : C = 1 .. p.n
    OBVIOUS
  <2>2. r \in Seq(C)
    BY <1>3, <2>1
  <2>3. f \in Nat /\ Len(d) \in Nat /\ Picked(r, y, Len(y)) /\ Continues(y, d, f)
    BY <1>3, <1>7, <1>9, <1>10
  <2>4. /\ Len(Suffix(y, Len(d))) = Len(y) - Len(d)
        /\ Picked(r, Suffix(y, Len(d)), Len(Suffix(y, Len(d))))
        /\ Splits(y, d, Suffix(y, Len(d)), f)
    BY <2>2, <2>3, SuffixPicked
  <2> QED
    BY <1>11, <2>4
<1>13. CASE p.l[Id(r, Last(ne))] < ae[Last(ne)]
  <2>1. ae[0] = p.e[0]
    BY <1>1
  <2>2. ~FeasibleEjection(p, r, y)
    BY <1>3, <1>6, <1>8, <1>9, <1>10, <1>13, <2>1, LatePruned
  <2> QED
    BY <1>1, <1>2, <2>2 DEF Handled, Improving
<1>14. CASE /\ Len(x.e) > 1 /\ x.incremented_last /\ x.late - late_at(Last(x.e)) = 0
            /\ ae[Last(ne)] = Earliest(p, r, Last(ne)) /\ ~capacity_violated(p, r)
  <2> SUFFICES ASSUME Considered(p, r, y), Improving(p, r, inst.ps, b, y)
               PROVE  \E v \in Ejections(inst.r, inst.k_max) : Instead(inst, y, v)
    BY <1>1, <1>2 DEF Handled
  <2>1. Last(ne) \in Nat /\ Last(ne) + 1 = f
    <3>1. ne \in Seq(Nat) /\ ne # <<>>
      BY <1>6 DEF Share
    <3>2. Last(ne) \in Nat
      BY <3>1, FrontLast
    <3> QED
      BY <1>4, <1>14, <3>2
  <2>2. Last(ne) = f - 1 /\ Len(d) # 0
    <3>1. Last(ne) = f - 1
      BY <1>3, <2>1
    <3>2. PICK k \in Nat : k = Len(x.e)
      BY <1>7
    <3>3. PICK c \in Nat : c = Len(d)
      BY <1>7
    <3>4. k > 1
      BY <1>14, <3>2
    <3>5. c = k - 1
      BY <1>7, <3>2, <3>3
    <3>6. c # 0
      BY <3>4, <3>5
    <3> QED
      BY <3>1, <3>3, <3>6
  <2>3. ToSet(d) \cap Late(p, r) = {}
    <3>1. Uneject(x).late = x.late - late_at(Last(x.e))
      BY <1>6 DEF Uneject, Stacks
    <3>2. Cardinality(ToSet(d) \cap Late(p, r)) = 0
      <4>1. Uneject(x).late = Cardinality(ToSet(Uneject(x).e) \cap Late(inst.p, inst.r))
        BY <1>6 DEF Summed, SumsOf
      <4> QED
        BY <1>1, <1>2, <1>6, <1>14, <3>1, <4>1
    <3>3. IsFiniteSet(ToSet(d) \cap Late(p, r))
      <4>1. IsFiniteSet(1 .. Len(r))
        BY <1>3, FS_Interval
      <4>2. ToSet(d) \cap Late(p, r) \subseteq 1 .. Len(r)
        BY DEF Late
      <4> QED
        BY <4>1, <4>2, FS_Subset
    <3> QED
      BY <3>2, <3>3, FS_EmptySet
  <2>4. Len(z) # 0 /\ DOMAIN y = 1 .. Len(y) /\ DOMAIN z = 1 .. Len(z)
    <3>1. Len(d) < Len(y)
      BY <1>10 DEF Continues
    <3> QED
      BY <1>7, <1>9, <1>12, <3>1 DEF Picked
  <2>5. Considered(p, r, z) /\ \A i \in 1 .. f - 1 : i \notin Late(p, r)
    BY <1>3, <1>7, <1>12, <1>14, <2>2, <2>3, <2>4, LateCovered
  <2>6. f # 1
    <3>1. Last(ne) \in 0 .. f - 1 /\ Len(d) # 0
      BY <1>3, <2>1, <2>2
    <3>2. d[1] \in ToSet(d) /\ d[1] \in Nat
      <4>1. 1 \in 1 .. Len(d)
        <5>1. PICK c \in Nat : c = Len(d)
          BY <1>7
        <5> QED
          BY <2>2, <5>1
      <4>2. d[1] \in ToSet(d)
        BY <1>7, <4>1 DEF ToSet
      <4> QED
        BY <1>7, <4>1, <4>2
    <3>3. d[1] \in 0 .. f - 1 /\ d[1] # 0
      <4>1. ToSet(ne) \cup ToSet(d) = 0 .. f - 1 /\ ToSet(ne) \cap ToSet(d) = {}
        BY <1>6 DEF Share
      <4>2. 0 \in ToSet(ne)
        <5>1. ne \in Seq(Nat) /\ ne # <<>> /\ ne[1] = 0
          BY <1>6 DEF Share
        <5>2. 1 \in DOMAIN ne
          BY <5>1
        <5> QED
          BY <5>1, <5>2 DEF ToSet
      <4> QED
        BY <3>2, <4>1, <4>2
    <3> QED
      BY <1>3, <3>2, <3>3
  <2>7. TwPenalty(p, Rest(r, z)) = 0
    <3>1. TwPenalty(p, Rest(r, y)) = 0
      BY DEF Improving, FeasibleEjection
    <3>2. ae[f - 1] = Earliest(p, r, f - 1)
      BY <1>14, <2>2
    <3> QED
      <4>1. /\ RouteOf(p, r) /\ f \in 1 .. Len(r) /\ Share(ne, d, f)
            /\ Picked(r, y, Len(y)) /\ Picked(r, z, Len(z)) /\ Splits(y, d, z, f)
            /\ Timed(p, r, at, ae, ToSet(ne), f - 1)
        BY <1>3, <1>6, <1>8, <1>9, <1>12
      <4>2. Last(ne) + 1 = f /\ f # 1 /\ \A i \in 1 .. f - 1 : i \notin Late(p, r)
        BY <2>1, <2>5, <2>6
      <4> QED
        BY <3>1, <3>2, <4>1, <4>2, PrefixPruned
  <2>8. CPenalty(p, Rest(r, z)) = 0
    BY <1>3, <1>12, <1>14, CapacityKept
  <2>9. FeasibleEjection(p, r, z)
    BY <2>7, <2>8 DEF FeasibleEjection
  <2>10. Len(z) < Len(y) /\ Len(z) \in 1 .. inst.k_max
    <3>1. PICK m \in 1 .. inst.k_max : m = Len(y)
      BY <1>9
    <3>2. PICK c \in Nat : c = Len(d) /\ c # 0
      BY <1>7, <2>2
    <3>3. Len(z) = m - c /\ c < m
      BY <1>10, <1>12, <3>1, <3>2 DEF Continues
    <3> QED
      BY <1>3, <3>1, <3>2, <3>3
  <2>11. z \in Ejections(r, inst.k_max)
    BY <1>3, <1>12, <2>10, PickedEjection
  <2>12. PSum(inst.ps, Ejected(r, z)) <= PSum(inst.ps, Ejected(r, y))
    <3>1. Picked(r, d, Len(d))
      <4>1. PICK g \in 0 .. Len(r) : g + 1 = f
        <5>1. f - 1 \in 0 .. Len(r) /\ (f - 1) + 1 = f
          BY <1>3
        <5> QED
          BY <5>1
      <4>2. Share(ne, d, g + 1)
        BY <1>6, <4>1
      <4> QED
        BY <1>3, <4>2, SharePicked
    <3>2. /\ PSum(inst.ps, Ejected(r, d)) \in Nat /\ PSum(inst.ps, Ejected(r, z)) \in Nat
          /\ PSum(inst.ps, Ejected(r, y)) = PSum(inst.ps, Ejected(r, d)) + PSum(inst.ps, Ejected(r, z))
      <4>1. PICK C : C = 1 .. p.n
        OBVIOUS
      <4>2. PICK ps : ps = inst.ps
        OBVIOUS
      <4>3. r \in Seq(C) /\ ps \in [C -> Nat]
        BY <1>3, <4>1, <4>2
      <4>4. Picked(r, y, Len(y)) /\ Picked(r, z, Len(z)) /\ Splits(y, d, z, f)
        BY <1>9, <1>12
      <4>5. /\ PSum(ps, Ejected(r, d)) \in Nat /\ PSum(ps, Ejected(r, z)) \in Nat
            /\ PSum(ps, Ejected(r, y)) = PSum(ps, Ejected(r, d)) + PSum(ps, Ejected(r, z))
        BY <3>1, <4>3, <4>4, SumsOverSplit
      <4> QED
        BY <4>2, <4>5
    <3> QED
      BY <3>2
  <2>13. Instead(inst, y, z)
    BY <1>1, <1>2, <2>5, <2>9, <2>10, <2>12 DEF Instead
  <2> QED
    BY <1>2, <2>11, <2>13
<1>15. \/ p.l[Id(r, Last(ne))] < ae[Last(ne)]
       \/ /\ Len(x.e) > 1 /\ x.incremented_last /\ x.late - late_at(Last(x.e)) = 0
          /\ ae[Last(ne)] = Earliest(p, r, Last(ne)) /\ ~capacity_violated(p, r)
  BY <1>1, <1>2, <1>4 DEF Pruned, l_at, a_earliest
<1> QED
  BY <1>13, <1>14, <1>15
-----------------------------------------------------------------------------
(***************************************************************************)
(* Where the search stands among the ejections.                            *)
(***************************************************************************)

\* y comes before e in the lexicographic order.
Precedes(y, e) ==
  \/ Len(y) < Len(e) /\ Agree(y, e, Len(y))
  \/ \E i \in 1 .. Len(y) : i <= Len(e) /\ y[i] < e[i] /\ Agree(y, e, i - 1)

\* y is e, or continues it.
Extends(y, e) == Len(e) <= Len(y) /\ Agree(y, e, Len(e))

\* A sequence is its front with the last element behind it.
LEMMA FrontElements ==
  ASSUME NEW e, e \in Seq(Nat), e # <<>>
  PROVE  /\ Front(e) \in Seq(Nat) /\ Len(Front(e)) \in Nat /\ Len(e) = Len(Front(e)) + 1
         /\ Last(e) \in Nat /\ e[Len(Front(e)) + 1] = Last(e)
         /\ \A k \in 1 .. Len(Front(e)) : e[k] = Front(e)[k]
<1>1. PICK d \in Seq(Nat) : d = Front(e)
  BY FrontLast
<1>2. PICK m \in Nat : m = Last(e)
  BY FrontLast
<1>3. PICK c \in Nat : c = Len(d)
  OBVIOUS
<1>4. e = Append(d, m)
  BY <1>1, <1>2, FrontLast
<1>5. Len(e) = c + 1 /\ e[c + 1] = m /\ \A k \in 1 .. c : e[k] = d[k]
  BY <1>3, <1>4
<1> QED
  BY <1>1, <1>2, <1>3, <1>5

\* What precedes d with f behind it: what precedes d, and what goes on from d below f.
LEMMA PrecedesAppend ==
  ASSUME NEW y, y \in Seq(Nat), NEW d, d \in Seq(Nat), NEW f \in Nat, Precedes(y, Append(d, f))
  PROVE  \/ Precedes(y, d)
         \/ y = d
         \/ Len(d) < Len(y) /\ Agree(y, d, Len(d)) /\ y[Len(d) + 1] < f
<1>1. PICK c \in Nat : c = Len(d)
  OBVIOUS
<1>2. PICK m \in Nat : m = Len(y)
  OBVIOUS
<1>3. PICK e : e = Append(d, f)
  OBVIOUS
<1>4. Len(e) = c + 1 /\ e[c + 1] = f /\ \A k \in 1 .. c : e[k] = d[k]
  BY <1>1, <1>3
<1>5. CASE m < c + 1 /\ Agree(y, e, m)
  <2>1. Agree(y, d, m)
    BY <1>4, <1>5 DEF Agree
  <2>2. CASE m = c
    <3>1. \A k \in 1 .. c : y[k] = d[k]
      BY <2>1, <2>2 DEF Agree
    <3>2. Len(y) = c /\ Len(d) = c
      BY <1>1, <1>2, <2>2
    <3>3. y = d
      BY <3>1, <3>2, SeqEqual
    <3> QED
      BY <3>3
  <2>3. CASE m # c
    BY <1>1, <1>2, <1>5, <2>1, <2>3 DEF Precedes
  <2> QED
    BY <2>2, <2>3
<1>6. CASE \E i \in 1 .. m : i <= c + 1 /\ y[i] < e[i] /\ Agree(y, e, i - 1)
  <2>1. PICK i \in 1 .. m : i <= c + 1 /\ y[i] < e[i] /\ Agree(y, e, i - 1)
    BY <1>6
  <2>2. CASE i = c + 1
    <3>1. y[c + 1] < f /\ c < m
      BY <1>4, <2>1, <2>2
    <3>2. Agree(y, d, c)
      <4>1. i - 1 = c
        BY <2>2
      <4> QED
        BY <1>4, <2>1, <4>1 DEF Agree
    <3> QED
      BY <1>1, <1>2, <3>1, <3>2
  <2>3. CASE i # c + 1
    <3>1. i \in 1 .. c /\ \A k \in 1 .. i - 1 : k \in 1 .. c
      BY <2>1, <2>3
    <3>2. i <= c /\ y[i] < d[i] /\ Agree(y, d, i - 1)
      BY <1>4, <2>1, <3>1 DEF Agree
    <3>3. Precedes(y, d)
      BY <1>1, <1>2, <3>2 DEF Precedes
    <3> QED
      BY <3>3
  <2> QED
    BY <2>2, <2>3
<1> QED
  BY <1>2, <1>3, <1>4, <1>5, <1>6 DEF Precedes

\* What precedes a sequence without its last element precedes it.
LEMMA PrecedesFront ==
  ASSUME NEW y, y \in Seq(Nat), NEW e, e \in Seq(Nat), e # <<>>
  PROVE  /\ Precedes(y, Front(e)) => Precedes(y, e)
         /\ y = Front(e) => Precedes(y, e)
<1>1. PICK d : d = Front(e)
  OBVIOUS
<1>2. d \in Seq(Nat) /\ Len(d) \in Nat /\ Len(e) = Len(d) + 1
  BY <1>1, FrontElements
<1>3. PICK c \in Nat : c = Len(d) /\ Len(e) = c + 1
  BY <1>2
<1>4. \A k \in 1 .. c : e[k] = d[k]
  BY <1>1, <1>3, FrontElements
<1>5. PICK m \in Nat : m = Len(y)
  OBVIOUS
<1>6. ASSUME Precedes(y, d) PROVE Precedes(y, e)
  <2>1. CASE m < c /\ Agree(y, d, m)
    <3>1. m < c + 1 /\ Agree(y, e, m)
      BY <1>4, <2>1 DEF Agree
    <3> QED
      BY <1>3, <1>5, <3>1 DEF Precedes
  <2>2. CASE \E i \in 1 .. m : i <= c /\ y[i] < d[i] /\ Agree(y, d, i - 1)
    <3>1. PICK i \in 1 .. m : i <= c /\ y[i] < d[i] /\ Agree(y, d, i - 1)
      BY <2>2
    <3>2. i <= c + 1 /\ y[i] < e[i] /\ Agree(y, e, i - 1)
      <4>1. i \in 1 .. c /\ \A k \in 1 .. i - 1 : k \in 1 .. c
        BY <3>1
      <4> QED
        BY <1>4, <3>1, <4>1 DEF Agree
    <3> QED
      BY <1>3, <1>5, <3>2 DEF Precedes
  <2> QED
    BY <1>3, <1>5, <1>6, <2>1, <2>2 DEF Precedes
<1>7. ASSUME y = d PROVE Precedes(y, e)
  BY <1>3, <1>4, <1>7 DEF Precedes, Agree
<1> QED
  BY <1>1, <1>6, <1>7

\* What goes on where e has its last index: below it, or in the branch of e or behind it.
LEMMA ContinuesLast ==
  ASSUME NEW y, y \in Seq(Nat), NEW e, e \in Seq(Nat), e # <<>>,
         Len(Front(e)) < Len(y), Agree(y, Front(e), Len(Front(e)))
  PROVE  /\ Precedes(y, e) \/ Beyond(y, e)
         /\ y[Len(Front(e)) + 1] = Last(e) => Extends(y, e)
<1>1. PICK d : d = Front(e)
  OBVIOUS
<1>2. d \in Seq(Nat) /\ Len(d) \in Nat /\ Len(e) = Len(d) + 1 /\ Last(e) \in Nat
  BY <1>1, FrontElements
<1>3. PICK c \in Nat : c = Len(d) /\ Len(e) = c + 1 /\ c < Len(y)
  BY <1>1, <1>2
<1>4. e[c + 1] = Last(e) /\ \A k \in 1 .. c : e[k] = d[k]
  BY <1>1, <1>3, FrontElements
<1>5. c + 1 \in 1 .. Len(y) /\ y[c + 1] \in Nat /\ Agree(y, e, (c + 1) - 1) /\ c + 1 <= Len(e)
  <2>1. c + 1 \in 1 .. Len(y) /\ (c + 1) - 1 = c /\ c + 1 <= Len(e)
    BY <1>3
  <2>2. Agree(y, e, c)
    BY <1>1, <1>3, <1>4 DEF Agree
  <2> QED
    BY <2>1, <2>2
<1>6. CASE y[c + 1] < Last(e)
  BY <1>1, <1>3, <1>4, <1>5, <1>6 DEF Precedes
<1>7. CASE ~(y[c + 1] < Last(e))
  <2>1. Last(e) <= y[c + 1]
    BY <1>2, <1>5, <1>7
  <2>2. Continues(y, d, Last(e))
    BY <1>1, <1>3, <2>1 DEF Continues
  <2>3. ASSUME y[c + 1] = Last(e) PROVE Extends(y, e)
    <3>1. ASSUME NEW k \in 1 .. c + 1 PROVE y[k] = e[k]
      <4>1. k = c + 1 \/ k \in 1 .. (c + 1) - 1
        OBVIOUS
      <4> QED
        BY <1>4, <1>5, <2>3, <4>1 DEF Agree
    <3>2. Agree(y, e, c + 1)
      BY <3>1 DEF Agree
    <3> QED
      BY <1>3, <3>2 DEF Extends
  <2> QED
    BY <1>1, <1>3, <2>2, <2>3 DEF Beyond
<1> QED
  BY <1>2, <1>5, <1>6, <1>7

\* y precedes what e becomes when its last index is increased by one.
LEMMA PrecedesIncremented ==
  ASSUME NEW y, y \in Seq(Nat), NEW e, e \in Seq(Nat), e # <<>>,
         Precedes(y, Append(Front(e), Last(e) + 1))
  PROVE  Precedes(y, e) \/ Extends(y, e)
<1>1. PICK d : d = Front(e)
  OBVIOUS
<1>2. d \in Seq(Nat) /\ Last(e) \in Nat /\ Last(e) + 1 \in Nat
  BY <1>1, FrontLast
<1>3. \/ Precedes(y, d)
      \/ y = d
      \/ Len(d) < Len(y) /\ Agree(y, d, Len(d)) /\ y[Len(d) + 1] < Last(e) + 1
  BY <1>1, <1>2, PrecedesAppend
<1>4. CASE Precedes(y, d) \/ y = d
  BY <1>1, <1>4, PrecedesFront
<1>5. CASE Len(d) < Len(y) /\ Agree(y, d, Len(d)) /\ y[Len(d) + 1] < Last(e) + 1
  <2>1. /\ Precedes(y, e) \/ Beyond(y, e)
        /\ y[Len(d) + 1] = Last(e) => Extends(y, e)
    BY <1>1, <1>5, ContinuesLast
  <2>2. Len(d) + 1 \in 1 .. Len(y) /\ y[Len(d) + 1] \in Nat
    <3>1. Len(d) + 1 \in 1 .. Len(y)
      BY <1>2, <1>5
    <3> QED
      BY <3>1
  <2>3. CASE Beyond(y, e)
    <3>1. Last(e) <= y[Len(d) + 1]
      BY <1>1, <2>3 DEF Beyond, Continues
    <3>2. y[Len(d) + 1] = Last(e)
      BY <1>2, <1>5, <2>2, <3>1
    <3> QED
      BY <2>1, <3>2
  <2> QED
    BY <2>1, <2>3
<1> QED
  BY <1>3, <1>4, <1>5

\* y precedes what e becomes when its last index is dropped and the one before it
\* increased.
LEMMA PrecedesBacktracked ==
  ASSUME NEW y, y \in Seq(Nat), NEW e, e \in Seq(Nat), e # <<>>, Front(e) # <<>>,
         Precedes(y, Append(Front(Front(e)), Last(Front(e)) + 1))
  PROVE  Precedes(y, e) \/ Beyond(y, e)
<1>1. PICK d : d = Front(e)
  OBVIOUS
<1>2. d \in Seq(Nat) /\ d # <<>> /\ Len(d) \in Nat /\ Len(y) \in Nat
  BY <1>1, FrontLast
<1>3. Precedes(y, d) \/ Extends(y, d)
  BY <1>1, <1>2, PrecedesIncremented
<1>4. CASE Precedes(y, d)
  BY <1>1, <1>4, PrecedesFront
<1>5. CASE Extends(y, d)
  <2>1. CASE Len(d) = Len(y)
    <3>1. \A k \in 1 .. Len(d) : y[k] = d[k]
      BY <1>5 DEF Extends, Agree
    <3>2. y = d
      BY <1>2, <2>1, <3>1, SeqEqual
    <3> QED
      BY <1>1, <3>2, PrecedesFront
  <2>2. CASE Len(d) # Len(y)
    <3>1. Len(d) < Len(y) /\ Agree(y, d, Len(d))
      BY <1>2, <1>5, <2>2 DEF Extends
    <3> QED
      BY <1>1, <3>1, ContinuesLast
  <2> QED
    BY <2>1, <2>2
<1> QED
  BY <1>3, <1>4, <1>5

\* Where e has one index, every ejection is before it, or in its branch or behind it.
LEMMA PrecedesSingle ==
  ASSUME NEW y, y \in Seq(Nat), y # <<>>, NEW e, e \in Seq(Nat), Len(e) = 1
  PROVE  Precedes(y, e) \/ Beyond(y, e)
<1>1. e # <<>>
  <2>1. ASSUME e = <<>> PROVE FALSE
    <3>1. PICK n \in Nat : n = Len(e)
      OBVIOUS
    <3>2. n = 0
      BY <2>1, <3>1
    <3>3. n = 1
      BY <3>1
    <3> QED
      BY <3>2, <3>3
  <2> QED
    BY <2>1
<1>2. Len(Front(e)) < Len(y) /\ Agree(y, Front(e), Len(Front(e)))
  <2>1. PICK c \in Nat : c = Len(Front(e)) /\ 1 = c + 1
    BY <1>1, FrontElements
  <2>2. PICK m \in Nat : m = Len(y) /\ m # 0
    OBVIOUS
  <2>3. c = 0 /\ 0 < m
    BY <2>1, <2>2
  <2> QED
    BY <2>1, <2>2, <2>3 DEF Agree
<1> QED
  BY <1>1, <1>2, ContinuesLast

\* Nothing comes before the first customer.
LEMMA PrecedesNone ==
  ASSUME NEW y, y \in Seq(Nat), y # <<>>, 0 < y[1]
  PROVE  ~Precedes(y, Append(<<>>, 1))
<1>1. <<>> \in Seq(Nat) /\ 1 \in Nat /\ Len(<<>>) = 0 /\ Len(y) \in Nat /\ Len(y) # 0 /\ y[1] \in Nat
  OBVIOUS
<1>2. SUFFICES ASSUME Precedes(y, Append(<<>>, 1)) PROVE FALSE
  OBVIOUS
<1>3. \/ Precedes(y, <<>>)
      \/ y = <<>>
      \/ Len(<<>>) < Len(y) /\ Agree(y, <<>>, Len(<<>>)) /\ y[Len(<<>>) + 1] < 1
  BY <1>1, <1>2, PrecedesAppend
<1>4. ~Precedes(y, <<>>)
  BY <1>1 DEF Precedes
<1> QED
  BY <1>1, <1>3, <1>4
-----------------------------------------------------------------------------
(***************************************************************************)
(* The invariant of the promise.  What precedes the ejection the search    *)
(* stands at need not be visited any more, and neither need that one once  *)
(* it was tested; and where the search turns back, b) or c) holds.         *)
(***************************************************************************)

\* The sum of p reported, from that of the arguments down.
Lowered ==
  /\ p_best <= inst.p_best
  /\ pc = "start" => p_best = inst.p_best /\ ~st.incremented_last
  /\ pc = "yield" => p_best < inst.p_best

\* The depot is left when it opens.
Leaves == pc # "dead" => a_earliest_temp[0] = inst.p.e[0]

Turns ==
  /\ pc = "backtrack" => Pruned(st, a_earliest_temp)
  /\ Searching /\ st.incremented_last => Last(st.ne) + 1 = Last(st.e)

Passed(y) == Precedes(y, st.e) \/ (pc \in {"yield", "branch"} /\ y = st.e)

Seen ==
  Searching => \A y \in Ejections(inst.r, inst.k_max) : Passed(y) => Handled(inst, p_best, y)

BestInv == SearchInv /\ Lowered /\ Leaves /\ Turns /\ Seen

\* Where the search stands.
LEMMA Standing ==
  ASSUME SearchInv, Searching
  PROVE  /\ inst \in Instances /\ st.e \in Seq(Nat) /\ st.e # <<>>
         /\ Last(st.e) \in 1 .. Len(inst.r) /\ Cursor(Last(st.e))
         /\ Last(st.s) = Last(st.e) + 1
         /\ Picked(inst.r, st.e, Len(st.e)) /\ Len(st.e) \in 1 .. inst.k_max
         /\ st.p_sum = PSum(inst.ps, Ejected(inst.r, st.e))
<1>1. PICK f \in 1 .. Len(inst.r) : Cursor(f)
  BY UnderWay
<1>2. inst \in Instances /\ Stacked(st, f) /\ Summed(st) /\ st.e # <<>> /\ Last(st.e) = f
      /\ Len(st.e) <= inst.k_max
  BY <1>1, UnderWay DEF Cursor
<1>3. st.e \in Seq(Nat) /\ Share(st.ne, st.e, f + 1)
  BY <1>2 DEF Stacked, Stacks
<1>4. Len(inst.r) \in Nat /\ inst.k_max \in Nat /\ RouteOf(inst.p, inst.r)
  BY <1>2, Arguments
<1>5. PICK C : C = 1 .. inst.p.n
  OBVIOUS
<1>6. inst.r \in Seq(C) /\ f \in 0 .. Len(inst.r)
  BY <1>4, <1>5 DEF RouteOf
<1>7. Picked(inst.r, st.e, Len(st.e))
  BY <1>3, <1>6, SharePicked
<1>8. Last(st.s) = f + 1
  BY <1>2, <1>6, NextUndecided
<1>9. PICK n \in Nat : n = Len(st.e) /\ n # 0
  <2>1. PICK s \in Seq(Nat) : s = st.e /\ s # <<>>
    BY <1>2, <1>3
  <2>2. Len(s) \in Nat /\ Len(s) # 0
    BY <2>1
  <2> QED
    BY <2>1, <2>2
<1>10. Len(st.e) \in 1 .. inst.k_max
  BY <1>2, <1>4, <1>9
<1>11. st.p_sum = PSum(inst.ps, Ejected(inst.r, st.e))
  BY <1>2 DEF Summed, SumsOf
<1> QED
  BY <1>1, <1>2, <1>3, <1>7, <1>8, <1>10, <1>11

\* The tuple it stands at is an ejection.
LEMMA StandingEjection ==
  ASSUME SearchInv, Searching
  PROVE  st.e \in Ejections(inst.r, inst.k_max)
<1>1. PICK C : C = 1 .. inst.p.n
  OBVIOUS
<1>2. inst.r \in Seq(C) /\ inst.k_max \in Nat
  BY <1>1, Standing, Arguments
<1>3. Picked(inst.r, st.e, Len(st.e)) /\ Len(st.e) \in 1 .. inst.k_max
  BY Standing
<1> QED
  BY <1>2, <1>3, PickedEjection

\* An ejection that goes on behind another one has no smaller sum.
LEMMA LongerCosts ==
  ASSUME inst \in Instances, NEW e, Picked(inst.r, e, Len(e)), Len(e) \in Nat,
         NEW y \in Ejections(inst.r, inst.k_max), Len(e) < Len(y), Agree(y, e, Len(e))
  PROVE  /\ PSum(inst.ps, Ejected(inst.r, e)) \in Nat /\ PSum(inst.ps, Ejected(inst.r, y)) \in Nat
         /\ PSum(inst.ps, Ejected(inst.r, e)) <= PSum(inst.ps, Ejected(inst.r, y))
<1>1. PICK C : C = 1 .. inst.p.n
  OBVIOUS
<1>2. inst.r \in Seq(C) /\ inst.ps \in [C -> Nat]
  BY <1>1, Arguments
<1>3. Picked(inst.r, y, Len(y)) /\ y \in Seq(Nat) /\ Len(y) \in Nat
  BY EjectionSum
<1>4. Len(e) + 1 \in 1 .. Len(y)
  BY <1>3
<1>5. y[Len(e) + 1] \in Nat
  BY <1>3, <1>4
<1>6. 0 \in Nat /\ Continues(y, e, 0)
  BY <1>5 DEF Continues
<1>7. PICK z : z = Suffix(y, Len(e))
  OBVIOUS
<1>8. Picked(inst.r, z, Len(z)) /\ Splits(y, e, z, 0)
  BY <1>2, <1>3, <1>6, <1>7, SuffixPicked
<1>9. PICK ps : ps = inst.ps
  OBVIOUS
<1>10. PICK r : r = inst.r
  OBVIOUS
<1>11. /\ r \in Seq(C) /\ ps \in [C -> Nat] /\ Picked(r, e, Len(e)) /\ Picked(r, y, Len(y))
       /\ Picked(r, z, Len(z)) /\ Splits(y, e, z, 0)
  BY <1>2, <1>3, <1>8, <1>9, <1>10
<1>12. /\ PSum(ps, Ejected(r, e)) \in Nat /\ PSum(ps, Ejected(r, z)) \in Nat
       /\ PSum(ps, Ejected(r, y)) = PSum(ps, Ejected(r, e)) + PSum(ps, Ejected(r, z))
  BY <1>11, SumsOverSplit
<1> QED
  BY <1>9, <1>10, <1>12

\* Where the last customer of the route is ejected, only that ejection is in the branch
\* or behind it.
LEMMA BeyondEnd ==
  ASSUME inst \in Instances, NEW e, e \in Seq(Nat), e # <<>>, Last(e) = Len(inst.r),
         NEW y \in Ejections(inst.r, inst.k_max), Beyond(y, e)
  PROVE  y = e
<1>1. PICK R \in Nat : R = Len(inst.r)
  BY Arguments
<1>2. PICK c \in Nat : c = Len(Front(e)) /\ Len(e) = c + 1 /\ e[c + 1] = R
  BY <1>1, FrontElements
<1>3. PICK m \in Nat : m = Len(y)
  BY EjectionSum
<1>4. /\ \A i \in 1 .. m : y[i] \in 1 .. R
      /\ \A i, j \in 1 .. m : i < j => y[i] < y[j]
  <2>1. Picked(inst.r, y, m)
    BY <1>3, EjectionSum
  <2> QED
    BY <1>1, <2>1 DEF Picked
<1>5. c < m /\ Agree(y, Front(e), c) /\ R <= y[c + 1]
  BY <1>1, <1>2, <1>3 DEF Beyond, Continues
<1>6. c + 1 \in 1 .. m /\ y[c + 1] = R
  <2>1. c + 1 \in 1 .. m
    BY <1>5
  <2> QED
    BY <1>4, <1>5, <2>1
<1>7. m = c + 1
  <2>1. ASSUME m # c + 1 PROVE FALSE
    <3>1. c + 2 \in 1 .. m /\ c + 1 < c + 2
      BY <1>5, <2>1
    <3>2. y[c + 1] < y[c + 2] /\ y[c + 2] \in 1 .. R
      BY <1>4, <1>6, <3>1
    <3> QED
      BY <1>6, <3>2
  <2> QED
    BY <2>1
<1>8. \A k \in 1 .. c : y[k] = e[k]
  BY <1>2, <1>5, FrontElements DEF Agree
<1>9. ASSUME NEW k \in 1 .. c + 1 PROVE y[k] = e[k]
  <2>1. k = c + 1 \/ k \in 1 .. c
    OBVIOUS
  <2> QED
    BY <1>2, <1>6, <1>8, <2>1
<1>10. y \in Seq(Nat) /\ Len(y) = c + 1 /\ Len(e) = c + 1
  BY <1>2, <1>3, <1>7, EjectionSum
<1> QED
  BY <1>9, <1>10, SeqEqual

\* Where the search turns back, nothing in the branch or behind it need be visited.
LEMMA TurnHandled ==
  ASSUME BestInv, WindowsOpen(inst.p), DemandsNatural(inst.p), MustBacktrack,
         NEW y \in Ejections(inst.r, inst.k_max), Beyond(y, st.e)
  PROVE  Handled(inst, p_best, y)
<1>1. Searching /\ SearchInv
  BY DEF MustBacktrack, Searching, BestInv
<1>2. PICK f \in 1 .. Len(inst.r) : f = Last(st.e) /\ Cursor(f)
  BY <1>1, Standing
<1>3. /\ inst \in Instances /\ st.e \in Seq(Nat) /\ st.e # <<>> /\ Last(st.s) = f + 1
      /\ Len(inst.r) \in Nat /\ tail = Len(inst.r) + 1
  BY <1>1, <1>2, Standing, Arguments
<1>4. CASE pc = "backtrack"
  <2>1. /\ Stacked(st, f) /\ Summed(st) /\ Last(st.e) = f
        /\ Timed(inst.p, inst.r, a_temp, a_earliest_temp, ToSet(st.ne), f + 1)
    BY <1>2 DEF Cursor
  <2>2. /\ a_earliest_temp[0] = inst.p.e[0] /\ Pruned(st, a_earliest_temp)
        /\ st.incremented_last => Last(st.ne) + 1 = f
    BY <1>1, <1>2, <1>4 DEF BestInv, Leaves, Turns
  <2>3. p_best \in Nat
    BY <1>1 DEF SearchInv, Types
  <2> QED
    BY <1>3, <2>1, <2>2, <2>3, BranchHandled
<1>5. CASE pc = "branch" /\ Last(st.s) = tail
  <2>1. Last(st.e) = Len(inst.r)
    BY <1>2, <1>3, <1>5
  <2>2. y = st.e
    BY <1>3, <2>1, BeyondEnd
  <2> QED
    BY <1>1, <1>5, <2>2 DEF BestInv, Seen, Passed
<1> QED
  BY <1>4, <1>5 DEF MustBacktrack

\* Where the cursor moves, what precedes the new ejection has been seen to.
LEMMA MoveBest ==
  ASSUME BestInv, NEW x, Goto(x), pc # "dead", SearchInv',
         st'.incremented_last => Last(st'.ne) + 1 = Last(st'.e),
         \A y \in Ejections(inst.r, inst.k_max) : Precedes(y, st'.e) => Handled(inst, p_best, y)
  PROVE  BestInv'
<1>1. /\ st' = x /\ inst' = inst /\ p_best' = p_best
      /\ pc' = IF Pruned(x, a_earliest_temp') THEN "backtrack" ELSE "test"
  BY DEF Goto
<1>2. pc' \in {"test", "backtrack"} /\ Searching'
  BY <1>1 DEF Searching
<1>3. inst \in Instances /\ Len(inst.r) \in Nat /\ tail = Len(inst.r) + 1
  BY Arguments DEF BestInv, SearchInv, Types
<1>4. Last(x.e) \in Nat /\ Last(x.e) # 0 /\ Last(x.s) \in Nat /\ Last(x.s) # 0
  <2>1. PICK f : Cursor(f)'
    BY <1>2 DEF SearchInv
  <2>2. f \in 1 .. Len(inst.r) /\ Last(x.e) = f /\ Stacked(st, f)'
    BY <1>1, <2>1 DEF Cursor
  <2>3. tail' = tail
    BY <1>1 DEF tail
  <2>4. Stacked(x, f)
    BY <1>1, <2>2, <2>3 DEF Stacked
  <2>5. Last(x.s) = f + 1 /\ f \in Nat
    <3>1. f \in 0 .. Len(inst.r)
      BY <1>3, <2>2
    <3> QED
      BY <1>3, <2>4, <3>1, NextUndecided
  <2> QED
    BY <1>3, <2>2, <2>5
<1>5. a_earliest_temp'[0] = inst.p.e[0]
  <2>1. a_earliest_temp' = [i \in 0 .. tail |->
          IF i \in {Last(x.e), Last(x.s)} THEN EarliestAfter(x, i) ELSE a_earliest_temp[i]]
    BY DEF Goto
  <2>2. 0 \in 0 .. tail /\ 0 \notin {Last(x.e), Last(x.s)}
    BY <1>3, <1>4
  <2>3. a_earliest_temp[0] = inst.p.e[0]
    BY DEF BestInv, Leaves
  <2> QED
    BY <2>1, <2>2, <2>3
<1>6. Leaves'
  BY <1>1, <1>5 DEF Leaves
<1>7. Lowered'
  BY <1>1, <1>2 DEF BestInv, Lowered
<1>8. Turns'
  <2>1. pc' = "backtrack" => Pruned(st, a_earliest_temp)'
    <3>1. pc' = "backtrack" => Pruned(x, a_earliest_temp')
      BY <1>1
    <3> QED
      BY <1>1, <3>1 DEF Pruned, l_at, late_at, a_earliest
  <2> QED
    BY <2>1 DEF Turns
<1>9. Seen'
  <2>1. ASSUME NEW y \in Ejections(inst.r, inst.k_max), Passed(y)' PROVE Handled(inst, p_best, y)
    <3>1. Precedes(y, st'.e)
      BY <1>2, <2>1 DEF Passed
    <3> QED
      BY <3>1
  <2> QED
    BY <1>1, <2>1 DEF Seen
<1> QED
  BY <1>6, <1>7, <1>8, <1>9 DEF BestInv

\* What the search has passed need not be visited.
LEMMA PassedHandled ==
  ASSUME BestInv, Searching, NEW y \in Ejections(inst.r, inst.k_max), Passed(y)
  PROVE  Handled(inst, p_best, y)
BY DEF BestInv, Seen

\* What an ejection is made of, for the order.
LEMMA EjectionOrder ==
  ASSUME inst \in Instances, NEW y \in Ejections(inst.r, inst.k_max)
  PROVE  /\ y \in Seq(Nat) /\ y # <<>> /\ 0 < y[1]
         /\ \A i, j \in 1 .. Len(y) : i < j => y[i] < y[j]
<1>1. PICK m \in Nat : m = Len(y) /\ m # 0
  BY EjectionSum
<1>2. y \in Seq(Nat) /\ Picked(inst.r, y, m)
  BY <1>1, EjectionSum
<1>3. /\ \A i \in 1 .. m : y[i] \in 1 .. Len(inst.r)
      /\ \A i, j \in 1 .. m : i < j => y[i] < y[j]
  BY <1>2 DEF Picked
<1>4. y[1] \in 1 .. Len(inst.r) /\ Len(inst.r) \in Nat
  BY <1>1, <1>3, Arguments
<1>5. y # <<>>
  BY <1>1
<1> QED
  BY <1>1, <1>2, <1>3, <1>4, <1>5

\* Nothing precedes the first ejection.
LEMMA StartBest == BestInv /\ Start => BestInv'
<1> SUFFICES ASSUME BestInv, Start PROVE BestInv'
  OBVIOUS
<1>1. SearchInv /\ pc = "start" /\ Goto(incr_k(st)) /\ ~st.incremented_last
  BY DEF BestInv, Start, Lowered
<1>2. /\ SearchInv' /\ st'.e = Append(<<>>, 1) /\ ~st'.incremented_last
  BY <1>1, StartStep DEF Moved
<1>3. inst \in Instances
  BY <1>1 DEF SearchInv, Types
<1>4. ASSUME NEW y \in Ejections(inst.r, inst.k_max), Precedes(y, st'.e) PROVE FALSE
  BY <1>2, <1>3, <1>4, EjectionOrder, PrecedesNone
<1> QED
  BY <1>1, <1>2, <1>4, MoveBest

\* Between an ejection and the next one behind it there is none.
LEMMA ExtendBest == BestInv /\ Extend => BestInv'
<1> SUFFICES ASSUME BestInv, Extend PROVE BestInv'
  OBVIOUS
<1>1. /\ SearchInv /\ pc = "branch" /\ Searching
      /\ Goto(incr_k([st EXCEPT !.incremented_last = FALSE]))
  BY DEF BestInv, Extend, Searching
<1>2. PICK e \in Seq(Nat) : e = st.e /\ e # <<>>
  BY <1>1, Standing
<1>3. PICK f \in Nat : f = Last(e)
  BY <1>2, FrontElements
<1>4. SearchInv' /\ st'.e = Append(e, f + 1) /\ (st'.incremented_last => Last(st'.ne) + 1 = f + 1)
  BY <1>1, <1>2, <1>3, ExtendStep DEF Moved, Decided
<1>5. Last(st'.e) = f + 1
  <2>1. Last(Append(e, f + 1)) = f + 1
    BY <1>2 DEF Last
  <2> QED
    BY <1>4, <2>1
<1>6. inst \in Instances
  BY <1>1, Standing
<1>7. ASSUME NEW y \in Ejections(inst.r, inst.k_max), Precedes(y, st'.e)
      PROVE  Handled(inst, p_best, y)
  <2>1. y \in Seq(Nat) /\ \A i, j \in 1 .. Len(y) : i < j => y[i] < y[j]
    BY <1>6, EjectionOrder
  <2>2. \/ Precedes(y, e)
        \/ y = e
        \/ Len(e) < Len(y) /\ Agree(y, e, Len(e)) /\ y[Len(e) + 1] < f + 1
    <3>1. f + 1 \in Nat /\ Precedes(y, Append(e, f + 1))
      BY <1>4, <1>7
    <3> QED
      BY <2>1, <3>1, PrecedesAppend
  <2>3. CASE Precedes(y, e) \/ y = e
    <3>1. Passed(y)
      BY <1>1, <1>2, <2>3 DEF Passed
    <3> QED
      BY <1>1, <3>1, PassedHandled
  <2>4. CASE Len(e) < Len(y) /\ Agree(y, e, Len(e)) /\ y[Len(e) + 1] < f + 1
    <3>1. PICK c \in Nat : Len(e) = c + 1 /\ e[c + 1] = f
      BY <1>2, <1>3, FrontElements
    <3>2. PICK m \in Nat : m = Len(y)
      BY <2>1
    <3>3. c + 1 \in 1 .. m /\ (c + 1) + 1 \in 1 .. m /\ c + 1 < (c + 1) + 1
      BY <2>4, <3>1, <3>2
    <3>4. y[c + 1] = f
      BY <2>4, <3>1, <3>3 DEF Agree
    <3>5. y[c + 1] < y[(c + 1) + 1] /\ y[(c + 1) + 1] \in Nat
      BY <2>1, <3>2, <3>3
    <3>6. y[(c + 1) + 1] < f + 1
      BY <2>4, <3>1
    <3> QED
      BY <3>4, <3>5, <3>6
  <2> QED
    BY <2>2, <2>3, <2>4
<1> QED
  BY <1>1, <1>4, <1>5, <1>7, MoveBest

\* What goes on behind an ejection the search does not extend is too expensive or long.
LEMMA IncrementLastBest == BestInv /\ IncrementLast => BestInv'
<1> SUFFICES ASSUME BestInv, IncrementLast PROVE BestInv'
  OBVIOUS
<1>1. /\ SearchInv /\ pc = "branch" /\ Searching /\ Goto(incr_k(incr_last(st)))
      /\ ~(st.p_sum < p_best /\ Len(st.e) < inst.k_max)
  BY DEF BestInv, IncrementLast, Searching, MayExtend
<1>2. PICK e \in Seq(Nat) : e = st.e /\ e # <<>>
  BY <1>1, Standing
<1>3. PICK f \in Nat : f = Last(e)
  BY <1>2, FrontElements
<1>4. /\ SearchInv' /\ st'.e = Append(Front(e), f + 1)
      /\ st'.incremented_last => Last(st'.ne) + 1 = f + 1
  BY <1>1, <1>2, <1>3, IncrementLastStep DEF Moved, Decided
<1>5. Last(st'.e) = f + 1
  <2>1. Front(e) \in Seq(Nat)
    BY <1>2, FrontElements
  <2>2. Last(Append(Front(e), f + 1)) = f + 1
    BY <2>1 DEF Last
  <2> QED
    BY <1>4, <2>2
<1>6. /\ inst \in Instances /\ Picked(inst.r, e, Len(e)) /\ Len(e) \in Nat
      /\ st.p_sum = PSum(inst.ps, Ejected(inst.r, e))
  BY <1>1, <1>2, Standing
<1>7. ASSUME NEW y \in Ejections(inst.r, inst.k_max), Precedes(y, st'.e)
      PROVE  Handled(inst, p_best, y)
  <2>1. y \in Seq(Nat) /\ Len(y) \in 1 .. inst.k_max /\ Len(y) \in Nat
    BY <1>6, EjectionSum
  <2>2. Precedes(y, e) \/ Extends(y, e)
    BY <1>2, <1>3, <1>4, <1>7, <2>1, PrecedesIncremented
  <2>3. CASE Precedes(y, e) \/ y = e
    <3>1. Passed(y)
      BY <1>1, <1>2, <2>3 DEF Passed
    <3> QED
      BY <1>1, <3>1, PassedHandled
  <2>4. CASE Extends(y, e) /\ y # e
    <3>1. Len(e) < Len(y) /\ Agree(y, e, Len(e))
      <4>1. Len(e) # Len(y)
        <5>1. ASSUME Len(e) = Len(y) PROVE y = e
          <6>1. \A k \in 1 .. Len(y) : y[k] = e[k]
            BY <2>4, <5>1 DEF Extends, Agree
          <6> QED
            BY <1>2, <2>1, <5>1, <6>1, SeqEqual
        <5> QED
          BY <2>4, <5>1
      <4> QED
        BY <1>6, <2>1, <2>4, <4>1 DEF Extends
    <3>2. /\ PSum(inst.ps, Ejected(inst.r, e)) \in Nat /\ PSum(inst.ps, Ejected(inst.r, y)) \in Nat
          /\ PSum(inst.ps, Ejected(inst.r, e)) <= PSum(inst.ps, Ejected(inst.r, y))
      BY <1>6, <3>1, LongerCosts
    <3>3. Len(e) < inst.k_max
      <4>1. inst.k_max \in Nat
        BY <1>6, Arguments
      <4> QED
        BY <1>6, <2>1, <3>1, <4>1
    <3>4. p_best \in Nat
      BY <1>1 DEF SearchInv, Types
    <3>5. ~(PSum(inst.ps, Ejected(inst.r, e)) < p_best)
      BY <1>1, <1>2, <1>6, <3>3
    <3>6. ~(PSum(inst.ps, Ejected(inst.r, y)) < p_best)
      BY <3>2, <3>4, <3>5
    <3> QED
      BY <3>6 DEF Handled, Improving
  <2> QED
    BY <2>2, <2>3, <2>4
<1> QED
  BY <1>1, <1>4, <1>5, <1>7, MoveBest

\* What the search turns back from need not be visited.
LEMMA BacktrackBest ==
  ASSUME WindowsOpen(inst.p), DemandsNatural(inst.p), BestInv, Backtrack
  PROVE  BestInv'
<1>1. SearchInv /\ Searching /\ MustBacktrack /\ Goto(incr_k(incr_last(backtrack(st))))
  BY DEF BestInv, Backtrack, MustBacktrack, Searching
<1>2. PICK e \in Seq(Nat) : e = st.e /\ e # <<>>
  BY <1>1, Standing
<1>3. PICK d \in Seq(Nat) : d = Front(e) /\ d # <<>>
  BY <1>1, <1>2, FrontElements, BacktrackStep
<1>4. PICK f \in Nat : f = Last(d)
  BY <1>3, FrontElements
<1>5. /\ SearchInv' /\ st'.e = Append(Front(d), f + 1)
      /\ st'.incremented_last => Last(st'.ne) + 1 = f + 1
  BY <1>1, <1>2, <1>3, <1>4, BacktrackStep DEF Moved, Decided
<1>6. Last(st'.e) = f + 1
  <2>1. Front(d) \in Seq(Nat)
    BY <1>3, FrontElements
  <2>2. Last(Append(Front(d), f + 1)) = f + 1
    BY <2>1 DEF Last
  <2> QED
    BY <1>5, <2>2
<1>7. inst \in Instances
  BY <1>1, Standing
<1>8. ASSUME NEW y \in Ejections(inst.r, inst.k_max), Precedes(y, st'.e)
      PROVE  Handled(inst, p_best, y)
  <2>1. y \in Seq(Nat)
    BY <1>7, EjectionSum
  <2>2. Precedes(y, Append(Front(Front(e)), Last(Front(e)) + 1))
    BY <1>3, <1>4, <1>5, <1>8
  <2>3. Precedes(y, e) \/ Beyond(y, e)
    BY <1>2, <1>3, <2>1, <2>2, PrecedesBacktracked
  <2>4. CASE Precedes(y, e)
    <3>1. Passed(y)
      BY <1>1, <1>2, <2>4 DEF Passed
    <3> QED
      BY <1>1, <3>1, PassedHandled
  <2>5. CASE Beyond(y, e)
    BY <1>1, <1>2, <2>5, TurnHandled
  <2> QED
    BY <2>3, <2>4, <2>5
<1>9. pc # "dead"
  BY <1>1 DEF Searching
<1> QED
  BY <1>1, <1>5, <1>6, <1>8, <1>9, MoveBest

\* With a lower p_best no more ejections have to be visited.
LEMMA HandledLower ==
  ASSUME inst \in Instances, NEW b \in Nat, NEW c \in Nat, c <= b,
         NEW y \in Ejections(inst.r, inst.k_max), Handled(inst, b, y)
  PROVE  Handled(inst, c, y)
<1>1. PSum(inst.ps, Ejected(inst.r, y)) \in Nat
  BY EjectionSum
<1>2. Improving(inst.p, inst.r, inst.ps, c, y) => Improving(inst.p, inst.r, inst.ps, b, y)
  BY <1>1 DEF Improving
<1> QED
  BY <1>2 DEF Handled

\* The ejection that is reported does not improve on its own sum.
LEMMA AcceptBest == BestInv /\ Accept => BestInv'
<1> SUFFICES ASSUME BestInv, Accept PROVE BestInv'
  OBVIOUS
<1>1. /\ SearchInv /\ pc = "test" /\ Searching /\ Accepts /\ p_best' = st.p_sum /\ pc' = "yield"
      /\ UNCHANGED <<inst, st, a_temp, a_earliest_temp>>
  BY DEF BestInv, Accept, Searching
<1>2. SearchInv'
  BY <1>1, AcceptStep
<1>3. /\ inst \in Instances /\ st.p_sum = PSum(inst.ps, Ejected(inst.r, st.e))
      /\ p_best \in Nat /\ inst.p_best \in Nat
  BY <1>1, Standing, Arguments DEF SearchInv, Types
<1>4. st.e \in Ejections(inst.r, inst.k_max)
  BY <1>1, StandingEjection
<1>5. st.p_sum \in Nat
  BY <1>3, <1>4, EjectionSum
<1>6. st.p_sum < p_best
  BY <1>1 DEF Accepts
<1>7. Lowered'
  BY <1>1, <1>3, <1>5, <1>6 DEF BestInv, Lowered
<1>8. Leaves' /\ Turns'
  BY <1>1 DEF BestInv, Leaves, Turns, Searching
<1>9. ASSUME NEW y \in Ejections(inst.r, inst.k_max), Passed(y)'
      PROVE  Handled(inst, st.p_sum, y)
  <2>1. Precedes(y, st.e) \/ y = st.e
    BY <1>1, <1>9 DEF Passed
  <2>2. CASE Precedes(y, st.e)
    <3>1. Handled(inst, p_best, y)
      BY <1>1, <2>2, PassedHandled DEF Passed
    <3>2. st.p_sum <= p_best
      BY <1>3, <1>5, <1>6
    <3> QED
      BY <1>3, <1>5, <3>1, <3>2, HandledLower
  <2>3. CASE y = st.e
    <3>1. ~(PSum(inst.ps, Ejected(inst.r, y)) < st.p_sum)
      BY <1>3, <1>5, <2>3
    <3> QED
      BY <3>1 DEF Handled, Improving
  <2> QED
    BY <2>1, <2>2, <2>3
<1>10. Seen'
  BY <1>1, <1>9 DEF Seen
<1> QED
  BY <1>2, <1>7, <1>8, <1>10 DEF BestInv

\* An ejection that fails the test does not improve.
LEMMA RejectBest ==
  ASSUME WindowsOpen(inst.p), BestInv, Reject
  PROVE  BestInv'
<1>1. /\ SearchInv /\ pc = "test" /\ Searching /\ ~Accepts /\ pc' = "branch" /\ Reject
      /\ UNCHANGED <<inst, st, a_temp, a_earliest_temp, p_best>>
  BY DEF BestInv, Reject, Searching
<1>2. SearchInv'
  BY <1>1, OtherSteps
<1>3. Lowered' /\ Leaves' /\ Turns'
  BY <1>1 DEF BestInv, Lowered, Leaves, Turns, Searching
<1>4. ~Improving(inst.p, inst.r, inst.ps, p_best, st.e)
  BY <1>1, TestSound
<1>5. ASSUME NEW y \in Ejections(inst.r, inst.k_max), Passed(y)'
      PROVE  Handled(inst, p_best, y)
  <2>1. Precedes(y, st.e) \/ y = st.e
    BY <1>1, <1>5 DEF Passed
  <2>2. CASE Precedes(y, st.e)
    BY <1>1, <2>2, PassedHandled DEF Passed
  <2>3. CASE y = st.e
    BY <1>4, <2>3 DEF Handled
  <2> QED
    BY <2>1, <2>2, <2>3
<1>6. Seen'
  BY <1>1, <1>5 DEF Seen
<1> QED
  BY <1>2, <1>3, <1>6 DEF BestInv

\* After a report the search goes on from the same ejection.
LEMMA ResumedBest == BestInv /\ Resumed => BestInv'
<1> SUFFICES ASSUME BestInv, Resumed PROVE BestInv'
  OBVIOUS
<1>1. /\ SearchInv /\ pc = "yield" /\ Searching /\ pc' = "branch" /\ Resumed
      /\ UNCHANGED <<inst, st, a_temp, a_earliest_temp, p_best>>
  BY DEF BestInv, Resumed, Searching
<1>2. SearchInv'
  BY <1>1, OtherSteps
<1>3. Lowered' /\ Leaves' /\ Turns'
  BY <1>1 DEF BestInv, Lowered, Leaves, Turns, Searching
<1>4. ASSUME NEW y \in Ejections(inst.r, inst.k_max), Passed(y)'
      PROVE  Handled(inst, p_best, y)
  <2>1. Passed(y)
    BY <1>1, <1>4 DEF Passed
  <2> QED
    BY <1>1, <2>1, PassedHandled
<1>5. Seen'
  BY <1>1, <1>4 DEF Seen
<1> QED
  BY <1>2, <1>3, <1>5 DEF BestInv

\* A search that has ended leaves p_best as it is.
LEMMA DeadBest == BestInv /\ (NothingToEject \/ Cancelled \/ Exhausted) => BestInv'
<1> SUFFICES ASSUME BestInv, NothingToEject \/ Cancelled \/ Exhausted PROVE BestInv'
  OBVIOUS
<1>1. SearchInv /\ pc' = "dead" /\ UNCHANGED <<inst, p_best>>
  BY DEF BestInv, NothingToEject, Cancelled, Exhausted
<1>2. SearchInv'
  BY <1>1, OtherSteps
<1>3. Lowered'
  BY <1>1 DEF BestInv, Lowered
<1>4. Leaves' /\ Turns' /\ Seen'
  BY <1>1 DEF Leaves, Turns, Seen, Searching
<1> QED
  BY <1>2, <1>3, <1>4 DEF BestInv

\* A step without any change.
LEMMA StuttersBest == BestInv /\ UNCHANGED vars => BestInv'
<1> SUFFICES ASSUME BestInv, UNCHANGED vars PROVE BestInv'
  OBVIOUS
<1>1. UNCHANGED <<inst, pc, st, a_temp, a_earliest_temp, p_best>>
  BY DEF vars
<1>2. SearchInv'
  BY Stutters DEF BestInv
<1>3. Lowered' /\ Leaves'
  BY <1>1 DEF BestInv, Lowered, Leaves
<1>4. Turns'
  <2>1. pc' = "backtrack" => Pruned(st, a_earliest_temp)'
    BY <1>1 DEF BestInv, Turns, Pruned, l_at, late_at, a_earliest
  <2> QED
    BY <1>1, <2>1 DEF BestInv, Turns, Searching
<1>5. Seen'
  BY <1>1 DEF BestInv, Seen, Searching, Passed
<1> QED
  BY <1>2, <1>3, <1>4, <1>5 DEF BestInv

\* The search starts with nothing passed.
LEMMA InitBest == Init => BestInv
<1> SUFFICES ASSUME Init PROVE BestInv
  OBVIOUS
<1>1. SearchInv
  BY InitInv
<1>2. pc = "start" /\ a_earliest_temp = a_temp /\ p_best = inst.p_best /\ ~st.incremented_last
  BY DEF Init
<1>3. Leaves
  BY <1>1, <1>2 DEF Leaves, SearchInv, Fresh
<1>4. Lowered
  <2>1. p_best \in Nat
    BY <1>1 DEF SearchInv, Types
  <2> QED
    BY <1>2, <2>1 DEF Lowered
<1>5. Turns /\ Seen
  BY <1>2 DEF Turns, Seen, Searching
<1> QED
  BY <1>1, <1>3, <1>4, <1>5 DEF BestInv
-----------------------------------------------------------------------------
(***************************************************************************)
(* The abstract search defines the same ejections.                         *)
(***************************************************************************)

\* The same tuples are ejections.
LEMMA SameEjections ==
  ASSUME NEW r, NEW k
  PROVE  Best!Ejections(r, k) = Ejections(r, k)
BY DEF Best!Ejections, Ejections, Best!MIN, MIN

\* Served at the same times.
LEMMA SameArrivalsBest ==
  ASSUME NEW p, NEW r
  PROVE  Best!Arrivals(p, r) = Arrivals(p, r)
BY DEF Best!Arrivals, Arrivals, Best!Clip, Clip, Best!MIN, MIN, Best!MAX, MAX, Best!Indexes, Indexes,
       Best!depot_head, depot_head, Best!Id, Id, Best!Leg, Leg, Best!dist, dist

\* With the same lateness.
LEMMA SameLateness ==
  ASSUME NEW p, NEW r
  PROVE  Best!PrefixLateness(p, r) = PrefixLateness(p, r)
BY DEF Best!PrefixLateness, PrefixLateness, Best!ArrivalQuote, ArrivalQuote,
       Best!Arrivals, Arrivals, Best!Clip, Clip, Best!MIN, MIN, Best!MAX, MAX, Best!Indexes, Indexes,
       Best!depot_head, depot_head, Best!Id, Id, Best!Leg, Leg, Best!dist, dist

\* And the same loads.
LEMMA SameDemand ==
  ASSUME NEW p, NEW r
  PROVE  Best!PrefixDemand(p, r) = PrefixDemand(p, r)
BY DEF Best!PrefixDemand, PrefixDemand, Best!Indexes, Indexes, Best!depot_head, depot_head, Best!Id, Id

\* The same customers are left.
LEMMA SameRest ==
  ASSUME NEW r, NEW x
  PROVE  Best!Rest(r, x) = Rest(r, x)
BY DEF Best!Rest, Rest, Best!RemoveIndex, RemoveIndex

\* With the same sum of p.
LEMMA SameSum ==
  ASSUME NEW r, NEW x, NEW ps
  PROVE  Best!PSum(ps, Best!Ejected(r, x)) = PSum(ps, Ejected(r, x))
BY DEF Best!PSum, PSum, Best!Ejected, Ejected

\* So the same ejections improve.
LEMMA SameImproving ==
  ASSUME NEW p, NEW r, NEW ps, NEW b, NEW x
  PROVE  Best!Improving(p, r, ps, b, x) <=> Improving(p, r, ps, b, x)
<1>1. ASSUME NEW q
      PROVE  Best!TwPenalty(p, q) = TwPenalty(p, q) /\ Best!CPenalty(p, q) = CPenalty(p, q)
  <2>1. Best!PrefixLateness(p, q) = PrefixLateness(p, q)
    BY SameLateness
  <2>2. Best!PrefixDemand(p, q) = PrefixDemand(p, q)
    BY SameDemand
  <2> QED
    BY <2>1, <2>2 DEF Best!TwPenalty, TwPenalty, Best!CPenalty, CPenalty, Best!MAX, MAX,
                      Best!depot_tail, depot_tail
<1>2. Best!FeasibleEjection(p, r, x) <=> FeasibleEjection(p, r, x)
  BY <1>1, SameRest DEF Best!FeasibleEjection, FeasibleEjection
<1> QED
  BY <1>2, SameSum DEF Best!Improving, Improving

\* And the same ones are left.
LEMMA SameNoneLeft ==
  ASSUME NEW p, NEW r, NEW k, NEW ps, NEW b
  PROVE  Best!NoneLeft(p, r, k, ps, b) <=> NoneLeft(p, r, k, ps, b)
<1>1. Best!Late(p, r) = Late(p, r)
  BY DEF Best!Late, Late, Best!Earliest, Earliest, Best!ArrivalQuote, ArrivalQuote,
         Best!Arrivals, Arrivals, Best!Clip, Clip, Best!MIN, MIN, Best!MAX, MAX,
         Best!Indexes, Indexes, Best!depot_head, depot_head, Best!Id, Id, Best!Leg, Leg,
         Best!dist, dist
<1>2. Best!capacity_violated(p, r) <=> capacity_violated(p, r)
  BY SameDemand DEF Best!capacity_violated, capacity_violated, Best!depot_tail, depot_tail
<1>3. ASSUME NEW x PROVE Best!Considered(p, r, x) <=> Considered(p, r, x)
  BY <1>1, <1>2 DEF Best!Considered, Considered
<1> QED
  BY <1>3, SameEjections, SameImproving DEF Best!NoneLeft, NoneLeft
-----------------------------------------------------------------------------
\* When the search has turned back from its first customer, none is left.
LEMMA ExhaustedNoneLeft ==
  ASSUME WindowsOpen(inst.p), DemandsNatural(inst.p), BestInv, Exhausted
  PROVE  NoneLeft(inst.p, inst.r, inst.k_max, inst.ps, p_best)
<1>1. SearchInv /\ Searching /\ MustBacktrack /\ Len(st.e) = 1
  BY DEF BestInv, Exhausted, MustBacktrack, Searching
<1>2. inst \in Instances /\ st.e \in Seq(Nat) /\ p_best \in Nat
  BY <1>1, Standing DEF SearchInv, Types
<1>3. ASSUME NEW y \in Ejections(inst.r, inst.k_max) PROVE Handled(inst, p_best, y)
  <2>1. y \in Seq(Nat) /\ y # <<>>
    BY <1>2, EjectionOrder
  <2>2. Precedes(y, st.e) \/ Beyond(y, st.e)
    BY <1>1, <1>2, <2>1, PrecedesSingle
  <2>3. CASE Precedes(y, st.e)
    BY <1>1, <2>3, PassedHandled DEF Passed
  <2>4. CASE Beyond(y, st.e)
    BY <1>1, <2>4, TurnHandled
  <2> QED
    BY <2>2, <2>3, <2>4
<1> QED
  BY <1>2, <1>3, AllHandled

\* The invariant is inductive.
LEMMA NextBest ==
  ASSUME \A i \in Instances : WindowsOpen(i.p) /\ DemandsNatural(i.p)
  PROVE  BestInv /\ [Next]_vars => BestInv'
<1> SUFFICES ASSUME BestInv, [Next]_vars PROVE BestInv'
  OBVIOUS
<1>1. WindowsOpen(inst.p) /\ DemandsNatural(inst.p)
  BY DEF BestInv, SearchInv, Types
<1> QED
  BY <1>1, StartBest, ExtendBest, IncrementLastBest, BacktrackBest, AcceptBest, RejectBest,
     ResumedBest, DeadBest, StuttersBest DEF Next

\* Each step of the search is one of the abstract search, or changes nothing there.
LEMMA StepsBest ==
  ASSUME \A i \in Instances : WindowsOpen(i.p) /\ DemandsNatural(i.p)
  PROVE  BestInv /\ [Next]_vars => [Best!Next]_(Best!vars)
<1> SUFFICES ASSUME BestInv, [Next]_vars PROVE [Best!Next]_(Best!vars)
  OBVIOUS
<1>1. /\ inst \in Instances /\ WindowsOpen(inst.p) /\ DemandsNatural(inst.p) /\ SearchInv
      /\ p_best \in Nat
  BY DEF BestInv, SearchInv, Types
<1>2. CASE UNCHANGED vars
  BY <1>2 DEF vars, Best!vars
<1>3. CASE Start \/ Extend \/ IncrementLast \/ Backtrack
  <2>1. \E x : Goto(x)
    BY <1>3 DEF Start, Extend, IncrementLast, Backtrack
  <2>2. pc # "dead"
    BY <1>3 DEF Start, Extend, IncrementLast, Backtrack, MustBacktrack
  <2>3. UNCHANGED <<inst, p_best>> /\ pc' # "dead"
    BY <2>1 DEF Goto
  <2> QED
    BY <2>2, <2>3 DEF Best!vars
<1>4. CASE Reject \/ Resumed
  BY <1>4 DEF Reject, Resumed, Best!vars
<1>5. CASE Accept
  <2>1. /\ pc = "test" /\ Accepts /\ p_best' = st.p_sum /\ pc' = "yield" /\ inst' = inst
        /\ Searching
    BY <1>5 DEF Accept, Searching
  <2>2. Improving(inst.p, inst.r, inst.ps, p_best, st.e)
    BY <1>1, <2>1, TestSound
  <2>3. st.e \in Ejections(inst.r, inst.k_max)
    BY <1>1, <2>1, StandingEjection
  <2>4. p_best' = PSum(inst.ps, Ejected(inst.r, st.e)) /\ p_best' < p_best
    BY <1>1, <2>1, Standing DEF Accepts
  <2>5. \E x \in Best!Ejections(inst.r, inst.k_max) :
          /\ Best!Improving(inst.p, inst.r, inst.ps, p_best, x)
          /\ p_best' = Best!PSum(inst.ps, Best!Ejected(inst.r, x))
    BY <2>2, <2>3, <2>4, SameEjections, SameImproving, SameSum
  <2>6. Best!Report
    BY <2>1, <2>4, <2>5 DEF Best!Report
  <2> QED
    BY <2>6 DEF Best!Next
<1>6. CASE Cancelled
  <2>1. pc = "yield" /\ pc' = "dead" /\ UNCHANGED <<inst, p_best>>
    BY <1>6 DEF Cancelled
  <2>2. p_best < inst.p_best
    BY <2>1 DEF BestInv, Lowered
  <2>3. Best!Cancel
    BY <2>1, <2>2 DEF Best!Cancel
  <2> QED
    BY <2>3 DEF Best!Next
<1>7. CASE NothingToEject \/ Exhausted
  <2>1. pc # "dead" /\ pc' = "dead" /\ UNCHANGED <<inst, p_best>>
    BY <1>7 DEF NothingToEject, Exhausted, MustBacktrack
  <2>2. NoneLeft(inst.p, inst.r, inst.k_max, inst.ps, p_best)
    <3>1. CASE NothingToEject
      <4>1. inst.k_max <= 0 /\ inst.k_max \in Nat
        BY <1>1, <3>1, Arguments DEF NothingToEject
      <4>2. ASSUME NEW y \in Ejections(inst.r, inst.k_max) PROVE FALSE
        <5>1. Len(y) \in 1 .. inst.k_max
          BY <1>1, <4>2, EjectionSum
        <5> QED
          BY <4>1, <5>1
      <4> QED
        BY <4>2 DEF NoneLeft
    <3> QED
      BY <1>1, <1>7, <3>1, ExhaustedNoneLeft
  <2>3. Best!End
    BY <2>1, <2>2, SameNoneLeft DEF Best!End
  <2> QED
    BY <2>3 DEF Best!Next
<1> QED
  BY <1>2, <1>3, <1>4, <1>5, <1>6, <1>7 DEF Next

\* Where every time window opens before it ends and no demand is negative, the search
\* that ends does what insert_eject relies on: each report lowers p_best to the sum of
\* a feasible ejection, and a search that was not cancelled has missed none of those
\* with a lower sum that condition c) is known to consider.
THEOREM SearchImplementsBest ==
  ASSUME \A i \in Instances : WindowsOpen(i.p) /\ DemandsNatural(i.p)
  PROVE  Spec /\ <>(pc = "dead") => FindsBestConsidered
<1>1. Init => BestInv
  BY InitBest
<1>2. BestInv /\ [Next]_vars => BestInv'
  BY NextBest
<1>3. BestInv /\ [Next]_vars => [Best!Next]_(Best!vars)
  BY StepsBest
<1>4. Init => p_best = inst.p_best /\ ~(pc = "dead")
  BY DEF Init
<1> QED
  BY <1>1, <1>2, <1>3, <1>4, PTL DEF Spec, FindsBestConsidered, Best!Spec
=============================================================================
