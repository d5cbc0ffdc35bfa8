----------------------- MODULE NeighbourhoodScanProofs -----------------------
(***************************************************************************)
(* Proofs about squeeze's scan: the generator yields the neighbourhood of  *)
(* the route and each move once, the lateness it prepares on a copy of the *)
(* route is the one the move adds, and what squeeze applies is a best      *)
(* move.                                                                   *)
(***************************************************************************)
EXTENDS NeighbourhoodScan, RouteProofs, FiniteSetTheorems

-----------------------------------------------------------------------------
(***************************************************************************)
(* Sequences that list a set.                                              *)
(***************************************************************************)
\* s has each member of S at one place, and nothing else.
Lists(s, S) == s \in Seq(S) /\ Distinct(s) /\ Elems(s) = S

\* What is listed.
LEMMA ListedSet ==
  ASSUME NEW S, NEW s, Lists(s, S)
  PROVE  /\ s \in Seq(S) /\ Len(s) \in Nat /\ DOMAIN s = 1 .. Len(s)
         /\ ToSet(s) = S /\ Elems(s) = S /\ IsInjective(s)
         /\ s = <<>> <=> S = {}
<1>1. s \in Seq(S) /\ Len(s) \in Nat /\ DOMAIN s = 1 .. Len(s)
  BY DEF Lists
<1>2. ToSet(s) = S /\ Elems(s) = S
  BY <1>1 DEF Lists, ToSet, Elems
<1>3. IsInjective(s)
  BY <1>1 DEF Lists, IsInjective, Distinct
<1>4. s = <<>> => S = {}
  BY <1>2 DEF Elems
<1>5. S = {} => s = <<>>
  <2>1. ASSUME s # <<>> PROVE s[1] \in S
    <3>1. 1 \in 1 .. Len(s)
      BY <1>1, <2>1
    <3> QED
      BY <1>1, <3>1
  <2> QED
    BY <2>1
<1> QED
  BY <1>1, <1>2, <1>3, <1>4, <1>5

\* The head and what comes after it.
LEMMA ListedHead ==
  ASSUME NEW S, NEW s, Lists(s, S), s # <<>>
  PROVE  Head(s) \in S /\ Lists(Tail(s), S \ {Head(s)})
<1>1. s \in Seq(S) /\ Distinct(s) /\ Elems(s) = S
  BY DEF Lists
<1>2. PICK n \in Nat : n = Len(s)
  BY <1>1
<1>3. PICK t : t = Tail(s)
  OBVIOUS
<1>4. /\ t \in Seq(S) /\ Len(t) = n - 1 /\ Head(s) = s[1] /\ n # 0 /\ n - 1 \in Nat
      /\ \A i \in 1 .. n - 1 : t[i] = s[i + 1]
  BY <1>1, <1>2, <1>3, HeadTailProperties
<1>5. 1 \in 1 .. n /\ \A i \in 1 .. n - 1 : i + 1 \in 1 .. n /\ i + 1 # 1
  BY <1>4
<1>6. Head(s) \in S
  BY <1>1, <1>2, <1>4, <1>5 DEF Elems
<1>7. \A i \in 1 .. n - 1 : t[i] \in S \ {Head(s)}
  BY <1>1, <1>2, <1>4, <1>5 DEF Elems, Distinct
<1>8. Distinct(t)
  <2>1. ASSUME NEW i \in 1 .. n - 1, NEW j \in 1 .. n - 1, t[i] = t[j] PROVE i = j
    <3>1. s[i + 1] = s[j + 1] /\ i + 1 \in 1 .. n /\ j + 1 \in 1 .. n
      BY <1>4, <1>5, <2>1
    <3>2. i + 1 = j + 1
      BY <1>1, <1>2, <3>1 DEF Distinct
    <3> QED
      BY <3>2
  <2> QED
    BY <1>4, <2>1 DEF Distinct
<1>9. Elems(t) = S \ {Head(s)}
  <2>1. ASSUME NEW c \in S, c # Head(s) PROVE c \in Elems(t)
    <3>1. PICK i \in 1 .. n : s[i] = c
      BY <1>1, <1>2 DEF Elems
    <3>2. i # 1
      BY <1>4, <2>1, <3>1
    <3>3. i - 1 \in 1 .. n - 1 /\ (i - 1) + 1 = i
      BY <3>2
    <3>4. t[i - 1] = c
      BY <1>4, <3>1, <3>3
    <3> QED
      BY <1>4, <3>3, <3>4 DEF Elems
  <2> QED
    BY <1>4, <1>7, <2>1 DEF Elems
<1>10. t \in Seq(S \ {Head(s)})
  <2>1. t = [i \in 1 .. n - 1 |-> t[i]]
    BY <1>4
  <2>2. t \in [1 .. n - 1 -> S \ {Head(s)}]
    BY <1>7, <2>1
  <2> QED
    BY <1>4, <2>2, SeqDef
<1> QED
  BY <1>3, <1>6, <1>8, <1>9, <1>10 DEF Lists

\* One more at the end.
LEMMA ListedAppend ==
  ASSUME NEW S, NEW s, Lists(s, S), NEW c, c \notin S
  PROVE  Lists(Append(s, c), S \cup {c})
<1>1. s \in Seq(S) /\ Distinct(s) /\ Elems(s) = S
  BY DEF Lists
<1>2. PICK n \in Nat : n = Len(s)
  BY <1>1
<1>3. PICK t : t = Append(s, c)
  OBVIOUS
<1>4. s \in Seq(S \cup {c})
  BY <1>1, SeqMonotonic
<1>5. /\ t \in Seq(S \cup {c}) /\ Len(t) = n + 1 /\ t[n + 1] = c
      /\ \A i \in 1 .. n : t[i] = s[i]
  BY <1>2, <1>3, <1>4
<1>6. \A i \in 1 .. n + 1 : i = n + 1 \/ i \in 1 .. n
  OBVIOUS
<1>7. \A i \in 1 .. n : s[i] \in S /\ i \in 1 .. n + 1
  BY <1>1, <1>2
<1>8. Distinct(t)
  BY <1>1, <1>2, <1>5, <1>6, <1>7 DEF Distinct
<1>9. Elems(t) = S \cup {c}
  <2>1. n + 1 \in 1 .. n + 1
    OBVIOUS
  <2>2. Elems(t) \subseteq S \cup {c}
    BY <1>5, <1>6, <1>7 DEF Elems
  <2>3. c \in Elems(t)
    BY <1>5, <2>1 DEF Elems
  <2>4. S \subseteq Elems(t)
    BY <1>1, <1>2, <1>5, <1>7 DEF Elems
  <2> QED
    BY <2>2, <2>3, <2>4
<1> QED
  BY <1>3, <1>5, <1>8, <1>9 DEF Lists

\* One list after another.
LEMMA ListedConcat ==
  ASSUME NEW S, NEW s, Lists(s, S), NEW T, NEW t, Lists(t, T), S \cap T = {}
  PROVE  Lists(s \o t, S \cup T)
<1>1. /\ s \in Seq(S) /\ Distinct(s) /\ Elems(s) = S
      /\ t \in Seq(T) /\ Distinct(t) /\ Elems(t) = T
  BY DEF Lists
<1>2. PICK n \in Nat : n = Len(s)
  BY <1>1
<1>3. PICK k \in Nat : k = Len(t)
  BY <1>1
<1>4. PICK u : u = s \o t
  OBVIOUS
<1>5. s \in Seq(S \cup T) /\ t \in Seq(S \cup T)
  BY <1>1, SeqMonotonic
<1>6. /\ u \in Seq(S \cup T) /\ Len(u) = n + k
      /\ \A i \in 1 .. n + k : u[i] = IF i <= n THEN s[i] ELSE t[i - n]
  BY <1>2, <1>3, <1>4, <1>5, ConcatProperties
<1>7. \A i \in 1 .. n + k : (i <= n /\ i \in 1 .. n) \/ (~(i <= n) /\ i - n \in 1 .. k)
  OBVIOUS
<1>8. /\ \A i \in 1 .. n : s[i] \in S /\ i \in 1 .. n + k /\ i <= n
      /\ \A i \in 1 .. k : t[i] \in T /\ n + i \in 1 .. n + k /\ ~(n + i <= n) /\ (n + i) - n = i
  BY <1>1, <1>2, <1>3
<1>9. Distinct(u)
  <2>1. ASSUME NEW i \in 1 .. n + k, NEW j \in 1 .. n + k, u[i] = u[j] PROVE i = j
    <3>1. CASE i <= n /\ j <= n
      <4>1. s[i] = s[j] /\ i \in 1 .. n /\ j \in 1 .. n
        BY <1>6, <1>7, <2>1, <3>1
      <4> QED
        BY <1>1, <1>2, <4>1 DEF Distinct
    <3>2. CASE i <= n /\ ~(j <= n)
      <4>1. u[i] \in S /\ u[j] \in T
        BY <1>6, <1>7, <1>8, <3>2
      <4> QED
        BY <2>1, <4>1
    <3>3. CASE ~(i <= n) /\ j <= n
      <4>1. u[i] \in T /\ u[j] \in S
        BY <1>6, <1>7, <1>8, <3>3
      <4> QED
        BY <2>1, <4>1
    <3>4. CASE ~(i <= n) /\ ~(j <= n)
      <4>1. t[i - n] = t[j - n] /\ i - n \in 1 .. k /\ j - n \in 1 .. k
        BY <1>6, <1>7, <2>1, <3>4
      <4>2. i - n = j - n
        BY <1>1, <1>3, <4>1 DEF Distinct
      <4> QED
        BY <4>2
    <3> QED
      BY <3>1, <3>2, <3>3, <3>4
  <2> QED
    BY <1>6, <2>1 DEF Distinct
<1>10. Elems(u) = S \cup T
  <2>1. Elems(u) \subseteq S \cup T
    BY <1>6, <1>7, <1>8 DEF Elems
  <2>2. S \subseteq Elems(u)
    <3>1. ASSUME NEW c \in S PROVE c \in Elems(u)
      <4>1. PICK i \in 1 .. n : s[i] = c
        BY <1>1, <1>2 DEF Elems
      <4>2. i \in 1 .. n + k /\ u[i] = c
        BY <1>6, <1>8, <4>1
      <4> QED
        BY <1>6, <4>2 DEF Elems
    <3> QED
      BY <3>1
  <2>3. T \subseteq Elems(u)
    <3>1. ASSUME NEW c \in T PROVE c \in Elems(u)
      <4>1. PICK i \in 1 .. k : t[i] = c
        BY <1>1, <1>3 DEF Elems
      <4>2. n + i \in 1 .. n + k /\ u[n + i] = c
        BY <1>6, <1>8, <4>1
      <4> QED
        BY <1>6, <4>2 DEF Elems
    <3> QED
      BY <3>1
  <2> QED
    BY <2>1, <2>2, <2>3
<1> QED
  BY <1>4, <1>6, <1>9, <1>10 DEF Lists

\* The orders of a finite set list it.
LEMMA ListedOrders ==
  ASSUME NEW S, IsFiniteSet(S), NEW s \in SetToSeqs(S)
  PROVE  Lists(s, S)
<1>1. PICK n : n = Cardinality(S)
  OBVIOUS
<1>2. n \in Nat
  BY <1>1, FS_CardinalityType
<1>3. s \in [1 .. n -> S] /\ \A i, j \in 1 .. n : i # j => s[i] # s[j]
  BY <1>1 DEF SetToSeqs
<1>4. s \in Seq(S) /\ Len(s) = n
  BY <1>2, <1>3
<1>5. Distinct(s)
  BY <1>3, <1>4 DEF Distinct
<1>6. s \in Injection(1 .. n, S)
  BY <1>3 DEF Injection, IsInjective
<1>7. Cardinality(1 .. n) = n
  BY <1>2, FS_Interval
<1>8. s \in Surjection(1 .. n, S)
  BY <1>1, <1>6, <1>7, FS_Injection
<1>9. Elems(s) = S
  BY <1>3, <1>4, <1>8 DEF Surjection, Elems
<1> QED
  BY <1>4, <1>5, <1>9 DEF Lists

-----------------------------------------------------------------------------
(***************************************************************************)
(* The neighbourhood by its candidates: which pairs of nodes there are,    *)
(* and which of the types that are tried on a pair are yielded.            *)
(***************************************************************************)
\* What v runs over for node n of route y, and the types of a pair's moves.
Candidates(rs, y, n) ==
  {u \in CustomerNodes(rs) : rs[u[1]][u[2]] \in Near[Id(rs[y], n[2])]}
    \cup (IF IsDepot(rs, n) THEN {} ELSE Tails(rs))

TypesOf(rs, a, b) == IF a[1] # b[1] THEN InterRoute(rs, a, b) ELSE IntraRoute(rs, a, b)

RouteNodes(rs, y) == {y} \X Indexes(rs[y])

Try(a, b) ==
  CASE a = b -> <<>>
    [] a[1] # b[1] -> InterTypes(a, b)
    [] OTHER -> IntraTypes(a, b)

YieldsOf(rs, type, a, b) ==
  a[1] = b[1] => /\ modification_applicable(rs, type, a, b)
                 /\ type = "EXCHANGE" => ExchangeExact(Problem, rs[a[1]], a[2], b[2])

\* The members of a neighbourhood.
LEMMA NeighbourhoodIs ==
  ASSUME NEW rs, NEW y
  PROVE  /\ \A t, a, b : <<t, a, b>> \in Neighbourhood(rs, y) <=>
              /\ b \in RouteNodes(rs, y) /\ a \in Candidates(rs, y, b) /\ a # b
              /\ t \in TypesOf(rs, a, b)
         /\ \A mv \in Neighbourhood(rs, y) : mv = <<mv[1], mv[2], mv[3]>>
<1>1. PICK pairs : pairs = NeighbourPairs(rs, y)
  OBVIOUS
<1>2. \A pair : pair \in pairs <=>
        \E b \in RouteNodes(rs, y) : \E a \in Candidates(rs, y, b) : pair = <<a, b>>
  BY <1>1 DEF NeighbourPairs, RouteNodes, Candidates
<1>3. \A mv : mv \in Neighbourhood(rs, y) <=>
        \E pair \in pairs : /\ pair[1] # pair[2]
                            /\ \E type \in TypesOf(rs, pair[1], pair[2]) :
                                 mv = <<type, pair[1], pair[2]>>
  BY <1>1 DEF Neighbourhood, TypesOf
<1>4. \A mv : mv \in Neighbourhood(rs, y) <=>
        \E b \in RouteNodes(rs, y) : \E a \in Candidates(rs, y, b) :
          a # b /\ \E type \in TypesOf(rs, a, b) : mv = <<type, a, b>>
  <2>1. \A a, b : <<a, b>>[1] = a /\ <<a, b>>[2] = b
    OBVIOUS
  <2>2. ASSUME NEW mv, mv \in Neighbourhood(rs, y)
        PROVE  \E b \in RouteNodes(rs, y) : \E a \in Candidates(rs, y, b) :
                 a # b /\ \E type \in TypesOf(rs, a, b) : mv = <<type, a, b>>
    <3>1. PICK pair \in pairs : /\ pair[1] # pair[2]
                                /\ \E type \in TypesOf(rs, pair[1], pair[2]) :
                                     mv = <<type, pair[1], pair[2]>>
      BY <1>3, <2>2
    <3>2. PICK b \in RouteNodes(rs, y) : \E a \in Candidates(rs, y, b) : pair = <<a, b>>
      BY <1>2
    <3>4. PICK a \in Candidates(rs, y, b) : pair = <<a, b>>
      BY <3>2
    <3>3. pair[1] = a /\ pair[2] = b
      BY <3>4
    <3> QED
      BY <3>1, <3>3
  <2>3. ASSUME NEW mv, NEW b \in RouteNodes(rs, y),
               NEW a \in Candidates(rs, y, b), a # b, NEW type \in TypesOf(rs, a, b), mv = <<type, a, b>>
        PROVE  mv \in Neighbourhood(rs, y)
    <3>1. PICK pair : pair = <<a, b>>
      OBVIOUS
    <3>2. pair \in pairs /\ pair[1] = a /\ pair[2] = b
      BY <1>2, <3>1
    <3> QED
      BY <1>3, <2>3, <3>2
  <2> QED
    BY <2>2, <2>3
<1>5. \A t, a, b, u, c, d : <<t, a, b>> = <<u, c, d>> => t = u /\ a = c /\ b = d
  OBVIOUS
<1>6. \A mv \in Neighbourhood(rs, y) : mv = <<mv[1], mv[2], mv[3]>>
  BY <1>4
<1>7. ASSUME NEW t, NEW a, NEW b
      PROVE  <<t, a, b>> \in Neighbourhood(rs, y) <=>
              /\ b \in RouteNodes(rs, y) /\ a \in Candidates(rs, y, b) /\ a # b
              /\ t \in TypesOf(rs, a, b)
  BY <1>4, <1>5
<1> QED
  BY <1>6, <1>7

\* The nodes of a candidate pair.
LEMMA CandidateNodes ==
  ASSUME NEW rs \in Seq(Seq(Customer)), NEW y \in DOMAIN rs,
         NEW b \in RouteNodes(rs, y), NEW a \in Candidates(rs, y, b)
  PROVE  /\ a \in Nodes(rs) /\ b \in Nodes(rs) /\ ~IsHead(a)
         /\ b[1] = y /\ b[2] \in 0 .. Len(rs[y]) + 1
         /\ IsDepot(rs, a) => ~IsDepot(rs, b) /\ IsTail(rs, a)
<1>1. \A z \in 1 .. Len(rs) : rs[z] \in Seq(Customer) /\ Len(rs[z]) \in Nat
  OBVIOUS
<1>2. DOMAIN rs = 1 .. Len(rs)
  OBVIOUS
<1>3. \A z \in 1 .. Len(rs) : \A i \in 0 .. Len(rs[z]) + 1 : <<z, i>> \in Nodes(rs)
  BY <1>2 DEF Nodes
<1>4. b = <<y, b[2]>> /\ b[1] = y /\ b[2] \in 0 .. Len(rs[y]) + 1
  BY DEF RouteNodes, Indexes
<1>5. b \in Nodes(rs)
  BY <1>2, <1>3, <1>4
<1>6. CASE a \in CustomerNodes(rs)
  <2>1. a \in Nat \X Nat /\ a[1] \in 1 .. Len(rs) /\ a[2] \in 1 .. Len(rs[a[1]])
    BY <1>6, NodeTypes
  <2>2. a = <<a[1], a[2]>> /\ a[2] \in 0 .. Len(rs[a[1]]) + 1
    BY <2>1, <1>1
  <2>3. a[2] # 0 /\ a[2] # Len(rs[a[1]]) + 1
    BY <2>1, <1>1
  <2>4. a \in Nodes(rs)
    BY <2>1, <2>2, <1>3
  <2>5. ~IsHead(a) /\ ~IsDepot(rs, a)
    BY <2>3 DEF IsDepot, IsHead, IsTail
  <2> QED
    BY <1>4, <1>5, <2>4, <2>5
<1>7. CASE a \notin CustomerNodes(rs)
  <2>1. ~IsDepot(rs, b) /\ a \in Tails(rs)
    BY <1>7 DEF Candidates
  <2>2. PICK z \in 1 .. Len(rs) : a = <<z, Len(rs[z]) + 1>>
    BY <1>2, <2>1 DEF Tails
  <2>3. a \in Nodes(rs) /\ IsTail(rs, a) /\ ~IsHead(a)
    BY <2>2, <1>1, <1>3 DEF IsTail, IsHead
  <2> QED
    BY <1>4, <1>5, <2>1, <2>3
<1> QED
  BY <1>6, <1>7

\* What is tried on a pair are the types of its moves and those that are not yielded.
LEMMA TriedTypes ==
  ASSUME rts \in Seq(Seq(Customer)), x \in DOMAIN rts,
         NEW b \in RouteNodes(rts, x), NEW a \in Candidates(rts, x, b)
  PROVE  \E S : /\ Lists(Try(a, b), S) /\ S \subseteq Moves
                /\ a = b => S = {}
                /\ S # {} /\ a[1] = b[1] => ~IsDepot(rts, a) /\ ~IsDepot(rts, b)
                /\ a # b => \A t : t \in TypesOf(rts, a, b) <=>
                                     t \in S /\ YieldsOf(rts, t, a, b)
<1> DEFINE good(S) ==
             /\ Lists(Try(a, b), S) /\ S \subseteq Moves
             /\ a = b => S = {}
             /\ S # {} /\ a[1] = b[1] => ~IsDepot(rts, a) /\ ~IsDepot(rts, b)
             /\ a # b => \A t : t \in TypesOf(rts, a, b) <=>
                                  t \in S /\ YieldsOf(rts, t, a, b)
<1>1. /\ ~IsHead(a) /\ b[1] = x /\ b[2] \in 0 .. Len(rts[x]) + 1
      /\ IsDepot(rts, a) => ~IsDepot(rts, b) /\ IsTail(rts, a)
  BY CandidateNodes
<1>2. /\ Lists(<<>>, {}) /\ Lists(<<"TWO_OPT">>, {"TWO_OPT"})
      /\ Lists(<<"OUT_RELOCATE">>, {"OUT_RELOCATE"})
      /\ Lists(<<"OUT_RELOCATE", "EXCHANGE">>, {"OUT_RELOCATE", "EXCHANGE"})
      /\ Lists(<<"TWO_OPT", "OUT_RELOCATE", "EXCHANGE">>, Moves)
  <2>1. Lists(<<>>, {})
    BY DEF Lists, Distinct, Elems
  <2>2. \A c : Lists(<<c>>, {c})
    BY DEF Lists, Distinct, Elems
  <2>3. \A c, d : c # d => Lists(<<c, d>>, {c, d})
    BY DEF Lists, Distinct, Elems
  <2>4. Lists(<<"TWO_OPT", "OUT_RELOCATE", "EXCHANGE">>, Moves)
    BY DEF Lists, Distinct, Elems, Moves
  <2>5. Lists(<<"OUT_RELOCATE", "EXCHANGE">>, {"OUT_RELOCATE", "EXCHANGE"})
    BY <2>3
  <2> QED
    BY <2>1, <2>2, <2>4, <2>5
<1>3. CASE a = b
  <2>1. Try(a, b) = <<>>
    BY <1>3 DEF Try
  <2>2. good({})
    BY <1>2, <1>3, <2>1
  <2> QED
    BY <2>2
<1>4. CASE a # b /\ a[1] = b[1]
  <2>1. Try(a, b) = IntraTypes(a, b) /\ TypesOf(rts, a, b) = IntraRoute(rts, a, b)
    BY <1>4 DEF Try, TypesOf
  <2>2. CASE IsDepot(rts, a) \/ IsDepot(rts, b)
    <3>1. IntraTypes(a, b) = <<>> /\ IntraRoute(rts, a, b) = {}
      BY <2>2 DEF IntraTypes, IntraRoute
    <3>2. good({})
      BY <1>2, <1>4, <2>1, <3>1
    <3> QED
      BY <3>2
  <2>3. CASE ~IsDepot(rts, a) /\ ~IsDepot(rts, b)
    <3>1. IntraTypes(a, b) = <<"OUT_RELOCATE", "EXCHANGE">>
      BY <2>3 DEF IntraTypes
    <3>2. \A t : t \in IntraRoute(rts, a, b) <=>
                   t \in {"OUT_RELOCATE", "EXCHANGE"} /\ YieldsOf(rts, t, a, b)
      BY <1>4, <2>3 DEF IntraRoute, YieldsOf
    <3>3. good({"OUT_RELOCATE", "EXCHANGE"})
      BY <1>2, <1>4, <2>1, <2>3, <3>1, <3>2 DEF Moves
    <3> QED
      BY <3>3
  <2> QED
    BY <2>2, <2>3
<1>5. CASE a[1] # b[1]
  <2>1. Try(a, b) = InterTypes(a, b) /\ TypesOf(rts, a, b) = InterRoute(rts, a, b) /\ a # b
    BY <1>5 DEF Try, TypesOf
  <2>2. \A t : YieldsOf(rts, t, a, b)
    BY <1>5 DEF YieldsOf
  <2>3. Len(rts[x]) \in Nat
    OBVIOUS
  <2>4. ~(IsTail(rts, b) /\ IsHead(b))
    BY <1>1, <2>3 DEF IsTail, IsHead
  <2>5. CASE IsTail(rts, b)
    <3>1. InterTypes(a, b) = <<>>
      BY <2>4, <2>5 DEF InterTypes, IsDepot
    <3>2. InterRoute(rts, a, b) = {}
      BY <2>5 DEF InterRoute
    <3>3. good({})
      BY <1>2, <1>5, <2>1, <3>1, <3>2
    <3> QED
      BY <3>3
  <2>6. CASE IsHead(b)
    <3>1. IsDepot(rts, b) /\ ~IsDepot(rts, a) /\ ~IsTail(rts, b)
      BY <1>1, <2>4, <2>6 DEF IsDepot
    <3>2. InterTypes(a, b) = <<"TWO_OPT">>
      BY <2>6, <3>1 DEF InterTypes
    <3>3. InterRoute(rts, a, b) = {"TWO_OPT"}
      BY <2>6, <3>1 DEF InterRoute, Moves
    <3>4. good({"TWO_OPT"})
      BY <1>2, <1>5, <2>1, <2>2, <3>2, <3>3 DEF Moves
    <3> QED
      BY <3>4
  <2>7. CASE ~IsTail(rts, b) /\ ~IsHead(b) /\ IsDepot(rts, a)
    <3>1. ~IsDepot(rts, b)
      BY <2>7 DEF IsDepot
    <3>2. InterTypes(a, b) = <<"OUT_RELOCATE">>
      BY <2>7, <3>1 DEF InterTypes
    <3>3. InterRoute(rts, a, b) = {"OUT_RELOCATE"}
      BY <2>7 DEF InterRoute, Moves
    <3>4. good({"OUT_RELOCATE"})
      BY <1>2, <1>5, <2>1, <2>2, <3>2, <3>3 DEF Moves
    <3> QED
      BY <3>4
  <2>8. CASE ~IsTail(rts, b) /\ ~IsHead(b) /\ ~IsDepot(rts, a)
    <3>1. InterTypes(a, b) = <<"TWO_OPT", "OUT_RELOCATE", "EXCHANGE">>
      BY <2>8 DEF InterTypes
    <3>2. InterRoute(rts, a, b) = Moves
      BY <2>8 DEF InterRoute
    <3>3. good(Moves)
      BY <1>2, <1>5, <2>1, <2>2, <3>1, <3>2
    <3> QED
      BY <3>3
  <2> QED
    BY <2>5, <2>6, <2>7, <2>8
<1> QED
  BY <1>3, <1>4, <1>5

-----------------------------------------------------------------------------
(***************************************************************************)
(* The orders in which the generator goes through nodes.                   *)
(***************************************************************************)
\* There are finitely many nodes.
LEMMA FiniteNodes ==
  ASSUME NEW rs \in Seq(Seq(Customer)), NEW y \in DOMAIN rs
  PROVE  IsFiniteSet(CustomerNodes(rs)) /\ IsFiniteSet(RouteNodes(rs, y))
<1>1. PICK n \in Nat : n = Len(rs)
  OBVIOUS
<1>2. DOMAIN rs = 1 .. n /\ \A z \in 1 .. n : rs[z] \in Seq(Customer) /\ Len(rs[z]) \in Nat
  BY <1>1
<1>3. \A z \in 1 .. n, k \in Nat : IsFiniteSet({z} \X (1 .. k)) /\ IsFiniteSet({z} \X (0 .. k))
  <2>1. ASSUME NEW z \in 1 .. n, NEW k \in Nat
        PROVE  IsFiniteSet({z} \X (1 .. k)) /\ IsFiniteSet({z} \X (0 .. k))
    <3>1. IsFiniteSet({z})
      BY FS_Singleton
    <3>2. k \in Int /\ 0 \in Int /\ 1 \in Int
      OBVIOUS
    <3>3. IsFiniteSet(1 .. k)
      BY <3>2, FS_Interval
    <3>4. IsFiniteSet(0 .. k)
      BY <3>2, FS_Interval
    <3> QED
      BY <3>1, <3>3, <3>4, FS_Product
  <2> QED
    BY <2>1
<1>4. IsFiniteSet(RouteNodes(rs, y))
  <2>1. y \in 1 .. n /\ Len(rs[y]) + 1 \in Nat
    BY <1>2
  <2> QED
    BY <1>3, <2>1 DEF RouteNodes, Indexes
<1>5. PICK f : f = [z \in 1 .. n |-> {z} \X (1 .. Len(rs[z]))]
  OBVIOUS
<1>6. PICK T : T = {{z} \X (1 .. Len(rs[z])) : z \in 1 .. n}
  OBVIOUS
<1>7. f \in Surjection(1 .. n, T)
  BY <1>5, <1>6 DEF Surjection
<1>8. IsFiniteSet(T)
  <2>1. IsFiniteSet(1 .. n)
    BY FS_Interval
  <2> QED
    BY <1>7, <2>1, FS_Surjection
<1>9. \A U \in T : IsFiniteSet(U)
  BY <1>2, <1>3, <1>6
<1>10. CustomerNodes(rs) = UNION T
  BY <1>2, <1>6 DEF CustomerNodes
<1> QED
  BY <1>4, <1>8, <1>9, <1>10, FS_UNION

\* The nodes of a route in any order.
LEMMA RouteOrder ==
  ASSUME NEW rs \in Seq(Seq(Customer)), NEW y \in DOMAIN rs,
         NEW s \in SetToSeqs({y} \X Indexes(rs[y]))
  PROVE  Lists(s, RouteNodes(rs, y))
<1>1. IsFiniteSet(RouteNodes(rs, y))
  BY FiniteNodes
<1> QED
  BY <1>1, ListedOrders DEF RouteNodes

\* The nodes of the customers near c, nearest first.
LEMMA NearOrder ==
  ASSUME rts \in Seq(Seq(Customer)), x \in DOMAIN rts, NEW c, NEW s \in NearNodes(c)
  PROVE  Lists(s, {n \in CustomerNodes(rts) : rts[n[1]][n[2]] \in Near[c]})
<1>1. PICK S : S = {n \in CustomerNodes(rts) : rts[n[1]][n[2]] \in Near[c]}
  OBVIOUS
<1>2. s \in SetToSeqs(S)
  BY <1>1 DEF NearNodes
<1>3. IsFiniteSet(S)
  <2>1. IsFiniteSet(CustomerNodes(rts)) /\ S \in SUBSET CustomerNodes(rts)
    BY <1>1, FiniteNodes
  <2> QED
    BY <2>1, FS_Subset
<1> QED
  BY <1>1, <1>2, <1>3, ListedOrders

\* The tails of all routes.
LEMMA TailOrder ==
  ASSUME rts \in Seq(Seq(Customer))
  PROVE  Lists(TailNodes, Tails(rts))
<1>1. PICK n \in Nat : n = Len(rts)
  OBVIOUS
<1>2. DOMAIN rts = 1 .. n
  BY <1>1
<1>3. PICK s : s = TailNodes
  OBVIOUS
<1>4. s = [z \in 1 .. n |-> <<z, Len(rts[z]) + 1>>]
  BY <1>2, <1>3 DEF TailNodes
<1>5. \A node : node \in Tails(rts) <=> \E z \in 1 .. n : node = <<z, Len(rts[z]) + 1>>
  BY <1>2 DEF Tails
<1>6. s \in Seq(Tails(rts)) /\ Len(s) = n
  BY <1>4, <1>5
<1>7. Distinct(s)
  BY <1>4, <1>6 DEF Distinct
<1>8. Elems(s) = Tails(rts)
  BY <1>4, <1>5, <1>6 DEF Elems
<1> QED
  BY <1>3, <1>6, <1>7, <1>8 DEF Lists

\* The nodes a node of x meets are its candidates.
LEMMA CandidateOrder ==
  ASSUME rts \in Seq(Seq(Customer)), x \in DOMAIN rts, NEW n \in RouteNodes(rts, x), NEW s,
         s \in IF IsDepot(rts, n) THEN NearNodes(0)
               ELSE {TailNodes \o near : near \in NearNodes(rts[x][n[2]])}
  PROVE  Lists(s, Candidates(rts, x, n))
<1>1. n[1] = x /\ n[2] \in 0 .. Len(rts[x]) + 1 /\ Len(rts[x]) \in Nat
  BY DEF RouteNodes, Indexes
<1>2. CASE IsDepot(rts, n)
  <2>1. Id(rts[x], n[2]) = 0
    BY <1>1, <1>2 DEF IsDepot, IsHead, IsTail, Id
  <2>2. Candidates(rts, x, n) = {u \in CustomerNodes(rts) : rts[u[1]][u[2]] \in Near[0]}
    BY <1>2, <2>1 DEF Candidates
  <2>3. s \in NearNodes(0)
    BY <1>2
  <2> QED
    BY <2>2, <2>3, NearOrder
<1>3. CASE ~IsDepot(rts, n)
  <2>1. Id(rts[x], n[2]) = rts[x][n[2]]
    BY <1>1, <1>3 DEF IsDepot, IsHead, IsTail, Id
  <2>2. PICK S : S = {u \in CustomerNodes(rts) : rts[u[1]][u[2]] \in Near[rts[x][n[2]]]}
    OBVIOUS
  <2>3. Candidates(rts, x, n) = Tails(rts) \cup S
    BY <1>3, <2>1, <2>2 DEF Candidates
  <2>4. PICK near \in NearNodes(rts[x][n[2]]) : s = TailNodes \o near
    BY <1>3
  <2>5. Lists(near, S) /\ Lists(TailNodes, Tails(rts))
    BY <2>2, NearOrder, TailOrder
  <2>6. Tails(rts) \cap S = {}
    <3>1. ASSUME NEW u \in CustomerNodes(rts) PROVE u \notin Tails(rts)
      <4>1. u[1] \in 1 .. Len(rts) /\ u[2] \in 1 .. Len(rts[u[1]]) /\ Len(rts[u[1]]) \in Nat
        BY NodeTypes
      <4>2. u[2] # Len(rts[u[1]]) + 1
        BY <4>1
      <4> QED
        BY <4>2 DEF Tails
    <3> QED
      BY <2>2, <3>1
  <2>7. Lists(TailNodes \o near, Tails(rts) \cup S)
    BY <2>5, <2>6, ListedConcat
  <2> QED
    BY <2>3, <2>4, <2>7
<1> QED
  BY <1>2, <1>3

-----------------------------------------------------------------------------
(***************************************************************************)
(* Moves within a route: it keeps its demand, and what it is afterwards.   *)
(***************************************************************************)
\* A customer more adds its demand.
LEMMA LoadInserted ==
  ASSUME NEW p, NEW q, RouteOf(p, q), NEW i \in 1 .. Len(q) + 1, NEW c \in 1 .. p.n
  PROVE  /\ RouteOf(p, InsertBefore(q, i, c))
         /\ Load(p, q) \in Int /\ p.demand[c] \in Int
         /\ Load(p, InsertBefore(q, i, c)) = Load(p, q) + p.demand[c]
<1>1. PICK n \in Nat : n = Len(q)
  BY DEF RouteOf
<1>2. PICK t : t = InsertBefore(q, i, c)
  OBVIOUS
<1>3. q \in Seq(1 .. p.n) /\ Instance(p)
  BY DEF RouteOf
<1>4. /\ t \in Seq(1 .. p.n) /\ Len(t) = n + 1
      /\ \A k \in 1 .. n + 1 : t[k] = IF k < i THEN q[k] ELSE IF k = i THEN c ELSE q[k - 1]
  <2>1. /\ InsertBefore(q, i, c) \in Seq(1 .. p.n)
        /\ Len(InsertBefore(q, i, c)) = Len(q) + 1
        /\ \A k \in 1 .. Len(q) + 1 :
             InsertBefore(q, i, c)[k] = IF k < i THEN q[k] ELSE IF k = i THEN c ELSE q[k - 1]
    <3>1. PICK C : C = 1 .. p.n
      OBVIOUS
    <3>2. q \in Seq(C) /\ c \in C
      BY <1>3, <3>1
    <3>3. /\ InsertBefore(q, i, c) \in Seq(C)
          /\ Len(InsertBefore(q, i, c)) = Len(q) + 1
          /\ \A k \in 1 .. Len(q) + 1 :
               InsertBefore(q, i, c)[k] =
                 IF k < i THEN q[k] ELSE IF k = i THEN c ELSE q[k - 1]
      BY <3>2, InsertBeforeElements
    <3> QED
      BY <3>1, <3>3
  <2> QED
    BY <1>1, <1>2, <2>1
<1>5. RouteOf(p, t) /\ i \in 1 .. Len(t) /\ t[i] = c
  BY <1>1, <1>3, <1>4 DEF RouteOf
<1>6. PICK u : u = RemoveIndex(t, i)
  OBVIOUS
<1>7. /\ u \in Seq(1 .. p.n) /\ Len(u) = n
      /\ \A k \in 1 .. n : u[k] = IF k < i THEN t[k] ELSE t[k + 1]
  <2>1. /\ RemoveIndex(t, i) \in Seq(1 .. p.n) /\ Len(RemoveIndex(t, i)) = Len(t) - 1
        /\ \A k \in 1 .. Len(t) - 1 : RemoveIndex(t, i)[k] = IF k < i THEN t[k] ELSE t[k + 1]
    BY <1>4, <1>5, RemoveIndexElements
  <2>2. Len(t) - 1 = n
    BY <1>4
  <2> QED
    BY <1>6, <2>1, <2>2
<1>8. u = q
  <2>1. ASSUME NEW k \in 1 .. n PROVE u[k] = q[k]
    <3>1. k \in 1 .. n + 1 /\ k + 1 \in 1 .. n + 1 /\ (k + 1) - 1 = k
      OBVIOUS
    <3>2. i \in Int
      BY <1>5
    <3>3. CASE k < i
      BY <1>4, <1>7, <3>1, <3>3
    <3>4. CASE ~(k < i)
      <4>1. ~(k + 1 < i) /\ k + 1 # i
        BY <3>2, <3>4
      <4> QED
        BY <1>4, <1>7, <3>1, <3>4, <4>1
    <3> QED
      BY <3>3, <3>4
  <2> QED
    BY <1>1, <1>3, <1>7, <2>1, SeqEqual
<1>9. /\ Load(p, t) \in Int /\ p.demand[c] \in Int
      /\ Load(p, q) = Load(p, t) - p.demand[c]
  BY <1>5, <1>6, <1>8, LoadRemoved
<1> QED
  BY <1>2, <1>5, <1>9

\* u is q without the customers at i and j, and their demands.
Without(p, q, i, j, u) ==
  /\ u \in Seq(1 .. p.n) /\ Len(u) = Len(q) - 2
  /\ \A k \in 1 .. Len(q) - 2 :
       u[k] = IF k < i THEN q[k] ELSE IF k + 1 < j THEN q[k + 1] ELSE q[k + 2]
  /\ Load(p, q) \in Int /\ p.demand[q[i]] \in Int /\ p.demand[q[j]] \in Int
  /\ Load(p, u) = Load(p, q) - p.demand[q[i]] - p.demand[q[j]]

\* Two customers taken out of a route.
LEMMA BothRemoved ==
  ASSUME NEW p, NEW q, RouteOf(p, q), NEW i \in 1 .. Len(q), NEW j \in 1 .. Len(q), i < j
  PROVE  Without(p, q, i, j, RemoveIndex(RemoveIndex(q, j), i))
<1>1. PICK n \in Nat : n = Len(q)
  BY DEF RouteOf
<1>2. q \in Seq(1 .. p.n)
  BY DEF RouteOf
<1>3. PICK t : t = RemoveIndex(q, j)
  OBVIOUS
<1>4. /\ t \in Seq(1 .. p.n) /\ Len(t) = n - 1
      /\ \A k \in 1 .. n - 1 : t[k] = IF k < j THEN q[k] ELSE q[k + 1]
  BY <1>1, <1>2, <1>3, RemoveIndexElements
<1>5. /\ RouteOf(p, t) /\ Load(p, q) \in Int /\ p.demand[q[j]] \in Int
      /\ Load(p, t) = Load(p, q) - p.demand[q[j]]
  BY <1>3, LoadRemoved
<1>6. i \in 1 .. Len(t) /\ t[i] = q[i]
  BY <1>1, <1>4
<1>7. PICK u : u = RemoveIndex(t, i)
  OBVIOUS
<1>8. /\ u \in Seq(1 .. p.n) /\ Len(u) = n - 2
      /\ \A k \in 1 .. n - 2 : u[k] = IF k < i THEN t[k] ELSE t[k + 1]
  <2>1. /\ RemoveIndex(t, i) \in Seq(1 .. p.n) /\ Len(RemoveIndex(t, i)) = Len(t) - 1
        /\ \A k \in 1 .. Len(t) - 1 : RemoveIndex(t, i)[k] = IF k < i THEN t[k] ELSE t[k + 1]
    BY <1>4, <1>6, RemoveIndexElements
  <2>2. Len(t) - 1 = n - 2
    BY <1>4
  <2> QED
    BY <1>7, <2>1, <2>2
<1>9. /\ p.demand[q[i]] \in Int
      /\ Load(p, u) = Load(p, t) - p.demand[q[i]] /\ Load(p, t) \in Int
  BY <1>5, <1>6, <1>7, LoadRemoved
<1>10. ASSUME NEW k \in 1 .. n - 2
       PROVE  u[k] = IF k < i THEN q[k] ELSE IF k + 1 < j THEN q[k + 1] ELSE q[k + 2]
  <2>1. k \in 1 .. n - 1 /\ k + 1 \in 1 .. n - 1 /\ (k + 1) + 1 = k + 2
    OBVIOUS
  <2>2. CASE k < i
    <3>1. k < j
      BY <1>1, <2>2
    <3> QED
      BY <1>4, <1>8, <2>1, <2>2, <3>1
  <2>3. CASE ~(k < i)
    BY <1>4, <1>8, <2>1, <2>3
  <2> QED
    BY <2>2, <2>3
<1>11. Load(p, u) = Load(p, q) - p.demand[q[i]] - p.demand[q[j]]
  BY <1>5, <1>9
<1> QED
  BY <1>1, <1>3, <1>5, <1>7, <1>8, <1>9, <1>10, <1>11 DEF Without

\* Two customers of a route that change places.
LEMMA LoadSwapped ==
  ASSUME NEW p, NEW q, RouteOf(p, q), NEW i \in 1 .. Len(q), NEW j \in 1 .. Len(q), i < j,
         NEW t \in Seq(1 .. p.n), Len(t) = Len(q),
         \A k \in 1 .. Len(q) :
           t[k] = IF k = i THEN q[j] ELSE IF k = j THEN q[i] ELSE q[k]
  PROVE  RouteOf(p, t) /\ Load(p, t) = Load(p, q) /\ Load(p, q) \in Int
<1>1. PICK n \in Nat : n = Len(q)
  BY DEF RouteOf
<1>2. RouteOf(p, t) /\ i \in 1 .. Len(t) /\ j \in 1 .. Len(t) /\ t[i] = q[j] /\ t[j] = q[i]
  BY <1>1 DEF RouteOf
<1>3. PICK a : a = RemoveIndex(RemoveIndex(q, j), i)
  OBVIOUS
<1>4. PICK b : b = RemoveIndex(RemoveIndex(t, j), i)
  OBVIOUS
<1>5. /\ a \in Seq(1 .. p.n) /\ Len(a) = n - 2
      /\ \A k \in 1 .. n - 2 :
           a[k] = IF k < i THEN q[k] ELSE IF k + 1 < j THEN q[k + 1] ELSE q[k + 2]
      /\ Load(p, q) \in Int /\ p.demand[q[i]] \in Int /\ p.demand[q[j]] \in Int
      /\ Load(p, a) = Load(p, q) - p.demand[q[i]] - p.demand[q[j]]
  <2>1. Without(p, q, i, j, a)
    BY <1>3, BothRemoved
  <2> QED
    BY <1>1, <2>1 DEF Without
<1>6. /\ b \in Seq(1 .. p.n) /\ Len(b) = n - 2
      /\ \A k \in 1 .. n - 2 :
           b[k] = IF k < i THEN t[k] ELSE IF k + 1 < j THEN t[k + 1] ELSE t[k + 2]
      /\ Load(p, t) \in Int /\ Load(p, b) = Load(p, t) - p.demand[q[j]] - p.demand[q[i]]
  <2>1. Len(t) = n
    BY <1>1
  <2>2. Without(p, t, i, j, b)
    BY <1>2, <1>4, BothRemoved
  <2> QED
    BY <1>2, <2>1, <2>2 DEF Without
<1>7. ASSUME NEW k \in 1 .. n - 2 PROVE b[k] = a[k]
  <2>1. k \in 1 .. n /\ k + 1 \in 1 .. n /\ k + 2 \in 1 .. n /\ i \in Int /\ j \in Int
    BY <1>1
  <2>2. CASE k < i
    <3>1. k # i /\ k # j
      BY <2>1, <2>2
    <3> QED
      BY <1>1, <1>5, <1>6, <2>1, <2>2, <3>1
  <2>3. CASE ~(k < i) /\ k + 1 < j
    <3>1. k + 1 # i /\ k + 1 # j
      BY <2>1, <2>3
    <3> QED
      BY <1>1, <1>5, <1>6, <2>1, <2>3, <3>1
  <2>4. CASE ~(k < i) /\ ~(k + 1 < j)
    <3>1. k + 2 # i /\ k + 2 # j
      BY <2>1, <2>4
    <3> QED
      BY <1>1, <1>5, <1>6, <2>1, <2>4, <3>1
  <2> QED
    BY <2>2, <2>3, <2>4
<1>8. a = b
  BY <1>5, <1>6, <1>7, SeqEqual
<1>9. Load(p, t) = Load(p, q)
  BY <1>5, <1>6, <1>8
<1> QED
  BY <1>2, <1>5, <1>9

\* The capacity penalty by the demand.
LEMMA CPenaltyOfLoad ==
  ASSUME NEW p, NEW q, NEW t, Load(p, q) = Load(p, t)
  PROVE  CPenalty(p, q) = CPenalty(p, t)
BY DEF CPenalty, Load, depot_tail

\* Where route q has customer c.
PlaceIn(q, c) == CHOOSE k \in DOMAIN q : q[k] = c

\* OUT_RELOCATE of <<y, j>> to <<y, i>> by the route without it, q, and i's place there.
RelocatesTo(q, y, i, j, to) ==
  /\ q \in Seq(Customer) /\ to \in 1 .. Len(q)
  /\ PlaceIn(q, rts[y][i]) = to
  /\ OutRelocate(rts, <<y, i>>, <<y, j>>) = [rts EXCEPT ![y] = InsertBefore(q, to, rts[y][j])]

\* OUT_RELOCATE within a route puts the customer back into the route without it,
\* in front of the place that v then has.
LEMMA RelocatedWithin ==
  ASSUME rts \in Seq(Seq(Customer)), NEW y \in DOMAIN rts, Distinct(rts[y]),
         NEW i \in 1 .. Len(rts[y]), NEW j \in 1 .. Len(rts[y]), i # j,
         NEW q, q = RemoveIndex(rts[y], j)
  PROVE  \E to : RelocatesTo(q, y, i, j, to)
<1>1. PICK r \in Seq(Customer) : r = rts[y]
  OBVIOUS
<1>2. PICK n \in Nat : n = Len(r)
  OBVIOUS
<1>3. i \in 1 .. n /\ j \in 1 .. n /\ \A g, h \in 1 .. n : r[g] = r[h] => g = h
  BY <1>1, <1>2 DEF Distinct
<1>4. /\ q \in Seq(Customer) /\ Len(q) = n - 1
      /\ \A k \in 1 .. n - 1 : q[k] = IF k < j THEN r[k] ELSE r[k + 1]
  BY <1>1, <1>2, <1>3, RemoveIndexElements
<1>5. PICK to \in 1 .. n - 1 : to = IF j < i THEN i - 1 ELSE i
  BY <1>3
<1>6. \A k \in 1 .. n - 1 : q[k] = r[i] <=> k = to
  <2>1. ASSUME NEW k \in 1 .. n - 1 PROVE q[k] = r[i] <=> k = to
    <3>1. k \in 1 .. n /\ k + 1 \in 1 .. n
      OBVIOUS
    <3>2. CASE k < j
      <4>1. q[k] = r[i] <=> k = i
        BY <1>3, <1>4, <3>1, <3>2
      <4>2. k = i <=> k = to
        BY <1>3, <1>5, <3>2
      <4> QED
        BY <4>1, <4>2
    <3>3. CASE ~(k < j)
      <4>1. q[k] = r[i] <=> k + 1 = i
        BY <1>3, <1>4, <3>1, <3>3
      <4>2. k + 1 = i <=> k = to
        BY <1>3, <1>5, <3>3
      <4> QED
        BY <4>1, <4>2
    <3> QED
      BY <3>2, <3>3
  <2> QED
    BY <2>1
<1>7. DOMAIN q = 1 .. n - 1
  BY <1>4
<1>8. PlaceIn(q, r[i]) = to
  BY <1>6, <1>7 DEF PlaceIn
<1>9. OutRelocate(rts, <<y, i>>, <<y, j>>) = [rts EXCEPT ![y] = InsertBefore(q, to, r[j])]
  <2>1. PICK left : left = Eject(rts, <<y, j>>)
    OBVIOUS
  <2>2. left = [rts EXCEPT ![y] = q]
    BY <1>1, <2>1 DEF Eject
  <2>3. <<y, i>>[1] = <<y, j>>[1] /\ <<y, i>>[2] = i /\ <<y, j>>[2] = j /\ <<y, j>>[1] = y
        /\ <<y, i>>[1] = y /\ <<y, i>> # <<y, j>>
    OBVIOUS
  <2>4. (IF <<y, i>>[1] = <<y, j>>[1] /\ <<y, j>>[2] < <<y, i>>[2]
         THEN <<<<y, i>>[1], <<y, i>>[2] - 1>> ELSE <<y, i>>) = <<y, to>>
    BY <1>3, <1>5, <2>3
  <2>5. OutRelocate(rts, <<y, i>>, <<y, j>>) = Insert(left, <<y, to>>, rts[y][j])
    BY <2>1, <2>3, <2>4 DEF OutRelocate
  <2>6. Insert(left, <<y, to>>, rts[y][j]) = [left EXCEPT ![y] = InsertBefore(q, to, r[j])]
    BY <1>1, <2>2 DEF Insert
  <2>7. [left EXCEPT ![y] = InsertBefore(q, to, r[j])] =
          [rts EXCEPT ![y] = InsertBefore(q, to, r[j])]
    BY <2>2
  <2> QED
    BY <2>5, <2>6, <2>7
<1> QED
  BY <1>1, <1>4, <1>5, <1>8, <1>9 DEF RelocatesTo

\* EXCHANGE within a route leaves it its demand.
LEMMA ExchangedWithin ==
  ASSUME rts \in Seq(Seq(Customer)), NEW y \in DOMAIN rts,
         NEW i \in 1 .. Len(rts[y]), NEW j \in 1 .. Len(rts[y]), i # j,
         RouteOf(Problem, rts[y])
  PROVE  \E q : /\ RouteOf(Problem, q)
                /\ Exchange(rts, <<y, i>>, <<y, j>>) = [rts EXCEPT ![y] = q]
                /\ Load(Problem, q) = Load(Problem, rts[y])
<1>1. PICK r \in Seq(Customer) : r = rts[y]
  OBVIOUS
<1>2. PICK q : q = Swap(r, i, j)
  OBVIOUS
<1>3. q \in Seq(Customer) /\ Len(q) = Len(r)
  BY <1>1, <1>2 DEF Swap
<1>4. \A k \in 1 .. Len(r) : q[k] = IF k = i THEN r[j] ELSE IF k = j THEN r[i] ELSE r[k]
  BY <1>1, <1>2 DEF Swap
<1>5. Exchange(rts, <<y, i>>, <<y, j>>) = [rts EXCEPT ![y] = q]
  <2>1. <<y, i>>[1] = y /\ <<y, i>>[2] = i /\ <<y, j>>[1] = y /\ <<y, j>>[2] = j
    OBVIOUS
  <2>2. PICK c \in Customer : c = r[i]
    BY <1>1
  <2>3. PICK d \in Customer : d = r[j]
    BY <1>1
  <2>4. Exchange(rts, <<y, i>>, <<y, j>>) = [rts EXCEPT ![y][i] = d, ![y][j] = c]
    BY <1>1, <2>1, <2>2, <2>3 DEF Exchange
  <2>5. [rts EXCEPT ![y][i] = d, ![y][j] = c] = [rts EXCEPT ![y] = q]
    BY <1>1, <1>2, <2>2, <2>3 DEF Swap
  <2> QED
    BY <2>4, <2>5
<1>6. RouteOf(Problem, r) /\ i \in 1 .. Len(r) /\ j \in 1 .. Len(r)
      /\ q \in Seq(1 .. Problem.n)
  BY <1>1, <1>3 DEF Customer
<1>7. RouteOf(Problem, q) /\ Load(Problem, q) = Load(Problem, r)
  <2>1. CASE i < j
    BY <1>3, <1>4, <1>6, <2>1, LoadSwapped
  <2>2. CASE j < i
    <3>1. \A k \in 1 .. Len(r) : q[k] = IF k = j THEN r[i] ELSE IF k = i THEN r[j] ELSE r[k]
      BY <1>4
    <3> QED
      BY <1>3, <1>6, <2>2, <3>1, LoadSwapped
  <2>3. i < j \/ j < i
    BY <1>6
  <2> QED
    BY <2>1, <2>2, <2>3
<1> QED
  BY <1>1, <1>5, <1>7

\* What a move of type within route y makes of it: q, with the same demand.
BecomesWithin(type, y, i, j, q) ==
  /\ RouteOf(Problem, rts[y]) /\ RouteOf(Problem, q)
  /\ modification_apply(rts, type, <<y, i>>, <<y, j>>) = [rts EXCEPT ![y] = q]
  /\ CPenalty(Problem, q) = CPenalty(Problem, rts[y])
  /\ type = "OUT_RELOCATE" =>
       \A left : left = RemoveIndex(rts[y], j) =>
         /\ RouteOf(Problem, left)
         /\ q = InsertBefore(left, PlaceIn(left, rts[y][i]), rts[y][j])

\* What a move within route y makes of it, and the moved customer's place in the copy.
LEMMA MovedWithin ==
  ASSUME rts \in Seq(Seq(Customer)), NEW y \in DOMAIN rts, Distinct(rts[y]),
         NEW i \in 1 .. Len(rts[y]), NEW j \in 1 .. Len(rts[y]), i # j,
         NEW type \in {"OUT_RELOCATE", "EXCHANGE"}
  PROVE  \E q : BecomesWithin(type, y, i, j, q)
<1>1. RouteOf(Problem, rts[y])
  BY InstanceAssumption DEF RouteOf, Customer
<1>2. CASE type = "EXCHANGE"
  <2>1. PICK q : /\ RouteOf(Problem, q)
                 /\ Exchange(rts, <<y, i>>, <<y, j>>) = [rts EXCEPT ![y] = q]
                 /\ Load(Problem, q) = Load(Problem, rts[y])
    BY <1>1, ExchangedWithin
  <2>2. CPenalty(Problem, q) = CPenalty(Problem, rts[y])
    BY <2>1, CPenaltyOfLoad
  <2>3. modification_apply(rts, type, <<y, i>>, <<y, j>>) = [rts EXCEPT ![y] = q]
    BY <1>2, <2>1 DEF modification_apply
  <2>4. type # "OUT_RELOCATE"
    BY <1>2
  <2> QED
    BY <1>1, <2>1, <2>2, <2>3, <2>4 DEF BecomesWithin
<1>3. CASE type = "OUT_RELOCATE"
  <2>1. PICK left : left = RemoveIndex(rts[y], j)
    OBVIOUS
  <2>2. PICK to : RelocatesTo(left, y, i, j, to)
    BY <2>1, RelocatedWithin
  <2>12. /\ left \in Seq(Customer) /\ to \in 1 .. Len(left)
         /\ PlaceIn(left, rts[y][i]) = to
         /\ OutRelocate(rts, <<y, i>>, <<y, j>>) =
              [rts EXCEPT ![y] = InsertBefore(left, to, rts[y][j])]
    BY <2>2 DEF RelocatesTo
  <2>3. PICK q : q = InsertBefore(left, to, rts[y][j])
    OBVIOUS
  <2>4. /\ RouteOf(Problem, left) /\ Load(Problem, rts[y]) \in Int
        /\ Problem.demand[rts[y][j]] \in Int
        /\ Load(Problem, left) = Load(Problem, rts[y]) - Problem.demand[rts[y][j]]
    BY <1>1, <2>1, LoadRemoved
  <2>5. to \in 1 .. Len(left) + 1 /\ rts[y][j] \in 1 .. Problem.n
    <3>1. rts[y] \in Seq(Customer) /\ Len(left) \in Nat
      BY <2>12
    <3>2. rts[y][j] \in Customer
      BY <3>1
    <3> QED
      BY <2>12, <3>1, <3>2 DEF Customer
  <2>6. /\ RouteOf(Problem, q)
        /\ Load(Problem, q) = Load(Problem, left) + Problem.demand[rts[y][j]]
    BY <2>3, <2>4, <2>5, LoadInserted
  <2>7. Load(Problem, q) = Load(Problem, rts[y])
    BY <2>4, <2>6
  <2>8. CPenalty(Problem, q) = CPenalty(Problem, rts[y])
    BY <2>7, CPenaltyOfLoad
  <2>9. modification_apply(rts, type, <<y, i>>, <<y, j>>) = [rts EXCEPT ![y] = q]
    BY <1>3, <2>3, <2>12 DEF modification_apply
  <2>10. q = InsertBefore(left, PlaceIn(left, rts[y][i]), rts[y][j])
    BY <2>3, <2>12
  <2>11. BecomesWithin(type, y, i, j, q)
    BY <1>1, <2>1, <2>4, <2>6, <2>8, <2>9, <2>10 DEF BecomesWithin
  <2> QED
    BY <2>11
<1> QED
  BY <1>2, <1>3

\* A product of a difference.
LEMMA TimesDifference ==
  ASSUME NEW k \in Int, NEW a \in Int, NEW b \in Int
  PROVE  k * a - k * b = k * (a - b) /\ k * a \in Int /\ k * b \in Int
OBVIOUS

\* The move mv within route y adds lateness only; an out-relocation adds what it takes away
\* without the customer and what putting the customer back adds.
LatenessOnly(mv, type, y, i, j) ==
  /\ Change(mv, 1, 0) = 0 /\ Change(mv, 0, 1) \in Int
  /\ \A a, b \in Int : Change(mv, a, b) = b * Change(mv, 0, 1)
  /\ type = "OUT_RELOCATE" =>
       \A left : left = RemoveIndex(rts[y], j) =>
         Sum(left, rts[y]) + Sum(InsertBefore(left, PlaceIn(left, rts[y][i]), rts[y][j]), left)
           = Change(mv, 0, 1)

\* A move within a route changes its lateness only.
LEMMA ChangeWithin ==
  ASSUME rts \in Seq(Seq(Customer)), NEW y \in DOMAIN rts, Distinct(rts[y]),
         NEW i \in 1 .. Len(rts[y]), NEW j \in 1 .. Len(rts[y]), i # j,
         NEW type \in {"OUT_RELOCATE", "EXCHANGE"},
         NEW mv, mv.type = type, mv.v = <<y, i>>, mv.w = <<y, j>>
  PROVE  LatenessOnly(mv, type, y, i, j)
<1>0. PICK q : BecomesWithin(type, y, i, j, q)
  BY MovedWithin
<1>1. /\ RouteOf(Problem, rts[y]) /\ RouteOf(Problem, q)
      /\ modification_apply(rts, type, <<y, i>>, <<y, j>>) = [rts EXCEPT ![y] = q]
      /\ CPenalty(Problem, q) = CPenalty(Problem, rts[y])
  BY <1>0 DEF BecomesWithin
<1>2. PICK c \in Int : c = CPenalty(Problem, rts[y])
  BY <1>1, PenaltyTypes
<1>3. PICK t \in Int : t = TwPenalty(Problem, rts[y])
  BY <1>1, PenaltyTypes
<1>4. PICK u \in Int : u = TwPenalty(Problem, q)
  BY <1>1, PenaltyTypes
<1>5. \A a, b : Change(mv, a, b) = (a * c + b * u) - (a * c + b * t) + 0
  <2>1. PICK after : after = modification_apply(rts, type, <<y, i>>, <<y, j>>)
    OBVIOUS
  <2>2. after[y] = q
    BY <1>1, <2>1
  <2>3. mv.v[1] = y /\ mv.w[1] = y
    OBVIOUS
  <2>4. \A a, b : route_penalty(Problem, after[y], a, b) = a * c + b * u
    BY <1>1, <1>2, <1>4, <2>2 DEF route_penalty
  <2>5. \A a, b : route_penalty(Problem, rts[y], a, b) = a * c + b * t
    BY <1>2, <1>3 DEF route_penalty
  <2>6. modification_apply(rts, mv.type, mv.v, mv.w) = after
    BY <2>1
  <2>7. \A a, b : Change(mv, a, b) = (route_penalty(Problem, after[y], a, b)
                                       - route_penalty(Problem, rts[y], a, b)) + 0
    BY <2>3, <2>6 DEF Change
  <2> QED
    BY <2>4, <2>5, <2>7
<1>6. Change(mv, 0, 1) = u - t
  BY <1>5
<1>7. Change(mv, 1, 0) = 0
  BY <1>5
<1>8. ASSUME NEW a \in Int, NEW b \in Int
      PROVE  Change(mv, a, b) = b * Change(mv, 0, 1)
  <2>1. PICK ac \in Int : ac = a * c
    OBVIOUS
  <2>2. PICK bu \in Int : bu = b * u
    OBVIOUS
  <2>3. PICK bt \in Int : bt = b * t
    OBVIOUS
  <2>4. Change(mv, a, b) = (ac + bu) - (ac + bt) + 0
    BY <1>5, <2>1, <2>2, <2>3
  <2>5. bu - bt = b * (u - t)
    BY <2>2, <2>3, TimesDifference
  <2>6. Change(mv, a, b) = bu - bt
    BY <2>4
  <2> QED
    BY <1>6, <2>5, <2>6
<1>9. ASSUME type = "OUT_RELOCATE", NEW left, left = RemoveIndex(rts[y], j)
      PROVE  Sum(left, rts[y])
               + Sum(InsertBefore(left, PlaceIn(left, rts[y][i]), rts[y][j]), left) = Change(mv, 0, 1)
  <2>1. RouteOf(Problem, left)
    BY <1>0, <1>9 DEF BecomesWithin
  <2>2. PICK h \in Int : h = TwPenalty(Problem, left)
    BY <2>1, PenaltyTypes
  <2>3. Sum(left, rts[y]) = h - t /\ Sum(q, left) = u - h
    BY <1>3, <1>4, <2>2 DEF Sum
  <2>4. InsertBefore(left, PlaceIn(left, rts[y][i]), rts[y][j]) = q
    BY <1>0, <1>9 DEF BecomesWithin
  <2>5. (h - t) + (u - h) = u - t
    OBVIOUS
  <2> QED
    BY <1>6, <2>3, <2>4, <2>5
<1> QED
  BY <1>6, <1>7, <1>8, <1>9 DEF LatenessOnly

-----------------------------------------------------------------------------
(***************************************************************************)
(* The inductive invariant.                                                *)
(***************************************************************************)
Scanning == pc \in {"next_w", "next_v", "next_type", "compare"}
AtNode == pc \in {"next_v", "next_type", "compare"}
AtPair == pc \in {"next_type", "compare"}

\* The customers in the routes; each is in one place.
Carried(rs) == UNION {Elems(rs[y]) : y \in 1 .. Len(rs)}

RoutesOK ==
  /\ rts \in Seq(Seq(Customer)) /\ Holds(rts, Carried(rts))
  /\ pc # "choose" => x \in DOMAIN rts

\* The types still to be tried on a pair.
TypesOK(rs, tys, a, b) ==
  /\ Lists(tys, Elems(tys)) /\ Elems(tys) \subseteq Moves
  /\ a = b => Elems(tys) = {}
  /\ Elems(tys) # {} /\ a[1] = b[1] => ~IsDepot(rs, a) /\ ~IsDepot(rs, b)
  /\ \A t \in Elems(tys) : t \in TypesOf(rs, a, b) <=> YieldsOf(rs, t, a, b)

\* Where the generator is.
PlaceOK ==
  /\ Scanning => /\ Lists(permutation, Elems(permutation))
                 /\ Elems(permutation) \subseteq RouteNodes(rts, x)
  /\ AtNode => /\ w \in RouteNodes(rts, x) /\ w \notin Elems(permutation)
               /\ Lists(vs, Elems(vs)) /\ Elems(vs) \subseteq Candidates(rts, x, w)
  /\ AtPair => /\ v \in Candidates(rts, x, w) /\ v \notin Elems(vs)
               /\ TypesOK(rts, types, v, w)

\* The copy of the route, when the current w is a customer.
CopyOK ==
  /\ objects = {"route", "customer"} \X ({copy.number} \ {0})
  /\ pc \in {"choose", "apply", "failed"} => copy.number = 0 /\ ~region
  /\ AtNode /\ ~IsDepot(rts, w) =>
       /\ copy.route = RemoveIndex(rts[x], w[2]) /\ copy.w = rts[x][w[2]]
       /\ copy.ejected = Sum(RemoveIndex(rts[x], w[2]), rts[x])
       /\ \A c \in Elems(rts[x]) : id_to_customer[c] = copy.number

\* Change for the routes rs.
ChangeIn(rs, type, a, b, p, q) ==
  LET after == modification_apply(rs, type, a, b)
      change(y) == route_penalty(Problem, after[y], p, q) - route_penalty(Problem, rs[y], p, q)
  IN  change(a[1]) + IF a[1] = b[1] THEN 0 ELSE change(b[1])

ValueIn(rs, mv) == ChangeIn(rs, mv[1], mv[2], mv[3], alpha, beta)

Yielded == <<m.type, m.v, m.w>>

\* The move that was yielded last, and what it carries.
MoveOK ==
  pc = "compare" =>
    /\ m.v = v /\ m.w = w /\ Yielded \in Elems(yielded)
    /\ v[1] # w[1] => m.tw = Unset
    /\ v[1] = w[1] => /\ ~IsDepot(rts, v) /\ ~IsDepot(rts, w)
                      /\ m.tw = ChangeIn(rts, m.type, v, w, 0, 1)
                      /\ ChangeIn(rts, m.type, v, w, 1, 0) = 0
                      /\ ValueIn(rts, Yielded) = beta * m.tw

\* The moves the generator still has before it.
Pending(mv) ==
  \/ mv[3] \in Elems(permutation)
  \/ AtNode /\ mv[3] = w /\ mv[2] \in Elems(vs)
  \/ AtPair /\ mv[3] = w /\ mv[2] = v /\ mv[1] \in Elems(types)

YieldOK ==
  pc # "choose" =>
    /\ Lists(yielded, Elems(yielded)) /\ Elems(yielded) \subseteq Neighbourhood(rts, x)
    /\ Scanning => \A mv \in Neighbourhood(rts, x) : mv \in Elems(yielded) <=> ~Pending(mv)
    /\ pc \in {"apply", "failed"} /\ ~cancelled => Elems(yielded) = Neighbourhood(rts, x)

\* o is a move of least delta among those of S, or none of them is below Infinity.
BestOf(rs, o, S) ==
  /\ o.delta \in Int
  /\ \A mv \in S : o.delta <= ValueIn(rs, mv)
  /\ \/ o.delta = Infinity
     \/ \E mv \in S : /\ o.delta = ValueIn(rs, mv)
                      /\ o.move.type = mv[1] /\ o.move.v = mv[2] /\ o.move.w = mv[3]

Seen == IF pc = "compare" THEN Elems(yielded) \ {Yielded} ELSE Elems(yielded)

BestOK ==
  pc # "choose" =>
    /\ Scanning => ~cancelled
    /\ pc = "finish" => cancelled
    /\ BestOf(rts, opt, Seen)
    /\ cancelled => Enough(opt.delta)

IInv == RoutesOK /\ PlaceOK /\ CopyOK /\ MoveOK /\ YieldOK /\ BestOK

-----------------------------------------------------------------------------
(***************************************************************************)
(* What the moves of a neighbourhood are and add.                          *)
(***************************************************************************)
\* They can be applied.
LEMMA NeighbourhoodMove ==
  ASSUME NEW rs \in Seq(Seq(Customer)), NEW y \in DOMAIN rs, NEW mv \in Neighbourhood(rs, y)
  PROVE  /\ mv[1] \in Moves /\ mv[2] \in Nodes(rs) /\ mv[3] \in Nodes(rs)
         /\ modification_applicable(rs, mv[1], mv[2], mv[3])
<1>1. PICK type, a, b : type = mv[1] /\ a = mv[2] /\ b = mv[3]
  OBVIOUS
<1>2. <<type, a, b>> \in Neighbourhood(rs, y)
  BY <1>1, NeighbourhoodIs
<1>3. /\ b \in RouteNodes(rs, y) /\ a \in Candidates(rs, y, b) /\ a # b
      /\ type \in TypesOf(rs, a, b)
  BY <1>2, NeighbourhoodIs
<1>4. /\ a \in Nodes(rs) /\ b \in Nodes(rs) /\ ~IsHead(a)
      /\ IsDepot(rs, a) => ~IsDepot(rs, b)
  BY <1>3, CandidateNodes
<1>5. ASSUME a[1] = b[1] PROVE type \in Moves /\ modification_applicable(rs, type, a, b)
  <2>1. type \in IntraRoute(rs, a, b)
    BY <1>3, <1>5 DEF TypesOf
  <2> QED
    BY <2>1 DEF IntraRoute, Moves
<1>6. ASSUME a[1] # b[1] PROVE type \in Moves /\ modification_applicable(rs, type, a, b)
  <2>1. type \in InterRoute(rs, a, b)
    BY <1>3, <1>6 DEF TypesOf
  <2>2. b # <<a[1], a[2] - 1>>
    BY <1>6
  <2>3. type \in Moves /\ ~IsTail(rs, b)
    BY <2>1 DEF InterRoute
  <2>4. IsHead(b) => type = "TWO_OPT" /\ ~IsDepot(rs, a)
    BY <2>1 DEF InterRoute
  <2>5. IsDepot(rs, a) => type = "OUT_RELOCATE" /\ ~IsDepot(rs, b)
    BY <1>4, <2>1 DEF InterRoute
  <2>6. modification_applicable(rs, type, a, b)
    BY <1>4, <1>6, <2>2, <2>3, <2>4, <2>5 DEF modification_applicable, Moves, IsDepot
  <2> QED
    BY <2>3, <2>6
<1> QED
  BY <1>1, <1>4, <1>5, <1>6

\* Applied, they leave routes of customers.
LEMMA NeighbourhoodApply ==
  ASSUME NEW rs \in Seq(Seq(Customer)), NEW y \in DOMAIN rs, NEW mv \in Neighbourhood(rs, y)
  PROVE  /\ modification_apply(rs, mv[1], mv[2], mv[3]) \in Seq(Seq(Customer))
         /\ Len(modification_apply(rs, mv[1], mv[2], mv[3])) = Len(rs)
         /\ \A A : Holds(rs, A) => Holds(modification_apply(rs, mv[1], mv[2], mv[3]), A)
         /\ mv[2][1] \in 1 .. Len(rs) /\ mv[3][1] \in 1 .. Len(rs)
<1>1. PICK type, a, b : type = mv[1] /\ a = mv[2] /\ b = mv[3]
  OBVIOUS
<1>2. /\ type \in Moves /\ a \in Nodes(rs) /\ b \in Nodes(rs)
      /\ modification_applicable(rs, type, a, b)
  BY <1>1, NeighbourhoodMove
<1>3. /\ modification_apply(rs, type, a, b) \in Seq(Seq(Customer))
      /\ Len(modification_apply(rs, type, a, b)) = Len(rs)
  BY <1>2, MoveRoutes
<1>4. \A A : Holds(rs, A) => Holds(modification_apply(rs, type, a, b), A)
  BY <1>2, MoveHolds
<1>5. a[1] \in 1 .. Len(rs) /\ b[1] \in 1 .. Len(rs)
  BY <1>2, NodeKinds
<1> QED
  BY <1>1, <1>3, <1>4, <1>5

\* The routes hold what they carry.
LEMMA HoldsCarried ==
  ASSUME NEW rs, NEW A, Holds(rs, A)
  PROVE  Holds(rs, Carried(rs))
BY DEF Holds, Carried

\* What they add to the penalty is a number.
LEMMA ValueInt ==
  ASSUME NEW rs \in Seq(Seq(Customer)), NEW y \in DOMAIN rs, NEW mv \in Neighbourhood(rs, y)
  PROVE  ValueIn(rs, mv) \in Int
<1>1. PICK type, a, b : type = mv[1] /\ a = mv[2] /\ b = mv[3]
  OBVIOUS
<1>2. PICK after : after = modification_apply(rs, type, a, b)
  OBVIOUS
<1>3. /\ after \in Seq(Seq(Customer)) /\ Len(after) = Len(rs)
      /\ a[1] \in 1 .. Len(rs) /\ b[1] \in 1 .. Len(rs)
  BY <1>1, <1>2, NeighbourhoodApply
<1>4. \A z \in 1 .. Len(rs) : rs[z] \in Seq(Customer) /\ after[z] \in Seq(Customer)
  BY <1>3
<1>5. \A r \in Seq(Customer) : RouteOf(Problem, r)
  BY InstanceAssumption DEF RouteOf, Customer
<1>6. alpha \in Int /\ beta \in Int
  BY ScanAssumption
<1>7. \A r \in Seq(Customer) : route_penalty(Problem, r, alpha, beta) \in Int
  <2>1. ASSUME NEW r \in Seq(Customer) PROVE route_penalty(Problem, r, alpha, beta) \in Int
    <3>1. CPenalty(Problem, r) \in Int /\ TwPenalty(Problem, r) \in Int
      BY <1>5, PenaltyTypes
    <3> QED
      BY <1>6, <3>1 DEF route_penalty
  <2> QED
    BY <2>1
<1>8. \A z \in 1 .. Len(rs) : /\ route_penalty(Problem, after[z], alpha, beta) \in Int
                              /\ route_penalty(Problem, rs[z], alpha, beta) \in Int
  BY <1>4, <1>7
<1>9. ChangeIn(rs, type, a, b, alpha, beta) \in Int
  <2>1. PICK g \in Int : g = route_penalty(Problem, after[a[1]], alpha, beta)
    BY <1>3, <1>8
  <2>2. PICK h \in Int : h = route_penalty(Problem, rs[a[1]], alpha, beta)
    BY <1>3, <1>8
  <2>3. PICK i \in Int : i = route_penalty(Problem, after[b[1]], alpha, beta)
    BY <1>3, <1>8
  <2>4. PICK j \in Int : j = route_penalty(Problem, rs[b[1]], alpha, beta)
    BY <1>3, <1>8
  <2>5. ChangeIn(rs, type, a, b, alpha, beta) =
          (g - h) + IF a[1] = b[1] THEN 0 ELSE i - j
    BY <1>2, <2>1, <2>2, <2>3, <2>4 DEF ChangeIn
  <2> QED
    BY <2>5
<1> QED
  BY <1>1, <1>9 DEF ValueIn

\* The model's Change by its arguments.
LEMMA ChangeIs ==
  ASSUME NEW mv, NEW p, NEW q
  PROVE  Change(mv, p, q) = ChangeIn(rts, mv.type, mv.v, mv.w, p, q)
BY DEF Change, ChangeIn

\* The weights are positive.
LEMMA Weights ==
  /\ EPS5 \in Nat \ {0} /\ alpha \in Nat \ {0} /\ beta \in Nat \ {0}
  /\ EPS5 * alpha \in Nat \ {0} /\ 2 * EPS5 * alpha = 2 * (EPS5 * alpha)
<1>1. EPS5 \in Nat \ {0} /\ alpha \in Nat \ {0} /\ beta \in Nat \ {0}
  BY ScanAssumption
<1>2. \A a, b \in Nat \ {0} : a * b \in Nat \ {0} /\ 2 * a * b = 2 * (a * b)
  OBVIOUS
<1> QED
  BY <1>1, <1>2

\* What squeeze applies.
LEMMA BestApplied ==
  ASSUME RoutesOK, YieldOK, BestOK, pc = "apply", opt.delta <= -(EPS5 * alpha)
  PROVE  \E mv \in Elems(yielded) :
           /\ mv \in Neighbourhood(rts, x)
           /\ opt.delta = ValueIn(rts, mv)
           /\ modification_apply(rts, opt.move.type, opt.move.v, opt.move.w) =
                modification_apply(rts, mv[1], mv[2], mv[3])
<1>1. Elems(yielded) \subseteq Neighbourhood(rts, x)
  BY DEF YieldOK
<1>2. BestOf(rts, opt, Elems(yielded))
  BY DEF BestOK, Seen
<1>3. opt.delta # Infinity
  BY Weights DEF Infinity
<1>4. PICK mv \in Elems(yielded) :
        /\ opt.delta = ValueIn(rts, mv)
        /\ opt.move.type = mv[1] /\ opt.move.v = mv[2] /\ opt.move.w = mv[3]
  BY <1>2, <1>3 DEF BestOf
<1> QED
  BY <1>1, <1>4
-----------------------------------------------------------------------------
(***************************************************************************)
(* Every step keeps each part of the invariant.                            *)
(***************************************************************************)
\* The routes change when a move is applied.
LEMMA NextRoutes == IInv /\ [Next]_vars => RoutesOK'
<1> SUFFICES ASSUME IInv, [Next]_vars PROVE RoutesOK'
  OBVIOUS
<1> USE DEF IInv, RoutesOK
<1>1. CASE Choose
  BY <1>1 DEF Choose
<1>2. CASE NextW
  BY <1>2 DEF NextW
<1>3. CASE NextV
  BY <1>3 DEF NextV
<1>4. CASE NoMoreV
  BY <1>4 DEF NoMoreV
<1>5. CASE NextType
  BY <1>5 DEF NextType
<1>6. CASE NoMoreTypes
  BY <1>6 DEF NoMoreTypes
<1>7. CASE Finish
  BY <1>7 DEF Finish
<1>8. CASE Compare
  BY <1>8 DEF Compare
<1>9. CASE Apply
  <2>1. pc = "apply" /\ opt.delta <= -(EPS5 * alpha) /\ pc' = "choose"
        /\ rts' = modification_apply(rts, opt.move.type, opt.move.v, opt.move.w)
    BY <1>9 DEF Apply
  <2>2. PICK mv \in Neighbourhood(rts, x) : rts' = modification_apply(rts, mv[1], mv[2], mv[3])
    BY <2>1, BestApplied
  <2>3. x \in DOMAIN rts
    BY <2>1
  <2>4. rts' \in Seq(Seq(Customer)) /\ Holds(rts', Carried(rts))
    BY <2>2, <2>3, NeighbourhoodApply
  <2>5. Holds(rts', Carried(rts'))
    BY <2>4, HoldsCarried
  <2> QED
    BY <2>1, <2>4, <2>5
<1>10. CASE Fail
  BY <1>10 DEF Fail
<1>11. CASE UNCHANGED vars
  BY <1>11 DEF vars
<1> QED
  BY <1>1, <1>2, <1>3, <1>4, <1>5, <1>6, <1>7, <1>8, <1>9, <1>10, <1>11 DEF Next

\* The types that are left after the first.
LEMMA TypesTail ==
  ASSUME NEW rs, NEW tys, NEW a, NEW b, TypesOK(rs, tys, a, b), tys # <<>>
  PROVE  /\ TypesOK(rs, Tail(tys), a, b)
         /\ Head(tys) \in Elems(tys) /\ Elems(Tail(tys)) = Elems(tys) \ {Head(tys)}
<1>1. Lists(tys, Elems(tys))
  BY DEF TypesOK
<1>2. PICK t : t = Tail(tys)
  OBVIOUS
<1>3. Head(tys) \in Elems(tys) /\ Lists(t, Elems(tys) \ {Head(tys)})
  BY <1>1, <1>2, ListedHead
<1>4. Elems(t) = Elems(tys) \ {Head(tys)}
  BY <1>3, ListedSet
<1>5. TypesOK(rs, t, a, b)
  BY <1>3, <1>4 DEF TypesOK
<1> QED
  BY <1>2, <1>3, <1>4, <1>5

\* The next node of the route.
LEMMA NextWPlace ==
  ASSUME RoutesOK, PlaceOK, NextW
  PROVE  /\ PlaceOK' /\ Elems(permutation) = Elems(permutation') \cup {w'}
         /\ Elems(vs') = Candidates(rts, x, w') /\ w' \in RouteNodes(rts, x)
<1>1. /\ pc = "next_w" /\ permutation # <<>> /\ pc' = "next_v" /\ UNCHANGED <<rts, x>>
      /\ permutation' = Tail(permutation) /\ w' = Head(permutation)
  BY DEF NextW
<1>2. PICK n : n = Head(permutation)
  OBVIOUS
<1>3. PICK S : S = Elems(permutation)
  OBVIOUS
<1>4. Lists(permutation, S) /\ S \subseteq RouteNodes(rts, x)
  BY <1>1, <1>3 DEF PlaceOK, Scanning
<1>5. n \in S /\ Lists(permutation', S \ {n})
  BY <1>1, <1>2, <1>4, ListedHead
<1>6. Elems(permutation') = S \ {n}
  BY <1>5, ListedSet
<1>7. vs' \in IF IsDepot(rts, n) THEN NearNodes(0)
              ELSE {TailNodes \o near : near \in NearNodes(rts[x][n[2]])}
  BY <1>2 DEF NextW
<1>8. rts \in Seq(Seq(Customer)) /\ x \in DOMAIN rts
  BY <1>1 DEF RoutesOK
<1>9. Lists(vs', Candidates(rts, x, n))
  BY <1>4, <1>5, <1>7, <1>8, CandidateOrder
<1>10. Elems(vs') = Candidates(rts, x, n)
  BY <1>9, ListedSet
<1>11. PlaceOK'
  BY <1>1, <1>2, <1>4, <1>5, <1>6, <1>9, <1>10 DEF PlaceOK, Scanning, AtNode, AtPair
<1> QED
  BY <1>1, <1>2, <1>3, <1>4, <1>5, <1>6, <1>10, <1>11

\* The next node it meets.
LEMMA NextVPlace ==
  ASSUME RoutesOK, PlaceOK, NextV
  PROVE  /\ PlaceOK' /\ Elems(vs) = Elems(vs') \cup {v'}
         /\ v' # w => \A t \in TypesOf(rts, v', w) : t \in Elems(types')
<1>1. /\ pc = "next_v" /\ vs # <<>> /\ pc' = "next_type"
      /\ UNCHANGED <<rts, x, permutation, w>>
      /\ vs' = Tail(vs) /\ v' = Head(vs)
  BY DEF NextV
<1>2. PICK h : h = Head(vs)
  OBVIOUS
<1>3. PICK S : S = Elems(vs)
  OBVIOUS
<1>4. /\ Lists(vs, S) /\ S \subseteq Candidates(rts, x, w)
      /\ w \in RouteNodes(rts, x) /\ w \notin Elems(permutation)
      /\ Lists(permutation, Elems(permutation))
      /\ Elems(permutation) \subseteq RouteNodes(rts, x)
  BY <1>1, <1>3 DEF PlaceOK, Scanning, AtNode
<1>5. h \in S /\ Lists(vs', S \ {h})
  BY <1>1, <1>2, <1>4, ListedHead
<1>6. Elems(vs') = S \ {h}
  BY <1>5, ListedSet
<1>7. types' = Try(h, w)
  BY <1>2 DEF NextV, Try
<1>8. rts \in Seq(Seq(Customer)) /\ x \in DOMAIN rts
  BY <1>1 DEF RoutesOK
<1>9. PICK T : /\ Lists(Try(h, w), T) /\ T \subseteq Moves
               /\ h = w => T = {}
               /\ T # {} /\ h[1] = w[1] => ~IsDepot(rts, h) /\ ~IsDepot(rts, w)
               /\ h # w => \A t : t \in TypesOf(rts, h, w) <=>
                                    t \in T /\ YieldsOf(rts, t, h, w)
  <2>1. h \in Candidates(rts, x, w) /\ w \in RouteNodes(rts, x)
    BY <1>4, <1>5
  <2> QED
    BY <1>8, <2>1, TriedTypes
<1>10. Elems(types') = T
  BY <1>7, <1>9, ListedSet
<1>11. TypesOK(rts, types', h, w)
  BY <1>7, <1>9, <1>10 DEF TypesOK
<1>12. TypesOK(rts', types', v', w')
  BY <1>1, <1>2, <1>11
<1>13. PlaceOK'
  BY <1>1, <1>2, <1>4, <1>5, <1>6, <1>12 DEF PlaceOK, Scanning, AtNode, AtPair
<1>14. h # w => \A t \in TypesOf(rts, h, w) : t \in Elems(types')
  BY <1>9, <1>10
<1> QED
  BY <1>1, <1>2, <1>3, <1>4, <1>5, <1>6, <1>13, <1>14

\* The next type that is tried.
LEMMA NextTypePlace ==
  ASSUME PlaceOK, NextType
  PROVE  /\ PlaceOK' /\ pc = "next_type" /\ Head(types) \in Elems(types)
         /\ Elems(types') = Elems(types) \ {Head(types)}
<1>1. /\ pc = "next_type" /\ types # <<>> /\ pc' \in {"compare", "next_type"}
      /\ UNCHANGED <<rts, x, permutation, w, v, vs>>
      /\ types' = Tail(types)
  BY DEF NextType
<1>2. TypesOK(rts, types, v, w)
  BY <1>1 DEF PlaceOK, AtPair
<1>3. /\ TypesOK(rts, types', v, w)
      /\ Head(types) \in Elems(types) /\ Elems(types') = Elems(types) \ {Head(types)}
  BY <1>1, <1>2, TypesTail
<1>4. TypesOK(rts', types', v', w')
  BY <1>1, <1>3
<1>5. PlaceOK'
  BY <1>1, <1>4 DEF PlaceOK, Scanning, AtNode, AtPair
<1> QED
  BY <1>1, <1>3, <1>5

\* The generator stays within its lists.
LEMMA NextPlace == IInv /\ [Next]_vars => PlaceOK'
<1> SUFFICES ASSUME IInv, [Next]_vars PROVE PlaceOK'
  OBVIOUS
<1>1. RoutesOK /\ PlaceOK
  BY DEF IInv
<1>2. CASE Choose
  <2>1. PICK y \in DOMAIN rts : x' = y /\ permutation' \in SetToSeqs({y} \X Indexes(rts[y]))
    BY <1>2 DEF Choose
  <2>2. pc' = "next_w" /\ rts' = rts
    BY <1>2 DEF Choose
  <2>3. Lists(permutation', RouteNodes(rts, y))
    BY <1>1, <2>1, RouteOrder DEF RoutesOK
  <2>4. Elems(permutation') = RouteNodes(rts, y)
    BY <2>3, ListedSet
  <2> QED
    BY <2>1, <2>2, <2>3, <2>4 DEF PlaceOK, Scanning, AtNode, AtPair
<1>3. CASE NextW
  BY <1>1, <1>3, NextWPlace
<1>4. CASE NextV
  BY <1>1, <1>4, NextVPlace
<1>5. CASE NoMoreV
  BY <1>1, <1>5 DEF NoMoreV, generator, PlaceOK, Scanning, AtNode, AtPair
<1>6. CASE NextType
  BY <1>1, <1>6, NextTypePlace
<1>7. CASE NoMoreTypes
  BY <1>1, <1>7 DEF NoMoreTypes, generator, PlaceOK, Scanning, AtNode, AtPair
<1>8. CASE Finish
  BY <1>8 DEF Finish, PlaceOK, Scanning, AtNode, AtPair
<1>9. CASE Compare
  <2>1. /\ pc = "compare" /\ pc' \in {"finish", "next_type"}
        /\ UNCHANGED <<rts, x, permutation, w, v, vs, types>>
    BY <1>9 DEF Compare, generator
  <2>2. TypesOK(rts, types, v, w)
    BY <1>1, <2>1 DEF PlaceOK, AtPair
  <2>3. TypesOK(rts', types', v', w')
    BY <2>1, <2>2
  <2> QED
    BY <1>1, <2>1, <2>3 DEF PlaceOK, Scanning, AtNode, AtPair
<1>10. CASE Apply
  BY <1>10 DEF Apply, PlaceOK, Scanning, AtNode, AtPair
<1>11. CASE Fail
  BY <1>11 DEF Fail, PlaceOK, Scanning, AtNode, AtPair
<1>12. CASE UNCHANGED vars
  <2>1. UNCHANGED <<pc, rts, x, permutation, w, v, vs, types>>
    BY <1>12 DEF vars, generator
  <2>2. AtPair => TypesOK(rts', types', v', w')
    <3>1. AtPair => TypesOK(rts, types, v, w)
      BY <1>1 DEF PlaceOK
    <3> QED
      BY <2>1, <3>1
  <2> QED
    BY <1>1, <2>1, <2>2 DEF PlaceOK, Scanning, AtNode, AtPair
<1> QED
  BY <1>2, <1>3, <1>4, <1>5, <1>6, <1>7, <1>8, <1>9, <1>10, <1>11, <1>12 DEF Next

\* One copy of the route exists from the first customer of the scan to its end.
LEMMA NextCopy == IInv /\ [Next]_vars => CopyOK'
<1> SUFFICES ASSUME IInv, [Next]_vars PROVE CopyOK'
  OBVIOUS
<1>1. RoutesOK /\ PlaceOK /\ CopyOK
  BY DEF IInv
<1>2. objects = {"route", "customer"} \X ({copy.number} \ {0})
  BY <1>1 DEF CopyOK
<1>3. CASE Choose
  <2>1. /\ pc = "choose" /\ pc' = "next_w" /\ copy' = NoCopy /\ objects' = objects
    BY <1>3 DEF Choose
  <2>2. copy.number = 0 /\ copy'.number = 0
    BY <1>1, <2>1 DEF CopyOK, NoCopy
  <2> QED
    BY <1>2, <2>1, <2>2 DEF CopyOK, AtNode
<1>4. CASE NextW
  <2>1. /\ pc = "next_w" /\ pc' = "next_v" /\ permutation # <<>> /\ UNCHANGED <<rts, x>>
        /\ w' = Head(permutation)
    BY <1>4 DEF NextW
  <2>2. PICK n : n = Head(permutation)
    OBVIOUS
  <2>3. CASE IsDepot(rts, n)
    <3>1. UNCHANGED <<copy, id_to_customer, objects>>
      BY <1>4, <2>2, <2>3 DEF NextW
    <3>2. IsDepot(rts', w')
      BY <2>1, <2>2, <2>3
    <3> QED
      BY <1>2, <2>1, <3>1, <3>2 DEF CopyOK
  <2>4. CASE ~IsDepot(rts, n)
    <3>1. PICK k : k = Len(permutation)
      OBVIOUS
    <3>2. k # 0
      <4>1. Lists(permutation, Elems(permutation))
        BY <1>1, <2>1 DEF PlaceOK, Scanning
      <4>2. permutation \in Seq(Elems(permutation))
        BY <4>1, ListedSet
      <4> QED
        BY <2>1, <3>1, <4>2
    <3>3. /\ copy' = Copied(n, k)
          /\ id_to_customer' = [c \in Customer |->
                 IF c \in ToSet(rts[x]) THEN k ELSE id_to_customer[c]]
          /\ objects' = Destroyed \cup ({"route", "customer"} \X {k})
      BY <1>4, <2>2, <2>4, <3>1 DEF NextW
    <3>4. /\ copy'.number = k /\ copy'.route = RemoveIndex(rts[x], n[2])
          /\ copy'.w = rts[x][n[2]]
          /\ copy'.ejected = Sum(RemoveIndex(rts[x], n[2]), rts[x])
      BY <3>3 DEF Copied
    <3>5. Destroyed = {}
      BY <1>2 DEF Destroyed
    <3>6. objects' = {"route", "customer"} \X ({k} \ {0})
      <4>1. {k} \ {0} = {k}
        BY <3>2
      <4> QED
        BY <3>3, <3>5, <4>1
    <3>7. rts[x] \in Seq(Customer)
      BY <1>1, <2>1 DEF RoutesOK
    <3>8. \A c \in Elems(rts[x]) : c \in Customer /\ c \in ToSet(rts[x])
      BY <3>7 DEF Elems, ToSet
    <3>9. \A c \in Elems(rts[x]) : id_to_customer'[c] = k
      BY <3>3, <3>8
    <3> QED
      BY <2>1, <2>2, <3>4, <3>6, <3>9 DEF CopyOK
  <2> QED
    BY <2>3, <2>4
<1>5. CASE NextV
  BY <1>1, <1>5 DEF NextV, CopyOK, AtNode
<1>6. CASE NoMoreV
  BY <1>1, <1>6 DEF NoMoreV, generator, CopyOK, AtNode
<1>7. CASE NextType
  BY <1>1, <1>7 DEF NextType, CopyOK, AtNode
<1>8. CASE NoMoreTypes
  BY <1>1, <1>8 DEF NoMoreTypes, generator, CopyOK, AtNode
<1>9. CASE Finish
  <2>1. /\ copy' = NoCopy /\ objects' = Destroyed /\ region' = FALSE /\ pc' = "apply"
    BY <1>9 DEF Finish
  <2>2. Destroyed = {}
    BY <1>2 DEF Destroyed
  <2>3. copy'.number = 0
    BY <2>1 DEF NoCopy
  <2> QED
    BY <2>1, <2>2, <2>3 DEF CopyOK, AtNode
<1>10. CASE Compare
  <2>1. pc = "compare" /\ pc' \in {"finish", "next_type"} /\ UNCHANGED <<rts, x, generator>>
    BY <1>10 DEF Compare
  <2> QED
    BY <1>1, <2>1 DEF generator, CopyOK, AtNode
<1>11. CASE Apply
  BY <1>1, <1>11 DEF Apply, generator, CopyOK, AtNode
<1>12. CASE Fail
  BY <1>1, <1>12 DEF Fail, generator, CopyOK, AtNode
<1>13. CASE UNCHANGED vars
  BY <1>1, <1>13 DEF vars, generator, CopyOK, AtNode
<1> QED
  BY <1>3, <1>4, <1>5, <1>6, <1>7, <1>8, <1>9, <1>10, <1>11, <1>12, <1>13 DEF Next

\* A type that is tried is yielded when it is in the neighbourhood.
LEMMA TriedYields ==
  ASSUME RoutesOK, PlaceOK, pc = "next_type", NEW type \in Elems(types)
  PROVE  /\ w[1] = x /\ v # w
         /\ Yields(type) <=> <<type, v, w>> \in Neighbourhood(rts, x)
         /\ v[1] = w[1] => ~IsDepot(rts, v) /\ ~IsDepot(rts, w)
<1>1. /\ rts \in Seq(Seq(Customer)) /\ x \in DOMAIN rts
      /\ w \in RouteNodes(rts, x) /\ v \in Candidates(rts, x, w)
      /\ TypesOK(rts, types, v, w)
  BY DEF RoutesOK, PlaceOK, AtNode, AtPair
<1>2. w[1] = x
  BY <1>1, CandidateNodes
<1>3. v # w /\ (type \in TypesOf(rts, v, w) <=> YieldsOf(rts, type, v, w))
      /\ (v[1] = w[1] => ~IsDepot(rts, v) /\ ~IsDepot(rts, w))
  BY <1>1 DEF TypesOK
<1>4. Yields(type) <=> YieldsOf(rts, type, v, w)
  BY <1>2 DEF Yields, YieldsOf
<1>5. <<type, v, w>> \in Neighbourhood(rts, x) <=> type \in TypesOf(rts, v, w)
  BY <1>1, <1>3, NeighbourhoodIs
<1> QED
  BY <1>2, <1>3, <1>4, <1>5

\* The lateness that is prepared for a move within the route.
LEMMA PreparedExact ==
  ASSUME RoutesOK, PlaceOK, CopyOK, pc = "next_type", NEW type \in Elems(types), Yields(type),
         v[1] = w[1]
  PROVE  /\ Prepared(type) = ChangeIn(rts, type, v, w, 0, 1)
         /\ ChangeIn(rts, type, v, w, 1, 0) = 0
         /\ ValueIn(rts, <<type, v, w>>) = beta * ChangeIn(rts, type, v, w, 0, 1)
<1>1. /\ rts \in Seq(Seq(Customer)) /\ x \in DOMAIN rts /\ Holds(rts, Carried(rts))
      /\ w \in RouteNodes(rts, x) /\ v \in Candidates(rts, x, w)
  BY DEF RoutesOK, PlaceOK, AtNode, AtPair
<1>2. /\ w[1] = x /\ v # w /\ <<type, v, w>> \in Neighbourhood(rts, x)
      /\ ~IsDepot(rts, v) /\ ~IsDepot(rts, w)
  BY TriedYields
<1>3. type \in {"OUT_RELOCATE", "EXCHANGE"}
  <2>1. type \in TypesOf(rts, v, w)
    BY <1>2, NeighbourhoodIs
  <2> QED
    BY <2>1 DEF TypesOf, IntraRoute
<1>4. v \in CustomerNodes(rts) /\ w \in CustomerNodes(rts)
  <2>1. v \in Nodes(rts) /\ w \in Nodes(rts)
    BY <1>1, CandidateNodes
  <2> QED
    BY <1>1, <1>2, <2>1, NodeKinds
<1>5. PICK i \in 1 .. Len(rts[x]) : v = <<x, i>>
  <2>1. v \in Nat \X Nat /\ v[2] \in 1 .. Len(rts[v[1]])
    BY <1>1, <1>4, NodeTypes
  <2> QED
    BY <1>2, <2>1
<1>6. PICK j \in 1 .. Len(rts[x]) : w = <<x, j>>
  <2>1. w \in Nat \X Nat /\ w[2] \in 1 .. Len(rts[w[1]])
    BY <1>1, <1>4, NodeTypes
  <2> QED
    BY <1>2, <2>1
<1>7. i # j /\ Distinct(rts[x])
  <2>1. x \in 1 .. Len(rts)
    BY <1>1
  <2>2. Distinct(rts[x])
    BY <1>1, <2>1 DEF Holds
  <2>3. i # j
    BY <1>2, <1>5, <1>6
  <2> QED
    BY <2>2, <2>3
<1>8. PICK mv : mv = [type |-> type, v |-> v, w |-> w]
  OBVIOUS
<1>9. mv.type = type /\ mv.v = <<x, i>> /\ mv.w = <<x, j>>
  BY <1>5, <1>6, <1>8
<1>10. /\ Change(mv, 1, 0) = 0 /\ Change(mv, 0, 1) \in Int
       /\ \A a, b \in Int : Change(mv, a, b) = b * Change(mv, 0, 1)
       /\ type = "OUT_RELOCATE" =>
            \A left : left = RemoveIndex(rts[x], j) =>
              Sum(left, rts[x]) + Sum(InsertBefore(left, PlaceIn(left, rts[x][i]), rts[x][j]), left)
                = Change(mv, 0, 1)
  <2>1. LatenessOnly(mv, type, x, i, j)
    BY <1>1, <1>3, <1>7, <1>9, ChangeWithin
  <2> QED
    BY <2>1 DEF LatenessOnly
<1>11. \A p, q : Change(mv, p, q) = ChangeIn(rts, type, v, w, p, q)
  BY <1>8, ChangeIs
<1>12. Prepared(type) = Change(mv, 0, 1)
  <2>1. CASE type = "EXCHANGE"
    BY <1>8, <2>1 DEF Prepared
  <2>2. CASE type = "OUT_RELOCATE"
    <3>1. PICK left : left = RemoveIndex(rts[x], j)
      OBVIOUS
    <3>2. copy.route = left /\ copy.w = rts[x][j] /\ copy.ejected = Sum(left, rts[x])
      <4>1. AtNode /\ w[2] = j
        BY <1>6 DEF AtNode
      <4> QED
        BY <1>2, <3>1, <4>1 DEF CopyOK
    <3>3. rts[v[1]][v[2]] = rts[x][i]
      BY <1>5
    <3>4. OutRelocateDelta =
            Sum(left, rts[x]) + Sum(InsertBefore(left, PlaceIn(left, rts[x][i]), rts[x][j]), left)
      BY <3>2, <3>3 DEF OutRelocateDelta, PlaceIn
    <3>5. OutRelocateDelta = Change(mv, 0, 1)
      BY <1>10, <2>2, <3>1, <3>4
    <3> QED
      BY <2>2, <3>5 DEF Prepared
  <2> QED
    BY <1>3, <2>1, <2>2
<1>13. ValueIn(rts, <<type, v, w>>) = Change(mv, alpha, beta)
  BY <1>11 DEF ValueIn
<1>14. alpha \in Int /\ beta \in Int
  BY Weights
<1> QED
  BY <1>10, <1>11, <1>12, <1>13, <1>14

\* Once a type is tried, m is the move; the move is yielded or not in the neighbourhood.
LEMMA NextTypeMove ==
  ASSUME RoutesOK, PlaceOK, CopyOK, NextType
  PROVE  \/ /\ pc' = "compare" /\ MoveOK'
            /\ Yielded' = <<Head(types), v, w>> /\ Yielded' \in Neighbourhood(rts, x)
            /\ yielded' = Append(yielded, Yielded')
         \/ /\ pc' = "next_type" /\ yielded' = yielded
            /\ <<Head(types), v, w>> \notin Neighbourhood(rts, x)
<1>1. PICK type : type = Head(types)
  OBVIOUS
<1>2. pc = "next_type" /\ type \in Elems(types)
  BY <1>1, NextTypePlace
<1>3. UNCHANGED <<rts, x, v, w>>
  BY DEF NextType
<1>4. CASE Yields(type)
  <2>1. PICK tw : tw = Prepared(type)
    OBVIOUS
  <2>2. /\ m' = [[type |-> type, v |-> v, w |-> w, tw |-> Unset] EXCEPT !.tw = tw]
        /\ yielded' = Append(yielded, <<type, v, w>>) /\ pc' = "compare"
    BY <1>1, <1>4, <2>1 DEF NextType
  <2>3. m'.type = type /\ m'.v = v /\ m'.w = w /\ m'.tw = tw
    BY <2>2
  <2>4. Yielded' = <<type, v, w>>
    BY <2>3 DEF Yielded
  <2>5. Yielded' \in Neighbourhood(rts, x)
    BY <1>2, <1>4, <2>4, TriedYields
  <2>6. Yielded' \in Elems(yielded')
    <3>1. yielded' = Append(yielded, Yielded')
      BY <2>2, <2>4
    <3> QED
      BY <3>1 DEF Elems
  <2>7. MoveOK'
    <3>1. CASE v[1] # w[1]
      <4>1. tw = Unset
        BY <2>1, <3>1 DEF Prepared
      <4> QED
        BY <1>3, <2>3, <2>6, <3>1, <4>1 DEF MoveOK
    <3>2. CASE v[1] = w[1]
      <4>1. /\ tw = ChangeIn(rts, type, v, w, 0, 1)
            /\ ChangeIn(rts, type, v, w, 1, 0) = 0
            /\ ValueIn(rts, <<type, v, w>>) = beta * ChangeIn(rts, type, v, w, 0, 1)
        BY <1>2, <1>4, <2>1, <3>2, PreparedExact
      <4>2. ~IsDepot(rts, v) /\ ~IsDepot(rts, w)
        BY <1>2, <3>2, TriedYields
      <4>3. /\ m'.tw = ChangeIn(rts', m'.type, v', w', 0, 1)
            /\ ChangeIn(rts', m'.type, v', w', 1, 0) = 0
            /\ ValueIn(rts', Yielded') = beta * m'.tw
            /\ ~IsDepot(rts', v') /\ ~IsDepot(rts', w')
        BY <1>3, <2>3, <2>4, <4>1, <4>2
      <4> QED
        BY <1>3, <2>3, <2>6, <3>2, <4>3 DEF MoveOK
    <3> QED
      BY <3>1, <3>2
  <2> QED
    BY <1>1, <2>2, <2>4, <2>5, <2>7
<1>5. CASE ~Yields(type)
  <2>1. pc' = "next_type" /\ yielded' = yielded
    BY <1>1, <1>2, <1>5 DEF NextType
  <2>2. <<type, v, w>> \notin Neighbourhood(rts, x)
    BY <1>2, <1>5, TriedYields
  <2> QED
    BY <1>1, <2>1, <2>2
<1> QED
  BY <1>4, <1>5

\* The move squeeze is to look at carries the lateness it adds.
LEMMA NextMove == IInv /\ [Next]_vars => MoveOK'
<1> SUFFICES ASSUME IInv, [Next]_vars PROVE MoveOK'
  OBVIOUS
<1>1. CASE NextType
  <2>1. CASE pc' = "compare"
    BY <1>1, <2>1, NextTypeMove DEF IInv
  <2>2. CASE pc' # "compare"
    BY <2>2 DEF MoveOK
  <2> QED
    BY <2>1, <2>2
<1>2. CASE UNCHANGED vars
  <2>1. UNCHANGED <<pc, rts, v, w, m, yielded>>
    BY <1>2 DEF vars, generator
  <2>2. Yielded' = Yielded
    BY <2>1 DEF Yielded
  <2>3. ASSUME pc = "compare"
        PROVE  /\ m'.v = v' /\ m'.w = w' /\ Yielded' \in Elems(yielded')
               /\ v'[1] # w'[1] => m'.tw = Unset
               /\ v'[1] = w'[1] => /\ ~IsDepot(rts', v') /\ ~IsDepot(rts', w')
                                   /\ m'.tw = ChangeIn(rts', m'.type, v', w', 0, 1)
                                   /\ ChangeIn(rts', m'.type, v', w', 1, 0) = 0
                                   /\ ValueIn(rts', Yielded') = beta * m'.tw
    <3>1. /\ m.v = v /\ m.w = w /\ Yielded \in Elems(yielded)
          /\ v[1] # w[1] => m.tw = Unset
          /\ v[1] = w[1] => /\ ~IsDepot(rts, v) /\ ~IsDepot(rts, w)
                            /\ m.tw = ChangeIn(rts, m.type, v, w, 0, 1)
                            /\ ChangeIn(rts, m.type, v, w, 1, 0) = 0
                            /\ ValueIn(rts, Yielded) = beta * m.tw
      BY <2>3 DEF IInv, MoveOK
    <3> QED
      BY <2>1, <2>2, <3>1
  <2> QED
    BY <2>1, <2>3 DEF MoveOK
<1>3. CASE Choose \/ NextW \/ NextV \/ NoMoreV \/ NoMoreTypes \/ Finish \/ Compare \/ Apply \/ Fail
  <2>1. pc' # "compare"
    BY <1>3 DEF Choose, NextW, NextV, NoMoreV, NoMoreTypes, Finish, Compare, Apply, Fail
  <2> QED
    BY <2>1 DEF MoveOK
<1> QED
  BY <1>1, <1>2, <1>3 DEF Next

\* Only trying a type takes a move from the pending ones.
LEMMA SamePending ==
  ASSUME RoutesOK, PlaceOK, Scanning', NextW \/ NextV \/ NoMoreV \/ NoMoreTypes \/ Compare,
         NEW mv \in Neighbourhood(rts, x)
  PROVE  Pending(mv)' <=> Pending(mv)
<1>1. /\ mv[3] \in RouteNodes(rts, x) /\ mv[2] \in Candidates(rts, x, mv[3])
      /\ mv[2] # mv[3] /\ mv[1] \in TypesOf(rts, mv[2], mv[3])
  BY NeighbourhoodIs
<1>2. CASE NextW
  <2>1. /\ Elems(permutation) = Elems(permutation') \cup {w'}
        /\ Elems(vs') = Candidates(rts, x, w')
    BY <1>2, NextWPlace
  <2>2. pc = "next_w" /\ pc' = "next_v"
    BY <1>2 DEF NextW
  <2> QED
    BY <1>1, <2>1, <2>2 DEF Pending, AtNode, AtPair
<1>3. CASE NextV
  <2>1. /\ Elems(vs) = Elems(vs') \cup {v'}
        /\ v' # w => \A t \in TypesOf(rts, v', w) : t \in Elems(types')
    BY <1>3, NextVPlace
  <2>2. pc = "next_v" /\ pc' = "next_type" /\ w' = w /\ permutation' = permutation
    BY <1>3 DEF NextV
  <2> QED
    BY <1>1, <2>1, <2>2 DEF Pending, AtNode, AtPair
<1>4. CASE NoMoreV
  <2>1. pc = "next_v" /\ pc' = "next_w" /\ vs = <<>> /\ permutation' = permutation
    BY <1>4 DEF NoMoreV, generator
  <2>2. Elems(vs) = {}
    BY <2>1 DEF Elems
  <2> QED
    BY <2>1, <2>2 DEF Pending, AtNode, AtPair
<1>5. CASE NoMoreTypes
  <2>1. /\ pc = "next_type" /\ pc' = "next_v" /\ types = <<>>
        /\ permutation' = permutation /\ w' = w /\ vs' = vs
    BY <1>5 DEF NoMoreTypes, generator
  <2>2. Elems(types) = {}
    BY <2>1 DEF Elems
  <2> QED
    BY <2>1, <2>2 DEF Pending, AtNode, AtPair
<1>6. CASE Compare
  <2>1. pc = "compare" /\ pc' \in {"finish", "next_type"} /\ UNCHANGED generator
    BY <1>6 DEF Compare
  <2>2. pc' = "next_type"
    BY <2>1 DEF Scanning
  <2> QED
    BY <2>1, <2>2 DEF generator, Pending, AtNode, AtPair
<1> QED
  BY <1>2, <1>3, <1>4, <1>5, <1>6

\* A type that is tried takes its move from them.
LEMMA OnePending ==
  ASSUME RoutesOK, PlaceOK, NextType, NEW mv \in Neighbourhood(rts, x)
  PROVE  Pending(mv)' <=> Pending(mv) /\ mv # <<Head(types), v, w>>
<1>1. PICK type : type = Head(types)
  OBVIOUS
<1>2. /\ pc = "next_type" /\ pc' \in {"next_type", "compare"}
      /\ UNCHANGED <<permutation, w, v, vs>>
  BY DEF NextType
<1>3. type \in Elems(types) /\ Elems(types') = Elems(types) \ {type}
  BY <1>1, NextTypePlace
<1>4. w \notin Elems(permutation) /\ v \notin Elems(vs)
  BY <1>2 DEF PlaceOK, AtNode, AtPair
<1>5. mv = <<type, v, w>> <=> mv[1] = type /\ mv[2] = v /\ mv[3] = w
  <2>1. mv = <<mv[1], mv[2], mv[3]>>
    BY NeighbourhoodIs
  <2> QED
    BY <2>1
<1>6. Pending(mv)' <=> Pending(mv) /\ mv # <<type, v, w>>
  BY <1>2, <1>3, <1>4, <1>5 DEF Pending, AtNode, AtPair
<1> QED
  BY <1>1, <1>6

\* What is yielded and what is pending make up the neighbourhood.
LEMMA NextYield == IInv /\ [Next]_vars => YieldOK'
<1> SUFFICES ASSUME IInv, [Next]_vars PROVE YieldOK'
  OBVIOUS
<1>1. RoutesOK /\ PlaceOK /\ CopyOK /\ YieldOK /\ BestOK
  BY DEF IInv
<1>2. CASE Choose
  <2>1. PICK y \in DOMAIN rts : x' = y /\ permutation' \in SetToSeqs({y} \X Indexes(rts[y]))
    BY <1>2 DEF Choose
  <2>2. pc' = "next_w" /\ rts' = rts /\ yielded' = <<>>
    BY <1>2 DEF Choose
  <2>3. Lists(permutation', RouteNodes(rts, y))
    BY <1>1, <2>1, RouteOrder DEF RoutesOK
  <2>4. Elems(permutation') = RouteNodes(rts, y)
    BY <2>3, ListedSet
  <2>5. Elems(yielded') = {} /\ Lists(yielded', {})
    BY <2>2 DEF Lists, Distinct, Elems
  <2>6. ASSUME NEW mv \in Neighbourhood(rts, y) PROVE Pending(mv)'
    <3>1. mv[3] \in RouteNodes(rts, y)
      BY NeighbourhoodIs
    <3> QED
      BY <2>4, <3>1 DEF Pending
  <2>7. \A mv \in Neighbourhood(rts', x') : mv \in Elems(yielded') <=> ~Pending(mv)'
    BY <2>1, <2>2, <2>5, <2>6
  <2> QED
    BY <2>2, <2>5, <2>7 DEF YieldOK
<1>3. CASE Scanning' /\ (NextW \/ NextV \/ NoMoreV \/ NoMoreTypes \/ Compare)
  <2>1. UNCHANGED <<rts, x, yielded>> /\ pc # "choose" /\ Scanning
    BY <1>3 DEF NextW, NextV, NoMoreV, NoMoreTypes, Compare, generator, Scanning
  <2>2. /\ Lists(yielded, Elems(yielded)) /\ Elems(yielded) \subseteq Neighbourhood(rts, x)
        /\ \A mv \in Neighbourhood(rts, x) : mv \in Elems(yielded) <=> ~Pending(mv)
    BY <1>1, <2>1 DEF YieldOK
  <2>3. \A mv \in Neighbourhood(rts, x) : Pending(mv)' <=> Pending(mv)
    BY <1>1, <1>3, SamePending
  <2>4. \A mv \in Neighbourhood(rts', x') : mv \in Elems(yielded') <=> ~Pending(mv)'
    BY <2>1, <2>2, <2>3
  <2>5. pc' \notin {"apply", "failed"}
    BY <1>3 DEF Scanning
  <2> QED
    BY <2>1, <2>2, <2>4, <2>5 DEF YieldOK
<1>4. CASE NextType
  <2>1. PICK o : o = <<Head(types), v, w>>
    OBVIOUS
  <2>2. PICK S : S = Elems(yielded)
    OBVIOUS
  <2>3. /\ pc = "next_type" /\ pc' \in {"next_type", "compare"} /\ UNCHANGED <<rts, x>>
    BY <1>4 DEF NextType
  <2>4. /\ Lists(yielded, S) /\ S \subseteq Neighbourhood(rts, x)
        /\ \A mv \in Neighbourhood(rts, x) : mv \in S <=> ~Pending(mv)
    BY <1>1, <2>2, <2>3 DEF YieldOK, Scanning
  <2>5. \A mv \in Neighbourhood(rts, x) : Pending(mv)' <=> Pending(mv) /\ mv # o
    BY <1>1, <1>4, <2>1, OnePending
  <2>6. PICK T : T = IF o \in Neighbourhood(rts, x) THEN S \cup {o} ELSE S
    OBVIOUS
  <2>7. Lists(yielded', T)
    <3>1. CASE o \in Neighbourhood(rts, x)
      <4>1. yielded' = Append(yielded, o)
        BY <1>1, <1>4, <2>1, <3>1, NextTypeMove
      <4>2. Pending(o)
        <5>1. Head(types) \in Elems(types)
          BY <1>1, <1>4, NextTypePlace
        <5>2. o[1] = Head(types) /\ o[2] = v /\ o[3] = w
          BY <2>1
        <5> QED
          BY <2>3, <5>1, <5>2 DEF Pending, AtPair
      <4>3. o \notin S
        BY <2>4, <3>1, <4>2
      <4> QED
        BY <2>4, <2>6, <3>1, <4>1, <4>3, ListedAppend
    <3>2. CASE o \notin Neighbourhood(rts, x)
      <4>1. yielded' = yielded
        BY <1>1, <1>4, <2>1, <3>2, NextTypeMove
      <4> QED
        BY <2>4, <2>6, <3>2, <4>1
    <3> QED
      BY <3>1, <3>2
  <2>8. Elems(yielded') = T
    BY <2>7, ListedSet
  <2>9. \A mv \in Neighbourhood(rts, x) : mv \in T <=> ~Pending(mv)'
    BY <2>4, <2>5, <2>6
  <2>10. T \subseteq Neighbourhood(rts, x)
    BY <2>4, <2>6
  <2>11. \A mv \in Neighbourhood(rts', x') : mv \in Elems(yielded') <=> ~Pending(mv)'
    BY <2>3, <2>8, <2>9
  <2> QED
    BY <2>3, <2>7, <2>8, <2>10, <2>11 DEF YieldOK
<1>5. CASE Finish \/ (Compare /\ ~Scanning')
  <2>1. /\ UNCHANGED <<rts, x, yielded>> /\ pc # "choose" /\ pc' \in {"finish", "apply"}
        /\ pc' = "apply" => cancelled' = cancelled
    BY <1>5 DEF Finish, Compare, generator, Scanning
  <2>2. Lists(yielded, Elems(yielded)) /\ Elems(yielded) \subseteq Neighbourhood(rts, x)
    BY <1>1, <2>1 DEF YieldOK
  <2>3. ASSUME pc' = "apply", ~cancelled PROVE Elems(yielded) = Neighbourhood(rts, x)
    <3>1. Finish
      BY <1>5, <2>3 DEF Compare
    <3>2. pc = "next_w" /\ permutation = <<>>
      BY <1>1, <2>3, <3>1 DEF Finish, BestOK
    <3>3. \A mv \in Neighbourhood(rts, x) : ~Pending(mv)
      BY <3>2 DEF Pending, AtNode, AtPair, Elems
    <3>4. \A mv \in Neighbourhood(rts, x) : mv \in Elems(yielded)
      BY <1>1, <3>2, <3>3 DEF YieldOK, Scanning
    <3> QED
      BY <2>2, <3>4
  <2>4. pc' \in {"apply", "failed"} /\ ~cancelled' => Elems(yielded) = Neighbourhood(rts, x)
    BY <2>1, <2>3
  <2> QED
    BY <2>1, <2>2, <2>4 DEF YieldOK, Scanning
<1>6. CASE Apply
  BY <1>6 DEF Apply, YieldOK
<1>7. CASE Fail
  <2>1. pc = "apply" /\ pc' = "failed" /\ UNCHANGED <<rts, x, yielded, cancelled>>
    BY <1>7 DEF Fail, generator
  <2> QED
    BY <1>1, <2>1 DEF YieldOK, Scanning
<1>8. CASE UNCHANGED vars
  <2>1. UNCHANGED <<pc, rts, x, yielded, cancelled, permutation, w, v, vs, types>>
    BY <1>8 DEF vars, generator
  <2>2. \A mv : Pending(mv)' <=> Pending(mv)
    BY <2>1 DEF Pending, AtNode, AtPair
  <2>3. Scanning' <=> Scanning
    BY <2>1 DEF Scanning
  <2>4. ASSUME pc # "choose", Scanning
        PROVE  \A mv \in Neighbourhood(rts', x') : mv \in Elems(yielded') <=> ~Pending(mv)'
    <3>1. \A mv \in Neighbourhood(rts, x) : mv \in Elems(yielded) <=> ~Pending(mv)
      BY <1>1, <2>4 DEF YieldOK
    <3> QED
      BY <2>1, <2>2, <3>1
  <2>5. pc # "choose" =>
          /\ Lists(yielded, Elems(yielded)) /\ Elems(yielded) \subseteq Neighbourhood(rts, x)
          /\ pc \in {"apply", "failed"} /\ ~cancelled => Elems(yielded) = Neighbourhood(rts, x)
    BY <1>1 DEF YieldOK
  <2> QED
    BY <2>1, <2>3, <2>4, <2>5 DEF YieldOK
<1>9. Scanning' \/ ~(NextW \/ NextV \/ NoMoreV \/ NoMoreTypes)
  BY DEF Scanning, NextW, NextV, NoMoreV, NoMoreTypes
<1> QED
  BY <1>2, <1>3, <1>4, <1>5, <1>6, <1>7, <1>8, <1>9 DEF Next

\* A move is not yielded again.
LEMMA YieldedOnce ==
  ASSUME IInv, NextType, <<Head(types), v, w>> \in Neighbourhood(rts, x)
  PROVE  /\ <<Head(types), v, w>> \notin Elems(yielded)
         /\ Elems(Append(yielded, <<Head(types), v, w>>))
              = Elems(yielded) \cup {<<Head(types), v, w>>}
<1>1. PICK o : o = <<Head(types), v, w>>
  OBVIOUS
<1>2. pc = "next_type"
  BY DEF NextType
<1>3. /\ Lists(yielded, Elems(yielded))
      /\ \A mv \in Neighbourhood(rts, x) : mv \in Elems(yielded) <=> ~Pending(mv)
  BY <1>2 DEF IInv, YieldOK, Scanning
<1>4. Pending(o)
  <2>1. Head(types) \in Elems(types)
    BY NextTypePlace DEF IInv
  <2>2. o[1] = Head(types) /\ o[2] = v /\ o[3] = w
    BY <1>1
  <2> QED
    BY <1>2, <2>1, <2>2 DEF Pending, AtPair
<1>5. o \notin Elems(yielded)
  BY <1>1, <1>3, <1>4
<1>6. Lists(Append(yielded, o), Elems(yielded) \cup {o})
  BY <1>3, <1>5, ListedAppend
<1>7. Elems(Append(yielded, o)) = Elems(yielded) \cup {o}
  BY <1>6, ListedSet
<1> QED
  BY <1>1, <1>5, <1>7

\* The delta squeeze computes or is given is the one of the move.
LEMMA DeltaIs ==
  ASSUME IInv, pc = "compare"
  PROVE  Delta(m) = ValueIn(rts, Yielded) /\ Delta(m) \in Int
<1>1. /\ m.v = v /\ m.w = w /\ Yielded \in Elems(yielded)
      /\ v[1] # w[1] => m.tw = Unset
      /\ v[1] = w[1] => ValueIn(rts, Yielded) = beta * m.tw
  BY DEF IInv, MoveOK
<1>2. Change(m, alpha, beta) = ValueIn(rts, Yielded)
  <2>1. Yielded[1] = m.type /\ Yielded[2] = m.v /\ Yielded[3] = m.w
    BY DEF Yielded
  <2>2. Change(m, alpha, beta) = ChangeIn(rts, m.type, m.v, m.w, alpha, beta)
    BY ChangeIs
  <2> QED
    BY <2>1, <2>2 DEF ValueIn
<1>3. Delta(m) = ValueIn(rts, Yielded)
  <2>1. CASE m.tw = Unset
    BY <1>2, <2>1 DEF Delta
  <2>2. CASE m.tw # Unset
    BY <1>1, <2>2 DEF Delta
  <2> QED
    BY <2>1, <2>2
<1>4. Yielded \in Neighbourhood(rts, x) /\ rts \in Seq(Seq(Customer)) /\ x \in DOMAIN rts
  BY <1>1 DEF IInv, YieldOK, RoutesOK
<1>5. ValueIn(rts, Yielded) \in Int
  BY <1>4, ValueInt
<1> QED
  BY <1>3, <1>5

\* The better of the best so far and a move that has not been seen is the best of both.
LEMMA BetterOf ==
  ASSUME NEW rs, NEW S, NEW o, BestOf(rs, o, S), NEW mv, NEW q,
         \A u \in S : ValueIn(rs, u) \in Int, ValueIn(rs, mv) \in Int,
         \/ ValueIn(rs, mv) >= o.delta /\ q = o
         \/ /\ ValueIn(rs, mv) < o.delta /\ q.delta = ValueIn(rs, mv)
            /\ q.move.type = mv[1] /\ q.move.v = mv[2] /\ q.move.w = mv[3]
  PROVE  BestOf(rs, q, S \cup {mv})
<1>1. PICK d \in Int : d = o.delta
  BY DEF BestOf
<1>2. PICK e \in Int : e = ValueIn(rs, mv)
  OBVIOUS
<1>3. CASE e >= d /\ q = o
  BY <1>1, <1>2, <1>3 DEF BestOf
<1>4. CASE /\ e < d /\ q.delta = e
           /\ q.move.type = mv[1] /\ q.move.v = mv[2] /\ q.move.w = mv[3]
  <2>1. ASSUME NEW u \in S PROVE q.delta <= ValueIn(rs, u)
    <3>1. d <= ValueIn(rs, u) /\ ValueIn(rs, u) \in Int
      BY <1>1 DEF BestOf
    <3> QED
      BY <1>4, <3>1
  <2>2. q.delta \in Int /\ q.delta <= ValueIn(rs, mv)
    BY <1>2, <1>4
  <2> QED
    BY <1>2, <1>4, <2>1, <2>2 DEF BestOf
<1> QED
  BY <1>1, <1>2, <1>3, <1>4

\* squeeze keeps the best of the moves it has seen.
LEMMA NextBest == IInv /\ [Next]_vars => BestOK'
<1> SUFFICES ASSUME IInv, [Next]_vars PROVE BestOK'
  OBVIOUS
<1>1. RoutesOK /\ PlaceOK /\ CopyOK /\ YieldOK /\ BestOK
  BY DEF IInv
<1>2. CASE Choose
  <2>1. /\ pc' = "next_w" /\ yielded' = <<>> /\ ~cancelled'
        /\ opt' = [move |-> NoMove, delta |-> Infinity]
    BY <1>2 DEF Choose
  <2>2. opt'.delta = Infinity /\ Infinity \in Int
    BY <2>1 DEF Infinity
  <2>3. Seen' = {}
    BY <2>1 DEF Seen, Elems
  <2>4. BestOf(rts', opt', Seen')
    BY <2>2, <2>3 DEF BestOf
  <2> QED
    BY <2>1, <2>4 DEF BestOK
<1>3. CASE NextW \/ NextV \/ NoMoreV \/ NoMoreTypes
  <2>1. /\ UNCHANGED <<rts, x, yielded, opt, cancelled>> /\ pc \notin {"choose", "compare"}
        /\ Scanning /\ pc' \notin {"choose", "compare", "finish"}
    BY <1>3 DEF NextW, NextV, NoMoreV, NoMoreTypes, generator, Scanning
  <2>2. ~cancelled /\ BestOf(rts, opt, Seen)
    BY <1>1, <2>1 DEF BestOK
  <2>3. Seen' = Seen
    BY <2>1 DEF Seen
  <2>4. BestOf(rts', opt', Seen') /\ ~cancelled'
    BY <2>1, <2>2, <2>3
  <2> QED
    BY <2>1, <2>4 DEF BestOK
<1>4. CASE NextType
  <2>1. /\ pc = "next_type" /\ pc' \in {"next_type", "compare"}
        /\ UNCHANGED <<rts, x, opt, cancelled>>
    BY <1>4 DEF NextType
  <2>2. ~cancelled /\ BestOf(rts, opt, Seen) /\ Seen = Elems(yielded)
    BY <1>1, <2>1 DEF BestOK, Scanning, Seen
  <2>3. Seen' = Elems(yielded)
    <3>1. PICK o : o = <<Head(types), v, w>>
      OBVIOUS
    <3>2. CASE o \in Neighbourhood(rts, x)
      <4>1. pc' = "compare" /\ Yielded' = o /\ yielded' = Append(yielded, o)
        BY <1>1, <1>4, <3>1, <3>2, NextTypeMove
      <4>2. o \notin Elems(yielded) /\ Elems(Append(yielded, o)) = Elems(yielded) \cup {o}
        BY <1>4, <3>1, <3>2, YieldedOnce
      <4>3. Seen' = Elems(yielded') \ {Yielded'}
        BY <4>1 DEF Seen
      <4> QED
        BY <4>1, <4>2, <4>3
    <3>3. CASE o \notin Neighbourhood(rts, x)
      <4>1. pc' = "next_type" /\ yielded' = yielded
        BY <1>1, <1>4, <3>1, <3>3, NextTypeMove
      <4> QED
        BY <4>1 DEF Seen
    <3> QED
      BY <3>2, <3>3
  <2>4. BestOf(rts', opt', Seen') /\ ~cancelled'
    BY <2>1, <2>2, <2>3
  <2> QED
    BY <2>1, <2>4 DEF BestOK
<1>5. CASE Compare
  <2>1. PICK d : d = Delta(m)
    OBVIOUS
  <2>2. /\ pc = "compare" /\ pc' = IF cancelled' THEN "finish" ELSE "next_type"
        /\ opt' = IF d < opt.delta THEN [move |-> m, delta |-> d] ELSE opt
        /\ cancelled' = (d < opt.delta /\ Enough(d))
        /\ UNCHANGED <<rts, x, m, yielded>>
    BY <1>5, <2>1 DEF Compare, generator
  <2>3. d = ValueIn(rts, Yielded) /\ d \in Int
    BY <2>1, <2>2, DeltaIs
  <2>4. ~cancelled /\ BestOf(rts, opt, Seen) /\ Seen = Elems(yielded) \ {Yielded}
    BY <1>1, <2>2 DEF BestOK, Scanning, Seen
  <2>5. Yielded \in Elems(yielded) /\ Elems(yielded) \subseteq Neighbourhood(rts, x)
    BY <1>1, <2>2 DEF IInv, MoveOK, YieldOK
  <2>6. \A u \in Seen : ValueIn(rts, u) \in Int
    <3>1. rts \in Seq(Seq(Customer)) /\ x \in DOMAIN rts
      BY <1>1, <2>2 DEF RoutesOK
    <3> QED
      BY <2>4, <2>5, <3>1, ValueInt
  <2>7. opt.delta \in Int
    BY <2>4 DEF BestOf
  <2>8. \/ d >= opt.delta /\ opt' = opt
        \/ /\ d < opt.delta /\ opt'.delta = d
           /\ opt'.move.type = Yielded[1] /\ opt'.move.v = Yielded[2]
           /\ opt'.move.w = Yielded[3]
    BY <2>2, <2>3, <2>7 DEF Yielded
  <2>9. BestOf(rts, opt', Seen \cup {Yielded})
    BY <2>3, <2>4, <2>6, <2>8, BetterOf
  <2>10. Seen' = Seen \cup {Yielded}
    <3>1. Seen' = Elems(yielded)
      BY <2>2 DEF Seen
    <3> QED
      BY <2>4, <2>5, <3>1
  <2>11. BestOf(rts', opt', Seen')
    BY <2>2, <2>9, <2>10
  <2>12. cancelled' => Enough(opt.delta)'
    BY <2>2 DEF Enough
  <2> QED
    BY <2>2, <2>11, <2>12 DEF BestOK, Scanning
<1>6. CASE Finish
  <2>1. /\ pc \in {"finish", "next_w"} /\ pc' = "apply"
        /\ UNCHANGED <<rts, x, yielded, opt, cancelled>>
    BY <1>6 DEF Finish
  <2>2. BestOf(rts, opt, Seen) /\ (cancelled => Enough(opt.delta))
    BY <1>1, <2>1 DEF BestOK
  <2>3. Seen' = Seen
    BY <2>1 DEF Seen
  <2>4. BestOf(rts', opt', Seen')
    BY <2>1, <2>2, <2>3
  <2>5. cancelled' => Enough(opt.delta)'
    BY <2>1, <2>2 DEF Enough
  <2> QED
    BY <2>1, <2>4, <2>5 DEF BestOK, Scanning
<1>7. CASE Apply
  BY <1>7 DEF Apply, BestOK
<1>8. CASE Fail \/ UNCHANGED vars
  <2>1. /\ UNCHANGED <<rts, x, yielded, opt, cancelled, m>>
        /\ pc' = pc \/ (pc = "apply" /\ pc' = "failed")
    BY <1>8 DEF Fail, vars, generator
  <2>2. Seen' = Seen
    BY <2>1 DEF Seen, Yielded
  <2>3. pc # "choose" => BestOf(rts, opt, Seen) /\ (cancelled => Enough(opt.delta))
    BY <1>1 DEF BestOK
  <2>4. pc # "choose" => BestOf(rts', opt', Seen')
    BY <2>1, <2>2, <2>3
  <2>5. pc # "choose" /\ cancelled' => Enough(opt.delta)'
    BY <2>1, <2>3 DEF Enough
  <2> QED
    BY <1>1, <2>1, <2>4, <2>5 DEF BestOK, Scanning
<1> QED
  BY <1>2, <1>3, <1>4, <1>5, <1>6, <1>7, <1>8 DEF Next

-----------------------------------------------------------------------------
(***************************************************************************)
(* The invariant and what follows from it.                                 *)
(***************************************************************************)
\* Routes in which every customer is at one node hold what they carry.
LEMMA StartHolds ==
  ASSUME NEW rs \in Seq(Seq(Customer)),
         \A a, b \in CustomerNodes(rs) : rs[a[1]][a[2]] = rs[b[1]][b[2]] => a = b
  PROVE  Holds(rs, Carried(rs))
<1>1. \A y \in 1 .. Len(rs) : \A i \in 1 .. Len(rs[y]) : <<y, i>> \in CustomerNodes(rs)
  BY NodeTypes
<1>2. ASSUME NEW y \in 1 .. Len(rs), NEW z \in 1 .. Len(rs), NEW i \in 1 .. Len(rs[y]),
             NEW j \in 1 .. Len(rs[z]), rs[y][i] = rs[z][j]
      PROVE  y = z /\ i = j
  <2>1. PICK a : a = <<y, i>>
    OBVIOUS
  <2>2. PICK b : b = <<z, j>>
    OBVIOUS
  <2>3. a \in CustomerNodes(rs) /\ b \in CustomerNodes(rs)
    BY <1>1, <2>1, <2>2
  <2>4. rs[a[1]][a[2]] = rs[b[1]][b[2]]
    BY <1>2, <2>1, <2>2
  <2>5. a = b
    BY <2>3, <2>4
  <2> QED
    BY <2>1, <2>2, <2>5
<1>3. \A y \in 1 .. Len(rs) : Distinct(rs[y])
  BY <1>2 DEF Distinct
<1>4. \A y, z \in 1 .. Len(rs) : y # z => Elems(rs[y]) \cap Elems(rs[z]) = {}
  <2>1. ASSUME NEW y \in 1 .. Len(rs), NEW z \in 1 .. Len(rs), y # z,
               NEW c, c \in Elems(rs[y]), c \in Elems(rs[z])
        PROVE  FALSE
    <3>1. PICK i \in 1 .. Len(rs[y]) : rs[y][i] = c
      BY <2>1 DEF Elems
    <3>2. PICK j \in 1 .. Len(rs[z]) : rs[z][j] = c
      BY <2>1 DEF Elems
    <3> QED
      BY <1>2, <2>1, <3>1, <3>2
  <2> QED
    BY <2>1
<1>5. \A y \in 1 .. Len(rs) : Elems(rs[y]) \subseteq Carried(rs)
  BY DEF Carried
<1>6. \A c \in Carried(rs) : \E y \in 1 .. Len(rs) : c \in Elems(rs[y])
  BY DEF Carried
<1> QED
  BY <1>3, <1>4, <1>5, <1>6 DEF Holds

\* It holds at the start.
LEMMA InitIInv == Init => IInv
<1> SUFFICES ASSUME Init PROVE IInv
  OBVIOUS
<1>1. pc = "choose" /\ rts \in Starts /\ copy = NoCopy /\ objects = {} /\ region = FALSE
  BY DEF Init
<1>2. /\ rts \in Seq(Seq(Customer))
      /\ \A a, b \in CustomerNodes(rts) : rts[a[1]][a[2]] = rts[b[1]][b[2]] => a = b
  BY <1>1, ScanAssumption
<1>3. RoutesOK
  BY <1>1, <1>2, StartHolds DEF RoutesOK
<1>4. PlaceOK
  BY <1>1 DEF PlaceOK, Scanning, AtNode, AtPair
<1>5. CopyOK
  <2>1. copy.number = 0
    BY <1>1 DEF NoCopy
  <2>2. objects = {"route", "customer"} \X ({copy.number} \ {0})
    BY <1>1, <2>1
  <2> QED
    BY <1>1, <2>1, <2>2 DEF CopyOK, AtNode
<1>6. MoveOK /\ YieldOK /\ BestOK
  BY <1>1 DEF MoveOK, YieldOK, BestOK
<1> QED
  BY <1>3, <1>4, <1>5, <1>6 DEF IInv

\* The inductive invariant holds.
THEOREM Invariant == Spec => []IInv
<1>1. IInv /\ [Next]_vars => IInv'
  BY NextRoutes, NextPlace, NextCopy, NextMove, NextYield, NextBest DEF IInv
<1> QED
  BY InitIInv, <1>1, PTL DEF Spec

\* CopySound, for any routes: one copy of the route exists at a time, no lookup finds an
\* object of an earlier copy (solution.cc, out_relocate_current), and the lateness prepared on
\* the copy is the one the move adds.
THEOREM CopyStaysSound == Spec => []CopySound
<1>1. IInv => CopySound
  <2> SUFFICES ASSUME IInv PROVE CopySound
    OBVIOUS
  <2>1. RoutesOK /\ PlaceOK /\ CopyOK
    BY DEF IInv
  <2>2. objects = {"route", "customer"} \X ({copy.number} \ {0})
    BY <2>1 DEF CopyOK
  <2>3. ASSUME pc \in {"choose", "apply", "failed"} PROVE objects = {} /\ ~region
    <3>1. copy.number = 0 /\ ~region
      BY <2>1, <2>3 DEF CopyOK
    <3> QED
      BY <2>2, <3>1
  <2>4. ASSUME pc = "compare", m.tw # Unset
        PROVE  /\ id_to_customer[rts[m.v[1]][m.v[2]]] = copy.number
               /\ copy.w = rts[m.w[1]][m.w[2]]
               /\ m.tw = Change(m, 0, 1)
               /\ Change(m, 1, 0) = 0
    <3>1. /\ m.v = v /\ m.w = w /\ v[1] = w[1] /\ ~IsDepot(rts, v) /\ ~IsDepot(rts, w)
          /\ m.tw = ChangeIn(rts, m.type, v, w, 0, 1)
          /\ ChangeIn(rts, m.type, v, w, 1, 0) = 0
      BY <2>4 DEF IInv, MoveOK
    <3>2. m.tw = Change(m, 0, 1) /\ Change(m, 1, 0) = 0
      BY <3>1, ChangeIs
    <3>3. /\ w \in RouteNodes(rts, x) /\ v \in Candidates(rts, x, w)
          /\ rts \in Seq(Seq(Customer)) /\ x \in DOMAIN rts
      BY <2>1, <2>4 DEF PlaceOK, RoutesOK, AtNode, AtPair
    <3>4. w[1] = x /\ v \in Nodes(rts)
      BY <3>3, CandidateNodes
    <3>5. v \in CustomerNodes(rts)
      BY <3>1, <3>3, <3>4, NodeKinds
    <3>6. v[2] \in 1 .. Len(rts[v[1]])
      BY <3>3, <3>5, NodeTypes
    <3>7. rts[v[1]][v[2]] \in Elems(rts[x])
      BY <3>1, <3>4, <3>6 DEF Elems
    <3>8. /\ \A c \in Elems(rts[x]) : id_to_customer[c] = copy.number
          /\ copy.w = rts[x][w[2]]
      BY <2>1, <2>4, <3>1 DEF CopyOK, AtNode
    <3> QED
      BY <3>1, <3>2, <3>4, <3>7, <3>8
  <2> QED
    BY <2>2, <2>3, <2>4 DEF CopySound
<1> QED
  BY <1>1, Invariant, PTL

\* YieldsNeighbourhood, for any routes: a scan yields every move of the neighbourhood once, or
\* it was cancelled (solution_modification_neighbourhood_f).
THEOREM ScanYields == Spec => []YieldsNeighbourhood
<1>1. IInv => YieldsNeighbourhood
  <2> SUFFICES ASSUME IInv, pc # "choose"
               PROVE  /\ ToSet(yielded) \subseteq Neighbourhood(rts, x)
                      /\ IsInjective(yielded)
                      /\ pc \in {"apply", "failed"} /\ ~cancelled =>
                           ToSet(yielded) = Neighbourhood(rts, x)
    BY DEF YieldsNeighbourhood
  <2>1. /\ Lists(yielded, Elems(yielded)) /\ Elems(yielded) \subseteq Neighbourhood(rts, x)
        /\ pc \in {"apply", "failed"} /\ ~cancelled => Elems(yielded) = Neighbourhood(rts, x)
    BY DEF IInv, YieldOK
  <2>2. ToSet(yielded) = Elems(yielded) /\ IsInjective(yielded)
    BY <2>1, ListedSet
  <2> QED
    BY <2>1, <2>2
<1> QED
  BY <1>1, Invariant, PTL

\* AppliesOptimalMove, for any routes and weights: what is applied is a best move or one that
\* takes the penalty away, and squeeze fails on a route with a penalty only when no move
\* improves (eama_solver.c, squeeze).
THEOREM ScanApplies == Spec => AppliesOptimalMove
<1> DEFINE delta(o) == Change([type |-> o[1], v |-> o[2], w |-> o[3]], alpha, beta)
           applies ==
             rts' # rts =>
               \E mv \in Neighbourhood(rts, x) :
                 /\ rts' = modification_apply(rts, mv[1], mv[2], mv[3])
                 /\ delta(mv) <= -(EPS5 * alpha)
                 /\ \/ delta(mv) <= EPS5 * alpha - Penalty(rts[x])
                    \/ \A o \in Neighbourhood(rts, x) : delta(mv) <= delta(o)
           fails ==
             pc' = "failed" /\ pc # "failed" /\ Penalty(rts[x]) >= 2 * EPS5 * alpha =>
               \A o \in Neighbourhood(rts, x) : delta(o) > -(EPS5 * alpha)
<1>1. \A o : delta(o) = ValueIn(rts, o)
  BY ChangeIs DEF ValueIn
<1>2. IInv /\ [Next]_vars => applies
  <2> SUFFICES ASSUME IInv, [Next]_vars, rts' # rts
               PROVE  \E mv \in Neighbourhood(rts, x) :
                        /\ rts' = modification_apply(rts, mv[1], mv[2], mv[3])
                        /\ delta(mv) <= -(EPS5 * alpha)
                        /\ \/ delta(mv) <= EPS5 * alpha - Penalty(rts[x])
                           \/ \A o \in Neighbourhood(rts, x) : delta(mv) <= delta(o)
    OBVIOUS
  <2>1. Apply
    BY DEF Next, Choose, NextW, NextV, NoMoreV, NextType, NoMoreTypes, Finish, Compare, Fail,
           vars
  <2>2. /\ pc = "apply" /\ opt.delta <= -(EPS5 * alpha)
        /\ rts' = modification_apply(rts, opt.move.type, opt.move.v, opt.move.w)
    BY <2>1 DEF Apply
  <2>3. RoutesOK /\ YieldOK /\ BestOK
    BY DEF IInv
  <2>4. PICK mv \in Neighbourhood(rts, x) :
          /\ opt.delta = ValueIn(rts, mv)
          /\ modification_apply(rts, opt.move.type, opt.move.v, opt.move.w) =
               modification_apply(rts, mv[1], mv[2], mv[3])
    BY <2>2, <2>3, BestApplied
  <2>5. delta(mv) = opt.delta
    BY <1>1, <2>4
  <2>6. CASE cancelled
    <3>1. opt.delta <= EPS5 * alpha - Penalty(rts[x])
      BY <2>2, <2>3, <2>6 DEF BestOK, Enough
    <3> QED
      BY <2>2, <2>4, <2>5, <3>1
  <2>7. CASE ~cancelled
    <3>1. Elems(yielded) = Neighbourhood(rts, x)
      BY <2>2, <2>3, <2>7 DEF YieldOK
    <3>2. BestOf(rts, opt, Elems(yielded))
      BY <2>2, <2>3 DEF BestOK, Seen
    <3>3. \A o \in Neighbourhood(rts, x) : opt.delta <= ValueIn(rts, o)
      BY <3>1, <3>2 DEF BestOf
    <3>4. \A o \in Neighbourhood(rts, x) : delta(mv) <= delta(o)
      BY <1>1, <2>5, <3>3
    <3> QED
      BY <2>2, <2>4, <2>5, <3>4
  <2> QED
    BY <2>6, <2>7
<1>3. IInv /\ [Next]_vars => fails
  <2> SUFFICES ASSUME IInv, [Next]_vars, pc' = "failed", pc # "failed",
                      Penalty(rts[x]) >= 2 * EPS5 * alpha,
                      NEW o \in Neighbourhood(rts, x)
               PROVE  delta(o) > -(EPS5 * alpha)
    OBVIOUS
  <2>1. Fail
    BY DEF Next, Choose, NextW, NextV, NoMoreV, NextType, NoMoreTypes, Finish, Compare, Apply,
           vars
  <2>2. pc = "apply" /\ opt.delta > -(EPS5 * alpha)
    BY <2>1 DEF Fail
  <2>3. RoutesOK /\ YieldOK /\ BestOK
    BY DEF IInv
  <2>4. /\ BestOf(rts, opt, Elems(yielded))
        /\ cancelled => opt.delta <= EPS5 * alpha - Penalty(rts[x])
    BY <2>2, <2>3 DEF BestOK, Seen, Enough
  <2>5. /\ rts \in Seq(Seq(Customer)) /\ x \in DOMAIN rts
    BY <2>2, <2>3 DEF RoutesOK
  <2>6. PICK p \in Int : p = Penalty(rts[x])
    <3>1. RouteOf(Problem, rts[x])
      BY <2>5, InstanceAssumption DEF RouteOf, Customer
    <3>2. CPenalty(Problem, rts[x]) \in Int /\ TwPenalty(Problem, rts[x]) \in Int
      BY <3>1, PenaltyTypes
    <3>3. alpha \in Int /\ beta \in Int
      BY Weights
    <3> QED
      BY <3>2, <3>3 DEF Penalty, route_penalty
  <2>7. PICK d \in Int : d = opt.delta
    BY <2>4 DEF BestOf
  <2>8. PICK e \in Nat : e = EPS5 * alpha /\ 2 * EPS5 * alpha = 2 * e
    BY Weights
  <2>9. ~cancelled
    <3>1. p >= 2 * e /\ d > -e /\ (cancelled => d <= e - p)
      BY <2>2, <2>4, <2>6, <2>7, <2>8
    <3> QED
      BY <3>1
  <2>10. Elems(yielded) = Neighbourhood(rts, x)
    BY <2>2, <2>3, <2>9 DEF YieldOK
  <2>11. d <= ValueIn(rts, o) /\ ValueIn(rts, o) \in Int
    BY <2>4, <2>5, <2>7, <2>10, ValueInt DEF BestOf
  <2>12. ValueIn(rts, o) > -e
    BY <2>2, <2>7, <2>8, <2>11
  <2> QED
    BY <1>1, <2>8, <2>12
<1> QED
  BY <1>2, <1>3, Invariant, PTL DEF Spec, AppliesOptimalMove
=============================================================================
