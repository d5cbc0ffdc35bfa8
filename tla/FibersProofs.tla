----------------------------- MODULE FibersProofs -----------------------------
(***************************************************************************)
(* The invariants of Fibers, however many fibers, stacks and errors there  *)
(* are.                                                                    *)
(*                                                                         *)
(* First what the operations of Diag do to references and links.  The      *)
(* references of an error are the ones somebody holds, held, and one more  *)
(* for its effect; links are inverse to each other and lead nowhere in a   *)
(* circle.  All of this is preserved, whatever chain of causes an          *)
(* operation frees.  Then the fibers themselves.                           *)
(***************************************************************************)
EXTENDS Fibers, FiniteSetTheorems, SequenceTheorems, TLAPS

\* Sets of natural numbers have least elements.
LEMMA LeastElement ==
  ASSUME NEW T, T \subseteq Nat, T # {}
  PROVE  \E x \in T : \A y \in T : x <= y
<1>1. PICK x \in T : \A y \in T : <<y, x>> \notin OpToRel(<, Nat)
  BY NatLessThanWellFounded, WFMin
<1>2. \A y \in T : ~(y < x)
  BY <1>1 DEF OpToRel
<1> QED
  BY <1>2

\* Induction on the steps along a chain.
LEMMA UpTo ==
  ASSUME NEW n \in Nat, NEW T, 0 \in T, \A k \in 1 .. n : k - 1 \in T => k \in T
  PROVE  0 .. n \subseteq T
<1> DEFINE missing == (0 .. n) \ T
<1>1. ASSUME missing # {} PROVE FALSE
  <2>1. PICK k \in missing : \A j \in missing : k <= j
    <3>1. missing \subseteq Nat
      OBVIOUS
    <3> HIDE DEF missing
    <3> QED
      BY <1>1, <3>1, LeastElement
  <2>2. k \in 1 .. n /\ k - 1 \in 0 .. n /\ ~(k <= k - 1)
    BY <2>1
  <2> QED
    BY <2>1, <2>2
<1> QED
  BY <1>1

\* Links to errors, and what a chain visits after a.
Link == Errors \cup {NoError}
After(c, a) == IF a = NoError THEN NoError ELSE c[a]

\* ch follows the causes c from x for n steps.
Follows(ch, c, x, n) ==
  /\ ch \in [0 .. n -> Link]
  /\ ch[0] = x
  /\ \A i \in 1 .. n : ch[i] = After(c, ch[i - 1])

\* Chains exist.
LEMMA ChainExists ==
  ASSUME NEW n \in Nat, NEW c \in [Errors -> Link], NEW x \in Link
  PROVE  \E ch : Follows(ch, c, x, n)
<1> DEFINE T == {k \in 0 .. n : \E ch : Follows(ch, c, x, k)}
<1>1. 0 \in T
  <2>1. PICK ch : ch = [i \in 0 .. 0 |-> x]
    OBVIOUS
  <2>2. Follows(ch, c, x, 0)
    BY <2>1 DEF Follows
  <2> QED
    BY <2>2
<1>2. ASSUME NEW k \in 1 .. n, k - 1 \in T PROVE k \in T
  <2>1. PICK g : Follows(g, c, x, k - 1)
    BY <1>2
  <2>2. k - 1 \in 0 .. k - 1 /\ g[k - 1] \in Link
    BY <2>1 DEF Follows
  <2>3. PICK next : next = After(c, g[k - 1])
    OBVIOUS
  <2>4. next \in Link
    BY <2>2, <2>3 DEF After, Link
  <2>5. PICK ch : ch = [i \in 0 .. k |-> IF i = k THEN next ELSE g[i]]
    OBVIOUS
  <2>6. \A i \in 0 .. k : i # k => i \in 0 .. k - 1
    OBVIOUS
  <2>7. ch \in [0 .. k -> Link] /\ ch[0] = x
    BY <2>1, <2>4, <2>5, <2>6 DEF Follows
  <2>8. ASSUME NEW i \in 1 .. k PROVE ch[i] = After(c, ch[i - 1])
    <3>1. i - 1 \in 0 .. k /\ i - 1 # k /\ i \in 0 .. k
      OBVIOUS
    <3>2. ch[i - 1] = g[i - 1]
      BY <2>5, <3>1
    <3>3. CASE i = k
      BY <2>3, <2>5, <3>1, <3>2, <3>3
    <3>4. CASE i # k
      <4>1. i \in 1 .. k - 1
        BY <3>4
      <4>2. ch[i] = g[i]
        BY <2>5, <3>1, <3>4
      <4> QED
        BY <2>1, <3>2, <4>1, <4>2 DEF Follows
    <3> QED
      BY <3>3, <3>4
  <2>9. Follows(ch, c, x, k)
    BY <2>7, <2>8 DEF Follows
  <2> QED
    BY <2>9
<1>3. 0 .. n \subseteq T
  <2> HIDE DEF T
  <2> QED
    BY <1>1, <1>2, UpTo
<1> QED
  BY <1>3

\* The number of errors.
LEMMA ErrorsCounted == Cardinality(Errors) \in Nat /\ IsFiniteSet(Errors) /\ NoError \notin Errors
  BY DiagAssumption, FS_CardinalityType

\* Chain is such a chain.
LEMMA ChainFollows ==
  ASSUME NEW h, h.cause \in [Errors -> Link], NEW x \in Link
  PROVE  Follows(Chain(h, x), h.cause, x, Cardinality(Errors))
<1>1. PICK n \in Nat : n = Cardinality(Errors)
  BY ErrorsCounted
<1> DEFINE is(c) == c = [k \in 0 .. n |-> IF k = 0 THEN x
                                          ELSE IF c[k - 1] = NoError THEN NoError
                                               ELSE h.cause[c[k - 1]]]
<1>2. Chain(h, x) = CHOOSE c : is(c)
  BY <1>1 DEF Chain
<1>3. PICK ch : Follows(ch, h.cause, x, n)
  BY ChainExists
<1>4. is(ch)
  <2>1. \A k \in 0 .. n : k = 0 \/ k \in 1 .. n
    OBVIOUS
  <2>2. ASSUME NEW k \in 0 .. n
        PROVE  ch[k] = IF k = 0 THEN x ELSE IF ch[k - 1] = NoError THEN NoError
                                            ELSE h.cause[ch[k - 1]]
    BY <1>3, <2>1 DEF Follows, After
  <2>3. ch = [k \in 0 .. n |-> ch[k]]
    BY <1>3 DEF Follows
  <2> QED
    BY <2>2, <2>3
<1>5. is(Chain(h, x))
  <2> HIDE DEF is
  <2> QED
    BY <1>2, <1>4
<1>6. PICK c : c = Chain(h, x)
  OBVIOUS
<1>7. c = [k \in 0 .. n |-> IF k = 0 THEN x ELSE IF c[k - 1] = NoError THEN NoError
                                            ELSE h.cause[c[k - 1]]]
  BY <1>5, <1>6
<1>8. \A i \in 1 .. n : c[i] = After(h.cause, c[i - 1])
  <2>1. \A i \in 1 .. n : i \in 0 .. n /\ i # 0
    OBVIOUS
  <2> QED
    BY <1>7, <2>1 DEF After
<1>9. c[0] = x
  BY <1>7
<1> DEFINE T == {i \in 0 .. n : c[i] \in Link}
<1>10. 0 .. n \subseteq T
  <2>1. 0 \in T
    BY <1>9
  <2>2. ASSUME NEW k \in 1 .. n, k - 1 \in T PROVE k \in T
    BY <1>8, <2>2 DEF After, Link
  <2> HIDE DEF T
  <2> QED
    BY <2>1, <2>2, UpTo
<1>11. c \in [0 .. n -> Link]
  BY <1>7, <1>10
<1> QED
  BY <1>1, <1>6, <1>8, <1>9, <1>11 DEF Follows
-----------------------------------------------------------------------------
(***************************************************************************)
(* The counts r, causes c and effects f of errors, of which held counts    *)
(* the references that are not links.                                      *)
(***************************************************************************)
Inverse2(c, f) ==
  /\ \A x \in Errors : c[x] # NoError => f[c[x]] = x
  /\ \A x \in Errors : f[x] # NoError => c[f[x]] = x

\* No set of errors is closed under their causes: there is no cycle.
Acyclic(c) == \A S \in SUBSET Errors : S # {} => \E x \in S : c[x] \notin S

Typed(r, c, f, held) ==
  /\ r \in [Errors -> Nat] /\ held \in [Errors -> Nat]
  /\ c \in [Errors -> Link] /\ f \in [Errors -> Link]

Sound(r, c, f, held) ==
  /\ Typed(r, c, f, held)
  /\ Inverse2(c, f)
  /\ \A x \in Errors : r[x] = 0 => c[x] = NoError /\ f[x] = NoError
  /\ Acyclic(c)
  /\ \A x \in Errors : r[x] = held[x] + (IF f[x] # NoError THEN 1 ELSE 0)

\* What follows NoError on a chain.
LEMMA ChainStaysOut ==
  ASSUME NEW n \in Nat, NEW c, NEW x, NEW ch, Follows(ch, c, x, n),
         NEW k \in 0 .. n, ch[k] = NoError, NEW j \in k .. n
  PROVE  ch[j] = NoError
<1> DEFINE T == {i \in 0 .. n : i >= k => ch[i] = NoError}
<1>1. 0 \in T
  OBVIOUS
<1>2. ASSUME NEW i \in 1 .. n, i - 1 \in T PROVE i \in T
  <2>1. CASE i <= k
    BY <2>1
  <2>2. CASE i > k
    <3>1. i - 1 >= k /\ ch[i - 1] = NoError
      BY <1>2, <2>2
    <3> QED
      BY <3>1 DEF Follows, After
  <2> QED
    BY <2>1, <2>2
<1>3. 0 .. n \subseteq T
  <2> HIDE DEF T
  <2> QED
    BY <1>1, <1>2, UpTo
<1> QED
  BY <1>3

\* Without a cycle a chain does not come back to an error.
LEMMA ChainDistinct ==
  ASSUME NEW n \in Nat, NEW c \in [Errors -> Link], Acyclic(c), NEW x, NEW ch, Follows(ch, c, x, n),
         NEW i \in 0 .. n, NEW j \in 0 .. n, i < j, ch[i] = ch[j]
  PROVE  ch[i] = NoError
<1> SUFFICES ASSUME ch[i] # NoError PROVE FALSE
  OBVIOUS
<1> DEFINE S == {ch[k] : k \in i .. j - 1}
<1>1. \A k \in i .. j : k \in 0 .. n /\ ch[k] # NoError
  <2>1. ASSUME NEW k \in i .. j, ch[k] = NoError PROVE FALSE
    <3>1. k \in 0 .. n /\ j \in k .. n
      OBVIOUS
    <3>2. ch[j] = NoError
      BY <2>1, <3>1, ChainStaysOut
    <3> QED
      BY <3>2
  <2> QED
    BY <2>1
<1>2. \A k \in i .. j : ch[k] \in Errors
  BY <1>1 DEF Follows, Link
<1>3. S \in SUBSET Errors /\ S # {}
  <2>1. i \in i .. j - 1 /\ \A k \in i .. j - 1 : k \in i .. j
    OBVIOUS
  <2> QED
    BY <1>2, <2>1
<1>4. PICK y \in S : c[y] \notin S
  BY <1>3 DEF Acyclic
<1>5. PICK k \in i .. j - 1 : y = ch[k]
  BY <1>4
<1>6. k + 1 \in 1 .. n /\ k + 1 - 1 = k /\ k \in i .. j
  OBVIOUS
<1>7. ch[k + 1] = c[y]
  BY <1>1, <1>5, <1>6 DEF Follows, After
<1>8. CASE k + 1 = j
  <2>1. i \in i .. j - 1 /\ ch[i] = c[y]
    BY <1>7, <1>8
  <2> QED
    BY <1>4, <2>1
<1>9. CASE k + 1 # j
  <2>1. k + 1 \in i .. j - 1
    BY <1>9
  <2> QED
    BY <1>4, <1>7, <2>1
<1> QED
  BY <1>8, <1>9

\* Without a cycle a chain has ended after as many steps as there are errors.
LEMMA ChainEnds ==
  ASSUME NEW c \in [Errors -> Link], Acyclic(c), NEW x, NEW ch, NEW n \in Nat, n = Cardinality(Errors),
         Follows(ch, c, x, n)
  PROVE  ch[n] = NoError
<1> SUFFICES ASSUME ch[n] # NoError PROVE FALSE
  OBVIOUS
<1>1. ASSUME NEW k \in 0 .. n PROVE ch[k] # NoError
  <2> SUFFICES ASSUME ch[k] = NoError PROVE FALSE
    OBVIOUS
  <2>1. n \in k .. n
    OBVIOUS
  <2>2. ch[n] = NoError
    BY <2>1, ChainStaysOut
  <2> QED
    BY <2>2
<1>2. ch \in [0 .. n -> Errors]
  BY <1>1 DEF Follows, Link
<1>3. IsFiniteSet(0 .. n) /\ Cardinality(0 .. n) = n + 1
  BY FS_Interval
<1>4. Cardinality(Errors) < Cardinality(0 .. n)
  BY <1>3
<1>5. PICK i \in 0 .. n, j \in 0 .. n : i # j /\ ch[i] = ch[j]
  BY <1>2, <1>3, <1>4, ErrorsCounted, FS_PigeonHole
<1>6. i < j \/ j < i
  BY <1>5
<1> QED
  BY <1>1, <1>5, <1>6, ChainDistinct

\* What error_unref destroys: x if that was its last reference, with the
\* causes that have no other.
Falling(r, c, f, x, gone) ==
  /\ gone \subseteq Errors
  /\ \A y \in gone : r[y] = 1
  /\ x \in gone <=> r[x] = 1
  /\ \A y \in gone : y # x => f[y] \in gone
  /\ \A y \in gone : c[y] # NoError /\ r[c[y]] = 1 => c[y] \in gone
  /\ r[x] # 1 => gone = {}

\* The chain falls up to its k-th error.
Falls(r, ch, k) == \A m \in 0 .. k : ch[m] # NoError /\ r[ch[m]] = 1

\* Destroyed, by the chain of x.
LEMMA DestroyedIs ==
  ASSUME NEW h, h.cause \in [Errors -> Link], NEW x \in Link
  PROVE  Destroyed(h, x) = {Chain(h, x)[k] : k \in {m \in 0 .. Cardinality(Errors) :
                                                       Falls(h.refs, Chain(h, x), m)}}
<1>1. PICK ch : ch = Chain(h, x)
  OBVIOUS
<1>2. Follows(ch, h.cause, x, Cardinality(Errors))
  BY <1>1, ChainFollows
<1>3. DOMAIN ch = 0 .. Cardinality(Errors)
  BY <1>2 DEF Follows
<1> QED
  BY <1>1, <1>3 DEF Destroyed, Falls

\* Destroyed is what falls: the search along causes misses none.
LEMMA DestroyedFalling ==
  ASSUME NEW h, NEW held, Sound(h.refs, h.cause, h.effect, held), NEW x \in Errors
  PROVE  Falling(h.refs, h.cause, h.effect, x, Destroyed(h, x))
<1>1. PICK n \in Nat : n = Cardinality(Errors)
  BY ErrorsCounted
<1>2. PICK r, c, f : r = h.refs /\ c = h.cause /\ f = h.effect
  OBVIOUS
<1>3. /\ c \in [Errors -> Link] /\ Inverse2(c, f) /\ Acyclic(c)
  BY <1>2 DEF Sound, Typed
<1>4. PICK ch : ch = Chain(h, x)
  OBVIOUS
<1>5. Follows(ch, c, x, n)
  BY <1>1, <1>2, <1>3, <1>4, ChainFollows DEF Link
<1>6. PICK gone : gone = {ch[k] : k \in {m \in 0 .. n : Falls(r, ch, m)}}
  OBVIOUS
<1>7. Destroyed(h, x) = gone
  BY <1>1, <1>2, <1>3, <1>4, <1>6, DestroyedIs DEF Link
<1>8. \A y \in gone : \E k \in 0 .. n : y = ch[k] /\ Falls(r, ch, k) /\ y \in Errors /\ r[y] = 1
  <2>1. ASSUME NEW k \in 0 .. n, Falls(r, ch, k) PROVE ch[k] \in Errors /\ r[ch[k]] = 1
    <3>1. k \in 0 .. k
      OBVIOUS
    <3> QED
      BY <1>5, <2>1, <3>1 DEF Follows, Link, Falls
  <2> QED
    BY <1>6, <2>1
<1>9. x \in gone <=> r[x] = 1
  <2>1. ASSUME r[x] = 1 PROVE x \in gone
    <3>1. 0 \in 0 .. n /\ ch[0] = x /\ x # NoError
      BY <1>5, ErrorsCounted DEF Follows
    <3>2. Falls(r, ch, 0)
      BY <2>1, <3>1 DEF Falls
    <3> QED
      BY <1>6, <3>1, <3>2
  <2> QED
    BY <1>8, <2>1
<1>10. ASSUME r[x] # 1 PROVE gone = {}
  <2>1. ASSUME NEW k \in 0 .. n, Falls(r, ch, k) PROVE FALSE
    <3>1. 0 \in 0 .. k /\ ch[0] = x
      BY <1>5 DEF Follows
    <3> QED
      BY <1>10, <2>1, <3>1 DEF Falls
  <2> QED
    BY <1>6, <2>1
<1>11. ASSUME NEW y \in gone, y # x PROVE f[y] \in gone
  <2>1. PICK k \in 0 .. n : y = ch[k] /\ Falls(r, ch, k) /\ y \in Errors
    BY <1>8
  <2>2. k # 0
    BY <1>5, <1>11, <2>1 DEF Follows
  <2>3. k \in 1 .. n /\ k - 1 \in 0 .. n /\ k - 1 \in 0 .. k /\ \A m \in 0 .. k - 1 : m \in 0 .. k
    BY <2>2
  <2>4. ch[k] = After(c, ch[k - 1]) /\ ch[k - 1] # NoError /\ Falls(r, ch, k - 1)
    BY <1>5, <2>1, <2>3 DEF Follows, Falls
  <2>5. ch[k - 1] \in Errors /\ ch[k - 1] \in gone
    BY <1>5, <1>6, <2>3, <2>4 DEF Follows, Link
  <2>6. c[ch[k - 1]] = y /\ y # NoError
    BY <2>1, <2>4, ErrorsCounted DEF After
  <2>7. f[y] = ch[k - 1]
    BY <1>3, <2>5, <2>6 DEF Inverse2
  <2> QED
    BY <2>5, <2>7
<1>12. ASSUME NEW y \in gone, c[y] # NoError, r[c[y]] = 1 PROVE c[y] \in gone
  <2>1. PICK k \in 0 .. n : y = ch[k] /\ Falls(r, ch, k) /\ y \in Errors
    BY <1>8
  <2>2. y # NoError /\ ch[n] = NoError
    BY <1>1, <1>3, <1>5, <2>1, ErrorsCounted, ChainEnds
  <2>3. k + 1 \in 1 .. n /\ k + 1 - 1 = k /\ k + 1 \in 0 .. n
    BY <2>1, <2>2
  <2>4. ch[k + 1] = c[y]
    BY <1>5, <2>1, <2>2, <2>3 DEF Follows, After
  <2>5. Falls(r, ch, k + 1)
    <3>1. \A m \in 0 .. k + 1 : m \in 0 .. k \/ m = k + 1
      OBVIOUS
    <3> QED
      BY <1>12, <2>1, <2>4, <3>1 DEF Falls
  <2> QED
    BY <1>6, <2>3, <2>4, <2>5
<1>13. Falling(r, c, f, x, gone)
  BY <1>8, <1>9, <1>10, <1>11, <1>12 DEF Falling
<1> QED
  BY <1>2, <1>7, <1>13

\* No error is a remote cause of its own.
LEMMA NoOwnCause ==
  ASSUME NEW h, h.cause \in [Errors -> Link], Acyclic(h.cause), NEW x \in Errors
  PROVE  x \notin Causes(h, x)
<1>1. PICK n \in Nat : n = Cardinality(Errors)
  BY ErrorsCounted
<1>2. PICK ch : ch = Chain(h, x)
  OBVIOUS
<1>3. Follows(ch, h.cause, x, n)
  BY <1>1, <1>2, ChainFollows DEF Link
<1> SUFFICES ASSUME x \in Causes(h, x) PROVE FALSE
  OBVIOUS
<1>4. PICK k \in DOMAIN ch \ {0} : ch[k] = x
  BY <1>2 DEF Causes
<1>5. k \in 0 .. n /\ 0 \in 0 .. n /\ 0 < k /\ ch[0] = ch[k]
  BY <1>3, <1>4 DEF Follows
<1>6. ch[0] = NoError
  BY <1>3, <1>5, ChainDistinct
<1> QED
  BY <1>3, <1>6, ErrorsCounted DEF Follows
-----------------------------------------------------------------------------
(***************************************************************************)
(* What the operations on errors do to the counts and the links.           *)
(***************************************************************************)
\* Fewer causes make no cycle.
LEMMA AcyclicFewer ==
  ASSUME NEW c, Acyclic(c), NEW d, \A x \in Errors : d[x] = c[x] \/ d[x] = NoError
  PROVE  Acyclic(d)
<1> SUFFICES ASSUME NEW S \in SUBSET Errors, S # {} PROVE \E x \in S : d[x] \notin S
  BY DEF Acyclic
<1>1. PICK x \in S : c[x] \notin S
  BY DEF Acyclic
<1>2. NoError \notin S
  BY ErrorsCounted
<1> QED
  BY <1>1, <1>2

\* error_ref.
LEMMA RefSound ==
  ASSUME NEW r, NEW c, NEW f, NEW held, Sound(r, c, f, held), NEW x \in Errors
  PROVE  Sound([r EXCEPT ![x] = @ + 1], c, f, [held EXCEPT ![x] = @ + 1])
<1>1. PICK q, g : q = [r EXCEPT ![x] = @ + 1] /\ g = [held EXCEPT ![x] = @ + 1]
  OBVIOUS
<1>2. r \in [Errors -> Nat] /\ held \in [Errors -> Nat]
  BY DEF Sound, Typed
<1>3. /\ q \in [Errors -> Nat] /\ g \in [Errors -> Nat]
      /\ \A y \in Errors : /\ q[y] = IF y = x THEN r[y] + 1 ELSE r[y]
                           /\ g[y] = IF y = x THEN held[y] + 1 ELSE held[y]
  BY <1>1, <1>2
<1>4. Typed(q, c, f, g)
  BY <1>3 DEF Sound, Typed
<1>5. \A y \in Errors : q[y] = 0 => c[y] = NoError /\ f[y] = NoError
  BY <1>2, <1>3 DEF Sound
<1>6. \A y \in Errors : q[y] = g[y] + (IF f[y] # NoError THEN 1 ELSE 0)
  BY <1>2, <1>3 DEF Sound
<1> QED
  BY <1>1, <1>4, <1>5, <1>6 DEF Sound

\* A link is cut, and its reference kept by whoever cuts it.
LEMMA CutSound ==
  ASSUME NEW r, NEW c, NEW f, NEW held, Sound(r, c, f, held), NEW x \in Errors, f[x] # NoError
  PROVE  Sound(r, [c EXCEPT ![f[x]] = NoError], [f EXCEPT ![x] = NoError], [held EXCEPT ![x] = @ + 1])
<1>1. PICK d, k, g : /\ d = [c EXCEPT ![f[x]] = NoError] /\ k = [f EXCEPT ![x] = NoError]
                     /\ g = [held EXCEPT ![x] = @ + 1]
  OBVIOUS
<1>2. /\ r \in [Errors -> Nat] /\ held \in [Errors -> Nat]
      /\ c \in [Errors -> Link] /\ f \in [Errors -> Link]
  BY DEF Sound, Typed
<1>3. PICK y \in Errors : y = f[x] /\ c[y] = x
  <2>1. f[x] \in Errors
    BY <1>2 DEF Link
  <2> QED
    BY <2>1 DEF Sound, Inverse2
<1>4. /\ d \in [Errors -> Link] /\ k \in [Errors -> Link] /\ g \in [Errors -> Nat]
      /\ \A z \in Errors : /\ d[z] = IF z = y THEN NoError ELSE c[z]
                           /\ k[z] = IF z = x THEN NoError ELSE f[z]
                           /\ g[z] = IF z = x THEN held[z] + 1 ELSE held[z]
  BY <1>1, <1>2, <1>3 DEF Link
<1>5. Typed(r, d, k, g)
  BY <1>2, <1>4 DEF Typed
<1>6. Inverse2(d, k)
  <2>1. ASSUME NEW z \in Errors, d[z] # NoError PROVE k[d[z]] = z
    <3>1. z # y /\ d[z] = c[z] /\ c[z] \in Errors /\ f[c[z]] = z
      BY <1>2, <1>4, <2>1 DEF Sound, Inverse2, Link
    <3>2. c[z] # x
      BY <1>3, <3>1
    <3> QED
      BY <1>4, <3>1, <3>2
  <2>2. ASSUME NEW z \in Errors, k[z] # NoError PROVE d[k[z]] = z
    <3>1. z # x /\ k[z] = f[z] /\ f[z] \in Errors /\ c[f[z]] = z
      BY <1>2, <1>4, <2>2 DEF Sound, Inverse2, Link
    <3>2. f[z] # y
      BY <1>3, <3>1
    <3> QED
      BY <1>4, <3>1, <3>2
  <2> QED
    BY <2>1, <2>2 DEF Inverse2
<1>7. \A z \in Errors : r[z] = 0 => d[z] = NoError /\ k[z] = NoError
  BY <1>4 DEF Sound
<1>8. Acyclic(d)
  BY <1>4, AcyclicFewer DEF Sound
<1>9. \A z \in Errors : r[z] = g[z] + (IF k[z] # NoError THEN 1 ELSE 0)
  BY <1>2, <1>4 DEF Sound
<1> QED
  BY <1>1, <1>5, <1>6, <1>7, <1>8, <1>9 DEF Sound

\* x is not among the causes of y: each set of both is left from another error than x.
Unreached(c, x, y) ==
  \A S \in SUBSET Errors : x \in S /\ y \in S => \E z \in S \ {x} : c[z] \notin S

\* y becomes the cause of x, which takes over a reference to it.
LEMMA LinkSound ==
  ASSUME NEW r, NEW c, NEW f, NEW held, Sound(r, c, f, held), NEW x \in Errors, NEW y \in Errors,
         c[x] = NoError, f[y] = NoError, held[y] > 0, r[x] > 0, Unreached(c, x, y)
  PROVE  Sound(r, [c EXCEPT ![x] = y], [f EXCEPT ![y] = x], [held EXCEPT ![y] = @ - 1])
<1>1. PICK d, k, g : /\ d = [c EXCEPT ![x] = y] /\ k = [f EXCEPT ![y] = x]
                     /\ g = [held EXCEPT ![y] = @ - 1]
  OBVIOUS
<1>2. /\ r \in [Errors -> Nat] /\ held \in [Errors -> Nat]
      /\ c \in [Errors -> Link] /\ f \in [Errors -> Link] /\ x # NoError /\ y # NoError
  BY ErrorsCounted DEF Sound, Typed
<1>3. /\ d \in [Errors -> Link] /\ k \in [Errors -> Link] /\ g \in [Errors -> Nat]
      /\ \A z \in Errors : /\ d[z] = IF z = x THEN y ELSE c[z]
                           /\ k[z] = IF z = y THEN x ELSE f[z]
                           /\ g[z] = IF z = y THEN held[z] - 1 ELSE held[z]
  BY <1>1, <1>2 DEF Link
<1>4. Typed(r, d, k, g)
  BY <1>2, <1>3 DEF Typed
<1>5. Inverse2(d, k)
  <2>1. ASSUME NEW z \in Errors, d[z] # NoError PROVE k[d[z]] = z
    <3>1. CASE z = x
      BY <1>3, <3>1
    <3>2. CASE z # x
      <4>1. d[z] = c[z] /\ c[z] \in Errors /\ f[c[z]] = z
        BY <1>2, <1>3, <2>1, <3>2 DEF Sound, Inverse2, Link
      <4>2. c[z] # y
        BY <4>1, ErrorsCounted
      <4> QED
        BY <1>3, <4>1, <4>2
    <3> QED
      BY <3>1, <3>2
  <2>2. ASSUME NEW z \in Errors, k[z] # NoError PROVE d[k[z]] = z
    <3>1. CASE z = y
      BY <1>3, <3>1
    <3>2. CASE z # y
      <4>1. k[z] = f[z] /\ f[z] \in Errors /\ c[f[z]] = z
        BY <1>2, <1>3, <2>2, <3>2 DEF Sound, Inverse2, Link
      <4>2. f[z] # x
        BY <4>1, ErrorsCounted
      <4> QED
        BY <1>3, <4>1, <4>2
    <3> QED
      BY <3>1, <3>2
  <2> QED
    BY <2>1, <2>2 DEF Inverse2
<1>6. \A z \in Errors : r[z] = held[z] + (IF f[z] # NoError THEN 1 ELSE 0)
  BY DEF Sound
<1>7. \A z \in Errors : r[z] = g[z] + (IF k[z] # NoError THEN 1 ELSE 0)
  <2>1. r[y] = g[y] + (IF k[y] # NoError THEN 1 ELSE 0)
    BY <1>2, <1>3, <1>6
  <2>2. ASSUME NEW z \in Errors, z # y PROVE r[z] = g[z] + (IF k[z] # NoError THEN 1 ELSE 0)
    BY <1>3, <1>6, <2>2
  <2> QED
    BY <2>1, <2>2
<1>8. \A z \in Errors : r[z] = 0 => d[z] = NoError /\ k[z] = NoError
  <2>1. r[y] > 0 /\ r[x] > 0
    BY <1>2, <1>6
  <2> QED
    BY <1>3, <2>1 DEF Sound
<1>9. Acyclic(d)
  <2> SUFFICES ASSUME NEW S \in SUBSET Errors, S # {} PROVE \E z \in S : d[z] \notin S
    BY DEF Acyclic
  <2>1. CASE x \in S /\ y \in S
    BY <1>3, <2>1 DEF Unreached
  <2>2. CASE x \in S /\ y \notin S
    BY <1>3, <2>2
  <2>3. CASE x \notin S
    <3>1. PICK z \in S : c[z] \notin S
      BY DEF Sound, Acyclic
    <3> QED
      BY <1>3, <2>3, <3>1
  <2> QED
    BY <2>1, <2>2, <2>3
<1> QED
  BY <1>1, <1>4, <1>5, <1>7, <1>8, <1>9 DEF Sound

\* Without a search: y is not the cause of any error, and x of none.
LEMMA UnreachedTop ==
  ASSUME NEW c, NEW f, Inverse2(c, f), Acyclic(c), NEW x \in Errors, NEW y \in Errors, x # y,
         f[x] = NoError
  PROVE  Unreached(c, x, y)
<1> SUFFICES ASSUME NEW S \in SUBSET Errors, x \in S, y \in S
             PROVE  \E z \in S \ {x} : c[z] \notin S
  BY DEF Unreached
<1>1. PICK z \in S \ {x} : c[z] \notin S \ {x}
  <2>1. S \ {x} \in SUBSET Errors /\ S \ {x} # {}
    OBVIOUS
  <2> QED
    BY <2>1 DEF Acyclic
<1>2. c[z] # x
  BY ErrorsCounted DEF Inverse2
<1> QED
  BY <1>1, <1>2

\* With the search of error_set_prev.
LEMMA UnreachedSearched ==
  ASSUME NEW h, h.cause \in [Errors -> Link], Acyclic(h.cause), NEW x \in Errors, NEW y \in Errors,
         x # y, x \notin Causes(h, y)
  PROVE  Unreached(h.cause, x, y)
<1> SUFFICES ASSUME NEW S \in SUBSET Errors, x \in S, y \in S,
                    \A z \in S \ {x} : h.cause[z] \in S
             PROVE  FALSE
  BY DEF Unreached
<1>1. PICK n \in Nat : n = Cardinality(Errors)
  BY ErrorsCounted
<1>2. PICK ch : ch = Chain(h, y)
  OBVIOUS
<1>3. Follows(ch, h.cause, y, n)
  BY <1>1, <1>2, ChainFollows DEF Link
<1> DEFINE T == {k \in 0 .. n : ch[k] \in S \ {x}}
<1>4. 0 \in T
  BY <1>3 DEF Follows
<1>5. ASSUME NEW k \in 1 .. n, k - 1 \in T PROVE k \in T
  <2>1. ch[k - 1] \in S \ {x} /\ ch[k - 1] # NoError
    BY <1>5, ErrorsCounted
  <2>2. ch[k] = h.cause[ch[k - 1]]
    BY <1>3, <2>1 DEF Follows, After
  <2>3. ch[k] \in S
    BY <2>1, <2>2
  <2>4. ch[k] # x
    <3> SUFFICES ASSUME ch[k] = x PROVE FALSE
      OBVIOUS
    <3>1. k \in DOMAIN ch \ {0}
      BY <1>3 DEF Follows
    <3>2. x \in Causes(h, y)
      BY <1>2, <3>1, ErrorsCounted DEF Causes
    <3> QED
      BY <3>2
  <2> QED
    BY <2>3, <2>4
<1>6. n \in T
  <2>1. 0 .. n \subseteq T
    <3> HIDE DEF T
    <3> QED
      BY <1>4, <1>5, UpTo
  <2> QED
    BY <2>1
<1>7. ch[n] = NoError
  BY <1>1, <1>3, ChainEnds
<1> QED
  BY <1>6, <1>7, ErrorsCounted
-----------------------------------------------------------------------------
(***************************************************************************)
(* What error_unref leaves when it destroys gone: the causes of gone that  *)
(* are not in it lose a reference, and so does x itself if it stays.       *)
(***************************************************************************)
Orphans(c, gone) == {c[y] : y \in gone} \ {NoError}
Kept(c, x, gone) == ({x} \cup Orphans(c, gone)) \ gone

UnrefRefs(r, c, x, gone) ==
  [y \in Errors |-> CASE y \in gone -> 0
                      [] y \in Kept(c, x, gone) -> r[y] - 1
                      [] OTHER -> r[y]]
UnrefCause(c, gone) == [y \in Errors |-> IF y \in gone THEN NoError ELSE c[y]]
UnrefEffect(c, f, gone) ==
  [y \in Errors |-> IF y \in gone \cup Orphans(c, gone) THEN NoError ELSE f[y]]

\* error_unref writes exactly that.
LEMMA UnrefIs ==
  ASSUME NEW h, NEW x
  PROVE  error_unref(h, x) = [refs |-> UnrefRefs(h.refs, h.cause, x, Destroyed(h, x)),
                              cause |-> UnrefCause(h.cause, Destroyed(h, x)),
                              effect |-> UnrefEffect(h.cause, h.effect, Destroyed(h, x))]
  BY DEF error_unref, UnrefRefs, UnrefCause, UnrefEffect, Kept, Orphans

\* An orphan has as effect the error that is destroyed.
LEMMA OrphansOf ==
  ASSUME NEW c \in [Errors -> Link], NEW f, Inverse2(c, f), NEW gone \in SUBSET Errors,
         NEW y \in Orphans(c, gone)
  PROVE  y \in Errors /\ f[y] \in gone /\ c[f[y]] = y /\ f[y] # NoError
<1>1. PICK z \in gone : y = c[z] /\ y # NoError
  BY DEF Orphans
<1> QED
  BY <1>1, ErrorsCounted DEF Inverse2, Link

\* error_unref gives back one reference to x.
LEMMA UnrefSound ==
  ASSUME NEW r, NEW c, NEW f, NEW held, Sound(r, c, f, held), NEW x \in Errors, held[x] > 0,
         NEW gone, Falling(r, c, f, x, gone)
  PROVE  Sound(UnrefRefs(r, c, x, gone), UnrefCause(c, gone), UnrefEffect(c, f, gone),
               [held EXCEPT ![x] = @ - 1])
<1>1. PICK q, d, k, g : /\ q = UnrefRefs(r, c, x, gone) /\ d = UnrefCause(c, gone)
                        /\ k = UnrefEffect(c, f, gone) /\ g = [held EXCEPT ![x] = @ - 1]
  OBVIOUS
<1>2. /\ r \in [Errors -> Nat] /\ held \in [Errors -> Nat]
      /\ c \in [Errors -> Link] /\ f \in [Errors -> Link] /\ NoError \notin Errors
  BY ErrorsCounted DEF Sound, Typed
<1>3. Inverse2(c, f) /\ gone \in SUBSET Errors
  BY DEF Sound, Falling
<1>4. \A y \in Orphans(c, gone) : y \in Errors /\ f[y] \in gone /\ c[f[y]] = y /\ f[y] # NoError
  BY <1>2, <1>3, OrphansOf
<1>5. \A y \in Errors : r[y] = held[y] + (IF f[y] # NoError THEN 1 ELSE 0)
  BY DEF Sound
<1>6. \A y \in gone : (y \in Errors /\ y # x) => f[y] \in gone /\ f[y] # NoError
  BY <1>2, <1>3 DEF Falling
<1>7. x \in gone => f[x] = NoError /\ held[x] = 1
  <2>1. x \in gone => r[x] = 1
    BY DEF Falling
  <2> QED
    BY <1>2, <1>5, <2>1
<1>8. x \notin gone => gone = {} /\ Orphans(c, gone) = {}
  <2>1. x \notin gone => gone = {}
    BY DEF Falling
  <2> QED
    BY <2>1 DEF Orphans
<1>9. x \in gone => x \notin Orphans(c, gone)
  BY <1>2, <1>3, <1>4, <1>7
<1>10. \A y \in gone : y # x => held[y] = 0
  <2> SUFFICES ASSUME NEW y \in gone, y # x PROVE held[y] = 0
    OBVIOUS
  <2>1. r[y] = 1 /\ y \in Errors
    BY <1>3 DEF Falling
  <2>2. f[y] # NoError
    BY <1>6, <2>1
  <2>3. r[y] = held[y] + 1 /\ held[y] \in Nat
    BY <1>2, <1>5, <2>1, <2>2
  <2> QED
    BY <2>1, <2>3
<1>11. \A y \in Orphans(c, gone) \ gone : r[y] >= 2 /\ y # x
  <2>1. ASSUME NEW y \in Orphans(c, gone) \ gone PROVE r[y] # 1 /\ r[y] > 0 /\ y # x
    <3>1. y \in Errors /\ f[y] \in gone /\ c[f[y]] = y /\ f[y] # NoError
      BY <1>4
    <3>2. r[y] # 1
      BY <1>2, <3>1 DEF Falling
    <3> QED
      BY <1>2, <1>5, <1>8, <3>1, <3>2
  <2> QED
    BY <1>2, <1>4, <2>1
<1>12. x \notin gone => r[x] >= 2 /\ Kept(c, x, gone) = {x}
  <2>1. x \notin gone => r[x] # 1
    BY DEF Falling
  <2> QED
    BY <1>2, <1>5, <1>8, <2>1 DEF Kept
<1>13. x \in gone => Kept(c, x, gone) = Orphans(c, gone) \ gone
  BY DEF Kept
<1>14. /\ \A y \in Errors : d[y] = IF y \in gone THEN NoError ELSE c[y]
       /\ \A y \in Errors : k[y] = IF y \in gone \cup Orphans(c, gone) THEN NoError ELSE f[y]
       /\ d \in [Errors -> Link] /\ k \in [Errors -> Link]
  BY <1>1, <1>2 DEF UnrefCause, UnrefEffect, Link
<1>15. /\ g \in [Errors -> Nat]
       /\ \A y \in Errors : g[y] = IF y = x THEN held[y] - 1 ELSE held[y]
  BY <1>1, <1>2
<1>16. ASSUME NEW y \in Errors
       PROVE  /\ q[y] \in Nat /\ q[y] = g[y] + (IF k[y] # NoError THEN 1 ELSE 0)
              /\ q[y] = 0 => y \in gone \/ r[y] = 0
  <2>1. CASE y \in gone
    <3>1. q[y] = 0
      <4>1. y \notin Kept(c, x, gone)
        BY <2>1 DEF Kept
      <4> QED
        BY <1>1, <2>1, <4>1 DEF UnrefRefs
    <3>2. g[y] = 0
      BY <1>7, <1>10, <1>15, <2>1
    <3> QED
      BY <1>14, <2>1, <3>1, <3>2
  <2>2. CASE y \in Kept(c, x, gone) /\ x \notin gone
    <3>1. y = x /\ y \notin gone /\ q[y] = r[y] - 1
      BY <1>1, <1>12, <2>2 DEF UnrefRefs
    <3>2. k[y] = f[y] /\ g[y] = held[y] - 1
      BY <1>8, <1>14, <1>15, <3>1
    <3>3. r[y] \in Nat /\ r[y] >= 2
      BY <1>2, <1>12, <3>1
    <3> QED
      BY <1>2, <1>5, <3>1, <3>2, <3>3
  <2>3. CASE y \in Kept(c, x, gone) /\ x \in gone
    <3>1. y \in Orphans(c, gone) /\ y \notin gone /\ y # x /\ r[y] >= 2
      BY <1>11, <1>13, <2>3
    <3>2. q[y] = r[y] - 1 /\ r[y] \in Nat
      BY <1>1, <1>2, <2>3, <3>1 DEF UnrefRefs
    <3>3. k[y] = NoError /\ g[y] = held[y] /\ f[y] # NoError
      BY <1>4, <1>14, <1>15, <3>1
    <3> QED
      BY <1>2, <1>5, <3>1, <3>2, <3>3
  <2>4. CASE y \notin gone /\ y \notin Kept(c, x, gone)
    <3>1. q[y] = r[y] /\ r[y] \in Nat
      BY <1>1, <1>2, <2>4 DEF UnrefRefs
    <3>2. y # x /\ y \notin Orphans(c, gone)
      BY <2>4 DEF Kept
    <3>3. k[y] = f[y] /\ g[y] = held[y]
      BY <1>14, <1>15, <2>4, <3>2
    <3> QED
      BY <1>5, <3>1, <3>3
  <2> QED
    BY <2>1, <2>2, <2>3, <2>4
<1>17. Typed(q, d, k, g)
  <2>1. q = [y \in Errors |-> q[y]]
    BY <1>1 DEF UnrefRefs
  <2>2. q \in [Errors -> Nat]
    BY <1>16, <2>1
  <2> QED
    BY <1>14, <1>15, <2>2 DEF Typed
<1>18. Inverse2(d, k)
  <2>1. ASSUME NEW y \in Errors, d[y] # NoError PROVE k[d[y]] = y
    <3>1. y \notin gone /\ d[y] = c[y] /\ c[y] \in Errors /\ f[c[y]] = y
      BY <1>2, <1>3, <1>14, <2>1 DEF Inverse2, Link
    <3>2. c[y] \notin gone
      BY <1>6, <1>7, <3>1, <1>2
    <3>3. c[y] \notin Orphans(c, gone)
      BY <1>4, <3>1
    <3> QED
      BY <1>14, <3>1, <3>2, <3>3
  <2>2. ASSUME NEW y \in Errors, k[y] # NoError PROVE d[k[y]] = y
    <3>1. y \notin gone /\ y \notin Orphans(c, gone) /\ k[y] = f[y]
      BY <1>14, <2>2
    <3>2. f[y] \in Errors /\ c[f[y]] = y
      BY <1>2, <1>3, <2>2, <3>1 DEF Inverse2, Link
    <3>3. f[y] \notin gone
      BY <1>2, <3>1, <3>2 DEF Orphans
    <3> QED
      BY <1>14, <3>1, <3>2, <3>3
  <2> QED
    BY <2>1, <2>2 DEF Inverse2
<1>19. \A y \in Errors : q[y] = 0 => d[y] = NoError /\ k[y] = NoError
  BY <1>14, <1>16 DEF Sound
<1>20. Acyclic(d)
  BY <1>14, AcyclicFewer DEF Sound
<1> QED
  BY <1>1, <1>16, <1>17, <1>18, <1>19, <1>20 DEF Sound
-----------------------------------------------------------------------------
(***************************************************************************)
(* The same for heaps.                                                     *)
(***************************************************************************)
Heap == [refs : [Errors -> Nat], cause : [Errors -> Link], effect : [Errors -> Link]]

HeapOK(h, held) == h \in Heap /\ Sound(h.refs, h.cause, h.effect, held)

\* The parts of a sound heap.
LEMMA HeapParts ==
  ASSUME NEW h, NEW held, HeapOK(h, held)
  PROVE  /\ h = [refs |-> h.refs, cause |-> h.cause, effect |-> h.effect]
         /\ h.refs \in [Errors -> Nat] /\ h.cause \in [Errors -> Link] /\ h.effect \in [Errors -> Link]
         /\ held \in [Errors -> Nat]
         /\ Inverse2(h.cause, h.effect) /\ Acyclic(h.cause)
         /\ \A x \in Errors : h.refs[x] = held[x] + (IF h.effect[x] # NoError THEN 1 ELSE 0)
  BY DEF HeapOK, Heap, Sound, Typed

\* A heap of sound parts.
LEMMA HeapFrom ==
  ASSUME NEW r, NEW c, NEW f, NEW held, Sound(r, c, f, held)
  PROVE  HeapOK([refs |-> r, cause |-> c, effect |-> f], held)
<1>1. r \in [Errors -> Nat] /\ c \in [Errors -> Link] /\ f \in [Errors -> Link]
  BY DEF Sound, Typed
<1> QED
  BY <1>1 DEF HeapOK, Heap

SetCause(h, x, a) == [h EXCEPT !.cause[x] = a]
SetEffect(h, y, b) == [h EXCEPT !.effect[y] = b]
SetLinks(h, x, a, y, b) == [h EXCEPT !.cause[x] = a, !.effect[y] = b]

\* Writing a cause.
LEMMA WriteCause ==
  ASSUME NEW r, NEW c, NEW f, NEW h, h = [refs |-> r, cause |-> c, effect |-> f], NEW x, NEW a
  PROVE  SetCause(h, x, a) = [refs |-> r, cause |-> [c EXCEPT ![x] = a], effect |-> f]
<1>1. h.refs = r /\ h.cause = c /\ h.effect = f
  OBVIOUS
<1> QED
  BY <1>1 DEF SetCause

\* Writing an effect.
LEMMA WriteEffect ==
  ASSUME NEW r, NEW c, NEW f, NEW h, h = [refs |-> r, cause |-> c, effect |-> f], NEW y, NEW b
  PROVE  SetEffect(h, y, b) = [refs |-> r, cause |-> c, effect |-> [f EXCEPT ![y] = b]]
<1>1. h.refs = r /\ h.cause = c /\ h.effect = f
  OBVIOUS
<1> QED
  BY <1>1 DEF SetEffect

\* Writing both ends of a link.
LEMMA WriteLinks ==
  ASSUME NEW r, NEW c, NEW f, NEW h, h = [refs |-> r, cause |-> c, effect |-> f], NEW x, NEW a, NEW y, NEW b
  PROVE  SetLinks(h, x, a, y, b)
           = [refs |-> r, cause |-> [c EXCEPT ![x] = a], effect |-> [f EXCEPT ![y] = b]]
<1>1. PICK g, d : g = SetCause(h, x, a) /\ d = [c EXCEPT ![x] = a]
  OBVIOUS
<1>2. g = [refs |-> r, cause |-> d, effect |-> f]
  BY <1>1, WriteCause
<1>3. SetEffect(g, y, b) = [refs |-> r, cause |-> d, effect |-> [f EXCEPT ![y] = b]]
  BY <1>2, WriteEffect
<1>4. SetLinks(h, x, a, y, b) = SetEffect(g, y, b)
  BY <1>1 DEF SetLinks, SetCause, SetEffect
<1> QED
  BY <1>1, <1>3, <1>4

\* error_ref counts one more.
LEMMA RefOK ==
  ASSUME NEW h, NEW held, HeapOK(h, held), NEW x \in Errors
  PROVE  /\ HeapOK(error_ref(h, x), [held EXCEPT ![x] = @ + 1])
         /\ error_ref(h, x) = [refs |-> [h.refs EXCEPT ![x] = @ + 1], cause |-> h.cause,
                               effect |-> h.effect]
<1>1. h = [refs |-> h.refs, cause |-> h.cause, effect |-> h.effect]
  BY HeapParts
<1>2. error_ref(h, x) = [refs |-> [h.refs EXCEPT ![x] = @ + 1], cause |-> h.cause, effect |-> h.effect]
  BY <1>1 DEF error_ref
<1>3. Sound([h.refs EXCEPT ![x] = @ + 1], h.cause, h.effect, [held EXCEPT ![x] = @ + 1])
  BY RefSound DEF HeapOK
<1> QED
  BY <1>2, <1>3, HeapFrom

\* error_unref counts one less, and destroys what nobody counts any more.
LEMMA UnrefOK ==
  ASSUME NEW h, NEW held, HeapOK(h, held), NEW x \in Errors, held[x] > 0
  PROVE  HeapOK(error_unref(h, x), [held EXCEPT ![x] = @ - 1])
<1>1. PICK gone : gone = Destroyed(h, x)
  OBVIOUS
<1>2. Sound(h.refs, h.cause, h.effect, held)
  BY DEF HeapOK
<1>3. Falling(h.refs, h.cause, h.effect, x, gone)
  BY <1>1, <1>2, DestroyedFalling
<1>4. Sound(UnrefRefs(h.refs, h.cause, x, gone), UnrefCause(h.cause, gone),
            UnrefEffect(h.cause, h.effect, gone), [held EXCEPT ![x] = @ - 1])
  BY <1>2, <1>3, UnrefSound
<1>5. error_unref(h, x) = [refs |-> UnrefRefs(h.refs, h.cause, x, gone),
                           cause |-> UnrefCause(h.cause, gone),
                           effect |-> UnrefEffect(h.cause, h.effect, gone)]
  BY <1>1, UnrefIs
<1> QED
  BY <1>4, <1>5, HeapFrom

\* No cause of h but some of g.
FewerCauses(h, g) == \A z \in Errors : h.cause[z] = g.cause[z] \/ h.cause[z] = NoError

\* error_unlink_effect takes x out of its chain.
LEMMA UnlinkOK ==
  ASSUME NEW h, NEW held, HeapOK(h, held), NEW x \in Errors, held[x] > 0
  PROVE  /\ HeapOK(error_unlink_effect(h, x), held)
         /\ error_unlink_effect(h, x).effect[x] = NoError
         /\ FewerCauses(error_unlink_effect(h, x), h)
<1>1. PICK r, c, f : r = h.refs /\ c = h.cause /\ f = h.effect
  OBVIOUS
<1>2. /\ h = [refs |-> r, cause |-> c, effect |-> f]
      /\ r \in [Errors -> Nat] /\ c \in [Errors -> Link] /\ f \in [Errors -> Link]
      /\ held \in [Errors -> Nat] /\ Sound(r, c, f, held)
      /\ r[x] = held[x] + (IF f[x] # NoError THEN 1 ELSE 0)
  BY <1>1, HeapParts DEF HeapOK
<1>3. CASE f[x] = NoError
  <2>1. error_unlink_effect(h, x) = h
    BY <1>1, <1>3 DEF error_unlink_effect
  <2> QED
    BY <1>1, <1>3, <2>1 DEF FewerCauses
<1>4. CASE f[x] # NoError
  <2>1. PICK d, k, g : /\ d = [c EXCEPT ![f[x]] = NoError] /\ k = [f EXCEPT ![x] = NoError]
                       /\ g = [held EXCEPT ![x] = @ + 1]
    OBVIOUS
  <2>2. Sound(r, d, k, g)
    BY <1>2, <1>4, <2>1, CutSound
  <2>3. r[x] # 1 /\ g[x] > 0 /\ held = [g EXCEPT ![x] = @ - 1]
    <3>1. held[x] \in Nat /\ g[x] = held[x] + 1 /\ r[x] = held[x] + 1
      BY <1>2, <1>4, <2>1
    <3>2. \A y \in Errors : y # x => g[y] = held[y]
      BY <1>2, <2>1
    <3>3. PICK u : u = [g EXCEPT ![x] = @ - 1]
      OBVIOUS
    <3>4. u = [y \in Errors |-> u[y]] /\ held = [y \in Errors |-> held[y]]
      BY <1>2, <2>1, <3>3
    <3>5. u[x] = g[x] - 1 /\ \A y \in Errors : y # x => u[y] = g[y]
      BY <1>2, <2>1, <3>3
    <3>6. \A y \in Errors : u[y] = held[y]
      BY <3>1, <3>2, <3>5
    <3>7. u = held
      BY <3>4, <3>6
    <3> QED
      BY <3>1, <3>3, <3>7
  <2>4. Destroyed(h, x) = {}
    <3>1. Falling(h.refs, h.cause, h.effect, x, Destroyed(h, x))
      BY DestroyedFalling DEF HeapOK
    <3> QED
      BY <1>1, <2>3, <3>1 DEF Falling
  <2>5. Falling(r, d, k, x, {})
    BY <2>3 DEF Falling
  <2>6. /\ UnrefRefs(r, c, x, {}) = UnrefRefs(r, d, x, {})
        /\ UnrefCause(d, {}) = d /\ UnrefCause(c, {}) = c
        /\ UnrefEffect(d, k, {}) = k /\ UnrefEffect(c, f, {}) = f
    <3>1. Orphans(c, {}) = {} /\ Orphans(d, {}) = {}
      BY DEF Orphans
    <3>2. Kept(c, x, {}) = Kept(d, x, {})
      BY <3>1 DEF Kept
    <3>3. d = [y \in Errors |-> d[y]] /\ k = [y \in Errors |-> k[y]]
      BY <1>2, <2>1
    <3>4. c = [y \in Errors |-> c[y]] /\ f = [y \in Errors |-> f[y]]
      BY <1>2
    <3>5. UnrefRefs(r, c, x, {}) = UnrefRefs(r, d, x, {})
      BY <3>2 DEF UnrefRefs
    <3>6. UnrefCause(d, {}) = d /\ UnrefCause(c, {}) = c
      BY <3>3, <3>4 DEF UnrefCause
    <3>7. UnrefEffect(d, k, {}) = k /\ UnrefEffect(c, f, {}) = f
      BY <3>1, <3>3, <3>4 DEF UnrefEffect
    <3> QED
      BY <3>5, <3>6, <3>7
  <2>7. Sound(UnrefRefs(r, d, x, {}), d, k, held)
    <3>1. Sound(UnrefRefs(r, d, x, {}), UnrefCause(d, {}), UnrefEffect(d, k, {}), [g EXCEPT ![x] = @ - 1])
      BY <2>2, <2>3, <2>5, UnrefSound
    <3> QED
      BY <2>3, <2>6, <3>1
  <2>8. error_unref(h, x) = [refs |-> UnrefRefs(r, c, x, {}), cause |-> c, effect |-> f]
    BY <1>1, <2>4, <2>6, UnrefIs
  <2>9. error_unlink_effect(h, x) = [refs |-> UnrefRefs(r, d, x, {}), cause |-> d, effect |-> k]
    <3>1. error_unlink_effect(h, x) = [error_unref(h, x) EXCEPT !.cause[f[x]] = NoError, !.effect[x] = NoError]
      BY <1>1, <1>4 DEF error_unlink_effect
    <3>2. PICK b, q : b = error_unref(h, x) /\ q = UnrefRefs(r, c, x, {})
      OBVIOUS
    <3>3. b = [refs |-> q, cause |-> c, effect |-> f]
      BY <2>8, <3>2
    <3>4. [b EXCEPT !.cause[f[x]] = NoError, !.effect[x] = NoError]
            = [refs |-> q, cause |-> [c EXCEPT ![f[x]] = NoError], effect |-> [f EXCEPT ![x] = NoError]]
      <4>1. [b EXCEPT !.cause[f[x]] = NoError, !.effect[x] = NoError] = SetLinks(b, f[x], NoError, x, NoError)
        BY DEF SetLinks
      <4>2. SetLinks(b, f[x], NoError, x, NoError)
              = [refs |-> q, cause |-> [c EXCEPT ![f[x]] = NoError], effect |-> [f EXCEPT ![x] = NoError]]
        BY <3>3, WriteLinks
      <4> QED
        BY <4>1, <4>2
    <3> QED
      BY <2>1, <2>6, <3>1, <3>2, <3>4
  <2>10. k[x] = NoError /\ \A z \in Errors : d[z] = c[z] \/ d[z] = NoError
    BY <1>2, <2>1
  <2> QED
    BY <1>1, <2>7, <2>9, <2>10, HeapFrom DEF FewerCauses
<1> QED
  BY <1>3, <1>4

\* diag_add_error: a new error with the last one as its cause.
LEMMA AddOK ==
  ASSUME NEW h, NEW held, HeapOK(h, held), NEW x \in Errors, NEW y \in Errors,
         h.refs[x] = 0, h.effect[y] = NoError, held[y] > 0
  PROVE  HeapOK([error_ref(h, x) EXCEPT !.cause[x] = y, !.effect[y] = x],
                [[held EXCEPT ![x] = @ + 1] EXCEPT ![y] = @ - 1])
<1>1. PICK r, c, f : r = h.refs /\ c = h.cause /\ f = h.effect
  OBVIOUS
<1>2. /\ h = [refs |-> r, cause |-> c, effect |-> f]
      /\ r \in [Errors -> Nat] /\ c \in [Errors -> Link] /\ f \in [Errors -> Link]
      /\ held \in [Errors -> Nat] /\ Sound(r, c, f, held)
      /\ \A z \in Errors : r[z] = held[z] + (IF f[z] # NoError THEN 1 ELSE 0)
  BY <1>1, HeapParts DEF HeapOK
<1>3. x # y
  BY <1>1, <1>2
<1>4. PICK q, g : q = [r EXCEPT ![x] = @ + 1] /\ g = [held EXCEPT ![x] = @ + 1]
  OBVIOUS
<1>5. Sound(q, c, f, g)
  BY <1>2, <1>4, RefSound
<1>6. c[x] = NoError /\ f[x] = NoError
  BY <1>1, <1>2 DEF Sound
<1>7. Unreached(c, x, y)
  BY <1>2, <1>3, <1>6, UnreachedTop DEF Sound
<1>8. f[y] = NoError /\ g[y] > 0 /\ q[x] > 0
  BY <1>1, <1>2, <1>3, <1>4
<1>9. Sound(q, [c EXCEPT ![x] = y], [f EXCEPT ![y] = x], [g EXCEPT ![y] = @ - 1])
  BY <1>5, <1>6, <1>7, <1>8, LinkSound
<1>10. error_ref(h, x) = [refs |-> q, cause |-> c, effect |-> f]
  BY <1>1, <1>4, RefOK
<1>11. [error_ref(h, x) EXCEPT !.cause[x] = y, !.effect[y] = x]
         = [refs |-> q, cause |-> [c EXCEPT ![x] = y], effect |-> [f EXCEPT ![y] = x]]
  <2>1. PICK b : b = error_ref(h, x)
    OBVIOUS
  <2>2. b = [refs |-> q, cause |-> c, effect |-> f]
    BY <1>10, <2>1
  <2>3. [b EXCEPT !.cause[x] = y, !.effect[y] = x]
          = [refs |-> q, cause |-> [c EXCEPT ![x] = y], effect |-> [f EXCEPT ![y] = x]]
    <3>1. [b EXCEPT !.cause[x] = y, !.effect[y] = x] = SetLinks(b, x, y, y, x)
      BY DEF SetLinks
    <3>2. SetLinks(b, x, y, y, x)
            = [refs |-> q, cause |-> [c EXCEPT ![x] = y], effect |-> [f EXCEPT ![y] = x]]
      BY <2>2, WriteLinks
    <3> QED
      BY <3>1, <3>2
  <2> QED
    BY <2>1, <2>3
<1>13. PICK d, k, u : /\ d = [c EXCEPT ![x] = y] /\ k = [f EXCEPT ![y] = x]
                      /\ u = [g EXCEPT ![y] = @ - 1]
  OBVIOUS
<1>14. HeapOK([refs |-> q, cause |-> d, effect |-> k], u)
  BY <1>9, <1>13, HeapFrom
<1> QED
  BY <1>4, <1>11, <1>13, <1>14
-----------------------------------------------------------------------------
(***************************************************************************)
(* error_set_prev destroys the old cause of x while x still points to it.  *)
(***************************************************************************)
\* The cause of an error that is not destroyed does not matter.
LEMMA SameDestroyed ==
  ASSUME NEW g, NEW h, g.cause \in [Errors -> Link], h.cause \in [Errors -> Link], g.refs = h.refs,
         NEW x \in Errors, \A z \in Errors : z # x => g.cause[z] = h.cause[z],
         NEW y \in Link, x \notin Destroyed(h, y)
  PROVE  Destroyed(g, y) = Destroyed(h, y)
<1>1. PICK n \in Nat : n = Cardinality(Errors)
  BY ErrorsCounted
<1>2. PICK r, c, d : r = h.refs /\ c = g.cause /\ d = h.cause
  OBVIOUS
<1>3. PICK a, b : a = Chain(g, y) /\ b = Chain(h, y)
  OBVIOUS
<1>4. Follows(a, c, y, n) /\ Follows(b, d, y, n)
  BY <1>1, <1>2, <1>3, ChainFollows
<1>5. /\ Destroyed(g, y) = {a[k] : k \in {m \in 0 .. n : Falls(r, a, m)}}
      /\ Destroyed(h, y) = {b[k] : k \in {m \in 0 .. n : Falls(r, b, m)}}
  BY <1>1, <1>2, <1>3, DestroyedIs
<1> DEFINE Same(m) == \A k \in 0 .. m : a[k] = b[k]
           T == {m \in 0 .. n : Falls(r, a, m) \/ Falls(r, b, m) => Same(m)}
<1>6. 0 \in T
  BY <1>4 DEF Follows
<1>7. ASSUME NEW m \in 1 .. n, m - 1 \in T PROVE m \in T
  <2> SUFFICES ASSUME Falls(r, a, m) \/ Falls(r, b, m) PROVE Same(m)
    OBVIOUS
  <2>1. m - 1 \in 0 .. n /\ \A k \in 0 .. m - 1 : k \in 0 .. m
    OBVIOUS
  <2>2. Falls(r, a, m - 1) \/ Falls(r, b, m - 1)
    BY <2>1 DEF Falls
  <2>3. Same(m - 1)
    BY <1>7, <2>2
  <2>4. Falls(r, b, m - 1)
    BY <2>2, <2>3 DEF Falls
  <2>5. m - 1 \in 0 .. m - 1
    OBVIOUS
  <2>6. b[m - 1] \in Destroyed(h, y) /\ b[m - 1] # NoError /\ b[m - 1] = a[m - 1]
    BY <1>5, <2>1, <2>3, <2>4, <2>5 DEF Falls
  <2>7. b[m - 1] \in Errors /\ b[m - 1] # x
    BY <1>4, <2>1, <2>6 DEF Follows, Link
  <2>8. a[m] = b[m]
    BY <1>2, <1>4, <2>6, <2>7 DEF Follows, After
  <2>9. \A k \in 0 .. m : k = m \/ k \in 0 .. m - 1
    OBVIOUS
  <2> QED
    BY <2>3, <2>8, <2>9
<1>8. \A m \in 0 .. n : Falls(r, a, m) \/ Falls(r, b, m) => Same(m)
  <2>1. 0 .. n \subseteq T
    <3> HIDE DEF T
    <3> QED
      BY <1>6, <1>7, UpTo
  <2> QED
    BY <2>1
<1>9. \A m \in 0 .. n : Falls(r, a, m) <=> Falls(r, b, m)
  BY <1>8 DEF Falls
<1>10. \A m \in 0 .. n : Falls(r, a, m) => a[m] = b[m]
  <2>1. \A m \in 0 .. n : m \in 0 .. m
    OBVIOUS
  <2> QED
    BY <1>8, <2>1
<1> QED
  BY <1>5, <1>9, <1>10

\* The effects f when x becomes the effect of y, if y is an error.
EffectWith(f, x, y) == IF y = NoError THEN f ELSE [f EXCEPT ![y] = x]

\* g is a sound heap with fewer causes than h in which x has none, and y no effect, before y becomes its cause.
Replaced(h, g, x, y, held) ==
  \E r, c, f : /\ Sound(r, c, f, held) /\ c[x] = NoError
               /\ \A a \in Errors : c[a] = h.cause[a] \/ c[a] = NoError
               /\ y # NoError => f[y] = NoError
               /\ g = [refs |-> r, cause |-> [c EXCEPT ![x] = y], effect |-> EffectWith(f, x, y)]

\* x still points to its old cause z, which y may have replaced already; then it does not.
LEMMA ReplaceCause ==
  ASSUME NEW h, NEW held, HeapOK(h, held), NEW x \in Errors, held[x] > 0, NEW z, h.cause[x] = z, z # NoError,
         NEW y \in Link, y # NoError => h.effect[y] = NoError,
         NEW k, k = EffectWith(h.effect, x, y),
         NEW g, g = [refs |-> h.refs, cause |-> h.cause, effect |-> [k EXCEPT ![z] = NoError]]
  PROVE  Replaced(h, SetCause(error_unref(g, z), x, y), x, y, held)
<1>1. /\ h.refs \in [Errors -> Nat] /\ h.cause \in [Errors -> Link] /\ h.effect \in [Errors -> Link]
      /\ held \in [Errors -> Nat] /\ Inverse2(h.cause, h.effect)
      /\ Sound(h.refs, h.cause, h.effect, held) /\ NoError \notin Errors
  BY HeapParts, ErrorsCounted DEF HeapOK
<1>2. z \in Errors /\ h.effect[z] = x
  BY <1>1 DEF Link, Inverse2
<1>3. PICK d, f, u : /\ d = [h.cause EXCEPT ![x] = NoError] /\ f = [h.effect EXCEPT ![z] = NoError]
                     /\ u = [held EXCEPT ![z] = @ + 1]
  OBVIOUS
<1>4. Sound(h.refs, d, f, u)
  BY <1>1, <1>2, <1>3, CutSound
<1>5. PICK D : D = [refs |-> h.refs, cause |-> d, effect |-> f]
  OBVIOUS
<1>6. D.refs = h.refs /\ D.cause = d /\ D.effect = f
  BY <1>5
<1>7. u[z] > 0 /\ u[x] > 0 /\ held = [u EXCEPT ![z] = @ - 1]
  <2>1. held[z] \in Nat /\ u[z] = held[z] + 1 /\ \A a \in Errors : a # z => u[a] = held[a]
    BY <1>1, <1>2, <1>3
  <2>2. PICK v : v = [u EXCEPT ![z] = @ - 1]
    OBVIOUS
  <2>3. v = [a \in Errors |-> v[a]] /\ held = [a \in Errors |-> held[a]]
    BY <1>1, <1>3, <2>2
  <2>4. v[z] = u[z] - 1 /\ \A a \in Errors : a # z => v[a] = u[a]
    BY <1>1, <1>2, <1>3, <2>2
  <2>5. \A a \in Errors : v[a] = held[a]
    BY <2>1, <2>4
  <2>6. u[x] > 0
    BY <1>1, <2>1
  <2>7. v = held
    BY <2>3, <2>5
  <2>8. u[z] > 0
    BY <2>1
  <2> QED
    BY <2>2, <2>6, <2>7, <2>8
<1>8. PICK gone : gone = Destroyed(D, z)
  OBVIOUS
<1>9. Falling(h.refs, d, f, z, gone)
  BY <1>2, <1>4, <1>6, <1>8, DestroyedFalling
<1>10. Sound(UnrefRefs(h.refs, d, z, gone), UnrefCause(d, gone), UnrefEffect(d, f, gone), held)
  BY <1>2, <1>4, <1>7, <1>9, UnrefSound
<1>11. /\ d \in [Errors -> Link] /\ f \in [Errors -> Link] /\ u \in [Errors -> Nat] /\ Inverse2(d, f)
       /\ \A a \in Errors : h.refs[a] = u[a] + (IF f[a] # NoError THEN 1 ELSE 0)
       /\ d[x] = NoError /\ \A a \in Errors : a # x => d[a] = h.cause[a]
       /\ f[z] = NoError /\ \A a \in Errors : a # z => f[a] = h.effect[a]
  BY <1>1, <1>2, <1>3, <1>4 DEF Sound, Typed
<1>12. x \notin gone
  <2> SUFFICES ASSUME x \in gone PROVE FALSE
    OBVIOUS
  <2>1. h.refs[x] = 1
    BY <1>9 DEF Falling
  <2>2. f[x] = NoError
    BY <1>1, <1>7, <1>11, <2>1
  <2>3. x # z => f[x] \in gone /\ gone \subseteq Errors
    BY <1>9 DEF Falling
  <2>4. x = z
    BY <1>1, <2>2, <2>3
  <2>5. ~Acyclic(h.cause)
    <3>1. {x} \in SUBSET Errors /\ {x} # {} /\ h.cause[x] = x
      BY <2>4
    <3> QED
      BY <3>1 DEF Acyclic
  <2> QED
    BY <1>1, <2>5 DEF Sound
<1>13. y # NoError => y \in Errors /\ y # z /\ f[y] = NoError /\ y \notin gone /\ y \notin Orphans(d, gone)
  <2> SUFFICES ASSUME y # NoError
               PROVE  y \in Errors /\ y # z /\ f[y] = NoError /\ y \notin gone /\ y \notin Orphans(d, gone)
    OBVIOUS
  <2>1. y \in Errors /\ y # z
    BY <1>1, <1>2 DEF Link
  <2>2. f[y] = NoError
    BY <1>11, <2>1
  <2>3. y \in gone => f[y] \in gone /\ gone \subseteq Errors
    BY <1>9, <2>1 DEF Falling
  <2>4. y \notin gone
    BY <1>1, <2>2, <2>3
  <2>5. gone \in SUBSET Errors
    BY <1>9 DEF Falling
  <2>6. y \notin Orphans(d, gone)
    BY <1>11, <2>2, <2>5, OrphansOf
  <2> QED
    BY <2>1, <2>2, <2>4, <2>6
<1>14. g.refs = h.refs /\ g.cause = h.cause /\ g.effect = [k EXCEPT ![z] = NoError]
  OBVIOUS
<1>15. Destroyed(g, z) = gone
  <2>1. g.cause \in [Errors -> Link] /\ D.cause \in [Errors -> Link] /\ g.refs = D.refs
    BY <1>1, <1>6, <1>11, <1>14
  <2>2. \A a \in Errors : a # x => g.cause[a] = D.cause[a]
    BY <1>6, <1>11, <1>14
  <2>3. z \in Link /\ x \notin Destroyed(D, z)
    BY <1>2, <1>8, <1>12 DEF Link
  <2> QED
    BY <1>8, <2>1, <2>2, <2>3, SameDestroyed
<1>16. PICK r, c, e : /\ r = UnrefRefs(h.refs, d, z, gone) /\ c = UnrefCause(d, gone)
                      /\ e = UnrefEffect(d, f, gone)
  OBVIOUS
<1>17. gone \subseteq Errors /\ \A a \in gone : h.cause[a] = d[a]
  BY <1>9, <1>11, <1>12 DEF Falling
<1>18. Orphans(h.cause, gone) = Orphans(d, gone)
  BY <1>17 DEF Orphans
<1>19. UnrefRefs(h.refs, h.cause, z, gone) = r
  <2>1. Kept(h.cause, z, gone) = Kept(d, z, gone)
    BY <1>18 DEF Kept
  <2> QED
    BY <1>16, <2>1 DEF UnrefRefs
<1>20. [UnrefCause(h.cause, gone) EXCEPT ![x] = y] = [c EXCEPT ![x] = y]
  <2>1. PICK p, q : p = [UnrefCause(h.cause, gone) EXCEPT ![x] = y] /\ q = [c EXCEPT ![x] = y]
    OBVIOUS
  <2>2. p = [a \in Errors |-> p[a]] /\ q = [a \in Errors |-> q[a]]
    BY <1>16, <2>1 DEF UnrefCause
  <2>3. ASSUME NEW a \in Errors PROVE p[a] = q[a]
    <3>1. CASE a = x
      BY <1>16, <2>1, <3>1 DEF UnrefCause
    <3>2. CASE a # x
      <4>1. p[a] = UnrefCause(h.cause, gone)[a] /\ q[a] = c[a]
        BY <1>16, <2>1, <3>2 DEF UnrefCause
      <4>2. h.cause[a] = d[a]
        BY <1>11, <3>2
      <4> QED
        BY <1>16, <4>1, <4>2 DEF UnrefCause
    <3> QED
      BY <3>1, <3>2
  <2>4. p = q
    BY <2>2, <2>3
  <2> QED
    BY <2>1, <2>4
<1>21. UnrefEffect(h.cause, [k EXCEPT ![z] = NoError], gone) = EffectWith(e, x, y)
  <2>1. PICK j : j = [k EXCEPT ![z] = NoError]
    OBVIOUS
  <2>2. CASE y = NoError
    <3>1. j = f
      BY <1>3, <2>1, <2>2 DEF EffectWith
    <3> QED
      BY <1>16, <1>18, <2>1, <2>2, <3>1 DEF UnrefEffect, EffectWith
  <2>3. CASE y # NoError
    <3>1. k = [h.effect EXCEPT ![y] = x]
      BY <2>3 DEF EffectWith
    <3>2. \A a \in Errors : j[a] = IF a = y THEN x ELSE f[a]
      BY <1>1, <1>11, <1>13, <2>1, <2>3, <3>1
    <3>3. PICK p, q : p = UnrefEffect(h.cause, j, gone) /\ q = [e EXCEPT ![y] = x]
      OBVIOUS
    <3>4. p = [a \in Errors |-> p[a]] /\ q = [a \in Errors |-> q[a]]
      BY <1>16, <3>3 DEF UnrefEffect
    <3>5. ASSUME NEW a \in Errors PROVE p[a] = q[a]
      <4>1. p[a] = IF a \in gone \cup Orphans(d, gone) THEN NoError ELSE j[a]
        BY <1>18, <3>3 DEF UnrefEffect
      <4>2. e[a] = IF a \in gone \cup Orphans(d, gone) THEN NoError ELSE f[a]
        BY <1>16 DEF UnrefEffect
      <4>3. q[a] = IF a = y THEN x ELSE e[a]
        BY <1>16, <3>3 DEF UnrefEffect
      <4> QED
        BY <1>13, <2>3, <3>2, <4>1, <4>2, <4>3
    <3>6. p = q
      BY <3>4, <3>5
    <3> QED
      BY <2>1, <2>3, <3>3, <3>6 DEF EffectWith
  <2> QED
    BY <2>2, <2>3
<1>22. error_unref(g, z) = [refs |-> r, cause |-> UnrefCause(h.cause, gone),
                            effect |-> UnrefEffect(h.cause, [k EXCEPT ![z] = NoError], gone)]
  BY <1>14, <1>15, <1>19, UnrefIs
<1>23. SetCause(error_unref(g, z), x, y)
         = [refs |-> r, cause |-> [UnrefCause(h.cause, gone) EXCEPT ![x] = y],
            effect |-> UnrefEffect(h.cause, [k EXCEPT ![z] = NoError], gone)]
  <2>1. PICK b, p, q : /\ b = error_unref(g, z) /\ p = UnrefCause(h.cause, gone)
                       /\ q = UnrefEffect(h.cause, [k EXCEPT ![z] = NoError], gone)
    OBVIOUS
  <2>2. b = [refs |-> r, cause |-> p, effect |-> q]
    BY <1>22, <2>1
  <2>3. SetCause(b, x, y) = [refs |-> r, cause |-> [p EXCEPT ![x] = y], effect |-> q]
    BY <2>2, WriteCause
  <2> QED
    BY <2>1, <2>3
<1>24. c[x] = NoError /\ \A a \in Errors : c[a] = h.cause[a] \/ c[a] = NoError
  BY <1>11, <1>16 DEF UnrefCause
<1>25. y # NoError => e[y] = NoError
  BY <1>13, <1>16 DEF UnrefEffect
<1>26. Sound(r, c, e, held)
  BY <1>10, <1>16
<1>27. SetCause(error_unref(g, z), x, y)
         = [refs |-> r, cause |-> [c EXCEPT ![x] = y], effect |-> EffectWith(e, x, y)]
  BY <1>20, <1>21, <1>23
<1> QED
  BY <1>24, <1>25, <1>26, <1>27 DEF Replaced

\* y becomes the cause of x, or no error does.
LEMMA Relinked ==
  ASSUME NEW r, NEW c, NEW f, NEW g, Sound(r, c, f, g), NEW x \in Errors, g[x] > 0, c[x] = NoError,
         NEW held \in [Errors -> Nat], NEW y \in Link,
         y = NoError => g = held,
         y # NoError => f[y] = NoError /\ Unreached(c, x, y) /\ g = [held EXCEPT ![y] = @ + 1]
  PROVE  Sound(r, [c EXCEPT ![x] = y], EffectWith(f, x, y), held)
<1> USE DEF EffectWith
<1>1. /\ r \in [Errors -> Nat] /\ c \in [Errors -> Link] /\ g \in [Errors -> Nat]
      /\ r[x] = g[x] + (IF f[x] # NoError THEN 1 ELSE 0)
  BY DEF Sound, Typed
<1>2. CASE y = NoError
  <2>1. [c EXCEPT ![x] = y] = c
    BY <1>1, <1>2
  <2> QED
    BY <1>2, <2>1
<1>3. CASE y # NoError
  <2>1. y \in Errors
    BY <1>3 DEF Link
  <2>2. g = [held EXCEPT ![y] = @ + 1] /\ f[y] = NoError /\ Unreached(c, x, y)
    BY <1>3
  <2>3. g[y] > 0 /\ [g EXCEPT ![y] = @ - 1] = held
    <3>1. held[y] \in Nat /\ g[y] = held[y] + 1 /\ \A a \in Errors : a # y => g[a] = held[a]
      BY <2>1, <2>2
    <3>2. PICK v : v = [g EXCEPT ![y] = @ - 1]
      OBVIOUS
    <3>3. v = [a \in Errors |-> v[a]] /\ held = [a \in Errors |-> held[a]]
      BY <1>1, <3>2
    <3>4. v[y] = g[y] - 1 /\ \A a \in Errors : a # y => v[a] = g[a]
      BY <1>1, <2>1, <3>2
    <3>5. \A a \in Errors : v[a] = held[a]
      BY <3>1, <3>4
    <3>6. v = held
      BY <3>3, <3>5
    <3>7. g[y] > 0
      BY <3>1
    <3> QED
      BY <3>2, <3>6, <3>7
  <2>4. r[x] > 0
    BY <1>1
  <2>5. Sound(r, [c EXCEPT ![x] = y], [f EXCEPT ![y] = x], [g EXCEPT ![y] = @ - 1])
    BY <2>1, <2>2, <2>3, <2>4, LinkSound
  <2> QED
    BY <1>3, <2>3, <2>5
<1> QED
  BY <1>2, <1>3

\* With fewer causes x is still not among those of y.
LEMMA UnreachedFewer ==
  ASSUME NEW c, NEW x, NEW y, Unreached(c, x, y), NEW d, \A z \in Errors : d[z] = c[z] \/ d[z] = NoError
  PROVE  Unreached(d, x, y)
<1> SUFFICES ASSUME NEW S \in SUBSET Errors, x \in S, y \in S
             PROVE  \E z \in S \ {x} : d[z] \notin S
  BY DEF Unreached
<1>1. PICK z \in S \ {x} : c[z] \notin S
  BY DEF Unreached
<1>2. NoError \notin S
  BY ErrorsCounted
<1> QED
  BY <1>1, <1>2

\* error_set_prev changes links only, whatever it destroys.
LEMMA SetPrevOK ==
  ASSUME NEW h, NEW held, HeapOK(h, held), NEW x \in Errors, held[x] > 0, NEW y \in Link,
         y # NoError => held[y] > 0 /\ x # y /\ Unreached(h.cause, x, y)
  PROVE  HeapOK(error_set_prev(h, x, y), held)
<1>1. PICK a : a = IF y = NoError THEN h ELSE error_ref(error_unlink_effect(h, y), y)
  OBVIOUS
<1>2. PICK g : g = IF y = NoError THEN held ELSE [held EXCEPT ![y] = @ + 1]
  OBVIOUS
<1>3. held \in [Errors -> Nat] /\ NoError \notin Errors /\ (y # NoError => y \in Errors)
  BY HeapParts, ErrorsCounted DEF Link
<1>4. /\ HeapOK(a, g) /\ FewerCauses(a, h)
      /\ y # NoError => a.effect[y] = NoError
  <2>1. CASE y = NoError
    BY <1>1, <1>2, <2>1 DEF FewerCauses
  <2>2. CASE y # NoError
    <3>1. PICK b : b = error_unlink_effect(h, y)
      OBVIOUS
    <3>2. HeapOK(b, held) /\ b.effect[y] = NoError /\ FewerCauses(b, h)
      BY <1>3, <2>2, <3>1, UnlinkOK
    <3>3. /\ HeapOK(error_ref(b, y), [held EXCEPT ![y] = @ + 1])
          /\ error_ref(b, y) = [refs |-> [b.refs EXCEPT ![y] = @ + 1], cause |-> b.cause, effect |-> b.effect]
      BY <1>3, <2>2, <3>2, RefOK
    <3>4. a = error_ref(b, y) /\ g = [held EXCEPT ![y] = @ + 1]
      BY <1>1, <1>2, <2>2, <3>1
    <3>5. a.cause = b.cause /\ a.effect = b.effect
      BY <3>3, <3>4
    <3> QED
      BY <3>2, <3>3, <3>4, <3>5 DEF FewerCauses
  <2> QED
    BY <2>1, <2>2
<1>5. /\ a = [refs |-> a.refs, cause |-> a.cause, effect |-> a.effect]
      /\ a.cause \in [Errors -> Link] /\ a.effect \in [Errors -> Link]
      /\ Sound(a.refs, a.cause, a.effect, g)
  BY <1>4, HeapParts DEF HeapOK
<1>6. PICK k : k = EffectWith(a.effect, x, y)
  OBVIOUS
<1>7. PICK new : new = Linked(h, x, y)
  OBVIOUS
<1>8. new = [refs |-> a.refs, cause |-> a.cause, effect |-> k]
  <2>1. CASE y = NoError
    BY <1>1, <1>5, <1>6, <1>7, <2>1 DEF Linked, EffectWith
  <2>2. CASE y # NoError
    <3>1. new = SetEffect(a, y, x)
      BY <1>1, <1>7, <2>2 DEF Linked, SetEffect
    <3>2. SetEffect(a, y, x) = [refs |-> a.refs, cause |-> a.cause, effect |-> [a.effect EXCEPT ![y] = x]]
      BY <1>5, WriteEffect
    <3> QED
      BY <1>6, <2>2, <3>1, <3>2 DEF EffectWith
  <2> QED
    BY <2>1, <2>2
<1>9. new.cause = a.cause
  BY <1>8
<1>10. y # NoError => Unreached(a.cause, x, y)
  BY <1>4, UnreachedFewer DEF FewerCauses
<1>11. g[x] > 0
  <2>1. CASE y = NoError
    BY <1>2, <2>1
  <2>2. CASE y # NoError
    BY <1>2, <1>3, <2>2
  <2> QED
    BY <2>1, <2>2
<1>12. (y = NoError => g = held) /\ (y # NoError => g = [held EXCEPT ![y] = @ + 1])
  BY <1>2
<1>13. CASE a.cause[x] = NoError
  <2>1. error_set_prev(h, x, y) = SetCause(new, x, y)
    BY <1>7, <1>9, <1>13 DEF error_set_prev, SetCause
  <2>2. SetCause(new, x, y) = [refs |-> a.refs, cause |-> [a.cause EXCEPT ![x] = y], effect |-> k]
    BY <1>8, WriteCause
  <2>3. Sound(a.refs, [a.cause EXCEPT ![x] = y],
              EffectWith(a.effect, x, y), held)
    BY <1>3, <1>4, <1>5, <1>10, <1>11, <1>12, <1>13, Relinked
  <2>4. PICK d : d = [a.cause EXCEPT ![x] = y]
    OBVIOUS
  <2>5. HeapOK([refs |-> a.refs, cause |-> d, effect |-> k], held)
    BY <1>6, <2>3, <2>4, HeapFrom
  <2> QED
    BY <2>1, <2>2, <2>4, <2>5
<1>14. CASE a.cause[x] # NoError
  <2>1. PICK z : z = a.cause[x] /\ z # NoError
    BY <1>14
  <2>2. PICK b : b = SetEffect(new, z, NoError)
    OBVIOUS
  <2>3. b = [refs |-> a.refs, cause |-> a.cause, effect |-> [k EXCEPT ![z] = NoError]]
    BY <1>8, <2>2, WriteEffect
  <2>4. error_set_prev(h, x, y) = SetCause(error_unref(b, z), x, y)
    BY <1>7, <1>9, <2>1, <2>2 DEF error_set_prev, SetCause, SetEffect
  <2>5. Replaced(a, SetCause(error_unref(b, z), x, y), x, y, g)
    BY <1>4, <1>6, <1>11, <2>1, <2>3, ReplaceCause
  <2>6. PICK p : p = SetCause(error_unref(b, z), x, y)
    OBVIOUS
  <2>7. Replaced(a, p, x, y, g)
    BY <2>5, <2>6
  <2>8. PICK r, c, f : /\ Sound(r, c, f, g) /\ c[x] = NoError
                       /\ \A e \in Errors : c[e] = a.cause[e] \/ c[e] = NoError
                       /\ y # NoError => f[y] = NoError
                       /\ p = [refs |-> r, cause |-> [c EXCEPT ![x] = y], effect |-> EffectWith(f, x, y)]
    BY <2>7 DEF Replaced
  <2>9. y # NoError => Unreached(c, x, y)
    BY <1>10, <2>8, UnreachedFewer
  <2>10. Sound(r, [c EXCEPT ![x] = y], EffectWith(f, x, y), held)
    BY <1>3, <1>11, <1>12, <2>8, <2>9, Relinked
  <2>11. PICK d, j : d = [c EXCEPT ![x] = y] /\ j = EffectWith(f, x, y)
    OBVIOUS
  <2>12. HeapOK([refs |-> r, cause |-> d, effect |-> j], held)
    BY <2>10, <2>11, HeapFrom
  <2> QED
    BY <2>4, <2>6, <2>8, <2>11, <2>12
<1> QED
  BY <1>13, <1>14
-----------------------------------------------------------------------------
(***************************************************************************)
(* Who holds an error: the areas lst shows it in and rf, the callers of    *)
(* error_ref.                                                              *)
(***************************************************************************)
Showing(lst, e) == {d \in Areas : lst[d] = e}
Held(lst, rf) ==
  [e \in Errors |-> Cardinality(Showing(lst, e)) + (IF e \in rf THEN 1 ELSE 0)]
Plus(held, b) == IF b = NoError THEN held ELSE [held EXCEPT ![b] = @ + 1]
Minus(held, a) == IF a = NoError THEN held ELSE [held EXCEPT ![a] = @ - 1]

\* Areas are finitely many.
LEMMA ShowingCounted ==
  ASSUME NEW lst, NEW e
  PROVE  IsFiniteSet(Showing(lst, e)) /\ Cardinality(Showing(lst, e)) \in Nat
<1>1. Showing(lst, e) \in SUBSET Areas
  BY DEF Showing
<1>2. IsFiniteSet(Showing(lst, e))
  BY <1>1, DiagAssumption, FS_Subset
<1> QED
  BY <1>2, FS_CardinalityType

\* Held counts.
LEMMA HeldTypes ==
  ASSUME NEW lst, NEW rf
  PROVE  /\ Held(lst, rf) \in [Errors -> Nat]
         /\ \A e \in rf \cap Errors : Held(lst, rf)[e] > 0
         /\ \A d \in Areas : lst[d] \in Errors => Held(lst, rf)[lst[d]] > 0
<1>1. \A e \in Errors : Cardinality(Showing(lst, e)) \in Nat
  BY ShowingCounted
<1>2. ASSUME NEW d \in Areas, lst[d] \in Errors PROVE Cardinality(Showing(lst, lst[d])) > 0
  <2>1. IsFiniteSet(Showing(lst, lst[d])) /\ d \in Showing(lst, lst[d])
    BY ShowingCounted DEF Showing
  <2>2. Cardinality(Showing(lst, lst[d])) # 0
    BY <2>1, FS_EmptySet
  <2> QED
    BY <1>1, <1>2, <2>2
<1> QED
  BY <1>1, <1>2 DEF Held

\* An area shows b in place of what it showed.
LEMMA HeldShows ==
  ASSUME NEW lst \in [Areas -> Link], NEW rf, NEW d \in Areas, NEW b \in Link
  PROVE  Held([lst EXCEPT ![d] = b], rf) = Minus(Plus(Held(lst, rf), b), lst[d])
<1>1. PICK new, a : new = [lst EXCEPT ![d] = b] /\ a = lst[d]
  OBVIOUS
<1>2. a \in Link /\ NoError \notin Errors
  BY <1>1, ErrorsCounted
<1>3. PICK v, u, w : v = Held(lst, rf) /\ u = Plus(v, b) /\ w = Minus(u, a)
  OBVIOUS
<1>4. v \in [Errors -> Nat]
  BY <1>3, HeldTypes
<1>5. u \in [Errors -> Nat] /\ \A e \in Errors : u[e] = IF e = b THEN v[e] + 1 ELSE v[e]
  BY <1>2, <1>3, <1>4 DEF Plus, Link
<1>6. w = [e \in Errors |-> w[e]] /\ \A e \in Errors : w[e] = IF e = a THEN u[e] - 1 ELSE u[e]
  <2>1. CASE a = NoError
    BY <1>2, <1>3, <1>5, <2>1 DEF Minus
  <2>2. CASE a # NoError
    BY <1>2, <1>3, <1>5, <2>2 DEF Minus, Link
  <2> QED
    BY <2>1, <2>2
<1>7. ASSUME NEW e \in Errors PROVE Held(new, rf)[e] = w[e]
  <2>1. PICK S : S = Showing(lst, e)
    OBVIOUS
  <2>2. IsFiniteSet(S) /\ Cardinality(S) \in Nat
    BY <2>1, ShowingCounted
  <2>3. d \in S <=> e = a
    BY <1>1, <2>1 DEF Showing
  <2>4. CASE e = b
    <3>1. Showing(new, e) = S \cup {d}
      BY <1>1, <2>1, <2>4 DEF Showing
    <3>2. Cardinality(S \cup {d}) = IF e = a THEN Cardinality(S) ELSE Cardinality(S) + 1
      BY <2>2, <2>3, FS_AddElement
    <3>3. v[e] = Cardinality(S) + (IF e \in rf THEN 1 ELSE 0)
      BY <1>3, <2>1 DEF Held
    <3>4. Held(new, rf)[e] = Cardinality(S \cup {d}) + (IF e \in rf THEN 1 ELSE 0)
      BY <3>1 DEF Held
    <3> QED
      BY <1>5, <1>6, <2>2, <2>4, <3>2, <3>3, <3>4
  <2>5. CASE e # b
    <3>1. Showing(new, e) = S \ {d}
      BY <1>1, <2>1, <2>5 DEF Showing
    <3>2. Cardinality(S \ {d}) = IF e = a THEN Cardinality(S) - 1 ELSE Cardinality(S)
      BY <2>2, <2>3, FS_RemoveElement
    <3>3. v[e] = Cardinality(S) + (IF e \in rf THEN 1 ELSE 0)
      BY <1>3, <2>1 DEF Held
    <3>4. Held(new, rf)[e] = Cardinality(S \ {d}) + (IF e \in rf THEN 1 ELSE 0)
      BY <3>1 DEF Held
    <3> QED
      BY <1>5, <1>6, <2>2, <2>5, <3>2, <3>3, <3>4
  <2> QED
    BY <2>4, <2>5
<1>8. Held(new, rf) = [e \in Errors |-> Held(new, rf)[e]]
  BY DEF Held
<1>9. Held(new, rf) = w
  BY <1>6, <1>7, <1>8
<1> QED
  BY <1>1, <1>3, <1>9

\* new has x once more, or once less, than rf.
Changes(new, rf, x, k) ==
  /\ \A e \in Errors : e # x => (e \in new <=> e \in rf)
  /\ (IF x \in new THEN 1 ELSE 0) = (IF x \in rf THEN 1 ELSE 0) + k

\* x is held by a caller of error_ref, or no longer.
LEMMA HeldChanges ==
  ASSUME NEW lst, NEW rf, NEW x \in Errors, NEW new, NEW k \in Int, Changes(new, rf, x, k)
  PROVE  Held(lst, new) = [Held(lst, rf) EXCEPT ![x] = @ + k]
<1>1. \A e \in Errors : Cardinality(Showing(lst, e)) \in Nat
  BY ShowingCounted
<1>2. PICK v : v = [Held(lst, rf) EXCEPT ![x] = @ + k]
  OBVIOUS
<1>3. v = [e \in Errors |-> v[e]] /\ Held(lst, new) = [e \in Errors |-> Held(lst, new)[e]]
  BY <1>2 DEF Held
<1>4. ASSUME NEW e \in Errors PROVE Held(lst, new)[e] = v[e]
  <2>1. CASE e = x
    BY <1>1, <1>2, <2>1 DEF Held, Changes
  <2>2. CASE e # x
    BY <1>2, <2>2 DEF Held, Changes
  <2> QED
    BY <2>1, <2>2
<1> QED
  BY <1>2, <1>3, <1>4

\* error_ref by a caller.
LEMMA HeldReffed ==
  ASSUME NEW lst, NEW rf, NEW x \in Errors, x \notin rf, NEW new, new = rf \cup {x}
  PROVE  Held(lst, new) = [Held(lst, rf) EXCEPT ![x] = @ + 1]
<1>1. Changes(new, rf, x, 1)
  BY DEF Changes
<1> QED
  BY <1>1, HeldChanges

\* error_unref by a caller.
LEMMA HeldUnreffed ==
  ASSUME NEW lst, NEW rf, NEW x \in Errors, x \in rf, NEW new, new = rf \ {x}
  PROVE  Held(lst, new) = [Held(lst, rf) EXCEPT ![x] = @ - 1]
<1>1. PICK k \in Int : k = -1
  OBVIOUS
<1>2. Changes(new, rf, x, k)
  BY <1>1 DEF Changes
<1>3. Held(lst, new) = [Held(lst, rf) EXCEPT ![x] = @ + k]
  BY <1>2, HeldChanges
<1>4. Held(lst, rf)[x] \in Nat /\ Held(lst, rf)[x] + k = Held(lst, rf)[x] - 1
  BY <1>1, HeldTypes
<1> QED
  BY <1>3, <1>4
-----------------------------------------------------------------------------
\* diag_set_error in an area that shows a, or no error.
LEMMA SetErrorOK ==
  ASSUME NEW h, NEW held, HeapOK(h, held), NEW x \in Errors, NEW a \in Link, a # NoError => held[a] > 0
  PROVE  HeapOK(error_unlink_effect(IF a = NoError THEN error_ref(h, x)
                                    ELSE error_unref(error_ref(h, x), a), x),
                Minus(Plus(held, x), a))
<1>1. held \in [Errors -> Nat] /\ NoError \notin Errors
  BY HeapParts, ErrorsCounted
<1>2. PICK u : u = [held EXCEPT ![x] = @ + 1]
  OBVIOUS
<1>3. PICK g : g = error_ref(h, x)
  OBVIOUS
<1>4. HeapOK(g, u) /\ u = Plus(held, x)
  <2>1. HeapOK(error_ref(h, x), [held EXCEPT ![x] = @ + 1])
    BY RefOK
  <2> QED
    BY <1>1, <1>2, <1>3, <2>1 DEF Plus
<1>5. u \in [Errors -> Nat] /\ u[x] = held[x] + 1 /\ \A e \in Errors : e # x => u[e] = held[e]
  BY <1>1, <1>2
<1>6. CASE a = NoError
  <2>1. u[x] > 0
    BY <1>1, <1>5
  <2>2. HeapOK(error_unlink_effect(g, x), u)
    BY <1>4, <2>1, UnlinkOK
  <2>3. Minus(Plus(held, x), a) = u
    BY <1>4, <1>6 DEF Minus
  <2> QED
    BY <1>3, <1>6, <2>2, <2>3
<1>7. CASE a # NoError
  <2>1. a \in Errors
    BY <1>7 DEF Link
  <2>2. u[a] > 0
    BY <1>1, <1>5, <1>7, <2>1
  <2>3. PICK w : w = [u EXCEPT ![a] = @ - 1]
    OBVIOUS
  <2>4. HeapOK(error_unref(g, a), w)
    BY <1>4, <2>1, <2>2, <2>3, UnrefOK
  <2>5. w[x] > 0
    <3>1. held[x] \in Nat /\ held[a] > 0
      BY <1>1, <1>7
    <3>2. w[x] = IF x = a THEN u[x] - 1 ELSE u[x]
      BY <1>5, <2>1, <2>3
    <3> QED
      BY <1>5, <3>1, <3>2
  <2>6. HeapOK(error_unlink_effect(error_unref(g, a), x), w)
    BY <2>4, <2>5, UnlinkOK
  <2>7. Minus(Plus(held, x), a) = w
    BY <1>4, <1>7, <2>3 DEF Minus
  <2> QED
    BY <1>3, <1>7, <2>6, <2>7
<1> QED
  BY <1>6, <1>7

\* diag_clear of an area that shows a, or no error.
LEMMA ClearOK ==
  ASSUME NEW h, NEW held, HeapOK(h, held), NEW a \in Link, a # NoError => held[a] > 0
  PROVE  HeapOK(IF a = NoError THEN h ELSE error_unref(h, a), Minus(held, a))
<1>1. CASE a = NoError
  BY <1>1 DEF Minus
<1>2. CASE a # NoError
  <2>1. a \in Errors
    BY <1>2 DEF Link
  <2>2. HeapOK(error_unref(h, a), [held EXCEPT ![a] = @ - 1])
    BY <1>2, <2>1, UnrefOK
  <2> QED
    BY <1>2, <2>2 DEF Minus
<1> QED
  BY <1>1, <1>2
-----------------------------------------------------------------------------
(***************************************************************************)
(* The invariant: what the heap counts is who holds, plus its own links.   *)
(***************************************************************************)
DiagInv ==
  /\ last \in [Areas -> Link] /\ reffed \in SUBSET Errors
  /\ HeapOK(heap, Held(last, reffed))

\* The area d shows b, and the heap knows.
LEMMA Shows ==
  ASSUME DiagInv, NEW d \in Areas, NEW b \in Link, last' = [last EXCEPT ![d] = b], UNCHANGED reffed,
         HeapOK(heap', Minus(Plus(Held(last, reffed), b), last[d]))
  PROVE  DiagInv'
<1>1. last' \in [Areas -> Link]
  BY DEF DiagInv
<1>2. Held(last', reffed) = Minus(Plus(Held(last, reffed), b), last[d])
  BY HeldShows DEF DiagInv
<1> QED
  BY <1>1, <1>2 DEF DiagInv

\* What an area shows is held.
LEMMA ShownIsHeld ==
  ASSUME DiagInv, NEW d \in Areas
  PROVE  last[d] \in Link /\ (last[d] # NoError => last[d] \in Errors /\ Held(last, reffed)[last[d]] > 0)
  BY HeldTypes DEF DiagInv, Link

\* diag_set and diag_set_error.
LEMMA SetInv == ASSUME DiagInv, NEW d \in Areas, DiagSet(d) \/ DiagSetError(d) PROVE DiagInv'
<1>1. PICK e \in Errors : /\ heap' = diag_set_error(heap, d, e)
                          /\ last' = [last EXCEPT ![d] = e] /\ UNCHANGED reffed
  BY DEF DiagSet, DiagSetError, DiagInv
<1>2. HeapOK(heap, Held(last, reffed)) /\ last[d] \in Link /\ e \in Link
  BY ShownIsHeld DEF DiagInv, Link
<1>3. PICK a, h, held : a = last[d] /\ h = heap /\ held = Held(last, reffed)
  OBVIOUS
<1>4. HeapOK(h, held) /\ a \in Link /\ (a # NoError => held[a] > 0)
  BY <1>2, <1>3, ShownIsHeld
<1>5. HeapOK(error_unlink_effect(IF a = NoError THEN error_ref(h, e)
                                 ELSE error_unref(error_ref(h, e), a), e),
             Minus(Plus(held, e), a))
  BY <1>4, SetErrorOK
<1>6. heap' = error_unlink_effect(IF a = NoError THEN error_ref(h, e)
                                  ELSE error_unref(error_ref(h, e), a), e)
  BY <1>1, <1>3 DEF diag_set_error
<1>7. HeapOK(heap', Minus(Plus(Held(last, reffed), e), last[d]))
  BY <1>3, <1>5, <1>6
<1> QED
  BY <1>1, <1>2, <1>7, Shows

\* diag_add: the error shown so far becomes the cause of the new one.
LEMMA AddInv == ASSUME DiagInv, NEW d \in Areas, DiagAdd(d) PROVE DiagInv'
<1>1. PICK e \in Errors \ Live(heap) :
        /\ heap' = [error_ref(heap, e) EXCEPT !.cause[e] = last[d], !.effect[last[d]] = e]
        /\ last' = [last EXCEPT ![d] = e] /\ UNCHANGED reffed
  BY DEF DiagAdd
<1>2. PICK a, h, held : a = last[d] /\ h = heap /\ held = Held(last, reffed)
  OBVIOUS
<1>3. /\ HeapOK(h, held) /\ a \in Errors /\ held[a] > 0 /\ h.effect[a] = NoError /\ e \in Link
  BY <1>2, ShownIsHeld DEF DiagInv, DiagAdd, Link
<1>4. h.refs[e] = 0
  <2>1. h.refs[e] \in Nat
    BY <1>3, HeapParts
  <2> QED
    BY <1>1, <1>2, <2>1 DEF Live
<1>5. HeapOK([error_ref(h, e) EXCEPT !.cause[e] = a, !.effect[a] = e],
             [[held EXCEPT ![e] = @ + 1] EXCEPT ![a] = @ - 1])
  BY <1>3, <1>4, AddOK
<1>6. NoError \notin Errors
  BY ErrorsCounted
<1>7. Minus(Plus(held, e), a) = [[held EXCEPT ![e] = @ + 1] EXCEPT ![a] = @ - 1]
  BY <1>3, <1>6 DEF Plus, Minus
<1>8. HeapOK(heap', Minus(Plus(held, e), a))
  BY <1>1, <1>2, <1>5, <1>7
<1>9. HeapOK(heap', Minus(Plus(Held(last, reffed), e), last[d]))
  BY <1>2, <1>8
<1> QED
  BY <1>1, <1>3, <1>9, Shows

\* diag_clear.
LEMMA ClearInv == ASSUME DiagInv, NEW d \in Areas, DiagClear(d) PROVE DiagInv'
<1>1. PICK a, h, held : a = last[d] /\ h = heap /\ held = Held(last, reffed)
  OBVIOUS
<1>2. HeapOK(h, held) /\ a \in Link /\ (a # NoError => held[a] > 0)
  BY <1>1, ShownIsHeld DEF DiagInv
<1>3. HeapOK(IF a = NoError THEN h ELSE error_unref(h, a), Minus(held, a))
  BY <1>2, ClearOK
<1>4. heap' = IF a = NoError THEN h ELSE error_unref(h, a)
  BY <1>1 DEF DiagClear, diag_clear
<1>5. Plus(held, NoError) = held /\ NoError \in Link
  BY DEF Plus, Link
<1>6. HeapOK(heap', Minus(Plus(Held(last, reffed), NoError), last[d]))
  BY <1>1, <1>3, <1>4, <1>5
<1> QED
  BY <1>5, <1>6, Shows DEF DiagClear

\* An error that is handed over is held as often as before.
LEMMA PlusMinus ==
  ASSUME NEW held \in [Errors -> Nat], NEW a \in Link, NEW b \in Link
  PROVE  Minus(Minus(Plus(held, b), a), b) = Minus(held, a)
<1>1. PICK u, v, w, z : /\ u = Plus(held, b) /\ v = Minus(u, a) /\ w = Minus(v, b)
                        /\ z = Minus(held, a)
  OBVIOUS
<1>2. NoError \notin Errors
  BY ErrorsCounted
<1>3. u \in [Errors -> Int] /\ \A e \in Errors : u[e] = IF e = b THEN held[e] + 1 ELSE held[e]
  BY <1>1, <1>2 DEF Plus, Link
<1>4. v \in [Errors -> Int] /\ \A e \in Errors : v[e] = IF e = a THEN u[e] - 1 ELSE u[e]
  BY <1>1, <1>2, <1>3 DEF Minus, Link
<1>5. w = [e \in Errors |-> w[e]] /\ \A e \in Errors : w[e] = IF e = b THEN v[e] - 1 ELSE v[e]
  BY <1>1, <1>2, <1>4 DEF Minus, Link
<1>6. z = [e \in Errors |-> z[e]] /\ \A e \in Errors : z[e] = IF e = a THEN held[e] - 1 ELSE held[e]
  BY <1>1, <1>2 DEF Minus, Link
<1>7. \A e \in Errors : w[e] = z[e]
  BY <1>3, <1>4, <1>5, <1>6
<1>8. w = z
  BY <1>5, <1>6, <1>7
<1> QED
  BY <1>1, <1>8

\* diag_move: from hands its error over, that of to is cleared.
LEMMA MoveInv == ASSUME DiagInv, NEW from \in Areas, NEW d \in Areas, DiagMove(from, d) PROVE DiagInv'
<1>1. PICK a, b, h, held : a = last[d] /\ b = last[from] /\ h = heap /\ held = Held(last, reffed)
  OBVIOUS
<1>2. HeapOK(h, held) /\ a \in Link /\ b \in Link /\ (a # NoError => held[a] > 0) /\ NoError \in Link
  BY <1>1, ShownIsHeld DEF DiagInv, Link
<1>3. HeapOK(IF a = NoError THEN h ELSE error_unref(h, a), Minus(held, a))
  BY <1>2, ClearOK
<1>4. heap' = IF a = NoError THEN h ELSE error_unref(h, a)
  BY <1>1 DEF DiagMove, diag_clear
<1>5. PICK one, two : one = [last EXCEPT ![d] = b] /\ two = [one EXCEPT ![from] = NoError]
  OBVIOUS
<1>6. from # d /\ UNCHANGED reffed /\ last \in [Areas -> Link]
  BY DEF DiagMove, DiagInv
<1>7. last' = two /\ one \in [Areas -> Link] /\ two \in [Areas -> Link] /\ one[from] = b
  <2>1. last' = [last EXCEPT ![from] = NoError, ![d] = b]
    BY <1>1 DEF DiagMove
  <2>2. one \in [Areas -> Link] /\ two \in [Areas -> Link] /\ last' \in [Areas -> Link]
    BY <1>2, <1>5, <1>6, <2>1
  <2>3. \A x \in Areas : last'[x] = two[x]
    BY <1>2, <1>5, <1>6, <2>1, <2>2
  <2>4. one[from] = b
    BY <1>1, <1>5, <1>6
  <2> QED
    BY <2>2, <2>3, <2>4
<1>8. Held(one, reffed) = Minus(Plus(held, b), a)
  BY <1>1, <1>2, <1>5, <1>6, HeldShows
<1>9. Held(two, reffed) = Minus(Plus(Held(one, reffed), NoError), b)
  <2>1. Held([one EXCEPT ![from] = NoError], reffed) = Minus(Plus(Held(one, reffed), NoError), one[from])
    BY <1>2, <1>7, HeldShows
  <2> QED
    BY <1>5, <1>7, <2>1
<1>10. Held(two, reffed) = Minus(Minus(Plus(held, b), a), b)
  BY <1>8, <1>9 DEF Plus
<1>11. Held(two, reffed) = Minus(held, a)
  BY <1>1, <1>2, <1>10, HeldTypes, PlusMinus
<1>12. HeapOK(heap', Held(last', reffed))
  BY <1>3, <1>4, <1>7, <1>11
<1> QED
  BY <1>6, <1>7, <1>12 DEF DiagInv

\* error_ref of the error that is shown.
LEMMA RefInv == ASSUME DiagInv, NEW d \in Areas, ErrorRef(d) PROVE DiagInv'
<1>1. PICK x : x = last[d]
  OBVIOUS
<1>2. x \in Errors /\ x \notin reffed /\ heap' = error_ref(heap, x) /\ reffed' = reffed \cup {x}
      /\ UNCHANGED last
  BY <1>1, ShownIsHeld DEF ErrorRef
<1>3. HeapOK(error_ref(heap, x), [Held(last, reffed) EXCEPT ![x] = @ + 1])
  BY <1>2, RefOK DEF DiagInv
<1>4. Held(last, reffed') = [Held(last, reffed) EXCEPT ![x] = @ + 1]
  BY <1>2, HeldReffed
<1>5. HeapOK(heap', Held(last', reffed'))
  BY <1>2, <1>3, <1>4
<1> QED
  BY <1>2, <1>5 DEF DiagInv

\* error_unref of an error that was referred to.
LEMMA UnrefInv == ASSUME DiagInv, ErrorUnref PROVE DiagInv'
<1>1. PICK x \in reffed : heap' = error_unref(heap, x) /\ reffed' = reffed \ {x} /\ UNCHANGED last
  BY DEF ErrorUnref
<1>2. x \in Errors /\ Held(last, reffed)[x] > 0
  BY <1>1, HeldTypes DEF DiagInv
<1>3. HeapOK(error_unref(heap, x), [Held(last, reffed) EXCEPT ![x] = @ - 1])
  BY <1>2, UnrefOK DEF DiagInv
<1>4. Held(last, reffed') = [Held(last, reffed) EXCEPT ![x] = @ - 1]
  BY <1>1, <1>2, HeldUnreffed
<1>5. HeapOK(heap', Held(last', reffed'))
  BY <1>1, <1>3, <1>4
<1> QED
  BY <1>1, <1>5 DEF DiagInv

\* error_set_prev, whose search for a cycle suffices.
LEMMA SetPrevInv == ASSUME DiagInv, ErrorSetPrev PROVE DiagInv'
<1>1. PICK x \in reffed, y \in reffed \cup {NoError} :
        ~MakesCycle(heap, x, y) /\ heap' = error_set_prev(heap, x, y) /\ UNCHANGED <<last, reffed>>
  BY DEF ErrorSetPrev
<1>2. PICK h, held : h = heap /\ held = Held(last, reffed)
  OBVIOUS
<1>3. x \in Errors /\ held[x] > 0 /\ y \in Link /\ HeapOK(h, held)
  BY <1>1, <1>2, HeldTypes DEF DiagInv, Link
<1>4. ASSUME y # NoError PROVE held[y] > 0 /\ x # y /\ Unreached(h.cause, x, y)
  <2>1. y \in Errors /\ held[y] > 0
    BY <1>1, <1>2, <1>4, HeldTypes DEF DiagInv
  <2>2. x # y /\ (h.effect[x] = NoError \/ x \notin Causes(h, y))
    BY <1>1, <1>2, <1>4 DEF MakesCycle
  <2>3. h.cause \in [Errors -> Link] /\ Inverse2(h.cause, h.effect) /\ Acyclic(h.cause)
    BY <1>3, HeapParts
  <2>4. CASE h.effect[x] = NoError
    BY <1>3, <2>1, <2>2, <2>3, <2>4, UnreachedTop
  <2>5. CASE x \notin Causes(h, y)
    BY <1>3, <2>1, <2>2, <2>3, <2>5, UnreachedSearched
  <2> QED
    BY <2>1, <2>2, <2>4, <2>5
<1>5. HeapOK(error_set_prev(h, x, y), held)
  BY <1>3, <1>4, SetPrevOK
<1> QED
  BY <1>1, <1>2, <1>5 DEF DiagInv

\* No operation of an area breaks the invariant.
LEMMA DiagNextInv == ASSUME DiagInv, NEW d \in Areas, DiagNext(d) PROVE DiagInv'
  BY SetInv, AddInv, ClearInv, MoveInv, RefInv, UnrefInv, SetPrevInv DEF DiagNext

\* Nothing is held at first.
LEMMA DiagInitInv == ASSUME DiagInit PROVE DiagInv
<1> USE DEF DiagInit
<1>1. last \in [Areas -> Link] /\ reffed \in SUBSET Errors /\ NoError \notin Errors
  BY ErrorsCounted DEF Link
<1>2. PICK held : held = [e \in Errors |-> 0]
  OBVIOUS
<1>3. Held(last, reffed) = held
  <2>1. \A e \in Errors : Showing(last, e) = {}
    BY <1>1 DEF Showing
  <2>2. \A e \in Errors : Cardinality(Showing(last, e)) = 0
    BY <2>1, FS_EmptySet
  <2> QED
    BY <1>2, <2>2 DEF Held
<1>4. PICK r, c, f : r = [e \in Errors |-> 0] /\ c = [e \in Errors |-> NoError] /\ f = c
  OBVIOUS
<1>5. Sound(r, c, f, held)
  <2>1. Typed(r, c, f, held) /\ Inverse2(c, f)
    BY <1>1, <1>2, <1>4 DEF Typed, Inverse2, Link
  <2>2. Acyclic(c)
    BY <1>1, <1>4 DEF Acyclic
  <2> QED
    BY <1>2, <1>4, <2>1, <2>2 DEF Sound
<1>6. HeapOK([refs |-> r, cause |-> c, effect |-> f], held)
  BY <1>5, HeapFrom
<1>7. heap = [refs |-> r, cause |-> c, effect |-> f]
  BY <1>4
<1> QED
  BY <1>1, <1>3, <1>6, <1>7 DEF DiagInv
-----------------------------------------------------------------------------
\* The area of s that diag_destroy clears last, and the sets of at most k areas.
Chosen(s) == CHOOSE d \in s : TRUE
Small(ds, k) == {s \in SUBSET ds : Cardinality(s) <= k}

\* f destroys sets of areas one area after another.
Clears(f, h, T) == f = [s \in T |-> IF s = {} THEN h ELSE diag_clear(f[s \ {Chosen(s)}], Chosen(s))]

\* One area fewer.
LEMMA OneFewer ==
  ASSUME NEW s, IsFiniteSet(s), s # {}
  PROVE  /\ Chosen(s) \in s /\ IsFiniteSet(s \ {Chosen(s)}) /\ Cardinality(s) \in Nat \ {0}
         /\ Cardinality(s \ {Chosen(s)}) = Cardinality(s) - 1
<1>1. Chosen(s) \in s
  BY DEF Chosen
<1>2. Cardinality(s) \in Nat \ {0}
  BY FS_CardinalityType, FS_EmptySet
<1> QED
  BY <1>1, <1>2, FS_RemoveElement

\* Such functions exist.
LEMMA ClearsExists ==
  ASSUME NEW h, NEW ds, IsFiniteSet(ds)
  PROVE  \E f : Clears(f, h, SUBSET ds)
<1>1. PICK n \in Nat : n = Cardinality(ds)
  BY FS_CardinalityType
<1>2. \A s \in SUBSET ds : IsFiniteSet(s) /\ Cardinality(s) \in Nat /\ Cardinality(s) <= n
  BY <1>1, FS_Subset, FS_CardinalityType
<1> DEFINE T == {k \in 0 .. n : \E f : Clears(f, h, Small(ds, k))}
<1>3. 0 \in T
  <2>1. PICK f : f = [s \in Small(ds, 0) |-> h]
    OBVIOUS
  <2>2. \A s \in Small(ds, 0) : s = {}
    <3> SUFFICES ASSUME NEW s \in Small(ds, 0) PROVE s = {}
      OBVIOUS
    <3>1. IsFiniteSet(s) /\ Cardinality(s) = 0
      BY <1>2 DEF Small
    <3> QED
      BY <3>1, FS_EmptySet
  <2>3. Clears(f, h, Small(ds, 0))
    BY <2>1, <2>2 DEF Clears
  <2> QED
    BY <2>3
<1>4. ASSUME NEW k \in 1 .. n, k - 1 \in T PROVE k \in T
  <2>1. PICK f : Clears(f, h, Small(ds, k - 1))
    BY <1>4
  <2>2. PICK g : g = [s \in Small(ds, k) |->
                       IF s = {} THEN h ELSE diag_clear(f[s \ {Chosen(s)}], Chosen(s))]
    OBVIOUS
  <2>3. \A s \in Small(ds, k - 1) : g[s] = f[s]
    <3>1. Small(ds, k - 1) \subseteq Small(ds, k)
      BY <1>2 DEF Small
    <3> QED
      BY <2>1, <2>2, <3>1 DEF Clears
  <2>4. ASSUME NEW s \in Small(ds, k), s # {} PROVE s \ {Chosen(s)} \in Small(ds, k - 1)
    <3>1. s \in SUBSET ds /\ IsFiniteSet(s) /\ Cardinality(s) <= k
      BY <1>2 DEF Small
    <3>2. Cardinality(s) \in Nat /\ Cardinality(s \ {Chosen(s)}) = Cardinality(s) - 1
      BY <2>4, <3>1, OneFewer
    <3> QED
      BY <3>1, <3>2 DEF Small
  <2>5. \A s \in Small(ds, k) : s # {} => g[s \ {Chosen(s)}] = f[s \ {Chosen(s)}]
    BY <2>3, <2>4
  <2>6. g = [s \in Small(ds, k) |->
              IF s = {} THEN h ELSE diag_clear(g[s \ {Chosen(s)}], Chosen(s))]
    BY <2>2, <2>5
  <2>7. Clears(g, h, Small(ds, k))
    BY <2>6 DEF Clears
  <2> QED
    BY <2>7
<1>5. 0 .. n \subseteq T
  <2> HIDE DEF T
  <2> QED
    BY <1>3, <1>4, UpTo
<1>6. Small(ds, n) = SUBSET ds
  BY <1>2 DEF Small
<1> QED
  BY <1>5, <1>6

\* diag_destroy is such a function.
LEMMA DestroyClears ==
  ASSUME NEW h, NEW ds, IsFiniteSet(ds)
  PROVE  \E f : Clears(f, h, SUBSET ds) /\ diag_destroy(h, ds) = f[ds]
<1> DEFINE iter[s \in SUBSET ds] ==
             IF s = {} THEN h ELSE diag_clear(iter[s \ {CHOOSE d \in s : TRUE}], CHOOSE d \in s : TRUE)
<1>1. diag_destroy(h, ds) = iter[ds]
  BY DEF diag_destroy, FoldSet, MapThenFoldSet
<1>2. iter = CHOOSE f : Clears(f, h, SUBSET ds)
  BY DEF Clears, Chosen
<1>3. Clears(iter, h, SUBSET ds)
  <2> HIDE DEF iter
  <2> QED
    BY <1>2, ClearsExists
<1> QED
  BY <1>1, <1>3

\* lst when the areas of s show nothing.
Without(lst, s) == [d \in Areas |-> IF d \in s THEN NoError ELSE lst[d]]

\* diag_destroy takes back what the areas held.
LEMMA DestroyOK ==
  ASSUME DiagInv, NEW ds \in SUBSET Areas
  PROVE  HeapOK(diag_destroy(heap, ds), Held(Without(last, ds), reffed))
<1>1. IsFiniteSet(ds) /\ last \in [Areas -> Link] /\ NoError \in Link
  BY DiagAssumption, FS_Subset DEF DiagInv, Link
<1>2. PICK f : Clears(f, heap, SUBSET ds) /\ diag_destroy(heap, ds) = f[ds]
  BY <1>1, DestroyClears
<1>3. PICK n \in Nat : n = Cardinality(ds)
  BY <1>1, FS_CardinalityType
<1>4. \A s \in SUBSET ds : IsFiniteSet(s) /\ Cardinality(s) \in Nat /\ s \subseteq Areas
  BY <1>1, FS_Subset, FS_CardinalityType
<1> DEFINE good(s) == HeapOK(f[s], Held(Without(last, s), reffed))
           T == {k \in 0 .. n : \A s \in SUBSET ds : Cardinality(s) = k => good(s)}
<1>5. 0 \in T
  <2>1. Without(last, {}) = last
    BY <1>1 DEF Without
  <2>2. f[{}] = heap
    BY <1>2 DEF Clears
  <2>3. good({})
    BY <2>1, <2>2 DEF DiagInv
  <2>4. \A s \in SUBSET ds : Cardinality(s) = 0 => s = {}
    BY <1>4, FS_EmptySet
  <2> HIDE DEF good
  <2> QED
    BY <2>3, <2>4
<1>6. ASSUME NEW k \in 1 .. n, k - 1 \in T PROVE k \in T
  <2> SUFFICES ASSUME NEW s \in SUBSET ds, Cardinality(s) = k PROVE good(s)
    OBVIOUS
  <2>1. IsFiniteSet(s) /\ s # {} /\ s \subseteq Areas
    BY <1>4, FS_EmptySet
  <2>2. PICK d \in s : d = Chosen(s)
    BY <2>1, OneFewer
  <2>3. PICK t \in SUBSET ds : t = s \ {d}
    OBVIOUS
  <2>4. Cardinality(t) = k - 1 /\ d \in Areas /\ d \notin t
    BY <2>1, <2>2, <2>3, OneFewer
  <2>5. good(t)
    <3> HIDE DEF good
    <3> QED
      BY <1>6, <2>4
  <2>6. PICK g, lst, held, a : /\ g = f[t] /\ lst = Without(last, t) /\ held = Held(lst, reffed)
                               /\ a = last[d]
    OBVIOUS
  <2>7. HeapOK(g, held) /\ lst \in [Areas -> Link] /\ lst[d] = a /\ a \in Link
    BY <1>1, <2>4, <2>5, <2>6 DEF Without
  <2>8. a # NoError => held[a] > 0
    BY <2>4, <2>6, <2>7, HeldTypes DEF Link
  <2>9. HeapOK(IF a = NoError THEN g ELSE error_unref(g, a), Minus(held, a))
    BY <2>7, <2>8, ClearOK
  <2>10. f[s] = IF a = NoError THEN g ELSE error_unref(g, a)
    <3>1. f[s] = diag_clear(f[s \ {Chosen(s)}], Chosen(s))
      BY <1>2, <2>1 DEF Clears
    <3> QED
      BY <2>2, <2>3, <2>6, <3>1 DEF diag_clear
  <2>11. Without(last, s) = [lst EXCEPT ![d] = NoError]
    <3>1. PICK u, v : u = Without(last, s) /\ v = [lst EXCEPT ![d] = NoError]
      OBVIOUS
    <3>2. u = [x \in Areas |-> u[x]] /\ v = [x \in Areas |-> v[x]]
      BY <2>7, <3>1 DEF Without
    <3>3. \A x \in Areas : u[x] = v[x]
      BY <2>2, <2>3, <2>4, <2>6, <2>7, <3>1 DEF Without
    <3> QED
      BY <3>1, <3>2, <3>3
  <2>12. Held([lst EXCEPT ![d] = NoError], reffed) = Minus(Plus(held, NoError), lst[d])
    BY <1>1, <2>4, <2>6, <2>7, HeldShows
  <2>13. Plus(held, NoError) = held
    BY DEF Plus
  <2>14. HeapOK(f[s], Held(Without(last, s), reffed))
    BY <2>7, <2>9, <2>10, <2>11, <2>12, <2>13
  <2> QED
    BY <2>14
<1>7. 0 .. n \subseteq T
  <2> HIDE DEF T
  <2> QED
    BY <1>5, <1>6, UpTo
<1>8. good(ds)
  <2>1. n \in T
    BY <1>7
  <2> HIDE DEF good
  <2> QED
    BY <1>3, <2>1
<1> QED
  BY <1>2, <1>8

\* Areas that are destroyed show nothing any more.
LEMMA DestroyInv ==
  ASSUME DiagInv, NEW ds \in SUBSET Areas, heap' = diag_destroy(heap, ds),
         last' = [d \in Areas |-> IF d \in ds THEN NoError ELSE last[d]], UNCHANGED reffed
  PROVE  DiagInv'
<1>1. last' = Without(last, ds)
  BY DEF Without
<1>2. HeapOK(heap', Held(last', reffed))
  BY <1>1, DestroyOK
<1>3. last' \in [Areas -> Link]
  BY DEF DiagInv, Link
<1> QED
  BY <1>2, <1>3 DEF DiagInv

-----------------------------------------------------------------------------
\* What the invariant says of references.
LEMMA InvRefs == ASSUME DiagInv PROVE RefsExact
<1>1. PICK r, c, f, held : r = heap.refs /\ c = heap.cause /\ f = heap.effect /\ held = Held(last, reffed)
  OBVIOUS
<1>2. Sound(r, c, f, held) /\ NoError \notin Errors
  BY <1>1, ErrorsCounted DEF DiagInv, HeapOK
<1>3. ASSUME NEW e \in Errors
      PROVE  r[e] = Cardinality(Showing(last, e)) + (IF f[e] \in Live(heap) THEN 1 ELSE 0)
                      + (IF e \in reffed THEN 1 ELSE 0)
  <2>1. f[e] # NoError <=> f[e] \in Live(heap)
    <3>1. f[e] \in Link /\ r \in [Errors -> Nat]
      BY <1>2 DEF Sound, Typed
    <3>2. ASSUME f[e] # NoError PROVE f[e] \in Errors /\ r[f[e]] # 0
      BY <1>2, <3>1, <3>2 DEF Sound, Inverse2, Link
    <3> QED
      BY <1>1, <1>2, <3>1, <3>2 DEF Live
  <2>2. r[e] = held[e] + (IF f[e] # NoError THEN 1 ELSE 0)
    BY <1>2 DEF Sound
  <2>3. held[e] = Cardinality(Showing(last, e)) + (IF e \in reffed THEN 1 ELSE 0)
    BY <1>1 DEF Held
  <2>4. Cardinality(Showing(last, e)) \in Nat
    BY ShowingCounted
  <2> QED
    BY <2>1, <2>2, <2>3, <2>4
<1> QED
  BY <1>1, <1>3 DEF RefsExact, CountedBy, Showing

\* What it says of links.
LEMMA InvChains == ASSUME DiagInv PROVE ChainsSound
<1>1. /\ heap.cause \in [Errors -> Link] /\ heap.effect \in [Errors -> Link]
      /\ Inverse2(heap.cause, heap.effect) /\ Acyclic(heap.cause)
  BY HeapParts DEF DiagInv
<1>2. \A x \in Errors :
        /\ heap.refs[x] \in Nat
        /\ heap.refs[x] = 0 => heap.cause[x] = NoError /\ heap.effect[x] = NoError
  BY DEF DiagInv, HeapOK, Sound, Typed
<1>3. ASSUME NEW x \in Errors PROVE x \notin Causes(heap, x)
  BY <1>1, NoOwnCause
<1>4. \A x \in Errors : x \notin Live(heap) => heap.refs[x] = 0
  BY <1>2 DEF Live
<1> QED
  BY <1>1, <1>2, <1>3, <1>4 DEF ChainsSound, Inverse2, Link

\* What it says of types.
LEMMA InvTypes == ASSUME DiagInv PROVE DiagTypeOK
<1>1. /\ heap = [refs |-> heap.refs, cause |-> heap.cause, effect |-> heap.effect]
      /\ heap.refs \in [Errors -> Nat] /\ heap.cause \in [Errors -> Link] /\ heap.effect \in [Errors -> Link]
  BY HeapParts DEF DiagInv
<1>2. heap \in [refs : [Errors -> Nat], cause : [Errors -> Link], effect : [Errors -> Link]]
  BY <1>1, Zenon
<1> QED
  BY <1>2 DEF DiagTypeOK, DiagInv, Link
-----------------------------------------------------------------------------
(***************************************************************************)
(* Fibers, their stacks and their lists.                                   *)
(***************************************************************************)
CordTypeOK ==
  /\ fiber \in Areas \cup {NoFiber}
  /\ alive \in SUBSET Fibers /\ dead \in Seq(Fibers)
  /\ garbage \in Fibers \cup {NoFiber}
  /\ caller \in [Areas -> Areas \cup {NoFiber}]
  /\ flags \in [Areas -> SUBSET FiberFlags]
  /\ func \in SUBSET Fibers
  /\ handles \in [Areas -> SUBSET Fibers]
  /\ stale \in SUBSET Fibers /\ asked \in SUBSET Fibers /\ calls \in Seq(Areas)
  /\ last \in [Areas -> Errors \cup {NoError}] /\ reffed \in SUBSET Errors

\* Each fiber on the stack was called by the one below it, which made it.
StackOK ==
  /\ fiber = NoFiber => calls = <<>>
  /\ fiber # NoFiber =>
       /\ Stack[1] = Sched
       /\ \A i \in 1 .. Len(calls) :
            /\ Stack[i + 1] \in func
            /\ caller[Stack[i + 1]] = Stack[i]
            /\ Stack[i + 1] \in handles[Stack[i]]
       /\ \A i, j \in 1 .. Len(calls) + 1 : Stack[i] = Stack[j] => i = j

\* A handle is of one fiber only, and only the running fiber's may be dead.
HandlesOK ==
  /\ \A x \in Areas : \A f \in handles[x] : f \in func \/ (x = fiber /\ IsDead(f))
  /\ \A x, y \in Areas : handles[x] \cap handles[y] # {} => x = y
  /\ HandlesCurrent

ListsOK ==
  /\ \A i, j \in DOMAIN dead : dead[i] = dead[j] => i = j
  /\ alive \cap DeadFibers = {}
  /\ Collected \subseteq alive
  /\ func = alive \ Collected
  /\ \A f \in func : ~IsDead(f)
  /\ \A f \in DeadFibers \cup Collected : IsDead(f)
  /\ \A f \in Fibers \ func : last[f] = NoError

SlabsOK ==
  /\ IsFiniteSet(Allocated)
  /\ leaked \in Nat /\ SlabsFree >= 0

IInv == CordTypeOK /\ StackOK /\ HandlesOK /\ ListsOK /\ SlabsOK

\* What FibersAssumption and DiagAssumption say of the constants that is used below.
LEMMA Distinguished ==
  /\ Areas = Fibers \cup {Sched} /\ Sched \notin Fibers
  /\ NoFiber \notin Areas /\ NoError \notin Errors /\ Slabs \in Nat
  BY FibersAssumption, DiagAssumption

\* Stack is calls with the running fiber on top.
LEMMA StackTypes ==
  ASSUME CordTypeOK, fiber # NoFiber
  PROVE  /\ Stack \in Seq(Areas) /\ Len(Stack) = Len(calls) + 1
         /\ Stack[Len(calls) + 1] = fiber
         /\ \A i \in 1 .. Len(calls) : Stack[i] = calls[i]
         /\ Len(calls) \in Nat
  BY DEF CordTypeOK, Stack

\* After fiber_is_dead was asked, every handle is of a fiber with a function.
LEMMA PolledHandles ==
  ASSUME IInv, Polled
  PROVE  /\ fiber \in Areas /\ fiber # NoFiber
         /\ \A x \in Areas : handles[x] \subseteq func
<1>1. fiber \in Areas /\ fiber # NoFiber
  BY Distinguished DEF IInv, CordTypeOK, Polled
<1> QED
  BY <1>1 DEF IInv, HandlesOK, Polled

-----------------------------------------------------------------------------
\* cord_create makes a cord on which the invariant holds.
LEMMA InitIInv == Init => IInv
<1> SUFFICES ASSUME Init PROVE IInv
  OBVIOUS
<1> USE Distinguished DEF Init, CordInit, DiagInit
<1>1. CordTypeOK
  BY DEF CordTypeOK, FiberFlags
<1>2. StackOK
  <2>1. Stack = <<Sched>> /\ Len(calls) = 0
    BY DEF Stack
  <2>2. Stack[1] = Sched
    BY <2>1
  <2> QED
    BY <2>1, <2>2 DEF StackOK
<1>3. DeadFibers = {} /\ Collected = {}
  BY DEF DeadFibers, Collected
<1>4. HandlesOK
  BY DEF HandlesOK, HandlesCurrent, IsDead
<1>5. ListsOK
  BY <1>3 DEF ListsOK, IsDead
<1>6. SlabsOK
  <2>1. Allocated = {}
    BY <1>3 DEF Allocated
  <2> QED
    BY <2>1, FS_EmptySet DEF SlabsOK, SlabsFree
<1> QED
  BY <1>1, <1>2, <1>4, <1>5, <1>6 DEF IInv
-----------------------------------------------------------------------------
\* The fiber that runs has a function, or is the scheduler.
LEMMA Running ==
  ASSUME IInv, fiber # NoFiber
  PROVE  /\ fiber \in func \cup {Sched}
         /\ fiber # Sched => Len(calls) > 0 /\ fiber \in func
<1> USE DEF IInv
<1>1. /\ Len(calls) \in Nat /\ Stack[Len(calls) + 1] = fiber
  BY StackTypes
<1>2. Stack[1] = Sched
  BY DEF StackOK
<1>3. CASE Len(calls) = 0
  BY <1>1, <1>2, <1>3
<1>4. CASE Len(calls) > 0
  <2>1. Len(calls) \in 1 .. Len(calls)
    BY <1>1, <1>4
  <2> QED
    BY <1>1, <1>4, <2>1 DEF StackOK
<1> QED
  BY <1>1, <1>3, <1>4

\* The stack is the same while no call is made or answered.
LEMMA StackStays ==
  ASSUME IInv, fiber # NoFiber, UNCHANGED <<fiber, calls>>, func \subseteq func',
         \A x \in func : caller'[x] = caller[x],
         \A x \in Areas : handles[x] \subseteq handles'[x]
  PROVE  StackOK'
<1>1. /\ Len(calls) \in Nat
      /\ \A i \in 1 .. Len(calls) : Stack[i] \in Areas
  BY StackTypes DEF IInv, CordTypeOK
<1>2. Stack' = Stack
  BY DEF Stack
<1> QED
  BY <1>1, <1>2 DEF IInv, StackOK

\* The operations on errors show errors only in areas in use (diag.c).
LEMMA DiagLast ==
  ASSUME IInv, Polled, DiagNext(fiber)
  PROVE  /\ last' \in [Areas -> Errors \cup {NoError}] /\ reffed' \in SUBSET Errors
         /\ \A f \in Fibers \ func : last'[f] = NoError
<1> USE DEF IInv
<1>1. fiber \in Areas /\ fiber # NoFiber
  BY PolledHandles
<1>2. fiber \in func \cup {Sched}
  BY <1>1, Running
<1>3. \A f \in Fibers \ func : f # fiber /\ last[f] = NoError
  BY <1>2, Distinguished DEF ListsOK
<1>4. /\ last \in [Areas -> Errors \cup {NoError}] /\ reffed \in SUBSET Errors
     /\ Fibers \subseteq Areas
  BY Distinguished DEF CordTypeOK
<1> USE <1>1, <1>3, <1>4
<1>5. CASE DiagSet(fiber)
  BY <1>5 DEF DiagSet
<1>6. CASE DiagSetError(fiber)
  <2>1. PICK e \in reffed : last' = [last EXCEPT ![fiber] = e]
    BY <1>6 DEF DiagSetError
  <2> QED
    BY <1>6, <2>1 DEF DiagSetError
<1>7. CASE DiagAdd(fiber)
  BY <1>7 DEF DiagAdd
<1>8. CASE DiagClear(fiber)
  BY <1>8 DEF DiagClear
<1>9. ASSUME NEW from \in Areas, DiagMove(from, fiber)
      PROVE  /\ last' \in [Areas -> Errors \cup {NoError}] /\ reffed' \in SUBSET Errors
             /\ \A f \in Fibers \ func : last'[f] = NoError
  BY <1>9 DEF DiagMove
<1>10. CASE ErrorRef(fiber) \/ ErrorUnref \/ ErrorSetPrev
  BY <1>10 DEF ErrorRef, ErrorUnref, ErrorSetPrev
<1> QED
  BY <1>5, <1>6, <1>7, <1>8, <1>9, <1>10 DEF DiagNext

\* An error of fiber_attr_new or of the running function leaves the cord as it is.
LEMMA UseDiagIInv == IInv /\ (UseDiag \/ AttrFailed) => IInv'
<1> SUFFICES ASSUME IInv, UseDiag \/ AttrFailed PROVE IInv'
  OBVIOUS
<1>1. Polled /\ DiagNext(fiber) /\ UNCHANGED cordVars
  BY DEF UseDiag, AttrFailed, DiagNext
<1>2. /\ last' \in [Areas -> Errors \cup {NoError}] /\ reffed' \in SUBSET Errors
      /\ \A f \in Fibers \ func : last'[f] = NoError
  BY <1>1, DiagLast
<1> USE <1>1, <1>2 DEF IInv, cordVars, fiberVars
<1>3. CordTypeOK'
  BY DEF CordTypeOK
<1>4. StackOK'
  BY PolledHandles, StackStays
<1>5. HandlesOK'
  BY DEF HandlesOK, HandlesCurrent, IsDead
<1>6. ListsOK'
  BY DEF ListsOK, DeadFibers, Collected, IsDead
<1>7. SlabsOK'
  BY DEF SlabsOK, SlabsFree, Allocated, DeadFibers
<1> QED
  BY <1>3, <1>4, <1>5, <1>6, <1>7

\* fiber_new_ex fails, and loses a stack at most if it had one.
LEMMA NewFailedIInv == ASSUME NEW attr PROVE IInv /\ NewFailed(attr) => IInv'
<1> SUFFICES ASSUME IInv, NewFailed(attr) PROVE IInv'
  OBVIOUS
<1>1. /\ Polled /\ DiagNext(fiber)
      /\ UNCHANGED <<fiber, alive, dead, garbage, caller, flags, func, handles, stale,
                     asked, calls>>
      /\ leaked' = leaked \/ (leaked' = leaked + 1 /\ SlabsFree > 0)
  BY DEF NewFailed, DiagNext
<1>2. /\ last' \in [Areas -> Errors \cup {NoError}] /\ reffed' \in SUBSET Errors
      /\ \A f \in Fibers \ func : last'[f] = NoError
  BY <1>1, DiagLast
<1> USE <1>1, <1>2 DEF IInv
<1>3. CordTypeOK'
  BY DEF CordTypeOK
<1>4. StackOK'
  BY PolledHandles, StackStays
<1>5. HandlesOK'
  BY DEF HandlesOK, HandlesCurrent, IsDead
<1>6. ListsOK'
  BY DEF ListsOK, DeadFibers, Collected, IsDead
<1>7. SlabsOK'
  <2>1. Allocated' = Allocated
    BY DEF Allocated, DeadFibers
  <2>2. Cardinality(Allocated) \in Nat
    BY FS_CardinalityType DEF SlabsOK
  <2> QED
    BY <2>1, <2>2, Distinguished DEF SlabsOK, SlabsFree
<1> QED
  BY <1>3, <1>4, <1>5, <1>6, <1>7
-----------------------------------------------------------------------------
(***************************************************************************)
(* A fiber that begins a life is in no handle and not on the stack: these  *)
(* are of fibers with a function (fiber_new_ex, after every fiber_is_dead).*)
(***************************************************************************)
LEMMA StartLifeOK ==
  ASSUME IInv, Polled, NEW f \in Fibers \ func, NEW attr \in SUBSET {"custom"},
         StartLife(f, attr), \A x \in func : caller'[x] = caller[x]
  PROVE  StackOK' /\ HandlesOK'
<1> USE DEF IInv
<1>1. /\ fiber \in Areas /\ fiber # NoFiber /\ f \in Areas /\ f \in Fibers
      /\ \A x \in Areas : handles[x] \subseteq func
  BY PolledHandles, Distinguished
<1>2. /\ UNCHANGED <<fiber, calls>> /\ func' = func \cup {f}
      /\ flags' = [flags EXCEPT ![f] = attr] /\ asked' = asked \ {f}
      /\ stale' = stale \cup {h \in {f} : \E x \in Areas : h \in handles[x]}
      /\ handles' = [handles EXCEPT ![fiber] = @ \cup {f}]
  BY DEF StartLife
<1>3. /\ flags \in [Areas -> SUBSET FiberFlags] /\ func \subseteq Areas
      /\ handles \in [Areas -> SUBSET Fibers]
  BY Distinguished DEF CordTypeOK
<1>4. StackOK'
  <2>1. \A x \in Areas : handles[x] \subseteq handles'[x]
    BY <1>1, <1>2, <1>3
  <2> QED
    BY <1>1, <1>2, <2>1, StackStays
<1>5. HandlesOK'
  <2>1. \A x \in Areas : f \notin handles[x]
    BY <1>1
  <2>2. \A x \in Areas : handles'[x] = IF x = fiber THEN handles[x] \cup {f} ELSE handles[x]
    BY <1>1, <1>2, <1>3
  <2>3. \A x \in Areas : \A h \in handles'[x] : h \in func'
    BY <1>1, <1>2, <2>2
  <2>4. \A x, y \in Areas : handles'[x] \cap handles'[y] # {} => x = y
    BY <2>1, <2>2 DEF HandlesOK
  <2>5. HandlesCurrent'
    <3>1. stale' = {}
      BY <1>2, <2>1 DEF HandlesOK, HandlesCurrent
    <3>2. \A x \in func' : "cancelled" \in flags'[x] <=> x \in asked'
      BY <1>1, <1>2, <1>3 DEF HandlesOK, HandlesCurrent
    <3> QED
      BY <3>1, <3>2 DEF HandlesCurrent
  <2> QED
    BY <2>3, <2>4, <2>5 DEF HandlesOK
<1> QED
  BY <1>4, <1>5

\* fiber_new_ex takes the fiber that died last from the cache.
LEMMA NewRecycledIInv ==
  ASSUME NEW attr \in SUBSET {"custom"}
  PROVE  IInv /\ NewRecycled(attr) => IInv'
<1> SUFFICES ASSUME IInv, NewRecycled(attr) PROVE IInv'
  OBVIOUS
<1> DEFINE f == Head(dead)
<1> USE DEF IInv
<1>1. /\ Polled /\ fiber_is_reusable(attr) /\ dead # <<>> /\ StartLife(f, attr)
      /\ dead' = Tail(dead) /\ alive' = alive \cup {f}
      /\ UNCHANGED <<caller, heap, last, reffed>>
  BY DEF NewRecycled, diagVars
<1>2. /\ UNCHANGED <<fiber, garbage, leaked, calls>> /\ func' = func \cup {f}
      /\ flags' = [flags EXCEPT ![f] = attr] /\ asked' = asked \ {f}
      /\ handles' = [handles EXCEPT ![fiber] = @ \cup {f}]
  BY <1>1 DEF StartLife
<1>3. /\ f \in DeadFibers /\ f \in Fibers
      /\ DeadFibers' = DeadFibers \ {f} /\ dead' \in Seq(Fibers)
      /\ \A i, j \in DOMAIN dead' : dead'[i] = dead'[j] => i = j
  <2>1. /\ dead \in Seq(Fibers) /\ Len(dead) \in Nat \ {0} /\ DOMAIN dead = 1 .. Len(dead)
        /\ f = dead[1] /\ f \in Fibers
    BY <1>1 DEF CordTypeOK
  <2>2. /\ dead' \in Seq(Fibers) /\ Len(dead') = Len(dead) - 1
        /\ DOMAIN dead' = 1 .. Len(dead) - 1
        /\ \A i \in 1 .. Len(dead) - 1 : dead'[i] = dead[i + 1]
    BY <1>1, <2>1
  <2>3. \A i, j \in 1 .. Len(dead) : dead[i] = dead[j] => i = j
    BY <2>1 DEF ListsOK
  <2>4. \A i \in 2 .. Len(dead) : dead[i] # f /\ dead[i] \in DeadFibers'
    <3> SUFFICES ASSUME NEW i \in 2 .. Len(dead)
                 PROVE  dead[i] # f /\ dead[i] \in DeadFibers'
      OBVIOUS
    <3>1. i - 1 \in 1 .. Len(dead) - 1 /\ dead'[i - 1] = dead[i]
      BY <2>1, <2>2
    <3> QED
      BY <2>1, <2>2, <2>3, <3>1 DEF DeadFibers
  <2>5. DeadFibers' \subseteq DeadFibers \ {f}
    <3>1. ASSUME NEW i \in 1 .. Len(dead) - 1 PROVE dead'[i] \in DeadFibers \ {f}
      <4>1. i + 1 \in 2 .. Len(dead) /\ i + 1 \in DOMAIN dead /\ dead'[i] = dead[i + 1]
        BY <2>1, <2>2
      <4> QED
        BY <2>4, <4>1 DEF DeadFibers
    <3> QED
      BY <2>2, <3>1 DEF DeadFibers
  <2>6. DeadFibers \ {f} \subseteq DeadFibers'
    BY <2>1, <2>4 DEF DeadFibers
  <2>7. ASSUME NEW i \in 1 .. Len(dead) - 1, NEW j \in 1 .. Len(dead) - 1,
               dead'[i] = dead'[j]
        PROVE  i = j
    <3>1. /\ i + 1 \in 1 .. Len(dead) /\ j + 1 \in 1 .. Len(dead)
          /\ dead[i + 1] = dead[j + 1]
      BY <2>1, <2>2, <2>7
    <3>2. i + 1 = j + 1
      BY <2>3, <3>1
    <3> QED
      BY <3>2
  <2>8. f \in DeadFibers
    BY <2>1 DEF DeadFibers
  <2> QED
    BY <2>1, <2>2, <2>5, <2>6, <2>7, <2>8
<1>4. f \notin alive /\ f \notin func /\ f \notin Collected /\ Collected' = Collected
  BY <1>2, <1>3 DEF ListsOK, Collected
<1>5. StackOK' /\ HandlesOK'
  BY <1>1, <1>3, <1>4, StartLifeOK
<1>6. CordTypeOK'
  <2>1. fiber \in Areas /\ attr \subseteq FiberFlags
    BY <1>1, PolledHandles DEF FiberFlags
  <2>2. stale' \subseteq Fibers
    BY <1>1, <1>3 DEF StartLife, CordTypeOK
  <2> QED
    BY <1>1, <1>2, <1>3, <2>1, <2>2, Distinguished DEF CordTypeOK
<1>7. ListsOK'
  <2>1. \A x \in Areas : x # f => flags'[x] = flags[x]
    BY <1>2 DEF CordTypeOK
  <2>2. f \in Areas /\ "dead" \notin flags'[f] /\ alive \subseteq Areas
    BY <1>2, <1>3, Distinguished DEF CordTypeOK
  <2>3. DeadFibers \subseteq Areas /\ Collected \subseteq Areas
    BY Distinguished DEF CordTypeOK, DeadFibers, ListsOK
  <2> QED
    BY <1>1, <1>2, <1>3, <1>4, <2>1, <2>2, <2>3 DEF ListsOK, IsDead
<1>8. SlabsOK'
  <2>1. Allocated' = Allocated
    BY <1>1, <1>3 DEF Allocated
  <2> QED
    BY <1>2, <2>1 DEF SlabsOK, SlabsFree
<1> QED
  BY <1>5, <1>6, <1>7, <1>8

\* fiber_new_ex takes memory and a stack for a new fiber.
LEMMA NewAllocatedIInv ==
  ASSUME NEW attr \in SUBSET {"custom"}
  PROVE  IInv /\ NewAllocated(attr) => IInv'
<1> SUFFICES ASSUME IInv, NewAllocated(attr) PROVE IInv'
  OBVIOUS
<1> USE DEF IInv
<1>1. PICK f \in Fibers \ Allocated :
        /\ Polled /\ SlabsFree > 0 /\ StartLife(f, attr)
        /\ alive' = alive \cup {f} /\ caller' = [caller EXCEPT ![f] = NoFiber]
        /\ UNCHANGED <<dead, heap, last, reffed>>
  BY DEF NewAllocated, diagVars
<1>2. /\ UNCHANGED <<fiber, garbage, leaked, calls>> /\ func' = func \cup {f}
      /\ flags' = [flags EXCEPT ![f] = attr] /\ asked' = asked \ {f}
      /\ handles' = [handles EXCEPT ![fiber] = @ \cup {f}]
  BY <1>1 DEF StartLife
<1>3. /\ DeadFibers' = DeadFibers /\ Collected' = Collected
      /\ f \notin alive /\ f \notin DeadFibers /\ f \notin Collected /\ f \notin func
  BY <1>1, <1>2 DEF Allocated, DeadFibers, Collected, ListsOK
<1>4. /\ \A x \in func : caller'[x] = caller[x]
      /\ fiber \in Areas /\ attr \subseteq FiberFlags
  BY <1>1, <1>3, PolledHandles, Distinguished DEF CordTypeOK, FiberFlags
<1>5. StackOK' /\ HandlesOK'
  BY <1>1, <1>3, <1>4, StartLifeOK
<1>6. CordTypeOK'
  <2>1. stale' \subseteq Fibers
    BY <1>1, <1>3 DEF StartLife, CordTypeOK
  <2> QED
    BY <1>1, <1>2, <1>4, <2>1, Distinguished DEF CordTypeOK
<1>7. ListsOK'
  <2>1. \A x \in Areas : x # f => flags'[x] = flags[x]
    BY <1>2 DEF CordTypeOK
  <2>2. f \in Areas /\ "dead" \notin flags'[f] /\ alive \subseteq Areas
    BY <1>1, <1>2, Distinguished DEF CordTypeOK
  <2>3. DeadFibers \subseteq Areas /\ Collected \subseteq Areas
    BY Distinguished DEF CordTypeOK, DeadFibers, ListsOK
  <2> QED
    BY <1>1, <1>2, <1>3, <2>1, <2>2, <2>3 DEF ListsOK, IsDead
<1>8. SlabsOK'
  <2>1. Allocated' = Allocated \cup {f} /\ f \notin Allocated
    BY <1>1, <1>3 DEF Allocated
  <2>2. /\ IsFiniteSet(Allocated') /\ Cardinality(Allocated) \in Nat
        /\ Cardinality(Allocated') = Cardinality(Allocated) + 1
    BY <2>1, FS_AddElement, FS_CardinalityType DEF SlabsOK
  <2> QED
    BY <1>1, <1>2, <2>2, Distinguished DEF SlabsOK, SlabsFree
<1> QED
  BY <1>5, <1>6, <1>7, <1>8
-----------------------------------------------------------------------------
\* The fiber whose call came back dead is no longer in use.
LEMMA FiberIsDeadIInv ==
  ASSUME NEW f \in Fibers
  PROVE  IInv /\ FiberIsDead(f) => IInv'
<1> SUFFICES ASSUME IInv, FiberIsDead(f) PROVE IInv'
  OBVIOUS
<1> USE DEF IInv
<1>1. /\ fiber # NoFiber /\ f \in handles[fiber] /\ IsDead(f)
      /\ handles' = [handles EXCEPT ![fiber] = @ \ {f}]
      /\ UNCHANGED <<fiber, alive, dead, garbage, caller, flags, func, leaked, stale,
                     asked, calls, heap, last, reffed>>
  BY DEF FiberIsDead, diagVars
<1>2. /\ Len(calls) \in Nat /\ \A i \in 1 .. Len(calls) : Stack[i] \in Areas
      /\ Stack' = Stack
  BY <1>1, StackTypes DEF CordTypeOK, Stack
<1>3. fiber \in Areas /\ handles \in [Areas -> SUBSET Fibers]
  BY <1>1 DEF CordTypeOK
<1>4. \A x \in Areas : handles'[x] = IF x = fiber THEN handles[x] \ {f} ELSE handles[x]
  BY <1>1, <1>3
<1>5. StackOK'
  <2>1. \A i \in 1 .. Len(calls) : Stack[i + 1] # f
    BY <1>1, <1>2 DEF StackOK, ListsOK
  <2>2. \A i \in 1 .. Len(calls) : Stack[i + 1] \in handles'[Stack[i]]
    BY <1>1, <1>2, <1>4, <2>1 DEF StackOK
  <2> QED
    BY <1>1, <1>2, <2>2 DEF StackOK
<1>6. CordTypeOK'
  BY <1>1, <1>3 DEF CordTypeOK
<1>7. HandlesOK'
  BY <1>1, <1>4 DEF HandlesOK, HandlesCurrent, IsDead
<1>8. ListsOK'
  BY <1>1 DEF ListsOK, DeadFibers, Collected, IsDead
<1>9. SlabsOK'
  BY <1>1 DEF SlabsOK, SlabsFree, Allocated, DeadFibers
<1> QED
  BY <1>5, <1>6, <1>7, <1>8, <1>9

\* fiber_cancel marks a fiber in the life its caller means.
LEMMA FiberCancelIInv ==
  ASSUME NEW f \in Fibers
  PROVE  IInv /\ FiberCancel(f) => IInv'
<1> SUFFICES ASSUME IInv, FiberCancel(f) PROVE IInv'
  OBVIOUS
<1> USE DEF IInv
<1>1. /\ Polled /\ flags' = [flags EXCEPT ![f] = @ \cup {"cancelled"}]
      /\ asked' = asked \cup {f}
      /\ UNCHANGED <<fiber, alive, dead, garbage, caller, func, leaked, handles, stale,
                     calls, heap, last, reffed>>
  BY DEF FiberCancel, diagVars
<1>2. f \in Areas /\ Fibers \subseteq Areas
  BY Distinguished
<1>3. \A x \in Areas : flags'[x] = IF x = f THEN flags[x] \cup {"cancelled"} ELSE flags[x]
  BY <1>1, <1>2 DEF CordTypeOK
<1>4. \A x \in Areas : "dead" \in flags'[x] <=> "dead" \in flags[x]
  BY <1>1, <1>2 DEF CordTypeOK
<1>5. StackOK'
  BY <1>1, PolledHandles, StackStays
<1>6. CordTypeOK'
  BY <1>1, <1>2 DEF CordTypeOK, FiberFlags
<1>7. HandlesOK'
  <2>1. func \subseteq Fibers /\ handles \in [Areas -> SUBSET Fibers]
    BY DEF CordTypeOK
  <2>2. HandlesCurrent'
    BY <1>1, <1>2, <1>3, <2>1 DEF HandlesOK, HandlesCurrent
  <2> QED
    BY <1>1, <1>4, <2>1, <2>2 DEF HandlesOK, IsDead
<1>8. ListsOK'
  <2>1. DeadFibers' = DeadFibers /\ Collected' = Collected
    BY <1>1 DEF DeadFibers, Collected
  <2>2. func \subseteq Fibers /\ DeadFibers \subseteq Fibers /\ Collected \subseteq Fibers
    BY DEF CordTypeOK, DeadFibers, ListsOK
  <2> QED
    BY <1>1, <1>4, <2>1, <2>2 DEF ListsOK, IsDead
<1>9. SlabsOK'
  BY <1>1 DEF SlabsOK, SlabsFree, Allocated, DeadFibers
<1> QED
  BY <1>5, <1>6, <1>7, <1>8, <1>9

\* A fiber that may be called is not on the stack: it would have two callers.
LEMMA CalleeIsOffStack ==
  ASSUME IInv, Polled, NEW f \in Fibers, f \in handles[fiber],
         NEW k \in 1 .. Len(calls) + 1
  PROVE  Stack[k] # f
<1> USE DEF IInv
<1>1. fiber \in Areas /\ fiber # NoFiber
  BY PolledHandles
<1>2. /\ Len(calls) \in Nat /\ Stack[Len(calls) + 1] = fiber
      /\ \A i \in 1 .. Len(calls) : Stack[i] \in Areas
  BY <1>1, StackTypes DEF CordTypeOK
<1> SUFFICES ASSUME Stack[k] = f PROVE FALSE
  OBVIOUS
<1>3. k # 1
  BY <1>1, Distinguished DEF StackOK
<1> DEFINE i == k - 1
<1>4. i \in 1 .. Len(calls) /\ k = i + 1
  BY <1>2, <1>3
<1>5. f \in handles[Stack[i]] /\ Stack[i] \in Areas
  BY <1>1, <1>2, <1>4 DEF StackOK
<1>6. Stack[i] = fiber
  BY <1>1, <1>5 DEF HandlesOK
<1>7. i = Len(calls) + 1
  BY <1>1, <1>2, <1>4, <1>6 DEF StackOK
<1> QED
  BY <1>2, <1>4, <1>7

\* fiber_call puts the callee on the stack.
LEMMA FiberCallIInv ==
  ASSUME NEW f \in Fibers
  PROVE  IInv /\ FiberCall(f) => IInv'
<1> SUFFICES ASSUME IInv, FiberCall(f) PROVE IInv'
  OBVIOUS
<1> USE DEF IInv
<1>1. /\ Polled /\ f \in handles[fiber]
      /\ caller' = [caller EXCEPT ![f] = fiber]
      /\ flags' = [flags EXCEPT ![fiber] = @ \ {"running"}, ![f] = @ \cup {"running"}]
      /\ fiber' = f /\ calls' = Append(calls, fiber)
      /\ UNCHANGED <<alive, dead, garbage, func, leaked, handles, stale, asked, heap, last,
                     reffed>>
  BY DEF FiberCall, diagVars
<1>2. /\ fiber \in Areas /\ fiber # NoFiber /\ f \in Areas /\ f # NoFiber /\ f \in func
      /\ \A x \in Areas : handles[x] \subseteq func
      /\ Fibers \subseteq Areas
  BY <1>1, PolledHandles, Distinguished
<1>3. /\ Len(calls) \in Nat /\ Stack[Len(calls) + 1] = fiber
      /\ Stack \in Seq(Areas) /\ Len(Stack) = Len(calls) + 1
      /\ \A i \in 1 .. Len(calls) : Stack[i] \in Areas
  BY <1>2, StackTypes DEF CordTypeOK
<1>4. /\ calls' = Stack /\ Stack' = Append(Stack, f)
  BY <1>1 DEF Stack
<1>5. /\ Len(calls') = Len(calls) + 1 /\ Stack'[Len(calls) + 2] = f
      /\ \A i \in 1 .. Len(calls) + 1 : Stack'[i] = Stack[i]
  BY <1>2, <1>3, <1>4
<1>6. \A x \in Areas : "dead" \in flags'[x] <=> "dead" \in flags[x]
  BY <1>1, <1>2 DEF CordTypeOK
<1>7. \A x \in Areas : "cancelled" \in flags'[x] <=> "cancelled" \in flags[x]
  BY <1>1, <1>2 DEF CordTypeOK
<1>8. StackOK'
  <2>1. Stack'[1] = Sched
    BY <1>2, <1>3, <1>5 DEF StackOK
  <2>2. ASSUME NEW i \in 1 .. Len(calls) + 1
        PROVE  /\ Stack'[i + 1] \in func /\ caller'[Stack'[i + 1]] = Stack'[i]
               /\ Stack'[i + 1] \in handles[Stack'[i]]
    <3>1. CASE i = Len(calls) + 1
      BY <1>1, <1>2, <1>3, <1>5, <3>1 DEF CordTypeOK
    <3>2. CASE i \in 1 .. Len(calls)
      <4>1. /\ i + 1 \in 1 .. Len(calls) + 1 /\ Stack[i + 1] # f
            /\ Stack'[i + 1] = Stack[i + 1] /\ Stack'[i] = Stack[i]
        BY <1>1, <1>3, <1>5, <3>2, CalleeIsOffStack
      <4>2. caller'[Stack[i + 1]] = caller[Stack[i + 1]]
        BY <1>1, <1>2, <4>1 DEF CordTypeOK
      <4> QED
        BY <1>2, <3>2, <4>1, <4>2 DEF StackOK
    <3> QED
      BY <1>3, <3>1, <3>2
  <2>3. ASSUME NEW i \in 1 .. Len(calls) + 2, NEW j \in 1 .. Len(calls) + 2,
               Stack'[i] = Stack'[j]
        PROVE  i = j
    <3>1. \A k \in 1 .. Len(calls) + 1 : Stack[k] # f
      BY <1>1, CalleeIsOffStack
    <3>2. CASE i = Len(calls) + 2 \/ j = Len(calls) + 2
      BY <1>3, <1>5, <2>3, <3>1, <3>2
    <3>3. CASE i \in 1 .. Len(calls) + 1 /\ j \in 1 .. Len(calls) + 1
      BY <1>2, <1>5, <2>3, <3>3 DEF StackOK
    <3> QED
      BY <1>3, <3>2, <3>3
  <2> QED
    BY <1>1, <1>2, <1>3, <1>5, <2>1, <2>2, <2>3 DEF StackOK
<1>9. CordTypeOK'
  <2>1. calls' \in Seq(Areas)
    BY <1>3, <1>4
  <2> QED
    BY <1>1, <1>2, <2>1 DEF CordTypeOK, FiberFlags
<1>10. HandlesOK'
  <2>1. HandlesCurrent'
    BY <1>1, <1>2, <1>7 DEF HandlesOK, HandlesCurrent, CordTypeOK
  <2> QED
    BY <1>1, <1>2, <2>1 DEF HandlesOK
<1>11. ListsOK'
  <2>1. DeadFibers' = DeadFibers /\ Collected' = Collected
    BY <1>1 DEF DeadFibers, Collected
  <2>2. func \subseteq Areas /\ DeadFibers \subseteq Areas /\ Collected \subseteq Areas
    BY <1>2 DEF CordTypeOK, DeadFibers, ListsOK
  <2> QED
    BY <1>1, <1>6, <2>1, <2>2 DEF ListsOK, IsDead
<1>12. SlabsOK'
  BY <1>1 DEF SlabsOK, SlabsFree, Allocated, DeadFibers
<1> QED
  BY <1>8, <1>9, <1>10, <1>11, <1>12
-----------------------------------------------------------------------------
\* fiber_yield resumes the fiber below on the stack, which made the one that yields.
LEMMA YieldPops ==
  ASSUME IInv, fiber # NoFiber, fiber # Sched, NEW fl \in SUBSET FiberFlags, Yield(fl),
         func \ {fiber} \subseteq func', UNCHANGED handles
  PROVE  /\ StackOK'
         /\ fiber \in func /\ fiber' \in Areas /\ fiber' \notin {NoFiber, fiber}
         /\ fiber \in handles[fiber']
         /\ calls' \in Seq(Areas) /\ caller' \in [Areas -> Areas \cup {NoFiber}]
         /\ flags' \in [Areas -> SUBSET FiberFlags]
         /\ \A x \in Areas : \A fg \in {"dead", "cancelled"} :
              fg \in flags'[x] <=> fg \in (IF x = fiber THEN fl ELSE flags[x])
<1> USE DEF IInv
<1> DEFINE n == Len(calls)
<1>1. /\ fiber \in Areas /\ NoFiber \notin Areas /\ Sched \in Areas /\ fiber \in func
      /\ n \in Nat /\ n > 0
  BY Running, StackTypes, Distinguished DEF CordTypeOK
<1>2. /\ Stack[n + 1] = fiber /\ Stack \in Seq(Areas) /\ Len(Stack) = n + 1
      /\ \A i \in 1 .. n : Stack[i] = calls[i] /\ Stack[i] \in Areas
  BY <1>1, StackTypes DEF CordTypeOK
<1>3. /\ caller' = [caller EXCEPT ![fiber] = Sched]
      /\ flags' = [flags EXCEPT ![fiber] = fl \ {"running"},
                                ![caller[fiber]] = @ \cup {"running"}]
      /\ fiber' = caller[fiber] /\ calls' = Front(calls)
  BY DEF Yield
<1>4. /\ caller[fiber] = Stack[n] /\ fiber \in handles[Stack[n]]
      /\ Stack[n] \in Areas /\ Stack[n] # fiber
  <2>1. n \in 1 .. n /\ n \in 1 .. n + 1 /\ n + 1 \in 1 .. n + 1
    BY <1>1
  <2>2. Stack[n] # Stack[n + 1]
    BY <1>1, <2>1 DEF StackOK
  <2> QED
    BY <1>1, <1>2, <2>1, <2>2 DEF StackOK
<1>5. /\ calls' \in Seq(Areas) /\ Len(calls') = n - 1
      /\ \A i \in 1 .. n - 1 : calls'[i] = calls[i]
  <2>1. calls' = SubSeq(calls, 1, n - 1)
    BY <1>3 DEF Front
  <2>2. calls \in Seq(Areas) /\ 1 \in Int /\ n - 1 \in Int /\ 1 .. n - 1 \subseteq 1 .. n
    BY <1>1 DEF CordTypeOK
  <2>3. \A i \in 1 .. n - 1 : calls[i] \in Areas
    BY <2>2
  <2>4. /\ SubSeq(calls, 1, n - 1) \in Seq(Areas)
        /\ Len(SubSeq(calls, 1, n - 1)) = IF 1 <= n - 1 THEN n - 1 - 1 + 1 ELSE 0
        /\ \A i \in 1 .. n - 1 - 1 + 1 : SubSeq(calls, 1, n - 1)[i] = calls[1 + i - 1]
    BY <2>2, <2>3, SubSeqProperties
  <2>5. n - 1 - 1 + 1 = n - 1 /\ (1 <= n - 1 \/ n - 1 = 0)
    <3>1. \A k \in Nat : k > 0 => k - 1 - 1 + 1 = k - 1 /\ (1 <= k - 1 \/ k - 1 = 0)
      OBVIOUS
    <3> QED
      BY <1>1, <3>1
  <2>6. /\ calls' \in Seq(Areas) /\ Len(calls') = n - 1
        /\ \A i \in 1 .. n - 1 : calls'[i] = calls[1 + i - 1]
    BY <2>1, <2>4, <2>5
  <2>7. \A i \in 1 .. n - 1 : 1 + i - 1 = i
    BY <1>1
  <2> QED
    BY <2>6, <2>7
<1>6. \A i \in 1 .. n : Stack'[i] = Stack[i]
  BY <1>1, <1>2, <1>3, <1>4, <1>5 DEF Stack
<1>7. StackOK'
  <2>1. Stack'[1] = Sched
    BY <1>1, <1>6 DEF StackOK
  <2>2. ASSUME NEW i \in 1 .. n - 1
        PROVE  /\ Stack'[i + 1] \in func' /\ caller'[Stack'[i + 1]] = Stack'[i]
               /\ Stack'[i + 1] \in handles'[Stack'[i]]
    <3>1. /\ i \in 1 .. n /\ i + 1 \in 1 .. n /\ i + 1 \in 1 .. n + 1
          /\ n + 1 \in 1 .. n + 1 /\ i + 1 # n + 1
      BY <1>1
    <3>2. /\ Stack'[i + 1] = Stack[i + 1] /\ Stack'[i] = Stack[i]
          /\ Stack[i + 1] \in Areas
      BY <1>2, <1>6, <3>1
    <3>3. Stack[i + 1] # fiber
      BY <1>1, <1>2, <3>1 DEF StackOK
    <3>4. /\ Stack[i + 1] \in func /\ caller[Stack[i + 1]] = Stack[i]
          /\ Stack[i + 1] \in handles[Stack[i]]
      BY <3>1 DEF StackOK
    <3> QED
      BY <1>3, <3>2, <3>3, <3>4 DEF CordTypeOK
  <2>3. \A i, j \in 1 .. n : Stack'[i] = Stack'[j] => i = j
    BY <1>1, <1>6 DEF StackOK
  <2> QED
    BY <1>1, <1>3, <1>4, <1>5, <2>1, <2>2, <2>3 DEF StackOK
<1>8. flags' \in [Areas -> SUBSET FiberFlags] /\ caller' \in [Areas -> Areas \cup {NoFiber}]
  BY <1>1, <1>3, <1>4 DEF CordTypeOK, FiberFlags
<1>9. ASSUME NEW x \in Areas, NEW fg \in {"dead", "cancelled"}
      PROVE  fg \in flags'[x] <=> fg \in (IF x = fiber THEN fl ELSE flags[x])
  BY <1>1, <1>3, <1>4 DEF CordTypeOK
<1> QED
  BY <1>1, <1>3, <1>4, <1>5, <1>7, <1>8, <1>9

\* fiber_yield in the middle of a function.
LEMMA FiberYieldIInv == IInv /\ FiberYield => IInv'
<1> SUFFICES ASSUME IInv, FiberYield PROVE IInv'
  OBVIOUS
<1> USE DEF IInv
<1>1. /\ Polled /\ fiber # Sched /\ Yield(flags[fiber])
      /\ UNCHANGED <<alive, dead, garbage, func, leaked, handles, stale, asked, heap, last,
                     reffed>>
  BY DEF FiberYield, diagVars
<1>2. /\ fiber \in Areas /\ fiber # NoFiber /\ flags[fiber] \in SUBSET FiberFlags
      /\ \A x \in Areas : handles[x] \subseteq func
  BY <1>1, PolledHandles DEF CordTypeOK
<1>3. /\ StackOK' /\ fiber' \in Areas
      /\ calls' \in Seq(Areas) /\ caller' \in [Areas -> Areas \cup {NoFiber}]
      /\ flags' \in [Areas -> SUBSET FiberFlags]
      /\ \A x \in Areas : \A fg \in {"dead", "cancelled"} :
           fg \in flags'[x] <=> fg \in flags[x]
  BY <1>1, <1>2, YieldPops
<1>4. CordTypeOK'
  BY <1>1, <1>3 DEF CordTypeOK
<1>5. HandlesOK'
  <2>1. func \subseteq Areas
    BY Distinguished DEF CordTypeOK
  <2>2. HandlesCurrent'
    BY <1>1, <1>3, <2>1 DEF HandlesOK, HandlesCurrent
  <2> QED
    BY <1>1, <1>2, <2>2 DEF HandlesOK
<1>6. ListsOK'
  <2>1. DeadFibers' = DeadFibers /\ Collected' = Collected
    BY <1>1 DEF DeadFibers, Collected
  <2>2. func \subseteq Areas /\ DeadFibers \subseteq Areas /\ Collected \subseteq Areas
    BY Distinguished DEF CordTypeOK, DeadFibers, ListsOK
  <2>3. \A x \in Areas : "dead" \in flags'[x] <=> "dead" \in flags[x]
    BY <1>3
  <2> QED
    BY <1>1, <2>1, <2>2, <2>3 DEF ListsOK, IsDead
<1>7. SlabsOK'
  BY <1>1 DEF SlabsOK, SlabsFree, Allocated, DeadFibers
<1> QED
  BY <1>3, <1>4, <1>5, <1>6, <1>7
-----------------------------------------------------------------------------
(***************************************************************************)
(* fiber_loop after a function has returned: its fiber is dead, its caller *)
(* runs and is the only one to use it.                                     *)
(***************************************************************************)
LEMMA DeathOK ==
  ASSUME IInv, FiberReturn
  PROVE  /\ StackOK' /\ fiber \in func /\ fiber' \in Areas
         /\ calls' \in Seq(Areas) /\ caller' \in [Areas -> Areas \cup {NoFiber}]
         /\ flags' \in [Areas -> SUBSET FiberFlags]
         /\ func' = func \ {fiber} /\ UNCHANGED <<handles, asked, reffed>>
         /\ "dead" \in flags'[fiber]
         /\ \A x \in Areas \ {fiber} : "dead" \in flags'[x] <=> "dead" \in flags[x]
         /\ stale' = {} => HandlesOK'
<1> USE DEF IInv
<1>1. /\ fiber # NoFiber /\ fiber # Sched /\ handles[fiber] = {}
      /\ Yield(flags[fiber] \cup {"dead"}) /\ UNCHANGED <<handles, asked, reffed>>
      /\ func' = func \ {fiber}
  BY DEF FiberReturn, Recycle, AddGarbage
<1>2. fiber \in Areas /\ flags[fiber] \cup {"dead"} \in SUBSET FiberFlags
  BY <1>1 DEF CordTypeOK, FiberFlags
<1>3. /\ StackOK' /\ fiber \in func /\ fiber' \in Areas /\ fiber \in handles[fiber']
      /\ calls' \in Seq(Areas) /\ caller' \in [Areas -> Areas \cup {NoFiber}]
      /\ flags' \in [Areas -> SUBSET FiberFlags]
      /\ \A x \in Areas : \A fg \in {"dead", "cancelled"} :
           fg \in flags'[x] <=>
             fg \in (IF x = fiber THEN flags[fiber] \cup {"dead"} ELSE flags[x])
  BY <1>1, <1>2, YieldPops
<1>4. /\ "dead" \in flags'[fiber]
      /\ \A x \in Areas \ {fiber} : "dead" \in flags'[x] <=> "dead" \in flags[x]
  BY <1>2, <1>3
<1>5. ASSUME stale' = {} PROVE HandlesOK'
  <2>1. func \subseteq Areas
    BY Distinguished DEF CordTypeOK
  <2>2. \A x \in func' : "cancelled" \in flags'[x] <=> x \in asked'
    BY <1>1, <1>3, <2>1 DEF HandlesOK, HandlesCurrent
  <2>3. ASSUME NEW x \in Areas, NEW f \in handles[x]
        PROVE  f \in func' \/ (x = fiber' /\ IsDead(f)')
    <3>1. f \in func
      BY <1>1, <2>3 DEF HandlesOK
    <3>2. f = fiber => x = fiber'
      BY <1>3, <2>3 DEF HandlesOK
    <3> QED
      BY <1>1, <1>4, <3>1, <3>2 DEF IsDead
  <2>4. \A x, y \in Areas : handles'[x] \cap handles'[y] # {} => x = y
    BY <1>1 DEF HandlesOK
  <2> QED
    BY <1>1, <1>5, <2>2, <2>3, <2>4 DEF HandlesOK, HandlesCurrent
<1> QED
  BY <1>1, <1>3, <1>4, <1>5

\* A fiber with the default stack goes into the cache.
LEMMA RecycleIInv == IInv /\ FiberReturn /\ Recycle => IInv'
<1> SUFFICES ASSUME IInv, FiberReturn, Recycle PROVE IInv'
  OBVIOUS
<1> USE DEF IInv
<1>1. /\ dead' = <<fiber>> \o dead /\ alive' = alive \ {fiber}
      /\ last' = [last EXCEPT ![fiber] = NoError]
      /\ UNCHANGED <<garbage, leaked, stale>>
  BY DEF Recycle
<1>2. stale' = {}
  BY <1>1 DEF HandlesOK, HandlesCurrent
<1>3. /\ StackOK' /\ HandlesOK' /\ fiber \in func /\ fiber' \in Areas
      /\ calls' \in Seq(Areas) /\ caller' \in [Areas -> Areas \cup {NoFiber}]
      /\ flags' \in [Areas -> SUBSET FiberFlags]
      /\ func' = func \ {fiber} /\ UNCHANGED <<handles, asked, reffed>>
      /\ "dead" \in flags'[fiber]
      /\ \A x \in Areas \ {fiber} : "dead" \in flags'[x] <=> "dead" \in flags[x]
  BY <1>2, DeathOK
<1>4. /\ fiber \in Fibers /\ fiber \in alive /\ fiber \notin Collected
      /\ fiber \notin DeadFibers /\ Collected' = Collected
  BY <1>1, <1>3 DEF ListsOK, CordTypeOK, Collected
<1>5. /\ dead' \in Seq(Fibers) /\ DeadFibers' = DeadFibers \cup {fiber}
      /\ \A i, j \in DOMAIN dead' : dead'[i] = dead'[j] => i = j
  <2>1. /\ dead \in Seq(Fibers) /\ Len(dead) \in Nat /\ DOMAIN dead = 1 .. Len(dead)
        /\ \A i, j \in 1 .. Len(dead) : dead[i] = dead[j] => i = j
        /\ DeadFibers = {dead[i] : i \in 1 .. Len(dead)}
    BY DEF CordTypeOK, ListsOK, DeadFibers
  <2>2. <<fiber>> \in Seq(Fibers) /\ Len(<<fiber>>) = 1 /\ <<fiber>>[1] = fiber
    BY <1>4
  <2>3. /\ dead' \in Seq(Fibers) /\ Len(dead') = Len(dead) + 1
        /\ DOMAIN dead' = 1 .. Len(dead) + 1 /\ dead'[1] = fiber
        /\ \A i \in 2 .. Len(dead) + 1 : i - 1 \in 1 .. Len(dead) /\ dead'[i] = dead[i - 1]
    BY <1>1, <2>1, <2>2
  <2>4. \A i \in 1 .. Len(dead) : i + 1 \in 2 .. Len(dead) + 1 /\ dead'[i + 1] = dead[i]
    BY <2>1, <2>3
  <2>5. \A i \in 2 .. Len(dead) + 1 : dead'[i] \in DeadFibers
    BY <2>1, <2>3
  <2>6. \A i \in 1 .. Len(dead) + 1 : i = 1 \/ i \in 2 .. Len(dead) + 1
    BY <2>1
  <2>7. DeadFibers' = {dead'[i] : i \in 1 .. Len(dead) + 1}
    BY <2>3 DEF DeadFibers
  <2>8. DeadFibers' = DeadFibers \cup {fiber}
    <3>1. DeadFibers' \subseteq DeadFibers \cup {fiber}
      BY <2>3, <2>5, <2>6, <2>7
    <3>2. DeadFibers \subseteq DeadFibers'
      <4>1. \A i \in 1 .. Len(dead) : i + 1 \in 1 .. Len(dead) + 1
        BY <2>1
      <4> QED
        BY <2>1, <2>4, <2>7, <4>1
    <3>3. 1 \in 1 .. Len(dead) + 1
      BY <2>1
    <3> QED
      BY <2>3, <2>7, <3>1, <3>2, <3>3
  <2>9. ASSUME NEW i \in 1 .. Len(dead) + 1, NEW j \in 1 .. Len(dead) + 1,
               dead'[i] = dead'[j]
        PROVE  i = j
    <3>1. i = 1 <=> j = 1
      BY <1>4, <2>3, <2>5, <2>6, <2>9
    <3>2. CASE i # 1 /\ j # 1
      <4>1. /\ i - 1 \in 1 .. Len(dead) /\ j - 1 \in 1 .. Len(dead)
            /\ dead[i - 1] = dead[j - 1]
        BY <2>3, <2>6, <2>9, <3>2
      <4>2. i - 1 = j - 1
        BY <2>1, <4>1
      <4> QED
        BY <2>1, <4>2
    <3> QED
      BY <3>1, <3>2
  <2> QED
    BY <2>3, <2>8, <2>9
<1>6. CordTypeOK'
  BY <1>1, <1>2, <1>3, <1>4, <1>5, Distinguished DEF CordTypeOK
<1>7. ListsOK'
  <2>1. /\ alive' \cap DeadFibers' = {} /\ Collected' \subseteq alive'
        /\ func' = alive' \ Collected'
    BY <1>1, <1>3, <1>4, <1>5 DEF ListsOK
  <2>2. func \subseteq Areas /\ DeadFibers \subseteq Areas /\ Collected \subseteq Areas
    BY Distinguished DEF CordTypeOK, DeadFibers, ListsOK
  <2>3. \A f \in func' : ~IsDead(f)'
    BY <1>3, <2>2 DEF ListsOK, IsDead
  <2>4. \A f \in DeadFibers' \cup Collected' : IsDead(f)'
    BY <1>3, <1>4, <1>5, <2>2 DEF ListsOK, IsDead
  <2>5. \A f \in Fibers \ func' : last'[f] = NoError
    BY <1>1, <1>3, Distinguished DEF ListsOK, CordTypeOK
  <2> QED
    BY <1>5, <2>1, <2>3, <2>4, <2>5 DEF ListsOK
<1>8. SlabsOK'
  <2>1. Allocated' = Allocated
    BY <1>1, <1>4, <1>5 DEF Allocated
  <2> QED
    BY <1>1, <2>1 DEF SlabsOK, SlabsFree
<1> QED
  BY <1>3, <1>6, <1>7, <1>8

\* A fiber with a custom stack becomes the garbage, in place of the previous one.
LEMMA AddGarbageIInv == IInv /\ FiberReturn /\ AddGarbage => IInv'
<1> SUFFICES ASSUME IInv, FiberReturn, AddGarbage PROVE IInv'
  OBVIOUS
<1> USE DEF IInv
<1>1. /\ alive' = alive \ Collected /\ garbage' = fiber
      /\ last' = [d \in Areas |-> IF d \in Collected \cup {fiber} THEN NoError ELSE last[d]]
      /\ leaked' \in leaked .. leaked + Cardinality(Collected)
      /\ stale' = stale \cup {f \in Collected : \E x \in Areas : f \in handles[x]}
      /\ dead' = dead
      /\ fiber # NoFiber /\ fiber # Sched /\ handles[fiber] = {}
  BY DEF AddGarbage, Lost, FiberReturn
<1>2. stale' = {}
  <2>1. \A x \in Areas : handles[x] \subseteq func
    BY <1>1 DEF HandlesOK
  <2> QED
    BY <1>1, <2>1 DEF ListsOK, HandlesOK, HandlesCurrent
<1>3. /\ StackOK' /\ HandlesOK' /\ fiber \in func /\ fiber' \in Areas
      /\ calls' \in Seq(Areas) /\ caller' \in [Areas -> Areas \cup {NoFiber}]
      /\ flags' \in [Areas -> SUBSET FiberFlags]
      /\ func' = func \ {fiber} /\ UNCHANGED <<handles, asked, reffed>>
      /\ "dead" \in flags'[fiber]
      /\ \A x \in Areas \ {fiber} : "dead" \in flags'[x] <=> "dead" \in flags[x]
  BY <1>2, DeathOK
<1>4. /\ fiber \in Fibers /\ fiber \in alive /\ fiber \notin Collected
      /\ fiber \notin DeadFibers /\ Collected' = {fiber} /\ DeadFibers' = DeadFibers
  BY <1>1, <1>3 DEF ListsOK, CordTypeOK, Collected, DeadFibers
<1>5. CordTypeOK'
  BY <1>1, <1>2, <1>3, <1>4, Distinguished DEF CordTypeOK
<1>6. ListsOK'
  <2>1. /\ alive' \cap DeadFibers' = {} /\ Collected' \subseteq alive'
        /\ func' = alive' \ Collected'
    BY <1>1, <1>3, <1>4 DEF ListsOK
  <2>2. func \subseteq Areas /\ DeadFibers \subseteq Areas
    BY Distinguished DEF CordTypeOK, DeadFibers
  <2>3. \A f \in func' : ~IsDead(f)'
    BY <1>3, <2>2 DEF ListsOK, IsDead
  <2>4. \A f \in DeadFibers' \cup Collected' : IsDead(f)'
    BY <1>3, <1>4, <2>2 DEF ListsOK, IsDead
  <2>5. \A f \in Fibers \ func' : last'[f] = NoError
    BY <1>1, <1>3, Distinguished DEF ListsOK
  <2> QED
    BY <1>1, <2>1, <2>3, <2>4, <2>5 DEF ListsOK
<1>7. SlabsOK'
  <2>1. Allocated' = Allocated \ Collected /\ Collected \subseteq Allocated
    BY <1>1, <1>4 DEF Allocated, ListsOK
  <2>2. /\ Cardinality(Allocated) \in Nat /\ Cardinality(Collected) \in Nat
        /\ IsFiniteSet(Allocated')
        /\ Cardinality(Allocated') = Cardinality(Allocated) - Cardinality(Collected)
    <3>1. CASE garbage = NoFiber
      <4>1. Collected = {} /\ Allocated' = Allocated
        BY <2>1, <3>1 DEF Collected
      <4> QED
        BY <4>1, FS_EmptySet, FS_CardinalityType DEF SlabsOK
    <3>2. CASE garbage # NoFiber
      <4>1. Collected = {garbage} /\ garbage \in Allocated
        BY <2>1, <3>2 DEF Collected
      <4>2. Cardinality(Collected) = 1
        BY <4>1, FS_Singleton
      <4> QED
        BY <2>1, <4>1, <4>2, FS_RemoveElement, FS_CardinalityType DEF SlabsOK
    <3> QED
      BY <3>1, <3>2
  <2> QED
    BY <1>1, <2>2, Distinguished DEF SlabsOK, SlabsFree
<1> QED
  BY <1>3, <1>5, <1>6, <1>7
-----------------------------------------------------------------------------
\* fiber_delete_all loses at most the stacks of the fibers it deletes.
LEMMA CordDestroyIInv == IInv /\ CordDestroy => IInv'
<1> SUFFICES ASSUME IInv, CordDestroy PROVE IInv'
  OBVIOUS
<1> USE Distinguished DEF IInv
<1>1. /\ alive' = {} /\ dead' = <<>> /\ garbage' = NoFiber /\ fiber' = NoFiber
      /\ caller' = [x \in Areas |-> NoFiber] /\ flags' = [x \in Areas |-> {}]
      /\ func' = {} /\ leaked' \in leaked .. leaked + Cardinality(Allocated)
      /\ last' = [d \in Areas |-> NoError] /\ UNCHANGED reffed
      /\ handles' = [x \in Areas |-> {}] /\ stale' = {} /\ asked' = {} /\ calls' = <<>>
  BY DEF CordDestroy, FiberDeleteAll, Lost
<1>2. DeadFibers' = {} /\ Collected' = {} /\ Allocated' = {}
  BY <1>1 DEF DeadFibers, Collected, Allocated
<1>3. CordTypeOK'
  BY <1>1 DEF CordTypeOK
<1>4. StackOK'
  BY <1>1 DEF StackOK
<1>5. HandlesOK'
  BY <1>1 DEF HandlesOK, HandlesCurrent
<1>6. ListsOK'
  BY <1>1, <1>2 DEF ListsOK
<1>7. SlabsOK'
  <2>1. Cardinality(Allocated) \in Nat
    BY FS_CardinalityType DEF SlabsOK
  <2> QED
    BY <1>1, <1>2, <2>1, FS_EmptySet DEF SlabsOK, SlabsFree
<1> QED
  BY <1>3, <1>4, <1>5, <1>6, <1>7

\* cord_create makes a cord on which the lists are as they were left: empty.
LEMMA CordCreateIInv == IInv /\ CordCreate => IInv'
<1> SUFFICES ASSUME IInv, CordCreate PROVE IInv'
  OBVIOUS
<1> USE Distinguished DEF IInv
<1>1. /\ fiber = NoFiber /\ fiber' = Sched
      /\ flags' = [flags EXCEPT ![Sched] = {"running"}] /\ leaked' = 0
      /\ UNCHANGED <<alive, dead, garbage, caller, func, handles, stale, asked, calls, last,
                     reffed>>
  BY DEF CordCreate, diagVars
<1>2. CordTypeOK'
  BY <1>1 DEF CordTypeOK, FiberFlags
<1>3. StackOK'
  <2>1. calls' = <<>> /\ Stack' = <<Sched>> /\ Len(calls') = 0
    BY <1>1 DEF StackOK, Stack
  <2>2. Stack'[1] = Sched
    BY <2>1
  <2> QED
    BY <1>1, <2>1, <2>2 DEF StackOK
<1>4. \A x \in Fibers : flags'[x] = flags[x]
  BY <1>1 DEF CordTypeOK
<1>5. HandlesOK'
  <2>1. \A x \in Areas : handles[x] \subseteq func
    BY <1>1 DEF HandlesOK
  <2>2. HandlesCurrent'
    BY <1>1, <1>4 DEF HandlesOK, HandlesCurrent, CordTypeOK
  <2> QED
    BY <1>1, <2>1, <2>2 DEF HandlesOK
<1>6. ListsOK'
  <2>1. DeadFibers' = DeadFibers /\ Collected' = Collected
    BY <1>1 DEF DeadFibers, Collected
  <2>2. func \subseteq Fibers /\ DeadFibers \subseteq Fibers /\ Collected \subseteq Fibers
    BY DEF CordTypeOK, DeadFibers, ListsOK
  <2> QED
    BY <1>1, <1>4, <2>1, <2>2 DEF ListsOK, IsDead
<1>7. SlabsOK'
  <2>1. Allocated' = Allocated /\ Cardinality(Allocated) \in Nat
    BY <1>1, FS_CardinalityType DEF SlabsOK, Allocated, DeadFibers
  <2> QED
    BY <1>1, <2>1 DEF SlabsOK, SlabsFree
<1> QED
  BY <1>2, <1>3, <1>5, <1>6, <1>7
-----------------------------------------------------------------------------
\* Every step keeps the invariant.
LEMMA NextIInv == IInv /\ [Next]_vars => IInv'
<1> SUFFICES ASSUME IInv, [Next]_vars PROVE IInv'
  OBVIOUS
<1>1. CASE UseDiag \/ AttrFailed
  BY <1>1, UseDiagIInv
<1>2. ASSUME NEW size \in {"default", "other"},
             LET attr == AttrFlags(size)
             IN  NewRecycled(attr) \/ NewAllocated(attr) \/ NewFailed(attr)
      PROVE  IInv'
  <2>1. AttrFlags(size) \in SUBSET {"custom"}
    BY DEF AttrFlags
  <2> QED
    BY <1>2, <2>1, NewRecycledIInv, NewAllocatedIInv, NewFailedIInv
<1>3. ASSUME NEW f \in Fibers, FiberCall(f) \/ FiberIsDead(f) \/ FiberCancel(f)
      PROVE  IInv'
  BY <1>3, FiberCallIInv, FiberIsDeadIInv, FiberCancelIInv
<1>4. CASE FiberYield
  BY <1>4, FiberYieldIInv
<1>5. CASE FiberReturn
  <2>1. Recycle \/ AddGarbage
    BY <1>5 DEF FiberReturn
  <2> QED
    BY <1>5, <2>1, RecycleIInv, AddGarbageIInv
<1>6. CASE CordDestroy
  BY <1>6, CordDestroyIInv
<1>7. CASE CordCreate
  BY <1>7, CordCreateIInv
<1>8. CASE UNCHANGED vars
  <2> USE <1>8 DEF vars, cordVars, fiberVars, diagVars
  <2>1. CordTypeOK' /\ StackOK'
    BY DEF IInv, CordTypeOK, StackOK, Stack
  <2>2. HandlesOK' /\ ListsOK'
    BY DEF IInv, HandlesOK, HandlesCurrent, ListsOK, DeadFibers, Collected, IsDead
  <2>3. SlabsOK'
    BY DEF IInv, SlabsOK, SlabsFree, Allocated, DeadFibers
  <2> QED
    BY <2>1, <2>2, <2>3 DEF IInv
<1> QED
  BY <1>1, <1>2, <1>3, <1>4, <1>5, <1>6, <1>7, <1>8 DEF Next

(***************************************************************************)
(* Whatever the functions that run in fibers do, as long as they ask       *)
(* fiber_is_dead at once, no handle of theirs is of a fiber that has been  *)
(* reused or deleted, and a cancellation reaches the life it was meant for.*)
(***************************************************************************)
THEOREM HandlesStayCurrent == Spec => []HandlesCurrent
<1>1. IInv => HandlesCurrent
  BY DEF IInv, HandlesOK
<1> QED
  BY <1>1, InitIInv, NextIInv, PTL DEF Spec

(***************************************************************************)
(* The lists of a cord never overlap and lose no fiber, the cache holds    *)
(* dead fibers without errors only, and stacks are never overdrawn.        *)
(***************************************************************************)
THEOREM ListsStayExact == Spec => []ListsExact
<1>1. ASSUME IInv PROVE ListsExact
  <2>1. {f \in Allocated : IsDead(f)} = DeadFibers \cup Collected
    BY <1>1 DEF IInv, ListsOK, Allocated
  <2>2. func = {f \in Allocated : ~IsDead(f)}
    BY <1>1 DEF IInv, ListsOK, Allocated
  <2> QED
    BY <1>1, <2>1, <2>2 DEF IInv, ListsOK, SlabsOK, ListsExact
<1> QED
  BY <1>1, InitIInv, NextIInv, PTL DEF Spec
-----------------------------------------------------------------------------
\* Exactly the running fiber is marked as running; without a cord none is.
RunningOK == \A x \in Areas : "running" \in flags[x] <=> x = fiber

\* fiber_call, fiber_yield and fiber_loop hand the mark on.
LEMMA NextRunningOK == IInv /\ RunningOK /\ [Next]_vars => RunningOK'
<1> SUFFICES ASSUME IInv, RunningOK, [Next]_vars PROVE RunningOK'
  OBVIOUS
<1> USE Distinguished
<1>0. flags \in [Areas -> SUBSET FiberFlags] /\ fiber \in Areas \cup {NoFiber}
  BY DEF IInv, CordTypeOK
<1>1. ASSUME UNCHANGED <<fiber, flags>> PROVE RunningOK'
  BY <1>1 DEF RunningOK
<1>2. ASSUME NEW f \in Fibers \ func, NEW attr \in SUBSET {"custom"},
             Polled, StartLife(f, attr)
      PROVE  RunningOK'
  <2>1. f # fiber /\ f \in Areas
    BY <1>2, PolledHandles, Running
  <2>2. flags' = [flags EXCEPT ![f] = attr] /\ fiber' = fiber
    BY <1>2 DEF StartLife
  <2> QED
    BY <1>0, <1>2, <2>1, <2>2 DEF RunningOK
<1>3. ASSUME NEW fl \in SUBSET FiberFlags, fiber # NoFiber, fiber # Sched, Yield(fl),
             func \ {fiber} \subseteq func', UNCHANGED handles
      PROVE  RunningOK'
  <2>1. fiber' \in Areas /\ fiber' # fiber /\ fiber \in Areas
    BY <1>0, <1>3, YieldPops
  <2>2. flags' = [flags EXCEPT ![fiber] = fl \ {"running"}, ![fiber'] = @ \cup {"running"}]
    BY <1>3 DEF Yield
  <2> QED
    BY <1>0, <2>1, <2>2 DEF RunningOK
<1>4. CASE AttrFailed \/ UseDiag
  BY <1>1, <1>4 DEF AttrFailed, UseDiag, cordVars, fiberVars
<1>5. ASSUME NEW attr \in SUBSET {"custom"},
             NewRecycled(attr) \/ NewAllocated(attr) \/ NewFailed(attr)
      PROVE  RunningOK'
  <2>1. CASE NewRecycled(attr)
    <3>1. Head(dead) \in Fibers /\ Head(dead) \in DeadFibers
      <4>1. dead \in Seq(Fibers) /\ dead # <<>>
        BY <2>1 DEF NewRecycled, IInv, CordTypeOK
      <4>2. 1 \in DOMAIN dead /\ Head(dead) = dead[1]
        BY <4>1
      <4> QED
        BY <4>1, <4>2 DEF DeadFibers
    <3>2. Head(dead) \notin func
      BY <3>1 DEF IInv, ListsOK
    <3> QED
      BY <1>2, <2>1, <3>1, <3>2 DEF NewRecycled
  <2>2. CASE NewAllocated(attr)
    <3>1. func \subseteq Allocated
      BY DEF IInv, ListsOK, Allocated
    <3> QED
      BY <1>2, <2>2, <3>1 DEF NewAllocated
  <2>3. CASE NewFailed(attr)
    BY <1>1, <2>3 DEF NewFailed
  <2> QED
    BY <1>5, <2>1, <2>2, <2>3
<1>6. ASSUME NEW f \in Fibers, FiberCall(f) PROVE RunningOK'
  <2>1. /\ Polled /\ f \in handles[fiber] /\ fiber' = f
        /\ flags' = [flags EXCEPT ![fiber] = @ \ {"running"}, ![f] = @ \cup {"running"}]
    BY <1>6 DEF FiberCall
  <2>2. fiber \in Areas /\ f \in Areas /\ f # fiber
    <3>1. /\ fiber \in Areas /\ fiber # NoFiber /\ Stack[Len(calls) + 1] = fiber
          /\ Len(calls) + 1 \in 1 .. Len(calls) + 1
      BY <2>1, PolledHandles, StackTypes DEF IInv
    <3> QED
      BY <2>1, <3>1, CalleeIsOffStack
  <2> QED
    BY <1>0, <2>1, <2>2 DEF RunningOK
<1>7. ASSUME NEW f \in Fibers, FiberIsDead(f) PROVE RunningOK'
  BY <1>1, <1>7 DEF FiberIsDead
<1>8. ASSUME NEW f \in Fibers, FiberCancel(f) PROVE RunningOK'
  <2>1. flags' = [flags EXCEPT ![f] = @ \cup {"cancelled"}] /\ fiber' = fiber
    BY <1>8 DEF FiberCancel
  <2> QED
    BY <1>0, <2>1 DEF RunningOK
<1>9. CASE FiberYield
  <2>1. fiber \in Areas /\ flags[fiber] \in SUBSET FiberFlags
    BY <1>0, <1>9 DEF FiberYield, Polled
  <2> QED
    BY <1>3, <1>9, <2>1 DEF FiberYield, Polled
<1>10. CASE FiberReturn
  <2>1. /\ fiber # NoFiber /\ fiber # Sched /\ Yield(flags[fiber] \cup {"dead"})
        /\ func' = func \ {fiber} /\ UNCHANGED handles
    BY <1>10 DEF FiberReturn, Recycle, AddGarbage
  <2>2. flags[fiber] \cup {"dead"} \in SUBSET FiberFlags
    BY <1>0, <2>1 DEF FiberFlags
  <2> QED
    BY <1>3, <2>1, <2>2
<1>11. CASE CordDestroy
  BY <1>11 DEF CordDestroy, FiberDeleteAll, RunningOK
<1>12. CASE CordCreate
  BY <1>0, <1>12 DEF CordCreate, RunningOK
<1>13. CASE UNCHANGED vars
  BY <1>1, <1>13 DEF vars, cordVars, fiberVars
<1>14. \A size \in {"default", "other"} : AttrFlags(size) \in SUBSET {"custom"}
  BY DEF AttrFlags
<1> QED
  BY <1>4, <1>5, <1>6, <1>7, <1>8, <1>9, <1>10, <1>11, <1>12, <1>13, <1>14 DEF Next

(***************************************************************************)
(* Every yield and every return resumes the call it answers, whatever      *)
(* fibers are called from within others (fiber_call, fiber_yield_impl).    *)
(***************************************************************************)
THEOREM YieldsAnswerCalls == Spec => []CallersLeadToSched
<1>1. Init => IInv /\ RunningOK
  <2>1. Init => RunningOK
    BY Distinguished DEF Init, CordInit, RunningOK
  <2> QED
    BY <2>1, InitIInv
<1>2. IInv /\ RunningOK /\ [Next]_vars => (IInv /\ RunningOK)'
  BY NextIInv, NextRunningOK
<1>3. ASSUME IInv, RunningOK PROVE CallersLeadToSched
  <2> SUFFICES ASSUME fiber # NoFiber
               PROVE  /\ Stack[1] = Sched
                      /\ \A i \in 1 .. Len(calls) :
                           /\ caller[Stack[i + 1]] = Stack[i]
                           /\ Stack[i + 1] \in func /\ ~IsDead(Stack[i + 1])
                      /\ {x \in Areas : "running" \in flags[x]} = {fiber}
                      /\ Polled => handles[fiber] \subseteq func \ OnStack
    BY DEF CallersLeadToSched
  <2>1. /\ Stack[1] = Sched
        /\ \A i \in 1 .. Len(calls) :
             /\ caller[Stack[i + 1]] = Stack[i]
             /\ Stack[i + 1] \in func /\ ~IsDead(Stack[i + 1])
    BY <1>3 DEF IInv, StackOK, ListsOK
  <2>2. {x \in Areas : "running" \in flags[x]} = {fiber}
    BY <1>3 DEF RunningOK, IInv, CordTypeOK
  <2>3. ASSUME Polled PROVE handles[fiber] \subseteq func \ OnStack
    <3>1. handles[fiber] \subseteq func /\ handles[fiber] \subseteq Fibers
      BY <1>3, <2>3, PolledHandles DEF IInv, CordTypeOK
    <3>2. DOMAIN Stack = 1 .. Len(calls) + 1
      BY <1>3, StackTypes DEF IInv
    <3> QED
      BY <1>3, <2>3, <3>1, <3>2, CalleeIsOffStack DEF OnStack
  <2> QED
    BY <2>1, <2>2, <2>3
<1> QED
  BY <1>1, <1>2, <1>3, PTL DEF Spec

(***************************************************************************)
(* assert(f != cord->fiber) in fiber_destroy holds of every program that   *)
(* calls exit() in the scheduler only.                                     *)
(***************************************************************************)
THEOREM RunningFibersSurvive ==
  ASSUME ~ExitAnywhere PROVE Spec => NeverDeletesItself
<1>1. ASSUME IInv, [Next]_vars PROVE OnStack \cap Allocated \subseteq Allocated'
  <2>1. IInv'
    BY <1>1, NextIInv
  <2>2. func' \subseteq Allocated'
    BY <2>1 DEF IInv, ListsOK, Allocated
  <2>3. fiber # NoFiber => OnStack \cap Fibers \subseteq func
    <3> SUFFICES ASSUME fiber # NoFiber, NEW x \in OnStack, x \in Fibers PROVE x \in func
      OBVIOUS
    <3>1. PICK k \in 1 .. Len(calls) + 1 : x = Stack[k]
      BY <1>1, StackTypes DEF OnStack, IInv
    <3>2. k # 1
      BY <1>1, <3>1, Distinguished DEF IInv, StackOK
    <3>3. k - 1 \in 1 .. Len(calls) /\ k = (k - 1) + 1
      BY <1>1, <3>1, <3>2, StackTypes DEF IInv
    <3> QED
      BY <1>1, <3>1, <3>3 DEF IInv, StackOK
  <2>4. Allocated \subseteq Fibers
    BY <1>1 DEF IInv, CordTypeOK, Allocated, DeadFibers
  <2>5. CASE fiber = NoFiber
    <3>1. OnStack = {NoFiber}
      BY <1>1, <2>5 DEF IInv, StackOK, OnStack, Stack
    <3> QED
      BY <2>4, <3>1, Distinguished
  <2>6. CASE fiber = Sched /\ CordDestroy
    <3>1. OnStack \cap Fibers = {}
      <4>1. Len(calls) = 0
        <5>1. /\ Len(calls) \in Nat /\ Stack[Len(calls) + 1] = Sched /\ Stack[1] = Sched
              /\ 1 \in 1 .. Len(calls) + 1 /\ Len(calls) + 1 \in 1 .. Len(calls) + 1
          BY <1>1, <2>6, StackTypes, Distinguished DEF IInv, StackOK
        <5>2. Len(calls) + 1 = 1
          BY <1>1, <2>6, <5>1, Distinguished DEF IInv, StackOK
        <5> QED
          BY <5>1, <5>2
      <4>2. \A k \in 1 .. Len(calls) + 1 : Stack[k] = Sched
        BY <1>1, <2>6, <4>1, Distinguished DEF IInv, StackOK
      <4>3. DOMAIN Stack = 1 .. Len(calls) + 1
        BY <1>1, <2>6, StackTypes, Distinguished DEF IInv
      <4> QED
        BY <4>2, <4>3, Distinguished DEF OnStack
    <3> QED
      BY <2>4, <3>1
  <2>7. CASE fiber # NoFiber /\ FiberReturn
    <3>1. func' = func \ {fiber}
      BY <2>7 DEF FiberReturn, Recycle, AddGarbage
    <3>2. fiber \in Allocated'
      <4>1. CASE Recycle
        <5>1. dead' = <<fiber>> \o dead /\ dead \in Seq(Fibers) /\ fiber \in Fibers
          BY <1>1, <2>7, <4>1, Running DEF Recycle, FiberReturn, IInv, CordTypeOK
        <5>2. 1 \in DOMAIN dead' /\ dead'[1] = fiber
          BY <5>1
        <5> QED
          BY <5>2 DEF Allocated, DeadFibers
      <4>2. CASE AddGarbage
        BY <2>1, <2>7, <4>2 DEF AddGarbage, Collected, IInv, ListsOK, Allocated
      <4> QED
        BY <2>7, <4>1, <4>2 DEF FiberReturn
    <3> QED
      BY <2>2, <2>3, <2>4, <2>7, <3>1, <3>2
  <2>8. ASSUME func \subseteq func', fiber # NoFiber
        PROVE  OnStack \cap Allocated \subseteq Allocated'
    BY <2>2, <2>3, <2>4, <2>8
  <2>9. fiber = NoFiber \/ (fiber = Sched /\ CordDestroy) \/ FiberReturn \/ func \subseteq func'
    <3>1. ~ExitAnywhere
      OBVIOUS
    <3> QED
      BY <1>1, <3>1
      DEF Next, AttrFailed, NewRecycled, NewAllocated, NewFailed, StartLife, FiberCall,
          FiberIsDead, FiberCancel, FiberYield, CordDestroy, CordCreate, UseDiag, vars,
          cordVars, fiberVars
  <2> QED
    BY <2>5, <2>6, <2>7, <2>8, <2>9
<1> QED
  BY <1>1, InitIInv, NextIInv, PTL DEF Spec, NeverDeletesItself
-----------------------------------------------------------------------------
(***************************************************************************)
(* Fibers use their own areas only, and clear them when they return or are *)
(* deleted (fiber_loop, fiber_destroy, cord_destroy).                      *)
(***************************************************************************)
LEMMA NextDiagInv == ASSUME IInv, DiagInv, [Next]_vars PROVE DiagInv'
<1>1. ASSUME UNCHANGED diagVars PROVE DiagInv'
  BY <1>1 DEF DiagInv, diagVars
<1>2. ASSUME Polled, DiagNext(fiber) PROVE DiagInv'
  BY <1>2, PolledHandles, DiagNextInv
<1>3. CASE AttrFailed \/ UseDiag
  BY <1>2, <1>3 DEF AttrFailed, UseDiag, DiagNext
<1>4. ASSUME NEW attr, NewRecycled(attr) \/ NewAllocated(attr) \/ NewFailed(attr)
      PROVE  DiagInv'
  BY <1>1, <1>2, <1>4 DEF NewRecycled, NewAllocated, NewFailed, DiagNext
<1>5. ASSUME NEW f \in Fibers, FiberCall(f) \/ FiberIsDead(f) \/ FiberCancel(f)
      PROVE  DiagInv'
  BY <1>1, <1>5 DEF FiberCall, FiberIsDead, FiberCancel
<1>6. CASE FiberYield
  BY <1>1, <1>6 DEF FiberYield
<1>7. CASE FiberReturn
  <2>1. fiber \in Areas /\ Collected \subseteq Areas /\ UNCHANGED reffed
    BY <1>7, Distinguished DEF FiberReturn, IInv, CordTypeOK, Collected
  <2>2. CASE Recycle
    <3>1. DiagClear(fiber)
      BY <2>1, <2>2 DEF Recycle, DiagClear
    <3> QED
      BY <2>1, <3>1, ClearInv
  <2>3. CASE AddGarbage
    <3>1. PICK ds \in SUBSET Areas : ds = Collected \cup {fiber}
      BY <2>1
    <3>2. /\ heap' = diag_destroy(heap, ds)
          /\ last' = [d \in Areas |-> IF d \in ds THEN NoError ELSE last[d]]
      BY <2>3, <3>1 DEF AddGarbage
    <3> QED
      BY <2>1, <3>2, DestroyInv
  <2> QED
    BY <1>7, <2>2, <2>3 DEF FiberReturn
<1>8. CASE CordDestroy
  <2>1. PICK ds \in SUBSET Areas : ds = Areas
    OBVIOUS
  <2>2. heap' = diag_destroy(heap, ds) /\ UNCHANGED reffed
    BY <1>8, <2>1 DEF CordDestroy
  <2>3. last' = [d \in Areas |-> IF d \in ds THEN NoError ELSE last[d]]
    BY <1>8, <2>1 DEF CordDestroy
  <2> QED
    BY <2>2, <2>3, DestroyInv
<1>9. CASE CordCreate
  BY <1>1, <1>9 DEF CordCreate
<1>10. CASE UNCHANGED vars
  BY <1>1, <1>10 DEF vars
<1> QED
  BY <1>3, <1>4, <1>5, <1>6, <1>7, <1>8, <1>9, <1>10 DEF Next

\* Both invariants together.
LEMMA BothInvariants == Spec => [](IInv /\ DiagInv)
<1>1. Init => IInv /\ DiagInv
  BY InitIInv, DiagInitInv DEF Init
<1>2. IInv /\ DiagInv /\ [Next]_vars => (IInv /\ DiagInv)'
  BY NextIInv, NextDiagInv
<1> QED
  BY <1>1, <1>2, PTL DEF Spec

(***************************************************************************)
(* No error is freed while something points to it and none is left behind, *)
(* in whatever order fibers set, move, link and drop errors and end        *)
(* (error_ref, error_unref, error_set_prev, diag.c).                       *)
(***************************************************************************)
THEOREM ErrorsStayCounted == Spec => []RefsExact
  BY InvRefs, BothInvariants, PTL

(***************************************************************************)
(* error_set_prev never makes an error its own remote cause, although it   *)
(* searches for a cycle only when one of the errors has an effect.         *)
(***************************************************************************)
THEOREM ChainsStaySound == Spec => []ChainsSound
  BY InvChains, BothInvariants, PTL

\* The types of the variables of Fibers and Diag; no more stacks are lost than there are.
THEOREM FiberTypes == Spec => []TypeOK
<1>1. ASSUME IInv, DiagInv PROVE TypeOK
  <2>1. DiagTypeOK
    BY <1>1, InvTypes
  <2>2. leaked \in 0 .. Slabs
    <3>1. Cardinality(Allocated) \in Nat /\ leaked \in Nat /\ Slabs \in Nat
      BY <1>1, FS_CardinalityType, Distinguished DEF IInv, SlabsOK
    <3>2. Slabs - Cardinality(Allocated) - leaked >= 0
      BY <1>1 DEF IInv, SlabsOK, SlabsFree
    <3> QED
      BY <3>1, <3>2
  <2> QED
    BY <1>1, <2>1, <2>2 DEF TypeOK, IInv, CordTypeOK
<1> QED
  BY <1>1, BothInvariants, PTL
=============================================================================
