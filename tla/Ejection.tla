------------------------------- MODULE Ejection -------------------------------
(***************************************************************************)
(* What an ejection of a route is, when it is feasible, and which ones the *)
(* search of ejection.c is known to consider.  EjectionSearch checks the   *)
(* search against these definitions, EamaSolver uses them for its result.  *)
(***************************************************************************)
EXTENDS Penalty, Modification

\* An ejection is the increasing tuple of the indexes it takes out of r.
Ejections(r, k_max) ==
  UNION {{x \in [1 .. k -> 1 .. Len(r)] : \A i, j \in 1 .. k : i < j => x[i] < x[j]} :
         k \in 1 .. MIN(k_max, Len(r))}

Ejected(r, x) == [k \in DOMAIN x |-> r[x[k]]]

\* r after its customers at the indexes of x are removed one after another.
Rest(r, x) ==
  LET rest[k \in 0 .. Len(x)] ==
        IF k = 0 THEN r ELSE RemoveIndex(rest[k - 1], x[k] - (k - 1))
  IN  rest[Len(x)]

\* The sum of ps over the customers of the sequence cs.
PSum(ps, cs) ==
  LET sum[k \in 0 .. Len(cs)] == IF k = 0 THEN 0 ELSE sum[k - 1] + ps[cs[k]]
  IN  sum[Len(cs)]

\* Neither penalty is left: the search compares exactly, without EPS5.
FeasibleEjection(p, r, x) ==
  \E rest \in {Rest(r, x)} : TwPenalty(p, rest) = 0 /\ CPenalty(p, rest) = 0

\* init_a_earliest: the start at index i that the prefix before it allows.
Earliest(p, r, i) ==
  IF i = depot_head THEN p.e[0] ELSE MAX(p.e[Id(r, i)], ArrivalQuote(p, r, i))

Late(p, r) == {i \in 1 .. Len(r) : p.l[Id(r, i)] < Earliest(p, r, i)}

capacity_violated(p, r) == PrefixDemand(p, r)[depot_tail(r)] > p.vc

(***************************************************************************)
(* The ejections pruning condition c) of the search never hides: all of    *)
(* them in a route over capacity, and otherwise the single customers and   *)
(* those that take out every customer that is late in the whole route.     *)
(***************************************************************************)
Considered(p, r, x) ==
  \/ capacity_violated(p, r)
  \/ Len(x) = 1
  \/ Late(p, r) \subseteq {x[k] : k \in DOMAIN x}

\* An ejection the search may report, and what is left out when it ends.
Improving(p, r, ps, p_best, x) ==
  FeasibleEjection(p, r, x) /\ PSum(ps, Ejected(r, x)) < p_best

NoneLeft(p, r, k_max, ps, p_best) ==
  \A x \in Ejections(r, k_max) : Considered(p, r, x) => ~Improving(p, r, ps, p_best, x)
=============================================================================
