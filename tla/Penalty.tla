------------------------------- MODULE Penalty -------------------------------
(***************************************************************************)
(* The data a customer caches about its place in a route, and the          *)
(* time-window and capacity penalties of a route (tw_penalty.c,            *)
(* c_penalty.c, penalty_inline.h).                                         *)
(*                                                                         *)
(* A problem p is a record [n, vc, dist, e, l, s, demand]: the number of   *)
(* customers, the vehicle capacity, and per node (0 is the depot, 1..n the *)
(* customers) the distances, the time window [e, l], the service time and  *)
(* the demand.  Times, distances and demands are integers: one unit stands *)
(* for the resolution of the instance's data.                              *)
(*                                                                         *)
(* A route is the sequence of its customers' ids; indexes 0 and Len(r) + 1 *)
(* are its two depots, as in route.customers[0] and                        *)
(* route.customers[size - 1].                                              *)
(***************************************************************************)
EXTENDS Integers, Sequences

\* struct problem and struct customer as read by problem_decode.
Instance(p) ==
  /\ p.n \in Nat /\ p.vc \in Int
  /\ p.dist \in [0 .. p.n -> [0 .. p.n -> Int]]
  /\ {p.e, p.l, p.s, p.demand} \subseteq [0 .. p.n -> Int]

MAX(a, b) == IF a > b THEN a ELSE b
MIN(a, b) == IF a < b THEN a ELSE b

\* The indexes of a route's nodes, its depots included, and the id at one.
Indexes(r) == 0 .. Len(r) + 1
depot_head == 0
depot_tail(r) == Len(r) + 1
Id(r, i) == IF i \in 1 .. Len(r) THEN r[i] ELSE 0

dist(p, c, d) == p.dist[c][d]

\* Serving c and then driving to d.
Leg(p, c, d) == p.s[c] + dist(p, c, d)

\* Mutant: a vehicle that arrives early does not wait.
ClipWithoutWait(p, c, t) == MIN(t, p.l[c])

\* A time moved into the time window of customer c.
Clip(p, c, t) == MIN(MAX(t, p.e[c]), p.l[c])
-----------------------------------------------------------------------------
(***************************************************************************)
(* tw_penalty_init: a and tw_pf from the head, z and tw_sf from the tail.  *)
(***************************************************************************)

Arrivals(p, r) ==
  LET a[i \in Indexes(r)] ==
        IF i = depot_head THEN p.e[0]
        ELSE Clip(p, Id(r, i), a[i - 1] + Leg(p, Id(r, i - 1), Id(r, i)))
  IN  a

\* The arrival at index i before it is clipped (a_quote).
ArrivalQuote(p, r, i) ==
  Arrivals(p, r)[i - 1] + Leg(p, Id(r, i - 1), Id(r, i))

PrefixLateness(p, r) ==
  LET tw_pf[i \in Indexes(r)] ==
        IF i = depot_head THEN 0
        ELSE tw_pf[i - 1] + MAX(0, ArrivalQuote(p, r, i) - p.l[Id(r, i)])
  IN  tw_pf

LatestStarts(p, r) ==
  LET z[i \in Indexes(r)] ==
        IF i = depot_tail(r) THEN p.l[0]
        ELSE Clip(p, Id(r, i), z[i + 1] - Leg(p, Id(r, i), Id(r, i + 1)))
  IN  z

\* The latest start at index i before it is clipped (z_quote).
LatestQuote(p, r, i) ==
  LatestStarts(p, r)[i + 1] - Leg(p, Id(r, i), Id(r, i + 1))

SuffixLateness(p, r) ==
  LET tw_sf[i \in Indexes(r)] ==
        IF i = depot_tail(r) THEN 0
        ELSE tw_sf[i + 1] + MAX(0, p.e[Id(r, i)] - LatestQuote(p, r, i))
  IN  tw_sf

(***************************************************************************)
(* c_penalty_init: demand up to and from each index.                       *)
(***************************************************************************)
PrefixDemand(p, r) ==
  LET demand_pf[i \in Indexes(r)] ==
        p.demand[Id(r, i)] + IF i = depot_head THEN 0 ELSE demand_pf[i - 1]
  IN  demand_pf

SuffixDemand(p, r) ==
  LET demand_sf[i \in Indexes(r)] ==
        p.demand[Id(r, i)] + IF i = depot_tail(r) THEN 0 ELSE demand_sf[i + 1]
  IN  demand_sf
-----------------------------------------------------------------------------
\* Penalties of a route: tw_penalty_get_penalty, c_penalty_get_penalty.
TwPenalty(p, r) == PrefixLateness(p, r)[depot_tail(r)]
CPenalty(p, r) == MAX(0, PrefixDemand(p, r)[depot_tail(r)] - p.vc)

\* route_penalty with alpha = 1 or 0 as the code calls it.
route_penalty(p, r, alpha, beta) ==
  alpha * CPenalty(p, r) + beta * TwPenalty(p, r)

\* route_feasible: each penalty is below eps, the code's EPS5 in units.
route_feasible(p, r, eps) == TwPenalty(p, r) < eps /\ CPenalty(p, r) < eps

(***************************************************************************)
(* tw_penalty_exchange_penalty_delta_lower_bound for two customers of one  *)
(* route: whether the delta it computes is exact (its out-parameter).      *)
(***************************************************************************)
ThroughSegment(p, a, c, d, f) ==
  Clip(p, f, Clip(p, d, a + Leg(p, c, d)) + Leg(p, d, f))

ExchangeExact(p, r, i, j) ==
  LET v == MIN(i, j)
      w == MAX(i, j)
      a == Arrivals(p, r)
  IN  \/ v + 1 = w
      \/ /\ ThroughSegment(p, a[v - 1], Id(r, v - 1), r[w], Id(r, v + 1)) = a[v + 1]
         /\ ThroughSegment(p, a[w - 1], Id(r, w - 1), r[v], Id(r, w + 1)) = a[w + 1]
=============================================================================
