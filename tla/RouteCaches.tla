------------------------------ MODULE RouteCaches ------------------------------
(***************************************************************************)
(* The data every customer object caches about its place in a route, and   *)
(* how modification_apply (modification.c) keeps it up to date with        *)
(* route.c, tw_penalty.c and c_penalty.c: anew for a whole route, or only  *)
(* forward and backward from the place of the change.  modification_delta  *)
(* computes the change of a penalty from that data in constant time        *)
(* (penalty_inline.h); EamaSolver takes the difference of the penalties.   *)
(*                                                                         *)
(* A route is the sequence of its objects: a head depot, customers, a tail *)
(* depot; the object with index i in customers[] is element i + 1.  Every  *)
(* route has two depot objects of its own; TWO_OPT exchanges the tails.    *)
(***************************************************************************)
EXTENDS Penalty, Modification, SequencesExt

CONSTANTS Problems,   \* the instances, see Penalty
          NRoutes,    \* the number of routes
          MaxEjected  \* bound on the customers that are in no route

ASSUME RoutesAssumption == NRoutes \in Nat \ {0} /\ MaxEjected \in Nat
ASSUME ProblemsAssumption == \A p \in Problems : Instance(p)

VARIABLES
  problem,  \* the instance
  routes,   \* per route its objects
  data      \* per object its route (0: none), idx and cached values

vars == <<problem, routes, data>>

Customer == 1 .. problem.n
Route == 1 .. NRoutes
Object == 1 .. problem.n + 2 * NRoutes
HeadOf(x) == problem.n + x
FirstTailOf(x) == problem.n + NRoutes + x

id(c) == IF c \in Customer THEN c ELSE 0
e(c) == problem.e[id(c)]
l(c) == problem.l[id(c)]
demand(c) == problem.demand[id(c)]
leg(b, c) == Leg(problem, id(b), id(c))

last(r) == Len(r) - 1
IndexIn(r, c) == CHOOSE i \in 0 .. last(r) : r[i + 1] = c

Placed == {c \in Object : data[c].route # 0}
route_next(c) == routes[data[c].route][data[c].idx + 2]
route_prev(c) == routes[data[c].route][data[c].idx]
depot_tail_of(c) == Last(routes[data[c].route])
-----------------------------------------------------------------------------
(***************************************************************************)
(* Updates of the data d of the objects of route x of rts.                 *)
(***************************************************************************)
\* Mutant: the object at from itself is left out.
RefreshAfter(rts, d, x, from) ==
  [c \in Object |->
     IF c \in {rts[x][i + 1] : i \in from + 1 .. last(rts[x])}
     THEN [d[c] EXCEPT !.route = x, !.idx = IndexIn(rts[x], c)]
     ELSE d[c]]

route_refresh_metadata_from(rts, d, x, from) ==
  [c \in Object |->
     IF c \in {rts[x][i + 1] : i \in from .. last(rts[x])}
     THEN [d[c] EXCEPT !.route = x, !.idx = IndexIn(rts[x], c)]
     ELSE d[c]]

\* By index: the load of the node and of those before it, from index from on.
c_penalty_update_forward(r, d, from) ==
  LET demand_pf[i \in 0 .. last(r)] ==
        CASE i < from -> d[r[i + 1]].demand_pf
          [] i >= from /\ i = 0 -> demand(r[1])
          [] OTHER -> demand_pf[i - 1] + demand(r[i + 1])
  IN  demand_pf

\* Of those behind it, up to index from.
c_penalty_update_backward(r, d, from) ==
  LET demand_sf[i \in 0 .. last(r)] ==
        CASE i > from -> d[r[i + 1]].demand_sf
          [] i <= from /\ i = last(r) -> demand(r[i + 1])
          [] OTHER -> demand_sf[i + 1] + demand(r[i + 1])
  IN  demand_sf

\* Its arrival, and the lateness up to it.
updated_a(r, d, from) ==
  LET a[i \in 0 .. last(r)] ==
        CASE i < from -> d[r[i + 1]].a
          [] i >= from /\ i = 0 -> e(r[1])
          [] OTHER -> Clip(problem, id(r[i + 1]), a[i - 1] + leg(r[i], r[i + 1]))
  IN  a

updated_tw_pf(r, d, from, a) ==
  LET tw_pf[i \in 0 .. last(r)] ==
        CASE i < from -> d[r[i + 1]].tw_pf
          [] i >= from /\ i = 0 -> 0
          [] OTHER -> tw_pf[i - 1] + MAX(0, a[i - 1] + leg(r[i], r[i + 1]) - l(r[i + 1]))
  IN  tw_pf

tw_penalty_update_forward(r, d, from) ==
  LET a == updated_a(r, d, from)
  IN  [a |-> a, tw_pf |-> updated_tw_pf(r, d, from, a)]

\* Its latest start, and the lateness behind it.
updated_z(r, d, from) ==
  LET z[i \in 0 .. last(r)] ==
        CASE i > from -> d[r[i + 1]].z
          [] i <= from /\ i = last(r) -> problem.l[0]
          [] OTHER -> Clip(problem, id(r[i + 1]), z[i + 1] - leg(r[i + 1], r[i + 2]))
  IN  z

updated_tw_sf(r, d, from, z) ==
  LET tw_sf[i \in 0 .. last(r)] ==
        CASE i > from -> d[r[i + 1]].tw_sf
          [] i <= from /\ i = last(r) -> 0
          [] OTHER -> tw_sf[i + 1] + MAX(0, e(r[i + 1]) - (z[i + 1] - leg(r[i + 1], r[i + 2])))
  IN  tw_sf

tw_penalty_update_backward(r, d, from) ==
  LET z == updated_z(r, d, from)
  IN  [z |-> z, tw_sf |-> updated_tw_sf(r, d, from, z)]

route_update_penalty(rts, d, x, forward, backward) ==
  LET r == rts[x]
      demand_pf == c_penalty_update_forward(r, d, forward)
      demand_sf == c_penalty_update_backward(r, d, backward)
      tw_forward == tw_penalty_update_forward(r, d, forward)
      tw_backward == tw_penalty_update_backward(r, d, backward)
      updated(c, i) ==
        [d[c] EXCEPT !.demand_pf = demand_pf[i], !.demand_sf = demand_sf[i],
                     !.a = tw_forward.a[i], !.tw_pf = tw_forward.tw_pf[i],
                     !.z = tw_backward.z[i], !.tw_sf = tw_backward.tw_sf[i]]
  IN  [c \in Object |-> IF c \in ToSet(r) THEN updated(c, IndexIn(r, c)) ELSE d[c]]

route_init_penalty(rts, d, x) == route_update_penalty(rts, d, x, 0, last(rts[x]))

\* The data of objects that never were in a route, or were long ago.
Unset == [route |-> 0, idx |-> -1, a |-> 0, tw_pf |-> 0, demand_pf |-> 0,
          z |-> 0, tw_sf |-> 0, demand_sf |-> 0]

\* route_init for each of the routes.
route_init(rts) ==
  LET init[x \in 0 .. NRoutes] ==
        IF x = 0 THEN [c \in Object |-> Unset]
        ELSE route_init_penalty(rts, route_refresh_metadata_from(rts, init[x - 1], x, 0), x)
  IN  init[NRoutes]

Init ==
  /\ problem \in Problems
  /\ routes = [x \in Route |->
       <<HeadOf(x)>> \o (IF x = 1 THEN [c \in Customer |-> c] ELSE <<>>) \o <<FirstTailOf(x)>>]
  /\ data = route_init(routes)
-----------------------------------------------------------------------------
(***************************************************************************)
(* modification_applicable and modification_apply.  The new data is built  *)
(* in the order of the code.                                               *)
(***************************************************************************)
\* Mutant: the customer ends up behind the node it should precede.
InsertBehind(r, i, c) == SubSeq(r, 1, i + 1) \o <<c>> \o SubSeq(r, i + 2, Len(r))

insert_customer(r, i, c) == SubSeq(r, 1, i) \o <<c>> \o SubSeq(r, i + 1, Len(r))
remove_customer(r, i) == SubSeq(r, 1, i) \o SubSeq(r, i + 2, Len(r))
Removed(d, c) == [d EXCEPT ![c].route = 0, ![c].idx = -1]

CanTwoOpt(v, w) ==
  /\ data[v].route # data[w].route
  /\ v # depot_tail_of(v) /\ w # depot_tail_of(w)

ApplyTwoOpt(v, w) ==
  LET x == data[v].route
      y == data[w].route
      v_cut == data[v].idx + 1
      w_cut == data[w].idx + 1
      rts == [routes EXCEPT
                ![x] = SubSeq(@, 1, v_cut) \o SubSeq(routes[y], w_cut + 1, Len(routes[y])),
                ![y] = SubSeq(@, 1, w_cut) \o SubSeq(routes[x], v_cut + 1, Len(routes[x]))]
  IN  /\ CanTwoOpt(v, w)
      /\ routes' = rts
      /\ \E fresh \in {route_refresh_metadata_from(rts,
                         route_refresh_metadata_from(rts, data, x, v_cut), y, w_cut)} :
           data' = route_init_penalty(rts, route_init_penalty(rts, fresh, x), y)
      /\ UNCHANGED problem

CanOutRelocate(v, w) ==
  w \in Customer /\ v # HeadOf(data[v].route) /\ route_prev(v) # w

ApplyOutRelocate(v, w) ==
  LET x == data[v].route
      y == data[w].route
      src == data[w].idx
      dst == IF x = y /\ src < data[v].idx THEN data[v].idx - 1 ELSE data[v].idx
      without == [routes EXCEPT ![y] = remove_customer(@, src)]
      rts == [without EXCEPT ![x] = insert_customer(@, dst, w)]
  IN  /\ CanOutRelocate(v, w) /\ v # w
      /\ routes' = rts
      /\ \E gone \in {Removed(route_refresh_metadata_from(without, data, y, src), w)} :
         \E fresh \in {route_refresh_metadata_from(rts, gone, x, dst)} :
           data' = IF x = y THEN route_init_penalty(rts, fresh, x)
                   ELSE route_update_penalty(rts, route_update_penalty(rts, fresh, x, dst, dst),
                                             y, src, src - 1)
      /\ UNCHANGED problem

CanExchange(v, w) == v \in Customer /\ w \in Customer

ApplyExchange(v, w) ==
  LET x == data[v].route
      y == data[w].route
      i == data[v].idx
      j == data[w].idx
      rts == [routes EXCEPT ![x][i + 1] = w, ![y][j + 1] = v]
  IN  /\ CanExchange(v, w) /\ v # w
      /\ routes' = rts
      /\ \E fresh \in {route_refresh_metadata_from(rts,
                         route_refresh_metadata_from(rts, data, x, i),
                         y, IF x = y THEN MIN(i, j) ELSE j)} :
           data' = IF x = y THEN route_init_penalty(rts, fresh, x)
                   ELSE route_update_penalty(rts, route_update_penalty(rts, fresh, x, i, i),
                                             y, j, j)
      /\ UNCHANGED problem

CanInsert(v, w) == w \in Customer /\ v # HeadOf(data[v].route)

ApplyInsert(v, w) ==
  LET x == data[v].route
      i == data[v].idx
      rts == [routes EXCEPT ![x] = insert_customer(@, i, w)]
  IN  /\ CanInsert(v, w) /\ w \notin Placed
      /\ routes' = rts
      /\ data' = route_update_penalty(rts, route_refresh_metadata_from(rts, data, x, i), x, i, i)
      /\ UNCHANGED problem

\* Mutant: the backward update starts one node too early, so that the node before the
\* gap keeps its values.
ApplyEjectBackwardLate(v) ==
  LET x == data[v].route
      i == data[v].idx
      rts == [routes EXCEPT ![x] = remove_customer(@, i)]
  IN  /\ v \in Customer
      /\ Cardinality(Object \ Placed) < MaxEjected
      /\ routes' = rts
      /\ data' = route_update_penalty(rts,
                   Removed(route_refresh_metadata_from(rts, data, x, i), v), x, i, i - 2)
      /\ UNCHANGED problem

ApplyEject(v) ==
  LET x == data[v].route
      i == data[v].idx
      rts == [routes EXCEPT ![x] = remove_customer(@, i)]
  IN  /\ v \in Customer
      /\ Cardinality(Object \ Placed) < MaxEjected
      /\ routes' = rts
      /\ data' = route_update_penalty(rts,
                   Removed(route_refresh_metadata_from(rts, data, x, i), v), x, i, i - 1)
      /\ UNCHANGED problem

Next ==
  \/ \E v, w \in Placed : ApplyTwoOpt(v, w)
  \/ \E v, w \in Placed : ApplyOutRelocate(v, w)
  \/ \E v, w \in Placed : ApplyExchange(v, w)
  \/ \E v \in Placed, w \in Object \ Placed : ApplyInsert(v, w)
  \/ \E v \in Placed : ApplyEject(v)

Spec == Init /\ [][Next]_vars
-----------------------------------------------------------------------------
(***************************************************************************)
(* penalty_inline.h: penalties of a changed route from the cached data.    *)
(***************************************************************************)
tw_penalty(c) == data[depot_tail_of(c)].tw_pf
c_total(c) == data[depot_tail_of(c)].demand_pf
over_capacity(total) == MAX(0, total - problem.vc)

\* Mutant: the meeting times are compared before they are clipped.
BetweenUnclipped(b, w, f) ==
  LET a_quote == data[b].a + leg(b, w)
      z_quote == data[f].z - leg(w, f)
  IN  data[b].tw_pf + data[f].tw_sf + MAX(0, a_quote - l(w)) + MAX(0, e(w) - z_quote)
        + MAX(0, a_quote - z_quote)

\* The lateness with w served between the cached data of b and of f.
Between(b, w, f) ==
  LET a_quote == data[b].a + leg(b, w)
      z_quote == data[f].z - leg(w, f)
  IN  data[b].tw_pf + data[f].tw_sf + MAX(0, a_quote - l(w)) + MAX(0, e(w) - z_quote)
        + MAX(0, Clip(problem, id(w), a_quote) - Clip(problem, id(w), z_quote))

tw_insert_delta(v, w) == Between(route_prev(v), w, v) - tw_penalty(v)
tw_replace_delta(v, w) == Between(route_prev(v), w, route_next(v)) - tw_penalty(v)

tw_eject_delta(v) ==
  LET b == route_prev(v)
      f == route_next(v)
      a_quote == data[b].a + leg(b, f)
  IN  data[b].tw_pf + data[f].tw_sf + MAX(0, a_quote - l(f))
        + MAX(0, Clip(problem, id(f), a_quote) - data[f].z) - tw_penalty(v)

tw_one_opt_delta(v, w) ==
  LET f == route_next(w)
  IN  data[v].tw_pf + data[f].tw_sf + MAX(0, data[v].a + leg(v, f) - data[f].z) - tw_penalty(v)

c_change(v, by) == over_capacity(c_total(v) + by) - over_capacity(c_total(v))
c_one_opt_delta(v, w) ==
  over_capacity(data[v].demand_pf + data[route_next(w)].demand_sf) - over_capacity(c_total(v))

\* modification_delta where it is computed from the caches: the penalties of
\* lateness and of capacity.
modification_delta(type, v, w) ==
  CASE type = "TWO_OPT" ->
         <<tw_one_opt_delta(v, w) + tw_one_opt_delta(w, v),
           c_one_opt_delta(v, w) + c_one_opt_delta(w, v)>>
    [] type = "OUT_RELOCATE" ->
         <<tw_eject_delta(w) + tw_insert_delta(v, w), c_change(w, -demand(w)) + c_change(v, demand(w))>>
    [] type = "EXCHANGE" ->
         <<tw_replace_delta(v, w) + tw_replace_delta(w, v),
           c_change(v, demand(w) - demand(v)) + c_change(w, demand(v) - demand(w))>>
    [] type = "INSERT" -> <<tw_insert_delta(v, w), c_change(v, demand(w))>>
    [] type = "EJECT" -> <<tw_eject_delta(v), c_change(v, -demand(v))>>

(***************************************************************************)
(* tw_penalty_exchange_penalty_delta_lower_bound for two customers of one  *)
(* route, v before w.  ThroughLateness is its upd_through_seg.             *)
(***************************************************************************)
Through(b, c, f) == ThroughSegment(problem, data[b].a, id(b), id(c), id(f))

\* Mutant: the lateness at the node after the customer is forgotten.
ThroughLatenessFirst(b, c, f) == MAX(0, data[b].a + leg(b, c) - l(c))

ThroughLateness(b, c, f) ==
  LET a_quote == data[b].a + leg(b, c)
  IN  MAX(0, a_quote - l(c)) + MAX(0, Clip(problem, id(c), a_quote) + leg(c, f) - l(f))

exchange_lower_bound(v, w) ==
  LET v_minus == route_prev(v)
      v_plus == route_next(v)
      w_minus == route_prev(w)
      w_plus == route_next(w)
      head == data[v_minus].tw_pf + ThroughLateness(v_minus, w, v_plus)
      middle == head + data[w_minus].tw_pf - data[v_plus].tw_pf + ThroughLateness(w_minus, v, w_plus)
  IN  CASE v_plus = w ->
             [exact |-> TRUE,
              delta |-> data[v_minus].tw_pf + ThroughLateness(v_minus, w, v) + data[w_plus].tw_sf
                + MAX(0, Through(v_minus, w, v) + leg(v, w_plus) - data[w_plus].z) - tw_penalty(v)]
        [] v_plus # w /\ Through(v_minus, w, v_plus) # data[v_plus].a ->
             [exact |-> FALSE, delta |-> head - tw_penalty(v)]
        [] v_plus # w /\ Through(v_minus, w, v_plus) = data[v_plus].a
             /\ Through(w_minus, v, w_plus) # data[w_plus].a ->
             [exact |-> FALSE, delta |-> middle - tw_penalty(v)]
        [] OTHER ->
             [exact |-> TRUE, delta |-> middle + tw_penalty(v) - data[w_plus].tw_pf - tw_penalty(v)]
-----------------------------------------------------------------------------
\* The routes as Penalty and Modification know them, and the node of an object.
Ids == [x \in Route |-> SubSeq(routes[x], 2, last(routes[x]))]
Node(c) == <<data[c].route, data[c].idx>>

TypeOK ==
  /\ routes \in [Route -> Seq(Object)]
  /\ data \in [Object -> [route : 0 .. NRoutes, idx : -1 .. problem.n + 1,
                          a : Nat, tw_pf : Nat, demand_pf : Nat,
                          z : Nat, tw_sf : Nat, demand_sf : Nat]]

(***************************************************************************)
(* route_check: an object knows its route and its index there, and every   *)
(* object that knows a route is in it.                                     *)
(***************************************************************************)
PlacesExact ==
  /\ \A x \in Route : \A i \in 0 .. last(routes[x]) : Node(routes[x][i + 1]) = <<x, i>>
  /\ \A c \in Placed : routes[data[c].route][data[c].idx + 1] = c
  /\ \A x \in Route : routes[x][1] = HeadOf(x) /\ Last(routes[x]) \notin Customer

(***************************************************************************)
(* Whatever modifications led here, the values cached along each route are *)
(* those a computation anew would give, though most modifications update   *)
(* only one direction from the place of the change.                        *)
(***************************************************************************)
CachesExact ==
  \A x \in Route :
    LET r == Ids[x]
        a == Arrivals(problem, r)
        tw_pf == PrefixLateness(problem, r)
        z == LatestStarts(problem, r)
        tw_sf == SuffixLateness(problem, r)
        demand_pf == PrefixDemand(problem, r)
        demand_sf == SuffixDemand(problem, r)
    IN  \A i \in Indexes(r) :
          LET d == data[routes[x][i + 1]]
          IN  /\ d.a = a[i] /\ d.tw_pf = tw_pf[i] /\ d.demand_pf = demand_pf[i]
              /\ d.z = z[i] /\ d.tw_sf = tw_sf[i] /\ d.demand_sf = demand_sf[i]

\* What the modification does to the penalties of the routes of v and of w.
Change(after, x, y) ==
  LET tw(z) == TwPenalty(problem, after[z]) - TwPenalty(problem, Ids[z])
      c(z) == CPenalty(problem, after[z]) - CPenalty(problem, Ids[z])
  IN  <<tw(x) + (IF x = y THEN 0 ELSE tw(y)), c(x) + IF x = y THEN 0 ELSE c(y)>>

(***************************************************************************)
(* The constant-time deltas equal the change of the penalties computed     *)
(* anew, for every modification whose delta the solver takes from the      *)
(* caches: insertions, ejections and the moves between two routes.         *)
(***************************************************************************)
DeltasExact ==
  /\ \A v, w \in Placed :
       data[v].route # data[w].route =>
         \A type \in Moves :
           modification_applicable(Ids, type, Node(v), Node(w)) =>
             modification_delta(type, v, w) =
               Change(modification_apply(Ids, type, Node(v), Node(w)),
                      data[v].route, data[w].route)
  /\ \A v \in Placed, w \in Object \ Placed :
       CanInsert(v, w) =>
         modification_delta("INSERT", v, w) =
           Change(Insert(Ids, Node(v), w), data[v].route, data[v].route)
  /\ \A v \in Placed \cap Customer :
       modification_delta("EJECT", v, v) =
         Change(Eject(Ids, Node(v)), data[v].route, data[v].route)

(***************************************************************************)
(* The bound used to skip exchanges within a route never exceeds the       *)
(* change of the lateness, and is that change when it says so.             *)
(***************************************************************************)
ExchangeBounded ==
  \A v, w \in Placed \cap Customer :
    data[v].route = data[w].route /\ data[v].idx < data[w].idx =>
      LET bound == exchange_lower_bound(v, w)
          x == data[v].route
          delta == Change(Exchange(Ids, Node(v), Node(w)), x, x)[1]
      IN  /\ bound.delta <= delta
          /\ bound.exact => bound.delta = delta
          /\ bound.exact = ExchangeExact(problem, Ids[x], data[v].idx, data[w].idx)

(***************************************************************************)
(* The array operations carry out the modifications as EamaSolver has      *)
(* them: each step is one, applied to the nodes of v and w.                *)
(***************************************************************************)
AppliesModification ==
  [][\/ \E v, w \in Placed, type \in Moves :
          /\ modification_applicable(Ids, type, Node(v), Node(w))
          /\ Ids' = modification_apply(Ids, type, Node(v), Node(w))
     \/ \E v \in Placed, w \in Object \ Placed :
          ~IsHead(Node(v)) /\ Ids' = Insert(Ids, Node(v), w)
     \/ \E v \in Placed \cap Customer : Ids' = Eject(Ids, Node(v))]_vars
=============================================================================
