--------------------------- MODULE NeighbourhoodScan ---------------------------
(***************************************************************************)
(* The loop of squeeze (eama_solver.c) and the fiber it runs               *)
(* (solution_modification_neighbourhood_f, solution.cc), which yields the  *)
(* moves for one infeasible route one at a time in the shared variable m.  *)
(* squeeze keeps the best, cancels the fiber at a move that takes away the *)
(* route's penalty, and applies the best once the fiber is dead.           *)
(*                                                                         *)
(* For the moves within the route the fiber prepares a copy of the route   *)
(* without w.  The copy's objects are numbered, so that a lookup in        *)
(* id_to_customer that finds an object of an earlier copy is seen.         *)
(***************************************************************************)
EXTENDS Neighbourhood, SequencesExt

CONSTANTS
  Starts,    \* the routes squeeze may start from
  EPS5,      \* the tolerance in units of the instance's data
  alpha,     \* weight of the capacity penalty: 1 of the code, scaled
  beta,      \* weight of the lateness
  MaxMoves   \* bound on the moves squeeze applies

Customer == 1 .. Problem.n

\* squeeze starts from routes that hold no customer twice.
ASSUME ScanAssumption ==
  /\ {EPS5, alpha, beta} \subseteq Nat \ {0} /\ MaxMoves \in Nat
  /\ \A routes \in Starts :
       /\ routes \in Seq(Seq(Customer))
       /\ \A a, b \in CustomerNodes(routes) :
            routes[a[1]][a[2]] = routes[b[1]][b[2]] => a = b

VARIABLES
  pc,             \* squeeze: "choose", "compare", "apply", "failed"; the fiber: the others
  rts,            \* the routes
  x,              \* v_route
  m,              \* the move, with the lateness it adds when delta_initialized
  opt,            \* opt_modification and opt_delta
  cancelled,      \* the fiber's FIBER_IS_CANCELLED
  permutation,    \* the nodes of x that are still to be w
  w, v,           \* the current pair
  vs,             \* what the current w still has to meet
  types,          \* what the current pair still has to try
  copy,           \* out_relocate_current: its number, the route without w, w
  id_to_customer, \* the number of the copy each entry points into, 0 when unset
  objects,        \* the copied routes and customers that are allocated
  region,         \* whether the fiber's region is in use
  yielded,        \* the moves of this scan
  moves           \* how many moves were applied

generator == <<permutation, w, v, vs, types, copy, id_to_customer, objects, region, yielded>>
vars == <<pc, rts, x, m, opt, cancelled, generator, moves>>

Unset == -100000
Infinity == 100000
NoMove == [type |-> "INSERT", v |-> <<0, 0>>, w |-> <<0, 0>>, tw |-> Unset]
NoCopy == [number |-> 0, route |-> <<>>, w |-> 0, ejected |-> 0]

Feasible(r) == route_feasible(Problem, r, EPS5)
Penalty(r) == route_penalty(Problem, r, alpha, beta)
Sum(r, q) == TwPenalty(Problem, r) - TwPenalty(Problem, q)

\* modification_delta, from the penalties computed anew.
Change(mv, a, b) ==
  LET after == modification_apply(rts, mv.type, mv.v, mv.w)
      change(y) == route_penalty(Problem, after[y], a, b) - route_penalty(Problem, rts[y], a, b)
  IN  change(mv.v[1]) + IF mv.v[1] = mv.w[1] THEN 0 ELSE change(mv.w[1])

Delta(mv) == IF mv.tw = Unset THEN Change(mv, alpha, beta) ELSE beta * mv.tw

Init ==
  /\ pc = "choose"
  /\ rts \in Starts
  /\ x = 0 /\ m = NoMove /\ opt = [move |-> NoMove, delta |-> Infinity]
  /\ cancelled = FALSE
  /\ permutation = <<>> /\ w = <<0, 0>> /\ v = <<0, 0>> /\ vs = <<>> /\ types = <<>>
  /\ copy = NoCopy /\ id_to_customer = [c \in Customer |-> 0] /\ objects = {}
  /\ region = FALSE /\ yielded = <<>>
  /\ moves = 0
-----------------------------------------------------------------------------
(***************************************************************************)
(* squeeze up to the first call; the fiber's region and data start anew    *)
(* and its nodes are taken in a random order.                              *)
(***************************************************************************)
Choose ==
  /\ pc = "choose" /\ moves < MaxMoves
  /\ \E y \in DOMAIN rts :
       /\ ~Feasible(rts[y])
       /\ x' = y
       /\ permutation' \in SetToSeqs({y} \X Indexes(rts[y]))
  /\ opt' = [move |-> NoMove, delta |-> Infinity]
  /\ cancelled' = FALSE
  /\ copy' = NoCopy /\ id_to_customer' = [c \in Customer |-> 0]
  /\ region' = TRUE /\ yielded' = <<>>
  /\ pc' = "next_w"
  /\ UNCHANGED <<rts, m, w, v, vs, types, objects, moves>>

(***************************************************************************)
(* The nodes of the customers near c, nearest first; those that are        *)
(* ejected have none.  Customers at the same distance have been sorted in  *)
(* one order or the other.                                                 *)
(***************************************************************************)
NearNodes(c) ==
  LET distance(n) == dist(Problem, c, rts[n[1]][n[2]])
      near == {n \in CustomerNodes(rts) : rts[n[1]][n[2]] \in Near[c]}
  IN  {nodes \in SetToSeqs(near) :
         \A i, j \in DOMAIN nodes : i < j => distance(nodes[i]) <= distance(nodes[j])}

TailNodes == [y \in DOMAIN rts |-> <<y, Len(rts[y]) + 1>>]

\* intra_route_out_relocate_data_destroy
\* Mutant: the copied customer, which is not in the copied route any more, stays.
DestroyedRoute == objects \ {<<"route", copy.number>>}

Destroyed == objects \ ({"route", "customer"} \X {copy.number})

\* intra_route_out_relocate_data_create for node n: w is taken out of the copy.
Copied(n, number) ==
  [number |-> number, route |-> RemoveIndex(rts[x], n[2]), w |-> rts[x][n[2]],
   ejected |-> Sum(RemoveIndex(rts[x], n[2]), rts[x])]

NextW ==
  /\ pc = "next_w" /\ permutation # <<>>
  /\ LET n == Head(permutation)
     IN  /\ w' = n
         /\ IF IsDepot(rts, n)
            THEN /\ vs' \in NearNodes(0)
                 /\ UNCHANGED <<copy, id_to_customer, objects>>
            ELSE /\ vs' \in {TailNodes \o near : near \in NearNodes(rts[x][n[2]])}
                 /\ copy' = Copied(n, Len(permutation))
                 /\ id_to_customer' = [c \in Customer |->
                      IF c \in ToSet(rts[x]) THEN Len(permutation) ELSE id_to_customer[c]]
                 /\ objects' = Destroyed \cup ({"route", "customer"} \X {Len(permutation)})
  /\ permutation' = Tail(permutation)
  /\ pc' = "next_v"
  /\ UNCHANGED <<rts, x, m, opt, cancelled, v, types, region, yielded, moves>>

\* inter_route_modifications and intra_route_modifications: what is tried, in order.
\* Mutant: a move that only changes names is not filtered out.
InterTypesUnfiltered(a, b) ==
  CASE IsHead(b) -> <<"TWO_OPT">>
    [] ~IsHead(b) /\ IsDepot(rts, a) -> <<"OUT_RELOCATE">>
    [] OTHER -> <<"TWO_OPT", "OUT_RELOCATE", "EXCHANGE">>

InterTypes(a, b) ==
  CASE IsTail(rts, b) -> <<>>
    [] IsHead(b) -> IF IsDepot(rts, a) THEN <<>> ELSE <<"TWO_OPT">>
    [] ~IsDepot(rts, b) /\ IsDepot(rts, a) -> <<"OUT_RELOCATE">>
    [] OTHER -> <<"TWO_OPT", "OUT_RELOCATE", "EXCHANGE">>

IntraTypes(a, b) ==
  IF IsDepot(rts, a) \/ IsDepot(rts, b) THEN <<>> ELSE <<"OUT_RELOCATE", "EXCHANGE">>

NextV ==
  /\ pc = "next_v" /\ vs # <<>>
  /\ v' = Head(vs) /\ vs' = Tail(vs)
  /\ types' = CASE Head(vs) = w -> <<>>
                [] Head(vs)[1] # w[1] -> InterTypes(Head(vs), w)
                [] OTHER -> IntraTypes(Head(vs), w)
  /\ pc' = "next_type"
  /\ UNCHANGED <<rts, x, m, opt, cancelled, permutation, w, copy, id_to_customer, objects,
                 region, yielded, moves>>

NoMoreV ==
  /\ pc = "next_v" /\ vs = <<>>
  /\ pc' = "next_w"
  /\ UNCHANGED <<rts, x, m, opt, cancelled, generator, moves>>
-----------------------------------------------------------------------------
(***************************************************************************)
(* One candidate is written to m.  Within a route it is yielded only when  *)
(* applicable, with the lateness it adds: an out-relocation's from the     *)
(* copy, an exchange's when it is known exactly.                           *)
(***************************************************************************)
\* intra_route_out_relocate_init_delta
OutRelocateDelta ==
  LET at == CHOOSE i \in DOMAIN copy.route : copy.route[i] = rts[v[1]][v[2]]
  IN  copy.ejected + Sum(InsertBefore(copy.route, at, copy.w), copy.route)

Prepared(type) ==
  CASE v[1] # w[1] -> Unset
    [] v[1] = w[1] /\ type = "OUT_RELOCATE" -> OutRelocateDelta
    [] OTHER -> Change([type |-> type, v |-> v, w |-> w], 0, 1)

Yields(type) ==
  v[1] = w[1] => /\ modification_applicable(rts, type, v, w)
                 /\ type = "EXCHANGE" => ExchangeExact(Problem, rts[x], v[2], w[2])

NextType ==
  /\ pc = "next_type" /\ types # <<>>
  /\ types' = Tail(types)
  /\ LET type == Head(types)
         move == [type |-> type, v |-> v, w |-> w, tw |-> Unset]
     IN  IF Yields(type)
         THEN /\ m' = [move EXCEPT !.tw = Prepared(type)]
              /\ yielded' = Append(yielded, <<type, v, w>>)
              /\ pc' = "compare"
         ELSE /\ m' = move
              /\ UNCHANGED <<yielded, pc>>
  /\ UNCHANGED <<rts, x, opt, cancelled, permutation, w, v, vs, copy, id_to_customer, objects,
                 region, moves>>

NoMoreTypes ==
  /\ pc = "next_type" /\ types = <<>>
  /\ pc' = "next_v"
  /\ UNCHANGED <<rts, x, m, opt, cancelled, generator, moves>>

\* The label finish: reached when the nodes are used up or the fiber is cancelled.
Finish ==
  /\ pc = "finish" \/ (pc = "next_w" /\ permutation = <<>>)
  /\ copy' = NoCopy /\ objects' = Destroyed
  /\ region' = FALSE
  /\ pc' = "apply"
  /\ UNCHANGED <<rts, x, m, opt, cancelled, permutation, w, v, vs, types, id_to_customer,
                 yielded, moves>>
-----------------------------------------------------------------------------
\* Mutant: the scan is cancelled at the first move that improves anything.
EnoughAny(delta) == delta < 0

Enough(delta) == delta <= EPS5 * alpha - Penalty(rts[x])

\* squeeze looks at m and calls the fiber again, which first asks whether it is cancelled.
Compare ==
  /\ pc = "compare"
  /\ opt' = IF Delta(m) < opt.delta THEN [move |-> m, delta |-> Delta(m)] ELSE opt
  /\ cancelled' = (Delta(m) < opt.delta /\ Enough(Delta(m)))
  /\ pc' = IF cancelled' THEN "finish" ELSE "next_type"
  /\ UNCHANGED <<rts, x, m, generator, moves>>

\* fiber_is_dead: the best move is applied, or squeeze fails.
Apply ==
  /\ pc = "apply" /\ opt.delta <= -(EPS5 * alpha)
  /\ rts' = modification_apply(rts, opt.move.type, opt.move.v, opt.move.w)
  /\ moves' = moves + 1
  /\ pc' = "choose"
  /\ UNCHANGED <<x, m, opt, cancelled, generator>>

Fail ==
  /\ pc = "apply" /\ opt.delta > -(EPS5 * alpha)
  /\ pc' = "failed"
  /\ UNCHANGED <<rts, x, m, opt, cancelled, generator, moves>>

Next ==
  \/ Choose \/ NextW \/ NextV \/ NoMoreV \/ NextType \/ NoMoreTypes \/ Finish
  \/ Compare \/ Apply \/ Fail

Spec == Init /\ [][Next]_vars
-----------------------------------------------------------------------------
(***************************************************************************)
(* One copy of the route exists at a time and none outlives the scan; the  *)
(* region is given back; and the lateness prepared on the copy is the one  *)
(* the move adds to the route itself (solution.cc, out_relocate_current).  *)
(***************************************************************************)
CopySound ==
  /\ objects = {"route", "customer"} \X ({copy.number} \ {0})
  /\ pc \in {"choose", "apply", "failed"} => objects = {} /\ ~region
  /\ pc = "compare" /\ m.tw # Unset =>
       /\ id_to_customer[rts[m.v[1]][m.v[2]]] = copy.number
       /\ copy.w = rts[m.w[1]][m.w[2]]
       /\ m.tw = Change(m, 0, 1)
       /\ Change(m, 1, 0) = 0

(***************************************************************************)
(* A scan yields moves of the neighbourhood EamaSolver chooses from, none  *)
(* twice, and all of them unless it is cancelled.                          *)
(***************************************************************************)
YieldsNeighbourhood ==
  pc # "choose" =>
    /\ ToSet(yielded) \subseteq Neighbourhood(rts, x)
    /\ IsInjective(yielded)
    /\ pc \in {"apply", "failed"} /\ ~cancelled => ToSet(yielded) = Neighbourhood(rts, x)

(***************************************************************************)
(* What squeeze applies after a scan is a move of least delta, or one that *)
(* takes away the penalty of the route, and it improves; when squeeze      *)
(* fails, no move improves: the steps SqueezeMove and SqueezeFail of       *)
(* EamaSolver.  Only for a route whose penalty is below twice the          *)
(* tolerance does a move that changes nothing count as one that takes the  *)
(* penalty away: it ends the scan, and squeeze fails whatever else there   *)
(* is.                                                                     *)
(***************************************************************************)
AppliesOptimalMove ==
  [][LET delta(o) == Change([type |-> o[1], v |-> o[2], w |-> o[3]], alpha, beta)
         penalty == Penalty(rts[x])
     IN  /\ rts' # rts =>
              \E mv \in Neighbourhood(rts, x) :
                /\ rts' = modification_apply(rts, mv[1], mv[2], mv[3])
                /\ delta(mv) <= -(EPS5 * alpha)
                /\ \/ delta(mv) <= EPS5 * alpha - penalty
                   \/ \A o \in Neighbourhood(rts, x) : delta(mv) <= delta(o)
         /\ pc' = "failed" /\ pc # "failed" /\ penalty >= 2 * EPS5 * alpha =>
              \A o \in Neighbourhood(rts, x) : delta(o) > -(EPS5 * alpha)]_vars
=============================================================================
