----------------------------- MODULE Neighbourhood -----------------------------
(***************************************************************************)
(* The moves squeeze chooses from (solution.cc): for one infeasible route, *)
(* those that solution_modification_neighbourhood_f yields.                *)
(***************************************************************************)
EXTENDS Ejection

CONSTANTS
  Problem,  \* the instance, see Penalty
  Near      \* per node the customers among its n_near nearest

ASSUME InstanceAssumption == Instance(Problem)

(***************************************************************************)
(* solution_modification_neighbourhood_f: the moves it yields for route x. *)
(* w runs over the nodes of x, v over the tails of all routes (when w is a *)
(* customer) and over the near customers of w.                             *)
(***************************************************************************)
Tails(rts) == {<<x, Len(rts[x]) + 1>> : x \in DOMAIN rts}

NeighbourPairs(rts, x) ==
  LET near(w) == {v \in CustomerNodes(rts) : rts[v[1]][v[2]] \in Near[Id(rts[x], w[2])]}
  IN  UNION {{<<v, w>> : v \in near(w) \cup (IF IsDepot(rts, w) THEN {} ELSE Tails(rts))} :
             w \in {x} \X Indexes(rts[x])}

\* Mutant: the node after which nothing is left is not filtered out.
InterRouteUnfiltered(rts, v, w) ==
  {type \in Moves : /\ IsHead(w) => type = "TWO_OPT" /\ ~IsDepot(rts, v)
                    /\ IsDepot(rts, v) => type = "OUT_RELOCATE"}

\* inter_route_modifications
InterRoute(rts, v, w) ==
  {type \in Moves : /\ ~IsTail(rts, w)
                    /\ IsHead(w) => type = "TWO_OPT" /\ ~IsDepot(rts, v)
                    /\ IsDepot(rts, v) => type = "OUT_RELOCATE"}

\* intra_route_modifications
IntraRoute(rts, v, w) ==
  {type \in {"OUT_RELOCATE", "EXCHANGE"} :
     /\ ~IsDepot(rts, v) /\ ~IsDepot(rts, w)
     /\ modification_applicable(rts, type, v, w)
     /\ type = "EXCHANGE" => ExchangeExact(Problem, rts[v[1]], v[2], w[2])}

Neighbourhood(rts, x) ==
  UNION {LET v == vw[1]
             w == vw[2]
         IN  {<<type, v, w>> : type \in IF v[1] # w[1] THEN InterRoute(rts, v, w)
                                                       ELSE IntraRoute(rts, v, w)} :
         vw \in {pair \in NeighbourPairs(rts, x) : pair[1] # pair[2]}}
=============================================================================
