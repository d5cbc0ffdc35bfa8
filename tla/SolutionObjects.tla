---------------------------- MODULE SolutionObjects ----------------------------
(***************************************************************************)
(* The memory of solutions (solution.cc): customers and depots are objects *)
(* that routes, the ejection pool and w point to, and copies of solutions  *)
(* are made, moved and deleted by the phases of eama_solver.c.             *)
(*                                                                         *)
(* malloc hands out the first free address, so that memory is reused as    *)
(* soon as it can be and a pointer that was left behind points to          *)
(* something else.  insert_eject's tries, which restore the solution, are  *)
(* left out; the insertion and the ejections it chooses are one step.      *)
(***************************************************************************)
EXTENDS Modification, SequencesExt

CONSTANTS
  n_customers,
  MaxSolutions  \* solutions alive at once: the solver's and the copies of two phases

ASSUME ObjectsAssumption == n_customers \in Nat \ {0} /\ MaxSolutions \in Nat /\ MaxSolutions >= 3

VARIABLES
  customers,    \* id of the object at each address, Free if there is none
  routes,       \* the addresses in the route at each address, <<>> if there is none
  solutions,    \* the solution of the solver first, then the copies
  failed        \* delete_route failed, which ends the solver

objectVars == <<customers, routes, solutions, failed>>

Free == -1
NULL == 0
Ids == 1 .. n_customers
Slots == 1 .. n_customers
Addresses == 1 .. 3 * n_customers * MaxSolutions
RouteAddresses == 1 .. n_customers * MaxSolutions

\* mem: customers and routes in the course of an operation.
Heap == [customers |-> customers, routes |-> routes]

\* The k-th smallest of these numbers.
Nth(numbers, k) == CHOOSE a \in numbers : Cardinality({b \in numbers : b <= a}) = k

\* What the k-th allocation from here on returns.
malloc(mem, k) == Nth({a \in Addresses : mem.customers[a] = Free}, k)
route_new(mem, k) == Nth({r \in RouteAddresses : mem.routes[r] = <<>>}, k)

freed(mem, as) ==
  [mem EXCEPT !.customers = [a \in Addresses |-> IF a \in as THEN Free ELSE @[a]]]

\* route_delete of each of these routes, with the objects in it.
route_delete(mem, rs) ==
  [freed(mem, UNION {ToSet(mem.routes[r]) : r \in rs}) EXCEPT
     !.routes = [r \in RouteAddresses |-> IF r \in rs THEN <<>> ELSE @[r]]]
-----------------------------------------------------------------------------
\* problem_customers_dup and solution_meta_new: an object for each customer.
solution_meta_new(mem) == [id \in Ids |-> malloc(mem, id)]

\* Then two depots for each route, the customers between them.
Depot(mem, i, last) == malloc(mem, n_customers + 2 * i - (IF last THEN 0 ELSE 1))

WithDepots(mem, i, ids) ==
  <<Depot(mem, i, FALSE)>> \o [j \in DOMAIN ids |-> solution_meta_new(mem)[ids[j]]]
    \o <<Depot(mem, i, TRUE)>>

\* solution_default, solution_decode and solution_dup: a solution of these ids.
Built(mem, w, pool, rts) ==
  LET meta == solution_meta_new(mem)
      at == [i \in DOMAIN rts |-> route_new(mem, i)]
      depots == UNION {{Depot(mem, i, FALSE), Depot(mem, i, TRUE)} : i \in DOMAIN rts}
  IN  [mem |-> [customers |-> [a \in Addresses |->
                  IF a \in depots THEN 0
                  ELSE IF a \in Range(meta) THEN CHOOSE id \in Ids : meta[id] = a
                  ELSE mem.customers[a]],
                routes |-> [r \in RouteAddresses |->
                  IF r \in Range(at) THEN LET i == CHOOSE i \in DOMAIN rts : at[i] = r
                                          IN  WithDepots(mem, i, rts[i])
                  ELSE mem.routes[r]]],
       s |-> [w |-> IF w = NULL THEN NULL ELSE meta[w], meta |-> meta,
              pool |-> [i \in DOMAIN pool |-> meta[pool[i]]], n_routes |-> Len(rts),
              routes |-> [i \in Slots |-> IF i \in DOMAIN rts THEN at[i] ELSE NULL]]]

RouteIds(mem, r) == [i \in 1 .. Len(mem.routes[r]) - 2 |-> mem.customers[mem.routes[r][i + 1]]]

solution_dup(mem, s) ==
  Built(mem, IF s.w = NULL THEN NULL ELSE mem.customers[s.w],
        [i \in DOMAIN s.pool |-> mem.customers[s.pool[i]]],
        [i \in 1 .. s.n_routes |-> RouteIds(mem, s.routes[i])])

RoutesOf(s) == {s.routes[i] : i \in 1 .. s.n_routes}

solution_delete(mem, s) ==
  route_delete(freed(mem, ({s.w} \ {NULL}) \cup ToSet(s.pool)), RoutesOf(s))

\* solution_move, as what dst and src are when src is deleted.
\* Mutant: only the routes both have change places.
ExchangedFewer(dst, src) ==
  LET low == IF dst.n_routes < src.n_routes THEN dst.n_routes ELSE src.n_routes
      with(x, y) == [y EXCEPT !.routes = [i \in Slots |-> IF i <= low THEN y.routes[i] ELSE x.routes[i]]]
  IN  [dst |-> with(dst, src), src |-> with(src, dst)]

Exchanged(dst, src) ==
  LET high == IF dst.n_routes < src.n_routes THEN src.n_routes ELSE dst.n_routes
      with(x, y) == [y EXCEPT !.routes = [i \in Slots |-> IF i <= high THEN y.routes[i] ELSE x.routes[i]]]
  IN  [dst |-> with(dst, src), src |-> with(src, dst)]
-----------------------------------------------------------------------------
Become(mem, ss, fails) ==
  /\ customers' = mem.customers /\ routes' = mem.routes
  /\ solutions' = ss /\ failed' = (failed \/ fails)

s0 == solutions[1]
Depth == Len(solutions) - 1

\* The initial solutions: the customers in order, cut into routes.
ObjectsInit ==
  \E m \in 1 .. n_customers : \E ends \in [0 .. m -> 0 .. n_customers] :
    LET rts == [i \in 1 .. m |-> [j \in 1 .. ends[i] - ends[i - 1] |-> ends[i - 1] + j]]
        empty == [customers |-> [a \in Addresses |-> Free],
                  routes |-> [r \in RouteAddresses |-> <<>>]]
        built == Built(empty, NULL, <<>>, rts)
    IN  /\ ends[0] = 0 /\ ends[m] = n_customers /\ \A i \in 1 .. m : ends[i - 1] < ends[i]
        /\ customers = built.mem.customers /\ routes = built.mem.routes
        /\ solutions = <<built.s>>
        /\ failed = FALSE

(***************************************************************************)
(* delete_route copies the solution and eliminates a route, which changes  *)
(* places with the last one; its slot keeps pointing to freed memory.      *)
(***************************************************************************)
EliminateRoute ==
  /\ Depth = 0 /\ ~failed /\ s0.n_routes > 0
  /\ \E i \in 1 .. s0.n_routes :
       LET dup == solution_dup(Heap, s0)
           r == s0.routes[i]
           placed == routes[r]
           s == [s0 EXCEPT !.routes[i] = s0.routes[s0.n_routes], !.routes[s0.n_routes] = r,
                           !.n_routes = @ - 1, !.pool = SubSeq(placed, 2, Len(placed) - 1)]
           mem == freed(dup.mem, {placed[1], placed[Len(placed)]})
       IN  Become([mem EXCEPT !.routes[r] = <<>>], <<s, dup.s>>, FALSE)

PopCustomer ==
  /\ Depth = 1 /\ s0.w = NULL /\ s0.pool # <<>>
  /\ solutions' = [solutions EXCEPT ![1].w = Last(s0.pool), ![1].pool = Front(s0.pool)]
  /\ UNCHANGED <<customers, routes, failed>>

\* squeeze and insert_eject copy the solution.
DupForPhase ==
  /\ Depth = 1 /\ s0.w # NULL
  /\ \E dup \in {solution_dup(Heap, s0)} : Become(dup.mem, Append(solutions, dup.s), FALSE)

\* w goes into a route: insert_feasible, or squeeze's first insertion.
InsertW ==
  /\ s0.w # NULL
  /\ \E r \in RoutesOf(s0) : \E i \in 1 .. Len(routes[r]) - 1 :
       routes' = [routes EXCEPT ![r] = InsertBefore(@, i + 1, s0.w)]
  /\ solutions' = [solutions EXCEPT ![1].w = NULL]
  /\ UNCHANGED <<customers, failed>>

\* What stands at these positions of a sequence, in their order.
Chosen(seq, positions) ==
  [i \in 1 .. Cardinality(positions) |-> seq[Nth(positions, i)]]

\* insert_eject's best insertion, and its ejections in their order.
InsertAndEject ==
  /\ Depth = 2 /\ s0.w # NULL
  /\ \E r \in RoutesOf(s0) : \E i \in 1 .. Len(routes[r]) - 1 :
       LET with == InsertBefore(routes[r], i + 1, s0.w)
       IN  \E out \in SUBSET (2 .. Len(with) - 1) \ {{}} :
             /\ routes' = [routes EXCEPT ![r] = Chosen(with, DOMAIN with \ out)]
             /\ solutions' = [solutions EXCEPT ![1].w = NULL,
                                               ![1].pool = @ \o Chosen(with, out)]
  /\ UNCHANGED <<customers, failed>>

(***************************************************************************)
(* The moves of squeeze and perturb on the objects: TWO_OPT exchanges the  *)
(* tails, tail depots included.                                            *)
(***************************************************************************)
Move ==
  /\ Depth \in {1, 2} /\ s0.w = NULL
  /\ \E r, q \in RoutesOf(s0) : \E i \in 1 .. Len(routes[r]) - 1, j \in 1 .. Len(routes[q]) - 1 :
       /\ r # q
       /\ \/ routes' = [routes EXCEPT ![r] = Splice(@, i, routes[q], j),
                                      ![q] = Splice(@, j, routes[r], i)]
          \/ /\ j > 1
             /\ routes' = [routes EXCEPT ![r] = InsertBefore(@, i + 1, routes[q][j]),
                                         ![q] = RemoveIndex(@, j)]
          \/ /\ i > 1 /\ j > 1
             /\ routes' = [routes EXCEPT ![r][i] = routes[q][j], ![q][j] = routes[r][i]]
  /\ UNCHANGED <<customers, solutions, failed>>

\* A phase succeeds: its copy is deleted.
PhaseDone ==
  /\ Depth > 0 /\ s0.w = NULL /\ (Depth = 1 => s0.pool = <<>>)
  /\ Become(solution_delete(Heap, Last(solutions)), Front(solutions), FALSE)

\* A phase fails at any point, the deadline included: its copy takes the solution's place.
PhaseFailed ==
  /\ Depth > 0 /\ (Depth = 1 /\ s0.w = NULL => s0.pool # <<>>)
  /\ \E swap \in {Exchanged(s0, Last(solutions))} :
       Become(solution_delete(Heap, swap.src), [Front(solutions) EXCEPT ![1] = swap.dst],
              Depth = 1)

ObjectsNext ==
  \/ EliminateRoute \/ PopCustomer \/ DupForPhase \/ InsertW \/ InsertAndEject
  \/ Move \/ PhaseDone \/ PhaseFailed

ObjectsSpec == ObjectsInit /\ [][ObjectsNext]_objectVars
-----------------------------------------------------------------------------
(***************************************************************************)
(* Every object that is allocated is pointed to from exactly one place of  *)
(* one solution - a route, the pool or w - and nothing else is pointed to: *)
(* deleting a solution frees each of its objects once and none of          *)
(* another's, and nothing is left behind (solution_move, solution_delete,  *)
(* solution.cc).  id_to_customer leads to the objects of its own solution, *)
(* and a route stands between two depots.                                  *)
(***************************************************************************)
Lists(s) ==
  [i \in -1 .. s.n_routes |->
     CASE i = -1 -> (IF s.w = NULL THEN <<>> ELSE <<s.w>>)
       [] i = 0 -> s.pool
       [] OTHER -> routes[s.routes[i]]]

RoutePlaces == UNION {{<<k, i>> : i \in 1 .. solutions[k].n_routes} : k \in DOMAIN solutions}

\* Place x of list i of solution k.
Places(k) ==
  UNION {{<<k, i, x>> : x \in DOMAIN Lists(solutions[k])[i]} : i \in -1 .. solutions[k].n_routes}

At(p) == Lists(solutions[p[1]])[p[2]][p[3]]

ObjectsExact ==
  LET used == [p \in RoutePlaces |-> solutions[p[1]].routes[p[2]]]
      pointers == [p \in UNION {Places(k) : k \in DOMAIN solutions} |-> At(p)]
  IN  /\ IsInjective(used) /\ Range(used) = {r \in RouteAddresses : routes[r] # <<>>}
      /\ IsInjective(pointers) /\ Range(pointers) = {a \in Addresses : customers[a] # Free}
      /\ \A k \in DOMAIN solutions :
           /\ \A id \in Ids : /\ customers[solutions[k].meta[id]] = id
                              /\ \E p \in Places(k) : At(p) = solutions[k].meta[id]
           /\ \A p \in Places(k) :
                customers[At(p)] = 0 <=> p[2] > 0 /\ p[3] \in {1, Len(Lists(solutions[k])[p[2]])}
=============================================================================
