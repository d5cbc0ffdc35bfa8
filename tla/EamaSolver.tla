------------------------------ MODULE EamaSolver ------------------------------
(***************************************************************************)
(* The route minimisation of eama_solver.c: eama_solver_solve deletes one  *)
(* route after another; delete_route puts the customers of a deleted route *)
(* back with insert_feasible, squeeze or insert_eject followed by perturb, *)
(* until its pool of ejected customers is empty or the deadline passes.    *)
(*                                                                         *)
(* A solution is a record of the routes, the ejection pool and the         *)
(* customer w in hand.  The sequence routes stands for the array routes    *)
(* and n_routes, and an index into it for a struct route pointer: the      *)
(* array is permuted only when a route is deleted.                         *)
(***************************************************************************)
EXTENDS Neighbourhood, FiniteSets

CONSTANTS
  InitialSolutions,   \* the routes solution_default or solution_decode build
  lower_bound_option, \* option --lower_bound
  k_max,              \* most customers ejected at once
  i_rand,             \* rounds of a perturbation
  EPS5,               \* the tolerance EPS5 in units of the instance's data
  alpha,              \* weight of the capacity penalty: 1 of the code, scaled
  MaxBeta,            \* bound on beta, the weight of the lateness
  beta_correction,    \* option: adapt beta when squeeze fails
  MaxP                \* bound on a penalty counter p[c]

Customer == 1 .. Problem.n
NULL == 0

Solution == [routes : Seq(Seq(Customer)),
             ejection_pool : Seq(Customer),
             w : Customer \cup {NULL}]

\* A solution that was deleted, or moved into another one.
Freed == [routes |-> <<>>, ejection_pool |-> <<>>, w |-> NULL]

Feasible(r) == route_feasible(Problem, r, EPS5)

ServesAllOnce(rts) ==
  /\ \A c \in Customer : \E x \in DOMAIN rts : \E i \in DOMAIN rts[x] : rts[x][i] = c
  /\ \A x, y \in DOMAIN rts : \A i \in DOMAIN rts[x], j \in DOMAIN rts[y] :
       rts[x][i] = rts[y][j] => x = y /\ i = j

ASSUME ProblemAssumption == Problem.n \in Nat \ {0, 1}

\* solution_decode checks all of this; for solution_default it says that the
\* instance serves each customer by a route of its own.
ASSUME InitialAssumption ==
  \A rts \in InitialSolutions :
    /\ rts \in Seq(Seq(Customer))
    /\ ServesAllOnce(rts)
    /\ \A x \in DOMAIN rts : Feasible(rts[x])

\* init_neighbours_sorted: Near[c] is a prefix of the customers by distance to c.
ASSUME NearAssumption ==
  \A c \in {0} \cup Customer :
    /\ Near[c] \subseteq Customer
    /\ \A d \in Near[c], f \in Customer \ Near[c] :
         dist(Problem, c, d) <= dist(Problem, c, f)

ASSUME OptionsAssumption ==
  /\ {lower_bound_option, k_max, i_rand} \subseteq Nat
  /\ {EPS5, alpha, MaxBeta, MaxP} \subseteq Nat \ {0}
  /\ alpha <= MaxBeta
  /\ beta_correction \in BOOLEAN

\* problem_routes_straight_lower_bound: the total demand over vc, rounded up.
straight_lower_bound ==
  LET sum[c \in 0 .. Problem.n] == IF c = 0 THEN 0 ELSE sum[c - 1] + Problem.demand[c]
  IN  (sum[Problem.n] + Problem.vc - 1) \div Problem.vc

\* The number of routes eama_solver_solve does not try to go below.
lower_bound == MAX(straight_lower_bound, lower_bound_option)
-----------------------------------------------------------------------------
VARIABLES
  pc,                 \* the point of the program
  s,                  \* the solution the solver works on
  incumbent,          \* delete_route's s_dup
  s_dup,              \* s_dup of squeeze and of insert_eject
  p,                  \* eama_solver.p
  beta,               \* eama_solver.beta
  infeasibles,        \* squeeze: the infeasible routes, in array order
  in_infeasibles_idx, \* squeeze: the place in infeasibles of a route in it
  search,             \* insert_eject: its loop variables and best result
  round,              \* perturb: i
  expired             \* clock() >= deadline

vars == <<pc, s, incumbent, s_dup, p, beta, infeasibles, in_infeasibles_idx,
          search, round, expired>>

\* An upper bound on all p sums, for INT64_MAX.
Infinity == MaxP * Problem.n + 1

NoSearch == [at |-> <<1, 1>>, p_best |-> Infinity, opt_v |-> <<0, 0>>,
             opt_ejection |-> <<>>]

TypeOK ==
  /\ pc \in {"solve", "delete_route", "insert_feasible", "squeeze", "squeeze_loop",
             "insert_eject", "try_insertion", "ejections", "eject", "perturb", "done"}
  /\ s \in Solution /\ incumbent \in Solution /\ s_dup \in Solution
  /\ p \in [Customer -> 0 .. MaxP]
  /\ beta \in 1 .. MaxBeta
  /\ DOMAIN search = {"at", "p_best", "opt_v", "opt_ejection"}
  /\ search.at \in Nat \X Nat /\ search.opt_v \in Nat \X Nat
  /\ search.opt_ejection \in Seq(Customer)
  /\ round \in 0 .. i_rand
  /\ expired \in BOOLEAN

Init ==
  /\ pc = "solve"
  /\ \E rts \in InitialSolutions :
       s = [routes |-> rts, ejection_pool |-> <<>>, w |-> NULL]
  /\ incumbent = Freed /\ s_dup = Freed
  /\ p = [c \in Customer |-> 0]
  /\ beta = alpha
  /\ infeasibles = <<>> /\ in_infeasibles_idx = <<>>
  /\ search = NoSearch
  /\ round = 0
  /\ expired = FALSE

\* modification_delta of a change of routes x and y.
Delta(before, after, x, y, a, b) ==
  LET change(z) == route_penalty(Problem, after[z], a, b)
                     - route_penalty(Problem, before[z], a, b)
  IN  change(x) + IF x = y THEN 0 ELSE change(y)

InsertDelta(rts, v, c, a, b) == Delta(rts, Insert(rts, v, c), v[1], v[1], a, b)

MoveDelta(rts, type, v, w, a, b) ==
  Delta(rts, modification_apply(rts, type, v, w), v[1], w[1], a, b)
-----------------------------------------------------------------------------
(***************************************************************************)
(* eama_solver_solve and delete_route                                      *)
(***************************************************************************)

\* Mutant: the array is cut before the last route was moved.
EliminateUnmoved(sol, x) ==
  [sol EXCEPT !.routes = SubSeq(sol.routes, 1, Len(sol.routes) - 1),
              !.ejection_pool = sol.ejection_pool \o sol.routes[x]]

\* solution_eliminate_random_route: the last route takes the place of route x.
Eliminate(sol, x) ==
  LET n == Len(sol.routes)
  IN  [sol EXCEPT
        !.routes = [y \in 1 .. n - 1 |-> IF y = x THEN sol.routes[n] ELSE sol.routes[y]],
        !.ejection_pool = sol.ejection_pool \o sol.routes[x]]

DeleteRoute ==
  /\ pc = "solve" /\ Len(s.routes) > lower_bound
  /\ incumbent' = s
  /\ \E x \in DOMAIN s.routes : s' = Eliminate(s, x)
  /\ pc' = "delete_route"
  /\ UNCHANGED <<s_dup, p, beta, infeasibles, in_infeasibles_idx, search, round, expired>>

StopAtLowerBound ==
  /\ pc = "solve" /\ Len(s.routes) <= lower_bound
  /\ pc' = "done"
  /\ UNCHANGED <<s, incumbent, s_dup, p, beta, infeasibles, in_infeasibles_idx,
                 search, round, expired>>

RouteDeleted ==
  /\ pc = "delete_route" /\ s.ejection_pool = <<>>
  /\ incumbent' = Freed
  /\ pc' = "solve"
  /\ UNCHANGED <<s, s_dup, p, beta, infeasibles, in_infeasibles_idx, search, round, expired>>

\* Mutant: the deadline returns the unfinished solution.
DeadlinePassedKeeping ==
  /\ pc = "delete_route" /\ s.ejection_pool # <<>> /\ expired
  /\ incumbent' = Freed
  /\ pc' = "done"
  /\ UNCHANGED <<s, s_dup, p, beta, infeasibles, in_infeasibles_idx, search, round, expired>>

DeadlinePassed ==
  /\ pc = "delete_route" /\ s.ejection_pool # <<>> /\ expired
  /\ s' = incumbent /\ incumbent' = Freed
  /\ pc' = "done"
  /\ UNCHANGED <<s_dup, p, beta, infeasibles, in_infeasibles_idx, search, round, expired>>

\* Mutant: the customer taken in hand stays in the pool.
PopCustomerPeeking ==
  /\ pc = "delete_route" /\ s.ejection_pool # <<>> /\ ~expired
  /\ s' = [s EXCEPT !.w = s.ejection_pool[Len(s.ejection_pool)]]
  /\ pc' = "insert_feasible"
  /\ UNCHANGED <<incumbent, s_dup, p, beta, infeasibles, in_infeasibles_idx,
                 search, round, expired>>

PopCustomer ==
  /\ pc = "delete_route" /\ s.ejection_pool # <<>> /\ ~expired
  /\ LET n == Len(s.ejection_pool)
     IN  s' = [s EXCEPT !.w = s.ejection_pool[n],
                        !.ejection_pool = SubSeq(s.ejection_pool, 1, n - 1)]
  /\ pc' = "insert_feasible"
  /\ UNCHANGED <<incumbent, s_dup, p, beta, infeasibles, in_infeasibles_idx,
                 search, round, expired>>

\* The processor time used reaches the deadline, at any point of the program.
ClockExpires ==
  /\ ~expired
  /\ expired' = TRUE
  /\ UNCHANGED <<pc, s, incumbent, s_dup, p, beta, infeasibles, in_infeasibles_idx,
                 search, round>>
-----------------------------------------------------------------------------
(***************************************************************************)
(* insert_feasible: solution_find_feasible_insertion draws one of the      *)
(* positions whose penalty delta is below EPS5.                            *)
(***************************************************************************)
\* Mutant: the insertion is judged by its capacity penalty alone.
FeasibleInsertionByCapacity(sol, v) == InsertDelta(sol.routes, v, sol.w, 1, 0) < EPS5

FeasibleInsertion(sol, v) == InsertDelta(sol.routes, v, sol.w, 1, 1) < EPS5

InsertFeasible ==
  /\ pc = "insert_feasible"
  /\ \E v \in InsertNodes(s.routes) :
       /\ FeasibleInsertion(s, v)
       /\ s' = [s EXCEPT !.routes = Insert(s.routes, v, s.w), !.w = NULL]
  /\ pc' = "delete_route"
  /\ UNCHANGED <<incumbent, s_dup, p, beta, infeasibles, in_infeasibles_idx,
                 search, round, expired>>

NoFeasibleInsertion ==
  /\ pc = "insert_feasible"
  /\ \A v \in InsertNodes(s.routes) : ~FeasibleInsertion(s, v)
  /\ pc' = "squeeze"
  /\ UNCHANGED <<s, incumbent, s_dup, p, beta, infeasibles, in_infeasibles_idx,
                 search, round, expired>>
-----------------------------------------------------------------------------
(***************************************************************************)
(* squeeze                                                                 *)
(***************************************************************************)
Precedes(u, v) == u[1] < v[1] \/ (u[1] = v[1] /\ u[2] < v[2])

\* solution_find_optimal_insertion: the first position of no penalty, or else
\* the first one of the least penalty.
OptimalInsertion(sol, v) ==
  LET delta(u) == InsertDelta(sol.routes, u, sol.w, alpha, beta)
      free(u) == delta(u) < EPS5 * alpha
      All == InsertNodes(sol.routes)
  IN  IF \E u \in All : free(u)
      THEN free(v) /\ \A u \in All : Precedes(u, v) => ~free(u)
      ELSE \A u \in All : /\ delta(v) <= delta(u)
                          /\ Precedes(u, v) => delta(v) < delta(u)

Squeeze ==
  /\ pc = "squeeze"
  /\ s_dup' = s
  /\ \E v \in InsertNodes(s.routes) :
       /\ OptimalInsertion(s, v)
       /\ s' = [s EXCEPT !.routes = Insert(s.routes, v, s.w), !.w = NULL]
       /\ infeasibles' = <<v[1]>>
       /\ in_infeasibles_idx' = [x \in {v[1]} |-> 1]
  /\ pc' = "squeeze_loop"
  /\ UNCHANGED <<incumbent, p, beta, search, round, expired>>

WeightedDelta(rts, m) == MoveDelta(rts, m[1], m[2], m[3], alpha, beta)

\* The scan for route x may end with m: no move is better, or m already takes
\* away the penalty of x and the scan is cancelled.
OptimalMove(rts, x, m) ==
  \/ WeightedDelta(rts, m) <= EPS5 * alpha - route_penalty(Problem, rts[x], alpha, beta)
  \/ \A o \in Neighbourhood(rts, x) : WeightedDelta(rts, m) <= WeightedDelta(rts, o)

\* The routes squeeze draws from.
InfeasibleRoutes == {x \in DOMAIN s.routes : \E k \in DOMAIN infeasibles : infeasibles[k] = x}

\* Mutants: the sign of the tolerance, and no tolerance at all.
ImprovesWithinEps(rts, m) == WeightedDelta(rts, m) <= EPS5 * alpha
ImprovesOrStays(rts, m) == WeightedDelta(rts, m) <= 0

Improves(rts, m) == WeightedDelta(rts, m) <= -(EPS5 * alpha)

\* Mutant: the route moved into the hole keeps its old place.
TrackStaleIndex(list, before, after, x) ==
  LET n == Len(list.routes)
      hole == list.idx[x]
  IN  CASE ~Feasible(before[x]) /\ Feasible(after[x]) ->
             [routes |-> SubSeq([list.routes EXCEPT ![hole] = list.routes[n]], 1, n - 1),
              idx |-> [y \in DOMAIN list.idx \ {x} |-> list.idx[y]]]
        [] Feasible(before[x]) /\ ~Feasible(after[x]) ->
             [routes |-> Append(list.routes, x),
              idx |-> [y \in DOMAIN list.idx \cup {x} |-> IF y = x THEN n + 1 ELSE list.idx[y]]]
        [] OTHER -> list

\* The bookkeeping for one affected route x: a swap with the last place when
\* it became feasible, an append when it became infeasible.
Track(list, before, after, x) ==
  LET n == Len(list.routes)
      hole == list.idx[x]
      last == list.routes[n]
  IN  CASE ~Feasible(before[x]) /\ Feasible(after[x]) ->
             [routes |-> SubSeq([list.routes EXCEPT ![hole] = last], 1, n - 1),
              idx |-> [y \in DOMAIN list.idx \ {x} |-> IF y = last THEN hole ELSE list.idx[y]]]
        [] Feasible(before[x]) /\ ~Feasible(after[x]) ->
             [routes |-> Append(list.routes, x),
              idx |-> [y \in DOMAIN list.idx \cup {x} |-> IF y = x THEN n + 1 ELSE list.idx[y]]]
        [] OTHER -> list

SqueezeMove ==
  /\ pc = "squeeze_loop"
  /\ \E x \in InfeasibleRoutes : \E m \in Neighbourhood(s.routes, x) :
       /\ OptimalMove(s.routes, x, m) /\ Improves(s.routes, m)
       /\ LET after == modification_apply(s.routes, m[1], m[2], m[3])
              first == Track([routes |-> infeasibles, idx |-> in_infeasibles_idx],
                             s.routes, after, m[2][1])
              list == IF m[2][1] = m[3][1] THEN first
                      ELSE Track(first, s.routes, after, m[3][1])
          IN  /\ s' = [s EXCEPT !.routes = after]
              /\ infeasibles' = list.routes
              /\ in_infeasibles_idx' = list.idx
  /\ UNCHANGED <<pc, incumbent, s_dup, p, beta, search, round, expired>>

\* Mutant: success forgets to delete the copy.
SqueezeDoneLeaking ==
  /\ pc = "squeeze_loop" /\ infeasibles = <<>>
  /\ pc' = "delete_route"
  /\ UNCHANGED <<s, incumbent, s_dup, p, beta, infeasibles, in_infeasibles_idx,
                 search, round, expired>>

SqueezeDone ==
  /\ pc = "squeeze_loop" /\ infeasibles = <<>>
  /\ s_dup' = Freed
  /\ pc' = "delete_route"
  /\ UNCHANGED <<s, incumbent, p, beta, infeasibles, in_infeasibles_idx,
                 search, round, expired>>

\* solution_penalty
solution_penalty(rts, a, b) ==
  LET sum[x \in 0 .. Len(rts)] ==
        IF x = 0 THEN 0 ELSE sum[x - 1] + route_penalty(Problem, rts[x], a, b)
  IN  sum[Len(rts)]

\* Mutant: the result is not clamped.
CorrectedBetaUnclamped ==
  LET c_penalty == solution_penalty(s.routes, 1, 0)
      tw_penalty == solution_penalty(s.routes, 0, 1)
  IN  CASE c_penalty + EPS5 < tw_penalty -> beta + 1
        [] c_penalty > tw_penalty + EPS5 -> beta - 1
        [] OTHER -> beta

CorrectedBeta ==
  LET c_penalty == solution_penalty(s.routes, 1, 0)
      tw_penalty == solution_penalty(s.routes, 0, 1)
  IN  IF ~beta_correction THEN beta
      ELSE CASE c_penalty + EPS5 < tw_penalty -> MIN(beta + 1, MaxBeta)
             [] c_penalty > tw_penalty + EPS5 -> MAX(beta - 1, 1)
             [] OTHER -> beta

\* No move improves; delete_route then counts the failure in p[w].
SqueezeFail ==
  /\ pc = "squeeze_loop"
  /\ \E x \in InfeasibleRoutes :
       LET moves == Neighbourhood(s.routes, x)
       IN  \/ moves = {}
           \/ \E m \in moves : OptimalMove(s.routes, x, m) /\ ~Improves(s.routes, m)
  /\ beta' = CorrectedBeta
  /\ s' = s_dup /\ s_dup' = Freed
  /\ p' = [p EXCEPT ![s_dup.w] = MIN(@ + 1, MaxP)]
  /\ infeasibles' = <<>> /\ in_infeasibles_idx' = <<>>
  /\ pc' = "insert_eject"
  /\ UNCHANGED <<incumbent, search, round, expired>>
-----------------------------------------------------------------------------
(***************************************************************************)
(* insert_eject: w is tried at every position; the search of ejection.c    *)
(* runs on the route that received it and reports each feasible ejection   *)
(* that beats p_best, which all positions share.                           *)
(***************************************************************************)
\* Mutant: only what is easier to insert than w may be ejected.
InsertEjectBelowHand ==
  /\ pc = "insert_eject"
  /\ s_dup' = s
  /\ search' = [NoSearch EXCEPT !.p_best = p[s.w]]
  /\ pc' = "try_insertion"
  /\ UNCHANGED <<s, incumbent, p, beta, infeasibles, in_infeasibles_idx, round, expired>>

InsertEject ==
  /\ pc = "insert_eject"
  /\ s_dup' = s
  /\ search' = NoSearch
  /\ pc' = "try_insertion"
  /\ UNCHANGED <<s, incumbent, p, beta, infeasibles, in_infeasibles_idx, round, expired>>

TryInsertion ==
  /\ pc = "try_insertion" /\ search.at[1] <= Len(s.routes)
  /\ s' = [s EXCEPT !.routes = Insert(s.routes, search.at, s.w)]
  /\ pc' = "ejections"
  /\ UNCHANGED <<incumbent, s_dup, p, beta, infeasibles, in_infeasibles_idx,
                 search, round, expired>>

\* One fiber_yield of feasible_ejections_f.
EjectionFound ==
  /\ pc = "ejections"
  /\ LET r == s.routes[search.at[1]]
     IN  \E x \in Ejections(r, k_max) :
           /\ Improving(Problem, r, p, search.p_best, x)
           /\ search' = [search EXCEPT !.p_best = PSum(p, Ejected(r, x)),
                                       !.opt_v = search.at, !.opt_ejection = Ejected(r, x)]
  /\ UNCHANGED <<pc, s, incumbent, s_dup, p, beta, infeasibles, in_infeasibles_idx,
                 round, expired>>

\* The fiber has died: w is taken out again and the next position is due.
EjectionsExhausted ==
  /\ pc = "ejections"
  /\ LET r == s.routes[search.at[1]]
         v == search.at
     IN  /\ NoneLeft(Problem, r, k_max, p, search.p_best)
         /\ s' = [s EXCEPT !.routes = Eject(s.routes, v)]
         /\ search' = [search EXCEPT !.at = IF v[2] < Len(r) THEN <<v[1], v[2] + 1>>
                                                            ELSE <<v[1] + 1, 1>>]
  /\ pc' = "try_insertion"
  /\ UNCHANGED <<incumbent, s_dup, p, beta, infeasibles, in_infeasibles_idx, round, expired>>

\* The best insertion is made for good, its ejection follows one by one.
InsertBest ==
  /\ pc = "try_insertion" /\ search.at[1] > Len(s.routes)
  /\ search.opt_ejection # <<>>
  /\ s' = [s EXCEPT !.routes = Insert(s.routes, search.opt_v, s.w), !.w = NULL]
  /\ pc' = "eject"
  /\ UNCHANGED <<incumbent, s_dup, p, beta, infeasibles, in_infeasibles_idx,
                 search, round, expired>>

EjectNext ==
  /\ pc = "eject" /\ search.opt_ejection # <<>>
  /\ \E v \in CustomerNodes(s.routes) :
       /\ s.routes[v[1]][v[2]] = search.opt_ejection[1]
       /\ s' = [s EXCEPT !.routes = Eject(s.routes, v),
                         !.ejection_pool = Append(@, search.opt_ejection[1])]
  /\ search' = [search EXCEPT !.opt_ejection = Tail(@)]
  /\ UNCHANGED <<pc, incumbent, s_dup, p, beta, infeasibles, in_infeasibles_idx,
                 round, expired>>

EjectionDone ==
  /\ pc = "eject" /\ search.opt_ejection = <<>>
  /\ s_dup' = Freed
  /\ search' = NoSearch
  /\ round' = 0
  /\ pc' = "perturb"
  /\ UNCHANGED <<s, incumbent, p, beta, infeasibles, in_infeasibles_idx, expired>>

\* Mutant: giving up keeps the unfinished solution.
InsertEjectFailKeeping ==
  /\ pc = "try_insertion" /\ search.at[1] > Len(s.routes)
  /\ search.opt_ejection = <<>>
  /\ s' = s_dup /\ incumbent' = Freed /\ s_dup' = Freed
  /\ search' = NoSearch
  /\ pc' = "done"
  /\ UNCHANGED <<p, beta, infeasibles, in_infeasibles_idx, round, expired>>

\* No ejection was found: delete_route gives up as well.
InsertEjectFail ==
  /\ pc = "try_insertion" /\ search.at[1] > Len(s.routes)
  /\ search.opt_ejection = <<>>
  /\ s' = incumbent /\ incumbent' = Freed /\ s_dup' = Freed
  /\ search' = NoSearch
  /\ pc' = "done"
  /\ UNCHANGED <<p, beta, infeasibles, in_infeasibles_idx, round, expired>>
-----------------------------------------------------------------------------
(***************************************************************************)
(* perturb: i_rand times a random move of two customers, which randint     *)
(* draws from 1 .. n_customers - 1.                                        *)
(***************************************************************************)
Perturbation(rts, type, v, w) ==
  /\ v[1] # w[1]
  /\ rts[v[1]][v[2]] # Problem.n /\ rts[w[1]][w[2]] # Problem.n
  /\ modification_applicable(rts, type, v, w)
  /\ MoveDelta(rts, type, v, w, 1, 1) < EPS5

PerturbMove ==
  /\ pc = "perturb" /\ round < i_rand
  /\ \E v, w \in CustomerNodes(s.routes), type \in Moves :
       /\ Perturbation(s.routes, type, v, w)
       /\ s' = [s EXCEPT !.routes = modification_apply(s.routes, type, v, w)]
  /\ round' = round + 1
  /\ UNCHANGED <<pc, incumbent, s_dup, p, beta, infeasibles, in_infeasibles_idx,
                 search, expired>>

\* The draw was an ejected customer, one route twice, or a refused move; drawing
\* one customer twice is always possible.
PerturbSkip ==
  /\ pc = "perturb" /\ round < i_rand
  /\ round' = round + 1
  /\ UNCHANGED <<pc, s, incumbent, s_dup, p, beta, infeasibles, in_infeasibles_idx,
                 search, expired>>

PerturbDone ==
  /\ pc = "perturb" /\ round = i_rand
  /\ round' = 0
  /\ pc' = "delete_route"
  /\ UNCHANGED <<s, incumbent, s_dup, p, beta, infeasibles, in_infeasibles_idx,
                 search, expired>>
-----------------------------------------------------------------------------
Returned == pc = "done" /\ UNCHANGED vars

Step ==
  \/ DeleteRoute \/ StopAtLowerBound \/ RouteDeleted \/ DeadlinePassed \/ PopCustomer
  \/ InsertFeasible \/ NoFeasibleInsertion
  \/ Squeeze \/ SqueezeMove \/ SqueezeDone \/ SqueezeFail
  \/ InsertEject \/ TryInsertion \/ EjectionFound \/ EjectionsExhausted
  \/ InsertBest \/ EjectNext \/ EjectionDone \/ InsertEjectFail
  \/ PerturbMove \/ PerturbSkip \/ PerturbDone

Next == Step \/ ClockExpires \/ Returned

(***************************************************************************)
(* The program is one thread that never blocks, and processor time         *)
(* advances.  The first conjunct is WF_vars(Step) spelled out: Step is     *)
(* enabled wherever pc # "done" (TLC's deadlock check sees to it in the    *)
(* states with expired = TRUE, and Step does not wait for the clock), and  *)
(* its steps are those that leave expired alone.                           *)
(***************************************************************************)
Fairness ==
  /\ []<>(pc = "done") \/ []<><<expired' = expired>>_vars
  /\ WF_vars(ClockExpires)

Spec == Init /\ [][Next]_vars /\ Fairness
-----------------------------------------------------------------------------
(***************************************************************************)
(* Safety                                                                  *)
(***************************************************************************)

\* Every customer is held exactly once: by one place of one route, by the pool,
\* or by w.
HeldOnce(rts, pool, w) ==
  /\ \A c \in Customer :
       \/ \E x \in DOMAIN rts : \E i \in DOMAIN rts[x] : rts[x][i] = c
       \/ \E j \in DOMAIN pool : pool[j] = c
       \/ w = c
  /\ \A x, y \in DOMAIN rts : \A i \in DOMAIN rts[x], j \in DOMAIN rts[y] :
       rts[x][i] = rts[y][j] => x = y /\ i = j
  /\ \A i, j \in DOMAIN pool : pool[i] = pool[j] => i = j
  /\ \A x \in DOMAIN rts : \A i \in DOMAIN rts[x] :
       rts[x][i] # w /\ \A j \in DOMAIN pool : rts[x][i] # pool[j]
  /\ \A j \in DOMAIN pool : pool[j] # w

\* s.w is also in a route while insert_eject tries a position with it.
InHand == IF pc = "ejections" THEN NULL ELSE s.w

(***************************************************************************)
(* No customer is lost or held twice, in the working solution and in every *)
(* live copy, whatever sequence of insertions, moves, ejections and        *)
(* roll-backs led there: the check solution_check_missed_customers does    *)
(* half of, and what keeps solution_delete from freeing an object twice.   *)
(***************************************************************************)
Ownership ==
  /\ HeldOnce(s.routes, s.ejection_pool, InHand)
  /\ incumbent # Freed =>
       incumbent.ejection_pool = <<>> /\ incumbent.w = NULL /\ ServesAllOnce(incumbent.routes)
  /\ s_dup # Freed => HeldOnce(s_dup.routes, s_dup.ejection_pool, s_dup.w)

(***************************************************************************)
(* Each copy is alive exactly while a roll-back may need it, on every way  *)
(* out of squeeze, insert_eject and delete_route; the copy is one route    *)
(* larger than the solution, or holds the same customer in hand.           *)
(***************************************************************************)
Copies ==
  /\ incumbent = Freed <=> pc \in {"solve", "done"}
  /\ incumbent # Freed => Len(incumbent.routes) = Len(s.routes) + 1
  /\ s_dup = Freed <=> pc \notin {"squeeze_loop", "try_insertion", "ejections", "eject"}
  /\ s_dup # Freed => s_dup.w # NULL /\ Len(s_dup.routes) = Len(s.routes)

solution_feasible(rts) == \A x \in DOMAIN rts : Feasible(rts[x])

(***************************************************************************)
(* The assert(solution_feasible(s)) at the entries and exits of            *)
(* insert_feasible, squeeze, insert_eject and delete_route: only the       *)
(* squeeze loop and insert_eject's insertions leave a route infeasible,    *)
(* and the insertions always do: assert(!route_feasible(v_route)).         *)
(***************************************************************************)
FeasibleBetweenPhases ==
  /\ pc \notin {"squeeze_loop", "ejections", "eject"} => solution_feasible(s.routes)
  /\ pc = "ejections" => ~Feasible(s.routes[search.at[1]])

(***************************************************************************)
(* squeeze's array lists exactly the infeasible routes, each once, and     *)
(* every listed route knows its place in it.                               *)
(***************************************************************************)
InfeasiblesExact ==
  pc = "squeeze_loop" =>
    /\ {infeasibles[k] : k \in DOMAIN infeasibles} =
         {x \in DOMAIN s.routes : ~Feasible(s.routes[x])}
    /\ DOMAIN in_infeasibles_idx = {infeasibles[k] : k \in DOMAIN infeasibles}
    /\ \A k \in DOMAIN infeasibles : in_infeasibles_idx[infeasibles[k]] = k

\* Every move the neighbourhood yields satisfies the assertion that follows it.
MovesApplicable ==
  pc = "squeeze_loop" =>
    \A k \in DOMAIN infeasibles : \A m \in Neighbourhood(s.routes, infeasibles[k]) :
      modification_applicable(s.routes, m[1], m[2], m[3])

\* Taking w out after a try restores the solution squeeze and p have left.
TriesRollBack == pc = "try_insertion" => s = s_dup

(***************************************************************************)
(* With k_max > 0 insert_eject always finds an ejection (w itself is one), *)
(* so that delete_route gives up only at the deadline.                     *)
(***************************************************************************)
InsertEjectSucceeds ==
  pc = "try_insertion" /\ search.at[1] > Len(s.routes) /\ k_max > 0
    => search.opt_ejection # <<>>

(***************************************************************************)
(* A customer that fits nowhere still has a position to be inserted at:    *)
(* solution_find_optimal_insertion returns v = NULL without routes, and    *)
(* solution_check_missed_customers finds the depot in some route.          *)
(***************************************************************************)
SomeRouteLeft == pc # "solve" => s.routes # <<>>

(***************************************************************************)
(* A move of squeeze lowers the weighted penalty of the whole solution by  *)
(* EPS5 at least, so that squeeze cannot visit a solution twice.           *)
(***************************************************************************)
SqueezeDescends ==
  [][pc = "squeeze_loop" /\ pc' = "squeeze_loop" /\ s' # s =>
       solution_penalty(s'.routes, alpha, beta)
         <= solution_penalty(s.routes, alpha, beta) - EPS5 * alpha]_vars

(***************************************************************************)
(* Liveness and refinement                                                 *)
(***************************************************************************)

\* squeeze ends, with either result.
SqueezeEnds == pc = "squeeze_loop" ~> pc # "squeeze_loop"

\* The solver's promise: its solution outside delete_route, the copy inside.
Minimizer ==
  INSTANCE RouteMinimizer WITH
    best <- IF pc \in {"solve", "done"} THEN s.routes ELSE incumbent.routes,
    returned <- pc = "done",
    RouteFeasible <- Feasible

MinimizesRoutes == Minimizer!Spec
=============================================================================
