--------------------------- MODULE EamaSolverProofs ---------------------------
(***************************************************************************)
(* Theorems about EamaSolver, for every instance, every set of initial     *)
(* solutions and all values of the options: its types, the lifetimes of    *)
(* the copies it rolls back to, the roll-backs of insert_eject, who holds  *)
(* each customer; and, from the values of penalties, what squeeze lowers   *)
(* and keeps in its array, where solutions are feasible, that insert_eject *)
(* finds an ejection, and that the solver implements RouteMinimizer.       *)
(***************************************************************************)
EXTENDS EamaSolver, RouteProofs

\* A customer is in hand exactly between solution_remove_last and the insertion.
InHandOK ==
  /\ IF pc \in {"insert_feasible", "squeeze", "insert_eject", "try_insertion", "ejections"}
     THEN s.w \in Customer
     ELSE s.w = NULL
  /\ incumbent.w = NULL

\* The position insert_eject tries next, or the end of the positions.
Position(rts, at) ==
  /\ at[1] \in 1 .. Len(rts) + 1
  /\ at[1] <= Len(rts) => at[2] \in 1 .. Len(rts[at[1]]) + 1

\* What insert_eject's loops know: the solution is the copy, or the copy with w
\* inserted at the position tried, and the best position is one of the copy.
SearchOK ==
  /\ pc = "try_insertion" => s = s_dup /\ Position(s_dup.routes, search.at)
  /\ pc = "ejections" =>
       /\ search.at \in InsertNodes(s_dup.routes)
       /\ s = [s_dup EXCEPT !.routes = Insert(s_dup.routes, search.at, s_dup.w)]
  /\ pc \in {"try_insertion", "ejections"} /\ search.opt_ejection # <<>> =>
       search.opt_v \in InsertNodes(s_dup.routes)

IInv == TypeOK /\ Copies /\ InHandOK /\ SearchOK
-----------------------------------------------------------------------------
\* solution_eliminate_random_route: one route less, its customers in the pool.
LEMMA EliminateSolution ==
  ASSUME NEW sol \in Solution, NEW x \in DOMAIN sol.routes
  PROVE  /\ Eliminate(sol, x) \in Solution
         /\ Len(Eliminate(sol, x).routes) = Len(sol.routes) - 1
         /\ Eliminate(sol, x).w = sol.w
<1> DEFINE n == Len(sol.routes)
           rts == [y \in 1 .. n - 1 |-> IF y = x THEN sol.routes[n] ELSE sol.routes[y]]
           pool == sol.ejection_pool \o sol.routes[x]
<1>1. /\ sol.routes \in Seq(Seq(Customer)) /\ sol.ejection_pool \in Seq(Customer)
      /\ sol.w \in Customer \cup {NULL}
  BY DEF Solution
<1>2. n \in Nat /\ n >= 1 /\ x \in 1 .. n /\ \A y \in 1 .. n : sol.routes[y] \in Seq(Customer)
  BY <1>1
<1>3. rts \in Seq(Seq(Customer)) /\ Len(rts) = n - 1
  <2> HIDE DEF n
  <2> QED
    BY <1>2
<1>4. pool \in Seq(Customer)
  BY <1>1, <1>2
<1>5. Eliminate(sol, x) = [sol EXCEPT !.routes = rts, !.ejection_pool = pool]
  BY DEF Eliminate
<1> HIDE DEF n, rts, pool
<1> QED
  BY <1>1, <1>3, <1>4, <1>5 DEF Solution, n

\* What the generator yields for a route of the solution can be applied.
LEMMA NeighbourhoodMoves ==
  ASSUME NEW rts \in Seq(Seq(Customer)), NEW x \in DOMAIN rts, NEW m \in Neighbourhood(rts, x)
  PROVE  /\ m[1] \in Moves /\ m[2] \in Nodes(rts) /\ m[3] \in Nodes(rts)
         /\ modification_applicable(rts, m[1], m[2], m[3])
<1>1. PICK vw \in NeighbourPairs(rts, x) :
        m \in {<<type, vw[1], vw[2]>> : type \in IF vw[1][1] # vw[2][1]
                                                THEN InterRoute(rts, vw[1], vw[2])
                                                ELSE IntraRoute(rts, vw[1], vw[2])}
  BY DEF Neighbourhood
<1>2. PICK w \in {x} \X Indexes(rts[x]) :
        vw \in {<<v, w>> : v \in {v \in CustomerNodes(rts) :
                                     rts[v[1]][v[2]] \in Near[Id(rts[x], w[2])]}
                                \cup (IF IsDepot(rts, w) THEN {} ELSE Tails(rts))}
  BY <1>1 DEF NeighbourPairs
<1>3. PICK v : /\ vw = <<v, w>>
               /\ v \in CustomerNodes(rts) \/ (~IsDepot(rts, w) /\ v \in Tails(rts))
  BY <1>2
<1>4. vw[1] = v /\ vw[2] = w
  BY <1>3
<1>5. PICK type \in IF v[1] # w[1] THEN InterRoute(rts, v, w) ELSE IntraRoute(rts, v, w) :
        m = <<type, v, w>>
  BY <1>1, <1>4
<1>6. \A y \in 1 .. Len(rts) : rts[y] \in Seq(Customer) /\ Len(rts[y]) \in Nat
  OBVIOUS
<1>7. DOMAIN rts = 1 .. Len(rts)
  OBVIOUS
<1>8. \A y \in 1 .. Len(rts) : \A i \in 0 .. Len(rts[y]) + 1 : <<y, i>> \in Nodes(rts)
  BY <1>7 DEF Nodes
<1>9. w \in Nodes(rts)
  BY <1>2, <1>7, <1>8 DEF Indexes
<1>10. CASE v \in CustomerNodes(rts)
  <2>1. v \in Nat \X Nat /\ v[1] \in 1 .. Len(rts) /\ v[2] \in 1 .. Len(rts[v[1]])
    BY <1>10, NodeTypes
  <2>2. v \in Nodes(rts) /\ ~IsDepot(rts, v)
    <3>1. v = <<v[1], v[2]>> /\ v[2] \in 0 .. Len(rts[v[1]]) + 1
      BY <2>1, <1>6
    <3>2. v[2] # 0 /\ v[2] # Len(rts[v[1]]) + 1
      BY <2>1, <1>6
    <3> QED
      BY <2>1, <3>1, <3>2, <1>8 DEF IsDepot, IsHead, IsTail
  <2>3. CASE v[1] = w[1]
    BY <1>5, <1>9, <2>2, <2>3 DEF IntraRoute, Moves
  <2>4. CASE v[1] # w[1] /\ IsTail(rts, w)
    BY <1>5, <2>4 DEF InterRoute
  <2>5. CASE v[1] # w[1] /\ ~IsTail(rts, w) /\ IsHead(w)
    <3>1. type = "TWO_OPT"
      BY <1>5, <2>2, <2>5 DEF InterRoute
    <3> QED
      BY <1>5, <1>9, <2>2, <2>5, <3>1 DEF modification_applicable, Moves, IsDepot
  <2>6. CASE v[1] # w[1] /\ ~IsTail(rts, w) /\ ~IsHead(w)
    <3>1. type \in Moves
      BY <1>5, <2>2, <2>6 DEF InterRoute
    <3>2. w # <<v[1], v[2] - 1>>
      BY <2>6
    <3> QED
      BY <1>5, <1>9, <2>2, <2>6, <3>1, <3>2 DEF modification_applicable, Moves, IsDepot
  <2> QED
    BY <2>3, <2>4, <2>5, <2>6
<1>11. CASE ~IsDepot(rts, w) /\ v \in Tails(rts)
  <2>1. PICK y \in 1 .. Len(rts) : v = <<y, Len(rts[y]) + 1>>
    BY <1>7, <1>11 DEF Tails
  <2>2. v \in Nodes(rts) /\ IsTail(rts, v) /\ ~IsHead(v)
    BY <2>1, <1>6, <1>8 DEF IsTail, IsHead
  <2>3. v[1] # w[1]
    BY <1>5, <2>2 DEF IntraRoute, IsDepot
  <2>4. type = "OUT_RELOCATE"
    BY <1>5, <1>11, <2>2, <2>3 DEF InterRoute, IsDepot
  <2>5. w # <<v[1], v[2] - 1>>
    BY <2>3
  <2> QED
    BY <1>5, <1>9, <1>11, <2>2, <2>4, <2>5 DEF modification_applicable, Moves
<1> QED
  BY <1>3, <1>10, <1>11
-----------------------------------------------------------------------------
\* The fields of a solution, put together again with some of them replaced.
LEMMA SolutionFields ==
  /\ Freed \in Solution
  /\ \A sol \in Solution :
       /\ sol.routes \in Seq(Seq(Customer)) /\ sol.ejection_pool \in Seq(Customer)
       /\ sol.w \in Customer \cup {NULL}
  /\ \A sol \in Solution, rts \in Seq(Seq(Customer)) :
       [sol EXCEPT !.routes = rts] \in Solution
  /\ \A sol \in Solution, rts \in Seq(Seq(Customer)), w \in Customer \cup {NULL} :
       [sol EXCEPT !.routes = rts, !.w = w] \in Solution
  /\ \A sol \in Solution, pool \in Seq(Customer), w \in Customer \cup {NULL} :
       [sol EXCEPT !.w = w, !.ejection_pool = pool] \in Solution
  /\ \A sol \in Solution, rts \in Seq(Seq(Customer)), pool \in Seq(Customer) :
       [sol EXCEPT !.routes = rts, !.ejection_pool = pool] \in Solution
  /\ \A sol \in Solution : sol.w \in Customer => sol # Freed
  /\ \A sol \in Solution : sol.routes # <<>> => sol # Freed
<1>1. Freed \in Solution
  BY DEF Solution, Freed
<1>2. \A sol \in Solution :
        /\ sol.routes \in Seq(Seq(Customer)) /\ sol.ejection_pool \in Seq(Customer)
        /\ sol.w \in Customer \cup {NULL}
  BY DEF Solution
<1>3. \A sol \in Solution, rts \in Seq(Seq(Customer)) :
        [sol EXCEPT !.routes = rts] \in Solution
  BY DEF Solution
<1>4. \A sol \in Solution, rts \in Seq(Seq(Customer)), w \in Customer \cup {NULL} :
        [sol EXCEPT !.routes = rts, !.w = w] \in Solution
  BY DEF Solution
<1>5. \A sol \in Solution, pool \in Seq(Customer), w \in Customer \cup {NULL} :
        [sol EXCEPT !.w = w, !.ejection_pool = pool] \in Solution
  BY DEF Solution
<1>6. \A sol \in Solution, rts \in Seq(Seq(Customer)), pool \in Seq(Customer) :
        [sol EXCEPT !.routes = rts, !.ejection_pool = pool] \in Solution
  BY DEF Solution
<1>7. ASSUME NEW sol \in Solution, sol.w \in Customer
      PROVE  sol # Freed
  <2>1. NULL \notin Customer
    BY ProblemAssumption DEF Customer, NULL
  <2> QED
    BY <1>7, <2>1 DEF Freed
<1>8. \A sol \in Solution : sol.routes # <<>> => sol # Freed
  BY DEF Freed
<1> QED
  BY <1>1, <1>2, <1>3, <1>4, <1>5, <1>6, <1>7, <1>8

\* The first state satisfies the inductive invariant.
LEMMA InitIInv == Init => IInv
<1> SUFFICES ASSUME Init PROVE IInv
  OBVIOUS
<1> USE DEF Init
<1>1. PICK rts \in InitialSolutions :
        s = [routes |-> rts, ejection_pool |-> <<>>, w |-> NULL]
  OBVIOUS
<1>2. rts \in Seq(Seq(Customer))
  BY InitialAssumption
<1>3. s \in Solution
  BY <1>1, <1>2 DEF Solution
<1>4. TypeOK
  <2>1. p \in [Customer -> 0 .. MaxP] /\ beta \in 1 .. MaxBeta /\ round \in 0 .. i_rand
    BY OptionsAssumption
  <2>2. /\ DOMAIN search = {"at", "p_best", "opt_v", "opt_ejection"}
        /\ search.at \in Nat \X Nat /\ search.opt_v \in Nat \X Nat
        /\ search.opt_ejection \in Seq(Customer)
    BY DEF NoSearch
  <2> QED
    BY <1>3, <2>1, <2>2, SolutionFields DEF TypeOK
<1>5. Copies
  BY DEF Copies
<1>6. InHandOK
  BY <1>1 DEF InHandOK, Freed
<1>7. SearchOK
  BY DEF SearchOK
<1> QED
  BY <1>4, <1>5, <1>6, <1>7 DEF IInv

\* solution_remove_last takes the customer in hand from the pool.
LEMMA PopSolution ==
  ASSUME NEW sol \in Solution, sol.ejection_pool # <<>>
  PROVE  LET n == Len(sol.ejection_pool)
         IN  /\ sol.ejection_pool[n] \in Customer
             /\ [sol EXCEPT !.w = sol.ejection_pool[n],
                            !.ejection_pool = SubSeq(sol.ejection_pool, 1, n - 1)] \in Solution
<1> DEFINE n == Len(sol.ejection_pool)
           rest == SubSeq(sol.ejection_pool, 1, n - 1)
<1>1. sol.ejection_pool \in Seq(Customer)
  BY SolutionFields
<1>2. sol.ejection_pool[n] \in Customer /\ rest \in Seq(Customer)
  BY <1>1
<1> HIDE DEF rest
<1>3. [sol EXCEPT !.w = sol.ejection_pool[n], !.ejection_pool = rest] \in Solution
  BY <1>2, SolutionFields
<1> QED
  BY <1>2, <1>3 DEF rest
-----------------------------------------------------------------------------
\* The steps of eama_solver_solve and delete_route.
LEMMA DeleteRouteIInv ==
  ASSUME IInv, DeleteRoute \/ StopAtLowerBound \/ RouteDeleted \/ DeadlinePassed \/ PopCustomer
  PROVE  IInv'
<1> USE DEF IInv
<1>1. s \in Solution /\ incumbent \in Solution
  BY DEF TypeOK
<1>2. CASE DeleteRoute
  <2>1. PICK x \in DOMAIN s.routes : s' = Eliminate(s, x)
    BY <1>2 DEF DeleteRoute
  <2>2. s.routes # <<>>
    BY <2>1
  <2>3. /\ s' \in Solution /\ Len(s'.routes) = Len(s.routes) - 1 /\ s'.w = s.w
    BY <1>1, <2>1, EliminateSolution
  <2>4. TypeOK'
    BY <1>1, <1>2, <2>3 DEF TypeOK, DeleteRoute
  <2>5. Copies'
    <3>1. incumbent' # Freed
      BY <1>1, <1>2, <2>2, SolutionFields DEF DeleteRoute
    <3>2. Len(s.routes) \in Nat
      <4>1. s.routes \in Seq(Seq(Customer))
        BY <1>1, SolutionFields
      <4> QED
        BY <4>1
    <3>3. Len(incumbent'.routes) = Len(s'.routes) + 1
      BY <1>2, <2>3, <3>2 DEF DeleteRoute
    <3>4. s_dup' = Freed
      BY <1>2 DEF Copies, DeleteRoute
    <3> QED
      BY <1>2, <3>1, <3>3, <3>4 DEF Copies, DeleteRoute
  <2>6. InHandOK'
    BY <1>2, <2>3 DEF InHandOK, DeleteRoute
  <2>7. SearchOK'
    BY <1>2 DEF SearchOK, DeleteRoute
  <2> QED
    BY <2>4, <2>5, <2>6, <2>7
<1>3. CASE StopAtLowerBound
  <2>1. TypeOK'
    BY <1>3 DEF TypeOK, StopAtLowerBound
  <2> QED
    BY <1>3, <2>1 DEF Copies, InHandOK, SearchOK, StopAtLowerBound
<1>4. CASE RouteDeleted
  <2>1. TypeOK'
    BY <1>4, SolutionFields DEF TypeOK, RouteDeleted
  <2> QED
    BY <1>4, <2>1 DEF Copies, InHandOK, SearchOK, RouteDeleted, Freed
<1>5. CASE DeadlinePassed
  <2>1. TypeOK'
    BY <1>5, SolutionFields DEF TypeOK, DeadlinePassed
  <2> QED
    BY <1>5, <2>1 DEF Copies, InHandOK, SearchOK, DeadlinePassed, Freed
<1>6. CASE PopCustomer
  <2>1. /\ s' \in Solution /\ s'.w \in Customer /\ s'.routes = s.routes
    BY <1>1, <1>6, PopSolution DEF PopCustomer, Solution
  <2>2. TypeOK'
    BY <1>6, <2>1 DEF TypeOK, PopCustomer
  <2> QED
    BY <1>6, <2>1, <2>2 DEF Copies, InHandOK, SearchOK, PopCustomer
<1> QED
  BY <1>2, <1>3, <1>4, <1>5, <1>6

\* INSERT of the customer in hand, which leaves the hand empty.
LEMMA InsertSolution ==
  ASSUME NEW sol \in Solution, sol.w \in Customer, NEW v \in InsertNodes(sol.routes)
  PROVE  /\ Insert(sol.routes, v, sol.w) \in Seq(Seq(Customer))
         /\ Len(Insert(sol.routes, v, sol.w)) = Len(sol.routes)
         /\ [sol EXCEPT !.routes = Insert(sol.routes, v, sol.w)] \in Solution
         /\ [sol EXCEPT !.routes = Insert(sol.routes, v, sol.w), !.w = NULL] \in Solution
<1>1. sol.routes \in Seq(Seq(Customer))
  BY SolutionFields
<1>2. /\ Insert(sol.routes, v, sol.w) \in Seq(Seq(Customer))
      /\ Len(Insert(sol.routes, v, sol.w)) = Len(sol.routes)
  BY <1>1, InsertRoutes
<1> QED
  BY <1>2, SolutionFields

\* The steps of insert_feasible.
LEMMA InsertFeasibleIInv ==
  ASSUME IInv, InsertFeasible \/ NoFeasibleInsertion
  PROVE  IInv'
<1> USE DEF IInv
<1>1. CASE InsertFeasible
  <2>1. PICK v \in InsertNodes(s.routes) :
          s' = [s EXCEPT !.routes = Insert(s.routes, v, s.w), !.w = NULL]
    BY <1>1 DEF InsertFeasible
  <2>2. s \in Solution /\ s.w \in Customer
    BY <1>1 DEF TypeOK, InHandOK, InsertFeasible
  <2>3. s' \in Solution /\ Len(Insert(s.routes, v, s.w)) = Len(s.routes)
    BY <2>1, <2>2, InsertSolution
  <2>4. Len(s'.routes) = Len(s.routes) /\ s'.w = NULL
    BY <2>1, <2>2, <2>3 DEF Solution
  <2>5. TypeOK'
    BY <1>1, <2>3 DEF TypeOK, InsertFeasible
  <2>6. Copies'
    BY <1>1, <2>4 DEF Copies, InsertFeasible
  <2>7. InHandOK' /\ SearchOK'
    BY <1>1, <2>4 DEF InHandOK, SearchOK, InsertFeasible
  <2> QED
    BY <2>5, <2>6, <2>7
<1>2. CASE NoFeasibleInsertion
  BY <1>2 DEF TypeOK, Copies, InHandOK, SearchOK, NoFeasibleInsertion
<1> QED
  BY <1>1, <1>2

\* The steps of squeeze.
LEMMA SqueezeIInv ==
  ASSUME IInv, Squeeze \/ SqueezeMove \/ SqueezeDone \/ SqueezeFail
  PROVE  IInv'
<1> USE DEF IInv
<1>1. s \in Solution /\ s_dup \in Solution
  BY DEF TypeOK
<1>2. CASE Squeeze
  <2>1. PICK v \in InsertNodes(s.routes) :
          s' = [s EXCEPT !.routes = Insert(s.routes, v, s.w), !.w = NULL]
    BY <1>2 DEF Squeeze
  <2>2. s.w \in Customer /\ s_dup' = s
    BY <1>2 DEF InHandOK, Squeeze
  <2>3. s' \in Solution /\ Len(Insert(s.routes, v, s.w)) = Len(s.routes)
    BY <1>1, <2>1, <2>2, InsertSolution
  <2>4. Len(s'.routes) = Len(s.routes) /\ s'.w = NULL
    BY <1>1, <2>1, <2>3 DEF Solution
  <2>5. s # Freed /\ s.w # NULL
    BY <2>2, ProblemAssumption DEF Freed, Customer, NULL
  <2>6. TypeOK'
    BY <1>1, <1>2, <2>2, <2>3 DEF TypeOK, Squeeze
  <2>7. Copies'
    BY <1>2, <2>2, <2>4, <2>5 DEF Copies, Squeeze
  <2>8. InHandOK' /\ SearchOK'
    BY <1>2, <2>4 DEF InHandOK, SearchOK, Squeeze
  <2> QED
    BY <2>6, <2>7, <2>8
<1>3. CASE SqueezeMove
  <2>1. PICK x \in DOMAIN s.routes : \E m \in Neighbourhood(s.routes, x) :
          s' = [s EXCEPT !.routes = modification_apply(s.routes, m[1], m[2], m[3])]
    BY <1>3 DEF SqueezeMove, InfeasibleRoutes
  <2>2. PICK m \in Neighbourhood(s.routes, x) :
          s' = [s EXCEPT !.routes = modification_apply(s.routes, m[1], m[2], m[3])]
    BY <2>1
  <2>3. s.routes \in Seq(Seq(Customer))
    BY <1>1, SolutionFields
  <2>4. /\ modification_apply(s.routes, m[1], m[2], m[3]) \in Seq(Seq(Customer))
        /\ Len(modification_apply(s.routes, m[1], m[2], m[3])) = Len(s.routes)
    BY <2>3, NeighbourhoodMoves, MoveRoutes
  <2>5. s' \in Solution /\ Len(s'.routes) = Len(s.routes) /\ s'.w = s.w
    BY <1>1, <2>2, <2>4 DEF Solution
  <2>6. TypeOK'
    BY <1>3, <2>5 DEF TypeOK, SqueezeMove
  <2>7. Copies'
    BY <1>3, <2>5 DEF Copies, SqueezeMove
  <2>8. InHandOK' /\ SearchOK'
    BY <1>3, <2>5 DEF InHandOK, SearchOK, SqueezeMove
  <2> QED
    BY <2>6, <2>7, <2>8
<1>4. CASE SqueezeDone
  <2>1. TypeOK'
    BY <1>4, SolutionFields DEF TypeOK, SqueezeDone
  <2> QED
    BY <1>4, <2>1 DEF Copies, InHandOK, SearchOK, SqueezeDone
<1>5. CASE SqueezeFail
  <2>1. s_dup # Freed /\ s_dup.w \in Customer /\ Len(s_dup.routes) = Len(s.routes)
    BY <1>1, <1>5, SolutionFields DEF Copies, SqueezeFail
  <2>2. beta' \in 1 .. MaxBeta
    <3>1. beta \in 1 .. MaxBeta /\ MaxBeta \in Nat
      BY OptionsAssumption DEF TypeOK
    <3>2. CorrectedBeta \in {beta, MIN(beta + 1, MaxBeta), MAX(beta - 1, 1)}
      BY DEF CorrectedBeta
    <3>3. MIN(beta + 1, MaxBeta) \in 1 .. MaxBeta /\ MAX(beta - 1, 1) \in 1 .. MaxBeta
      BY <3>1 DEF MIN, MAX
    <3> QED
      BY <1>5, <3>1, <3>2, <3>3 DEF SqueezeFail
  <2>3. p' \in [Customer -> 0 .. MaxP]
    <3>1. MIN(p[s_dup.w] + 1, MaxP) \in 0 .. MaxP
      <4>1. p[s_dup.w] \in 0 .. MaxP /\ MaxP \in Nat
        BY <2>1, OptionsAssumption DEF TypeOK
      <4> QED
        BY <4>1 DEF MIN
    <3> QED
      BY <1>5, <3>1 DEF TypeOK, SqueezeFail
  <2>4. TypeOK'
    BY <1>1, <1>5, <2>2, <2>3, SolutionFields DEF TypeOK, SqueezeFail
  <2>5. Copies'
    BY <1>5, <2>1 DEF Copies, SqueezeFail
  <2>6. InHandOK' /\ SearchOK'
    BY <1>5, <2>1 DEF InHandOK, SearchOK, SqueezeFail
  <2> QED
    BY <2>4, <2>5, <2>6
<1> QED
  BY <1>2, <1>3, <1>4, <1>5
-----------------------------------------------------------------------------
\* The customers an ejection takes out of a route.
LEMMA EjectedType ==
  ASSUME NEW r \in Seq(Customer), NEW x \in Ejections(r, k_max)
  PROVE  Ejected(r, x) \in Seq(Customer)
<1>1. PICK k \in 1 .. MIN(k_max, Len(r)) : x \in [1 .. k -> 1 .. Len(r)]
  BY DEF Ejections
<1>2. MIN(k_max, Len(r)) \in Nat
  <2>1. k_max \in Nat /\ Len(r) \in Nat
    BY OptionsAssumption
  <2> QED
    BY <2>1 DEF MIN
<1>3. k \in Nat
  BY <1>1, <1>2
<1>4. Ejected(r, x) \in [1 .. k -> Customer]
  BY <1>1 DEF Ejected
<1> QED
  BY <1>3, <1>4

\* The search of insert_eject, up to the insertion it decides for.
LEMMA TryIInv ==
  ASSUME IInv, InsertEject \/ TryInsertion \/ EjectionFound \/ EjectionsExhausted
  PROVE  IInv'
<1> USE DEF IInv
<1>1. s \in Solution /\ s_dup \in Solution
  BY DEF TypeOK
<1>2. s.routes \in Seq(Seq(Customer)) /\ s_dup.routes \in Seq(Seq(Customer))
  BY <1>1, SolutionFields
<1>3. CASE InsertEject
  <2>1. s.w \in Customer /\ s_dup' = s /\ s' = s /\ search' = NoSearch
    BY <1>3 DEF InHandOK, InsertEject
  <2>2. s # Freed /\ s.w # NULL
    BY <2>1, ProblemAssumption DEF Freed, Customer, NULL
  <2>3. TypeOK'
    BY <1>3, <2>1 DEF TypeOK, InsertEject, NoSearch
  <2>4. Copies'
    BY <1>3, <2>1, <2>2 DEF Copies, InsertEject
  <2>5. Position(s.routes, <<1, 1>>)
    BY <1>2 DEF Position
  <2>6. InHandOK' /\ SearchOK'
    BY <1>3, <2>1, <2>5 DEF InHandOK, SearchOK, InsertEject, NoSearch
  <2> QED
    BY <2>3, <2>4, <2>6
<1>4. CASE TryInsertion
  <2>1. /\ s = s_dup /\ s.w \in Customer /\ Position(s_dup.routes, search.at)
        /\ search.at[1] <= Len(s.routes) /\ search.at \in Nat \X Nat
    BY <1>4 DEF TypeOK, InHandOK, SearchOK, TryInsertion
  <2>2. search.at \in InsertNodes(s.routes)
    <3>1. /\ search.at[1] \in 1 .. Len(s.routes)
          /\ search.at[2] \in 1 .. Len(s.routes[search.at[1]]) + 1
          /\ search.at = <<search.at[1], search.at[2]>>
      BY <1>2, <2>1 DEF Position
    <3> QED
      BY <1>2, <3>1, NodeTypes
  <2>3. s' = [s EXCEPT !.routes = Insert(s.routes, search.at, s.w)]
    BY <1>4 DEF TryInsertion
  <2>4. s' \in Solution /\ Len(Insert(s.routes, search.at, s.w)) = Len(s.routes)
    BY <1>1, <2>1, <2>2, <2>3, InsertSolution
  <2>5. Len(s'.routes) = Len(s.routes) /\ s'.w = s.w
    BY <1>1, <2>3, <2>4 DEF Solution
  <2>6. TypeOK'
    BY <1>4, <2>4 DEF TypeOK, TryInsertion
  <2>7. Copies'
    BY <1>4, <2>5 DEF Copies, TryInsertion
  <2>8. InHandOK'
    BY <1>4, <2>1, <2>5 DEF InHandOK, TryInsertion
  <2>9. SearchOK'
    BY <1>4, <2>1, <2>2, <2>3 DEF SearchOK, TryInsertion
  <2> QED
    BY <2>6, <2>7, <2>8, <2>9
<1>5. CASE EjectionFound
  <2>1. PICK x \in Ejections(s.routes[search.at[1]], k_max) :
          search' = [search EXCEPT !.p_best = PSum(p, Ejected(s.routes[search.at[1]], x)),
                                   !.opt_v = search.at,
                                   !.opt_ejection = Ejected(s.routes[search.at[1]], x)]
    BY <1>5 DEF EjectionFound
  <2>2. search.at \in InsertNodes(s_dup.routes) /\ Len(s.routes) = Len(s_dup.routes)
    BY <1>5 DEF SearchOK, Copies, EjectionFound
  <2>3. s.routes[search.at[1]] \in Seq(Customer)
    <3>1. search.at[1] \in 1 .. Len(s_dup.routes)
      BY <1>2, <2>2, NodeTypes
    <3> QED
      BY <1>2, <2>2, <3>1
  <2>4. Ejected(s.routes[search.at[1]], x) \in Seq(Customer)
    BY <2>3, EjectedType
  <2>5. /\ DOMAIN search' = {"at", "p_best", "opt_v", "opt_ejection"}
        /\ search'.at = search.at /\ search'.opt_v = search.at
        /\ search'.opt_ejection \in Seq(Customer)
    BY <2>1, <2>4 DEF TypeOK
  <2>6. TypeOK'
    BY <1>5, <2>5 DEF TypeOK, EjectionFound
  <2>7. Copies' /\ InHandOK'
    BY <1>5 DEF Copies, InHandOK, EjectionFound
  <2>8. SearchOK'
    BY <1>5, <2>2, <2>5 DEF SearchOK, EjectionFound
  <2> QED
    BY <2>6, <2>7, <2>8
<1>6. CASE EjectionsExhausted
  <2> DEFINE v == search.at
             next == IF v[2] < Len(s.routes[v[1]]) THEN <<v[1], v[2] + 1>> ELSE <<v[1] + 1, 1>>
  <2>1. /\ v \in InsertNodes(s_dup.routes)
        /\ s = [s_dup EXCEPT !.routes = Insert(s_dup.routes, v, s_dup.w)]
        /\ s.w \in Customer /\ v \in Nat \X Nat
    BY <1>6 DEF TypeOK, SearchOK, InHandOK, EjectionsExhausted
  <2>2. s_dup.w \in Customer /\ s.routes = Insert(s_dup.routes, v, s_dup.w)
    BY <1>1, <2>1 DEF Solution
  <2>3. s' = s_dup
    <3>1. Eject(s.routes, v) = s_dup.routes
      BY <1>2, <2>1, <2>2, EjectAfterInsert
    <3>2. s' = [s EXCEPT !.routes = s_dup.routes]
      BY <1>6, <3>1 DEF EjectionsExhausted
    <3> QED
      BY <1>1, <2>1, <3>2 DEF Solution
  <2>4. /\ v[1] \in 1 .. Len(s_dup.routes)
        /\ v[2] \in 1 .. Len(s_dup.routes[v[1]]) + 1
    BY <1>2, <2>1, NodeTypes
  <2>5. Len(s.routes[v[1]]) = Len(s_dup.routes[v[1]]) + 1
    <3>1. s_dup.routes[v[1]] \in Seq(Customer)
      BY <1>2, <2>4
    <3>2. s.routes[v[1]] = InsertBefore(s_dup.routes[v[1]], v[2], s_dup.w)
      BY <1>2, <2>1, <2>2, <2>4, InsertRoutes
    <3> QED
      BY <2>2, <2>4, <3>1, <3>2, InsertBeforeElements
  <2>6. next \in Nat \X Nat /\ Position(s_dup.routes, next)
    <3>1. Len(s_dup.routes[v[1]]) \in Nat
      BY <1>2, <2>4
    <3>2. \A x \in 1 .. Len(s_dup.routes) : Len(s_dup.routes[x]) \in Nat
      BY <1>2
    <3>3. CASE v[2] < Len(s.routes[v[1]])
      BY <2>1, <2>4, <2>5, <3>1, <3>3 DEF Position
    <3>4. CASE ~(v[2] < Len(s.routes[v[1]]))
      <4>1. PICK y \in 2 .. Len(s_dup.routes) + 1 : y = v[1] + 1
        <5>1. Len(s_dup.routes) \in Nat
          BY <1>2
        <5>2. v[1] + 1 \in 2 .. Len(s_dup.routes) + 1
          BY <2>4, <5>1
        <5> QED
          BY <5>2
      <4>2. next = <<y, 1>>
        BY <3>4, <4>1
      <4> HIDE DEF next
      <4>3. y <= Len(s_dup.routes) => 1 \in 1 .. Len(s_dup.routes[y]) + 1
        BY <3>2
      <4> QED
        BY <4>2, <4>3 DEF Position
    <3> QED
      BY <3>3, <3>4
  <2>7. search' = [search EXCEPT !.at = next]
    BY <1>6 DEF EjectionsExhausted
  <2> HIDE DEF next
  <2>8. /\ DOMAIN search' = {"at", "p_best", "opt_v", "opt_ejection"}
        /\ search'.at = next /\ search'.opt_v = search.opt_v
        /\ search'.opt_ejection = search.opt_ejection
    BY <2>7 DEF TypeOK
  <2>9. TypeOK'
    BY <1>1, <1>6, <2>3, <2>6, <2>8 DEF TypeOK, EjectionsExhausted
  <2>10. Copies'
    BY <1>6, <2>3, <2>1 DEF Copies, EjectionsExhausted
  <2>11. InHandOK'
    BY <1>6, <2>2, <2>3 DEF InHandOK, EjectionsExhausted
  <2>12. SearchOK'
    BY <1>6, <2>3, <2>6, <2>8 DEF SearchOK, EjectionsExhausted
  <2> QED
    BY <2>9, <2>10, <2>11, <2>12
<1> QED
  BY <1>3, <1>4, <1>5, <1>6

\* insert_eject once the positions are used up, and its ejections.
LEMMA EjectIInv ==
  ASSUME IInv, InsertBest \/ EjectNext \/ EjectionDone \/ InsertEjectFail
  PROVE  IInv'
<1> USE DEF IInv
<1>1. s \in Solution /\ search.opt_ejection \in Seq(Customer)
  BY DEF TypeOK
<1>2. s.routes \in Seq(Seq(Customer)) /\ s.ejection_pool \in Seq(Customer)
  BY <1>1, SolutionFields
<1>3. CASE InsertBest
  <2>1. s = s_dup /\ s.w \in Customer /\ search.opt_v \in InsertNodes(s.routes)
    BY <1>3 DEF SearchOK, InHandOK, InsertBest
  <2>2. s' = [s EXCEPT !.routes = Insert(s.routes, search.opt_v, s.w), !.w = NULL]
    BY <1>3 DEF InsertBest
  <2>3. /\ s' \in Solution
        /\ Len(Insert(s.routes, search.opt_v, s.w)) = Len(s.routes)
    BY <1>1, <2>1, <2>2, InsertSolution
  <2>4. Len(s'.routes) = Len(s.routes) /\ s'.w = NULL
    BY <1>1, <2>2, <2>3 DEF Solution
  <2>5. TypeOK'
    BY <1>3, <2>3 DEF TypeOK, InsertBest
  <2>6. Copies'
    BY <1>3, <2>4 DEF Copies, InsertBest
  <2>7. InHandOK' /\ SearchOK'
    BY <1>3, <2>4 DEF InHandOK, SearchOK, InsertBest
  <2> QED
    BY <2>5, <2>6, <2>7
<1>4. CASE EjectNext
  <2> DEFINE c == search.opt_ejection[1]
             rest == Tail(search.opt_ejection)
  <2>1. PICK v \in CustomerNodes(s.routes) :
          s' = [s EXCEPT !.routes = Eject(s.routes, v), !.ejection_pool = Append(@, c)]
    BY <1>4 DEF EjectNext
  <2>2. c \in Customer /\ rest \in Seq(Customer)
    <3>1. search.opt_ejection # <<>>
      BY <1>4 DEF EjectNext
    <3> QED
      BY <1>1, <3>1
  <2>3. Eject(s.routes, v) \in Seq(Seq(Customer)) /\ Len(Eject(s.routes, v)) = Len(s.routes)
    BY <1>2, EjectRoutes
  <2>4. Append(s.ejection_pool, c) \in Seq(Customer)
    BY <1>2, <2>2
  <2>5. search' = [search EXCEPT !.opt_ejection = rest]
    BY <1>4 DEF EjectNext
  <2> HIDE DEF c, rest
  <2>6. s' \in Solution /\ Len(s'.routes) = Len(s.routes) /\ s'.w = s.w
    BY <1>1, <2>1, <2>3, <2>4 DEF Solution
  <2>7. /\ DOMAIN search' = {"at", "p_best", "opt_v", "opt_ejection"}
        /\ search'.at = search.at /\ search'.opt_v = search.opt_v
        /\ search'.opt_ejection = rest
    BY <2>5 DEF TypeOK
  <2>8. TypeOK'
    BY <1>4, <2>2, <2>6, <2>7 DEF TypeOK, EjectNext
  <2>9. Copies'
    BY <1>4, <2>6 DEF Copies, EjectNext
  <2>10. InHandOK' /\ SearchOK'
    BY <1>4, <2>6 DEF InHandOK, SearchOK, EjectNext
  <2> QED
    BY <2>8, <2>9, <2>10
<1>5. CASE EjectionDone
  <2>1. TypeOK'
    <3>1. 0 \in 0 .. i_rand
      BY OptionsAssumption
    <3> QED
      BY <1>5, <3>1, SolutionFields DEF TypeOK, EjectionDone, NoSearch
  <2> QED
    BY <1>5, <2>1 DEF Copies, InHandOK, SearchOK, EjectionDone
<1>6. CASE InsertEjectFail
  <2>1. TypeOK'
    BY <1>6, SolutionFields DEF TypeOK, InsertEjectFail, NoSearch
  <2> QED
    BY <1>6, <2>1 DEF Copies, InHandOK, SearchOK, InsertEjectFail, Freed
<1> QED
  BY <1>3, <1>4, <1>5, <1>6

\* The rounds of perturb, and the clock.
LEMMA PerturbIInv ==
  ASSUME IInv, PerturbMove \/ PerturbSkip \/ PerturbDone \/ ClockExpires \/ Returned
  PROVE  IInv'
<1> USE DEF IInv
<1>1. s \in Solution /\ round \in 0 .. i_rand /\ i_rand \in Nat
  BY OptionsAssumption DEF TypeOK
<1>2. CASE PerturbMove
  <2>1. PICK v \in CustomerNodes(s.routes), w \in CustomerNodes(s.routes), type \in Moves :
          /\ modification_applicable(s.routes, type, v, w)
          /\ s' = [s EXCEPT !.routes = modification_apply(s.routes, type, v, w)]
    BY <1>2 DEF PerturbMove, Perturbation
  <2>2. s.routes \in Seq(Seq(Customer))
    BY <1>1, SolutionFields
  <2>3. v \in Nodes(s.routes) /\ w \in Nodes(s.routes)
    <3>1. CustomerNodes(s.routes) \subseteq Nodes(s.routes)
      BY <2>2 DEF CustomerNodes, Nodes
    <3> QED
      BY <2>1, <3>1
  <2>4. /\ modification_apply(s.routes, type, v, w) \in Seq(Seq(Customer))
        /\ Len(modification_apply(s.routes, type, v, w)) = Len(s.routes)
    BY <2>1, <2>2, <2>3, MoveRoutes
  <2>5. s' \in Solution /\ Len(s'.routes) = Len(s.routes) /\ s'.w = s.w
    BY <1>1, <2>1, <2>4 DEF Solution
  <2>6. TypeOK'
    <3>1. round' \in 0 .. i_rand
      BY <1>1, <1>2 DEF PerturbMove
    <3> QED
      BY <1>2, <2>5, <3>1 DEF TypeOK, PerturbMove
  <2>7. Copies'
    BY <1>2, <2>5 DEF Copies, PerturbMove
  <2>8. InHandOK' /\ SearchOK'
    BY <1>2, <2>5 DEF InHandOK, SearchOK, PerturbMove
  <2> QED
    BY <2>6, <2>7, <2>8
<1>3. CASE PerturbSkip
  <2>1. round' \in 0 .. i_rand
    BY <1>1, <1>3 DEF PerturbSkip
  <2> QED
    BY <1>3, <2>1 DEF TypeOK, Copies, InHandOK, SearchOK, PerturbSkip
<1>4. CASE PerturbDone
  <2>1. round' \in 0 .. i_rand
    BY <1>1, <1>4 DEF PerturbDone
  <2> QED
    BY <1>4, <2>1 DEF TypeOK, Copies, InHandOK, SearchOK, PerturbDone
<1>5. CASE ClockExpires
  BY <1>5 DEF TypeOK, Copies, InHandOK, SearchOK, ClockExpires
<1>6. CASE Returned
  BY <1>6 DEF TypeOK, Copies, InHandOK, SearchOK, Returned, vars
<1> QED
  BY <1>2, <1>3, <1>4, <1>5, <1>6

\* Every step keeps it.
LEMMA NextIInv == IInv /\ [Next]_vars => IInv'
<1> SUFFICES ASSUME IInv, [Next]_vars PROVE IInv'
  OBVIOUS
<1>1. CASE Next
  BY <1>1, DeleteRouteIInv, InsertFeasibleIInv, SqueezeIInv, TryIInv, EjectIInv, PerturbIInv
  DEF Next, Step
<1>2. CASE UNCHANGED vars
  BY <1>2 DEF IInv, TypeOK, Copies, InHandOK, SearchOK, vars
<1> QED
  BY <1>1, <1>2
-----------------------------------------------------------------------------
(***************************************************************************)
(* The inductive invariant: what TypeOK, Copies and TriesRollBack need of  *)
(* each other.  A roll-back of a try gives the copy back only because the  *)
(* solution is the copy with w inserted (SearchOK), an insertion is typed  *)
(* only because a customer is in hand (InHandOK), and squeeze restores a   *)
(* copy only because that copy is alive (Copies).                          *)
(***************************************************************************)
THEOREM Invariant == Spec => []IInv
<1>1. Init => IInv
  BY InitIInv
<1>2. IInv /\ [Next]_vars => IInv'
  BY NextIInv
<1> QED
  BY <1>1, <1>2, PTL DEF Spec

\* Every solution, position and counter stays of its type.
THEOREM TypeCorrect == Spec => []TypeOK
<1>1. IInv => TypeOK
  BY DEF IInv
<1> QED
  BY <1>1, Invariant, PTL

\* The incumbent and the copies of squeeze and insert_eject live exactly as
\* long as the code may roll back to them, and are of the right size.
THEOREM CopiesLive == Spec => []Copies
<1>1. IInv => Copies
  BY DEF IInv
<1> QED
  BY <1>1, Invariant, PTL

\* Whatever was tried, insert_eject's next try starts from its copy.
THEOREM RollBack == Spec => []TriesRollBack
<1>1. IInv => TriesRollBack
  BY DEF IInv, SearchOK, TriesRollBack
<1> QED
  BY <1>1, Invariant, PTL
-----------------------------------------------------------------------------
(***************************************************************************)
(* Ownership is an invariant of EamaSolver: no sequence of insertions,     *)
(* moves, ejections and roll-backs loses a customer or holds it twice.     *)
(* First what each operation does to the customers of routes, pool and     *)
(* hand, then the steps of the solver.                                     *)
(***************************************************************************)
\* HeldOnce in terms of sets: the routes hold what the pool and w do not.
LEMMA HeldOnceSets ==
  ASSUME NEW rts \in Seq(Seq(Customer)), NEW pool \in Seq(Customer),
         NEW w \in Customer \cup {NULL}
  PROVE  HeldOnce(rts, pool, w) <=>
           /\ Distinct(pool) /\ w \notin Elems(pool)
           /\ Holds(rts, Customer \ (Elems(pool) \cup {w}))
<1>1. PICK A : A = Customer \ (Elems(pool) \cup {w})
  OBVIOUS
<1>2. DOMAIN rts = 1 .. Len(rts) /\ DOMAIN pool = 1 .. Len(pool)
  OBVIOUS
<1>3. \A x \in 1 .. Len(rts) : rts[x] \in Seq(Customer) /\ DOMAIN rts[x] = 1 .. Len(rts[x])
  OBVIOUS
<1>4. \A x \in 1 .. Len(rts) : \A i \in 1 .. Len(rts[x]) : rts[x][i] \in Customer
  BY <1>3
<1>5. \A j \in 1 .. Len(pool) : pool[j] \in Customer
  OBVIOUS
<1>6. ASSUME HeldOnce(rts, pool, w)
      PROVE  Distinct(pool) /\ w \notin Elems(pool) /\ Holds(rts, A)
  <2>1. Distinct(pool) /\ w \notin Elems(pool)
    BY <1>2, <1>6 DEF HeldOnce, Distinct, Elems
  <2>2. ASSUME NEW x \in 1 .. Len(rts)
        PROVE  Distinct(rts[x]) /\ Elems(rts[x]) \subseteq A
    <3>1. Distinct(rts[x])
      BY <1>2, <1>3, <1>6 DEF HeldOnce, Distinct
    <3>2. \A i \in 1 .. Len(rts[x]) :
            /\ rts[x][i] # w
            /\ \A j \in 1 .. Len(pool) : rts[x][i] # pool[j]
      <4>1. x \in DOMAIN rts /\ DOMAIN rts[x] = 1 .. Len(rts[x])
        BY <1>2, <1>3
      <4> QED
        BY <1>2, <1>6, <4>1 DEF HeldOnce
    <3>3. \A i \in 1 .. Len(rts[x]) : rts[x][i] \in A
      BY <1>1, <1>4, <3>2 DEF Elems
    <3> QED
      BY <3>1, <3>3 DEF Elems
  <2>3. ASSUME NEW c \in A
        PROVE  \E x \in 1 .. Len(rts) : c \in Elems(rts[x])
    <3>1. c \in Customer /\ c # w /\ \A j \in 1 .. Len(pool) : pool[j] # c
      BY <1>1 DEF Elems
    <3>2. \E x \in 1 .. Len(rts) : \E i \in 1 .. Len(rts[x]) : rts[x][i] = c
      BY <1>2, <1>3, <1>6, <3>1 DEF HeldOnce
    <3> QED
      BY <3>2 DEF Elems
  <2>4. ASSUME NEW x \in 1 .. Len(rts), NEW y \in 1 .. Len(rts), x # y
        PROVE  Elems(rts[x]) \cap Elems(rts[y]) = {}
    <3>1. \A i \in 1 .. Len(rts[x]), j \in 1 .. Len(rts[y]) : rts[x][i] # rts[y][j]
      <4>1. /\ x \in DOMAIN rts /\ DOMAIN rts[x] = 1 .. Len(rts[x])
            /\ y \in DOMAIN rts /\ DOMAIN rts[y] = 1 .. Len(rts[y])
        BY <1>2, <1>3
      <4> QED
        BY <1>6, <2>4, <4>1, Zenon DEF HeldOnce
    <3> QED
      BY <3>1 DEF Elems
  <2> QED
    BY <2>1, <2>2, <2>3, <2>4 DEF Holds
<1>7. ASSUME Distinct(pool), w \notin Elems(pool), Holds(rts, A)
      PROVE  HeldOnce(rts, pool, w)
  <2>1. ASSUME NEW c \in Customer
        PROVE  \/ \E x \in 1 .. Len(rts) : \E i \in 1 .. Len(rts[x]) : rts[x][i] = c
               \/ \E j \in 1 .. Len(pool) : pool[j] = c
               \/ w = c
    <3>1. CASE c \in A
      BY <1>7, <3>1 DEF Holds, Elems
    <3>2. CASE c \notin A
      BY <1>1, <3>2 DEF Elems
    <3> QED
      BY <3>1, <3>2
  <2>2. ASSUME NEW x \in 1 .. Len(rts), NEW y \in 1 .. Len(rts),
               NEW i \in 1 .. Len(rts[x]), NEW j \in 1 .. Len(rts[y]), rts[x][i] = rts[y][j]
        PROVE  x = y /\ i = j
    <3>1. x = y
      <4>1. rts[x][i] \in Elems(rts[x]) /\ rts[x][i] \in Elems(rts[y])
        BY <2>2 DEF Elems
      <4> QED
        BY <1>7, <4>1 DEF Holds
    <3> QED
      BY <1>7, <2>2, <3>1 DEF Holds, Distinct
  <2>3. \A i, j \in 1 .. Len(pool) : pool[i] = pool[j] => i = j
    BY <1>7 DEF Distinct
  <2>4. ASSUME NEW x \in 1 .. Len(rts), NEW i \in 1 .. Len(rts[x])
        PROVE  rts[x][i] # w /\ \A j \in 1 .. Len(pool) : rts[x][i] # pool[j]
    <3>1. rts[x][i] \in A
      BY <1>7 DEF Holds, Elems
    <3> QED
      BY <1>1, <3>1 DEF Elems
  <2>5. \A j \in 1 .. Len(pool) : pool[j] # w
    BY <1>7 DEF Elems
  <2>6. \A x \in DOMAIN rts : x \in 1 .. Len(rts) /\ DOMAIN rts[x] = 1 .. Len(rts[x])
    BY <1>2, <1>3
  <2>7. \A c \in Customer :
          \/ \E x \in DOMAIN rts : \E i \in DOMAIN rts[x] : rts[x][i] = c
          \/ \E j \in DOMAIN pool : pool[j] = c
          \/ w = c
    BY <1>2, <1>3, <2>1
  <2>8. ASSUME NEW x \in DOMAIN rts, NEW y \in DOMAIN rts,
               NEW i \in DOMAIN rts[x], NEW j \in DOMAIN rts[y], rts[x][i] = rts[y][j]
        PROVE  x = y /\ i = j
    <3>1. x \in 1 .. Len(rts) /\ y \in 1 .. Len(rts)
      BY <2>6
    <3>2. i \in 1 .. Len(rts[x]) /\ j \in 1 .. Len(rts[y])
      BY <2>6, <3>1
    <3> QED
      BY <2>2, <2>8, <3>1, <3>2
  <2>9. \A x \in DOMAIN rts : \A i \in DOMAIN rts[x] :
          rts[x][i] # w /\ \A j \in DOMAIN pool : rts[x][i] # pool[j]
    BY <1>2, <2>4, <2>6
  <2> QED
    BY <1>2, <2>3, <2>5, <2>7, <2>8, <2>9 DEF HeldOnce
<1> QED
  BY <1>1, <1>6, <1>7

\* A solution with neither pool nor hand is a complete one.
LEMMA CompleteSolution ==
  ASSUME NEW rts \in Seq(Seq(Customer))
  PROVE  ServesAllOnce(rts) <=> HeldOnce(rts, <<>>, NULL)
<1>1. \A c \in Customer : c # NULL
  BY ProblemAssumption DEF Customer, NULL
<1>2. \A x \in DOMAIN rts : \A i \in DOMAIN rts[x] : rts[x][i] \in Customer
  OBVIOUS
<1>3. DOMAIN <<>> = {}
  OBVIOUS
<1> QED
  BY <1>1, <1>2, <1>3 DEF ServesAllOnce, HeldOnce

\* solution_eliminate_random_route: the customers of route x are gone, and the
\* others are where they were, though one route has moved.
LEMMA EliminateHolds ==
  ASSUME NEW C, NEW rts \in Seq(Seq(C)), NEW A, Holds(rts, A), NEW x \in 1 .. Len(rts),
         NEW after \in Seq(Seq(C)), Len(after) = Len(rts) - 1,
         \A y \in 1 .. Len(rts) - 1 : after[y] = IF y = x THEN rts[Len(rts)] ELSE rts[y]
  PROVE  Holds(after, A \ Elems(rts[x]))
<1>1. PICK n \in Nat : n = Len(rts)
  OBVIOUS
<1>2. x \in 1 .. n /\ Len(after) = n - 1
  BY <1>1
<1>3. \A y \in 1 .. n - 1 : after[y] = IF y = x THEN rts[n] ELSE rts[y]
  BY <1>1
<1>4. PICK g : g = [y \in 1 .. n - 1 |-> IF y = x THEN n ELSE y]
  OBVIOUS
<1>5. \A y \in 1 .. n - 1 : g[y] \in 1 .. n /\ g[y] # x /\ after[y] = rts[g[y]]
  BY <1>2, <1>3, <1>4
<1>6. \A y, z \in 1 .. n - 1 : y # z => g[y] # g[z]
  BY <1>2, <1>4
<1>7. ASSUME NEW z \in 1 .. n, z # x
      PROVE  \E y \in 1 .. n - 1 : after[y] = rts[z]
  <2>1. CASE z = n
    BY <1>2, <1>3, <1>7, <2>1
  <2>2. CASE z # n
    BY <1>2, <1>3, <1>7, <2>2
  <2> QED
    BY <2>1, <2>2
<1>8. ASSUME NEW y \in 1 .. n - 1
      PROVE  Distinct(after[y]) /\ Elems(after[y]) \subseteq A \ Elems(rts[x])
  BY <1>1, <1>2, <1>5 DEF Holds
<1>9. ASSUME NEW c \in A \ Elems(rts[x])
      PROVE  \E y \in 1 .. n - 1 : c \in Elems(after[y])
  <2>1. PICK z \in 1 .. n : c \in Elems(rts[z])
    BY <1>1 DEF Holds
  <2>2. z # x
    BY <2>1
  <2> QED
    BY <1>7, <2>1, <2>2
<1>10. ASSUME NEW y \in 1 .. n - 1, NEW z \in 1 .. n - 1, y # z
       PROVE  Elems(after[y]) \cap Elems(after[z]) = {}
  <2>1. /\ g[y] \in 1 .. n /\ g[z] \in 1 .. n /\ g[y] # g[z]
        /\ after[y] = rts[g[y]] /\ after[z] = rts[g[z]]
    BY <1>5, <1>6, <1>10
  <2>2. Elems(rts[g[y]]) \cap Elems(rts[g[z]]) = {}
    BY <1>1, <2>1 DEF Holds
  <2> QED
    BY <2>1, <2>2
<1> QED
  BY <1>2, <1>8, <1>9, <1>10 DEF Holds
-----------------------------------------------------------------------------
\* The customer in hand is inserted.
LEMMA HandToRoute ==
  ASSUME NEW rts \in Seq(Seq(Customer)), NEW pool \in Seq(Customer), NEW w \in Customer,
         HeldOnce(rts, pool, w), NEW v \in InsertNodes(rts)
  PROVE  HeldOnce(Insert(rts, v, w), pool, NULL)
<1>1. PICK A : A = Customer \ (Elems(pool) \cup {w})
  OBVIOUS
<1>2. Distinct(pool) /\ w \notin Elems(pool) /\ Holds(rts, A)
  BY <1>1, HeldOnceSets
<1>3. Holds(Insert(rts, v, w), A \cup {w})
  <2>1. w \notin A
    BY <1>1
  <2> QED
    BY <1>2, <2>1, InsertHolds
<1>4. NULL \notin Customer
  BY ProblemAssumption DEF Customer, NULL
<1>5. A \cup {w} = Customer \ (Elems(pool) \cup {NULL})
  BY <1>1, <1>2, <1>4
<1>6. NULL \notin Elems(pool)
  BY <1>4 DEF Elems
<1>7. Insert(rts, v, w) \in Seq(Seq(Customer))
  BY InsertRoutes
<1> QED
  BY <1>2, <1>3, <1>5, <1>6, <1>7, HeldOnceSets

\* A customer of a route is ejected to the end of the pool.
LEMMA RouteToPool ==
  ASSUME NEW rts \in Seq(Seq(Customer)), NEW pool \in Seq(Customer),
         NEW w \in Customer \cup {NULL}, HeldOnce(rts, pool, w), NEW v \in CustomerNodes(rts)
  PROVE  HeldOnce(Eject(rts, v), Append(pool, rts[v[1]][v[2]]), w)
<1>1. PICK A : A = Customer \ (Elems(pool) \cup {w})
  OBVIOUS
<1>2. Distinct(pool) /\ w \notin Elems(pool) /\ Holds(rts, A)
  BY <1>1, HeldOnceSets
<1>3. PICK c : c = rts[v[1]][v[2]]
  OBVIOUS
<1>4. c \in A /\ Holds(Eject(rts, v), A \ {c})
  BY <1>2, <1>3, EjectHolds
<1>5. c \in Customer /\ c # w /\ c \notin Elems(pool)
  BY <1>1, <1>4
<1>6. PICK q : q = Append(pool, c)
  OBVIOUS
<1>7. /\ q \in Seq(Customer) /\ Len(q) = Len(pool) + 1 /\ Len(pool) \in Nat
      /\ \A j \in 1 .. Len(pool) : q[j] = pool[j]
      /\ q[Len(pool) + 1] = c
  BY <1>5, <1>6
<1>8. Elems(q) = Elems(pool) \cup {c}
  <2>1. \A j \in 1 .. Len(q) : j \in 1 .. Len(pool) \/ j = Len(pool) + 1
    BY <1>7
  <2>2. \A d \in Elems(q) : d \in Elems(pool) \cup {c}
    BY <1>7, <2>1 DEF Elems
  <2>3. 1 .. Len(pool) \subseteq 1 .. Len(q) /\ Len(pool) + 1 \in 1 .. Len(q)
    BY <1>7
  <2>4. \A d \in Elems(pool) \cup {c} : d \in Elems(q)
    BY <1>7, <2>3 DEF Elems
  <2> QED
    BY <2>2, <2>4
<1>9. Distinct(q)
  <2>1. \A j \in 1 .. Len(pool) : pool[j] # c
    BY <1>5 DEF Elems
  <2>2. \A i, j \in 1 .. Len(pool) : pool[i] = pool[j] => i = j
    BY <1>2 DEF Distinct
  <2>3. \A j \in 1 .. Len(q) : j \in 1 .. Len(pool) \/ j = Len(pool) + 1
    BY <1>7
  <2> QED
    BY <1>7, <2>1, <2>2, <2>3 DEF Distinct
<1>10. A \ {c} = Customer \ (Elems(q) \cup {w}) /\ w \notin Elems(q)
  BY <1>1, <1>2, <1>5, <1>8
<1>11. Eject(rts, v) \in Seq(Seq(Customer))
  BY EjectRoutes
<1> QED
  BY <1>3, <1>4, <1>6, <1>7, <1>9, <1>10, <1>11, HeldOnceSets

\* solution_remove_last: the last customer of the pool is taken in hand.
LEMMA PoolToHand ==
  ASSUME NEW rts \in Seq(Seq(Customer)), NEW pool \in Seq(Customer),
         HeldOnce(rts, pool, NULL), pool # <<>>
  PROVE  HeldOnce(rts, SubSeq(pool, 1, Len(pool) - 1), pool[Len(pool)])
<1>1. PICK A : A = Customer \ (Elems(pool) \cup {NULL})
  OBVIOUS
<1>2. Distinct(pool) /\ Holds(rts, A)
  BY <1>1, HeldOnceSets
<1>3. PICK n \in Nat : n = Len(pool)
  OBVIOUS
<1>4. n >= 1
  BY <1>3
<1>5. PICK q : q = SubSeq(pool, 1, n - 1)
  OBVIOUS
<1>6. q \in Seq(Customer) /\ Len(q) = n - 1 /\ \A j \in 1 .. n - 1 : q[j] = pool[j]
  BY <1>3, <1>4, <1>5
<1>7. pool[n] \in Customer
  BY <1>3, <1>4
<1>8. \A i, j \in 1 .. n : pool[i] = pool[j] => i = j
  BY <1>2, <1>3 DEF Distinct
<1>9. Distinct(q)
  BY <1>6, <1>8 DEF Distinct
<1>10. pool[n] \notin Elems(q)
  <2>1. \A j \in 1 .. n - 1 : j \in 1 .. n /\ j # n /\ n \in 1 .. n
    BY <1>4
  <2> QED
    BY <1>6, <1>8, <2>1 DEF Elems
<1>11. Elems(q) \cup {pool[n]} = Elems(pool)
  <2>1. 1 .. n = (1 .. n - 1) \cup {n}
    BY <1>4
  <2>2. \A d \in Elems(q) \cup {pool[n]} : d \in Elems(pool)
    BY <1>3, <1>6, <2>1 DEF Elems
  <2>3. \A d \in Elems(pool) : d \in Elems(q) \cup {pool[n]}
    BY <1>3, <1>6, <2>1 DEF Elems
  <2> QED
    BY <2>2, <2>3
<1>12. NULL \notin Customer
  BY ProblemAssumption DEF Customer, NULL
<1>13. A = Customer \ (Elems(q) \cup {pool[n]})
  BY <1>1, <1>11, <1>12
<1> QED
  BY <1>2, <1>3, <1>5, <1>6, <1>7, <1>9, <1>10, <1>13, HeldOnceSets

\* A move of squeeze or of perturb concerns the routes alone.
LEMMA MoveHeldOnce ==
  ASSUME NEW rts \in Seq(Seq(Customer)), NEW pool \in Seq(Customer),
         NEW w \in Customer \cup {NULL}, HeldOnce(rts, pool, w), NEW type \in Moves,
         NEW u \in Nodes(rts), NEW v \in Nodes(rts), modification_applicable(rts, type, u, v)
  PROVE  HeldOnce(modification_apply(rts, type, u, v), pool, w)
<1>1. PICK A : A = Customer \ (Elems(pool) \cup {w})
  OBVIOUS
<1>2. Distinct(pool) /\ w \notin Elems(pool) /\ Holds(rts, A)
  BY <1>1, HeldOnceSets
<1>3. Holds(modification_apply(rts, type, u, v), A)
  BY <1>2, MoveHolds
<1>4. modification_apply(rts, type, u, v) \in Seq(Seq(Customer))
  BY MoveRoutes
<1> QED
  BY <1>1, <1>2, <1>3, <1>4, HeldOnceSets

\* The customers of an eliminated route are all the pool has.
LEMMA EliminateHeldOnce ==
  ASSUME NEW sol \in Solution, sol.ejection_pool = <<>>,
         HeldOnce(sol.routes, <<>>, NULL), NEW x \in DOMAIN sol.routes
  PROVE  HeldOnce(Eliminate(sol, x).routes, Eliminate(sol, x).ejection_pool, NULL)
<1>1. PICK rts \in Seq(Seq(Customer)) : rts = sol.routes
  BY SolutionFields
<1>2. x \in 1 .. Len(rts)
  BY <1>1
<1>3. PICK r \in Seq(Customer) : r = rts[x]
  BY <1>2
<1>4. PICK after : after = Eliminate(sol, x).routes
  OBVIOUS
<1>5. after \in Seq(Seq(Customer)) /\ Len(after) = Len(rts) - 1
  BY <1>1, <1>4, EliminateSolution, SolutionFields
<1>6. \A y \in 1 .. Len(rts) - 1 : after[y] = IF y = x THEN rts[Len(rts)] ELSE rts[y]
  BY <1>1, <1>4 DEF Eliminate, Solution
<1>7. Eliminate(sol, x).ejection_pool = r
  <2>1. Eliminate(sol, x).ejection_pool = <<>> \o r
    BY <1>1, <1>3 DEF Eliminate, Solution
  <2> QED
    BY <2>1
<1>8. NULL \notin Customer
  BY ProblemAssumption DEF Customer, NULL
<1>9. Holds(rts, Customer)
  <2>1. <<>> \in Seq(Customer) /\ Elems(<<>>) = {}
    BY DEF Elems
  <2>2. Customer \ (Elems(<<>>) \cup {NULL}) = Customer
    BY <1>8, <2>1
  <2>3. Holds(rts, Customer \ (Elems(<<>>) \cup {NULL}))
    BY <1>1, <2>1, HeldOnceSets
  <2> QED
    BY <2>2, <2>3
<1>10. Holds(after, Customer \ Elems(r))
  BY <1>2, <1>3, <1>5, <1>6, <1>9, EliminateHolds
<1>11. Distinct(r) /\ NULL \notin Elems(r)
  <2>1. Distinct(r) /\ Elems(r) \subseteq Customer
    BY <1>2, <1>3, <1>9 DEF Holds
  <2> QED
    BY <1>8, <2>1
<1>12. Customer \ Elems(r) = Customer \ (Elems(r) \cup {NULL})
  BY <1>8
<1> QED
  BY <1>4, <1>5, <1>7, <1>10, <1>11, <1>12, HeldOnceSets
-----------------------------------------------------------------------------
(***************************************************************************)
(* Ownership is inductive with IInv once the pool is known to be empty     *)
(* outside delete_route: what delete_route copies is then complete.        *)
(***************************************************************************)
Working == HeldOnce(s.routes, s.ejection_pool, InHand)

IncumbentComplete ==
  incumbent # Freed =>
    incumbent.ejection_pool = <<>> /\ incumbent.w = NULL /\ ServesAllOnce(incumbent.routes)

CopyHeld == s_dup # Freed => HeldOnce(s_dup.routes, s_dup.ejection_pool, s_dup.w)

PoolEmptyOutside == pc \in {"solve", "done"} => s.ejection_pool = <<>>

OwnInv == Working /\ IncumbentComplete /\ CopyHeld /\ PoolEmptyOutside

\* The first state satisfies it: the initial solution serves every customer once.
LEMMA InitOwned == Init => OwnInv
<1> SUFFICES ASSUME Init PROVE OwnInv
  OBVIOUS
<1>1. PICK rts \in InitialSolutions :
        s = [routes |-> rts, ejection_pool |-> <<>>, w |-> NULL]
  BY DEF Init
<1>2. rts \in Seq(Seq(Customer)) /\ ServesAllOnce(rts)
  BY InitialAssumption
<1>3. HeldOnce(rts, <<>>, NULL)
  BY <1>2, CompleteSolution
<1>4. s.routes = rts /\ s.ejection_pool = <<>> /\ s.w = NULL
  BY <1>1
<1>5. Working
  BY <1>3, <1>4 DEF Init, Working, InHand
<1> QED
  BY <1>4, <1>5 DEF Init, OwnInv, IncumbentComplete, CopyHeld, PoolEmptyOutside

\* A complete incumbent takes the place of the working solution.
LEMMA IncumbentReturns ==
  ASSUME IInv, OwnInv, incumbent # Freed, s' = incumbent, pc' # "ejections"
  PROVE  Working' /\ s'.ejection_pool = <<>>
<1>1. incumbent.routes \in Seq(Seq(Customer))
  BY SolutionFields DEF IInv, TypeOK
<1>2. incumbent.ejection_pool = <<>> /\ incumbent.w = NULL /\ ServesAllOnce(incumbent.routes)
  BY DEF OwnInv, IncumbentComplete
<1>3. HeldOnce(incumbent.routes, <<>>, NULL)
  BY <1>1, <1>2, CompleteSolution
<1> QED
  BY <1>2, <1>3 DEF Working, InHand

\* eama_solver_solve and delete_route.
LEMMA DeleteRouteOwned ==
  ASSUME IInv, OwnInv,
         DeleteRoute \/ StopAtLowerBound \/ RouteDeleted \/ DeadlinePassed \/ PopCustomer
  PROVE  OwnInv'
<1>1. s \in Solution /\ s.routes \in Seq(Seq(Customer)) /\ s.ejection_pool \in Seq(Customer)
  BY SolutionFields DEF IInv, TypeOK
<1>2. CASE DeleteRoute
  <2>1. PICK x \in DOMAIN s.routes : s' = Eliminate(s, x)
    BY <1>2 DEF DeleteRoute
  <2>2. pc = "solve" /\ pc' = "delete_route" /\ incumbent' = s /\ s_dup' = s_dup
    BY <1>2 DEF DeleteRoute
  <2>3. s.w = NULL /\ s.ejection_pool = <<>> /\ InHand = NULL
    BY <2>2 DEF IInv, InHandOK, OwnInv, PoolEmptyOutside, InHand
  <2>4. HeldOnce(s.routes, <<>>, NULL)
    BY <2>3 DEF OwnInv, Working
  <2>5. HeldOnce(s'.routes, s'.ejection_pool, NULL)
    BY <1>1, <2>1, <2>3, <2>4, EliminateHeldOnce
  <2>6. s'.w = NULL
    BY <1>1, <2>1, <2>3, EliminateSolution
  <2>7. Working'
    BY <2>2, <2>5, <2>6 DEF Working, InHand
  <2>8. IncumbentComplete'
    BY <1>1, <2>2, <2>3, <2>4, CompleteSolution DEF IncumbentComplete
  <2> QED
    BY <2>2, <2>7, <2>8 DEF OwnInv, CopyHeld, PoolEmptyOutside
<1>3. CASE StopAtLowerBound
  BY <1>3 DEF StopAtLowerBound, OwnInv, Working, IncumbentComplete, CopyHeld, PoolEmptyOutside,
              InHand
<1>4. CASE RouteDeleted
  BY <1>4 DEF RouteDeleted, OwnInv, Working, IncumbentComplete, CopyHeld, PoolEmptyOutside,
              InHand
<1>5. CASE DeadlinePassed
  <2>1. incumbent # Freed /\ s' = incumbent /\ pc' = "done"
    BY <1>5 DEF DeadlinePassed, IInv, Copies
  <2>2. Working' /\ s'.ejection_pool = <<>>
    BY <2>1, IncumbentReturns
  <2> QED
    BY <1>5, <2>2 DEF DeadlinePassed, OwnInv, IncumbentComplete, CopyHeld, PoolEmptyOutside
<1>6. CASE PopCustomer
  <2> DEFINE n == Len(s.ejection_pool)
             rest == SubSeq(s.ejection_pool, 1, n - 1)
  <2>1. /\ pc = "delete_route" /\ s.ejection_pool # <<>> /\ pc' = "insert_feasible"
        /\ s' = [s EXCEPT !.w = s.ejection_pool[n], !.ejection_pool = rest]
    BY <1>6 DEF PopCustomer
  <2>2. HeldOnce(s.routes, s.ejection_pool, NULL)
    BY <2>1 DEF OwnInv, Working, InHand, IInv, InHandOK
  <2>3. HeldOnce(s.routes, rest, s.ejection_pool[n])
    BY <1>1, <2>1, <2>2, PoolToHand
  <2> HIDE DEF n, rest
  <2>4. s'.routes = s.routes /\ s'.ejection_pool = rest /\ s'.w = s.ejection_pool[n]
    BY <1>1, <2>1 DEF Solution
  <2>5. Working'
    BY <2>1, <2>3, <2>4 DEF Working, InHand
  <2> QED
    BY <1>6, <2>1, <2>5 DEF PopCustomer, OwnInv, IncumbentComplete, CopyHeld, PoolEmptyOutside
<1> QED
  BY <1>2, <1>3, <1>4, <1>5, <1>6

\* The customer in hand is inserted for good.
LEMMA InsertionOwned ==
  ASSUME IInv, OwnInv, s.w \in Customer, pc # "ejections", pc' # "ejections",
         NEW v \in InsertNodes(s.routes),
         s' = [s EXCEPT !.routes = Insert(s.routes, v, s.w), !.w = NULL]
  PROVE  Working'
<1>1. s \in Solution /\ s.routes \in Seq(Seq(Customer)) /\ s.ejection_pool \in Seq(Customer)
  BY SolutionFields DEF IInv, TypeOK
<1>2. HeldOnce(s.routes, s.ejection_pool, s.w)
  BY DEF OwnInv, Working, InHand
<1>3. HeldOnce(Insert(s.routes, v, s.w), s.ejection_pool, NULL)
  BY <1>1, <1>2, HandToRoute
<1>4. s'.routes = Insert(s.routes, v, s.w) /\ s'.ejection_pool = s.ejection_pool /\ s'.w = NULL
  BY <1>1 DEF Solution
<1> QED
  BY <1>3, <1>4 DEF Working, InHand

\* A move is applied to the routes.
LEMMA MoveOwned ==
  ASSUME IInv, OwnInv, pc # "ejections", pc' = pc, NEW type \in Moves,
         NEW u \in Nodes(s.routes), NEW v \in Nodes(s.routes),
         modification_applicable(s.routes, type, u, v),
         s' = [s EXCEPT !.routes = modification_apply(s.routes, type, u, v)]
  PROVE  Working'
<1>1. /\ s \in Solution /\ s.routes \in Seq(Seq(Customer)) /\ s.ejection_pool \in Seq(Customer)
      /\ s.w \in Customer \cup {NULL}
  BY SolutionFields DEF IInv, TypeOK
<1>2. HeldOnce(s.routes, s.ejection_pool, s.w)
  BY DEF OwnInv, Working, InHand
<1>3. HeldOnce(modification_apply(s.routes, type, u, v), s.ejection_pool, s.w)
  BY <1>1, <1>2, MoveHeldOnce
<1>4. /\ s'.routes = modification_apply(s.routes, type, u, v)
      /\ s'.ejection_pool = s.ejection_pool /\ s'.w = s.w
  BY <1>1 DEF Solution
<1> QED
  BY <1>3, <1>4 DEF Working, InHand

\* insert_feasible.
LEMMA InsertFeasibleOwned ==
  ASSUME IInv, OwnInv, InsertFeasible \/ NoFeasibleInsertion
  PROVE  OwnInv'
<1>1. CASE InsertFeasible
  <2>1. PICK v \in InsertNodes(s.routes) :
          s' = [s EXCEPT !.routes = Insert(s.routes, v, s.w), !.w = NULL]
    BY <1>1 DEF InsertFeasible
  <2>2. pc = "insert_feasible" /\ pc' = "delete_route" /\ s.w \in Customer
    BY <1>1 DEF InsertFeasible, IInv, InHandOK
  <2>3. Working'
    BY <2>1, <2>2, InsertionOwned
  <2> QED
    BY <1>1, <2>2, <2>3
    DEF InsertFeasible, OwnInv, IncumbentComplete, CopyHeld, PoolEmptyOutside
<1>2. CASE NoFeasibleInsertion
  BY <1>2 DEF NoFeasibleInsertion, OwnInv, Working, IncumbentComplete, CopyHeld,
              PoolEmptyOutside, InHand
<1> QED
  BY <1>1, <1>2

\* squeeze, which copies the solution before it inserts and gives the copy back.
LEMMA SqueezeOwned ==
  ASSUME IInv, OwnInv, Squeeze \/ SqueezeMove \/ SqueezeDone \/ SqueezeFail
  PROVE  OwnInv'
<1>1. CASE Squeeze
  <2>1. PICK v \in InsertNodes(s.routes) :
          s' = [s EXCEPT !.routes = Insert(s.routes, v, s.w), !.w = NULL]
    BY <1>1 DEF Squeeze
  <2>2. pc = "squeeze" /\ pc' = "squeeze_loop" /\ s.w \in Customer /\ s_dup' = s
    BY <1>1 DEF Squeeze, IInv, InHandOK
  <2>3. Working'
    BY <2>1, <2>2, InsertionOwned
  <2>4. CopyHeld'
    BY <2>2 DEF CopyHeld, OwnInv, Working, InHand
  <2> QED
    BY <1>1, <2>2, <2>3, <2>4 DEF Squeeze, OwnInv, IncumbentComplete, PoolEmptyOutside
<1>2. CASE SqueezeMove
  <2>1. PICK x \in DOMAIN s.routes : \E m \in Neighbourhood(s.routes, x) :
          s' = [s EXCEPT !.routes = modification_apply(s.routes, m[1], m[2], m[3])]
    BY <1>2 DEF SqueezeMove, InfeasibleRoutes
  <2>2. PICK m \in Neighbourhood(s.routes, x) :
          s' = [s EXCEPT !.routes = modification_apply(s.routes, m[1], m[2], m[3])]
    BY <2>1
  <2>3. s.routes \in Seq(Seq(Customer))
    BY SolutionFields DEF IInv, TypeOK
  <2>4. /\ m[1] \in Moves /\ m[2] \in Nodes(s.routes) /\ m[3] \in Nodes(s.routes)
        /\ modification_applicable(s.routes, m[1], m[2], m[3])
    BY <2>3, NeighbourhoodMoves
  <2>5. pc = "squeeze_loop" /\ pc' = pc
    BY <1>2 DEF SqueezeMove
  <2>6. Working'
    BY <2>2, <2>4, <2>5, MoveOwned
  <2> QED
    BY <1>2, <2>5, <2>6 DEF SqueezeMove, OwnInv, IncumbentComplete, CopyHeld, PoolEmptyOutside
<1>3. CASE SqueezeDone
  BY <1>3 DEF SqueezeDone, OwnInv, Working, IncumbentComplete, CopyHeld, PoolEmptyOutside,
              InHand
<1>4. CASE SqueezeFail
  <2>1. s_dup # Freed /\ s' = s_dup /\ s_dup' = Freed /\ pc' = "insert_eject"
    BY <1>4 DEF SqueezeFail, IInv, Copies
  <2>2. Working'
    BY <2>1 DEF OwnInv, CopyHeld, Working, InHand
  <2> QED
    BY <1>4, <2>1, <2>2 DEF SqueezeFail, OwnInv, IncumbentComplete, CopyHeld, PoolEmptyOutside
<1> QED
  BY <1>1, <1>2, <1>3, <1>4

\* insert_eject until it has tried every position.
LEMMA TryOwned ==
  ASSUME IInv, OwnInv, InsertEject \/ TryInsertion \/ EjectionFound \/ EjectionsExhausted
  PROVE  OwnInv'
<1>1. s \in Solution /\ s.routes \in Seq(Seq(Customer)) /\ s.ejection_pool \in Seq(Customer)
  BY SolutionFields DEF IInv, TypeOK
<1>2. CASE InsertEject
  <2>1. pc = "insert_eject" /\ pc' = "try_insertion" /\ s_dup' = s /\ s' = s
    BY <1>2 DEF InsertEject
  <2>2. Working' /\ CopyHeld'
    BY <2>1 DEF OwnInv, Working, CopyHeld, InHand
  <2> QED
    BY <1>2, <2>1, <2>2 DEF InsertEject, OwnInv, IncumbentComplete, PoolEmptyOutside
<1>3. CASE TryInsertion
  <2>1. pc = "try_insertion" /\ pc' = "ejections" /\ s.w \in Customer
    BY <1>3 DEF TryInsertion, IInv, InHandOK
  <2>2. search.at \in InsertNodes(s.routes)
    <3>1. /\ search.at \in Nat \X Nat /\ Position(s.routes, search.at)
          /\ search.at[1] <= Len(s.routes)
      BY <1>3, <2>1 DEF TryInsertion, IInv, TypeOK, SearchOK
    <3>2. /\ search.at[1] \in 1 .. Len(s.routes)
          /\ search.at[2] \in 1 .. Len(s.routes[search.at[1]]) + 1
          /\ search.at = <<search.at[1], search.at[2]>>
      BY <1>1, <3>1 DEF Position
    <3> QED
      BY <1>1, <3>2, NodeTypes
  <2>3. s' = [s EXCEPT !.routes = Insert(s.routes, search.at, s.w)]
    BY <1>3 DEF TryInsertion
  <2>4. HeldOnce(s.routes, s.ejection_pool, s.w)
    BY <2>1 DEF OwnInv, Working, InHand
  <2>5. HeldOnce(Insert(s.routes, search.at, s.w), s.ejection_pool, NULL)
    BY <1>1, <2>1, <2>2, <2>4, HandToRoute
  <2>6. s'.routes = Insert(s.routes, search.at, s.w) /\ s'.ejection_pool = s.ejection_pool
    BY <1>1, <2>3 DEF Solution
  <2>7. Working'
    BY <2>1, <2>5, <2>6 DEF Working, InHand
  <2> QED
    BY <1>3, <2>1, <2>7 DEF TryInsertion, OwnInv, IncumbentComplete, CopyHeld, PoolEmptyOutside
<1>4. CASE EjectionFound
  BY <1>4 DEF EjectionFound, OwnInv, Working, IncumbentComplete, CopyHeld, PoolEmptyOutside,
              InHand
<1>5. CASE EjectionsExhausted
  <2>1. pc = "ejections" /\ pc' = "try_insertion" /\ s_dup' = s_dup
    BY <1>5 DEF EjectionsExhausted
  <2>2. s' = s_dup
    <3>1. IInv'
      BY <1>5, TryIInv
    <3> QED
      BY <2>1, <3>1 DEF IInv, SearchOK
  <2>3. s_dup # Freed
    BY <2>1 DEF IInv, Copies
  <2>4. Working'
    BY <2>1, <2>2, <2>3 DEF OwnInv, CopyHeld, Working, InHand
  <2> QED
    BY <1>5, <2>1, <2>4
    DEF EjectionsExhausted, OwnInv, IncumbentComplete, CopyHeld, PoolEmptyOutside
<1> QED
  BY <1>2, <1>3, <1>4, <1>5

\* insert_eject: the insertion decided for and its ejections, or giving up.
LEMMA EjectOwned ==
  ASSUME IInv, OwnInv, InsertBest \/ EjectNext \/ EjectionDone \/ InsertEjectFail
  PROVE  OwnInv'
<1>1. /\ s \in Solution /\ s.routes \in Seq(Seq(Customer)) /\ s.ejection_pool \in Seq(Customer)
      /\ s.w \in Customer \cup {NULL}
  BY SolutionFields DEF IInv, TypeOK
<1>2. CASE InsertBest
  <2>1. pc = "try_insertion" /\ pc' = "eject" /\ s.w \in Customer
    BY <1>2 DEF InsertBest, IInv, InHandOK
  <2>2. search.opt_v \in InsertNodes(s.routes)
    BY <1>2, <2>1 DEF InsertBest, IInv, SearchOK
  <2>3. s' = [s EXCEPT !.routes = Insert(s.routes, search.opt_v, s.w), !.w = NULL]
    BY <1>2 DEF InsertBest
  <2>4. Working'
    BY <2>1, <2>2, <2>3, InsertionOwned
  <2> QED
    BY <1>2, <2>1, <2>4 DEF InsertBest, OwnInv, IncumbentComplete, CopyHeld, PoolEmptyOutside
<1>3. CASE EjectNext
  <2> DEFINE c == search.opt_ejection[1]
  <2>1. PICK v \in CustomerNodes(s.routes) :
          /\ s.routes[v[1]][v[2]] = c
          /\ s' = [s EXCEPT !.routes = Eject(s.routes, v), !.ejection_pool = Append(@, c)]
    BY <1>3 DEF EjectNext
  <2>2. pc = "eject" /\ pc' = pc
    BY <1>3 DEF EjectNext
  <2>3. HeldOnce(s.routes, s.ejection_pool, s.w)
    BY <2>2 DEF OwnInv, Working, InHand
  <2>4. HeldOnce(Eject(s.routes, v), Append(s.ejection_pool, s.routes[v[1]][v[2]]), s.w)
    BY <1>1, <2>3, RouteToPool
  <2>5. HeldOnce(Eject(s.routes, v), Append(s.ejection_pool, c), s.w)
    BY <2>1, <2>4
  <2> HIDE DEF c
  <2>6. /\ s'.routes = Eject(s.routes, v) /\ s'.ejection_pool = Append(s.ejection_pool, c)
        /\ s'.w = s.w
    BY <1>1, <2>1 DEF Solution
  <2>7. Working'
    BY <2>2, <2>5, <2>6 DEF Working, InHand
  <2> QED
    BY <1>3, <2>2, <2>7 DEF EjectNext, OwnInv, IncumbentComplete, CopyHeld, PoolEmptyOutside
<1>4. CASE EjectionDone
  BY <1>4 DEF EjectionDone, OwnInv, Working, IncumbentComplete, CopyHeld, PoolEmptyOutside,
              InHand
<1>5. CASE InsertEjectFail
  <2>1. incumbent # Freed /\ s' = incumbent /\ pc' = "done"
    BY <1>5 DEF InsertEjectFail, IInv, Copies
  <2>2. Working' /\ s'.ejection_pool = <<>>
    BY <2>1, IncumbentReturns
  <2> QED
    BY <1>5, <2>2 DEF InsertEjectFail, OwnInv, IncumbentComplete, CopyHeld, PoolEmptyOutside
<1> QED
  BY <1>2, <1>3, <1>4, <1>5

\* perturb and the clock.
LEMMA PerturbOwned ==
  ASSUME IInv, OwnInv, PerturbMove \/ PerturbSkip \/ PerturbDone \/ ClockExpires \/ Returned
  PROVE  OwnInv'
<1>1. CASE PerturbMove
  <2>1. PICK v \in CustomerNodes(s.routes), w \in CustomerNodes(s.routes), type \in Moves :
          /\ modification_applicable(s.routes, type, v, w)
          /\ s' = [s EXCEPT !.routes = modification_apply(s.routes, type, v, w)]
    BY <1>1 DEF PerturbMove, Perturbation
  <2>2. v \in Nodes(s.routes) /\ w \in Nodes(s.routes)
    <3>1. s.routes \in Seq(Seq(Customer))
      BY SolutionFields DEF IInv, TypeOK
    <3>2. CustomerNodes(s.routes) \subseteq Nodes(s.routes)
      BY <3>1 DEF CustomerNodes, Nodes
    <3> QED
      BY <2>1, <3>2
  <2>3. pc = "perturb" /\ pc' = pc
    BY <1>1 DEF PerturbMove
  <2>4. Working'
    BY <2>1, <2>2, <2>3, MoveOwned
  <2> QED
    BY <1>1, <2>3, <2>4 DEF PerturbMove, OwnInv, IncumbentComplete, CopyHeld, PoolEmptyOutside
<1>2. CASE PerturbSkip
  BY <1>2 DEF PerturbSkip, OwnInv, Working, IncumbentComplete, CopyHeld, PoolEmptyOutside,
              InHand
<1>3. CASE PerturbDone
  BY <1>3 DEF PerturbDone, OwnInv, Working, IncumbentComplete, CopyHeld, PoolEmptyOutside,
              InHand, IInv, InHandOK
<1>4. CASE ClockExpires
  BY <1>4 DEF ClockExpires, OwnInv, Working, IncumbentComplete, CopyHeld, PoolEmptyOutside,
              InHand
<1>5. CASE Returned
  BY <1>5 DEF Returned, vars, OwnInv, Working, IncumbentComplete, CopyHeld, PoolEmptyOutside,
              InHand
<1> QED
  BY <1>1, <1>2, <1>3, <1>4, <1>5

\* Every step keeps it.
LEMMA NextOwned == IInv /\ OwnInv /\ [Next]_vars => OwnInv'
<1> SUFFICES ASSUME IInv, OwnInv, [Next]_vars PROVE OwnInv'
  OBVIOUS
<1>1. CASE Next
  BY <1>1, DeleteRouteOwned, InsertFeasibleOwned, SqueezeOwned, TryOwned, EjectOwned,
     PerturbOwned
  DEF Next, Step
<1>2. CASE UNCHANGED vars
  BY <1>2 DEF vars, OwnInv, Working, IncumbentComplete, CopyHeld, PoolEmptyOutside, InHand
<1> QED
  BY <1>1, <1>2

\* No customer is lost or held twice by the working solution, the incumbent or
\* the copy of squeeze and insert_eject, for every instance and every option.
THEOREM Owned == Spec => []Ownership
<1>1. Init => OwnInv
  BY InitOwned
<1>2. IInv /\ OwnInv /\ [Next]_vars => OwnInv'
  BY NextOwned
<1>3. OwnInv => Ownership
  BY DEF OwnInv, Working, IncumbentComplete, CopyHeld, Ownership
<1> QED
  BY <1>1, <1>2, <1>3, Invariant, PTL DEF Spec
-----------------------------------------------------------------------------
\* The routes of a solution are routes of the instance.
LEMMA SolutionRoutes ==
  ASSUME NEW rts \in Seq(Seq(Customer)), NEW x \in 1 .. Len(rts)
  PROVE  /\ RouteOf(Problem, rts[x]) /\ rts[x] \in Seq(Customer)
         /\ \A a, b \in Int : route_penalty(Problem, rts[x], a, b) \in Int
<1>1. RouteOf(Problem, rts[x])
  BY InstanceAssumption DEF RouteOf, Customer
<1>2. TwPenalty(Problem, rts[x]) \in Nat /\ CPenalty(Problem, rts[x]) \in Nat
  BY <1>1, PenaltyTypes
<1>3. \A a, b \in Int : a * b \in Int /\ a + b \in Int
  OBVIOUS
<1>4. \A a, b \in Int : route_penalty(Problem, rts[x], a, b) \in Int
  <2>1. TwPenalty(Problem, rts[x]) \in Int /\ CPenalty(Problem, rts[x]) \in Int
    BY <1>2
  <2> QED
    BY <1>3, <2>1, Zenon DEF route_penalty
<1> QED
  BY <1>1, <1>4

\* The penalties of the routes rts.
PenaltiesOf(q, rts, a, b) ==
  /\ rts \in Seq(Seq(Customer)) /\ a \in Int /\ b \in Int
  /\ q = [x \in 1 .. Len(rts) |-> route_penalty(Problem, rts[x], a, b)]

\* solution_penalty adds up the penalties of the routes.
LEMMA SolutionSums ==
  ASSUME NEW q, NEW rts, NEW a, NEW b, PenaltiesOf(q, rts, a, b)
  PROVE  /\ q \in [1 .. Len(rts) -> Int]
         /\ \E f : SumsUp(f, Len(rts), q) /\ solution_penalty(rts, a, b) = f[Len(rts)]
<1> USE DEF PenaltiesOf
<1> DEFINE n == Len(rts)
           sum[x \in 0 .. n] ==
             IF x = 0 THEN 0 ELSE sum[x - 1] + route_penalty(Problem, rts[x], a, b)
<1>1. n \in Nat /\ q \in [1 .. n -> Int]
  <2>1. \A x \in 1 .. n : route_penalty(Problem, rts[x], a, b) \in Int
    BY SolutionRoutes
  <2> QED
    BY <2>1
<1>2. solution_penalty(rts, a, b) = sum[n]
  BY DEF solution_penalty
<1> HIDE DEF n
<1>3. PICK f : f = [x \in 0 .. n |-> IF x = 0 THEN 0 ELSE f[x - 1] + q[x]]
  BY <1>1, SumsExist
<1>4. f = [x \in 0 .. n |->
             IF x = 0 THEN 0 ELSE f[x - 1] + route_penalty(Problem, rts[x], a, b)]
  <2>1. \A x \in 0 .. n : x = 0 \/ q[x] = route_penalty(Problem, rts[x], a, b)
    BY <1>1 DEF n
  <2> QED
    BY <1>3, <2>1
<1>5. sum = [x \in 0 .. n |->
               IF x = 0 THEN 0 ELSE sum[x - 1] + route_penalty(Problem, rts[x], a, b)]
  BY <1>4
<1> HIDE DEF sum
<1>6. sum[0] = 0
  BY <1>1, <1>5
<1>7. \A x \in 1 .. n : sum[x] = sum[x - 1] + q[x]
  <2>1. \A x \in 1 .. n : x \in 0 .. n /\ x # 0 /\ q[x] = route_penalty(Problem, rts[x], a, b)
    BY <1>1 DEF n
  <2> QED
    BY <1>5, <2>1
<1>8. SumsUp(sum, n, q)
  BY <1>6, <1>7 DEF SumsUp
<1> QED
  BY <1>1, <1>2, <1>8 DEF n

\* The routes before and after a change of route x and route y.
ChangedAt(before, after, x, y) ==
  /\ before \in Seq(Seq(Customer)) /\ after \in Seq(Seq(Customer))
  /\ Len(after) = Len(before) /\ x \in 1 .. Len(before) /\ y \in 1 .. Len(before)
  /\ \A z \in 1 .. Len(before) : z # x /\ z # y => after[z] = before[z]

\* modification_delta of a change of two routes is that of the whole solution.
LEMMA DeltaOfSolution ==
  ASSUME NEW before, NEW after, NEW x, NEW y, ChangedAt(before, after, x, y),
         NEW a \in Int, NEW b \in Int
  PROVE  /\ solution_penalty(before, a, b) \in Int
         /\ solution_penalty(after, a, b)
              = solution_penalty(before, a, b) + Delta(before, after, x, y, a, b)
<1> DEFINE n == Len(before)
<1>1. PICK q : q = [z \in 1 .. n |-> route_penalty(Problem, before[z], a, b)]
  OBVIOUS
<1>2. PICK r : r = [z \in 1 .. n |-> route_penalty(Problem, after[z], a, b)]
  OBVIOUS
<1>3. PenaltiesOf(q, before, a, b) /\ PenaltiesOf(r, after, a, b)
  BY <1>1, <1>2 DEF PenaltiesOf, ChangedAt
<1>4. PICK f : SumsUp(f, n, q) /\ solution_penalty(before, a, b) = f[n]
  BY <1>3, SolutionSums
<1>5. PICK g : SumsUp(g, n, r) /\ solution_penalty(after, a, b) = g[n]
  <2>1. PICK g : SumsUp(g, Len(after), r) /\ solution_penalty(after, a, b) = g[Len(after)]
    BY <1>3, SolutionSums
  <2> QED
    BY <2>1 DEF ChangedAt
<1>6. n \in Nat /\ AgreeBut(q, r, n, x, y)
  <2>1. q \in [1 .. n -> Int] /\ r \in [1 .. n -> Int]
    BY <1>3, SolutionSums DEF ChangedAt
  <2>2. \A z \in 1 .. n : z # x /\ z # y => r[z] = q[z]
    BY <1>1, <1>2 DEF ChangedAt
  <2> QED
    BY <2>1, <2>2 DEF AgreeBut, ChangedAt
<1>7. f[n] \in Int /\ g[n] = f[n] + (r[x] - q[x] + IF x = y THEN 0 ELSE r[y] - q[y])
  BY <1>4, <1>5, <1>6, SumsDiffer
<1>8. Delta(before, after, x, y, a, b) = r[x] - q[x] + IF x = y THEN 0 ELSE r[y] - q[y]
  BY <1>1, <1>2 DEF Delta, ChangedAt
<1> QED
  BY <1>4, <1>5, <1>7, <1>8
-----------------------------------------------------------------------------
\* The two routes of a move of the neighbourhood, and what applying it gives.
LEMMA MoveApplied ==
  ASSUME NEW rts \in Seq(Seq(Customer)), NEW type \in Moves, NEW v \in Nodes(rts),
         NEW w \in Nodes(rts), modification_applicable(rts, type, v, w),
         NEW after, after = modification_apply(rts, type, v, w)
  PROVE  ChangedAt(rts, after, v[1], w[1])
<1>1. v[1] \in 1 .. Len(rts) /\ w[1] \in 1 .. Len(rts)
  BY NodeKinds
<1>2. after \in Seq(Seq(Customer)) /\ Len(after) = Len(rts)
  BY MoveRoutes
<1>3. \A z \in 1 .. Len(rts) :
        z # v[1] /\ z # w[1] => modification_apply(rts, type, v, w)[z] = rts[z]
  BY MoveOthers
<1> QED
  BY <1>1, <1>2, <1>3 DEF ChangedAt

\* What a step of squeeze's loop does.
LEMMA SqueezeMoves ==
  ASSUME IInv, SqueezeMove
  PROVE  \E type \in Moves, v \in Nodes(s.routes), w \in Nodes(s.routes) :
           /\ modification_applicable(s.routes, type, v, w)
           /\ Improves(s.routes, <<type, v, w>>)
           /\ s'.routes = modification_apply(s.routes, type, v, w)
           /\ LET first == Track([routes |-> infeasibles, idx |-> in_infeasibles_idx],
                                 s.routes, s'.routes, v[1])
                  list == IF v[1] = w[1] THEN first
                          ELSE Track(first, s.routes, s'.routes, w[1])
              IN  infeasibles' = list.routes /\ in_infeasibles_idx' = list.idx
<1>1. s \in Solution /\ s.routes \in Seq(Seq(Customer))
  BY SolutionFields DEF IInv, TypeOK
<1>2. PICK x \in InfeasibleRoutes : \E m \in Neighbourhood(s.routes, x) :
        /\ Improves(s.routes, m)
        /\ LET after == modification_apply(s.routes, m[1], m[2], m[3])
               first == Track([routes |-> infeasibles, idx |-> in_infeasibles_idx],
                              s.routes, after, m[2][1])
               list == IF m[2][1] = m[3][1] THEN first
                       ELSE Track(first, s.routes, after, m[3][1])
           IN  /\ s' = [s EXCEPT !.routes = after]
               /\ infeasibles' = list.routes
               /\ in_infeasibles_idx' = list.idx
  BY DEF SqueezeMove
<1>3. x \in DOMAIN s.routes
  BY DEF InfeasibleRoutes
<1>4. PICK m \in Neighbourhood(s.routes, x) :
        /\ Improves(s.routes, m)
        /\ LET after == modification_apply(s.routes, m[1], m[2], m[3])
               first == Track([routes |-> infeasibles, idx |-> in_infeasibles_idx],
                              s.routes, after, m[2][1])
               list == IF m[2][1] = m[3][1] THEN first
                       ELSE Track(first, s.routes, after, m[3][1])
           IN  /\ s' = [s EXCEPT !.routes = after]
               /\ infeasibles' = list.routes
               /\ in_infeasibles_idx' = list.idx
  BY <1>2
<1>5. /\ m[1] \in Moves /\ m[2] \in Nodes(s.routes) /\ m[3] \in Nodes(s.routes)
      /\ modification_applicable(s.routes, m[1], m[2], m[3])
  BY <1>1, <1>3, NeighbourhoodMoves
<1>6. s'.routes = modification_apply(s.routes, m[1], m[2], m[3])
  BY <1>1, <1>4 DEF Solution
<1>7. Improves(s.routes, <<m[1], m[2], m[3]>>)
  BY <1>4 DEF Improves, WeightedDelta
<1> QED
  BY <1>5, <1>6, <1>7, <1>4

(***************************************************************************)
(* SqueezeDescends holds of every step from a state of the invariant.      *)
(***************************************************************************)
LEMMA MoveDescends ==
  ASSUME IInv, SqueezeMove
  PROVE  solution_penalty(s'.routes, alpha, beta)
           <= solution_penalty(s.routes, alpha, beta) - EPS5 * alpha
<1>1. s.routes \in Seq(Seq(Customer))
  BY SolutionFields DEF IInv, TypeOK
<1>2. alpha \in Int /\ beta \in Int /\ EPS5 * alpha \in Int
  <2>1. alpha \in Int /\ EPS5 \in Int /\ beta \in Int
    BY OptionsAssumption DEF IInv, TypeOK
  <2> QED
    BY <2>1
<1>3. PICK type \in Moves, v \in Nodes(s.routes), w \in Nodes(s.routes) :
        /\ modification_applicable(s.routes, type, v, w)
        /\ Improves(s.routes, <<type, v, w>>)
        /\ s'.routes = modification_apply(s.routes, type, v, w)
  BY SqueezeMoves
<1>4. PICK after : after = s'.routes
  OBVIOUS
<1>5. ChangedAt(s.routes, after, v[1], w[1])
  BY <1>1, <1>3, <1>4, MoveApplied
<1>6. PICK d : d = Delta(s.routes, after, v[1], w[1], alpha, beta)
  OBVIOUS
<1>7. d <= -(EPS5 * alpha)
  BY <1>3, <1>4, <1>6 DEF Improves, WeightedDelta, MoveDelta
<1>8. /\ solution_penalty(s.routes, alpha, beta) \in Int
      /\ solution_penalty(after, alpha, beta) = solution_penalty(s.routes, alpha, beta) + d
  BY <1>1, <1>2, <1>5, <1>6, DeltaOfSolution
<1>9. d \in Int
  <2>1. /\ \A a, b \in Int : route_penalty(Problem, s.routes[v[1]], a, b) \in Int
        /\ \A a, b \in Int : route_penalty(Problem, s.routes[w[1]], a, b) \in Int
        /\ \A a, b \in Int : route_penalty(Problem, after[v[1]], a, b) \in Int
        /\ \A a, b \in Int : route_penalty(Problem, after[w[1]], a, b) \in Int
    BY <1>5, SolutionRoutes DEF ChangedAt
  <2> QED
    BY <1>2, <1>6, <2>1 DEF Delta
<1> QED
  BY <1>2, <1>4, <1>7, <1>8, <1>9

\* A move of squeeze lowers the weighted penalty of the whole solution, by
\* EPS5 at least: for every instance, tolerance and weights.
THEOREM SqueezeLowers == Spec => SqueezeDescends
<1> DEFINE Down == pc = "squeeze_loop" /\ pc' = "squeeze_loop" /\ s' # s =>
                     solution_penalty(s'.routes, alpha, beta)
                       <= solution_penalty(s.routes, alpha, beta) - EPS5 * alpha
<1>1. IInv /\ [Next]_vars => [Down]_vars
  <2> SUFFICES ASSUME IInv, Next, pc = "squeeze_loop", pc' = "squeeze_loop", s' # s
               PROVE  SqueezeMove
    BY MoveDescends
  <2> QED
    BY DEF Next, Step, DeleteRoute, StopAtLowerBound, RouteDeleted, DeadlinePassed,
           PopCustomer, InsertFeasible, NoFeasibleInsertion, Squeeze, SqueezeDone,
           SqueezeFail, InsertEject, TryInsertion, EjectionFound, EjectionsExhausted,
           InsertBest, EjectNext, EjectionDone, InsertEjectFail, PerturbMove, PerturbSkip,
           PerturbDone, ClockExpires, Returned, vars
<1> QED
  BY <1>1, Invariant, PTL DEF Spec, SqueezeDescends
-----------------------------------------------------------------------------
\* squeeze's array q and the places idx kept in the routes list the routes of
\* B, each once and at its place.
Lists(q, idx, B) ==
  /\ q \in Seq(B)
  /\ \A x \in B : \E k \in 1 .. Len(q) : q[k] = x
  /\ DOMAIN idx = B
  /\ \A k \in 1 .. Len(q) : idx[q[k]] = k

\* The route at the last place takes the place of x.
LEMMA UnlistRoute ==
  ASSUME NEW q, NEW idx, NEW B, Lists(q, idx, B), NEW x \in B
  PROVE  LET n == Len(q)
             hole == idx[x]
             last == q[n]
         IN  Lists(SubSeq([q EXCEPT ![hole] = last], 1, n - 1),
                   [y \in B \ {x} |-> IF y = last THEN hole ELSE idx[y]], B \ {x})
<1> DEFINE hole == idx[x]
           last == q[Len(q)]
           shorter == SubSeq([q EXCEPT ![hole] = last], 1, Len(q) - 1)
           places == [y \in B \ {x} |-> IF y = last THEN hole ELSE idx[y]]
<1>1. PICK n \in Nat : n = Len(q)
  BY DEF Lists
<1>2. \A k \in 1 .. n : q[k] \in B /\ idx[q[k]] = k
  <2>1. q \in Seq(B)
    BY DEF Lists
  <2>2. \A k \in 1 .. n : q[k] \in B
    BY <1>1, <2>1
  <2> QED
    BY <1>1, <2>2 DEF Lists
<1>3. \A y \in B : \E k \in 1 .. n : q[k] = y
  BY <1>1 DEF Lists
<1>4. hole \in 1 .. n /\ q[hole] = x
  BY <1>2, <1>3
<1>5. n \in 1 .. n /\ last = q[n] /\ last \in B /\ idx[last] = n
  BY <1>1, <1>2, <1>4
<1> HIDE DEF hole, last
<1>6. /\ shorter \in Seq(B) /\ Len(shorter) = n - 1
      /\ \A k \in 1 .. n - 1 : shorter[k] = IF k = hole THEN last ELSE q[k]
  <2>1. q \in Seq(B)
    BY DEF Lists
  <2>2. PICK t : t = [q EXCEPT ![hole] = last]
    OBVIOUS
  <2>3. t \in Seq(B) /\ Len(t) = n /\ \A k \in 1 .. n : t[k] = IF k = hole THEN last ELSE q[k]
    BY <1>1, <1>4, <1>5, <2>1, <2>2, ExceptSeq
  <2>4. n - 1 \in 0 .. Len(t)
    BY <1>5, <2>3
  <2>5. /\ shorter \in Seq(B) /\ Len(shorter) = n - 1
        /\ \A k \in 1 .. n - 1 : shorter[k] = t[k]
    BY <1>1, <2>2, <2>3, <2>4
  <2>6. \A k \in 1 .. n - 1 : k \in 1 .. n
    BY <1>1
  <2> QED
    BY <2>3, <2>5, <2>6
<1> HIDE DEF shorter
<1>7. ASSUME NEW k \in 1 .. n - 1
      PROVE  shorter[k] \in B \ {x} /\ places[shorter[k]] = k
  <2>1. k \in 1 .. n /\ k # n
    BY <1>1
  <2>2. CASE k = hole
    <3>1. shorter[k] = last /\ last # x
      BY <1>5, <1>6, <2>1, <2>2 DEF hole
    <3> QED
      BY <1>5, <2>2, <3>1 DEF hole
  <2>3. CASE k # hole
    <3>1. shorter[k] = q[k] /\ q[k] # x /\ q[k] # last
      BY <1>2, <1>5, <1>6, <2>1, <2>3 DEF hole
    <3> QED
      BY <1>2, <2>1, <3>1
  <2> QED
    BY <2>2, <2>3
<1>8. ASSUME NEW y \in B \ {x}
      PROVE  \E k \in 1 .. n - 1 : shorter[k] = y
  <2>1. PICK k \in 1 .. n : q[k] = y
    BY <1>3
  <2>2. k # hole
    BY <1>4, <2>1
  <2>3. CASE k = n
    <3>1. hole \in 1 .. n - 1 /\ last = y
      BY <1>1, <1>4, <1>5, <2>1, <2>2, <2>3
    <3> QED
      BY <1>6, <3>1
  <2>4. CASE k # n
    <3>1. k \in 1 .. n - 1
      BY <1>1, <2>4
    <3> QED
      BY <1>6, <2>1, <2>2, <3>1
  <2> QED
    BY <2>3, <2>4
<1>9. shorter \in Seq(B \ {x})
  <2>1. shorter = [k \in 1 .. n - 1 |-> shorter[k]] /\ n - 1 \in Nat
    BY <1>5, <1>6
  <2>2. \A k \in 1 .. n - 1 : shorter[k] \in B \ {x}
    BY <1>7
  <2>3. shorter \in [1 .. n - 1 -> B \ {x}]
    BY <2>1, <2>2, Zenon
  <2> QED
    BY <2>1, <2>3
<1>10. DOMAIN places = B \ {x}
  OBVIOUS
<1> HIDE DEF places
<1> QED
  BY <1>6, <1>7, <1>8, <1>9, <1>10 DEF Lists, shorter, places, hole, last

\* Route x goes to the end of the list.
LEMMA ListRoute ==
  ASSUME NEW q, NEW idx, NEW B, Lists(q, idx, B), NEW x, x \notin B
  PROVE  Lists(Append(q, x), [y \in B \cup {x} |-> IF y = x THEN Len(q) + 1 ELSE idx[y]],
               B \cup {x})
<1> DEFINE longer == Append(q, x)
           places == [y \in B \cup {x} |-> IF y = x THEN Len(q) + 1 ELSE idx[y]]
<1>1. PICK n \in Nat : n = Len(q)
  BY DEF Lists
<1>2. \A k \in 1 .. n : q[k] \in B /\ idx[q[k]] = k
  <2>1. q \in Seq(B)
    BY DEF Lists
  <2>2. \A k \in 1 .. n : q[k] \in B
    BY <1>1, <2>1
  <2> QED
    BY <1>1, <2>2 DEF Lists
<1>3. \A y \in B : \E k \in 1 .. n : q[k] = y
  BY <1>1 DEF Lists
<1>4. /\ longer \in Seq(B \cup {x}) /\ Len(longer) = n + 1 /\ longer[n + 1] = x
      /\ \A k \in 1 .. n : longer[k] = q[k]
  <2>1. q \in Seq(B \cup {x}) /\ x \in B \cup {x}
    BY DEF Lists
  <2> QED
    BY <1>1, <2>1
<1> HIDE DEF longer
<1>5. ASSUME NEW k \in 1 .. n + 1
      PROVE  places[longer[k]] = k
  <2>1. CASE k = n + 1
    BY <1>1, <1>4, <2>1
  <2>2. CASE k # n + 1
    <3>1. k \in 1 .. n
      BY <1>1, <2>2
    <3>2. longer[k] = q[k] /\ q[k] # x /\ q[k] \in B
      BY <1>2, <1>4, <3>1
    <3> QED
      BY <1>2, <3>1, <3>2
  <2> QED
    BY <2>1, <2>2
<1>6. ASSUME NEW y \in B \cup {x}
      PROVE  \E k \in 1 .. n + 1 : longer[k] = y
  <2>1. CASE y = x
    BY <1>1, <1>4, <2>1
  <2>2. CASE y \in B
    <3>1. PICK k \in 1 .. n : q[k] = y
      BY <1>3, <2>2
    <3>2. k \in 1 .. n + 1
      BY <1>1
    <3> QED
      BY <1>4, <3>1, <3>2
  <2> QED
    BY <2>1, <2>2
<1>7. DOMAIN places = B \cup {x}
  OBVIOUS
<1> HIDE DEF places
<1> QED
  BY <1>4, <1>5, <1>6, <1>7 DEF Lists, longer, places

\* The bookkeeping for a route keeps the list exact.
LEMMA TrackRoute ==
  ASSUME NEW list, NEW B, Lists(list.routes, list.idx, B), NEW before, NEW after, NEW x,
         x \in B <=> ~Feasible(before[x]), NEW new, new = Track(list, before, after, x)
  PROVE  Lists(new.routes, new.idx, IF Feasible(after[x]) THEN B \ {x} ELSE B \cup {x})
<1>1. DOMAIN list.idx = B
  BY DEF Lists
<1>2. CASE ~Feasible(before[x]) /\ Feasible(after[x])
  <2> DEFINE n == Len(list.routes)
             hole == list.idx[x]
             last == list.routes[n]
             shorter == SubSeq([list.routes EXCEPT ![hole] = last], 1, n - 1)
             places == [y \in B \ {x} |-> IF y = last THEN hole ELSE list.idx[y]]
  <2>1. new = [routes |-> shorter, idx |-> places]
    BY <1>1, <1>2 DEF Track
  <2>2. Lists(shorter, places, B \ {x})
    BY <1>2, UnlistRoute
  <2> HIDE DEF shorter, places
  <2>3. new.routes = shorter /\ new.idx = places
    BY <2>1
  <2> QED
    BY <1>2, <2>2, <2>3
<1>3. CASE Feasible(before[x]) /\ ~Feasible(after[x])
  <2> DEFINE longer == Append(list.routes, x)
             places == [y \in B \cup {x} |->
                          IF y = x THEN Len(list.routes) + 1 ELSE list.idx[y]]
  <2>1. new = [routes |-> longer, idx |-> places]
    BY <1>1, <1>3 DEF Track
  <2>2. Lists(longer, places, B \cup {x})
    BY <1>3, ListRoute
  <2> HIDE DEF longer, places
  <2>3. new.routes = longer /\ new.idx = places
    BY <2>1
  <2> QED
    BY <1>3, <2>2, <2>3
<1>4. CASE Feasible(before[x]) <=> Feasible(after[x])
  <2>1. new = list
    BY <1>4 DEF Track
  <2>2. B = IF Feasible(after[x]) THEN B \ {x} ELSE B \cup {x}
    BY <1>4
  <2> QED
    BY <2>1, <2>2
<1> QED
  BY <1>2, <1>3, <1>4

\* Whatever the tolerance, the array has routes of the solution.
Listed == pc = "squeeze_loop" => infeasibles \in Seq(DOMAIN s.routes)

\* Tracking a route keeps the array one of routes of the solution.
LEMMA TrackListed ==
  ASSUME NEW list, NEW B, list.routes \in Seq(B), NEW before, NEW after, NEW x \in B
  PROVE  Track(list, before, after, x).routes \in Seq(B)
<1> DEFINE n == Len(list.routes)
           hole == list.idx[x]
           last == list.routes[n]
           shorter == SubSeq([list.routes EXCEPT ![hole] = last], 1, n - 1)
<1>1. shorter \in Seq(B)
  <2>1. PICK q \in Seq(B) : q = list.routes
    OBVIOUS
  <2>2. n \in Nat /\ n = Len(q)
    BY <2>1
  <2>3. PICK t : t = [q EXCEPT ![hole] = last]
    OBVIOUS
  <2>4. t \in Seq(B) /\ Len(t) = n
    <3>1. ASSUME NEW k \in 1 .. n PROVE last \in B /\ q[k] \in B
      <4>1. n \in 1 .. n
        BY <2>2
      <4> QED
        BY <2>1, <2>2, <4>1
    <3>2. DOMAIN q = 1 .. n
      BY <2>2
    <3> HIDE DEF n, hole, last
    <3>3. t = [k \in 1 .. n |-> IF k = hole THEN last ELSE q[k]]
      BY <2>3, <3>2
    <3>4. t \in [1 .. n -> B]
      BY <3>1, <3>3
    <3> QED
      BY <2>2, <3>4
  <2>5. SubSeq(t, 1, n - 1) \in Seq(B)
    BY <2>2, <2>4
  <2> QED
    BY <2>1, <2>3, <2>5
<1>2. Append(list.routes, x) \in Seq(B)
  OBVIOUS
<1> HIDE DEF shorter
<1>3. Track(list, before, after, x).routes \in {shorter, Append(list.routes, x), list.routes}
  BY DEF Track, shorter
<1> QED
  BY <1>1, <1>2, <1>3

\* Every step keeps it.
LEMMA NextListed == IInv /\ Listed /\ [Next]_vars => Listed'
<1> SUFFICES ASSUME IInv, Listed, [Next]_vars, pc' = "squeeze_loop"
             PROVE  infeasibles' \in Seq(DOMAIN s'.routes)
  BY DEF Listed
<1>1. s \in Solution /\ s.routes \in Seq(Seq(Customer))
  BY SolutionFields DEF IInv, TypeOK
<1>2. CASE Squeeze
  <2>1. PICK v \in InsertNodes(s.routes) :
          /\ s' = [s EXCEPT !.routes = Insert(s.routes, v, s.w), !.w = NULL]
          /\ infeasibles' = <<v[1]>>
    BY <1>2 DEF Squeeze
  <2>2. s.w \in Customer
    BY <1>2 DEF IInv, InHandOK, Squeeze
  <2>3. /\ s'.routes = Insert(s.routes, v, s.w) /\ s'.routes \in Seq(Seq(Customer))
        /\ Len(s'.routes) = Len(s.routes)
    BY <1>1, <2>1, <2>2, InsertSolution DEF Solution
  <2>4. v[1] \in DOMAIN s'.routes
    BY <1>1, <2>3, NodeTypes
  <2> QED
    BY <2>1, <2>4
<1>3. CASE SqueezeMove
  <2>1. PICK type \in Moves, v \in Nodes(s.routes), w \in Nodes(s.routes) :
          /\ modification_applicable(s.routes, type, v, w)
          /\ s'.routes = modification_apply(s.routes, type, v, w)
          /\ LET first == Track([routes |-> infeasibles, idx |-> in_infeasibles_idx],
                                s.routes, s'.routes, v[1])
                 list == IF v[1] = w[1] THEN first
                         ELSE Track(first, s.routes, s'.routes, w[1])
             IN  infeasibles' = list.routes
    BY <1>3, SqueezeMoves
  <2>2. ChangedAt(s.routes, s'.routes, v[1], w[1])
    BY <1>1, <2>1, MoveApplied
  <2>3. /\ DOMAIN s'.routes = DOMAIN s.routes
        /\ v[1] \in DOMAIN s.routes /\ w[1] \in DOMAIN s.routes
    BY <2>2 DEF ChangedAt
  <2>4. PICK list : list = [routes |-> infeasibles, idx |-> in_infeasibles_idx]
    OBVIOUS
  <2>5. list.routes \in Seq(DOMAIN s.routes)
    BY <1>3, <2>4 DEF Listed, SqueezeMove
  <2>6. PICK first : first = Track(list, s.routes, s'.routes, v[1])
    OBVIOUS
  <2>7. first.routes \in Seq(DOMAIN s.routes)
    BY <2>3, <2>5, <2>6, TrackListed
  <2>8. Track(first, s.routes, s'.routes, w[1]).routes \in Seq(DOMAIN s.routes)
    BY <2>3, <2>7, TrackListed
  <2>9. infeasibles' = (IF v[1] = w[1] THEN first
                        ELSE Track(first, s.routes, s'.routes, w[1])).routes
    BY <2>1, <2>4, <2>6
  <2> QED
    BY <2>3, <2>7, <2>8, <2>9
<1>4. CASE UNCHANGED <<pc, s, infeasibles>>
  BY <1>4 DEF Listed
<1>5. Squeeze \/ SqueezeMove \/ UNCHANGED <<pc, s, infeasibles>>
  BY DEF Next, Step, DeleteRoute, StopAtLowerBound, RouteDeleted, DeadlinePassed,
         PopCustomer, InsertFeasible, NoFeasibleInsertion, SqueezeDone,
         SqueezeFail, InsertEject, TryInsertion, EjectionFound, EjectionsExhausted,
         InsertBest, EjectNext, EjectionDone, InsertEjectFail, PerturbMove, PerturbSkip,
         PerturbDone, ClockExpires, Returned, vars
<1> QED
  BY <1>2, <1>3, <1>4, <1>5

\* The assertion on modification_applicable after each yield of the generator
\* never fails, for every instance, tolerance and choice of near customers.
THEOREM MovesStayApplicable == Spec => []MovesApplicable
<1>1. Init => Listed
  BY DEF Init, Listed
<1>2. IInv /\ Listed /\ [Next]_vars => Listed'
  BY NextListed
<1>3. IInv /\ Listed => MovesApplicable
  <2> SUFFICES ASSUME IInv, Listed, pc = "squeeze_loop", NEW k \in DOMAIN infeasibles,
                      NEW m \in Neighbourhood(s.routes, infeasibles[k])
               PROVE  modification_applicable(s.routes, m[1], m[2], m[3])
    BY DEF MovesApplicable
  <2>1. s.routes \in Seq(Seq(Customer))
    BY SolutionFields DEF IInv, TypeOK
  <2>2. infeasibles[k] \in DOMAIN s.routes
    BY DEF Listed
  <2> QED
    BY <2>1, <2>2, NeighbourhoodMoves
<1> QED
  BY <1>1, <1>2, <1>3, Invariant, PTL DEF Spec
-----------------------------------------------------------------------------
(***************************************************************************)
(* Feasibility, where the tolerance is below the resolution of the data    *)
(* (EPS5 = 1, so that less than EPS5 means none): for larger tolerances    *)
(* FeasibleBetweenPhases is violated, insertions within it add up.         *)
(***************************************************************************)

\* No penalty is left in route r.
Free(r) == TwPenalty(Problem, r) = 0 /\ CPenalty(Problem, r) = 0

\* Feasible means free of penalty.
LEMMA FeasibleFree ==
  ASSUME EPS5 = 1, NEW r \in Seq(Customer)
  PROVE  /\ Feasible(r) <=> Free(r)
         /\ Feasible(r) <=> route_penalty(Problem, r, 1, 1) = 0
         /\ route_penalty(Problem, r, 1, 1) \in Nat
<1>1. RouteOf(Problem, r)
  BY InstanceAssumption DEF RouteOf, Customer
<1>2. /\ route_feasible(Problem, r, 1) <=> Free(r)
      /\ route_feasible(Problem, r, 1) <=> route_penalty(Problem, r, 1, 1) <= 0
      /\ route_penalty(Problem, r, 1, 1) \in Nat
  BY <1>1, ExactFeasibility DEF Free
<1> QED
  BY <1>2 DEF Feasible

\* There is no place for the customer in hand.
NoRoom(sol) ==
  \A v \in InsertNodes(sol.routes) : ~Feasible(Insert(sol.routes, v, sol.w)[v[1]])

\* An insertion changes its own route alone.
LEMMA InsertChanges ==
  ASSUME NEW rts \in Seq(Seq(Customer)), NEW v \in InsertNodes(rts), NEW c \in Customer
  PROVE  ChangedAt(rts, Insert(rts, v, c), v[1], v[1])
<1>1. /\ Insert(rts, v, c) \in Seq(Seq(Customer)) /\ Len(Insert(rts, v, c)) = Len(rts)
      /\ \A x \in 1 .. Len(rts) : x # v[1] => Insert(rts, v, c)[x] = rts[x]
  BY InsertRoutes
<1>2. v[1] \in 1 .. Len(rts)
  BY NodeTypes
<1> QED
  BY <1>1, <1>2 DEF ChangedAt

\* A change without delta of feasible routes leaves all feasible, and a change
\* of one that has a delta does not.
LEMMA DeltaFeasible ==
  ASSUME EPS5 = 1, NEW before, NEW after, NEW x, NEW y, ChangedAt(before, after, x, y),
         solution_feasible(before)
  PROVE  /\ Delta(before, after, x, y, 1, 1) < EPS5 => solution_feasible(after)
         /\ x = y /\ ~(Delta(before, after, x, y, 1, 1) < EPS5) => ~Feasible(after[x])
<1> DEFINE pen(r) == route_penalty(Problem, r, 1, 1)
<1>1. /\ x \in 1 .. Len(before) /\ y \in 1 .. Len(before)
      /\ DOMAIN before = 1 .. Len(before) /\ DOMAIN after = 1 .. Len(before)
      /\ \A z \in 1 .. Len(before) : before[z] \in Seq(Customer) /\ after[z] \in Seq(Customer)
  BY DEF ChangedAt
<1>2. \A z \in 1 .. Len(before) : Feasible(before[z])
  BY <1>1 DEF solution_feasible
<1>3. pen(before[x]) = 0 /\ pen(before[y]) = 0
  BY <1>1, <1>2, FeasibleFree
<1>4. /\ pen(after[x]) \in Nat /\ (Feasible(after[x]) <=> pen(after[x]) = 0)
      /\ pen(after[y]) \in Nat /\ (Feasible(after[y]) <=> pen(after[y]) = 0)
  BY <1>1, FeasibleFree
<1>5. Delta(before, after, x, y, 1, 1) = pen(after[x]) + IF x = y THEN 0 ELSE pen(after[y])
  <2> HIDE DEF pen
  <2>1. Delta(before, after, x, y, 1, 1) = pen(after[x]) - pen(before[x])
           + IF x = y THEN 0 ELSE pen(after[y]) - pen(before[y])
    BY DEF Delta, pen
  <2> QED
    BY <1>3, <1>4, <2>1
<1> HIDE DEF pen
<1>6. ASSUME Delta(before, after, x, y, 1, 1) < EPS5 PROVE solution_feasible(after)
  <2>1. Feasible(after[x]) /\ Feasible(after[y])
    <3>1. CASE x = y
      BY <1>4, <1>5, <1>6, <3>1
    <3>2. CASE x # y
      BY <1>4, <1>5, <1>6, <3>2
    <3> QED
      BY <3>1, <3>2
  <2>2. \A z \in 1 .. Len(before) : z # x /\ z # y => after[z] = before[z]
    BY DEF ChangedAt
  <2> QED
    BY <1>1, <1>2, <2>1, <2>2 DEF solution_feasible
<1>7. ASSUME x = y, ~(Delta(before, after, x, y, 1, 1) < EPS5) PROVE ~Feasible(after[x])
  BY <1>4, <1>5, <1>7
<1> QED
  BY <1>6, <1>7
-----------------------------------------------------------------------------
\* The ejections of r with their indexes, whatever their number.
FeasiblyEjects(r, cs) ==
  \E n \in Nat : \E x \in [1 .. n -> 1 .. Len(r)] :
    Picked(r, x, n) /\ cs = Ejected(r, x) /\ Free(Rest(r, x))

\* The tuples the search of ejection.c goes through.
LEMMA EjectionsPicked ==
  ASSUME NEW r \in Seq(Customer)
  PROVE  /\ \A x \in Ejections(r, k_max) :
              \E n \in Nat : x \in [1 .. n -> 1 .. Len(r)] /\ Picked(r, x, n) /\ n # 0
         /\ \A i \in 1 .. Len(r) : k_max > 0 => [k \in 1 .. 1 |-> i] \in Ejections(r, k_max)
<1>1. k_max \in Nat /\ Len(r) \in Nat /\ MIN(k_max, Len(r)) \in Nat
  <2>1. k_max \in Nat /\ Len(r) \in Nat
    BY OptionsAssumption
  <2> QED
    BY <2>1 DEF MIN
<1>2. ASSUME NEW x \in Ejections(r, k_max)
      PROVE  \E n \in Nat : x \in [1 .. n -> 1 .. Len(r)] /\ Picked(r, x, n) /\ n # 0
  <2>1. PICK n \in 1 .. MIN(k_max, Len(r)) :
          x \in [1 .. n -> 1 .. Len(r)] /\ \A i, j \in 1 .. n : i < j => x[i] < x[j]
    BY DEF Ejections
  <2>2. n \in Nat /\ n # 0
    BY <1>1
  <2> QED
    BY <2>1, <2>2 DEF Picked
<1>3. ASSUME NEW i \in 1 .. Len(r), k_max > 0
      PROVE  [k \in 1 .. 1 |-> i] \in Ejections(r, k_max)
  <2>1. 1 \in 1 .. MIN(k_max, Len(r))
    BY <1>1, <1>3 DEF MIN
  <2>2. PICK x : x = [k \in 1 .. 1 |-> i]
    OBVIOUS
  <2>3. x \in [1 .. 1 -> 1 .. Len(r)] /\ \A a, b \in 1 .. 1 : a < b => x[a] < x[b]
    BY <2>2
  <2>4. x \in {u \in [1 .. 1 -> 1 .. Len(r)] : \A a, b \in 1 .. 1 : a < b => u[a] < u[b]}
    BY <2>3
  <2> QED
    BY <2>1, <2>2, <2>4 DEF Ejections
<1> QED
  BY <1>2, <1>3

\* An ejection whose first customer has been taken out is one of what is left.
LEMMA EjectFirst ==
  ASSUME NEW r \in Seq(Customer), NEW cs, FeasiblyEjects(r, cs), cs # <<>>
  PROVE  \E i \in 1 .. Len(r) : cs[1] = r[i] /\ FeasiblyEjects(RemoveIndex(r, i), Tail(cs))
<1>1. PICK n \in Nat : \E x \in [1 .. n -> 1 .. Len(r)] :
        Picked(r, x, n) /\ cs = Ejected(r, x) /\ Free(Rest(r, x))
  BY DEF FeasiblyEjects
<1>2. PICK x \in [1 .. n -> 1 .. Len(r)] :
        Picked(r, x, n) /\ cs = Ejected(r, x) /\ Free(Rest(r, x))
  BY <1>1
<1>3. cs = [k \in 1 .. n |-> r[x[k]]] /\ cs \in Seq(Customer) /\ Len(cs) = n
  <2>1. cs = [k \in 1 .. n |-> r[x[k]]]
    BY <1>2 DEF Ejected
  <2>2. cs \in [1 .. n -> Customer]
    BY <2>1
  <2> QED
    BY <2>1, <2>2
<1>4. n # 0 /\ 1 \in 1 .. n /\ n - 1 \in Nat
  BY <1>3
<1>5. PICK y : y = [k \in 1 .. n - 1 |-> x[k + 1] - 1]
  OBVIOUS
<1>6. /\ x[1] \in 1 .. Len(r)
      /\ Picked(RemoveIndex(r, x[1]), y, n - 1)
      /\ Rest(RemoveIndex(r, x[1]), y) = Rest(r, x)
      /\ \A k \in 1 .. n - 1 : RemoveIndex(r, x[1])[y[k]] = r[x[k + 1]]
  <2>1. Shifted(y, x, n)
    BY <1>5 DEF Shifted
  <2>2. Picked(r, x, n) /\ n # 0
    BY <1>2, <1>4
  <2>3. x[1] \in 1 .. Len(r)
    BY <2>1, <2>2, RestFirst
  <2>4. Picked(RemoveIndex(r, x[1]), y, n - 1)
    BY <2>1, <2>2, RestFirst
  <2>5. Rest(RemoveIndex(r, x[1]), y) = Rest(r, x)
    BY <2>1, <2>2, RestFirst
  <2>6. StaysPicked(RemoveIndex(r, x[1]), y, r, x, n)
    BY <2>1, <2>2, RestFirst
  <2> QED
    BY <2>3, <2>4, <2>5, <2>6 DEF StaysPicked
<1>7. PICK q : q = RemoveIndex(r, x[1])
  OBVIOUS
<1>8. Tail(cs) = Ejected(q, y)
  <2>1. Tail(cs) = [k \in 1 .. n - 1 |-> cs[k + 1]]
    BY <1>3, <1>4
  <2>2. \A k \in 1 .. n - 1 : k + 1 \in 1 .. n
    BY <1>4
  <2>3. \A k \in 1 .. n - 1 : cs[k + 1] = q[y[k]]
    BY <1>3, <1>6, <1>7, <2>2
  <2>4. DOMAIN y = 1 .. n - 1
    BY <1>5
  <2> QED
    BY <2>1, <2>3, <2>4 DEF Ejected
<1>9. FeasiblyEjects(q, Tail(cs))
  <2>1. y \in [1 .. n - 1 -> 1 .. Len(q)]
    BY <1>6, <1>7 DEF Picked
  <2> QED
    BY <1>2, <1>4, <1>6, <1>7, <1>8, <2>1 DEF FeasiblyEjects
<1>10. cs[1] = r[x[1]]
  BY <1>3, <1>4
<1> QED
  BY <1>6, <1>7, <1>9, <1>10

\* When nothing is left to be ejected, nothing is too late or too much.
LEMMA EjectedAll ==
  ASSUME NEW r \in Seq(Customer), FeasiblyEjects(r, <<>>)
  PROVE  Free(r)
<1>1. PICK n \in Nat : \E x \in [1 .. n -> 1 .. Len(r)] :
        Picked(r, x, n) /\ <<>> = Ejected(r, x) /\ Free(Rest(r, x))
  BY DEF FeasiblyEjects
<1>2. PICK x \in [1 .. n -> 1 .. Len(r)] :
        Picked(r, x, n) /\ <<>> = Ejected(r, x) /\ Free(Rest(r, x))
  BY <1>1
<1>3. n = 0
  <2>1. DOMAIN <<>> = 1 .. n
    BY <1>2 DEF Ejected
  <2>2. DOMAIN <<>> = {}
    OBVIOUS
  <2> QED
    BY <2>1, <2>2
<1> QED
  BY <1>2, <1>3, RestSmall
-----------------------------------------------------------------------------
(***************************************************************************)
(* The inductive invariant of feasibility.  What a phase asserts at its    *)
(* exit rests on what an earlier one left: squeeze on insert_feasible      *)
(* having found no room, so that its array starts complete; a single       *)
(* ejection on the copy being feasible; the ejections made one by one on   *)
(* what is left of the best ejection.                                      *)
(***************************************************************************)
WorkingFeasible ==
  pc \notin {"squeeze_loop", "ejections", "eject"} => solution_feasible(s.routes)

CopiesFeasible == solution_feasible(incumbent.routes) /\ solution_feasible(s_dup.routes)

NoRoomLeft ==
  /\ pc \in {"squeeze", "insert_eject"} => NoRoom(s)
  /\ pc \in {"squeeze_loop", "try_insertion", "ejections"} => NoRoom(s_dup)

Broken == {x \in DOMAIN s.routes : ~Feasible(s.routes[x])}

InfeasiblesListed ==
  pc = "squeeze_loop" => Lists(infeasibles, in_infeasibles_idx, Broken)

\* The best result of insert_eject; there is one as soon as a position is done.
BestOK ==
  /\ pc = "insert_eject" => s.routes # <<>>
  /\ pc \in {"try_insertion", "ejections"} =>
       /\ s_dup.routes # <<>>
       /\ search.opt_ejection = <<>> =>
            search.p_best = Infinity /\ (k_max > 0 => search.at = <<1, 1>>)
       /\ search.opt_ejection # <<>> =>
            FeasiblyEjects(Insert(s_dup.routes, search.opt_v, s_dup.w)[search.opt_v[1]],
                           search.opt_ejection)

EjectOK ==
  pc = "eject" =>
    /\ search.opt_v[1] \in DOMAIN s.routes
    /\ \A x \in DOMAIN s.routes : x # search.opt_v[1] => Feasible(s.routes[x])
    /\ FeasiblyEjects(s.routes[search.opt_v[1]], search.opt_ejection)

FInv ==
  /\ WorkingFeasible /\ CopiesFeasible /\ NoRoomLeft
  /\ InfeasiblesListed /\ BestOK /\ EjectOK

\* A destroyed solution has no infeasible route.
LEMMA FreedFeasible == solution_feasible(Freed.routes)
<1>1. Freed.routes = <<>> /\ DOMAIN <<>> = {}
  BY DEF Freed
<1> QED
  BY <1>1 DEF solution_feasible

\* The first state satisfies the invariant.
LEMMA InitFeasible == Init => FInv
<1> SUFFICES ASSUME Init PROVE FInv
  OBVIOUS
<1>1. PICK rts \in InitialSolutions :
        s = [routes |-> rts, ejection_pool |-> <<>>, w |-> NULL]
  BY DEF Init
<1>2. solution_feasible(s.routes)
  <2>1. s.routes = rts
    BY <1>1
  <2>2. \A x \in DOMAIN rts : Feasible(rts[x])
    BY InitialAssumption
  <2> QED
    BY <2>1, <2>2 DEF solution_feasible
<1>3. CopiesFeasible
  BY FreedFeasible DEF Init, CopiesFeasible
<1> QED
  BY <1>2, <1>3 DEF Init, FInv, WorkingFeasible, NoRoomLeft, InfeasiblesListed, BestOK, EjectOK

\* eama_solver_solve and delete_route: routes are removed, or copied back.
LEMMA DeleteRouteFeasible ==
  ASSUME IInv, FInv,
         DeleteRoute \/ StopAtLowerBound \/ RouteDeleted \/ DeadlinePassed \/ PopCustomer
  PROVE  FInv'
<1>1. s \in Solution /\ s.routes \in Seq(Seq(Customer))
  BY SolutionFields DEF IInv, TypeOK
<1>2. /\ pc \in {"solve", "delete_route"}
      /\ pc' \in {"delete_route", "done", "solve", "insert_feasible"}
      /\ s_dup' = s_dup
  BY DEF DeleteRoute, StopAtLowerBound, RouteDeleted, DeadlinePassed, PopCustomer
<1>3. solution_feasible(s.routes)
  BY <1>2 DEF FInv, WorkingFeasible
<1>4. solution_feasible(s'.routes)
  <2>1. CASE DeleteRoute
    <3>1. PICK x \in DOMAIN s.routes : s' = Eliminate(s, x)
      BY <2>1 DEF DeleteRoute
    <3> DEFINE n == Len(s.routes)
    <3>2. n \in Nat /\ DOMAIN s.routes = 1 .. n /\ n \in 1 .. n
      BY <1>1
    <3>3. s'.routes = [y \in 1 .. n - 1 |-> IF y = x THEN s.routes[n] ELSE s.routes[y]]
      BY <1>1, <3>1 DEF Eliminate, Solution
    <3>4. \A y \in 1 .. n - 1 : y \in 1 .. n
      BY <3>2
    <3> HIDE DEF n
    <3> QED
      BY <1>3, <3>2, <3>3, <3>4 DEF solution_feasible
  <2>2. CASE DeadlinePassed
    BY <2>2 DEF DeadlinePassed, FInv, CopiesFeasible
  <2>3. CASE PopCustomer
    <3>1. s'.routes = s.routes
      BY <1>1, <2>3 DEF PopCustomer, Solution
    <3> QED
      BY <1>3, <3>1
  <2>4. CASE StopAtLowerBound \/ RouteDeleted
    BY <1>3, <2>4 DEF StopAtLowerBound, RouteDeleted
  <2> QED
    BY <2>1, <2>2, <2>3, <2>4
<1>5. solution_feasible(incumbent'.routes)
  <2>1. incumbent' \in {s, incumbent, Freed}
    BY DEF DeleteRoute, StopAtLowerBound, RouteDeleted, DeadlinePassed, PopCustomer
  <2> QED
    BY <1>3, <2>1, FreedFeasible DEF FInv, CopiesFeasible
<1>6. CopiesFeasible'
  BY <1>2, <1>5 DEF FInv, CopiesFeasible
<1> QED
  BY <1>2, <1>4, <1>6
  DEF FInv, WorkingFeasible, NoRoomLeft, InfeasiblesListed, BestOK, EjectOK

\* insert_feasible draws a position without delta, or finds no room.
LEMMA InsertFeasibleFeasible ==
  ASSUME EPS5 = 1, IInv, FInv, InsertFeasible \/ NoFeasibleInsertion
  PROVE  FInv'
<1>1. s \in Solution /\ s.routes \in Seq(Seq(Customer))
  BY SolutionFields DEF IInv, TypeOK
<1>2. /\ pc = "insert_feasible" /\ s_dup' = s_dup /\ incumbent' = incumbent
      /\ s.w \in Customer
  BY DEF InsertFeasible, NoFeasibleInsertion, IInv, InHandOK
<1>3. solution_feasible(s.routes) /\ CopiesFeasible'
  BY <1>2 DEF FInv, WorkingFeasible, CopiesFeasible
<1>4. CASE InsertFeasible
  <2>1. PICK v \in InsertNodes(s.routes) :
          /\ FeasibleInsertion(s, v)
          /\ s' = [s EXCEPT !.routes = Insert(s.routes, v, s.w), !.w = NULL]
    BY <1>4 DEF InsertFeasible
  <2>2. s'.routes = Insert(s.routes, v, s.w)
    BY <1>1, <2>1 DEF Solution
  <2>3. ChangedAt(s.routes, s'.routes, v[1], v[1])
    BY <1>1, <1>2, <2>2, InsertChanges
  <2>4. Delta(s.routes, s'.routes, v[1], v[1], 1, 1) < EPS5
    BY <2>1, <2>2 DEF FeasibleInsertion, InsertDelta
  <2>5. solution_feasible(s'.routes)
    BY <1>3, <2>3, <2>4, DeltaFeasible
  <2>6. pc' = "delete_route"
    BY <1>4 DEF InsertFeasible
  <2> QED
    BY <1>3, <2>5, <2>6
    DEF FInv, WorkingFeasible, NoRoomLeft, InfeasiblesListed, BestOK, EjectOK
<1>5. CASE NoFeasibleInsertion
  <2>1. s' = s /\ pc' = "squeeze" /\ \A v \in InsertNodes(s.routes) : ~FeasibleInsertion(s, v)
    BY <1>5 DEF NoFeasibleInsertion
  <2>2. ASSUME NEW v \in InsertNodes(s.routes)
        PROVE  ~Feasible(Insert(s.routes, v, s.w)[v[1]])
    <3>1. PICK after : after = Insert(s.routes, v, s.w)
      OBVIOUS
    <3>2. ChangedAt(s.routes, after, v[1], v[1])
      BY <1>1, <1>2, <3>1, InsertChanges
    <3>3. ~(Delta(s.routes, after, v[1], v[1], 1, 1) < EPS5)
      BY <2>1, <3>1 DEF FeasibleInsertion, InsertDelta
    <3> QED
      BY <1>3, <3>1, <3>2, <3>3, DeltaFeasible
  <2>3. NoRoom(s)
    BY <2>2 DEF NoRoom
  <2> QED
    BY <1>3, <2>1, <2>3
    DEF FInv, WorkingFeasible, NoRoomLeft, InfeasiblesListed, BestOK, EjectOK
<1> QED
  BY <1>4, <1>5

\* squeeze's first insertion breaks its route, whichever it is, and no other.
LEMMA SqueezeListed ==
  ASSUME IInv, FInv, Squeeze
  PROVE  InfeasiblesListed'
<1>1. s \in Solution /\ s.routes \in Seq(Seq(Customer))
  BY SolutionFields DEF IInv, TypeOK
<1>2. s.w \in Customer /\ solution_feasible(s.routes) /\ NoRoom(s)
  BY DEF Squeeze, IInv, InHandOK, FInv, WorkingFeasible, NoRoomLeft
<1>3. PICK v \in InsertNodes(s.routes) :
        /\ s' = [s EXCEPT !.routes = Insert(s.routes, v, s.w), !.w = NULL]
        /\ infeasibles' = <<v[1]>>
        /\ in_infeasibles_idx' = [x \in {v[1]} |-> 1]
  BY DEF Squeeze
<1>4. s'.routes = Insert(s.routes, v, s.w)
  BY <1>1, <1>3 DEF Solution
<1>5. ChangedAt(s.routes, s'.routes, v[1], v[1])
  BY <1>1, <1>2, <1>4, InsertChanges
<1>6. PICK y : y = v[1]
  OBVIOUS
<1>7. {x \in DOMAIN s'.routes : ~Feasible(s'.routes[x])} = {y}
  <2>1. ~Feasible(s'.routes[y])
    BY <1>2, <1>4, <1>6 DEF NoRoom
  <2>2. \A x \in DOMAIN s.routes : x # y => s'.routes[x] = s.routes[x]
    <3>1. \A x \in 1 .. Len(s.routes) : x # v[1] => s'.routes[x] = s.routes[x]
      BY <1>5 DEF ChangedAt
    <3>2. DOMAIN s.routes = 1 .. Len(s.routes)
      BY <1>1
    <3> QED
      BY <1>6, <3>1, <3>2
  <2>3. y \in DOMAIN s'.routes /\ DOMAIN s'.routes = DOMAIN s.routes
    BY <1>5, <1>6 DEF ChangedAt
  <2> QED
    BY <1>2, <2>1, <2>2, <2>3 DEF solution_feasible
<1>8. Lists(<<y>>, [x \in {y} |-> 1], {y})
  <2>1. <<y>> \in Seq({y}) /\ Len(<<y>>) = 1 /\ <<y>>[1] = y
    OBVIOUS
  <2>2. 1 .. 1 = {1}
    OBVIOUS
  <2> QED
    BY <2>1, <2>2 DEF Lists
<1> QED
  BY <1>3, <1>6, <1>7, <1>8 DEF InfeasiblesListed, Broken

\* The bookkeeping for both routes of a move keeps squeeze's array exact.
LEMMA SqueezeMoveListed ==
  ASSUME IInv, FInv, SqueezeMove
  PROVE  InfeasiblesListed'
<1>1. s.routes \in Seq(Seq(Customer)) /\ Lists(infeasibles, in_infeasibles_idx, Broken)
  BY SolutionFields DEF IInv, TypeOK, SqueezeMove, FInv, InfeasiblesListed
<1>2. PICK type \in Moves, v \in Nodes(s.routes), w \in Nodes(s.routes) :
        /\ modification_applicable(s.routes, type, v, w)
        /\ s'.routes = modification_apply(s.routes, type, v, w)
        /\ LET first == Track([routes |-> infeasibles, idx |-> in_infeasibles_idx],
                              s.routes, s'.routes, v[1])
               list == IF v[1] = w[1] THEN first
                       ELSE Track(first, s.routes, s'.routes, w[1])
           IN  infeasibles' = list.routes /\ in_infeasibles_idx' = list.idx
  BY SqueezeMoves
<1>3. PICK x, y : x = v[1] /\ y = w[1]
  OBVIOUS
<1>4. ChangedAt(s.routes, s'.routes, x, y)
  BY <1>1, <1>2, <1>3, MoveApplied
<1>5. /\ DOMAIN s'.routes = DOMAIN s.routes /\ x \in DOMAIN s.routes /\ y \in DOMAIN s.routes
      /\ \A z \in DOMAIN s.routes : z # x /\ z # y => s'.routes[z] = s.routes[z]
  <2>1. /\ DOMAIN s'.routes = DOMAIN s.routes /\ DOMAIN s.routes = 1 .. Len(s.routes)
        /\ x \in DOMAIN s.routes /\ y \in DOMAIN s.routes
    BY <1>4 DEF ChangedAt
  <2>2. \A z \in 1 .. Len(s.routes) : z # x /\ z # y => s'.routes[z] = s.routes[z]
    BY <1>4 DEF ChangedAt
  <2> QED
    BY <2>1, <2>2
<1>6. PICK list : list = [routes |-> infeasibles, idx |-> in_infeasibles_idx]
  OBVIOUS
<1>7. PICK first : first = Track(list, s.routes, s'.routes, x)
  OBVIOUS
<1>8. PICK second : second = Track(first, s.routes, s'.routes, y)
  OBVIOUS
<1>9. PICK B1 : B1 = IF Feasible(s'.routes[x]) THEN Broken \ {x} ELSE Broken \cup {x}
  OBVIOUS
<1>10. Lists(first.routes, first.idx, B1)
  <2>1. Lists(list.routes, list.idx, Broken)
    BY <1>1, <1>6
  <2>2. x \in Broken <=> ~Feasible(s.routes[x])
    BY <1>5 DEF Broken
  <2> QED
    BY <1>7, <1>9, <2>1, <2>2, TrackRoute
<1>11. CASE x = y
  <2>1. infeasibles' = first.routes /\ in_infeasibles_idx' = first.idx
    BY <1>2, <1>3, <1>6, <1>7, <1>11
  <2>2. B1 = {z \in DOMAIN s'.routes : ~Feasible(s'.routes[z])}
    BY <1>5, <1>9, <1>11 DEF Broken
  <2> QED
    BY <1>10, <2>1, <2>2 DEF InfeasiblesListed, Broken
<1>12. CASE x # y
  <2>1. infeasibles' = second.routes /\ in_infeasibles_idx' = second.idx
    BY <1>2, <1>3, <1>6, <1>7, <1>8, <1>12
  <2>2. PICK B2 : B2 = IF Feasible(s'.routes[y]) THEN B1 \ {y} ELSE B1 \cup {y}
    OBVIOUS
  <2>3. y \in B1 <=> ~Feasible(s.routes[y])
    BY <1>5, <1>9, <1>12 DEF Broken
  <2>4. Lists(second.routes, second.idx, B2)
    BY <1>8, <1>10, <2>2, <2>3, TrackRoute
  <2>5. B2 = {z \in DOMAIN s'.routes : ~Feasible(s'.routes[z])}
    BY <1>5, <1>9, <1>12, <2>2 DEF Broken
  <2> QED
    BY <2>1, <2>4, <2>5 DEF InfeasiblesListed, Broken
<1> QED
  BY <1>11, <1>12

\* squeeze is done when its array is empty, and goes back to the copy otherwise.
LEMMA SqueezeFeasible ==
  ASSUME IInv, FInv, Squeeze \/ SqueezeMove \/ SqueezeDone \/ SqueezeFail
  PROVE  FInv'
<1>1. s \in Solution /\ s.routes \in Seq(Seq(Customer)) /\ s_dup.routes \in Seq(Seq(Customer))
  BY SolutionFields DEF IInv, TypeOK
<1>2. incumbent' = incumbent /\ CopiesFeasible
  BY DEF Squeeze, SqueezeMove, SqueezeDone, SqueezeFail, FInv
<1>3. CASE Squeeze
  <2>1. pc = "squeeze" /\ pc' = "squeeze_loop" /\ s_dup' = s
    BY <1>3 DEF Squeeze
  <2>2. NoRoom(s_dup') /\ solution_feasible(s_dup'.routes)
    BY <2>1 DEF FInv, WorkingFeasible, NoRoomLeft
  <2>3. InfeasiblesListed'
    BY <1>3, SqueezeListed
  <2> QED
    BY <1>2, <2>1, <2>2, <2>3
    DEF FInv, WorkingFeasible, CopiesFeasible, NoRoomLeft, BestOK, EjectOK
<1>4. CASE SqueezeMove
  <2>1. pc = "squeeze_loop" /\ pc' = pc /\ s_dup' = s_dup
    BY <1>4 DEF SqueezeMove
  <2>2. InfeasiblesListed'
    BY <1>4, SqueezeMoveListed
  <2> QED
    BY <1>2, <2>1, <2>2
    DEF FInv, WorkingFeasible, CopiesFeasible, NoRoomLeft, BestOK, EjectOK
<1>5. CASE SqueezeDone
  <2>1. /\ pc = "squeeze_loop" /\ pc' = "delete_route" /\ s' = s /\ s_dup' = Freed
        /\ infeasibles = <<>>
    BY <1>5 DEF SqueezeDone
  <2>2. Lists(infeasibles, in_infeasibles_idx, Broken)
    BY <2>1 DEF FInv, InfeasiblesListed
  <2>3. Broken = {}
    <3>1. \A x \in Broken : \E k \in 1 .. Len(infeasibles) : infeasibles[k] = x
      BY <2>2 DEF Lists
    <3>2. Len(infeasibles) = 0 /\ 1 .. 0 = {}
      BY <2>1
    <3> QED
      BY <3>1, <3>2
  <2>4. solution_feasible(s.routes)
    BY <2>3 DEF Broken, solution_feasible
  <2> QED
    BY <1>2, <2>1, <2>4, FreedFeasible
    DEF FInv, WorkingFeasible, CopiesFeasible, NoRoomLeft, InfeasiblesListed, BestOK, EjectOK
<1>6. CASE SqueezeFail
  <2>1. /\ pc = "squeeze_loop" /\ pc' = "insert_eject" /\ s' = s_dup /\ s_dup' = Freed
        /\ InfeasibleRoutes # {}
    BY <1>6 DEF SqueezeFail
  <2>2. NoRoom(s')
    BY <2>1 DEF FInv, NoRoomLeft
  <2>3. s'.routes # <<>>
    <3>1. DOMAIN s.routes # {}
      BY <2>1 DEF InfeasibleRoutes
    <3>2. Len(s_dup.routes) = Len(s.routes)
      BY <2>1 DEF IInv, Copies
    <3>3. DOMAIN s_dup.routes = DOMAIN s.routes
      BY <1>1, <3>2
    <3>4. DOMAIN <<>> = {}
      OBVIOUS
    <3> QED
      BY <2>1, <3>1, <3>3, <3>4
  <2> QED
    BY <1>2, <2>1, <2>2, <2>3, FreedFeasible
    DEF FInv, WorkingFeasible, CopiesFeasible, NoRoomLeft, InfeasiblesListed, BestOK, EjectOK
<1> QED
  BY <1>3, <1>4, <1>5, <1>6

\* The counter of a customer is below what p_best starts from.
LEMMA BelowInfinity == IInv => \A c \in Customer : p[c] \in Int /\ p[c] < Infinity
<1> SUFFICES ASSUME IInv, NEW c \in Customer PROVE p[c] \in Int /\ p[c] < Infinity
  OBVIOUS
<1>1. p[c] \in 0 .. MaxP /\ MaxP \in Nat /\ Problem.n \in Nat /\ Problem.n # 0
  BY OptionsAssumption, ProblemAssumption DEF IInv, TypeOK
<1>2. PICK a \in Nat, b \in Nat : a = MaxP /\ b = Problem.n
  BY <1>1
<1>3. a <= a * b /\ a * b \in Int
  <2>1. b >= 1
    BY <1>1, <1>2
  <2> QED
    BY <2>1
<1> QED
  BY <1>1, <1>2, <1>3 DEF Infinity

\* The customer in hand, alone, is a feasible ejection of every position, so
\* that the search of a position does not end without a best result.
LEMMA PositionYields ==
  ASSUME EPS5 = 1, IInv, FInv, EjectionsExhausted, k_max > 0
  PROVE  search.opt_ejection # <<>>
<1> DEFINE r == s.routes[search.at[1]]
           i == search.at[2]
<1>1. /\ pc = "ejections" /\ s_dup \in Solution /\ s_dup.routes \in Seq(Seq(Customer))
      /\ NoneLeft(Problem, r, k_max, p, search.p_best)
  BY SolutionFields DEF IInv, TypeOK, EjectionsExhausted
<1>2. /\ search.at \in InsertNodes(s_dup.routes) /\ s.w \in Customer
      /\ s = [s_dup EXCEPT !.routes = Insert(s_dup.routes, search.at, s_dup.w)]
  BY <1>1 DEF IInv, SearchOK, InHandOK
<1>3. PICK rts, w : rts = s_dup.routes /\ w = s_dup.w
  OBVIOUS
<1>4. s.routes = Insert(rts, search.at, w) /\ w \in Customer
  BY <1>1, <1>2, <1>3 DEF Solution
<1>5. search.at[1] \in 1 .. Len(rts) /\ i \in 1 .. Len(rts[search.at[1]]) + 1
  BY <1>1, <1>2, <1>3, NodeTypes
<1>6. r = InsertBefore(rts[search.at[1]], i, w)
  BY <1>1, <1>2, <1>3, <1>4, <1>5, InsertRoutes
<1>7. r \in Seq(Customer) /\ i \in 1 .. Len(r) /\ r[i] = w
  <2>1. PICK q \in Seq(Customer) : q = rts[search.at[1]]
    BY <1>1, <1>3, <1>5
  <2>2. /\ InsertBefore(q, i, w) \in Seq(Customer)
        /\ Len(InsertBefore(q, i, w)) = Len(q) + 1
        /\ InsertBefore(q, i, w)[i] = w
    <3>1. i \in 1 .. Len(q) + 1 /\ Len(q) \in Nat
      BY <1>5, <2>1
    <3> HIDE DEF i
    <3>2. \A k \in 1 .. Len(q) + 1 : InsertBefore(q, i, w)[k] =
                                       IF k < i THEN q[k] ELSE IF k = i THEN w ELSE q[k - 1]
      BY <1>4, <3>1, InsertBeforeElements
    <3>3. ~(i < i)
      BY <3>1
    <3>4. InsertBefore(q, i, w)[i] = w
      BY <3>1, <3>2, <3>3
    <3> QED
      BY <1>4, <3>1, <3>4, InsertBeforeElements
  <2> QED
    BY <1>5, <1>6, <2>1, <2>2
<1>8. RemoveIndex(r, i) = rts[search.at[1]]
  <2>1. /\ Insert(rts, search.at, w) \in Seq(Seq(Customer))
        /\ Len(Insert(rts, search.at, w)) = Len(rts)
    BY <1>1, <1>2, <1>3, <1>4, InsertRoutes
  <2>2. /\ search.at \in CustomerNodes(Insert(rts, search.at, w))
        /\ Eject(Insert(rts, search.at, w), search.at) = rts
    BY <1>1, <1>2, <1>3, <1>4, EjectAfterInsert
  <2>3. \A x \in 1 .. Len(rts) :
          Eject(Insert(rts, search.at, w), search.at)[x] =
            IF x = search.at[1] THEN RemoveIndex(Insert(rts, search.at, w)[x], i)
            ELSE Insert(rts, search.at, w)[x]
    BY <2>1, <2>2, EjectRoutes
  <2>4. rts[search.at[1]] = RemoveIndex(Insert(rts, search.at, w)[search.at[1]], i)
    BY <1>5, <2>2, <2>3
  <2> QED
    BY <1>4, <2>4
<1>9. Free(rts[search.at[1]])
  <2>1. solution_feasible(rts)
    BY <1>3 DEF FInv, CopiesFeasible
  <2>2. rts[search.at[1]] \in Seq(Customer) /\ Feasible(rts[search.at[1]])
    BY <1>1, <1>3, <1>5, <2>1 DEF solution_feasible
  <2> QED
    BY <2>2, FeasibleFree
<1> HIDE DEF r, i
<1>10. PICK x : x = [k \in 1 .. 1 |-> i]
  OBVIOUS
<1>11. x \in Ejections(r, k_max) /\ Considered(Problem, r, x)
  <2>1. Len(x) = 1
    BY <1>10
  <2>2. x \in Ejections(r, k_max)
    BY <1>7, <1>10, EjectionsPicked
  <2> QED
    BY <2>1, <2>2 DEF Considered
<1>12. FeasibleEjection(Problem, r, x)
  <2>1. Rest(r, x) = RemoveIndex(r, i)
    BY <1>7, <1>10, RestSmall
  <2> QED
    BY <1>8, <1>9, <2>1 DEF FeasibleEjection, Free
<1>13. PSum(p, Ejected(r, x)) = p[w]
  <2>1. Ejected(r, x) = [k \in 1 .. 1 |-> w]
    BY <1>7, <1>10 DEF Ejected
  <2>2. p[w] \in Int
    BY <1>4, BelowInfinity
  <2> QED
    BY <2>1, <2>2, PSumOne
<1>14. ~Improving(Problem, r, p, search.p_best, x)
  BY <1>1, <1>11 DEF NoneLeft, r
<1>15. search.p_best # Infinity
  BY <1>4, <1>12, <1>13, <1>14, BelowInfinity DEF Improving
<1> QED
  BY <1>1, <1>15 DEF FInv, BestOK

\* insert_eject's tries leave the copy alone, and what they keep is feasible.
LEMMA TryFeasible ==
  ASSUME EPS5 = 1, IInv, FInv,
         InsertEject \/ TryInsertion \/ EjectionFound \/ EjectionsExhausted
  PROVE  FInv'
<1>1. s \in Solution /\ s.routes \in Seq(Seq(Customer)) /\ s_dup.routes \in Seq(Seq(Customer))
  BY SolutionFields DEF IInv, TypeOK
<1>2. incumbent' = incumbent /\ CopiesFeasible
  BY DEF InsertEject, TryInsertion, EjectionFound, EjectionsExhausted, FInv
<1>3. CASE InsertEject
  <2>1. /\ pc = "insert_eject" /\ pc' = "try_insertion" /\ s_dup' = s /\ s' = s
        /\ search'.opt_ejection = <<>> /\ search'.p_best = Infinity' /\ search'.at = <<1, 1>>
    BY <1>3 DEF InsertEject, NoSearch, Infinity
  <2>2. NoRoom(s) /\ solution_feasible(s.routes) /\ s.routes # <<>>
    BY <2>1 DEF FInv, WorkingFeasible, NoRoomLeft, BestOK
  <2> QED
    BY <1>2, <2>1, <2>2
    DEF FInv, WorkingFeasible, CopiesFeasible, NoRoomLeft, InfeasiblesListed, BestOK, EjectOK
<1>4. CASE TryInsertion
  <2>1. pc = "try_insertion" /\ pc' = "ejections" /\ s_dup' = s_dup /\ search' = search
    BY <1>4 DEF TryInsertion
  <2> QED
    BY <1>2, <2>1
    DEF FInv, WorkingFeasible, CopiesFeasible, NoRoomLeft, InfeasiblesListed, BestOK, EjectOK,
        Infinity
<1>5. CASE EjectionFound
  <2> DEFINE r == s.routes[search.at[1]]
  <2>1. PICK x \in Ejections(r, k_max) :
          /\ Improving(Problem, r, p, search.p_best, x)
          /\ search' = [search EXCEPT !.p_best = PSum(p, Ejected(r, x)),
                                      !.opt_v = search.at, !.opt_ejection = Ejected(r, x)]
    BY <1>5 DEF EjectionFound
  <2>2. pc = "ejections" /\ pc' = "ejections" /\ s_dup' = s_dup
    BY <1>5 DEF EjectionFound
  <2>3. search'.opt_v = search.at /\ search'.opt_ejection = Ejected(r, x)
    <3>1. DOMAIN search = {"at", "p_best", "opt_v", "opt_ejection"}
      BY DEF IInv, TypeOK
    <3> QED
      BY <2>1, <3>1
  <2>4. /\ search.at \in InsertNodes(s_dup.routes)
        /\ s = [s_dup EXCEPT !.routes = Insert(s_dup.routes, search.at, s_dup.w)]
    BY <2>2 DEF IInv, SearchOK
  <2>5. s.routes = Insert(s_dup.routes, search.at, s_dup.w)
    BY <2>4 DEF IInv, TypeOK, Solution
  <2>6. r \in Seq(Customer)
    <3>1. search.at[1] \in 1 .. Len(s_dup.routes)
      BY <1>1, <2>4, NodeTypes
    <3>2. Len(s_dup.routes) = Len(s.routes)
      <4>1. s_dup # Freed
        BY <2>2 DEF IInv, Copies
      <4> QED
        BY <4>1 DEF IInv, Copies
    <3> QED
      BY <1>1, <3>1, <3>2
  <2>7. Free(Rest(r, x))
    BY <2>1 DEF Improving, FeasibleEjection, Free
  <2> HIDE DEF r
  <2>8. PICK n \in Nat : x \in [1 .. n -> 1 .. Len(r)] /\ Picked(r, x, n) /\ n # 0
    BY <2>1, <2>6, EjectionsPicked
  <2>9. FeasiblyEjects(r, Ejected(r, x))
    BY <2>7, <2>8 DEF FeasiblyEjects
  <2>10. Ejected(r, x) # <<>>
    <3>1. DOMAIN Ejected(r, x) = 1 .. n /\ 1 \in 1 .. n
      BY <2>8 DEF Ejected
    <3>2. DOMAIN <<>> = {}
      OBVIOUS
    <3> QED
      BY <3>1, <3>2
  <2>11. FeasiblyEjects(Insert(s_dup.routes, search.at, s_dup.w)[search.at[1]], Ejected(r, x))
    BY <2>5, <2>9 DEF r
  <2> QED
    BY <1>2, <2>2, <2>3, <2>10, <2>11
    DEF FInv, WorkingFeasible, CopiesFeasible, NoRoomLeft, InfeasiblesListed, BestOK, EjectOK
<1>6. CASE EjectionsExhausted
  <2>1. /\ pc = "ejections" /\ pc' = "try_insertion" /\ s_dup' = s_dup
        /\ search'.opt_v = search.opt_v /\ search'.opt_ejection = search.opt_ejection
        /\ search'.p_best = search.p_best
    <3>1. \E a : search' = [search EXCEPT !.at = a]
      BY <1>6 DEF EjectionsExhausted
    <3>2. DOMAIN search = {"at", "p_best", "opt_v", "opt_ejection"}
      BY DEF IInv, TypeOK
    <3> QED
      BY <1>6, <3>1, <3>2 DEF EjectionsExhausted
  <2>2. s' = s_dup
    <3>1. IInv'
      BY <1>6, TryIInv
    <3> QED
      BY <2>1, <3>1 DEF IInv, SearchOK
  <2>3. k_max > 0 => search.opt_ejection # <<>>
    BY <1>6, PositionYields
  <2> QED
    BY <1>2, <2>1, <2>2, <2>3
    DEF FInv, WorkingFeasible, CopiesFeasible, NoRoomLeft, InfeasiblesListed, BestOK, EjectOK,
        Infinity
<1> QED
  BY <1>3, <1>4, <1>5, <1>6

\* The customer ejected next is the one of the best route that was meant: no
\* other place holds it.
LEMMA EjectNextFeasible ==
  ASSUME IInv, OwnInv, FInv, EjectNext
  PROVE  EjectOK'
<1>1. s \in Solution /\ s.routes \in Seq(Seq(Customer))
  BY SolutionFields DEF IInv, TypeOK
<1>2. PICK b, cs : b = search.opt_v[1] /\ cs = search.opt_ejection
  OBVIOUS
<1>3. /\ pc = "eject" /\ pc' = "eject" /\ cs # <<>>
      /\ search'.opt_v[1] = b /\ search'.opt_ejection = Tail(cs)
  <2>1. DOMAIN search = {"at", "p_best", "opt_v", "opt_ejection"}
    BY DEF IInv, TypeOK
  <2>2. search' = [search EXCEPT !.opt_ejection = Tail(@)]
    BY DEF EjectNext
  <2> QED
    BY <1>2, <2>1, <2>2 DEF EjectNext
<1>4. /\ b \in DOMAIN s.routes /\ FeasiblyEjects(s.routes[b], cs)
      /\ \A x \in DOMAIN s.routes : x # b => Feasible(s.routes[x])
  BY <1>2, <1>3 DEF FInv, EjectOK
<1>5. PICK v \in CustomerNodes(s.routes) :
        /\ s.routes[v[1]][v[2]] = cs[1]
        /\ s' = [s EXCEPT !.routes = Eject(s.routes, v), !.ejection_pool = Append(@, cs[1])]
  BY <1>2 DEF EjectNext
<1>6. s'.routes = Eject(s.routes, v)
  BY <1>1, <1>5 DEF Solution
<1>7. PICK i \in 1 .. Len(s.routes[b]) :
        /\ cs[1] = s.routes[b][i]
        /\ FeasiblyEjects(RemoveIndex(s.routes[b], i), Tail(cs))
  <2>1. s.routes[b] \in Seq(Customer)
    BY <1>1, <1>4
  <2> QED
    BY <1>3, <1>4, <2>1, EjectFirst
<1>8. v[1] = b /\ v[2] = i
  <2>1. \A x, y \in DOMAIN s.routes : \A k \in DOMAIN s.routes[x], j \in DOMAIN s.routes[y] :
          s.routes[x][k] = s.routes[y][j] => x = y /\ k = j
    BY DEF OwnInv, Working, HeldOnce
  <2>2. v[1] \in DOMAIN s.routes /\ v[2] \in DOMAIN s.routes[v[1]]
    <3>1. v[1] \in 1 .. Len(s.routes) /\ v[2] \in 1 .. Len(s.routes[v[1]])
      BY <1>1, NodeTypes
    <3>2. s.routes[v[1]] \in Seq(Customer)
      BY <1>1, <3>1
    <3> QED
      BY <1>1, <3>1, <3>2
  <2>3. i \in DOMAIN s.routes[b]
    BY <1>1, <1>4
  <2> QED
    BY <1>4, <1>5, <1>7, <2>1, <2>2, <2>3
<1>9. /\ DOMAIN s'.routes = DOMAIN s.routes
      /\ s'.routes[b] = RemoveIndex(s.routes[b], i)
      /\ \A x \in DOMAIN s.routes : x # b => s'.routes[x] = s.routes[x]
  <2>1. /\ Eject(s.routes, v) \in Seq(Seq(Customer)) /\ Len(Eject(s.routes, v)) = Len(s.routes)
        /\ \A x \in 1 .. Len(s.routes) :
             Eject(s.routes, v)[x] = IF x = v[1] THEN RemoveIndex(s.routes[x], v[2])
                                     ELSE s.routes[x]
    BY <1>1, EjectRoutes
  <2>2. DOMAIN s.routes = 1 .. Len(s.routes)
    BY <1>1
  <2> QED
    BY <1>4, <1>6, <1>8, <2>1, <2>2
<1> QED
  BY <1>3, <1>4, <1>7, <1>9 DEF EjectOK

\* insert_eject leaves when its best ejection is made, or gives up.
LEMMA EjectFeasible ==
  ASSUME EPS5 = 1, IInv, OwnInv, FInv,
         InsertBest \/ EjectNext \/ EjectionDone \/ InsertEjectFail
  PROVE  FInv'
<1>1. s \in Solution /\ s.routes \in Seq(Seq(Customer)) /\ CopiesFeasible
  BY SolutionFields DEF IInv, TypeOK, FInv
<1>2. CASE InsertBest
  <2>1. /\ pc = "try_insertion" /\ pc' = "eject" /\ search' = search
        /\ incumbent' = incumbent /\ s_dup' = s_dup /\ search.opt_ejection # <<>>
        /\ s' = [s EXCEPT !.routes = Insert(s.routes, search.opt_v, s.w), !.w = NULL]
    BY <1>2 DEF InsertBest
  <2>2. s = s_dup /\ search.opt_v \in InsertNodes(s.routes) /\ s.w \in Customer
    BY <2>1 DEF IInv, SearchOK, InHandOK
  <2>3. s'.routes = Insert(s.routes, search.opt_v, s.w)
    BY <1>1, <2>1 DEF Solution
  <2>4. PICK b : b = search.opt_v[1]
    OBVIOUS
  <2>5. ChangedAt(s.routes, s'.routes, b, b)
    BY <1>1, <2>2, <2>3, <2>4, InsertChanges
  <2>6. solution_feasible(s.routes)
    BY <2>1 DEF FInv, WorkingFeasible
  <2>7. /\ b \in DOMAIN s'.routes
        /\ \A x \in DOMAIN s'.routes : x # b => Feasible(s'.routes[x])
    <3>1. /\ DOMAIN s'.routes = 1 .. Len(s.routes) /\ DOMAIN s.routes = 1 .. Len(s.routes)
          /\ b \in 1 .. Len(s.routes)
      BY <2>5 DEF ChangedAt
    <3>2. \A x \in 1 .. Len(s.routes) : x # b => s'.routes[x] = s.routes[x]
      BY <2>5 DEF ChangedAt
    <3> QED
      BY <2>6, <3>1, <3>2 DEF solution_feasible
  <2>8. FeasiblyEjects(s'.routes[b], search.opt_ejection)
    BY <2>1, <2>2, <2>3, <2>4 DEF FInv, BestOK
  <2>9. EjectOK'
    BY <2>1, <2>4, <2>7, <2>8 DEF EjectOK
  <2> QED
    BY <1>1, <2>1, <2>9
    DEF FInv, WorkingFeasible, CopiesFeasible, NoRoomLeft, InfeasiblesListed, BestOK
<1>3. CASE EjectNext
  <2>1. /\ pc = "eject" /\ pc' = pc /\ incumbent' = incumbent /\ s_dup' = s_dup
    BY <1>3 DEF EjectNext
  <2>2. EjectOK'
    BY <1>3, EjectNextFeasible
  <2> QED
    BY <1>1, <2>1, <2>2
    DEF FInv, WorkingFeasible, CopiesFeasible, NoRoomLeft, InfeasiblesListed, BestOK
<1>4. CASE EjectionDone
  <2>1. /\ pc = "eject" /\ pc' = "perturb" /\ s' = s /\ incumbent' = incumbent
        /\ s_dup' = Freed /\ search.opt_ejection = <<>>
    BY <1>4 DEF EjectionDone
  <2>2. PICK b : b = search.opt_v[1]
    OBVIOUS
  <2>3. /\ b \in DOMAIN s.routes /\ FeasiblyEjects(s.routes[b], <<>>)
        /\ \A x \in DOMAIN s.routes : x # b => Feasible(s.routes[x])
    BY <2>1, <2>2 DEF FInv, EjectOK
  <2>4. Feasible(s.routes[b])
    <3>1. s.routes[b] \in Seq(Customer)
      BY <1>1, <2>3
    <3>2. Free(s.routes[b])
      BY <2>3, <3>1, EjectedAll
    <3> QED
      BY <3>1, <3>2, FeasibleFree
  <2>5. solution_feasible(s.routes)
    BY <2>3, <2>4 DEF solution_feasible
  <2> QED
    BY <1>1, <2>1, <2>5, FreedFeasible
    DEF FInv, WorkingFeasible, CopiesFeasible, NoRoomLeft, InfeasiblesListed, BestOK, EjectOK
<1>5. CASE InsertEjectFail
  <2>1. /\ pc' = "done" /\ s' = incumbent /\ incumbent' = Freed /\ s_dup' = Freed
    BY <1>5 DEF InsertEjectFail
  <2> QED
    BY <1>1, <2>1, FreedFeasible
    DEF FInv, WorkingFeasible, CopiesFeasible, NoRoomLeft, InfeasiblesListed, BestOK, EjectOK
<1> QED
  BY <1>2, <1>3, <1>4, <1>5

\* perturb accepts moves without delta; the clock changes nothing.
LEMMA PerturbFeasible ==
  ASSUME EPS5 = 1, IInv, FInv,
         PerturbMove \/ PerturbSkip \/ PerturbDone \/ ClockExpires \/ UNCHANGED vars
  PROVE  FInv'
<1>1. s \in Solution /\ s.routes \in Seq(Seq(Customer)) /\ CopiesFeasible
  BY SolutionFields DEF IInv, TypeOK, FInv
<1>2. CASE PerturbMove
  <2>1. PICK v \in CustomerNodes(s.routes), w \in CustomerNodes(s.routes), type \in Moves :
          /\ Perturbation(s.routes, type, v, w)
          /\ s' = [s EXCEPT !.routes = modification_apply(s.routes, type, v, w)]
    BY <1>2 DEF PerturbMove
  <2>2. /\ pc = "perturb" /\ pc' = pc /\ incumbent' = incumbent /\ s_dup' = s_dup
    BY <1>2 DEF PerturbMove
  <2>3. s'.routes = modification_apply(s.routes, type, v, w)
    BY <1>1, <2>1 DEF Solution
  <2>4. v \in Nodes(s.routes) /\ w \in Nodes(s.routes)
    <3>1. CustomerNodes(s.routes) \subseteq Nodes(s.routes)
      BY <1>1 DEF CustomerNodes, Nodes
    <3> QED
      BY <3>1
  <2>5. ChangedAt(s.routes, s'.routes, v[1], w[1])
    BY <1>1, <2>1, <2>3, <2>4, MoveApplied DEF Perturbation
  <2>6. Delta(s.routes, s'.routes, v[1], w[1], 1, 1) < EPS5
    BY <2>1, <2>3 DEF Perturbation, MoveDelta
  <2>7. solution_feasible(s.routes)
    BY <2>2 DEF FInv, WorkingFeasible
  <2>8. solution_feasible(s'.routes)
    BY <2>5, <2>6, <2>7, DeltaFeasible
  <2> QED
    BY <1>1, <2>2, <2>8
    DEF FInv, WorkingFeasible, CopiesFeasible, NoRoomLeft, InfeasiblesListed, BestOK, EjectOK
<1>3. CASE PerturbSkip \/ PerturbDone
  BY <1>1, <1>3
  DEF PerturbSkip, PerturbDone,
      FInv, WorkingFeasible, CopiesFeasible, NoRoomLeft, InfeasiblesListed, BestOK, EjectOK
<1>4. CASE ClockExpires \/ UNCHANGED vars
  <2>1. UNCHANGED <<pc, s, incumbent, s_dup, infeasibles, in_infeasibles_idx, search>>
    BY <1>4 DEF ClockExpires, vars
  <2> QED
    BY <2>1
    DEF FInv, WorkingFeasible, CopiesFeasible, NoRoomLeft, InfeasiblesListed, Broken, BestOK,
        EjectOK, Infinity
<1> QED
  BY <1>2, <1>3, <1>4

\* Every step keeps it.
LEMMA NextFeasible == EPS5 = 1 /\ IInv /\ OwnInv /\ FInv /\ [Next]_vars => FInv'
BY DeleteRouteFeasible, InsertFeasibleFeasible, SqueezeFeasible, TryFeasible, EjectFeasible,
   PerturbFeasible
DEF Next, Step, Returned
-----------------------------------------------------------------------------
\* FInv holds in every state.
THEOREM Feasibility ==
  ASSUME EPS5 = 1
  PROVE  Spec => []FInv
<1>1. Init => IInv /\ OwnInv /\ FInv
  BY InitIInv, InitOwned, InitFeasible
<1>2. IInv /\ OwnInv /\ FInv /\ [Next]_vars => IInv' /\ OwnInv' /\ FInv'
  BY NextIInv, NextOwned, NextFeasible
<1> QED
  BY <1>1, <1>2, PTL DEF Spec

\* The assertions on solution_feasible between the phases of the solver, and on
\* the route that received the customer in insert_eject, never fail.
THEOREM PhasesFeasible ==
  ASSUME EPS5 = 1
  PROVE  Spec => []FeasibleBetweenPhases
<1>1. IInv /\ FInv => FeasibleBetweenPhases
  <2> SUFFICES ASSUME IInv, FInv, pc = "ejections" PROVE ~Feasible(s.routes[search.at[1]])
    BY DEF FInv, WorkingFeasible, FeasibleBetweenPhases
  <2>1. /\ search.at \in InsertNodes(s_dup.routes)
        /\ s = [s_dup EXCEPT !.routes = Insert(s_dup.routes, search.at, s_dup.w)]
    BY DEF IInv, SearchOK
  <2>2. s.routes = Insert(s_dup.routes, search.at, s_dup.w)
    BY <2>1 DEF IInv, TypeOK, Solution
  <2> QED
    BY <2>1, <2>2 DEF FInv, NoRoomLeft, NoRoom
<1> QED
  BY <1>1, Invariant, Feasibility, PTL

\* squeeze's array and the places the routes keep in it are exact after every
\* move, so that an empty array means a feasible solution.
THEOREM InfeasiblesStayExact ==
  ASSUME EPS5 = 1
  PROVE  Spec => []InfeasiblesExact
<1>1. FInv => InfeasiblesExact
  <2> SUFFICES ASSUME FInv, pc = "squeeze_loop" PROVE InfeasiblesExact
    BY DEF InfeasiblesExact
  <2>1. Lists(infeasibles, in_infeasibles_idx, Broken)
    BY DEF FInv, InfeasiblesListed
  <2>2. infeasibles \in Seq(Broken) /\ DOMAIN infeasibles = 1 .. Len(infeasibles)
    BY <2>1 DEF Lists
  <2>3. /\ \A x \in Broken : \E k \in DOMAIN infeasibles : infeasibles[k] = x
        /\ DOMAIN in_infeasibles_idx = Broken
        /\ \A k \in DOMAIN infeasibles : in_infeasibles_idx[infeasibles[k]] = k
    BY <2>1, <2>2 DEF Lists
  <2>4. {infeasibles[k] : k \in DOMAIN infeasibles} = Broken
    <3>1. \A k \in DOMAIN infeasibles : infeasibles[k] \in Broken
      BY <2>2
    <3> QED
      BY <2>3, <3>1
  <2> QED
    BY <2>3, <2>4 DEF InfeasiblesExact, Broken
<1> QED
  BY <1>1, Feasibility, PTL

\* insert_eject ends with an ejection, for every route plan and all counters:
\* delete_route gives up at the deadline only.
THEOREM EjectionExists ==
  ASSUME EPS5 = 1
  PROVE  Spec => []InsertEjectSucceeds
<1>1. IInv /\ FInv => InsertEjectSucceeds
  <2> SUFFICES ASSUME IInv, FInv, pc = "try_insertion", search.at[1] > Len(s.routes), k_max > 0,
                      search.opt_ejection = <<>>
               PROVE  FALSE
    BY DEF InsertEjectSucceeds
  <2>1. search.at = <<1, 1>> /\ s = s_dup /\ s_dup.routes # <<>>
    BY DEF IInv, SearchOK, FInv, BestOK
  <2>2. s.routes \in Seq(Seq(Customer))
    BY SolutionFields DEF IInv, TypeOK
  <2>3. Len(s.routes) \in Nat /\ Len(s.routes) # 0
    BY <2>1, <2>2
  <2> QED
    BY <2>1, <2>3
<1> QED
  BY <1>1, Invariant, Feasibility, PTL

\* The initial solution is one RouteMinimizer may start from.
LEMMA InitMinimizes == Init => Minimizer!Init
<1> SUFFICES ASSUME Init PROVE Minimizer!Init
  OBVIOUS
<1>1. PICK rts \in InitialSolutions :
        s = [routes |-> rts, ejection_pool |-> <<>>, w |-> NULL]
  BY DEF Init
<1>2. ServesAllOnce(rts) /\ \A x \in DOMAIN rts : Feasible(rts[x])
  BY InitialAssumption
<1>3. s.routes = rts /\ pc = "solve"
  BY <1>1 DEF Init
<1> QED
  BY <1>2, <1>3 DEF Minimizer!Init, Minimizer!Solves, Minimizer!ServesAllOnce, ServesAllOnce

\* The solution held changes where a route stays deleted and nowhere else: the
\* incumbent takes over while the solver works, and comes back on every failure.
LEMMA NextMinimizes ==
  ASSUME IInv, OwnInv, FInv, [Next]_vars
  PROVE  [Minimizer!Next]_(Minimizer!vars)
<1> DEFINE best == IF pc \in {"solve", "done"} THEN s.routes ELSE incumbent.routes
           returned == pc = "done"
<1>1. CASE RouteDeleted
  <2>1. /\ pc = "delete_route" /\ pc' = "solve" /\ s' = s /\ s.ejection_pool = <<>>
        /\ s.w = NULL
    BY <1>1 DEF RouteDeleted, IInv, InHandOK
  <2>2. s.routes \in Seq(Seq(Customer)) /\ incumbent.routes \in Seq(Seq(Customer))
    BY SolutionFields DEF IInv, TypeOK
  <2>3. ServesAllOnce(s.routes)
    <3>1. HeldOnce(s.routes, <<>>, NULL)
      BY <2>1 DEF OwnInv, Working, InHand
    <3> QED
      BY <2>2, <3>1, CompleteSolution
  <2>4. \A x \in DOMAIN s.routes : Feasible(s.routes[x])
    BY <2>1 DEF FInv, WorkingFeasible, solution_feasible
  <2>5. Len(s.routes) = Len(incumbent.routes) - 1
    <3>1. Len(incumbent.routes) = Len(s.routes) + 1
      BY <2>1 DEF IInv, Copies
    <3> QED
      BY <2>2, <3>1
  <2>6. best = incumbent.routes /\ best' = s.routes /\ ~returned /\ returned' = returned
    BY <2>1
  <2> HIDE DEF best, returned
  <2>7. Minimizer!Solves(s.routes)
    BY <2>3, <2>4 DEF Minimizer!Solves, Minimizer!ServesAllOnce, ServesAllOnce
  <2>8. Minimizer!RemoveRoute
    BY <2>5, <2>6, <2>7 DEF Minimizer!RemoveRoute, best, returned
  <2> QED
    BY <2>8 DEF Minimizer!Next
<1>2. CASE StopAtLowerBound \/ DeadlinePassed \/ InsertEjectFail
  <2>1. pc' = "done" /\ pc # "done"
    BY <1>2 DEF StopAtLowerBound, DeadlinePassed, InsertEjectFail
  <2>2. best' = best
    BY <1>2 DEF StopAtLowerBound, DeadlinePassed, InsertEjectFail
  <2>3. Minimizer!Return
    BY <2>1, <2>2 DEF Minimizer!Return
  <2> QED
    BY <2>3 DEF Minimizer!Next
<1>3. CASE DeleteRoute
  <2>1. pc = "solve" /\ pc' = "delete_route" /\ incumbent' = s
    BY <1>3 DEF DeleteRoute
  <2> QED
    BY <2>1 DEF Minimizer!vars
<1>4. CASE UNCHANGED <<pc, s, incumbent>>
  BY <1>4 DEF Minimizer!vars
<1>5. CASE /\ pc \notin {"solve", "done"} /\ pc' \notin {"solve", "done"}
           /\ incumbent' = incumbent
  BY <1>5 DEF Minimizer!vars
<1> QED
  <2>1. \/ RouteDeleted \/ StopAtLowerBound \/ DeadlinePassed \/ InsertEjectFail \/ DeleteRoute
        \/ UNCHANGED <<pc, s, incumbent>>
        \/ /\ pc \notin {"solve", "done"} /\ pc' \notin {"solve", "done"}
           /\ incumbent' = incumbent
    BY DEF Next, Step, PopCustomer, InsertFeasible, NoFeasibleInsertion, Squeeze, SqueezeMove,
           SqueezeDone, SqueezeFail, InsertEject, TryInsertion, EjectionFound,
           EjectionsExhausted, InsertBest, EjectNext, EjectionDone, PerturbMove, PerturbSkip,
           PerturbDone, ClockExpires, Returned, vars
  <2> QED
    BY <1>1, <1>2, <1>3, <1>4, <1>5, <2>1

\* The solver implements the safety part of RouteMinimizer: what it holds for
\* its caller is complete and feasible, and loses one route at a time.
THEOREM Minimizes ==
  ASSUME EPS5 = 1
  PROVE  Spec => Minimizer!Init /\ [][Minimizer!Next]_(Minimizer!vars)
<1>1. IInv /\ OwnInv /\ FInv /\ [Next]_vars => [Minimizer!Next]_(Minimizer!vars)
  BY NextMinimizes
<1>2. Init => IInv /\ OwnInv
  BY InitIInv, InitOwned
<1>3. IInv /\ OwnInv /\ [Next]_vars => IInv' /\ OwnInv'
  BY NextIInv, NextOwned
<1> QED
  BY <1>1, <1>2, <1>3, InitMinimizes, Feasibility, PTL DEF Spec
=============================================================================
