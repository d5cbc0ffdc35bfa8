---------------------------- MODULE EjectionSearch ----------------------------
(***************************************************************************)
(* feasible_ejections_f (ejection.c): the fiber that walks through the     *)
(* subsets of a route's customers in lexicographic order, with the time at *)
(* which the customers before the cursor arrive kept in a_temp, and yields *)
(* each feasible one whose sum of p is below *p_best.                      *)
(*                                                                         *)
(* The customers are indexes of the route.  The arrays ne (kept), e (the   *)
(* ejection) and s (not decided yet, the next one last) are sequences, so  *)
(* that ne_last, e_last and s_first are their last elements and k, which   *)
(* the code counts along with e_size, is Len(e).                           *)
(***************************************************************************)
EXTENDS Ejection, SequencesExt

CONSTANTS
  Instances,  \* records [p, r, ps, k_max, p_best]: the arguments of one search
  Stale       \* what an earlier search may have left in a_temp and a_earliest_temp

ASSUME InstancesAssumption ==
  \A i \in Instances :
    /\ Instance(i.p)
    /\ i.r \in Seq(1 .. i.p.n) /\ i.r # <<>>
    /\ i.ps \in [1 .. i.p.n -> Nat]
    /\ i.k_max \in Nat /\ i.p_best \in Nat

ASSUME StaleAssumption == Stale \subseteq Int

VARIABLES
  inst,            \* the arguments
  pc,              \* "start", "test", "yield", "branch", "backtrack" or "dead"
  st,              \* ne, e, s, the sums over e, and incremented_last
  a_temp,          \* customer.a_temp by index
  a_earliest_temp, \* customer.a_earliest_temp by index
  p_best           \* *p_best

vars == <<inst, pc, st, a_temp, a_earliest_temp, p_best>>

tail == Len(inst.r) + 1
e_at(i) == inst.p.e[Id(inst.r, i)]
l_at(i) == inst.p.l[Id(inst.r, i)]
demand_at(i) == inst.p.demand[Id(inst.r, i)]
a_earliest(i) == Earliest(inst.p, inst.r, i)
late_at(i) == IF l_at(i) < a_earliest(i) THEN 1 ELSE 0

Init ==
  /\ inst \in Instances
  /\ pc = "start"
  /\ st = [ne |-> <<0>>, e |-> <<>>, s |-> Reverse([i \in 1 .. tail |-> i]),
           p_sum |-> 0, total_demand |-> PrefixDemand(inst.p, inst.r)[tail],
           late |-> 0, incremented_last |-> FALSE]
  /\ \E t \in Stale :
       a_temp = [i \in 0 .. tail |-> IF i = 0 THEN inst.p.e[0] ELSE t]
  /\ a_earliest_temp = a_temp
  /\ p_best = inst.p_best
-----------------------------------------------------------------------------
(***************************************************************************)
(* The labels of the code as functions of st.                              *)
(***************************************************************************)

\* Mutant: a late customer that leaves e is still counted.
UnejectStillLate(x) ==
  LET i == Last(x.e)
  IN  [x EXCEPT !.e = Front(@),
                !.p_sum = @ - inst.ps[inst.r[i]],
                !.total_demand = @ + demand_at(i)]

\* e_last leaves e; where it goes is the caller's business.
Uneject(x) ==
  LET i == Last(x.e)
  IN  [x EXCEPT !.e = Front(@),
                !.p_sum = @ - inst.ps[inst.r[i]],
                !.total_demand = @ + demand_at(i),
                !.late = @ - late_at(i)]

\* Mutant: p of the customer that enters e is not added.
IncrKUnsummed(x) ==
  LET i == Last(x.s)
  IN  [x EXCEPT !.e = Append(@, i), !.s = Front(@),
                !.total_demand = @ - demand_at(i),
                !.late = @ + late_at(i)]

incr_k(x) ==
  LET i == Last(x.s)
  IN  [x EXCEPT !.e = Append(@, i), !.s = Front(@),
                !.p_sum = @ + inst.ps[inst.r[i]],
                !.total_demand = @ - demand_at(i),
                !.late = @ + late_at(i)]

incr_last(x) ==
  LET y == Uneject(x)
  IN  [y EXCEPT !.ne = Append(@, Last(x.e)), !.incremented_last = TRUE]

\* How many of the kept customers ne stay when those behind index i are popped.
Remaining(ne, i) ==
  CHOOSE k \in 0 .. Len(ne) : (k > 0 => ne[k] <= i) /\ \A j \in k + 1 .. Len(ne) : ne[j] > i

\* Mutant: the kept customers come back in the order of the route.
BacktrackUnreversed(x) ==
  LET y == Uneject(x)
      k == Remaining(x.ne, Last(y.e))
  IN  [y EXCEPT !.ne = SubSeq(@, 1, k),
                !.s = (@ \o <<Last(x.e)>>) \o SubSeq(x.ne, k + 1, Len(x.ne))]

\* e_last and the kept customers after the new e_last are undecided again.
backtrack(x) ==
  LET y == Uneject(x)
      k == Remaining(x.ne, Last(y.e))
  IN  [y EXCEPT !.ne = SubSeq(@, 1, k),
                !.s = (@ \o <<Last(x.e)>>) \o Reverse(SubSeq(x.ne, k + 1, Len(x.ne)))]

\* The start at index i when ne_last is served before it.
EarliestAfter(x, i) ==
  LET n == Last(x.ne)
  IN  MAX(e_at(i), a_temp[n] + Leg(inst.p, Id(inst.r, n), Id(inst.r, i)))

\* Mutant: c) does not look at the capacity.
PrunedOverCapacity(x, earliest) ==
  LET n == Last(x.ne)
  IN  \/ l_at(n) < earliest[n]
      \/ /\ Len(x.e) > 1 /\ x.incremented_last
         /\ x.late - late_at(Last(x.e)) = 0
         /\ earliest[n] = a_earliest(n)

\* The condition of the do-while loop, on the updated a_earliest_temp.
Pruned(x, earliest) ==
  LET n == Last(x.ne)
  IN  \/ l_at(n) < earliest[n]
      \/ /\ Len(x.e) > 1 /\ x.incremented_last
         /\ x.late - late_at(Last(x.e)) = 0
         /\ earliest[n] = a_earliest(n)
         /\ ~capacity_violated(inst.p, inst.r)

\* Goes to x, a state after incr_k, updates e_last and s_first and tests b), c).
Goto(x) ==
  /\ st' = x
  /\ a_earliest_temp' = [i \in 0 .. tail |->
       IF i \in {Last(x.e), Last(x.s)} THEN EarliestAfter(x, i) ELSE a_earliest_temp[i]]
  /\ a_temp' = [i \in 0 .. tail |->
       IF i \in {Last(x.e), Last(x.s)} THEN MIN(EarliestAfter(x, i), l_at(i)) ELSE a_temp[i]]
  /\ pc' = IF Pruned(x, a_earliest_temp') THEN "backtrack" ELSE "test"
  /\ UNCHANGED <<inst, p_best>>
-----------------------------------------------------------------------------
Start ==
  /\ pc = "start" /\ inst.k_max > 0
  /\ Goto(incr_k(st))

NothingToEject ==
  /\ pc = "start" /\ inst.k_max <= 0
  /\ pc' = "dead"
  /\ UNCHANGED <<inst, st, a_temp, a_earliest_temp, p_best>>

\* Mutant: the lateness of the suffix is not tested.
AcceptsLateSuffix ==
  LET first == Last(st.s)
  IN  /\ st.p_sum < p_best
      /\ a_earliest_temp[first] <= l_at(first)
      /\ a_temp[first] <= LatestStarts(inst.p, inst.r)[first]
      /\ st.total_demand <= inst.p.vc

\* The constant-time test: the prefix arrives at s_first before the latest start
\* from which the suffix stays in its windows.
Accepts ==
  LET first == Last(st.s)
  IN  /\ st.p_sum < p_best
      /\ a_earliest_temp[first] <= l_at(first)
      /\ a_temp[first] <= LatestStarts(inst.p, inst.r)[first]
      /\ SuffixLateness(inst.p, inst.r)[first] = 0
      /\ st.total_demand <= inst.p.vc

Accept ==
  /\ pc = "test" /\ Accepts
  /\ p_best' = st.p_sum
  /\ pc' = "yield"
  /\ UNCHANGED <<inst, st, a_temp, a_earliest_temp>>

Reject ==
  /\ pc = "test" /\ ~Accepts
  /\ pc' = "branch"
  /\ UNCHANGED <<inst, st, a_temp, a_earliest_temp, p_best>>

\* The caller resumes the fiber, or has cancelled it before.
Resumed ==
  /\ pc = "yield"
  /\ pc' = "branch"
  /\ UNCHANGED <<inst, st, a_temp, a_earliest_temp, p_best>>

Cancelled ==
  /\ pc = "yield"
  /\ pc' = "dead"
  /\ UNCHANGED <<inst, st, a_temp, a_earliest_temp, p_best>>

\* Mutant: one customer more than k_max.
MayExtendOnceMore == st.p_sum < p_best /\ Len(st.e) <= inst.k_max

MayExtend == st.p_sum < p_best /\ Len(st.e) < inst.k_max

Extend ==
  /\ pc = "branch" /\ Last(st.s) # tail /\ MayExtend
  /\ Goto(incr_k([st EXCEPT !.incremented_last = FALSE]))

IncrementLast ==
  /\ pc = "branch" /\ Last(st.s) # tail /\ ~MayExtend
  /\ Goto(incr_k(incr_last(st)))

MustBacktrack == pc = "backtrack" \/ (pc = "branch" /\ Last(st.s) = tail)

\* Mutant: the new e_last is not given up for its successor.
BacktrackRepeating ==
  /\ MustBacktrack /\ Len(st.e) # 1
  /\ Goto(incr_k(backtrack(st)))

Backtrack ==
  /\ MustBacktrack /\ Len(st.e) # 1
  /\ Goto(incr_k(incr_last(backtrack(st))))

Exhausted ==
  /\ MustBacktrack /\ Len(st.e) = 1
  /\ st' = [st EXCEPT !.e = <<>>, !.s = Append(@, Last(st.e))]
  /\ pc' = "dead"
  /\ UNCHANGED <<inst, a_temp, a_earliest_temp, p_best>>

Next ==
  \/ Start \/ NothingToEject \/ Accept \/ Reject \/ Resumed \/ Cancelled
  \/ Extend \/ IncrementLast \/ Backtrack \/ Exhausted

\* The caller resumes the fiber until it is dead.  This is WF_vars(Next) spelled
\* out: Next is enabled where pc # "dead" and each of its steps changes vars.
Fairness == []<>(pc = "dead") \/ []<><<Next>>_vars

Spec == Init /\ [][Next]_vars /\ Fairness
-----------------------------------------------------------------------------
Searching == pc \notin {"start", "dead"}

Increasing(q) == \A i, j \in DOMAIN q : i < j => q[i] < q[j]

TypeOK ==
  /\ pc \in {"start", "test", "yield", "branch", "backtrack", "dead"}
  /\ DOMAIN st = {"ne", "e", "s", "p_sum", "total_demand", "late", "incremented_last"}
  /\ {a_temp, a_earliest_temp} \subseteq [0 .. tail -> Int]
  /\ p_best \in Nat

(***************************************************************************)
(* The three arrays always share out the nodes of the route, each in       *)
(* order, with the undecided ones behind the last ejected one: no          *)
(* backtrack through several kept customers loses or repeats one.          *)
(***************************************************************************)
StacksPartition ==
  Searching =>
    /\ Increasing(st.ne) /\ Increasing(st.e) /\ st.e # <<>>
    /\ st.s = Reverse([i \in 1 .. tail - Last(st.e) |-> Last(st.e) + i])
    /\ ToSet(st.ne) \cup ToSet(st.e) = 0 .. Last(st.e)
    /\ ToSet(st.ne) \cap ToSet(st.e) = {}

\* The sums updated at each label are those of the ejection in e, and the times
\* in a_temp are those of serving ne: the two DEBUG_ASSERT_NEAR.
SumsExact ==
  Searching =>
    LET kept == [i \in 1 .. Len(st.ne) - 1 |-> inst.r[st.ne[i + 1]]]
    IN  /\ st.p_sum = PSum(inst.ps, Ejected(inst.r, st.e))
        /\ st.total_demand = PrefixDemand(inst.p, Rest(inst.r, st.e))[Len(inst.r) - Len(st.e) + 1]
        /\ st.late = Cardinality(ToSet(st.e) \cap Late(inst.p, inst.r))
        /\ \A i \in DOMAIN st.ne :
             a_temp[st.ne[i]] = Arrivals(inst.p, kept)[i - 1]

\* The constant-time test accepts exactly the feasible ejections that improve,
\* as if the penalties of the rest of the route were computed anew.
TestExact ==
  pc = "test" => (Accepts <=> Improving(inst.p, inst.r, inst.ps, p_best, st.e))

\* At a yield insert_eject copies e as the ejection of sum *p_best: at most k_max
\* customers whose removal leaves no penalty.
YieldsFeasible ==
  pc = "yield" =>
    /\ Len(st.e) \in 1 .. inst.k_max
    /\ FeasibleEjection(inst.p, inst.r, st.e)
    /\ p_best = PSum(inst.ps, Ejected(inst.r, st.e))

LexicographicallyBefore(x, y) ==
  \/ Len(x) < Len(y) /\ x = SubSeq(y, 1, Len(x))
  \/ \E i \in DOMAIN x \cap DOMAIN y :
       x[i] < y[i] /\ SubSeq(x, 1, i - 1) = SubSeq(y, 1, i - 1)

\* ejection.h: the iteration occurs in lexicographic order, so that no ejection is
\* visited twice.
Lexicographic ==
  [][st'.e # st.e /\ pc' # "dead" => LexicographicallyBefore(st.e, st'.e)]_vars

\* What the search promises insert_eject: that it ends, and with which p_best.
Best == INSTANCE BestEjection WITH best <- p_best, ended <- pc = "dead"
FindsBestConsidered == Best!Spec

(***************************************************************************)
(* ejection.h lets only the size and p_best stop an ejection from being    *)
(* returned, and the unit test compares the result with that of all        *)
(* subsets: a search that was not cancelled leaves none that improves.     *)
(***************************************************************************)
FindsBest ==
  pc = "dead" /\ st.e = <<>> =>
    \A x \in Ejections(inst.r, inst.k_max) :
      ~Improving(inst.p, inst.r, inst.ps, p_best, x)
=============================================================================
