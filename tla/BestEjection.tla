----------------------------- MODULE BestEjection -----------------------------
(***************************************************************************)
(* What insert_eject relies on when it runs feasible_ejections_f: each     *)
(* report lowers the best sum of p to that of a feasible ejection, and the *)
(* search ends, with none left among those it considers unless it was      *)
(* cancelled.  EamaSolver takes these steps for the search.                *)
(***************************************************************************)
EXTENDS Ejection

VARIABLES inst,   \* the problem p, route r, sums ps and bound k_max searched
          best,   \* the least sum of p reported so far
          ended   \* whether the search has returned

vars == <<inst, best, ended>>

Report ==
  /\ ~ended /\ best' < best
  /\ \E x \in Ejections(inst.r, inst.k_max) :
       /\ Improving(inst.p, inst.r, inst.ps, best, x)
       /\ best' = PSum(inst.ps, Ejected(inst.r, x))
  /\ UNCHANGED <<inst, ended>>

End ==
  /\ ~ended /\ ended' = TRUE
  /\ NoneLeft(inst.p, inst.r, inst.k_max, inst.ps, best)
  /\ UNCHANGED <<inst, best>>

\* The caller stops the search after a report.
Cancel ==
  /\ ~ended /\ best < inst.p_best
  /\ ended' = TRUE
  /\ UNCHANGED <<inst, best>>

Next == Report \/ End \/ Cancel

Spec == best = inst.p_best /\ ~ended /\ [][Next]_vars /\ <>ended
=============================================================================
