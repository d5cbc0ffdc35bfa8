---------------------------- MODULE RouteMinimizer ----------------------------
(***************************************************************************)
(* What the solver promises its caller: it always holds a solution that    *)
(* serves every customer exactly once within the constraints, replaces it  *)
(* only by another such solution with one route less, and at some time     *)
(* returns it for good.                                                    *)
(***************************************************************************)
EXTENDS Integers, Sequences

CONSTANTS Customer, RouteFeasible(_)

VARIABLES best,     \* the routes of the solution held
          returned  \* whether it was returned to the caller

vars == <<best, returned>>

ServesAllOnce(rts) ==
  /\ \A c \in Customer : \E x \in DOMAIN rts : \E i \in DOMAIN rts[x] : rts[x][i] = c
  /\ \A x, y \in DOMAIN rts : \A i \in DOMAIN rts[x], j \in DOMAIN rts[y] :
       rts[x][i] = rts[y][j] => x = y /\ i = j

Solves(rts) ==
  /\ ServesAllOnce(rts)
  /\ \A x \in DOMAIN rts : RouteFeasible(rts[x])

Init == Solves(best) /\ returned = FALSE

RemoveRoute ==
  /\ ~returned
  /\ Solves(best')
  /\ Len(best') = Len(best) - 1
  /\ UNCHANGED returned

Return ==
  /\ ~returned
  /\ returned' = TRUE
  /\ UNCHANGED best

Next == RemoveRoute \/ Return

Spec == Init /\ [][Next]_vars /\ WF_vars(Return)
=============================================================================
