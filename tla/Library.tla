-------------------------------- MODULE Library --------------------------------
(***************************************************************************)
(* The libraries and the memory of solutions, which share nothing: each    *)
(* behaviour exercises one of them.                                        *)
(***************************************************************************)
EXTENDS PersistentLists, Bits, Int96, Random, SolutionObjects

VARIABLE subject  \* what is exercised

libraryVars == <<subject, persistentVars, bitVars, int96Vars, randomVars, objectVars>>

Init ==
  /\ subject \in {"lists", "bits", "int96", "random", "solutions"}
  /\ PersistentInit /\ BitsInit /\ Int96Init /\ RandomInit /\ ObjectsInit
  /\ subject = "lists" \/ \A h \in Heads : lists[h] = <<>>
  /\ subject = "random" \/ state = pseudo_random_seed(0)
  /\ subject = "solutions" \/ s0.n_routes = 1

ListsStep ==
  /\ subject = "lists" /\ PersistentNext
  /\ UNCHANGED <<subject, bitVars, int96Vars, randomVars, objectVars>>

BitsStep ==
  /\ subject = "bits" /\ BitsNext
  /\ UNCHANGED <<subject, persistentVars, int96Vars, randomVars, objectVars>>

Int96Step ==
  /\ subject = "int96" /\ Int96Next
  /\ UNCHANGED <<subject, persistentVars, bitVars, randomVars, objectVars>>

RandomStep ==
  /\ subject = "random" /\ RandomNext
  /\ UNCHANGED <<subject, persistentVars, bitVars, int96Vars, objectVars>>

SolutionsStep ==
  /\ subject = "solutions" /\ ObjectsNext
  /\ UNCHANGED <<subject, persistentVars, bitVars, int96Vars, randomVars>>

Next == ListsStep \/ BitsStep \/ Int96Step \/ RandomStep \/ SolutionsStep

Spec == Init /\ [][Next]_libraryVars
=============================================================================
