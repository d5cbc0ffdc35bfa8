------------------------------- MODULE MCFibers -------------------------------
(***************************************************************************)
(* Instances of Fibers for TLC.                                            *)
(***************************************************************************)
EXTENDS Fibers, TLC

CONSTANTS f1, f2, f3, e1, e2, e3

MCFibers == {f1, f2, f3}
MCAreas == MCFibers \cup {Sched}
MCErrors == {e1, e2, e3}

Symmetry == Permutations(MCFibers) \cup Permutations(MCErrors)
=============================================================================
