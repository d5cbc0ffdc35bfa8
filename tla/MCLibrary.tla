------------------------------- MODULE MCLibrary -------------------------------
(***************************************************************************)
(* Instances of the libraries for TLC.                                     *)
(***************************************************************************)
EXTENDS Library, TLC

CONSTANTS h1, h2, i1, i2, i3

MCHeads == {h1, h2}
MCItems == {i1, i2, i3}

Symmetry == Permutations(MCHeads) \cup Permutations(MCItems)
=============================================================================
