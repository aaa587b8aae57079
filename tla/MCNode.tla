-------------------------------- MODULE MCNode --------------------------------
(***************************************************************************)
(* One node and two callers for TLC.                                       *)
(***************************************************************************)
EXTENDS Node, TLC

CONSTANTS n1, c1, c2

OneNode    == {n1}
TwoCallers == {c1, c2}
TwoTicks   == {1, 2}

CallerSymmetry == Permutations(TwoCallers)
==============================================================================
