------------------------------ MODULE MCCluster ------------------------------
(***************************************************************************)
(* Two nodes with one client, and one node with two, for TLC.              *)
(***************************************************************************)
EXTENDS Cluster, TLC

CONSTANTS n1, n2, c1, c2

OneNode    == {n1}
TwoNodes   == {n1, n2}
OneClient  == {c1}
TwoClients == {c1, c2}
OneTick  == {1}
TwoTicks == {1, 2}

Symmetry == Permutations(TwoNodes)
==============================================================================
