------------------------------ MODULE MCRunner ------------------------------
(***************************************************************************)
(* Small runs for TLC.                                                     *)
(***************************************************************************)
EXTENDS RunnerInvariant, TLC

CONSTANTS a1, a2, a3

Pool  == {a1, a2}
Pool3 == {a1, a2, a3}
One   == {a1}

\* Attackers of the pool are interchangeable unless only some of them start.
PoolSymmetry == Permutations(Pool)

=============================================================================
