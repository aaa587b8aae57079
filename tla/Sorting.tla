------------------------------ MODULE Sorting -------------------------------
(***************************************************************************)
(* Values in order, told without sorting them: a value stands at place k   *)
(* if fewer than k values are below it and at least k are not above it.    *)
(***************************************************************************)
EXTENDS Integers, SequencesExt

UpToValue(x, values) == {i \in DOMAIN values : values[i] <= x}
BelowValue(x, values) == {i \in DOMAIN values : values[i] < x}

IsAt(x, k, values) ==
  Cardinality(BelowValue(x, values)) < k /\ k <= Cardinality(UpToValue(x, values))

\* What stands at place k.
Ranked(k, values) == CHOOSE x \in Range(values) : IsAt(x, k, values)
=============================================================================
