------------------------------ MODULE MCConfig -------------------------------
(***************************************************************************)
(* Small configurations for TLC.  Negative values are what a user may      *)
(* write by mistake; the ranges hold values below, at and above the number *)
(* of nodes.                                                               *)
(***************************************************************************)
EXTENDS Config

AllModes  == {"BoundRPS", "BoundRPSAutoscale", "UnboundRPS"}
Amounts   == {0, 1, 2, 3, 5}
Rates     == {-1, 0, 1, 2, 3, 5}
Steps     == {-1, 0, 1, 3}
Durations == {-1, 0, 2}
Timeouts  == {0, 1}
Positive  == {1}
==============================================================================
