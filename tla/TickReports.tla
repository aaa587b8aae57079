----------------------------- MODULE TickReports -----------------------------
(***************************************************************************)
(* What a run promises to the reader of its reports.  The scheduler cuts   *)
(* the stream of requests into ticks, numbered from 1; a tick is closed    *)
(* once its last request was fired.  A closed tick may be reported, in any *)
(* order, with the number of its requests and at most once; a tick still   *)
(* being fired is never reported; and nothing is reported once the run has *)
(* ended.                                                                  *)
(***************************************************************************)
EXTENDS Naturals, Sequences

CONSTANT Sizes   \* how many requests a tick may have

VARIABLES
  closed,    \* the numbers of requests of the closed ticks
  reported,  \* the reports, in order: [tick, requests]
  ended      \* the run returned to its caller

vars == <<closed, reported, ended>>

Init ==
  /\ closed = <<>>
  /\ reported = <<>>
  /\ ended = FALSE

\* The scheduler fires the last request of the current tick.
CloseTick ==
  /\ \E n \in Sizes : closed' = Append(closed, n)
  /\ UNCHANGED <<reported, ended>>

\* The collector reports a closed tick for the first time.
Report ==
  /\ ~ended
  /\ \E t \in DOMAIN closed :
       /\ \A i \in DOMAIN reported : reported[i].tick # t
       /\ reported' = Append(reported, [tick |-> t, requests |-> closed[t]])
  /\ UNCHANGED <<closed, ended>>

\* The run returns.
End ==
  /\ ~ended
  /\ ended' = TRUE
  /\ UNCHANGED <<closed, reported>>

Next == CloseTick \/ Report \/ End

Spec == Init /\ [][Next]_vars
==============================================================================
