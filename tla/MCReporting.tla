----------------------------- MODULE MCReporting -----------------------------
(***************************************************************************)
(* Small reports for TLC.                                                  *)
(***************************************************************************)
EXTENDS Reporting

\* Three ticks, the second of two requests.
OneTwoOne == <<1, 2, 1>>

Sample(b, e, error, code) == [Begin |-> b, End |-> e, Error |-> error, StatusCode |-> code]

\* In half seconds: a quick success, a slow one that began later, and a failure
\* that began with the first, and a request refused at once.
FewSamples ==
  {Sample(1, 2, "", 0), Sample(2, 5, "", 200), Sample(1, 3, "", 500),
   Sample(4, 4, "refused", 0)}
=============================================================================
