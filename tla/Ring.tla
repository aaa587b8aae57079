-------------------------------- MODULE Ring --------------------------------
(***************************************************************************)
(* What SharedDataSlice promises to the attackers that draw from it: the   *)
(* data are handed out one at a time, in the order they were added, from   *)
(* the first again after the last, and one that is added is handed out     *)
(* after those before it.                                                  *)
(***************************************************************************)
EXTENDS Naturals, Sequences

CONSTANT Datums

VARIABLES
  data,    \* in the order they were added
  next,    \* how many of this round were handed out
  handed   \* history: the data handed out, each with how many there were

vars == <<data, next, handed>>

Init == next = 0 /\ handed = <<>>

Get ==
  /\ data # <<>>
  /\ LET pos == IF next < Len(data) THEN next ELSE 0 IN
       /\ handed' = Append(handed, [datum |-> data[pos + 1], of |-> Len(data)])
       /\ next' = pos + 1
  /\ UNCHANGED data

Add ==
  /\ \E d \in Datums : data' = Append(data, d)
  /\ UNCHANGED <<next, handed>>

Next == Get \/ Add

Spec == Init /\ [][Next]_vars
=============================================================================
