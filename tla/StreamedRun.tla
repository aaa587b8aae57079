----------------------------- MODULE StreamedRun -----------------------------
(***************************************************************************)
(* What a node relies on when it streams the batches of a run.  Each batch *)
(* is of a tick that had none before, in any order; a batch below the      *)
(* success ratio fails the run just after it was queued, and a failed run  *)
(* is cancelled; a cancelled run may still queue batches until it closes   *)
(* the queue, which it does only after it was cancelled.                   *)
(***************************************************************************)
EXTENDS Naturals, Sequences

CONSTANTS Ticks, Capacity

VARIABLES
  started,   \* the run was started
  emitted,   \* the ticks that had a batch
  queue,     \* batches nobody has taken: [tick, bad]
  pending,   \* the last batch was bad and has not failed the run yet
  failures,  \* how often the run failed
  cancelled,
  over       \* the queue is closed

vars == <<started, emitted, queue, pending, failures, cancelled, over>>

Init ==
  /\ started \in BOOLEAN
  /\ emitted = {}
  /\ queue = <<>>
  /\ pending = FALSE
  /\ failures = 0
  /\ cancelled = FALSE
  /\ over = FALSE

Start ==
  /\ ~started
  /\ started' = TRUE
  /\ UNCHANGED <<emitted, queue, pending, failures, cancelled, over>>

Emit ==
  /\ started /\ ~pending /\ ~over
  /\ Len(queue) < Capacity
  /\ \E t \in Ticks \ emitted, bad \in BOOLEAN :
       /\ emitted' = emitted \cup {t}
       /\ queue' = Append(queue, [tick |-> t, bad |-> bad])
       /\ pending' = bad
  /\ UNCHANGED <<started, failures, cancelled, over>>

Fail ==
  /\ pending
  /\ pending' = FALSE
  /\ failures' = failures + 1
  /\ cancelled' = TRUE
  /\ UNCHANGED <<started, emitted, queue, over>>

Take ==
  /\ queue # <<>>
  /\ queue' = Tail(queue)
  /\ UNCHANGED <<started, emitted, pending, failures, cancelled, over>>

\* The time of the test is up, or somebody cancels it.
Cancel ==
  /\ cancelled' = TRUE
  /\ UNCHANGED <<started, emitted, queue, pending, failures, over>>

Close ==
  /\ started /\ cancelled /\ ~pending
  /\ over' = TRUE
  /\ UNCHANGED <<started, emitted, queue, pending, failures, cancelled>>

Next == Start \/ Emit \/ Fail \/ Take \/ Cancel \/ Close

Spec == Init /\ [][Next]_vars
==============================================================================
