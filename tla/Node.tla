--------------------------------- MODULE Node ---------------------------------
(***************************************************************************)
(* The gRPC service of the nodes, service.go.  A node serves its calls     *)
(* concurrently: Status, Run and ShutdownNode of any client.  Each call of *)
(* Run that gets past the busy check starts a run, which is all that       *)
(* StreamedRun says of one, and streams its batches to its caller.         *)
(***************************************************************************)
EXTENDS Naturals, FiniteSets, Sequences

CONSTANTS
  Nodes,
  Callers,        \* clients; each calls Run once on a node
  Ticks,          \* the ticks a run may report
  QueueCapacity,  \* capacity of OutResults
  WireCapacity,   \* responses in transit before Send blocks
  MayCrash,       \* a node may die: signal handler, invalid configuration
  None            \* no caller

ASSUME NodeAssumption ==
  /\ Nodes # {} /\ IsFiniteSet(Nodes)
  /\ Callers # {} /\ IsFiniteSet(Callers)
  /\ QueueCapacity \in Nat \ {0}
  /\ WireCapacity \in Nat \ {0}
  /\ MayCrash \in BOOLEAN
  /\ None \notin Callers

VARIABLES
  up,                \* the process of the node is alive
  busy,              \* TestPolicy.busy of the node
  runnerCancelFunc,  \* whose run the cancel function of the node belongs to
  handler,           \* control state of each Run call
  started, emitted, queue, pending, failures, cancelled, over,   \* its run
  wire,              \* responses sent and not yet received
  linked             \* the stream of the call is intact

serverVars == <<busy, runnerCancelFunc>>
runVars    == <<started, emitted, queue, pending, failures, cancelled, over>>
linkVars   == <<wire, linked>>
nodeVars   == <<up, serverVars, handler, runVars, linkVars>>

PerCall(x) == [n \in Nodes |-> [c \in Callers |-> x]]

NodeInit ==
  /\ up = [n \in Nodes |-> TRUE]
  /\ busy = [n \in Nodes |-> FALSE]
  /\ runnerCancelFunc = [n \in Nodes |-> None]
  /\ handler = PerCall("idle")
  /\ started = PerCall(FALSE)
  /\ emitted = PerCall({})
  /\ queue = PerCall(<<>>)
  /\ pending = PerCall(FALSE)
  /\ failures = PerCall(0)
  /\ cancelled = PerCall(FALSE)
  /\ over = PerCall(FALSE)
  /\ wire = PerCall(<<>>)
  /\ linked = PerCall(FALSE)

\* Handler c of node n goes from one control state to the next.
Goes(n, c, from, to) ==
  /\ up[n]
  /\ handler[n][c] = from
  /\ handler' = [handler EXCEPT ![n][c] = to]

-----------------------------------------------------------------------------
(* Run *)

\* The call reaches the node.
RunArrives(n, c) ==
  /\ Goes(n, c, "idle", "check")
  /\ linked' = [linked EXCEPT ![n][c] = TRUE]
  /\ UNCHANGED <<up, serverVars, runVars, wire>>

\* Mutant of RunChecksBusy: the busy flag is ignored.
RunIgnoresBusy(n, c) ==
  /\ Goes(n, c, "check", "claim")
  /\ UNCHANGED <<up, serverVars, runVars, linkVars>>

\* A busy node ends the call with no response and no error.
RunChecksBusy(n, c) ==
  /\ Goes(n, c, "check", IF busy[n] THEN "returned" ELSE "claim")
  /\ UNCHANGED <<up, serverVars, runVars, linkVars>>

RunSetsBusy(n, c) ==
  /\ Goes(n, c, "claim", "build")
  /\ busy' = [busy EXCEPT ![n] = TRUE]
  /\ UNCHANGED <<up, runnerCancelFunc, runVars, linkVars>>

\* The runner is built, its context made cancellable for ShutdownNode, and the
\* run started in a goroutine of its own.
RunStarts(n, c) ==
  /\ Goes(n, c, "build", "stream")
  /\ runnerCancelFunc' = [runnerCancelFunc EXCEPT ![n] = c]
  /\ started' = [started EXCEPT ![n][c] = TRUE]
  /\ UNCHANGED <<up, busy, emitted, queue, pending, failures, cancelled, over, linkVars>>

\* Mutant of StreamSends: Send waits for a stream that is broken.
StreamSendsOrWaits(n, c) ==
  /\ Goes(n, c, "stream", "failed?")
  /\ queue[n][c] # <<>>
  /\ linked[n][c]
  /\ Len(wire[n][c]) < WireCapacity
  /\ queue' = [queue EXCEPT ![n][c] = Tail(@)]
  /\ wire' = [wire EXCEPT ![n][c] = Append(@, Head(queue[n][c]))]
  /\ UNCHANGED <<up, serverVars, started, emitted, pending, failures, cancelled, over, linked>>

\* Send puts a batch on the stream, or fails when the stream is broken, which is
\* logged and changes nothing.
StreamSends(n, c) ==
  /\ Goes(n, c, "stream", "failed?")
  /\ queue[n][c] # <<>>
  /\ queue' = [queue EXCEPT ![n][c] = Tail(@)]
  /\ \/ /\ linked[n][c]
        /\ Len(wire[n][c]) < WireCapacity
        /\ wire' = [wire EXCEPT ![n][c] = Append(@, Head(queue[n][c]))]
     \/ /\ ~linked[n][c]
        /\ UNCHANGED wire
  /\ UNCHANGED <<up, serverVars, started, emitted, pending, failures, cancelled, over, linked>>

StreamChecksFailed(n, c) ==
  /\ Goes(n, c, "failed?", "stream")
  /\ cancelled' = [cancelled EXCEPT ![n][c] = @ \/ failures[n][c] = 1]
  /\ UNCHANGED <<up, serverVars, started, emitted, queue, pending, failures, over, linkVars>>

\* OutResults is closed and drained.
StreamEnds(n, c) ==
  /\ Goes(n, c, "stream", "release")
  /\ queue[n][c] = <<>>
  /\ over[n][c]
  /\ UNCHANGED <<up, serverVars, runVars, linkVars>>

\* Mutant of RunReturns: the node stays busy.
RunReturnsBusy(n, c) ==
  /\ Goes(n, c, "release", "returned")
  /\ UNCHANGED <<up, serverVars, runVars, linkVars>>

RunReturns(n, c) ==
  /\ Goes(n, c, "release", "returned")
  /\ busy' = [busy EXCEPT ![n] = FALSE]
  /\ UNCHANGED <<up, runnerCancelFunc, runVars, linkVars>>

-----------------------------------------------------------------------------
(* The run of a call, as StreamedRun has it *)

RunEmits(n, c) ==
  /\ up[n]
  /\ started[n][c] /\ ~pending[n][c] /\ ~over[n][c]
  /\ Len(queue[n][c]) < QueueCapacity
  /\ \E t \in Ticks \ emitted[n][c], bad \in BOOLEAN :
       /\ emitted' = [emitted EXCEPT ![n][c] = @ \cup {t}]
       /\ queue' = [queue EXCEPT ![n][c] = Append(@, [tick |-> t, bad |-> bad])]
       /\ pending' = [pending EXCEPT ![n][c] = bad]
  /\ UNCHANGED <<up, serverVars, handler, started, failures, cancelled, over, linkVars>>

RunFails(n, c) ==
  /\ up[n]
  /\ pending[n][c]
  /\ pending' = [pending EXCEPT ![n][c] = FALSE]
  /\ failures' = [failures EXCEPT ![n][c] = @ + 1]
  /\ cancelled' = [cancelled EXCEPT ![n][c] = TRUE]
  /\ UNCHANGED <<up, serverVars, handler, started, emitted, queue, over, linkVars>>

\* Mutant of RunTimesOut: the end of the test closes the queue as well.
RunTimesOutAndCloses(n, c) ==
  /\ up[n]
  /\ started[n][c]
  /\ ~cancelled[n][c]
  /\ cancelled' = [cancelled EXCEPT ![n][c] = TRUE]
  /\ over' = [over EXCEPT ![n][c] = TRUE]
  /\ UNCHANGED <<up, serverVars, handler, started, emitted, queue, pending, failures,
                 linkVars>>

\* TestTimeSec passes on the node.
RunTimesOut(n, c) ==
  /\ up[n]
  /\ started[n][c]
  /\ ~cancelled[n][c]
  /\ cancelled' = [cancelled EXCEPT ![n][c] = TRUE]
  /\ UNCHANGED <<up, serverVars, handler, started, emitted, queue, pending, failures,
                 over, linkVars>>

RunCloses(n, c) ==
  /\ up[n]
  /\ started[n][c] /\ cancelled[n][c] /\ ~pending[n][c] /\ ~over[n][c]
  /\ over' = [over EXCEPT ![n][c] = TRUE]
  /\ UNCHANGED <<up, serverVars, handler, started, emitted, queue, pending, failures,
                 cancelled, linkVars>>

-----------------------------------------------------------------------------
(* ShutdownNode, crashes, and what the callers do to the node *)

\* The run that was started last is cancelled, whoever asks; before the first
\* run nothing is.
ShutdownNode(n) ==
  /\ up[n]
  /\ cancelled' = IF runnerCancelFunc[n] = None THEN cancelled
                  ELSE [cancelled EXCEPT ![n][runnerCancelFunc[n]] = TRUE]
  /\ UNCHANGED <<up, serverVars, handler, started, emitted, queue, pending, failures,
                 over, linkVars>>

\* The process dies, and with it its calls and their streams.
Crash(n) ==
  /\ MayCrash
  /\ up[n]
  /\ up' = [up EXCEPT ![n] = FALSE]
  /\ linked' = [linked EXCEPT ![n] = [c \in Callers |-> FALSE]]
  /\ wire' = [wire EXCEPT ![n] = [c \in Callers |-> <<>>]]
  /\ UNCHANGED <<serverVars, handler, runVars>>

\* The context of the caller ends: what is in transit is lost.
HangUp(n, c) ==
  /\ linked[n][c]
  /\ linked' = [linked EXCEPT ![n][c] = FALSE]
  /\ wire' = [wire EXCEPT ![n][c] = <<>>]
  /\ UNCHANGED <<up, serverVars, handler, runVars>>

\* The caller takes a response from the stream.
Receive(n, c) ==
  /\ wire[n][c] # <<>>
  /\ wire' = [wire EXCEPT ![n][c] = Tail(@)]
  /\ UNCHANGED <<up, serverVars, handler, runVars, linked>>

-----------------------------------------------------------------------------
Handler(n, c) ==
  \/ RunChecksBusy(n, c) \/ RunSetsBusy(n, c) \/ RunStarts(n, c)
  \/ StreamSends(n, c) \/ StreamChecksFailed(n, c) \/ StreamEnds(n, c)
  \/ RunReturns(n, c)
StreamedRunStep(n, c) ==
  RunEmits(n, c) \/ RunFails(n, c) \/ RunTimesOut(n, c) \/ RunCloses(n, c)

NodeStep(n, c) == Handler(n, c) \/ StreamedRunStep(n, c)

NodeNext ==
  \E n \in Nodes :
    \/ \E c \in Callers : \/ RunArrives(n, c) \/ NodeStep(n, c)
                          \/ HangUp(n, c) \/ Receive(n, c)
    \/ ShutdownNode(n)
    \/ Crash(n)

NodeSpec == NodeInit /\ [][NodeNext]_nodeVars

\* The node does its part: handlers and runs go on, the test time passes.
NodeFairness ==
  \A n \in Nodes, c \in Callers :
    /\ WF_nodeVars(Handler(n, c))
    /\ WF_nodeVars(RunFails(n, c))
    /\ WF_nodeVars(RunTimesOut(n, c))
    /\ WF_nodeVars(RunCloses(n, c))

\* A caller goes on receiving until the stream breaks, or breaks it.
CallerFairness ==
  \A n \in Nodes, c \in Callers : WF_nodeVars(Receive(n, c) \/ HangUp(n, c))

\* Calls of Run that arrive one after the other: nobody checks busy while another
\* call is between its check and the flag.
Claiming(n, c) == handler[n][c] = "claim"

NoOverlap ==
  \A n \in Nodes, c, d \in Callers :
    Claiming(n, d) /\ handler[n][c] = "check" => handler'[n][c] = "check"

SerialSpec ==
  /\ NodeInit
  /\ [][NodeNext /\ NoOverlap]_nodeVars
  /\ NodeFairness
  /\ CallerFairness

-----------------------------------------------------------------------------
(* Properties *)

Batches == [tick : Ticks, bad : BOOLEAN]
PerCallIn(S) == [Nodes -> [Callers -> S]]

\* The shape of the state of the nodes.
NodeTypeOK ==
  /\ up \in [Nodes -> BOOLEAN]
  /\ busy \in [Nodes -> BOOLEAN]
  /\ runnerCancelFunc \in [Nodes -> Callers \cup {None}]
  /\ handler \in PerCallIn({"idle", "check", "claim", "build", "stream", "failed?",
                            "release", "returned"})
  /\ started \in PerCallIn(BOOLEAN)
  /\ emitted \in PerCallIn(SUBSET Ticks)
  /\ queue \in PerCallIn(Seq(Batches))
  /\ pending \in PerCallIn(BOOLEAN)
  /\ failures \in PerCallIn(Nat)
  /\ cancelled \in PerCallIn(BOOLEAN)
  /\ over \in PerCallIn(BOOLEAN)
  /\ wire \in PerCallIn(Seq(Batches))
  /\ linked \in PerCallIn(BOOLEAN)
  /\ \A n \in Nodes, c \in Callers : /\ Len(queue[n][c]) <= QueueCapacity
                                     /\ Len(wire[n][c]) <= WireCapacity

\* The run of call c on node n occupies the node.
Occupies(n, c) == handler[n][c] \in {"build", "stream", "failed?", "release"}

\* With calls that do not overlap in the busy check, a node has one runner at a
\* time, is busy exactly while it has one, and ShutdownNode would cancel that one
\* and no other (service.go:66-91).
OneRunAtATime ==
  \A n \in Nodes : up[n] =>
    /\ \A c, d \in Callers : Occupies(n, c) /\ Occupies(n, d) => c = d
    /\ busy[n] <=> \E c \in Callers : Occupies(n, c)
    /\ \A c \in Callers :
         Occupies(n, c) /\ handler[n][c] # "build" => runnerCancelFunc[n] = c

\* What the node does to a run, starting, draining, cancelling and closing it, keeps
\* it one that StreamedRun describes, also while two calls share the node and when it
\* dies (service.go:40-57, service.go:77-91): in particular a run ends only after it
\* was cancelled, and no batch is queued twice.
RunOf(n, c) == INSTANCE StreamedRun WITH
  Capacity <- QueueCapacity, started <- started[n][c], emitted <- emitted[n][c],
  queue <- queue[n][c], pending <- pending[n][c], failures <- failures[n][c],
  cancelled <- cancelled[n][c], over <- over[n][c]

RunsAreStreamed ==
  /\ \A n \in Nodes, c \in Callers : RunOf(n, c)!Init
  /\ [][\A n \in Nodes, c \in Callers : [RunOf(n, c)!Next]_(RunOf(n, c)!vars)]_nodeVars

\* A node that took a call is free again in the end, whatever became of the caller
\* (service.go:81-83), unless it dies.
NodeFreesItself ==
  \A n \in Nodes, c \in Callers :
    handler[n][c] = "claim" ~> (handler[n][c] = "returned" \/ ~up[n])

\* No node is busy for ever when all calls have returned.
BusyEnds ==
  \A n \in Nodes :
    (\A c \in Callers : handler[n][c] = "returned") => ~busy[n]

-----------------------------------------------------------------------------
(* What a comment says of the node, and the code does not do *)

\* service.go:16, "only one runner is allowed per node".
OneRunnerPerNode ==
  \A n \in Nodes, c, d \in Callers : Occupies(n, c) /\ Occupies(n, d) => c = d
==============================================================================
