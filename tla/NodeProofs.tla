----------------------------- MODULE NodeProofs -----------------------------
(***************************************************************************)
(* Proofs about Node: one runner at a time, a node that is free again, and *)
(* what the node does to each of its runs, for any nodes and callers.      *)
(***************************************************************************)
EXTENDS Node, SequenceTheorems, TLAPS

-----------------------------------------------------------------------------
(* Queues, and functions of a node and a caller *)

LEMMA QueueAppend ==
  ASSUME NEW S, NEW s \in Seq(S), NEW e \in S
  PROVE  /\ Append(s, e) \in Seq(S)
         /\ Len(Append(s, e)) = Len(s) + 1
         /\ \A i \in 1 .. Len(s) : Append(s, e)[i] = s[i]
         /\ Append(s, e)[Len(s) + 1] = e
BY AppendProperties

LEMMA QueueTail ==
  ASSUME NEW S, NEW s \in Seq(S), s # <<>>
  PROVE  /\ Head(s) \in S
         /\ Head(s) = s[1]
         /\ Tail(s) \in Seq(S)
         /\ Len(s) \in Nat \ {0}
         /\ Len(Tail(s)) = Len(s) - 1
         /\ \A i \in 1 .. Len(s) - 1 : Tail(s)[i] = s[i + 1]
BY HeadTailProperties

\* One call of one node changes.
LEMMA PerCallUpdate ==
  ASSUME NEW S, NEW f \in PerCallIn(S), NEW n \in Nodes, NEW c \in Callers, NEW v \in S
  PROVE  /\ [f EXCEPT ![n][c] = v] \in PerCallIn(S)
         /\ [f EXCEPT ![n][c] = v][n][c] = v
         /\ \A m \in Nodes, d \in Callers :
              m # n \/ d # c => [f EXCEPT ![n][c] = v][m][d] = f[m][d]
BY DEF PerCallIn

\* The other calls do not, whatever the value.
LEMMA PerCallOthers ==
  ASSUME NEW S, NEW f \in PerCallIn(S), NEW n \in Nodes, NEW c \in Callers, NEW v
  PROVE  \A m \in Nodes, d \in Callers :
           m # n \/ d # c => [f EXCEPT ![n][c] = v][m][d] = f[m][d]
BY DEF PerCallIn

LEMMA FlagUpdate ==
  ASSUME NEW f \in PerCallIn(BOOLEAN), NEW n \in Nodes, NEW c \in Callers,
         NEW g \in {f, [f EXCEPT ![n][c] = TRUE], [f EXCEPT ![n][c] = FALSE]}
  PROVE  g \in PerCallIn(BOOLEAN)
<1>1. [f EXCEPT ![n][c] = TRUE] \in PerCallIn(BOOLEAN)
  BY DEF PerCallIn
<1>2. [f EXCEPT ![n][c] = FALSE] \in PerCallIn(BOOLEAN)
  BY DEF PerCallIn
<1> QED BY <1>1, <1>2

\* A queue or a wire stays within its capacity.
LEMMA StreamUpdate ==
  ASSUME NEW f \in PerCallIn(Seq(Batches)), NEW n \in Nodes, NEW c \in Callers,
         NEW v \in Seq(Batches), NEW k \in Nat, Len(v) <= k,
         \A m \in Nodes, d \in Callers : Len(f[m][d]) <= k
  PROVE  /\ [f EXCEPT ![n][c] = v] \in PerCallIn(Seq(Batches))
         /\ \A m \in Nodes, d \in Callers : Len([f EXCEPT ![n][c] = v][m][d]) <= k
<1> DEFINE g == [f EXCEPT ![n][c] = v]
<1>1. /\ g \in PerCallIn(Seq(Batches))
      /\ g[n][c] = v
      /\ \A m \in Nodes, d \in Callers : m # n \/ d # c => g[m][d] = f[m][d]
  <2>1. [f EXCEPT ![n][c] = v] \in PerCallIn(Seq(Batches))
    BY DEF PerCallIn
  <2>2. [f EXCEPT ![n][c] = v][n][c] = v
    BY DEF PerCallIn
  <2>3. \A m \in Nodes, d \in Callers : m # n \/ d # c => [f EXCEPT ![n][c] = v][m][d] = f[m][d]
    BY PerCallOthers
  <2> QED BY <2>1, <2>2, <2>3
<1> HIDE DEF g
<1>2. ASSUME NEW m \in Nodes, NEW d \in Callers PROVE Len(g[m][d]) <= k
  BY <1>1
<1> QED BY <1>1, <1>2 DEF g

-----------------------------------------------------------------------------
(* Type correctness *)

HandlerStates ==
  {"idle", "check", "claim", "build", "stream", "failed?", "release", "returned"}

\* NodeTypeOK without the capacities, part by part.
ServerTyped ==
  /\ up \in [Nodes -> BOOLEAN]
  /\ busy \in [Nodes -> BOOLEAN]
  /\ runnerCancelFunc \in [Nodes -> Callers \cup {None}]
  /\ handler \in PerCallIn(HandlerStates)

FlagsTyped ==
  /\ started \in PerCallIn(BOOLEAN)
  /\ emitted \in PerCallIn(SUBSET Ticks)
  /\ pending \in PerCallIn(BOOLEAN)
  /\ failures \in PerCallIn(Nat)
  /\ cancelled \in PerCallIn(BOOLEAN)
  /\ over \in PerCallIn(BOOLEAN)

QueueTyped ==
  /\ queue \in PerCallIn(Seq(Batches))
  /\ \A n \in Nodes, c \in Callers : Len(queue[n][c]) <= QueueCapacity

WireTyped ==
  /\ wire \in PerCallIn(Seq(Batches))
  /\ linked \in PerCallIn(BOOLEAN)
  /\ \A n \in Nodes, c \in Callers : Len(wire[n][c]) <= WireCapacity

LEMMA NodeTyped == NodeTypeOK <=> ServerTyped /\ FlagsTyped /\ QueueTyped /\ WireTyped
<1>1. NodeTypeOK => ServerTyped /\ FlagsTyped /\ QueueTyped /\ WireTyped
  BY DEF NodeTypeOK, ServerTyped, FlagsTyped, QueueTyped, WireTyped, HandlerStates
<1>2. ServerTyped /\ FlagsTyped /\ QueueTyped /\ WireTyped => NodeTypeOK
  BY DEF NodeTypeOK, ServerTyped, FlagsTyped, QueueTyped, WireTyped, HandlerStates
<1> QED BY <1>1, <1>2

LEMMA NodeInitTyped == NodeInit => NodeTypeOK
<1> SUFFICES ASSUME NodeInit PROVE NodeTypeOK
  OBVIOUS
<1>1. ServerTyped
  BY DEF NodeInit, ServerTyped, PerCall, PerCallIn, HandlerStates
<1>2. FlagsTyped
  BY DEF NodeInit, FlagsTyped, PerCall, PerCallIn
<1>3. QueueTyped
  BY NodeAssumption DEF NodeInit, QueueTyped, PerCall, PerCallIn
<1>4. WireTyped
  BY NodeAssumption DEF NodeInit, WireTyped, PerCall, PerCallIn
<1> QED BY <1>1, <1>2, <1>3, <1>4, NodeTyped

LEMMA FrameTyped ==
  ASSUME NodeTypeOK
  PROVE  /\ UNCHANGED <<up, busy, runnerCancelFunc, handler>> => ServerTyped'
         /\ UNCHANGED <<started, emitted, pending, failures, cancelled, over>> => FlagsTyped'
         /\ UNCHANGED queue => QueueTyped'
         /\ UNCHANGED <<wire, linked>> => WireTyped'
<1>1. ServerTyped /\ FlagsTyped /\ QueueTyped /\ WireTyped
  BY NodeTyped
<1>2. UNCHANGED <<up, busy, runnerCancelFunc, handler>> => ServerTyped'
  BY <1>1 DEF ServerTyped
<1>3. UNCHANGED <<started, emitted, pending, failures, cancelled, over>> => FlagsTyped'
  BY <1>1 DEF FlagsTyped
<1>4. UNCHANGED queue => QueueTyped'
  BY <1>1 DEF QueueTyped
<1>5. UNCHANGED <<wire, linked>> => WireTyped'
  BY <1>1 DEF WireTyped
<1> QED BY <1>2, <1>3, <1>4, <1>5

\* A handler goes on, and the node may become busy, free, or take a cancel function.
LEMMA GoesTyped ==
  ASSUME NodeTypeOK, NEW n \in Nodes, NEW c \in Callers,
         NEW from \in HandlerStates, NEW to \in HandlerStates, Goes(n, c, from, to),
         UNCHANGED up,
         busy' \in {busy, [busy EXCEPT ![n] = TRUE], [busy EXCEPT ![n] = FALSE]},
         runnerCancelFunc' \in {runnerCancelFunc, [runnerCancelFunc EXCEPT ![n] = c]}
  PROVE  ServerTyped'
<1>1. handler' \in PerCallIn(HandlerStates)
  BY NodeTyped, PerCallUpdate DEF Goes, ServerTyped
<1> QED BY <1>1, NodeTyped DEF ServerTyped

LEMMA LinkTyped ==
  ASSUME NodeTypeOK, NEW n \in Nodes, NEW c \in Callers,
         \/ /\ linked' = [linked EXCEPT ![n][c] = TRUE]
            /\ UNCHANGED wire
         \/ HangUp(n, c)
         \/ Receive(n, c)
  PROVE  WireTyped'
<1>1. WireTyped /\ WireCapacity \in Nat
  BY NodeTyped, NodeAssumption
<1>2. linked' \in PerCallIn(BOOLEAN)
  <2>1. linked' \in {linked, [linked EXCEPT ![n][c] = TRUE],
                     [linked EXCEPT ![n][c] = FALSE]}
    BY DEF HangUp, Receive
  <2>2. linked \in PerCallIn(BOOLEAN)
    BY <1>1 DEF WireTyped
  <2> QED BY <2>1, <2>2, FlagUpdate
<1>3. CASE UNCHANGED wire
  BY <1>1, <1>2, <1>3 DEF WireTyped
<1>4. CASE HangUp(n, c)
  <2>1. <<>> \in Seq(Batches) /\ Len(<<>>) = 0
    OBVIOUS
  <2> QED
    <3>1. wire \in PerCallIn(Seq(Batches)) /\ Len(<<>>) <= WireCapacity
      BY <1>1, <2>1 DEF WireTyped
    <3>2. wire' = [wire EXCEPT ![n][c] = <<>>]
      BY <1>4 DEF HangUp
    <3> QED BY <1>1, <1>2, <2>1, <3>1, <3>2, StreamUpdate DEF WireTyped
<1>5. CASE Receive(n, c)
  <2> DEFINE w == wire[n][c]
  <2>1. w \in Seq(Batches) /\ w # <<>> /\ Len(w) <= WireCapacity
    BY <1>1, <1>5 DEF WireTyped, Receive, PerCallIn
  <2>2. Tail(w) \in Seq(Batches) /\ Len(Tail(w)) <= WireCapacity
    <3> HIDE DEF w
    <3>1. Tail(w) \in Seq(Batches) /\ Len(w) \in Nat /\ Len(Tail(w)) = Len(w) - 1
      BY <2>1, QueueTail
    <3> QED BY <1>1, <2>1, <3>1
  <2> QED BY <1>1, <1>2, <1>5, <2>2, StreamUpdate DEF WireTyped, Receive
<1> QED BY <1>3, <1>4, <1>5

\* A batch moves from the queue of a run to the wire, or gets lost.
LEMMA SendTyped ==
  ASSUME NodeTypeOK, NEW n \in Nodes, NEW c \in Callers, StreamSends(n, c)
  PROVE  QueueTyped' /\ WireTyped'
<1>1. QueueTyped /\ WireTyped /\ WireCapacity \in Nat /\ QueueCapacity \in Nat
  BY NodeTyped, NodeAssumption
<1> DEFINE q == queue[n][c]
           w == wire[n][c]
<1>2. /\ q \in Seq(Batches) /\ q # <<>> /\ Len(q) <= QueueCapacity
      /\ w \in Seq(Batches) /\ Len(w) <= WireCapacity
  BY <1>1 DEF QueueTyped, WireTyped, StreamSends, PerCallIn
<1>3. /\ Tail(q) \in Seq(Batches) /\ Head(q) \in Batches
      /\ Len(Tail(q)) <= QueueCapacity
  <2> HIDE DEF q
  <2>1. /\ Tail(q) \in Seq(Batches) /\ Head(q) \in Batches
        /\ Len(q) \in Nat /\ Len(Tail(q)) = Len(q) - 1
    BY <1>2, QueueTail
  <2> QED BY <1>1, <1>2, <2>1
<1>4. QueueTyped'
  BY <1>1, <1>3, StreamUpdate DEF QueueTyped, StreamSends
<1>5. /\ Append(w, Head(q)) \in Seq(Batches)
      /\ Len(w) < WireCapacity => Len(Append(w, Head(q))) <= WireCapacity
  <2> HIDE DEF q, w
  <2>1. /\ Append(w, Head(q)) \in Seq(Batches)
        /\ Len(w) \in Nat /\ Len(Append(w, Head(q))) = Len(w) + 1
    BY <1>2, <1>3, QueueAppend
  <2> QED BY <1>1, <1>2, <2>1
<1>6. WireTyped'
  <2>1. CASE UNCHANGED <<wire, linked>>
    BY <1>1, <2>1 DEF WireTyped
  <2>2. CASE /\ Len(w) < WireCapacity
             /\ wire' = [wire EXCEPT ![n][c] = Append(w, Head(q))]
             /\ UNCHANGED linked
    BY <1>1, <1>5, <2>2, StreamUpdate DEF WireTyped
  <2> QED BY <2>1, <2>2 DEF StreamSends
<1> QED BY <1>4, <1>6

LEMMA EmitTyped ==
  ASSUME NodeTypeOK, NEW n \in Nodes, NEW c \in Callers, RunEmits(n, c)
  PROVE  QueueTyped' /\ FlagsTyped'
<1>1. QueueTyped /\ FlagsTyped /\ QueueCapacity \in Nat
  BY NodeTyped, NodeAssumption
<1>2. PICK t \in Ticks \ emitted[n][c], bad \in BOOLEAN :
        /\ emitted' = [emitted EXCEPT ![n][c] = @ \cup {t}]
        /\ queue' = [queue EXCEPT ![n][c] = Append(@, [tick |-> t, bad |-> bad])]
        /\ pending' = [pending EXCEPT ![n][c] = bad]
  BY DEF RunEmits
<1> DEFINE q == queue[n][c]
           b == [tick |-> t, bad |-> bad]
<1>3. q \in Seq(Batches) /\ Len(q) < QueueCapacity /\ b \in Batches
  <2>1. b \in Batches
    BY DEF Batches
  <2> QED BY <1>1, <2>1 DEF QueueTyped, RunEmits, PerCallIn
<1>4. Append(q, b) \in Seq(Batches) /\ Len(Append(q, b)) <= QueueCapacity
  <2> HIDE DEF q, b
  <2>1. /\ Append(q, b) \in Seq(Batches)
        /\ Len(q) \in Nat /\ Len(Append(q, b)) = Len(q) + 1
    BY <1>3, QueueAppend
  <2> QED BY <1>1, <1>3, <2>1
<1>5. QueueTyped'
  BY <1>1, <1>2, <1>4, StreamUpdate DEF QueueTyped
<1>6. emitted[n][c] \cup {t} \in SUBSET Ticks
  BY <1>1 DEF FlagsTyped, PerCallIn
<1>7. emitted' \in PerCallIn(SUBSET Ticks) /\ pending' \in PerCallIn(BOOLEAN)
  BY <1>1, <1>2, <1>6, PerCallUpdate DEF FlagsTyped
<1>8. FlagsTyped'
  BY <1>1, <1>7 DEF FlagsTyped, RunEmits
<1> QED BY <1>5, <1>8

LEMMA ShutdownTyped ==
  ASSUME NodeTypeOK, NEW n \in Nodes, ShutdownNode(n)
  PROVE  FlagsTyped'
<1>1. FlagsTyped /\ ServerTyped
  BY NodeTyped
<1>2. cancelled' \in PerCallIn(BOOLEAN)
  BY <1>1 DEF ShutdownNode, FlagsTyped, ServerTyped, PerCallIn
<1> QED BY <1>1, <1>2 DEF FlagsTyped, ShutdownNode

LEMMA CrashTyped ==
  ASSUME NodeTypeOK, NEW n \in Nodes, Crash(n)
  PROVE  ServerTyped' /\ WireTyped'
<1>1. ServerTyped /\ WireTyped
  BY NodeTyped
<1>2. /\ [c \in Callers |-> FALSE] \in [Callers -> BOOLEAN]
      /\ [c \in Callers |-> <<>>] \in [Callers -> Seq(Batches)]
  OBVIOUS
<1>3. linked' \in PerCallIn(BOOLEAN) /\ wire' \in PerCallIn(Seq(Batches))
  <2>1. linked' \in PerCallIn(BOOLEAN)
    BY <1>1, <1>2 DEF Crash, WireTyped, PerCallIn
  <2>2. wire' \in PerCallIn(Seq(Batches))
    BY <1>1, <1>2 DEF Crash, WireTyped, PerCallIn
  <2> QED BY <2>1, <2>2
<1>4. \A m \in Nodes, c \in Callers : Len(wire'[m][c]) <= WireCapacity
  <2>1. \A m \in Nodes, c \in Callers : wire'[m][c] = IF m = n THEN <<>> ELSE wire[m][c]
    BY <1>1 DEF Crash, WireTyped, PerCallIn
  <2> QED BY <1>1, <2>1, NodeAssumption DEF WireTyped
<1>5. WireTyped'
  BY <1>3, <1>4 DEF WireTyped
<1>6. ServerTyped'
  BY <1>1 DEF ServerTyped, Crash, serverVars
<1> QED BY <1>5, <1>6

LEMMA NodeStepTyped == NodeTypeOK /\ [NodeNext]_nodeVars => NodeTypeOK'
<1> SUFFICES ASSUME NodeTypeOK, [NodeNext]_nodeVars PROVE NodeTypeOK'
  OBVIOUS
<1> USE FrameTyped
<1>1. SUFFICES ServerTyped' /\ FlagsTyped' /\ QueueTyped' /\ WireTyped'
  BY NodeTyped, PTL
<1>2. CASE UNCHANGED nodeVars
  BY <1>2 DEF nodeVars, serverVars, runVars, linkVars
<1>3. ASSUME NEW n \in Nodes, NEW c \in Callers, RunArrives(n, c)
      PROVE  ServerTyped' /\ FlagsTyped' /\ QueueTyped' /\ WireTyped'
  BY <1>3, GoesTyped, LinkTyped
  DEF RunArrives, HandlerStates, serverVars, runVars
<1>4. ASSUME NEW n \in Nodes, NEW c \in Callers, RunChecksBusy(n, c)
      PROVE  ServerTyped' /\ FlagsTyped' /\ QueueTyped' /\ WireTyped'
  BY <1>4, GoesTyped DEF RunChecksBusy, HandlerStates, serverVars, runVars, linkVars
<1>5. ASSUME NEW n \in Nodes, NEW c \in Callers, RunSetsBusy(n, c)
      PROVE  ServerTyped' /\ FlagsTyped' /\ QueueTyped' /\ WireTyped'
  BY <1>5, GoesTyped DEF RunSetsBusy, HandlerStates, runVars, linkVars
<1>6. ASSUME NEW n \in Nodes, NEW c \in Callers, RunStarts(n, c)
      PROVE  ServerTyped' /\ FlagsTyped' /\ QueueTyped' /\ WireTyped'
  <2>1. ServerTyped' /\ QueueTyped' /\ WireTyped'
    BY <1>6, GoesTyped DEF RunStarts, HandlerStates, linkVars
  <2>2. FlagsTyped'
    BY <1>6, NodeTyped, PerCallUpdate DEF RunStarts, FlagsTyped
  <2> QED BY <2>1, <2>2
<1>7. ASSUME NEW n \in Nodes, NEW c \in Callers, StreamSends(n, c)
      PROVE  ServerTyped' /\ FlagsTyped' /\ QueueTyped' /\ WireTyped'
  BY <1>7, GoesTyped, SendTyped DEF StreamSends, HandlerStates, serverVars
<1>8. ASSUME NEW n \in Nodes, NEW c \in Callers, StreamChecksFailed(n, c)
      PROVE  ServerTyped' /\ FlagsTyped' /\ QueueTyped' /\ WireTyped'
  <2>1. ServerTyped' /\ QueueTyped' /\ WireTyped'
    BY <1>8, GoesTyped DEF StreamChecksFailed, HandlerStates, serverVars, linkVars
  <2>2. FlagsTyped'
    <3>1. FlagsTyped
      BY NodeTyped
    <3>2. (cancelled[n][c] \/ failures[n][c] = 1) \in BOOLEAN
      OBVIOUS
    <3>3. cancelled' \in PerCallIn(BOOLEAN)
      BY <1>8, <3>1, <3>2, PerCallUpdate DEF StreamChecksFailed, FlagsTyped
    <3> QED BY <1>8, <3>1, <3>3 DEF StreamChecksFailed, FlagsTyped
  <2> QED BY <2>1, <2>2
<1>9. ASSUME NEW n \in Nodes, NEW c \in Callers, StreamEnds(n, c) \/ RunReturns(n, c)
      PROVE  ServerTyped' /\ FlagsTyped' /\ QueueTyped' /\ WireTyped'
  BY <1>9, GoesTyped
  DEF StreamEnds, RunReturns, HandlerStates, serverVars, runVars, linkVars
<1>10. ASSUME NEW n \in Nodes, NEW c \in Callers, RunEmits(n, c)
       PROVE  ServerTyped' /\ FlagsTyped' /\ QueueTyped' /\ WireTyped'
  BY <1>10, EmitTyped DEF RunEmits, serverVars, linkVars
<1>11. ASSUME NEW n \in Nodes, NEW c \in Callers,
              RunFails(n, c) \/ RunTimesOut(n, c) \/ RunCloses(n, c)
       PROVE  ServerTyped' /\ FlagsTyped' /\ QueueTyped' /\ WireTyped'
  <2>1. ServerTyped' /\ QueueTyped' /\ WireTyped'
    BY <1>11 DEF RunFails, RunTimesOut, RunCloses, serverVars, linkVars
  <2>2. FlagsTyped /\ failures[n][c] + 1 \in Nat
    BY NodeTyped DEF FlagsTyped, PerCallIn
  <2>3. CASE RunFails(n, c)
    BY <2>1, <2>2, <2>3, PerCallUpdate DEF RunFails, FlagsTyped
  <2>4. CASE RunTimesOut(n, c) \/ RunCloses(n, c)
    <3>1. /\ cancelled' \in {cancelled, [cancelled EXCEPT ![n][c] = TRUE]}
          /\ over' \in {over, [over EXCEPT ![n][c] = TRUE]}
      BY <2>4 DEF RunTimesOut, RunCloses
    <3>2. cancelled' \in PerCallIn(BOOLEAN) /\ over' \in PerCallIn(BOOLEAN)
      BY <2>2, <3>1, FlagUpdate DEF FlagsTyped
    <3>3. UNCHANGED <<started, emitted, pending, failures>>
      BY <2>4 DEF RunTimesOut, RunCloses
    <3> QED BY <2>1, <2>2, <3>2, <3>3 DEF FlagsTyped
  <2> QED BY <1>11, <2>3, <2>4
<1>12. ASSUME NEW n \in Nodes, NEW c \in Callers, HangUp(n, c) \/ Receive(n, c)
       PROVE  ServerTyped' /\ FlagsTyped' /\ QueueTyped' /\ WireTyped'
  BY <1>12, LinkTyped DEF HangUp, Receive, serverVars, runVars
<1>13. ASSUME NEW n \in Nodes, ShutdownNode(n)
       PROVE  ServerTyped' /\ FlagsTyped' /\ QueueTyped' /\ WireTyped'
  BY <1>13, ShutdownTyped DEF ShutdownNode, serverVars, linkVars
<1>14. ASSUME NEW n \in Nodes, Crash(n)
       PROVE  ServerTyped' /\ FlagsTyped' /\ QueueTyped' /\ WireTyped'
  BY <1>14, CrashTyped DEF Crash, runVars
<1> QED BY <1>2, <1>3, <1>4, <1>5, <1>6, <1>7, <1>8, <1>9, <1>10, <1>11, <1>12, <1>13,
           <1>14 DEF NodeNext, NodeStep, Handler, StreamedRunStep

LEMMA NodeStepKept ==
  NodeTypeOK /\ [NodeNext]_nodeVars => ServerTyped /\ ServerTyped' /\ FlagsTyped
BY NodeTyped, NodeStepTyped, PTL

-----------------------------------------------------------------------------
(* A busy node *)

\* A handler that goes on leaves the others where they are.
LEMMA HandlerGoes ==
  ASSUME ServerTyped, NEW n \in Nodes, NEW c \in Callers, NEW from, NEW to,
         Goes(n, c, from, to)
  PROVE  /\ handler[n][c] = from /\ handler'[n][c] = to
         /\ \A m \in Nodes, d \in Callers :
              m # n \/ d # c => handler'[m][d] = handler[m][d]
BY DEF ServerTyped, Goes, PerCallIn

\* Who changes the handlers and the flag of a node.
LEMMA HandlerSteps ==
  [NodeNext]_nodeVars =>
    \/ UNCHANGED <<handler, busy>>
    \/ \E n \in Nodes, c \in Callers :
         RunArrives(n, c) \/ Handler(n, c)
BY DEF NodeNext, NodeStep, StreamedRunStep, RunEmits, RunFails, RunTimesOut, RunCloses,
       HangUp, Receive, ShutdownNode, Crash, nodeVars, serverVars

\* A node is busy on account of a call, the one that set the flag last or a later one.
BusyForSomebody == \A n \in Nodes : busy[n] => \E c \in Callers : Occupies(n, c)

LEMMA StepBusy ==
  NodeTypeOK /\ BusyForSomebody /\ [NodeNext]_nodeVars => BusyForSomebody'
<1> SUFFICES ASSUME NodeTypeOK, BusyForSomebody, [NodeNext]_nodeVars
             PROVE  BusyForSomebody'
  OBVIOUS
<1>1. ServerTyped
  BY NodeStepKept
<1>2. CASE UNCHANGED <<handler, busy>>
  BY <1>2 DEF BusyForSomebody, Occupies
<1>3. ASSUME NEW n \in Nodes, NEW c \in Callers, RunArrives(n, c) \/ Handler(n, c)
      PROVE  BusyForSomebody'
  <2>1. PICK from \in HandlerStates, to \in HandlerStates :
          /\ Goes(n, c, from, to)
          /\ \/ from = "claim" /\ to = "build" /\ busy' = [busy EXCEPT ![n] = TRUE]
             \/ from = "release" /\ to = "returned" /\ busy' = [busy EXCEPT ![n] = FALSE]
             \/ /\ UNCHANGED busy
                /\ from \in {"idle", "check"} \/ to \in {"stream", "failed?", "release"}
    BY <1>3 DEF RunArrives, Handler, RunChecksBusy, RunSetsBusy, RunStarts, StreamSends,
                StreamChecksFailed, StreamEnds, RunReturns, HandlerStates, serverVars
  <2>2. /\ handler[n][c] = from /\ handler'[n][c] = to
        /\ \A m \in Nodes, d \in Callers :
             m # n \/ d # c => handler'[m][d] = handler[m][d]
    BY <1>1, <2>1, HandlerGoes
  <2>3. ASSUME NEW m \in Nodes, busy'[m]
        PROVE  \E d \in Callers : Occupies(m, d)'
    <3>1. CASE m # n
      <4>1. busy[m]
        BY <1>1, <2>1, <2>3, <3>1 DEF ServerTyped
      <4> QED BY <2>2, <3>1, <4>1 DEF BusyForSomebody, Occupies
    <3>2. CASE m = n /\ to \in {"build", "stream", "failed?", "release"}
      BY <2>2, <3>2 DEF Occupies
    <3>3. CASE m = n /\ to \notin {"build", "stream", "failed?", "release"}
      <4>1. ~ (to = "returned" /\ busy' = [busy EXCEPT ![n] = FALSE])
        BY <1>1, <2>3, <3>3 DEF ServerTyped
      <4>2. from \in {"idle", "check"} /\ UNCHANGED busy
        BY <2>1, <3>3, <4>1
      <4> QED BY <2>2, <2>3, <3>3, <4>2 DEF BusyForSomebody, Occupies
    <3> QED BY <3>1, <3>2, <3>3
  <2> QED BY <2>3 DEF BusyForSomebody
<1> QED BY <1>2, <1>3, HandlerSteps

LEMMA InitBusy == NodeInit => BusyForSomebody
BY DEF NodeInit, BusyForSomebody

LEMMA BusyIsOver == BusyForSomebody => BusyEnds
BY DEF BusyForSomebody, BusyEnds, Occupies

-----------------------------------------------------------------------------
(* One run at a time *)

\* What calls that do not overlap keep true, also on a node that has died: between
\* the check of the flag and the end of its run a call has the node to itself.
Holds(n, c) == Claiming(n, c) \/ Occupies(n, c)

OneHolder ==
  \A n \in Nodes :
    /\ \A c, d \in Callers : Holds(n, c) /\ Holds(n, d) => c = d
    /\ busy[n] <=> \E c \in Callers : Occupies(n, c)
    /\ \A c \in Callers :
         Occupies(n, c) /\ handler[n][c] # "build" => runnerCancelFunc[n] = c

LEMMA StepHolder ==
  NodeTypeOK /\ OneHolder /\ [NodeNext /\ NoOverlap]_nodeVars => OneHolder'
<1> SUFFICES ASSUME NodeTypeOK, OneHolder, [NodeNext /\ NoOverlap]_nodeVars
             PROVE  OneHolder'
  OBVIOUS
<1>1. ServerTyped
  BY NodeStepKept
<1>2. CASE UNCHANGED <<handler, busy, runnerCancelFunc>>
  BY <1>2 DEF OneHolder, Holds, Claiming, Occupies
<1>3. ASSUME NEW n \in Nodes, NEW c \in Callers, RunArrives(n, c) \/ Handler(n, c),
             NoOverlap
      PROVE  OneHolder'
  <2>1. PICK from \in HandlerStates, to \in HandlerStates :
          /\ Goes(n, c, from, to)
          /\ \/ from = "idle" /\ to = "check" /\ UNCHANGED <<busy, runnerCancelFunc>>
             \/ /\ from = "check" /\ to = (IF busy[n] THEN "returned" ELSE "claim")
                /\ UNCHANGED <<busy, runnerCancelFunc>>
             \/ /\ from = "claim" /\ to = "build"
                /\ busy' = [busy EXCEPT ![n] = TRUE] /\ UNCHANGED runnerCancelFunc
             \/ /\ from = "build" /\ to = "stream" /\ UNCHANGED busy
                /\ runnerCancelFunc' = [runnerCancelFunc EXCEPT ![n] = c]
             \/ /\ from \in {"stream", "failed?"} /\ to \in {"stream", "failed?", "release"}
                /\ UNCHANGED <<busy, runnerCancelFunc>>
             \/ /\ from = "release" /\ to = "returned"
                /\ busy' = [busy EXCEPT ![n] = FALSE] /\ UNCHANGED runnerCancelFunc
    BY <1>3 DEF RunArrives, Handler, RunChecksBusy, RunSetsBusy, RunStarts, StreamSends,
                StreamChecksFailed, StreamEnds, RunReturns, HandlerStates, serverVars
  <2>2. /\ handler[n][c] = from /\ handler'[n][c] = to
        /\ \A m \in Nodes, d \in Callers :
             m # n \/ d # c => handler'[m][d] = handler[m][d]
    BY <1>1, <2>1, HandlerGoes
  <2>3. \A m \in Nodes : m # n => /\ busy'[m] = busy[m]
                                 /\ runnerCancelFunc'[m] = runnerCancelFunc[m]
    BY <1>1, <2>1 DEF ServerTyped
  <2>4. \A m \in Nodes, d \in Callers :
          m # n \/ d # c => /\ Holds(m, d)' = Holds(m, d)
                           /\ Occupies(m, d)' = Occupies(m, d)
    BY <2>2 DEF Holds, Claiming, Occupies
  <2>5. ASSUME NEW m \in Nodes, m # n
        PROVE  /\ \A d, e \in Callers : Holds(m, d)' /\ Holds(m, e)' => d = e
               /\ busy'[m] <=> \E d \in Callers : Occupies(m, d)'
               /\ \A d \in Callers : Occupies(m, d)' /\ handler'[m][d] # "build"
                    => runnerCancelFunc'[m] = d
    BY <2>2, <2>3, <2>4, <2>5 DEF OneHolder
  <2>6. \A d, e \in Callers : Holds(n, d)' /\ Holds(n, e)' => d = e
    <3>1. CASE Holds(n, c) \/ ~Holds(n, c)'
      BY <2>4, <3>1 DEF OneHolder
    <3>2. CASE ~Holds(n, c) /\ Holds(n, c)'
      <4>1. from = "check" /\ to = "claim" /\ ~busy[n]
        BY <2>1, <2>2, <3>2 DEF Holds, Claiming, Occupies
      <4>2. \A d \in Callers : ~Occupies(n, d)
        BY <4>1 DEF OneHolder
      <4>3. \A d \in Callers : ~Claiming(n, d)
        BY <1>3, <2>2, <4>1 DEF NoOverlap
      <4> QED BY <2>4, <4>2, <4>3 DEF Holds
    <3> QED BY <3>1, <3>2
  <2>7. busy'[n] <=> \E d \in Callers : Occupies(n, d)'
    <3>1. CASE from \in {"idle", "check"}
      <4>1. ~Occupies(n, c) /\ ~Occupies(n, c)' /\ UNCHANGED busy
        BY <2>1, <2>2, <3>1 DEF Occupies
      <4> QED BY <2>4, <4>1 DEF OneHolder
    <3>2. CASE from = "claim"
      <4>1. Occupies(n, c)' /\ busy'[n]
        BY <1>1, <2>1, <2>2, <3>2 DEF Occupies, ServerTyped
      <4> QED BY <4>1
    <3>3. CASE from \in {"build", "stream", "failed?"}
      <4>1. Occupies(n, c) /\ Occupies(n, c)' /\ UNCHANGED busy
        BY <2>1, <2>2, <3>3 DEF Occupies
      <4> QED BY <4>1 DEF OneHolder
    <3>4. CASE from = "release"
      <4>1. Occupies(n, c) /\ ~Occupies(n, c)' /\ ~busy'[n]
        BY <1>1, <2>1, <2>2, <3>4 DEF Occupies, ServerTyped
      <4> QED BY <2>4, <4>1 DEF OneHolder, Holds
    <3> QED BY <2>1, <3>1, <3>2, <3>3, <3>4
  <2>8. ASSUME NEW d \in Callers, Occupies(n, d)', handler'[n][d] # "build"
        PROVE  runnerCancelFunc'[n] = d
    <3>1. CASE d = c
      <4>1. CASE from = "build"
        BY <1>1, <2>1, <3>1, <4>1 DEF ServerTyped
      <4>2. CASE from # "build"
        BY <2>1, <2>2, <2>8, <3>1, <4>2 DEF OneHolder, Occupies
      <4> QED BY <4>1, <4>2
    <3>2. CASE d # c
      <4>1. Occupies(n, d) /\ handler[n][d] # "build"
        BY <2>2, <2>4, <2>8, <3>2
      <4>2. ~Occupies(n, c)
        BY <3>2, <4>1 DEF OneHolder, Holds
      <4>3. UNCHANGED runnerCancelFunc
        BY <2>1, <2>2, <4>2 DEF Occupies
      <4> QED BY <4>1, <4>3 DEF OneHolder
    <3> QED BY <3>1, <3>2
  <2> QED BY <2>5, <2>6, <2>7, <2>8 DEF OneHolder
<1>4. \/ UNCHANGED <<handler, busy, runnerCancelFunc>>
      \/ NoOverlap /\ \E n \in Nodes, c \in Callers : RunArrives(n, c) \/ Handler(n, c)
  BY DEF NodeNext, NodeStep, StreamedRunStep, RunEmits, RunFails, RunTimesOut, RunCloses,
         HangUp, Receive, ShutdownNode, Crash, nodeVars, serverVars
<1> QED BY <1>2, <1>3, <1>4

LEMMA InitHolder == NodeInit => OneHolder
BY DEF NodeInit, OneHolder, Holds, Claiming, Occupies, PerCall

\* Calls of Run that do not overlap in the busy check have the node one after the
\* other: one runner, a flag that says so, and a cancel function that is its own
\* (service.go:66-91).
THEOREM OneAtATime == SerialSpec => []OneRunAtATime
<1>1. NodeInit => NodeTypeOK /\ OneHolder
  BY NodeInitTyped, InitHolder
<1>2. NodeTypeOK /\ OneHolder /\ [NodeNext /\ NoOverlap]_nodeVars
        => NodeTypeOK' /\ OneHolder'
  BY NodeStepTyped, StepHolder
<1>3. OneHolder => OneRunAtATime
  BY DEF OneHolder, Holds, OneRunAtATime
<1> QED BY <1>1, <1>2, <1>3, PTL DEF SerialSpec

-----------------------------------------------------------------------------
(* The runs of the calls *)

\* Every step of the node is a step, or none, of each run it has.
LEMMA StepRuns ==
  ASSUME NodeTypeOK, [NodeNext]_nodeVars, NEW n \in Nodes, NEW c \in Callers
  PROVE  [RunOf(n, c)!Next]_(RunOf(n, c)!vars)
<1>1. FlagsTyped /\ QueueTyped /\ ServerTyped
  BY NodeTyped
<1>2. CASE UNCHANGED runVars
  BY <1>2 DEF runVars, RunOf!vars
<1>3. ASSUME NEW m \in Nodes, NEW d \in Callers, NodeStep(m, d), m # n \/ d # c
      PROVE  UNCHANGED RunOf(n, c)!vars
  <2>1. \A v, S : \A f \in PerCallIn(S) :
          [f EXCEPT ![m][d] = v][n][c] = f[n][c]
    BY <1>3, PerCallOthers
  <2>2. CASE RunStarts(m, d)
    BY <1>1, <2>1, <2>2 DEF RunStarts, RunOf!vars, FlagsTyped
  <2>3. CASE StreamSends(m, d)
    BY <1>1, <2>1, <2>3 DEF StreamSends, RunOf!vars, QueueTyped
  <2>4. CASE StreamChecksFailed(m, d)
    <3>1. cancelled'[n][c] = cancelled[n][c]
      BY <1>1, <1>3, <2>4 DEF StreamChecksFailed, FlagsTyped, PerCallIn
    <3> QED BY <2>4, <3>1 DEF StreamChecksFailed, RunOf!vars
  <2>5. CASE RunEmits(m, d)
    <3>1. PICK t \in Ticks \ emitted[m][d], bad \in BOOLEAN :
            /\ emitted' = [emitted EXCEPT ![m][d] = @ \cup {t}]
            /\ queue' = [queue EXCEPT ![m][d] = Append(@, [tick |-> t, bad |-> bad])]
            /\ pending' = [pending EXCEPT ![m][d] = bad]
      BY <2>5 DEF RunEmits
    <3>2. emitted'[n][c] = emitted[n][c] /\ pending'[n][c] = pending[n][c]
      BY <1>1, <2>1, <3>1 DEF FlagsTyped
    <3>3. queue'[n][c] = queue[n][c]
      BY <1>1, <2>1, <3>1 DEF QueueTyped
    <3> QED BY <2>5, <3>2, <3>3 DEF RunEmits, RunOf!vars
  <2>6. CASE RunFails(m, d)
    <3>1. /\ pending' = [pending EXCEPT ![m][d] = FALSE]
          /\ cancelled' = [cancelled EXCEPT ![m][d] = TRUE]
          /\ UNCHANGED <<emitted, queue, over>>
      BY <2>6 DEF RunFails
    <3>2. pending'[n][c] = pending[n][c] /\ cancelled'[n][c] = cancelled[n][c]
      BY <1>1, <1>3, <3>1 DEF FlagsTyped, PerCallIn
    <3>3. failures' = [failures EXCEPT ![m][d] = failures[m][d] + 1]
      BY <2>6 DEF RunFails
    <3>4. failures'[n][c] = failures[n][c]
      BY <1>1, <1>3, <3>3 DEF FlagsTyped, PerCallIn
    <3>5. started' = started
      BY <2>6 DEF RunFails, serverVars
    <3> QED BY <3>1, <3>2, <3>4, <3>5 DEF RunOf!vars
  <2>7. CASE RunTimesOut(m, d) \/ RunCloses(m, d)
    <3>1. CASE RunTimesOut(m, d)
      BY <1>1, <2>1, <3>1 DEF RunTimesOut, RunOf!vars, FlagsTyped
    <3>2. CASE RunCloses(m, d)
      BY <1>1, <2>1, <3>2 DEF RunCloses, RunOf!vars, FlagsTyped
    <3> QED BY <2>7, <3>1, <3>2
  <2>8. CASE RunChecksBusy(m, d) \/ RunSetsBusy(m, d) \/ StreamEnds(m, d) \/ RunReturns(m, d)
    BY <2>8 DEF RunChecksBusy, RunSetsBusy, StreamEnds, RunReturns, runVars, RunOf!vars
  <2> QED BY <1>3, <2>2, <2>3, <2>4, <2>5, <2>6, <2>7, <2>8
          DEF NodeStep, Handler, StreamedRunStep
<1>4. CASE RunStarts(n, c)
  BY <1>1, <1>4 DEF RunStarts, RunOf!Next, RunOf!Start, RunOf!vars, FlagsTyped, PerCallIn
<1>5. CASE StreamSends(n, c)
  BY <1>1, <1>5 DEF StreamSends, RunOf!Next, RunOf!Take, QueueTyped, PerCallIn
<1>6. CASE StreamChecksFailed(n, c)
  <2>1. cancelled'[n][c] = (cancelled[n][c] \/ failures[n][c] = 1)
    BY <1>1, <1>6 DEF StreamChecksFailed, FlagsTyped, PerCallIn
  <2>2. cancelled[n][c] \in BOOLEAN
    BY <1>1 DEF FlagsTyped, PerCallIn
  <2>3. CASE failures[n][c] = 1
    BY <1>6, <2>1, <2>3 DEF StreamChecksFailed, RunOf!Next, RunOf!Cancel
  <2>4. CASE failures[n][c] # 1
    BY <1>6, <2>1, <2>2, <2>4 DEF StreamChecksFailed, RunOf!vars
  <2> QED BY <2>3, <2>4
<1>7. CASE RunEmits(n, c)
  <2>1. PICK t \in Ticks \ emitted[n][c], bad \in BOOLEAN :
          /\ emitted' = [emitted EXCEPT ![n][c] = @ \cup {t}]
          /\ queue' = [queue EXCEPT ![n][c] = Append(@, [tick |-> t, bad |-> bad])]
          /\ pending' = [pending EXCEPT ![n][c] = bad]
    BY <1>7 DEF RunEmits
  <2>2. /\ emitted'[n][c] = emitted[n][c] \cup {t}
        /\ queue'[n][c] = Append(queue[n][c], [tick |-> t, bad |-> bad])
        /\ pending'[n][c] = bad
    BY <1>1, <2>1 DEF FlagsTyped, QueueTyped, PerCallIn
  <2> QED BY <1>7, <2>1, <2>2 DEF RunEmits, RunOf!Next, RunOf!Emit
<1>8. CASE RunFails(n, c)
  BY <1>1, <1>8 DEF RunFails, RunOf!Next, RunOf!Fail, FlagsTyped, PerCallIn
<1>9. CASE RunTimesOut(n, c)
  BY <1>1, <1>9 DEF RunTimesOut, RunOf!Next, RunOf!Cancel, FlagsTyped, PerCallIn
<1>10. CASE RunCloses(n, c)
  BY <1>1, <1>10 DEF RunCloses, RunOf!Next, RunOf!Close, FlagsTyped, PerCallIn
<1>11. ASSUME NEW m \in Nodes, ShutdownNode(m)
       PROVE  [RunOf(n, c)!Next]_(RunOf(n, c)!vars)
  <2>1. \/ cancelled'[n][c] = TRUE
        \/ cancelled'[n][c] = cancelled[n][c]
    BY <1>1, <1>11 DEF ShutdownNode, FlagsTyped, ServerTyped, PerCallIn
  <2> QED BY <1>11, <2>1 DEF ShutdownNode, RunOf!Next, RunOf!Cancel, RunOf!vars
<1>12. \/ UNCHANGED runVars
       \/ \E m \in Nodes, d \in Callers : NodeStep(m, d)
       \/ \E m \in Nodes : ShutdownNode(m)
  BY DEF NodeNext, RunArrives, HangUp, Receive, Crash, nodeVars
<1>13. CASE NodeStep(n, c)
  BY <1>2, <1>4, <1>5, <1>6, <1>7, <1>8, <1>9, <1>10, <1>13
  DEF NodeStep, Handler, StreamedRunStep, RunChecksBusy, RunSetsBusy, StreamEnds,
      RunReturns
<1> QED BY <1>2, <1>3, <1>11, <1>12, <1>13

LEMMA InitRuns == NodeInit => \A n \in Nodes, c \in Callers : RunOf(n, c)!Init
BY DEF NodeInit, PerCall, RunOf!Init

=============================================================================
