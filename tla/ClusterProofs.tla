---------------------------- MODULE ClusterProofs ----------------------------
(***************************************************************************)
(* Proofs about Cluster: what its clients count, what they add up, and how *)
(* a bad tick ends a test, for any nodes and clients.                      *)
(***************************************************************************)
EXTENDS Cluster, NodeProofs, FiniteSetTheorems

-----------------------------------------------------------------------------
(* The invariants *)

\* The goroutines a client counts.
Active(c) == {n \in Nodes : receiver[c][n] \in {"open", "recv", "offer"}}

\* What a client has counted, and what its goroutines hold.
Counted ==
  \A c \in Clients :
    /\ activeClients[c] = Cardinality(Active(c))
    /\ \A n \in Nodes : receiver[c][n] = "none" <=> n \notin spawned[c]
    /\ client[c] \in {"dial", "status"} => spawned[c] = {}
    /\ client[c] \in {"collect", "shutdown", "close", "returned"} => spawned[c] = Nodes
    /\ \A n \in Nodes : IF receiver[c][n] = "offer" THEN held[c][n] \in Batches
                        ELSE held[c][n] = NoBatch

\* A client leaves its loop because of a bad tick or because it has nothing to wait for.
BadTick(c) == \E a \in aggregated[c] : a.bad

LeavesLoop ==
  \A c \in Clients :
    /\ client[c] \in {"dial", "status", "start", "collect"} => ~BadTick(c)
    /\ client[c] = "shutdown" => BadTick(c)
    /\ client[c] \in {"close", "returned"} /\ ~BadTick(c) => Active(c) = {}

\* Where the batches of node n for client c are: queued, in transit, offered, sampled.
TicksOf(s) == {s[i].tick : i \in 1 .. Len(s)}
TicksOnce(s) == \A i, j \in 1 .. Len(s) : s[i].tick = s[j].tick => i = j
Offered(c, n) == IF receiver[c][n] = "offer" THEN {held[c][n].tick} ELSE {}
Sampled(c, n) ==
  {t \in Ticks : \E i \in 1 .. Len(samples[c][t]) : samples[c][t][i].node = n}

\* A tick that had a batch is in one place at most: queue q, wire w, offered o, sampled s.
Apart(q, w, o, s, e) ==
  /\ TicksOnce(q) /\ TicksOnce(w)
  /\ TicksOf(q) \subseteq e
  /\ TicksOf(w) \subseteq e \ TicksOf(q)
  /\ o \subseteq e \ (TicksOf(q) \cup TicksOf(w))
  /\ s \subseteq e \ (TicksOf(q) \cup TicksOf(w) \cup o)

OnePlace(c, n) ==
  Apart(queue[n][c], wire[n][c], Offered(c, n), Sampled(c, n), emitted[n][c])

Placed == \A c \in Clients, n \in Nodes : OnePlace(c, n)

\* The batches of a tick are of different nodes.
NodesOnce(s) == \A i, j \in 1 .. Len(s) : s[i].node = s[j].node => i = j
Separate == \A c \in Clients, t \in Ticks : NodesOnce(samples[c][t])

\* A tick is added up when it is complete.
Complete ==
  \A c \in Clients :
    /\ \A a, b \in aggregated[c] : a.tick = b.tick => a = b
    /\ \A a \in aggregated[c] : Len(samples[c][a.tick]) = Cardinality(Nodes)

\* A run starts in the handler of its call, and is cancelled when that has drained it.
RunsEndOf(n, c) ==
  /\ started[n][c] => handler[n][c] \in {"stream", "failed?", "release", "returned"}
  /\ emitted[n][c] # {} => started[n][c]
  /\ over[n][c] => cancelled[n][c]
  /\ started[n][c] /\ handler[n][c] \in {"release", "returned"} => cancelled[n][c]

RunsEnd == \A n \in Nodes, c \in Clients : RunsEndOf(n, c)

\* How far a client that met a bad tick is with the end of the test.
Ending ==
  \A c \in Clients :
    /\ client[c] = "shutdown" => \A n \in Nodes \ toShutdown[c] : cancelled[n][c]
    /\ client[c] \in {"close", "returned"} /\ BadTick(c) =>
         failed[c] /\ \A n \in Nodes : cancelled[n][c]

-----------------------------------------------------------------------------
(* The steps of a cluster, seen from the nodes *)

\* The steps a client takes, on its own and with one of its nodes.
Alone(c) == Dial(c) \/ AskStatus(c) \/ AllExited(c) \/ CloseAll(c) \/ Fatal(c)
WithNode(c, n) ==
  \/ StartReceiver(c, n) \/ Collect(c, n) \/ Shutdown(c, n)
  \/ OpenStream(c, n) \/ ReceiveBatch(c, n) \/ ReceiveEnd(c, n)
ClientStep(c) == Alone(c) \/ \E n \in Nodes : WithNode(c, n)

\* Which steps the clients take, and what the other steps leave alone.
LEMMA ClientSide == [Next]_vars => UNCHANGED clientVars \/ \E c \in Clients : ClientStep(c)
BY DEF Next, NodeMoves, Client, CallFails, Receiver, ReceiveCut, StreamTimesOut, Quiet, vars,
       clientVars, ClientStep, Alone, WithNode

\* A step of the cluster is one of the nodes, or breaks the streams of a client.
LEMMA NodeSide == [Next]_vars => [NodeNext]_nodeVars \/ \E c \in Clients : BreakStreams(c)
<1> SUFFICES ASSUME [Next]_vars
             PROVE  [NodeNext]_nodeVars \/ \E c \in Clients : BreakStreams(c)
  OBVIOUS
<1>1. ASSUME NEW n \in Nodes, NodeMoves(n) PROVE NodeNext
  BY <1>1 DEF NodeMoves, NodeNext, Clients
<1>2. ASSUME NEW c \in Clients, NEW n \in Nodes,
             Receiver(c, n) \/ ReceiveCut(c, n) \/ StreamTimesOut(c, n)
      PROVE  NodeNext \/ UNCHANGED nodeVars \/ BreakStreams(c)
  BY <1>2 DEF Receiver, OpenStream, ReceiveBatch, ReceiveEnd, ReceiveCut, Fatal,
              StreamTimesOut, NodeNext, Clients
<1>3. ASSUME NEW c \in Clients, Client(c)
      PROVE  NodeNext \/ UNCHANGED nodeVars \/ BreakStreams(c)
  <2>1. CASE Dial(c) \/ AskStatus(c) \/ AllExited(c)
    BY <2>1 DEF Dial, AskStatus, AllExited
  <2>2. ASSUME NEW n \in Nodes, StartReceiver(c, n) \/ Collect(c, n)
        PROVE  UNCHANGED nodeVars
    BY <2>2 DEF StartReceiver, Collect
  <2>3. ASSUME NEW n \in Nodes, Shutdown(c, n)
        PROVE  NodeNext
    BY <2>3 DEF Shutdown, NodeNext
  <2>4. ASSUME NEW n \in Nodes, CloseAll(c) \/ CallFails(c, n)
        PROVE  BreakStreams(c)
    BY <2>4 DEF CloseAll, CallFails, Fatal
  <2>5. CASE CloseAll(c)
    BY <2>5 DEF CloseAll
  <2> QED BY <1>3, <2>1, <2>2, <2>3, <2>4, <2>5 DEF Client
<1>4. CASE UNCHANGED vars \/ Quiet
  BY <1>4 DEF vars, Quiet
<1> QED BY <1>1, <1>2, <1>3, <1>4 DEF Next

LEMMA BreakTyped == ASSUME NodeTypeOK, NEW c \in Clients, BreakStreams(c) PROVE NodeTypeOK'
<1>1. WireTyped /\ ServerTyped' /\ FlagsTyped' /\ QueueTyped'
  BY NodeTyped, FrameTyped DEF BreakStreams, serverVars, runVars
<1>2. linked' \in PerCallIn(BOOLEAN)
  BY <1>1 DEF BreakStreams, WireTyped, PerCallIn, Clients
<1>3. wire' \in PerCallIn(Seq(Batches))
  BY <1>1 DEF BreakStreams, WireTyped, PerCallIn, Clients
<1>4. ASSUME NEW n \in Nodes, NEW d \in Callers PROVE Len(wire'[n][d]) <= WireCapacity
  <2>1. wire'[n][d] = IF d = c THEN <<>> ELSE wire[n][d]
    BY <1>1 DEF BreakStreams, WireTyped, PerCallIn
  <2> QED BY <1>1, <2>1, NodeAssumption DEF WireTyped
<1>5. WireTyped'
  BY <1>2, <1>3, <1>4 DEF WireTyped
<1> QED BY <1>1, <1>5, NodeTyped, PTL

LEMMA NodesTyped == NodeTypeOK /\ [Next]_vars => NodeTypeOK'
BY NodeSide, NodeStepTyped, BreakTyped

LEMMA NodesBusy == NodeTypeOK /\ BusyForSomebody /\ [Next]_vars => BusyForSomebody'
<1>1. ASSUME BusyForSomebody, NEW c \in Clients, BreakStreams(c) PROVE BusyForSomebody'
  BY <1>1 DEF BreakStreams, serverVars, BusyForSomebody, Occupies
<1> QED BY <1>1, NodeSide, StepBusy

\* Nobody leaves a node busy behind, however many clients call it and however their
\* calls overlap (service.go:66-83).
THEOREM NodesAreFreed == Spec => []BusyEnds
<1>1. Init => NodeTypeOK /\ BusyForSomebody
  BY NodeInitTyped, InitBusy DEF Init
<1>2. NodeTypeOK /\ BusyForSomebody /\ [Next]_vars => NodeTypeOK' /\ BusyForSomebody'
  BY NodesTyped, NodesBusy
<1> QED BY <1>1, <1>2, BusyIsOver, PTL DEF Spec

LEMMA NodesRun ==
  NodeTypeOK /\ [Next]_vars =>
    [\A n \in Nodes, c \in Callers : [RunOf(n, c)!Next]_(RunOf(n, c)!vars)]_nodeVars
<1>1. ASSUME NEW c \in Clients, BreakStreams(c), NEW n \in Nodes, NEW d \in Callers
      PROVE  UNCHANGED RunOf(n, d)!vars
  BY <1>1 DEF BreakStreams, runVars, RunOf!vars
<1> QED BY <1>1, NodeSide, StepRuns

\* Each run on each node is one that StreamedRun describes, while clients come, go
\* and shut each other's runs down and nodes die (service.go:40-57, service.go:77-91).
THEOREM NodeRunsAreStreamed == Spec => RunsAreStreamed
<1>1. Init => NodeTypeOK /\ \A n \in Nodes, c \in Callers : RunOf(n, c)!Init
  BY NodeInitTyped, InitRuns DEF Init
<1> QED BY <1>1, NodesTyped, NodesRun, PTL DEF Spec, RunsAreStreamed

-----------------------------------------------------------------------------
(* Type correctness of the clients *)

ClientStates ==
  {"dial", "status", "start", "collect", "shutdown", "close", "returned", "died"}
ReceiverStates == {"none", "open", "recv", "offer", "exited"}
SampleSeqs == Seq([node : Nodes, bad : BOOLEAN])

\* ClientTypeOK without the bound of activeClients, which Counted gives, part by part.
ControlTyped ==
  /\ client \in [Clients -> ClientStates]
  /\ contact \in [Clients -> Nodes \cup {None}]
  /\ \A c \in Clients : client[c] \in {"dial", "status"} => contact[c] \in Nodes
  /\ asked \in [Clients -> SUBSET Nodes]
  /\ spawned \in [Clients -> SUBSET Nodes]
  /\ failed \in [Clients -> BOOLEAN]
  /\ activeClients \in [Clients -> Int]
  /\ toShutdown \in [Clients -> SUBSET Nodes]

ReceiversTyped ==
  /\ receiver \in [Clients -> [Nodes -> ReceiverStates]]
  /\ held \in [Clients -> [Nodes -> Batches \cup {NoBatch}]]

SamplesTyped ==
  /\ samples \in [Clients -> [Ticks -> SampleSeqs]]
  /\ aggregated \in [Clients -> SUBSET Batches]

ClientShape == ControlTyped /\ ReceiversTyped /\ SamplesTyped

LEMMA InitShape == Init => ClientShape
<1> SUFFICES ASSUME Init PROVE ClientShape
  OBVIOUS
<1>1. ControlTyped
  BY DEF Init, ControlTyped, ClientStates
<1>2. ReceiversTyped
  BY DEF Init, ReceiversTyped, ReceiverStates
<1>3. SamplesTyped
  BY DEF Init, SamplesTyped, SampleSeqs
<1> QED BY <1>1, <1>2, <1>3 DEF ClientShape

LEMMA ControlStep == ClientShape /\ [Next]_vars => ControlTyped'
<1> SUFFICES ASSUME ClientShape, [Next]_vars PROVE ControlTyped'
  OBVIOUS
<1> USE DEF ClientShape, ControlTyped, ClientStates
<1>1. CASE UNCHANGED clientVars
  BY <1>1 DEF clientVars
<1>2. ASSUME NEW c \in Clients, Dial(c) \/ AllExited(c) \/ CloseAll(c) \/ Fatal(c)
      PROVE  ControlTyped'
  BY <1>2 DEF Dial, AllExited, CloseAll, Fatal
<1>3. ASSUME NEW c \in Clients, AskStatus(c) PROVE ControlTyped'
  <2>1. /\ asked' = [asked EXCEPT ![c] = @ \cup {contact[c]}]
        /\ failed' = [failed EXCEPT ![c] = @ \/ busy[contact[c]]]
        /\ UNCHANGED <<spawned, activeClients, toShutdown>>
        /\ \E to \in {"start", "dial"} : client' = [client EXCEPT ![c] = to]
        /\ \E n \in Nodes \cup {None} : contact' = [contact EXCEPT ![c] = n]
    BY <1>3 DEF AskStatus
  <2>2. contact[c] \in Nodes
    BY <1>3 DEF AskStatus
  <2>3. (failed[c] \/ busy[contact[c]]) \in BOOLEAN
    OBVIOUS
  <2>4. failed' \in [Clients -> BOOLEAN] /\ asked' \in [Clients -> SUBSET Nodes]
    BY <2>1, <2>2, <2>3
  <2>5. client' \in [Clients -> ClientStates] /\ contact' \in [Clients -> Nodes \cup {None}]
    BY <2>1
  <2>6. ASSUME NEW d \in Clients, client'[d] \in {"dial", "status"}
        PROVE  contact'[d] \in Nodes
    BY <1>3, <2>6 DEF AskStatus
  <2> QED BY <2>1, <2>4, <2>5, <2>6
<1>4. ASSUME NEW c \in Clients, NEW n \in Nodes, StartReceiver(c, n) \/ ReceiveEnd(c, n)
      PROVE  ControlTyped'
  <2>1. CASE StartReceiver(c, n)
    BY <2>1 DEF StartReceiver
  <2>2. CASE ReceiveEnd(c, n)
    BY <2>2 DEF ReceiveEnd
  <2> QED BY <1>4, <2>1, <2>2
<1>5. ASSUME NEW c \in Clients, NEW n \in Nodes, Collect(c, n) PROVE ControlTyped'
  <2> DEFINE batches ==
        Append(samples[c][held[c][n].tick], [node |-> n, bad |-> held[c][n].bad])
  <2>1. \/ \E bad \in BelowTogether(batches) :
             /\ client' = [client EXCEPT ![c] = IF bad THEN "shutdown" ELSE client[c]]
             /\ toShutdown' = [toShutdown EXCEPT ![c] = IF bad THEN Nodes ELSE toShutdown[c]]
        \/ UNCHANGED <<client, toShutdown>>
    BY <1>5 DEF Collect
  <2> HIDE DEF batches
  <2>2. UNCHANGED <<contact, asked, spawned, failed, activeClients>>
    BY <1>5 DEF Collect
  <2>3. client' \in [Clients -> ClientStates]
    BY <2>1
  <2>4. toShutdown' \in [Clients -> SUBSET Nodes]
    BY <2>1
  <2>5. \A d \in Clients : client'[d] \in {client[d], "shutdown"}
    BY <2>1
  <2> QED BY <2>2, <2>3, <2>4, <2>5
<1>6. ASSUME NEW c \in Clients, NEW n \in Nodes, Shutdown(c, n) PROVE ControlTyped'
  BY <1>6 DEF Shutdown
<1>7. ASSUME NEW c \in Clients, NEW n \in Nodes, OpenStream(c, n) \/ ReceiveBatch(c, n)
      PROVE  ControlTyped'
  BY <1>7 DEF OpenStream, ReceiveBatch
<1> QED BY <1>1, <1>2, <1>3, <1>4, <1>5, <1>6, <1>7, ClientSide DEF ClientStep, Alone, WithNode

LEMMA ReceiversStep == NodeTypeOK /\ ClientShape /\ [Next]_vars => ReceiversTyped'
<1> SUFFICES ASSUME NodeTypeOK, ClientShape, [Next]_vars PROVE ReceiversTyped'
  OBVIOUS
<1> USE DEF ClientShape, ReceiversTyped, ReceiverStates
<1>1. CASE UNCHANGED <<receiver, held>>
  BY <1>1
<1>2. ASSUME NEW c \in Clients, NEW n \in Nodes,
             StartReceiver(c, n) \/ OpenStream(c, n) \/ ReceiveEnd(c, n)
      PROVE  ReceiversTyped'
  <2>1. CASE StartReceiver(c, n)
    BY <2>1 DEF StartReceiver
  <2>2. CASE OpenStream(c, n)
    <3>1. receiver' = [receiver EXCEPT ![c][n] = "recv"] /\ held' = held
      BY <2>2 DEF OpenStream
    <3> QED BY <3>1
  <2>3. CASE ReceiveEnd(c, n)
    BY <2>3 DEF ReceiveEnd
  <2> QED BY <1>2, <2>1, <2>2, <2>3
<1>3. ASSUME NEW c \in Clients, NEW n \in Nodes, ReceiveBatch(c, n)
      PROVE  ReceiversTyped'
  <2>1. Head(wire[n][c]) \in Batches
    BY <1>3, NodeTyped, QueueTail DEF ReceiveBatch, Receive, WireTyped, PerCallIn, Clients
  <2> QED BY <1>3, <2>1 DEF ReceiveBatch
<1>4. ASSUME NEW c \in Clients, NEW n \in Nodes, Collect(c, n)
      PROVE  ReceiversTyped'
  <2>1. /\ receiver' = [receiver EXCEPT ![c][n] = "recv"]
        /\ held' = [held EXCEPT ![c][n] = NoBatch]
    BY <1>4 DEF Collect
  <2> QED BY <2>1
<1>5. ASSUME NEW c \in Clients, NEW n \in Nodes, Shutdown(c, n)
      PROVE  ReceiversTyped'
  BY <1>5 DEF Shutdown
<1>6. ASSUME NEW c \in Clients, Alone(c) PROVE ReceiversTyped'
  BY <1>6 DEF Alone, Dial, AskStatus, AllExited, CloseAll, Fatal
<1> QED BY <1>1, <1>2, <1>3, <1>4, <1>5, <1>6, ClientSide
           DEF clientVars, ClientStep, WithNode

\* What Collect does with a batch, whatever becomes of the client.
Collects(c, n, t, bad) ==
  LET batches == Append(samples[c][t], [node |-> n, bad |-> bad]) IN
    /\ held[c][n] = [tick |-> t, bad |-> bad]
    /\ samples' = [samples EXCEPT ![c][t] = batches]
    /\ \/ /\ Len(batches) = Cardinality(Nodes)
          /\ \E b \in BOOLEAN :
               /\ aggregated' = [aggregated EXCEPT ![c] = @ \cup {[tick |-> t, bad |-> b]}]
               /\ client' = [client EXCEPT ![c] = IF b THEN "shutdown" ELSE @]
               /\ toShutdown' = [toShutdown EXCEPT ![c] = IF b THEN Nodes ELSE @]
       \/ /\ Len(batches) # Cardinality(Nodes)
          /\ UNCHANGED <<aggregated, client, toShutdown>>

LEMMA CollectSamples ==
  ASSUME Counted, NEW c \in Clients, NEW n \in Nodes, Collect(c, n)
  PROVE  \E t \in Ticks, bad \in BOOLEAN : Collects(c, n, t, bad)
<1>1. held[c][n] \in Batches
  BY DEF Collect, Counted
<1>2. PICK t \in Ticks, bad \in BOOLEAN : held[c][n] = [tick |-> t, bad |-> bad]
  BY <1>1 DEF Batches
<1> DEFINE batches == Append(samples[c][t], [node |-> n, bad |-> bad])
<1>3. held[c][n].tick = t /\ held[c][n].bad = bad
  BY <1>2
<1>4. /\ samples' = [samples EXCEPT ![c][t] = batches]
      /\ IF TickComplete(batches)
         THEN \E b \in BelowTogether(batches) :
                /\ aggregated' = [aggregated EXCEPT ![c] = @ \cup {[tick |-> t, bad |-> b]}]
                /\ client' = [client EXCEPT ![c] = IF b THEN "shutdown" ELSE @]
                /\ toShutdown' = [toShutdown EXCEPT ![c] = IF b THEN Nodes ELSE @]
         ELSE UNCHANGED <<aggregated, client, toShutdown>>
  BY <1>3 DEF Collect
<1>5. BelowTogether(batches) \subseteq BOOLEAN
  BY DEF BelowTogether
<1> HIDE DEF batches
<1>6. \/ /\ Len(batches) = Cardinality(Nodes)
         /\ \E b \in BOOLEAN :
              /\ aggregated' = [aggregated EXCEPT ![c] = @ \cup {[tick |-> t, bad |-> b]}]
              /\ client' = [client EXCEPT ![c] = IF b THEN "shutdown" ELSE @]
              /\ toShutdown' = [toShutdown EXCEPT ![c] = IF b THEN Nodes ELSE @]
      \/ /\ Len(batches) # Cardinality(Nodes)
         /\ UNCHANGED <<aggregated, client, toShutdown>>
  BY <1>4, <1>5 DEF TickComplete
<1> QED BY <1>2, <1>4, <1>6 DEF batches, Collects

LEMMA SamplesStep == ClientShape /\ Counted /\ [Next]_vars => SamplesTyped'
<1> SUFFICES ASSUME ClientShape, Counted, [Next]_vars PROVE SamplesTyped'
  OBVIOUS
<1> SamplesTyped
  BY DEF ClientShape
<1>1. CASE UNCHANGED <<samples, aggregated>>
  BY <1>1 DEF SamplesTyped
<1>2. ASSUME NEW c \in Clients, NEW n \in Nodes, Collect(c, n) PROVE SamplesTyped'
  <2>0. PICK t \in Ticks, bad \in BOOLEAN : Collects(c, n, t, bad)
    BY <1>2, CollectSamples
  <2>1. /\ samples' = [samples EXCEPT ![c][t] =
                       Append(samples[c][t], [node |-> n, bad |-> bad])]
        /\ \/ \E b \in BOOLEAN :
               aggregated' = [aggregated EXCEPT ![c] = @ \cup {[tick |-> t, bad |-> b]}]
           \/ UNCHANGED aggregated
    BY <2>0 DEF Collects
  <2>2. [node |-> n, bad |-> bad] \in [node : Nodes, bad : BOOLEAN]
    OBVIOUS
  <2>3. samples[c][t] \in SampleSeqs
    BY DEF SamplesTyped
  <2>4. Append(samples[c][t], [node |-> n, bad |-> bad]) \in SampleSeqs
    BY <2>2, <2>3, QueueAppend DEF SampleSeqs
  <2>5. samples' \in [Clients -> [Ticks -> SampleSeqs]]
    BY <2>1, <2>4 DEF SamplesTyped
  <2>6. \A b \in BOOLEAN : [tick |-> t, bad |-> b] \in Batches
    BY DEF Batches
  <2>7. aggregated' \in [Clients -> SUBSET Batches]
    BY <2>1, <2>6 DEF SamplesTyped
  <2> QED BY <2>5, <2>7 DEF SamplesTyped
<1>3. ASSUME NEW c \in Clients, NEW n \in Nodes,
             \/ StartReceiver(c, n) \/ Shutdown(c, n)
             \/ OpenStream(c, n) \/ ReceiveBatch(c, n) \/ ReceiveEnd(c, n)
      PROVE  UNCHANGED <<samples, aggregated>>
  BY <1>3 DEF StartReceiver, Shutdown, OpenStream, ReceiveBatch, ReceiveEnd
<1>4. ASSUME NEW c \in Clients, Alone(c)
      PROVE  UNCHANGED <<samples, aggregated>>
  BY <1>4 DEF Alone, Dial, AskStatus, AllExited, CloseAll, Fatal
<1> QED BY <1>1, <1>2, <1>3, <1>4, ClientSide
           DEF clientVars, ClientStep, WithNode

-----------------------------------------------------------------------------
(* What a client counts *)

\* Everything a client keeps.
Own(c) ==
  <<client[c], contact[c], asked[c], spawned[c], failed[c], activeClients[c], receiver[c],
    held[c], samples[c], aggregated[c], toShutdown[c]>>

\* Clients do not change what belongs to other clients.
LEMMA OtherClients ==
  ASSUME ClientShape, Counted, NEW c \in Clients, NEW d \in Clients, d # c,
         ClientStep(c)
  PROVE  UNCHANGED Own(d)
<1> USE DEF ClientShape, ControlTyped, ReceiversTyped, SamplesTyped
<1>1. CASE Dial(c) \/ AllExited(c) \/ CloseAll(c) \/ Fatal(c)
  BY <1>1 DEF Dial, AllExited, CloseAll, Fatal, Own
<1>2. CASE AskStatus(c)
  <2>1. client'[d] = client[d] /\ contact'[d] = contact[d]
    BY <1>2 DEF AskStatus
  <2>2. asked'[d] = asked[d] /\ failed'[d] = failed[d]
    BY <1>2 DEF AskStatus
  <2> QED BY <1>2, <2>1, <2>2 DEF AskStatus, Own
<1>3. ASSUME NEW n \in Nodes, StartReceiver(c, n) PROVE UNCHANGED Own(d)
  BY <1>3 DEF StartReceiver, Own
<1>4. ASSUME NEW n \in Nodes, Collect(c, n) PROVE UNCHANGED Own(d)
  <2>1. PICK t \in Ticks, bad \in BOOLEAN : Collects(c, n, t, bad)
    BY <1>4, CollectSamples
  <2>2. /\ samples'[d] = samples[d] /\ aggregated'[d] = aggregated[d]
        /\ client'[d] = client[d] /\ toShutdown'[d] = toShutdown[d]
    BY <2>1 DEF Collects
  <2>3. /\ receiver'[d] = receiver[d] /\ held'[d] = held[d]
        /\ UNCHANGED <<contact, asked, spawned, failed, activeClients>>
    BY <1>4 DEF Collect
  <2> QED BY <2>2, <2>3 DEF Own
<1>5. ASSUME NEW n \in Nodes, Shutdown(c, n) PROVE UNCHANGED Own(d)
  BY <1>5 DEF Shutdown, Own
<1>6. ASSUME NEW n \in Nodes, OpenStream(c, n) PROVE UNCHANGED Own(d)
  BY <1>6 DEF OpenStream, Own
<1>7. ASSUME NEW n \in Nodes, ReceiveBatch(c, n) PROVE UNCHANGED Own(d)
  BY <1>7 DEF ReceiveBatch, Own
<1>8. ASSUME NEW n \in Nodes, ReceiveEnd(c, n) PROVE UNCHANGED Own(d)
  BY <1>8 DEF ReceiveEnd, Own
<1> QED BY <1>1, <1>2, <1>3, <1>4, <1>5, <1>6, <1>7, <1>8 DEF ClientStep, Alone, WithNode

\* Counted, of one client.
CountedOf(c) ==
  /\ activeClients[c] = Cardinality(Active(c))
  /\ \A n \in Nodes : receiver[c][n] = "none" <=> n \notin spawned[c]
  /\ client[c] \in {"dial", "status"} => spawned[c] = {}
  /\ client[c] \in {"collect", "shutdown", "close", "returned"} => spawned[c] = Nodes
  /\ \A n \in Nodes : IF receiver[c][n] = "offer" THEN held[c][n] \in Batches
                      ELSE held[c][n] = NoBatch

LEMMA ActiveFinite ==
  ASSUME NEW c \in Clients
  PROVE  /\ IsFiniteSet(Active(c))
         /\ Cardinality(Active(c)) \in 0 .. Cardinality(Nodes)
         /\ Cardinality(Active(c)) = 0 <=> Active(c) = {}
<1>1. Active(c) \in SUBSET Nodes /\ IsFiniteSet(Nodes)
  BY NodeAssumption DEF Active
<1>2. IsFiniteSet(Active(c)) /\ Cardinality(Active(c)) <= Cardinality(Nodes)
  BY <1>1, FS_Subset
<1>3. Cardinality(Active(c)) \in Nat /\ Cardinality(Nodes) \in Nat
  BY <1>1, <1>2, FS_CardinalityType
<1> QED BY <1>2, <1>3, FS_EmptySet

LEMMA StepCountedOf ==
  ASSUME NodeTypeOK, ClientShape, Counted, NEW c \in Clients,
         ClientStep(c)
  PROVE  CountedOf(c)'
<1>1. /\ CountedOf(c) /\ activeClients[c] \in Int
      /\ ControlTyped /\ ReceiversTyped
  BY DEF Counted, CountedOf, ClientShape, ControlTyped
<1>2. ASSUME UNCHANGED <<activeClients[c], receiver[c], spawned[c], held[c]>>,
             client'[c] \in {"collect", "shutdown", "close", "returned"} => spawned[c] = Nodes,
             client'[c] \in {"dial", "status"} => client[c] \in {"dial", "status"}
      PROVE  CountedOf(c)'
  BY <1>1, <1>2 DEF CountedOf, Active
<1>3. CASE Alone(c)
  <2>1. UNCHANGED <<activeClients, receiver, spawned, held>>
    BY <1>3 DEF Alone, Dial, AskStatus, AllExited, CloseAll, Fatal
  <2>2. CASE Dial(c) \/ AskStatus(c)
    <3>1. client[c] \in {"dial", "status"} /\ client'[c] \in {"dial", "status", "start"}
      BY <1>1, <2>2 DEF Dial, AskStatus, ControlTyped
    <3> QED BY <1>2, <2>1, <3>1
  <2>3. CASE AllExited(c) \/ CloseAll(c) \/ Fatal(c)
    BY <1>1, <1>2, <2>1, <2>3 DEF AllExited, CloseAll, Fatal, ControlTyped, CountedOf
  <2> QED BY <1>3, <2>2, <2>3 DEF Alone
<1>4. ASSUME NEW n \in Nodes, Shutdown(c, n) PROVE CountedOf(c)'
  <2>1. client'[c] \in {"shutdown", "close"} /\ client[c] = "shutdown"
    BY <1>1, <1>4 DEF Shutdown, ControlTyped
  <2> QED BY <1>1, <1>2, <1>4, <2>1 DEF Shutdown, CountedOf
<1>5. ASSUME NEW n \in Nodes, StartReceiver(c, n) PROVE CountedOf(c)'
  <2>1. /\ spawned'[c] = spawned[c] \cup {n} /\ n \notin spawned[c]
        /\ activeClients'[c] = activeClients[c] + 1
        /\ receiver'[c] = [receiver[c] EXCEPT ![n] = "open"]
        /\ held' = held
        /\ client'[c] = IF spawned'[c] = Nodes THEN "collect" ELSE "start"
    BY <1>1, <1>5 DEF StartReceiver, ControlTyped, ReceiversTyped
  <2>2. receiver[c] \in [Nodes -> ReceiverStates]
    BY <1>1 DEF ReceiversTyped
  <2>3. receiver[c][n] = "none"
    BY <1>1, <2>1 DEF CountedOf
  <2>4. Active(c)' = Active(c) \cup {n} /\ n \notin Active(c)
    BY <2>1, <2>2, <2>3 DEF Active
  <2>5. activeClients'[c] = Cardinality(Active(c)')
    <3> DEFINE A == Active(c)
    <3>1. IsFiniteSet(A) /\ n \notin A /\ Active(c)' = A \cup {n} /\ activeClients[c] = Cardinality(A)
      BY <1>1, <2>4, ActiveFinite DEF CountedOf
    <3> HIDE DEF A
    <3>2. Cardinality(A \cup {n}) = Cardinality(A) + 1
      BY <3>1, FS_AddElement
    <3> QED BY <2>1, <3>1, <3>2
  <2>6. \A m \in Nodes : receiver'[c][m] = "none" <=> m \notin spawned'[c]
    BY <1>1, <2>1, <2>2 DEF CountedOf
  <2>7. \A m \in Nodes : IF receiver'[c][m] = "offer" THEN held'[c][m] \in Batches
                         ELSE held'[c][m] = NoBatch
    BY <1>1, <2>1, <2>2, <2>3 DEF CountedOf
  <2> QED BY <2>1, <2>5, <2>6, <2>7 DEF CountedOf
<1>6. ASSUME NEW n \in Nodes, ReceiveEnd(c, n) PROVE CountedOf(c)'
  <2>1. /\ spawned' = spawned /\ held' = held /\ client' = client
        /\ activeClients'[c] = activeClients[c] - 1
        /\ receiver[c][n] = "recv"
        /\ receiver'[c] = [receiver[c] EXCEPT ![n] = "exited"]
    BY <1>1, <1>6 DEF ReceiveEnd, ControlTyped, ReceiversTyped
  <2>2. receiver[c] \in [Nodes -> ReceiverStates]
    BY <1>1 DEF ReceiversTyped
  <2>3. Active(c)' = Active(c) \ {n} /\ n \in Active(c)
    BY <2>1, <2>2 DEF Active
  <2>4. activeClients'[c] = Cardinality(Active(c)')
    BY <1>1, <2>1, <2>3, ActiveFinite, FS_RemoveElement DEF CountedOf
  <2>5. \A m \in Nodes : receiver'[c][m] = "none" <=> m \notin spawned'[c]
    BY <1>1, <2>1, <2>2 DEF CountedOf
  <2>6. \A m \in Nodes : IF receiver'[c][m] = "offer" THEN held'[c][m] \in Batches
                         ELSE held'[c][m] = NoBatch
    BY <1>1, <2>1, <2>2 DEF CountedOf
  <2> QED BY <1>1, <2>1, <2>4, <2>5, <2>6 DEF CountedOf
\* The goroutine goes on: it is still active.
<1>7. ASSUME NEW n \in Nodes, NEW to \in {"recv", "offer"},
             receiver[c][n] \in {"open", "recv", "offer"},
             receiver'[c] = [receiver[c] EXCEPT ![n] = to],
             \A m \in Nodes : m # n => held'[c][m] = held[c][m],
             IF to = "offer" THEN held'[c][n] \in Batches ELSE held'[c][n] = NoBatch,
             UNCHANGED <<activeClients[c], spawned[c]>>,
             client'[c] \in {client[c], "shutdown"},
             client'[c] = "shutdown" => spawned[c] = Nodes
      PROVE  CountedOf(c)'
  <2>1. receiver[c] \in [Nodes -> ReceiverStates]
    BY <1>1 DEF ReceiversTyped
  <2>2. Active(c)' = Active(c)
    BY <1>7, <2>1 DEF Active
  <2>3. \A m \in Nodes : receiver'[c][m] = "none" <=> m \notin spawned'[c]
    BY <1>1, <1>7, <2>1 DEF CountedOf
  <2>4. \A m \in Nodes : IF receiver'[c][m] = "offer" THEN held'[c][m] \in Batches
                         ELSE held'[c][m] = NoBatch
    BY <1>1, <1>7, <2>1 DEF CountedOf
  <2> QED BY <1>1, <1>7, <2>2, <2>3, <2>4 DEF CountedOf
<1>8. ASSUME NEW n \in Nodes, OpenStream(c, n) PROVE CountedOf(c)'
  <2>1. /\ receiver'[c] = [receiver[c] EXCEPT ![n] = "recv"] /\ receiver[c][n] = "open"
        /\ UNCHANGED <<held, activeClients, spawned, client>>
    BY <1>1, <1>8 DEF OpenStream, ReceiversTyped
  <2>2. held[c][n] = NoBatch
    BY <1>1, <2>1 DEF CountedOf
  <2>3. client[c] = "shutdown" => spawned[c] = Nodes
    BY <1>1 DEF CountedOf
  <2> QED BY <1>7, <2>1, <2>2, <2>3
<1>9. ASSUME NEW n \in Nodes, ReceiveBatch(c, n) PROVE CountedOf(c)'
  <2>1. Head(wire[n][c]) \in Batches
    BY <1>9, NodeTyped, QueueTail DEF ReceiveBatch, Receive, WireTyped, PerCallIn, Clients
  <2>2. /\ receiver'[c] = [receiver[c] EXCEPT ![n] = "offer"] /\ receiver[c][n] = "recv"
        /\ held'[c] = [held[c] EXCEPT ![n] = Head(wire[n][c])]
        /\ held[c] \in [Nodes -> Batches \cup {NoBatch}]
        /\ UNCHANGED <<activeClients, spawned, client>>
    BY <1>1, <1>9 DEF ReceiveBatch, ReceiversTyped
  <2>3. held'[c][n] \in Batches /\ \A m \in Nodes : m # n => held'[c][m] = held[c][m]
    BY <2>1, <2>2
  <2>4. client[c] = "shutdown" => spawned[c] = Nodes
    BY <1>1 DEF CountedOf
  <2> QED BY <1>7, <2>2, <2>3, <2>4
<1>10. ASSUME NEW n \in Nodes, Collect(c, n) PROVE CountedOf(c)'
  <2>1. PICK t \in Ticks, bad \in BOOLEAN : Collects(c, n, t, bad)
    BY <1>10, CollectSamples
  <2>2. /\ receiver'[c] = [receiver[c] EXCEPT ![n] = "recv"] /\ receiver[c][n] = "offer"
        /\ held'[c] = [held[c] EXCEPT ![n] = NoBatch]
        /\ held[c] \in [Nodes -> Batches \cup {NoBatch}]
        /\ client[c] = "collect"
        /\ UNCHANGED <<activeClients, spawned>>
    BY <1>1, <1>10 DEF Collect, ReceiversTyped
  <2>3. held'[c][n] = NoBatch /\ \A m \in Nodes : m # n => held'[c][m] = held[c][m]
    BY <2>2
  <2>4. client'[c] \in {client[c], "shutdown"}
    BY <1>1, <2>1 DEF Collects, ControlTyped
  <2>5. spawned[c] = Nodes
    BY <1>1, <2>2 DEF CountedOf
  <2> QED BY <1>7, <2>2, <2>3, <2>4, <2>5
<1> QED BY <1>3, <1>4, <1>5, <1>6, <1>8, <1>9, <1>10 DEF ClientStep, WithNode

LEMMA StepCounted == NodeTypeOK /\ ClientShape /\ Counted /\ [Next]_vars => Counted'
<1> SUFFICES ASSUME NodeTypeOK, ClientShape, Counted, [Next]_vars, NEW d \in Clients
             PROVE  CountedOf(d)'
  BY DEF Counted, CountedOf, Active
<1>1. ASSUME UNCHANGED Own(d) PROVE CountedOf(d)'
  <2>1. CountedOf(d)
    BY DEF Counted, CountedOf
  <2>2. /\ client'[d] = client[d] /\ spawned'[d] = spawned[d]
        /\ activeClients'[d] = activeClients[d]
        /\ receiver'[d] = receiver[d] /\ held'[d] = held[d]
    BY <1>1 DEF Own
  <2>3. Active(d)' = Active(d)
    BY <2>2 DEF Active
  <2> QED BY <2>1, <2>2, <2>3 DEF CountedOf
<1>2. UNCHANGED clientVars => UNCHANGED Own(d)
  BY DEF clientVars, Own
<1> QED BY <1>1, <1>2, StepCountedOf, OtherClients, ClientSide

LEMMA InitCounted == Init => Counted
<1> SUFFICES ASSUME Init, NEW c \in Clients PROVE CountedOf(c)
  BY DEF Counted, CountedOf
<1>1. Active(c) = {}
  BY DEF Init, Active
<1> QED BY <1>1, FS_EmptySet, NodeAssumption DEF Init, CountedOf, NoBatch

ClusterTyped == NodeTypeOK /\ ClientShape /\ Counted

LEMMA InitTyped == Init => ClusterTyped
BY NodeInitTyped, InitShape, InitCounted DEF Init, ClusterTyped

LEMMA StepTyped == ClusterTyped /\ [Next]_vars => ClusterTyped'
BY NodesTyped, ControlStep, ReceiversStep, SamplesStep, StepCounted DEF ClusterTyped, ClientShape

LEMMA TypedIsTypeOK == ClusterTyped => TypeOK
<1> SUFFICES ASSUME ClusterTyped PROVE TypeOK
  OBVIOUS
<1>1. activeClients \in [Clients -> 0 .. Cardinality(Nodes)]
  <2>1. \A c \in Clients : activeClients[c] \in 0 .. Cardinality(Nodes)
    BY ActiveFinite DEF ClusterTyped, Counted
  <2> QED BY <2>1 DEF ClusterTyped, ClientShape, ControlTyped
<1>2. ClientTypeOK
  BY <1>1 DEF ClusterTyped, ClientShape, ControlTyped, ReceiversTyped, SamplesTyped,
              ClientTypeOK, ClientStates, ReceiverStates, SampleSeqs
<1> QED BY <1>2 DEF ClusterTyped, TypeOK

\* The state keeps its shape; in particular activeClients, which goroutines count down
\* without looking, is never negative and never more than the nodes (client.go:148,
\* client.go:63-67).
THEOREM TypeCorrect == Spec => []TypeOK
BY InitTyped, StepTyped, TypedIsTypeOK, PTL DEF Spec

-----------------------------------------------------------------------------
(* Nothing is left behind *)

LeavesLoopOf(c) ==
  /\ client[c] \in {"dial", "status", "start", "collect"} => ~BadTick(c)
  /\ client[c] = "shutdown" => BadTick(c)
  /\ client[c] \in {"close", "returned"} /\ ~BadTick(c) => Active(c) = {}

LEMMA StepLeavesLoopOf ==
  ASSUME ClusterTyped, LeavesLoop, NEW c \in Clients,
         ClientStep(c)
  PROVE  LeavesLoopOf(c)'
<1>1. LeavesLoopOf(c) /\ ControlTyped /\ ReceiversTyped /\ Counted
  BY DEF LeavesLoop, LeavesLoopOf, ClusterTyped, ClientShape
<1>2. ASSUME UNCHANGED aggregated[c], Active(c)' \subseteq Active(c),
             client'[c] \in {client[c], "died"}
      PROVE  LeavesLoopOf(c)'
  BY <1>1, <1>2 DEF LeavesLoopOf, BadTick
<1>3. CASE AllExited(c)
  <2>1. client[c] = "collect" /\ client'[c] = "close" /\ UNCHANGED <<receiver, aggregated>>
    BY <1>1, <1>3 DEF AllExited, ControlTyped
  <2>2. Active(c) = {}
    BY <1>1, <1>3, ActiveFinite DEF AllExited, Counted
  <2> QED BY <2>1, <2>2 DEF LeavesLoopOf, BadTick, Active
<1>4. CASE CloseAll(c)
  BY <1>1, <1>4 DEF CloseAll, ControlTyped, LeavesLoopOf, BadTick, Active
<1>5. CASE Dial(c) \/ AskStatus(c) \/ Fatal(c)
  <2>1. UNCHANGED <<aggregated, receiver>>
    BY <1>5 DEF Dial, AskStatus, Fatal
  <2>2. CASE Dial(c) \/ AskStatus(c)
    <3>1. client[c] \in {"dial", "status"} /\ client'[c] \in {"dial", "status", "start"}
      BY <1>1, <2>2 DEF Dial, AskStatus, ControlTyped
    <3> QED BY <1>1, <2>1, <3>1 DEF LeavesLoopOf, BadTick
  <2>3. CASE Fatal(c)
    BY <1>1, <1>2, <2>1, <2>3 DEF Fatal, ControlTyped, Active
  <2> QED BY <1>5, <2>2, <2>3
<1>6. ASSUME NEW n \in Nodes, StartReceiver(c, n) PROVE LeavesLoopOf(c)'
  <2>1. /\ client[c] = "start" /\ client'[c] \in {"start", "collect"}
        /\ UNCHANGED aggregated
    BY <1>1, <1>6 DEF StartReceiver, ControlTyped
  <2> QED BY <1>1, <2>1 DEF LeavesLoopOf, BadTick
<1>7. ASSUME NEW n \in Nodes, Collect(c, n) PROVE LeavesLoopOf(c)'
  <2>1. PICK t \in Ticks, bad \in BOOLEAN : Collects(c, n, t, bad)
    BY <1>1, <1>7, CollectSamples
  <2>2. client[c] = "collect" /\ ~BadTick(c)
    BY <1>1, <1>7 DEF Collect, LeavesLoopOf
  <2>3. ASSUME NEW b \in BOOLEAN,
               aggregated'[c] = aggregated[c] \cup {[tick |-> t, bad |-> b]},
               client'[c] = IF b THEN "shutdown" ELSE client[c]
        PROVE  LeavesLoopOf(c)'
    <3>1. CASE b = TRUE
      <4>1. BadTick(c)'
        <5> DEFINE a == [tick |-> t, bad |-> TRUE]
        <5>1. a \in aggregated'[c] /\ a.bad
          BY <2>3, <3>1
        <5> QED BY <5>1 DEF BadTick
      <4> QED BY <2>3, <3>1, <4>1 DEF LeavesLoopOf
    <3>2. CASE b = FALSE
      <4>1. ~BadTick(c)'
        BY <2>2, <2>3, <3>2 DEF BadTick
      <4> QED BY <2>2, <2>3, <3>2, <4>1 DEF LeavesLoopOf
    <3> QED BY <3>1, <3>2
  <2>4. CASE UNCHANGED <<aggregated, client>>
    BY <2>2, <2>4 DEF LeavesLoopOf, BadTick
  <2>5. aggregated \in [Clients -> SUBSET Batches]
    BY DEF ClusterTyped, ClientShape, SamplesTyped
  <2> QED BY <1>1, <2>1, <2>3, <2>4, <2>5 DEF Collects, ControlTyped
<1>8. ASSUME NEW n \in Nodes, Shutdown(c, n) PROVE LeavesLoopOf(c)'
  <2>1. /\ client[c] = "shutdown" /\ client'[c] \in {"shutdown", "close"}
        /\ UNCHANGED aggregated
    BY <1>1, <1>8 DEF Shutdown, ControlTyped
  <2> QED BY <1>1, <2>1 DEF LeavesLoopOf, BadTick
<1>9. ASSUME NEW n \in Nodes, OpenStream(c, n) PROVE LeavesLoopOf(c)'
  <2>1. UNCHANGED <<aggregated, client>>
    BY <1>9 DEF OpenStream
  <2>2. Active(c)' \subseteq Active(c)
    <3>1. \A m \in Nodes : m # n => receiver'[c][m] = receiver[c][m]
      BY <1>1, <1>9 DEF OpenStream, ReceiversTyped
    <3> QED BY <1>9, <3>1 DEF OpenStream, Active
  <2> QED BY <1>2, <2>1, <2>2
<1>10. ASSUME NEW n \in Nodes, ReceiveBatch(c, n) \/ ReceiveEnd(c, n)
       PROVE  LeavesLoopOf(c)'
  <2>1. UNCHANGED aggregated /\ client' = client /\ receiver[c][n] = "recv"
    BY <1>10 DEF ReceiveBatch, ReceiveEnd
  <2>2. \A m \in Nodes : m # n => receiver'[c][m] = receiver[c][m]
    <3>1. receiver' \in {[receiver EXCEPT ![c][n] = "offer"], [receiver EXCEPT ![c][n] = "exited"]}
      BY <1>10 DEF ReceiveBatch, ReceiveEnd
    <3> QED BY <1>1, <3>1 DEF ReceiversTyped
  <2>3. Active(c)' \subseteq Active(c)
    BY <2>1, <2>2 DEF Active
  <2> QED BY <1>2, <2>1, <2>3
<1> QED BY <1>3, <1>4, <1>5, <1>6, <1>7, <1>8, <1>9, <1>10
        DEF ClientStep, Alone, WithNode

LEMMA StepLeavesLoop == ClusterTyped /\ LeavesLoop /\ [Next]_vars => LeavesLoop'
<1> SUFFICES ASSUME ClusterTyped, LeavesLoop, [Next]_vars, NEW d \in Clients
             PROVE  LeavesLoopOf(d)'
  BY DEF LeavesLoop, LeavesLoopOf, BadTick, Active
<1>1. ASSUME UNCHANGED Own(d) PROVE LeavesLoopOf(d)'
  BY <1>1 DEF LeavesLoop, LeavesLoopOf, Own, Active, BadTick
<1>2. UNCHANGED clientVars => UNCHANGED Own(d)
  BY DEF clientVars, Own
<1> QED BY <1>1, <1>2, StepLeavesLoopOf, OtherClients, ClientSide DEF ClusterTyped

LEMMA InitLeavesLoop == Init => LeavesLoop
BY DEF Init, LeavesLoop, BadTick

\* A client that stops without a bad tick has received all that its streams delivered,
\* and holds no batch (client.go:63-67, client.go:148, client.go:204).
THEOREM NothingIsLeftBehind == Spec => []NothingLeftBehind
<1>1. ClusterTyped /\ LeavesLoop => NothingLeftBehind
  <2> SUFFICES ASSUME ClusterTyped, LeavesLoop, NEW c \in Clients,
                      client[c] \in {"close", "returned"},
                      \A a \in aggregated[c] : ~a.bad,
                      NEW n \in Nodes
               PROVE  receiver[c][n] = "exited" /\ held[c][n] = NoBatch
    BY DEF NothingLeftBehind
  <2>1. receiver[c][n] \notin {"open", "recv", "offer"}
    BY DEF LeavesLoop, BadTick, Active
  <2>2. receiver[c][n] # "none"
    BY DEF ClusterTyped, Counted
  <2>3. receiver[c][n] \in ReceiverStates
    BY DEF ClusterTyped, ClientShape, ReceiversTyped
  <2> QED BY <2>1, <2>2, <2>3 DEF ClusterTyped, Counted, ReceiverStates
<1> QED BY <1>1, InitTyped, InitLeavesLoop, StepTyped, StepLeavesLoop, PTL DEF Spec

-----------------------------------------------------------------------------
(* Ticks on their way *)

LEMMA TicksAppend ==
  ASSUME NEW s \in Seq(Batches), NEW t \in Ticks, NEW bad \in BOOLEAN
  PROVE  LET a == Append(s, [tick |-> t, bad |-> bad]) IN
         /\ TicksOf(a) = TicksOf(s) \cup {t}
         /\ TicksOnce(s) /\ t \notin TicksOf(s) => TicksOnce(a)
<1> DEFINE b == [tick |-> t, bad |-> bad]
           a == Append(s, b)
<1>1. b \in Batches /\ b.tick = t
  BY DEF Batches
<1> HIDE DEF b
<1>2. /\ Len(a) = Len(s) + 1 /\ Len(s) \in Nat
      /\ \A i \in 1 .. Len(s) : a[i] = s[i]
      /\ a[Len(s) + 1] = b
  BY <1>1, QueueAppend
<1> HIDE DEF a
<1>3. TicksOf(a) = TicksOf(s) \cup {t}
  <2>1. TicksOf(s) \cup {t} \subseteq TicksOf(a)
    BY <1>1, <1>2 DEF TicksOf
  <2>2. TicksOf(a) \subseteq TicksOf(s) \cup {t}
    BY <1>1, <1>2 DEF TicksOf
  <2> QED BY <2>1, <2>2
<1>4. ASSUME TicksOnce(s), t \notin TicksOf(s) PROVE TicksOnce(a)
  <2> SUFFICES ASSUME NEW i \in 1 .. Len(a), NEW j \in 1 .. Len(a), a[i].tick = a[j].tick
               PROVE  i = j
    BY DEF TicksOnce
  <2>1. CASE i \in 1 .. Len(s) /\ j \in 1 .. Len(s)
    BY <1>2, <1>4, <2>1 DEF TicksOnce
  <2>2. CASE i = Len(s) + 1 /\ j = Len(s) + 1
    BY <2>2
  <2>3. CASE i = Len(s) + 1 /\ j \in 1 .. Len(s)
    BY <1>1, <1>2, <1>4, <2>3 DEF TicksOf
  <2>4. CASE i \in 1 .. Len(s) /\ j = Len(s) + 1
    BY <1>1, <1>2, <1>4, <2>4 DEF TicksOf
  <2> QED BY <1>2, <2>1, <2>2, <2>3, <2>4
<1> QED BY <1>3, <1>4 DEF a, b

LEMMA TicksTail ==
  ASSUME NEW s \in Seq(Batches), s # <<>>, TicksOnce(s)
  PROVE  /\ Head(s).tick \in TicksOf(s)
         /\ TicksOnce(Tail(s))
         /\ TicksOf(Tail(s)) \subseteq TicksOf(s) \ {Head(s).tick}
<1> DEFINE r == Tail(s)
<1>1. /\ Head(s) = s[1] /\ Len(s) \in Nat \ {0} /\ Len(r) = Len(s) - 1
      /\ \A i \in 1 .. Len(s) - 1 : r[i] = s[i + 1]
  BY QueueTail
<1> HIDE DEF r
<1>2. \A i \in 1 .. Len(r) : /\ i + 1 \in 1 .. Len(s) /\ i + 1 # 1
                            /\ r[i] = s[i + 1]
  BY <1>1
<1>3. TicksOnce(r)
  <2> SUFFICES ASSUME NEW i \in 1 .. Len(r), NEW j \in 1 .. Len(r), r[i].tick = r[j].tick
               PROVE  i = j
    BY DEF TicksOnce
  <2>1. i + 1 = j + 1
    BY <1>2 DEF TicksOnce
  <2> QED BY <2>1
<1>4. TicksOf(r) \subseteq TicksOf(s) \ {s[1].tick}
  <2> SUFFICES ASSUME NEW i \in 1 .. Len(r)
               PROVE  r[i].tick \in TicksOf(s) /\ r[i].tick # s[1].tick
    BY DEF TicksOf
  <2>1. 1 \in 1 .. Len(s)
    BY <1>1
  <2> QED BY <1>2, <2>1 DEF TicksOnce, TicksOf
<1>5. s[1].tick \in TicksOf(s)
  BY <1>1 DEF TicksOf
<1> QED BY <1>1, <1>3, <1>4, <1>5 DEF r

LEMMA TicksEmpty == TicksOf(<<>>) = {} /\ TicksOnce(<<>>)
BY DEF TicksOf, TicksOnce

\* A batch is queued.
LEMMA ApartQueued ==
  ASSUME NEW q \in Seq(Batches), NEW w, NEW o, NEW s, NEW e, Apart(q, w, o, s, e),
         NEW t \in Ticks, NEW bad \in BOOLEAN, t \notin e
  PROVE  Apart(Append(q, [tick |-> t, bad |-> bad]), w, o, s, e \cup {t})
<1> DEFINE a == Append(q, [tick |-> t, bad |-> bad])
<1>1. TicksOf(a) = TicksOf(q) \cup {t}
  BY TicksAppend
<1>2. TicksOnce(a)
  BY TicksAppend DEF Apart
<1> HIDE DEF a
<1>3. Apart(a, w, o, s, e \cup {t})
  BY <1>1, <1>2 DEF Apart
<1> QED BY <1>3 DEF a

\* It is sent, or lost.
LEMMA ApartSent ==
  ASSUME NEW q \in Seq(Batches), NEW w \in Seq(Batches), NEW o, NEW s, NEW e,
         Apart(q, w, o, s, e), q # <<>>
  PROVE  /\ Apart(Tail(q), w, o, s, e)
         /\ Apart(Tail(q), Append(w, Head(q)), o, s, e)
<1> DEFINE r == Tail(q)
           h == Head(q)
           a == Append(w, h)
<1>1. /\ h.tick \in TicksOf(q) /\ TicksOnce(r)
      /\ TicksOf(r) \subseteq TicksOf(q) \ {h.tick}
  BY TicksTail DEF Apart
<1>2. PICK t \in Ticks, bad \in BOOLEAN : h = [tick |-> t, bad |-> bad]
  <2>1. h \in Batches
    BY QueueTail
  <2> HIDE DEF h
  <2> QED BY <2>1 DEF Batches
<1>3. h.tick = t
  BY <1>2
<1>4. TicksOf(a) = TicksOf(w) \cup {t}
  BY <1>2, TicksAppend
<1>5. TicksOnce(a)
  <2>1. t \notin TicksOf(w)
    BY <1>1, <1>3 DEF Apart
  <2> QED BY <1>2, <2>1, TicksAppend DEF Apart
<1> HIDE DEF r, h, a
<1>6. Apart(r, w, o, s, e) /\ Apart(r, a, o, s, e)
  BY <1>1, <1>3, <1>4, <1>5 DEF Apart
<1> QED BY <1>6 DEF r, h, a

\* What is in transit is lost.
LEMMA ApartCut ==
  ASSUME NEW q, NEW w, NEW o, NEW s, NEW e, Apart(q, w, o, s, e)
  PROVE  Apart(q, <<>>, o, s, e)
BY TicksEmpty DEF Apart

\* A batch is received.
LEMMA ApartReceived ==
  ASSUME NEW q, NEW w \in Seq(Batches), NEW s, NEW e, Apart(q, w, {}, s, e), w # <<>>
  PROVE  Apart(q, Tail(w), {Head(w).tick}, s, e)
<1> DEFINE r == Tail(w)
           t == Head(w).tick
<1>1. t \in TicksOf(w) /\ TicksOnce(r) /\ TicksOf(r) \subseteq TicksOf(w) \ {t}
  BY TicksTail DEF Apart
<1> HIDE DEF r, t
<1>2. Apart(q, r, {t}, s, e)
  BY <1>1 DEF Apart
<1> QED BY <1>2 DEF r, t

\* It is sampled, for the first time.
LEMMA ApartSampled ==
  ASSUME NEW q, NEW w, NEW t, NEW s, NEW e, Apart(q, w, {t}, s, e)
  PROVE  t \notin s /\ Apart(q, w, {}, s \cup {t}, e)
BY DEF Apart

-----------------------------------------------------------------------------
(* Ticks are in one place *)

\* What the nodes and the ends of streams do to queues and wires.
LEMMA NodeMovesTicks ==
  ASSUME NodeTypeOK, NEW n \in Nodes, NEW c \in Clients,
         NodeStep(n, c) \/ Crash(n) \/ HangUp(n, c),
         NEW m \in Nodes, NEW d \in Clients
  PROVE  \A o, s : Apart(queue[m][d], wire[m][d], o, s, emitted[m][d])
                   => Apart(queue'[m][d], wire'[m][d], o, s, emitted'[m][d])
<1>1. /\ queue \in PerCallIn(Seq(Batches)) /\ wire \in PerCallIn(Seq(Batches))
      /\ emitted \in PerCallIn(SUBSET Ticks)
      /\ queue[m][d] \in Seq(Batches) /\ wire[m][d] \in Seq(Batches)
  BY NodeTyped DEF QueueTyped, WireTyped, FlagsTyped, PerCallIn, Clients
<1> DEFINE Q == queue[m][d]
           W == wire[m][d]
           E == emitted[m][d]
<1> HIDE DEF Q, W, E
<1>a. /\ Q \in Seq(Batches) /\ W \in Seq(Batches)
      /\ queue[m][d] = Q /\ wire[m][d] = W /\ emitted[m][d] = E
  BY <1>1 DEF Q, W, E
<1> SUFFICES ASSUME NEW o, NEW s, Apart(Q, W, o, s, E)
             PROVE  Apart(queue'[m][d], wire'[m][d], o, s, emitted'[m][d])
  BY <1>a
<1>2. CASE UNCHANGED <<queue[m][d], wire[m][d], emitted[m][d]>>
  BY <1>a, <1>2
<1>3. CASE wire'[m][d] = <<>> /\ UNCHANGED <<queue[m][d], emitted[m][d]>>
  BY <1>a, <1>3, ApartCut
<1>4. CASE RunEmits(n, c)
  <2>1. PICK t \in Ticks \ emitted[n][c], bad \in BOOLEAN :
          /\ emitted' = [emitted EXCEPT ![n][c] = @ \cup {t}]
          /\ queue' = [queue EXCEPT ![n][c] = Append(@, [tick |-> t, bad |-> bad])]
    BY <1>4 DEF RunEmits
  <2>2. UNCHANGED wire
    BY <1>4 DEF RunEmits, linkVars
  <2>3. CASE m = n /\ d = c
    <3>1. /\ queue'[m][d] = Append(Q, [tick |-> t, bad |-> bad])
          /\ emitted'[m][d] = E \cup {t} /\ t \notin E /\ t \in Ticks
      BY <1>1, <2>1, <2>3 DEF PerCallIn, Clients, Q, E
    <3> QED BY <1>a, <2>2, <3>1, ApartQueued
  <2>4. CASE ~(m = n /\ d = c)
    <3>1. queue'[m][d] = queue[m][d] /\ emitted'[m][d] = emitted[m][d]
      BY <1>1, <2>1, <2>4 DEF PerCallIn, Clients
    <3> QED BY <1>2, <2>2, <3>1
  <2> QED BY <2>3, <2>4
<1>5. CASE StreamSends(n, c)
  <2>1. /\ queue' = [queue EXCEPT ![n][c] = Tail(@)] /\ queue[n][c] # <<>>
        /\ \/ wire' = [wire EXCEPT ![n][c] = Append(@, Head(queue[n][c]))]
           \/ UNCHANGED wire
        /\ UNCHANGED emitted
    BY <1>5 DEF StreamSends
  <2>2. CASE m = n /\ d = c
    <3>1. /\ queue'[m][d] = Tail(Q) /\ Q # <<>>
          /\ wire'[m][d] = Append(W, Head(Q)) \/ wire'[m][d] = W
      BY <1>1, <2>1, <2>2 DEF PerCallIn, Clients, Q, W
    <3>2. Apart(Tail(Q), W, o, s, E) /\ Apart(Tail(Q), Append(W, Head(Q)), o, s, E)
      BY <1>a, <3>1, ApartSent
    <3> QED BY <1>a, <2>1, <3>1, <3>2
  <2>3. CASE ~(m = n /\ d = c)
    <3>1. queue'[m][d] = queue[m][d] /\ wire'[m][d] = wire[m][d]
      BY <1>1, <2>1, <2>3 DEF PerCallIn, Clients
    <3> QED BY <1>2, <2>1, <3>1
  <2> QED BY <2>2, <2>3
<1>6. CASE Crash(n)
  <2>1. wire'[m][d] = (IF m = n THEN <<>> ELSE wire[m][d]) /\ UNCHANGED <<queue, emitted>>
    BY <1>1, <1>6 DEF Crash, PerCallIn, runVars, Clients
  <2> QED BY <1>2, <1>3, <2>1
<1>7. CASE HangUp(n, c)
  <2>1. /\ wire'[m][d] = IF m = n /\ d = c THEN <<>> ELSE wire[m][d]
        /\ UNCHANGED <<queue, emitted>>
    BY <1>1, <1>7 DEF HangUp, PerCallIn, runVars, Clients
  <2> QED BY <1>2, <1>3, <2>1
<1>8. CASE NodeStep(n, c) /\ ~RunEmits(n, c) /\ ~StreamSends(n, c)
  <2>1. UNCHANGED <<queue, wire, emitted>>
    BY <1>8 DEF NodeStep, Handler, StreamedRunStep, RunChecksBusy, RunSetsBusy, RunStarts,
                StreamChecksFailed, StreamEnds, RunReturns, RunFails, RunTimesOut,
                RunCloses, runVars, linkVars
  <2> QED BY <1>2, <2>1
<1> QED BY <1>4, <1>5, <1>6, <1>7, <1>8

\* Steps that only change the control of clients and goroutines leave what is offered
\* and sampled as it is.
LEMMA ControlKeepsPlaces ==
  ASSUME ClusterTyped, NEW c \in Clients,
         \/ Alone(c)
         \/ \E n \in Nodes : \/ StartReceiver(c, n) \/ Shutdown(c, n)
                             \/ OpenStream(c, n) \/ ReceiveEnd(c, n),
         NEW d \in Clients, NEW m \in Nodes
  PROVE  Offered(d, m)' = Offered(d, m) /\ Sampled(d, m)' = Sampled(d, m)
<1>1. UNCHANGED <<held, samples>>
  BY DEF Alone, Dial, AskStatus, AllExited, CloseAll, Fatal, StartReceiver, Shutdown,
         OpenStream, ReceiveEnd
<1>2. receiver \in [Clients -> [Nodes -> ReceiverStates]]
  BY DEF ClusterTyped, ClientShape, ReceiversTyped
<1>3. receiver'[d][m] = "offer" <=> receiver[d][m] = "offer"
  <2>1. CASE UNCHANGED receiver
    BY <2>1
  <2>2. ASSUME NEW n \in Nodes, NEW to \in {"open", "recv", "exited"},
               receiver' = [receiver EXCEPT ![c][n] = to],
               receiver[c][n] # "offer"
        PROVE  receiver'[d][m] = "offer" <=> receiver[d][m] = "offer"
    BY <1>2, <2>2
  <2>3. ASSUME NEW n \in Nodes, StartReceiver(c, n)
        PROVE  receiver'[d][m] = "offer" <=> receiver[d][m] = "offer"
    <3>1. receiver[c][n] = "none"
      BY <2>3 DEF StartReceiver, ClusterTyped, Counted
    <3> QED BY <2>2, <2>3, <3>1 DEF StartReceiver
  <2>4. ASSUME NEW n \in Nodes, OpenStream(c, n) \/ ReceiveEnd(c, n)
        PROVE  receiver'[d][m] = "offer" <=> receiver[d][m] = "offer"
    <3>1. CASE OpenStream(c, n)
      BY <2>2, <3>1 DEF OpenStream
    <3>2. CASE ReceiveEnd(c, n)
      BY <2>2, <3>2 DEF ReceiveEnd
    <3> QED BY <2>4, <3>1, <3>2
  <2> QED BY <2>1, <2>3, <2>4
          DEF Alone, Dial, AskStatus, AllExited, CloseAll, Fatal, Shutdown
<1> QED BY <1>1, <1>3 DEF Offered, Sampled

\* They also leave queues and wires alone, unless they break the streams of the client.
LEMMA ControlKeepsTicks ==
  ASSUME NodeTypeOK, NEW c \in Clients,
         \/ Dial(c) \/ AskStatus(c) \/ AllExited(c)
         \/ \E n \in Nodes : \/ StartReceiver(c, n) \/ Shutdown(c, n)
                             \/ OpenStream(c, n) \/ ReceiveEnd(c, n)
  PROVE  UNCHANGED <<queue, wire, emitted>>
<1>1. UNCHANGED nodeVars => UNCHANGED <<queue, wire, emitted>>
  BY DEF nodeVars, runVars, linkVars
<1>2. ASSUME NEW n \in Nodes, Shutdown(c, n) PROVE UNCHANGED <<queue, wire, emitted>>
  BY <1>1, <1>2 DEF Shutdown, ShutdownNode, linkVars
<1>3. ASSUME NEW n \in Nodes, OpenStream(c, n) PROVE UNCHANGED <<queue, wire, emitted>>
  BY <1>1, <1>3 DEF OpenStream, RunArrives, runVars
<1>4. ASSUME NEW n \in Nodes, StartReceiver(c, n) \/ ReceiveEnd(c, n)
      PROVE  UNCHANGED nodeVars
  BY <1>4 DEF StartReceiver, ReceiveEnd
<1>5. Dial(c) \/ AskStatus(c) \/ AllExited(c) => UNCHANGED nodeVars
  BY DEF Dial, AskStatus, AllExited
<1> QED BY <1>1, <1>2, <1>3, <1>4, <1>5

LEMMA ReceiveMovesTick ==
  ASSUME ClusterTyped, Placed, NEW c \in Clients, NEW n \in Nodes, ReceiveBatch(c, n),
         NEW d \in Clients, NEW m \in Nodes
  PROVE  OnePlace(d, m)'
<1>1. /\ wire \in PerCallIn(Seq(Batches)) /\ queue[m][d] \in Seq(Batches)
      /\ wire[m][d] \in Seq(Batches)
      /\ receiver \in [Clients -> [Nodes -> ReceiverStates]]
      /\ held \in [Clients -> [Nodes -> Batches \cup {NoBatch}]]
  BY NodeTyped DEF ClusterTyped, ClientShape, ReceiversTyped, WireTyped, QueueTyped,
                   PerCallIn, Clients
<1>2. /\ wire[n][c] # <<>> /\ wire' = [wire EXCEPT ![n][c] = Tail(@)]
      /\ UNCHANGED <<queue, emitted, samples>>
      /\ receiver[c][n] = "recv"
      /\ held' = [held EXCEPT ![c][n] = Head(wire[n][c])]
      /\ receiver' = [receiver EXCEPT ![c][n] = "offer"]
  BY DEF ReceiveBatch, Receive, runVars
<1>3. OnePlace(d, m) /\ Sampled(d, m)' = Sampled(d, m)
  BY <1>2 DEF Placed, Sampled
<1>4. CASE d = c /\ m = n
  <2>1. wire'[m][d] = Tail(wire[m][d]) /\ wire[m][d] # <<>>
    BY <1>1, <1>2, <1>4 DEF PerCallIn, Clients
  <2>2. Offered(d, m) = {} /\ Offered(d, m)' = {Head(wire[m][d]).tick}
    BY <1>1, <1>2, <1>4 DEF Offered
  <2>3. Apart(queue[m][d], Tail(wire[m][d]), {Head(wire[m][d]).tick}, Sampled(d, m),
              emitted[m][d])
    <3>1. Apart(queue[m][d], wire[m][d], {}, Sampled(d, m), emitted[m][d])
      BY <1>3, <2>2 DEF OnePlace
    <3> QED BY <1>1, <2>1, <3>1, ApartReceived
  <2> QED BY <1>2, <1>3, <2>1, <2>2, <2>3 DEF OnePlace
<1>5. CASE ~(d = c /\ m = n)
  <2>1. wire'[m][d] = wire[m][d]
    BY <1>1, <1>2, <1>5 DEF PerCallIn, Clients
  <2>2. Offered(d, m)' = Offered(d, m)
    <3>1. receiver'[d][m] = receiver[d][m] /\ held'[d][m] = held[d][m]
      BY <1>1, <1>2, <1>5
    <3> QED BY <3>1 DEF Offered
  <2> QED BY <1>2, <1>3, <2>1, <2>2 DEF OnePlace
<1> QED BY <1>4, <1>5

\* A batch that is sampled joins those of its tick.
LEMMA CollectSamplesTick ==
  ASSUME ClusterTyped, NEW c \in Clients, NEW n \in Nodes, Collect(c, n),
         NEW t \in Ticks, NEW bad \in BOOLEAN, Collects(c, n, t, bad)
  PROVE  /\ Offered(c, n) = {t} /\ Offered(c, n)' = {}
         /\ Sampled(c, n)' = Sampled(c, n) \cup {t}
         /\ \A d \in Clients, m \in Nodes : d # c \/ m # n =>
              Offered(d, m)' = Offered(d, m) /\ Sampled(d, m)' = Sampled(d, m)
<1> DEFINE b == [node |-> n, bad |-> bad]
           a == Append(samples[c][t], b)
<1>1. /\ receiver \in [Clients -> [Nodes -> ReceiverStates]]
      /\ held \in [Clients -> [Nodes -> Batches \cup {NoBatch}]]
      /\ samples \in [Clients -> [Ticks -> SampleSeqs]]
  BY DEF ClusterTyped, ClientShape, ReceiversTyped, SamplesTyped
<1>2. /\ receiver[c][n] = "offer" /\ held[c][n].tick = t
      /\ receiver' = [receiver EXCEPT ![c][n] = "recv"]
      /\ held' = [held EXCEPT ![c][n] = NoBatch]
      /\ samples' = [samples EXCEPT ![c][t] = a]
  BY DEF Collect, Collects
<1>3. b \in [node : Nodes, bad : BOOLEAN] /\ b.node = n
  OBVIOUS
<1>4. samples[c][t] \in Seq([node : Nodes, bad : BOOLEAN])
  BY <1>1 DEF SampleSeqs
<1> HIDE DEF b
<1>5. /\ Len(a) = Len(samples[c][t]) + 1 /\ Len(samples[c][t]) \in Nat
      /\ \A i \in 1 .. Len(samples[c][t]) : a[i] = samples[c][t][i]
      /\ a[Len(samples[c][t]) + 1] = b
  BY <1>3, <1>4, QueueAppend
<1> HIDE DEF a
<1>6. /\ samples'[c][t] = a
      /\ \A d \in Clients, u \in Ticks : d # c \/ u # t => samples'[d][u] = samples[d][u]
  BY <1>1, <1>2
<1>7. Offered(c, n) = {t} /\ Offered(c, n)' = {}
  BY <1>1, <1>2 DEF Offered
<1>8. Sampled(c, n)' = Sampled(c, n) \cup {t}
  <2>1. ASSUME NEW u \in Ticks, u # t PROVE u \in Sampled(c, n)' <=> u \in Sampled(c, n)
    BY <1>6, <2>1 DEF Sampled
  <2>2. t \in Sampled(c, n)'
    <3>1. Len(a) \in 1 .. Len(a) /\ a[Len(a)].node = n
      BY <1>3, <1>5
    <3> QED BY <1>6, <3>1 DEF Sampled
  <2> QED BY <2>1, <2>2 DEF Sampled
<1>9. ASSUME NEW d \in Clients, NEW m \in Nodes, d # c \/ m # n
      PROVE  Offered(d, m)' = Offered(d, m) /\ Sampled(d, m)' = Sampled(d, m)
  <2>1. receiver'[d][m] = receiver[d][m] /\ held'[d][m] = held[d][m]
    BY <1>1, <1>2, <1>9
  <2>2. ASSUME NEW u \in Ticks PROVE u \in Sampled(d, m)' <=> u \in Sampled(d, m)
    <3>1. CASE d # c \/ u # t
      BY <1>6, <3>1 DEF Sampled
    <3>2. CASE d = c /\ u = t /\ m # n
      <4>1. (\E i \in 1 .. Len(a) : a[i].node = m)
              <=> \E i \in 1 .. Len(samples[c][t]) : samples[c][t][i].node = m
        <5>1. \A i \in 1 .. Len(a) :
                i \in 1 .. Len(samples[c][t]) \/ i = Len(samples[c][t]) + 1
          BY <1>5
        <5>2. \A i \in 1 .. Len(samples[c][t]) : i \in 1 .. Len(a)
          BY <1>5
        <5> QED BY <1>3, <1>5, <3>2, <5>1, <5>2
      <4> QED BY <1>6, <3>2, <4>1 DEF Sampled
    <3> QED BY <1>9, <3>1, <3>2
  <2> QED BY <2>1, <2>2 DEF Offered, Sampled
<1> QED BY <1>7, <1>8, <1>9

LEMMA StepPlaced == ClusterTyped /\ Placed /\ [Next]_vars => Placed'
<1> SUFFICES ASSUME ClusterTyped, Placed, [Next]_vars, NEW d \in Clients, NEW m \in Nodes
             PROVE  OnePlace(d, m)'
  BY DEF Placed, OnePlace, Apart, Offered, Sampled, TicksOf, TicksOnce
<1>1. OnePlace(d, m) /\ NodeTypeOK /\ Counted
  BY DEF Placed, ClusterTyped
<1>2. ASSUME UNCHANGED <<queue[m][d], wire[m][d], emitted[m][d]>>,
             Offered(d, m)' = Offered(d, m), Sampled(d, m)' = Sampled(d, m)
      PROVE  OnePlace(d, m)'
  BY <1>1, <1>2 DEF OnePlace
<1>3. UNCHANGED clientVars =>
        Offered(d, m)' = Offered(d, m) /\ Sampled(d, m)' = Sampled(d, m)
  BY DEF clientVars, Offered, Sampled
<1>4. ASSUME NEW n \in Nodes, NEW c \in Clients,
             NodeStep(n, c) \/ Crash(n) \/ HangUp(n, c), UNCHANGED clientVars
      PROVE  OnePlace(d, m)'
  BY <1>1, <1>3, <1>4, NodeMovesTicks DEF OnePlace
<1>5. ASSUME NEW n \in Nodes, NodeMoves(n) PROVE OnePlace(d, m)'
  BY <1>4, <1>5 DEF NodeMoves
<1>6. ASSUME NEW n \in Nodes, NEW c \in Clients, StreamTimesOut(c, n) PROVE OnePlace(d, m)'
  BY <1>4, <1>6 DEF StreamTimesOut
<1>7. ASSUME NEW n \in Nodes, NEW c \in Clients, ReceiveBatch(c, n) PROVE OnePlace(d, m)'
  BY <1>7, ReceiveMovesTick
<1>8. ASSUME NEW n \in Nodes, NEW c \in Clients, Collect(c, n) PROVE OnePlace(d, m)'
  <2>1. PICK t \in Ticks, bad \in BOOLEAN : Collects(c, n, t, bad)
    BY <1>1, <1>8, CollectSamples
  <2>2. UNCHANGED <<queue, wire, emitted>>
    BY <1>8 DEF Collect, nodeVars, runVars, linkVars
  <2>3. CASE d = c /\ m = n
    <3>1. /\ Offered(d, m) = {t} /\ Offered(d, m)' = {}
          /\ Sampled(d, m)' = Sampled(d, m) \cup {t}
      BY <1>8, <2>1, <2>3, CollectSamplesTick
    <3>2. queue[m][d] \in Seq(Batches) /\ wire[m][d] \in Seq(Batches)
      BY <1>1, NodeTyped DEF QueueTyped, WireTyped, PerCallIn, Clients
    <3>3. Apart(queue[m][d], wire[m][d], {}, Sampled(d, m) \cup {t}, emitted[m][d])
      <4>1. Apart(queue[m][d], wire[m][d], {t}, Sampled(d, m), emitted[m][d])
        BY <1>1, <3>1 DEF OnePlace
      <4> QED BY <4>1, ApartSampled
    <3> QED BY <2>2, <3>1, <3>3 DEF OnePlace
  <2>4. CASE ~(d = c /\ m = n)
    BY <1>2, <1>8, <2>1, <2>2, <2>4, CollectSamplesTick
  <2> QED BY <2>3, <2>4
<1>9. ASSUME NEW c \in Clients, CloseAll(c) \/ Fatal(c) PROVE OnePlace(d, m)'
  <2>1. /\ wire'[m][d] = IF d = c THEN <<>> ELSE wire[m][d]
        /\ UNCHANGED <<queue, emitted>>
    BY <1>1, <1>9, NodeTyped DEF CloseAll, Fatal, BreakStreams, WireTyped, PerCallIn,
                                 runVars, Clients
  <2>2. Offered(d, m)' = Offered(d, m) /\ Sampled(d, m)' = Sampled(d, m)
    BY <1>9, ControlKeepsPlaces DEF Alone
  <2>3. queue[m][d] \in Seq(Batches) /\ wire[m][d] \in Seq(Batches)
    BY <1>1, NodeTyped DEF QueueTyped, WireTyped, PerCallIn, Clients
  <2>4. Apart(queue[m][d], <<>>, Offered(d, m), Sampled(d, m), emitted[m][d])
    BY <1>1, <2>3, ApartCut DEF OnePlace
  <2> QED BY <1>1, <2>1, <2>2, <2>4 DEF OnePlace
<1>10. ASSUME NEW c \in Clients,
             \/ Dial(c) \/ AskStatus(c) \/ AllExited(c)
             \/ \E n \in Nodes : \/ StartReceiver(c, n) \/ Shutdown(c, n)
                                 \/ OpenStream(c, n) \/ ReceiveEnd(c, n)
       PROVE  OnePlace(d, m)'
  BY <1>1, <1>2, <1>10, ControlKeepsPlaces, ControlKeepsTicks DEF Alone
<1>11. CASE UNCHANGED vars
  BY <1>2, <1>3, <1>11 DEF vars, nodeVars, runVars, linkVars
<1> QED BY <1>5, <1>6, <1>7, <1>8, <1>9, <1>10, <1>11
        DEF Next, Client, CallFails, Receiver, ReceiveCut, Quiet

LEMMA InitPlaced == Init => Placed
<1> SUFFICES ASSUME Init, NEW c \in Clients, NEW n \in Nodes PROVE OnePlace(c, n)
  BY DEF Placed
<1>1. queue[n][c] = <<>> /\ wire[n][c] = <<>>
  BY DEF Init, NodeInit, PerCall, Clients
<1>2. Offered(c, n) = {} /\ Sampled(c, n) = {}
  BY DEF Init, Offered, Sampled
<1> QED BY <1>1, <1>2, TicksEmpty DEF OnePlace, Apart

-----------------------------------------------------------------------------
(* Adding up a tick *)

\* As many batches as nodes, of different nodes, are one of each.
LEMMA OneOfEach ==
  ASSUME NEW s \in SampleSeqs, NodesOnce(s), Len(s) = Cardinality(Nodes)
  PROVE  \A n \in Nodes : \E i \in 1 .. Len(s) : s[i].node = n
<1> DEFINE f == [i \in 1 .. Len(s) |-> s[i].node]
<1>1. Len(s) \in Nat /\ \A i \in 1 .. Len(s) : s[i].node \in Nodes
  <2>1. Len(s) \in Nat /\ \A i \in 1 .. Len(s) : s[i] \in [node : Nodes, bad : BOOLEAN]
    <3> DEFINE R == [node : Nodes, bad : BOOLEAN]
    <3>1. s \in Seq(R)
      BY DEF SampleSeqs
    <3> HIDE DEF R
    <3>2. Len(s) \in Nat /\ \A i \in 1 .. Len(s) : s[i] \in R
      BY <3>1
    <3> QED BY <3>2 DEF R
  <2> QED BY <2>1
<1>2. f \in Injection(1 .. Len(s), Nodes)
  BY <1>1 DEF NodesOnce, Injection, IsInjective
<1>3. Cardinality(1 .. Len(s)) = Len(s)
  BY <1>1, FS_Interval
<1>4. f \in Surjection(1 .. Len(s), Nodes)
  <2> HIDE DEF f
  <2> QED BY <1>2, <1>3, NodeAssumption, FS_Injection
<1> QED BY <1>4 DEF Surjection

SeparateOf(c) == \A t \in Ticks : NodesOnce(samples[c][t])
CompleteOf(c) ==
  /\ \A a, b \in aggregated[c] : a.tick = b.tick => a = b
  /\ \A a \in aggregated[c] : Len(samples[c][a.tick]) = Cardinality(Nodes)

LEMMA StepAdded ==
  ClusterTyped /\ Placed /\ Separate /\ Complete /\ [Next]_vars => Separate' /\ Complete'
<1> SUFFICES ASSUME ClusterTyped, Placed, Separate, Complete, [Next]_vars, NEW d \in Clients
             PROVE  SeparateOf(d)' /\ CompleteOf(d)'
  BY DEF Separate, SeparateOf, NodesOnce, Complete, CompleteOf
<1>1. /\ SeparateOf(d) /\ CompleteOf(d) /\ Counted
      /\ samples \in [Clients -> [Ticks -> SampleSeqs]]
      /\ aggregated \in [Clients -> SUBSET Batches]
  BY DEF Separate, SeparateOf, Complete, CompleteOf, ClusterTyped, ClientShape, SamplesTyped
<1>2. CASE UNCHANGED <<samples[d], aggregated[d]>>
  BY <1>1, <1>2 DEF SeparateOf, NodesOnce, CompleteOf
<1>3. ASSUME NEW c \in Clients, NEW n \in Nodes, Collect(c, n)
      PROVE  SeparateOf(d)' /\ CompleteOf(d)'
  <2>1. PICK t \in Ticks, bad \in BOOLEAN : Collects(c, n, t, bad)
    BY <1>1, <1>3, CollectSamples
  <2> DEFINE b == [node |-> n, bad |-> bad]
             s == samples[c][t]
             a == Append(s, b)
  <2>2. CASE d # c
    BY <1>1, <1>2, <2>1, <2>2 DEF Collects
  <2>3. CASE d = c
    <3>1. s \in SampleSeqs /\ NodesOnce(s)
      BY <1>1, <2>3 DEF SeparateOf
    <3>2. \A i \in 1 .. Len(s) : s[i].node # n
      <4>1. OnePlace(c, n) /\ Offered(c, n) = {t}
        BY <1>3, <2>1, CollectSamplesTick DEF Placed
      <4>2. t \notin Sampled(c, n)
        <5>1. Apart(queue[n][c], wire[n][c], {t}, Sampled(c, n), emitted[n][c])
          BY <4>1 DEF OnePlace
        <5> QED BY <5>1, ApartSampled
      <4> QED BY <4>2 DEF Sampled
    <3>3. b \in [node : Nodes, bad : BOOLEAN] /\ b.node = n
      OBVIOUS
    <3> HIDE DEF b, s
    <3>4. /\ Len(a) = Len(s) + 1 /\ Len(s) \in Nat
          /\ \A i \in 1 .. Len(s) : a[i] = s[i]
          /\ a[Len(s) + 1] = b
      BY <3>1, <3>3, QueueAppend DEF SampleSeqs
    <3> HIDE DEF a
    <3>5. NodesOnce(a)
      <4> SUFFICES ASSUME NEW i \in 1 .. Len(a), NEW j \in 1 .. Len(a),
                          a[i].node = a[j].node
                   PROVE  i = j
        BY DEF NodesOnce
      <4>1. CASE i \in 1 .. Len(s) /\ j \in 1 .. Len(s)
        BY <3>1, <3>4, <4>1 DEF NodesOnce
      <4>2. CASE i = Len(s) + 1 /\ j \in 1 .. Len(s)
        BY <3>2, <3>3, <3>4, <4>2
      <4>3. CASE i \in 1 .. Len(s) /\ j = Len(s) + 1
        BY <3>2, <3>3, <3>4, <4>3
      <4> QED BY <3>4, <4>1, <4>2, <4>3
    <3>6. /\ samples'[d][t] = a
          /\ \A u \in Ticks : u # t => samples'[d][u] = samples[d][u]
      BY <1>1, <2>1, <2>3 DEF Collects, a, b, s
    <3>7. SeparateOf(d)'
      <4>1. \A u \in Ticks : NodesOnce(samples'[d][u])
        BY <1>1, <3>5, <3>6 DEF SeparateOf
      <4> QED BY <4>1 DEF SeparateOf, NodesOnce
    <3>8. Len(s) # Cardinality(Nodes)
      BY <3>1, <3>2, OneOfEach
    <3>9. \A x \in aggregated[d] : x.tick \in Ticks /\ x.tick # t
      <4>1. \A x \in aggregated[d] : x.tick \in Ticks
        BY <1>1 DEF Batches
      <4> QED BY <1>1, <2>3, <3>8, <4>1 DEF CompleteOf, s
    <3>10. CASE UNCHANGED aggregated
      BY <1>1, <3>6, <3>7, <3>9, <3>10 DEF CompleteOf
    <3>11. ASSUME Len(a) = Cardinality(Nodes), NEW g \in BOOLEAN,
                  aggregated' = [aggregated EXCEPT ![c] = @ \cup {[tick |-> t, bad |-> g]}]
           PROVE  CompleteOf(d)'
      <4> DEFINE x == [tick |-> t, bad |-> g]
      <4>1. aggregated'[d] = aggregated[d] \cup {x} /\ x.tick = t
        BY <1>1, <2>3, <3>11
      <4> HIDE DEF x
      <4>2. \A y, z \in aggregated'[d] : y.tick = z.tick => y = z
        BY <1>1, <3>9, <4>1 DEF CompleteOf
      <4>3. \A y \in aggregated'[d] : Len(samples'[d][y.tick]) = Cardinality(Nodes)
        BY <1>1, <3>6, <3>9, <3>11, <4>1 DEF CompleteOf
      <4> QED BY <4>2, <4>3 DEF CompleteOf
    <3>12. \/ UNCHANGED aggregated
           \/ Len(a) = Cardinality(Nodes) /\ \E g \in BOOLEAN :
                aggregated' = [aggregated EXCEPT ![c] = @ \cup {[tick |-> t, bad |-> g]}]
      BY <2>1 DEF Collects, a, b, s
    <3> QED BY <3>7, <3>10, <3>11, <3>12
  <2> QED BY <2>2, <2>3
<1>4. ASSUME NEW c \in Clients, NEW n \in Nodes,
             \/ StartReceiver(c, n) \/ Shutdown(c, n)
             \/ OpenStream(c, n) \/ ReceiveBatch(c, n) \/ ReceiveEnd(c, n)
      PROVE  UNCHANGED <<samples, aggregated>>
  BY <1>4 DEF StartReceiver, Shutdown, OpenStream, ReceiveBatch, ReceiveEnd
<1>5. ASSUME NEW c \in Clients, Alone(c)
      PROVE  UNCHANGED <<samples, aggregated>>
  BY <1>5 DEF Alone, Dial, AskStatus, AllExited, CloseAll, Fatal
<1> QED BY <1>2, <1>3, <1>4, <1>5, ClientSide
           DEF clientVars, ClientStep, WithNode

LEMMA InitAdded == Init => Separate /\ Complete
BY DEF Init, Separate, NodesOnce, Complete

AddedUp == ClusterTyped /\ Placed /\ Separate /\ Complete

LEMMA AddedUpKept == Spec => []AddedUp
<1>1. Init => AddedUp
  BY InitTyped, InitPlaced, InitAdded DEF AddedUp
<1>2. AddedUp /\ [Next]_vars => AddedUp'
  BY StepTyped, StepPlaced, StepAdded DEF AddedUp
<1> QED BY <1>1, <1>2, PTL DEF Spec

\* A node's batch of a tick is in one place from the run to the samples, so that as
\* many batches as nodes are one of each, and no tick is added up twice
\* (client.go:164-182).
THEOREM AllNodesAreAdded == Spec => []AggregatesAllNodes
<1>1. AddedUp => AggregatesAllNodes
  <2> SUFFICES ASSUME AddedUp, NEW c \in Clients, NEW a \in aggregated[c]
               PROVE  /\ {samples[c][a.tick][i].node : i \in DOMAIN samples[c][a.tick]} = Nodes
                      /\ Len(samples[c][a.tick]) = Cardinality(Nodes)
    BY DEF AddedUp, Complete, AggregatesAllNodes
  <2> DEFINE s == samples[c][a.tick]
  <2>1. a.tick \in Ticks
    BY DEF AddedUp, ClusterTyped, ClientShape, SamplesTyped, Batches
  <2>2. s \in SampleSeqs /\ NodesOnce(s) /\ Len(s) = Cardinality(Nodes)
    BY <2>1 DEF AddedUp, ClusterTyped, ClientShape, SamplesTyped, Separate, Complete
  <2> HIDE DEF s
  <2>3. DOMAIN s = 1 .. Len(s) /\ \A i \in 1 .. Len(s) : s[i].node \in Nodes
    <3>1. DOMAIN s = 1 .. Len(s) /\ \A i \in 1 .. Len(s) : s[i] \in [node : Nodes, bad : BOOLEAN]
      <4> DEFINE R == [node : Nodes, bad : BOOLEAN]
      <4>1. s \in Seq(R)
        BY <2>2 DEF SampleSeqs
      <4> HIDE DEF R
      <4>2. DOMAIN s = 1 .. Len(s) /\ \A i \in 1 .. Len(s) : s[i] \in R
        BY <4>1
      <4> QED BY <4>2 DEF R
    <3> QED BY <3>1
  <2>4. {s[i].node : i \in DOMAIN s} = Nodes
    BY <2>2, <2>3, OneOfEach
  <2> QED BY <2>2, <2>4 DEF s
<1> QED BY <1>1, AddedUpKept, PTL

-----------------------------------------------------------------------------
(* A bad tick ends the test *)

\* What is cancelled stays so.
LEMMA CancelledStays ==
  ASSUME NodeTypeOK, [NodeNext]_nodeVars, NEW n \in Nodes, NEW c \in Clients,
         cancelled[n][c]
  PROVE  cancelled'[n][c]
<1>1. /\ cancelled \in PerCallIn(BOOLEAN)
      /\ runnerCancelFunc \in [Nodes -> Callers \cup {None}]
  BY NodeTyped DEF FlagsTyped, ServerTyped
<1>2. UNCHANGED runVars => cancelled'[n][c]
  BY DEF runVars
<1>3. ASSUME NEW m \in Nodes, NEW d \in Callers, NodeStep(m, d) PROVE cancelled'[n][c]
  <2>1. CASE StreamChecksFailed(m, d)
    BY <1>1, <2>1 DEF StreamChecksFailed, PerCallIn, Clients
  <2>2. CASE RunFails(m, d) \/ RunTimesOut(m, d)
    BY <1>1, <2>2 DEF RunFails, RunTimesOut, PerCallIn, Clients
  <2>3. CASE ~StreamChecksFailed(m, d) /\ ~RunFails(m, d) /\ ~RunTimesOut(m, d)
    <3>1. UNCHANGED cancelled
      BY <1>3, <2>3 DEF NodeStep, Handler, StreamedRunStep, RunChecksBusy, RunSetsBusy,
                        RunStarts, StreamSends, StreamEnds, RunReturns, RunEmits, RunCloses,
                        runVars
    <3> QED BY <3>1
  <2> QED BY <2>1, <2>2, <2>3
<1>4. ASSUME NEW m \in Nodes, ShutdownNode(m) PROVE cancelled'[n][c]
  BY <1>1, <1>4 DEF ShutdownNode, PerCallIn, Clients
<1>5. \/ UNCHANGED runVars
      \/ \E m \in Nodes, d \in Callers : NodeStep(m, d)
      \/ \E m \in Nodes : ShutdownNode(m)
  BY DEF NodeNext, RunArrives, HangUp, Receive, Crash, nodeVars
<1> QED BY <1>2, <1>3, <1>4, <1>5

LEMMA StepRunsEnd == NodeTypeOK /\ RunsEnd /\ [NodeNext]_nodeVars => RunsEnd'
<1> SUFFICES ASSUME NodeTypeOK, RunsEnd, [NodeNext]_nodeVars,
                    NEW n \in Nodes, NEW c \in Callers
             PROVE  RunsEndOf(n, c)'
  BY DEF RunsEnd, Clients
<1>1. /\ RunsEndOf(n, c) /\ ServerTyped /\ FlagsTyped
      /\ cancelled[n][c] => cancelled'[n][c]
  BY NodeTyped, CancelledStays DEF RunsEnd, RunsEndOf, Clients
<1>2. CASE UNCHANGED <<handler[n][c], started[n][c], emitted[n][c], over[n][c]>>
  BY <1>1, <1>2 DEF RunsEndOf
<1>3. CASE RunArrives(n, c)
  <2>1. handler[n][c] = "idle" /\ UNCHANGED <<started, emitted, over>>
    BY <1>1, <1>3, HandlerGoes DEF RunArrives, runVars
  <2> QED BY <1>1, <2>1 DEF RunsEndOf
<1>4. CASE RunChecksBusy(n, c) \/ RunSetsBusy(n, c)
  <2>1. handler[n][c] \in {"check", "claim"} /\ UNCHANGED <<started, emitted, over>>
    BY <1>1, <1>4, HandlerGoes DEF RunChecksBusy, RunSetsBusy, runVars
  <2> QED BY <1>1, <2>1 DEF RunsEndOf
<1>5. CASE RunStarts(n, c)
  <2>1. handler[n][c] = "build" /\ handler'[n][c] = "stream"
    BY <1>1, <1>5, HandlerGoes DEF RunStarts
  <2>2. started'[n][c] /\ UNCHANGED <<emitted, over, cancelled>>
    BY <1>1, <1>5 DEF RunStarts, FlagsTyped, PerCallIn
  <2> QED BY <1>1, <2>1, <2>2 DEF RunsEndOf
<1>6. CASE StreamSends(n, c) \/ StreamChecksFailed(n, c)
  <2>1. handler'[n][c] \in {"stream", "failed?"} /\ UNCHANGED <<started, emitted, over>>
    BY <1>1, <1>6, HandlerGoes DEF StreamSends, StreamChecksFailed
  <2> QED BY <1>1, <2>1 DEF RunsEndOf
<1>7. CASE StreamEnds(n, c)
  <2>1. handler'[n][c] = "release" /\ over[n][c] /\ UNCHANGED <<started, emitted, over, cancelled>>
    BY <1>1, <1>7, HandlerGoes DEF StreamEnds, runVars
  <2> QED BY <1>1, <2>1 DEF RunsEndOf
<1>8. CASE RunReturns(n, c)
  <2>1. /\ handler[n][c] = "release" /\ handler'[n][c] = "returned"
        /\ UNCHANGED <<started, emitted, over, cancelled>>
    BY <1>1, <1>8, HandlerGoes DEF RunReturns, runVars
  <2> QED BY <1>1, <2>1 DEF RunsEndOf
<1>9. CASE RunEmits(n, c)
  <2>1. started[n][c] /\ UNCHANGED <<started, handler, over, cancelled>>
    BY <1>9 DEF RunEmits
  <2> QED BY <1>1, <2>1 DEF RunsEndOf
<1>10. CASE RunCloses(n, c)
  <2>1. cancelled[n][c] /\ UNCHANGED <<started, handler, emitted, cancelled>>
    BY <1>10 DEF RunCloses
  <2> QED BY <1>1, <2>1 DEF RunsEndOf
<1>11. ASSUME NEW m \in Nodes, NEW d \in Callers, RunArrives(m, d) \/ Handler(m, d),
              m # n \/ d # c
       PROVE  UNCHANGED <<handler[n][c], started[n][c], emitted[n][c], over[n][c]>>
  <2>1. UNCHANGED handler[n][c]
    <3>1. \E from, to : Goes(m, d, from, to)
      BY <1>11 DEF RunArrives, Handler, RunChecksBusy, RunSetsBusy, RunStarts, StreamSends,
                   StreamChecksFailed, StreamEnds, RunReturns
    <3> QED BY <1>1, <1>11, <3>1, HandlerGoes
  <2>2. UNCHANGED started[n][c]
    <3>1. CASE RunStarts(m, d)
      BY <1>1, <1>11, <3>1 DEF RunStarts, FlagsTyped, PerCallIn
    <3>2. CASE ~RunStarts(m, d)
      BY <1>11, <3>2 DEF RunArrives, Handler, RunChecksBusy, RunSetsBusy, StreamSends,
                         StreamChecksFailed, StreamEnds, RunReturns, runVars
    <3> QED BY <3>1, <3>2
  <2>3. UNCHANGED <<emitted, over>>
    BY <1>11 DEF RunArrives, Handler, RunChecksBusy, RunSetsBusy, RunStarts, StreamSends,
                 StreamChecksFailed, StreamEnds, RunReturns, runVars
  <2> QED BY <2>1, <2>2, <2>3
<1>12. ASSUME NEW m \in Nodes, NEW d \in Callers, StreamedRunStep(m, d), m # n \/ d # c
       PROVE  UNCHANGED <<handler[n][c], started[n][c], emitted[n][c], over[n][c]>>
  <2>1. UNCHANGED <<handler, started>>
    BY <1>12 DEF StreamedRunStep, RunEmits, RunFails, RunTimesOut, RunCloses
  <2>2. UNCHANGED emitted[n][c]
    <3>1. emitted \in PerCallIn(SUBSET Ticks)
      BY <1>1 DEF FlagsTyped
    <3>2. CASE RunEmits(m, d)
      <4>1. PICK t : emitted' = [emitted EXCEPT ![m][d] = @ \cup {t}]
        BY <3>2 DEF RunEmits
      <4>2. emitted' = [emitted EXCEPT ![m][d] = emitted[m][d] \cup {t}]
        BY <4>1
      <4>3. emitted'[n][c] = emitted[n][c]
        BY <1>12, <3>1, <4>2, PerCallOthers
      <4> QED BY <4>3
    <3>3. CASE ~RunEmits(m, d)
      BY <1>12, <3>3 DEF StreamedRunStep, RunFails, RunTimesOut, RunCloses
    <3> QED BY <3>2, <3>3
  <2>3. UNCHANGED over[n][c]
    <3>1. over \in PerCallIn(BOOLEAN)
      BY <1>1 DEF FlagsTyped
    <3>2. CASE RunCloses(m, d)
      <4>1. over' = [over EXCEPT ![m][d] = TRUE]
        BY <3>2 DEF RunCloses
      <4> QED BY <1>12, <3>1, <4>1 DEF PerCallIn
    <3>3. CASE ~RunCloses(m, d)
      BY <1>12, <3>3 DEF StreamedRunStep, RunEmits, RunFails, RunTimesOut
    <3> QED BY <3>2, <3>3
  <2> QED BY <2>1, <2>2, <2>3
<1>13. CASE RunFails(n, c) \/ RunTimesOut(n, c)
  BY <1>2, <1>13 DEF RunFails, RunTimesOut
<1>14. CASE \E m \in Nodes : \/ ShutdownNode(m) \/ Crash(m)
                            \/ \E d \in Callers : HangUp(m, d) \/ Receive(m, d)
  BY <1>2, <1>14 DEF ShutdownNode, Crash, HangUp, Receive, runVars
<1>15. CASE UNCHANGED nodeVars
  BY <1>2, <1>15 DEF nodeVars, runVars
<1> QED BY <1>2, <1>3, <1>4, <1>5, <1>6, <1>7, <1>8, <1>9, <1>10, <1>11, <1>12, <1>13,
           <1>14, <1>15 DEF NodeNext, NodeStep, Handler, StreamedRunStep

\* A bad tick has a batch of every node, so that every node has started its run.
LEMMA BadTickStarted ==
  ASSUME AddedUp, RunsEnd, NEW c \in Clients, BadTick(c), NEW n \in Nodes
  PROVE  started[n][c]
<1>1. PICK a \in aggregated[c] : a.bad
  BY DEF BadTick
<1> DEFINE t == a.tick
<1>2. t \in Ticks
  BY DEF AddedUp, ClusterTyped, ClientShape, SamplesTyped, Batches
<1>3. /\ samples[c][t] \in SampleSeqs /\ NodesOnce(samples[c][t])
      /\ Len(samples[c][t]) = Cardinality(Nodes)
  BY <1>2 DEF AddedUp, ClusterTyped, ClientShape, SamplesTyped, Separate, Complete
<1>4. \E i \in 1 .. Len(samples[c][t]) : samples[c][t][i].node = n
  BY <1>3, OneOfEach
<1>5. t \in Sampled(c, n)
  BY <1>2, <1>4 DEF Sampled
<1>6. Sampled(c, n) \subseteq emitted[n][c]
  BY DEF AddedUp, Placed, OnePlace, Apart
<1> QED BY <1>5, <1>6 DEF RunsEnd, RunsEndOf, Clients

\* A node that is shut down has no run of this client left that is not cancelled.
LEMMA ShutdownCancels ==
  ASSUME NodeTypeOK, RunsEnd, OneHolder, NEW c \in Clients, NEW n \in Nodes,
         ShutdownNode(n), started[n][c]
  PROVE  cancelled'[n][c]
<1>1. /\ cancelled \in PerCallIn(BOOLEAN)
      /\ handler[n][c] \in {"stream", "failed?", "release", "returned"}
      /\ None \notin Callers
  BY NodeTyped, NodeAssumption DEF FlagsTyped, RunsEnd, RunsEndOf, Clients
<1>2. CASE handler[n][c] = "returned"
  <2>1. cancelled[n][c]
    BY <1>2 DEF RunsEnd, RunsEndOf, Clients
  <2>2. NodeNext
    BY DEF NodeNext
  <2> QED BY <2>1, <2>2, CancelledStays
<1>3. CASE handler[n][c] # "returned"
  <2>1. runnerCancelFunc[n] = c
    BY <1>1, <1>3 DEF OneHolder, Occupies, Clients
  <2> QED BY <1>1, <2>1 DEF ShutdownNode, PerCallIn, Clients
<1> QED BY <1>2, <1>3

EndingOf(c) ==
  /\ client[c] = "shutdown" => \A n \in Nodes \ toShutdown[c] : cancelled[n][c]
  /\ client[c] \in {"close", "returned"} /\ BadTick(c) =>
       failed[c] /\ \A n \in Nodes : cancelled[n][c]

LEMMA StepEndingOf ==
  ASSUME AddedUp, LeavesLoop, RunsEnd, OneHolder, Ending, NEW c \in Clients,
         \A n \in Nodes : cancelled[n][c] => cancelled'[n][c],
         ClientStep(c)
  PROVE  EndingOf(c)'
<1>1. EndingOf(c) /\ ControlTyped /\ Counted /\ NodeTypeOK
  BY DEF Ending, EndingOf, AddedUp, ClusterTyped, ClientShape
<1>2. ASSUME UNCHANGED <<aggregated[c], failed[c], toShutdown[c]>>,
             client'[c] \in {client[c], "died"}
      PROVE  EndingOf(c)'
  BY <1>1, <1>2 DEF EndingOf, BadTick
<1>3. CASE AllExited(c)
  <2>1. client[c] = "collect" /\ client'[c] = "close" /\ UNCHANGED aggregated
    BY <1>1, <1>3 DEF AllExited, ControlTyped
  <2>2. ~BadTick(c)
    BY <2>1 DEF LeavesLoop
  <2> QED BY <2>1, <2>2 DEF EndingOf, BadTick
<1>4. CASE CloseAll(c)
  <2>1. /\ client[c] = "close" /\ client'[c] = "returned"
        /\ UNCHANGED <<aggregated, failed, cancelled>>
    BY <1>1, <1>4 DEF CloseAll, BreakStreams, ControlTyped, runVars
  <2> QED BY <1>1, <2>1 DEF EndingOf, BadTick
<1>5. ASSUME NEW n \in Nodes, Dial(c) \/ AskStatus(c) \/ Fatal(c) \/ StartReceiver(c, n)
      PROVE  EndingOf(c)'
  <2>1. client'[c] \in {"dial", "status", "start", "collect", "died"}
    BY <1>1, <1>5 DEF Dial, AskStatus, Fatal, StartReceiver, ControlTyped
  <2> QED BY <2>1 DEF EndingOf
<1>6. ASSUME NEW n \in Nodes, Collect(c, n) PROVE EndingOf(c)'
  <2>1. PICK t \in Ticks, bad \in BOOLEAN : Collects(c, n, t, bad)
    BY <1>1, <1>6, CollectSamples
  <2>2. client[c] = "collect"
    BY <1>6 DEF Collect
  <2>3. \/ client'[c] = "collect"
        \/ client'[c] = "shutdown" /\ toShutdown'[c] = Nodes
    BY <1>1, <2>1, <2>2 DEF Collects, ControlTyped
  <2> QED BY <2>3 DEF EndingOf
<1>7. ASSUME NEW n \in Nodes, Shutdown(c, n) PROVE EndingOf(c)'
  <2>1. /\ client[c] = "shutdown" /\ n \in toShutdown[c]
        /\ toShutdown'[c] = toShutdown[c] \ {n}
        /\ UNCHANGED aggregated
    BY <1>1, <1>7 DEF Shutdown, ControlTyped
  <2>2. BadTick(c)
    BY <2>1 DEF LeavesLoop
  <2>3. started[n][c] /\ ShutdownNode(n)
    BY <1>7, <2>2, BadTickStarted DEF Shutdown
  <2>4. cancelled'[n][c]
    BY <1>1, <2>3, ShutdownCancels
  <2>5. \A m \in Nodes \ toShutdown'[c] : cancelled'[m][c]
    BY <1>1, <2>1, <2>4 DEF EndingOf
  <2>6. \/ client'[c] = "shutdown"
        \/ toShutdown'[c] = {} /\ failed'[c] /\ client'[c] = "close"
    BY <1>1, <1>7, <2>1 DEF Shutdown, ControlTyped
  <2> QED BY <2>5, <2>6 DEF EndingOf
<1>8. ASSUME NEW n \in Nodes, OpenStream(c, n) \/ ReceiveBatch(c, n) \/ ReceiveEnd(c, n)
      PROVE  EndingOf(c)'
  <2>1. UNCHANGED <<aggregated, failed, toShutdown, client>>
    BY <1>8 DEF OpenStream, ReceiveBatch, ReceiveEnd
  <2> QED BY <1>2, <2>1
<1> QED BY <1>3, <1>4, <1>5, <1>6, <1>7, <1>8, NodeAssumption DEF ClientStep, Alone, WithNode

EndInv == AddedUp /\ LeavesLoop /\ RunsEnd /\ OneHolder /\ Ending

LEMMA StepEnd == EndInv /\ [Next]_vars /\ [NoOverlap]_vars => EndInv'
<1> SUFFICES ASSUME EndInv, [Next]_vars, [NoOverlap]_vars PROVE EndInv'
  OBVIOUS
<1>1. AddedUp /\ LeavesLoop /\ RunsEnd /\ OneHolder /\ Ending /\ ClusterTyped /\ NodeTypeOK
  BY DEF EndInv, AddedUp, ClusterTyped
<1>2. AddedUp' /\ LeavesLoop'
  BY <1>1, StepTyped, StepPlaced, StepAdded, StepLeavesLoop DEF AddedUp
<1>3. ASSUME NEW c \in Clients, BreakStreams(c)
      PROVE  RunsEnd' /\ OneHolder' /\ UNCHANGED cancelled
  BY <1>1, <1>3 DEF BreakStreams, serverVars, runVars, RunsEnd, RunsEndOf, OneHolder, Holds, Claiming, Occupies
<1>4. [NodeNext]_nodeVars => [NodeNext /\ NoOverlap]_nodeVars
  BY DEF vars
<1>5. RunsEnd' /\ OneHolder'
  BY <1>1, <1>3, <1>4, NodeSide, StepRunsEnd, StepHolder
<1>6. \A n \in Nodes, d \in Clients : cancelled[n][d] => cancelled'[n][d]
  BY <1>1, <1>3, NodeSide, CancelledStays
<1>7. ASSUME NEW d \in Clients PROVE EndingOf(d)'
  <2>1. ASSUME UNCHANGED Own(d) PROVE EndingOf(d)'
    BY <1>1, <1>6, <2>1 DEF Ending, EndingOf, Own, BadTick
  <2>2. UNCHANGED clientVars => UNCHANGED Own(d)
    BY DEF clientVars, Own
  <2> QED BY <1>1, <1>6, <2>1, <2>2, StepEndingOf, OtherClients, ClientSide DEF ClusterTyped
<1>8. Ending'
  BY <1>7 DEF Ending, EndingOf
<1> QED BY <1>2, <1>5, <1>8 DEF EndInv

LEMMA InitEnd == Init => EndInv
<1> SUFFICES ASSUME Init PROVE EndInv
  OBVIOUS
<1>1. AddedUp /\ LeavesLoop
  BY InitTyped, InitPlaced, InitAdded, InitLeavesLoop DEF AddedUp
<1>2. RunsEnd
  <2> SUFFICES ASSUME NEW n \in Nodes, NEW c \in Callers PROVE RunsEndOf(n, c)
    BY DEF RunsEnd, Clients
  <2>1. ~started[n][c] /\ emitted[n][c] = {} /\ ~over[n][c]
    BY DEF Init, NodeInit, PerCall
  <2> QED BY <2>1 DEF RunsEndOf
<1>3. OneHolder /\ Ending
  BY InitHolder DEF Init, Ending
<1> QED BY <1>1, <1>2, <1>3 DEF EndInv

LEMMA EndInvEnds == EndInv => BadTickEndsTest
BY DEF EndInv, Ending, BadTick, BadTickEndsTest

\* If the calls of Run do not overlap in the busy check of a node, a bad tick ends the
\* test of its client: it fails, and on every node its run was cancelled, by
\* ShutdownNode if it was the node's current one and by its own end otherwise
\* (client.go:199-201, client.go:212-222, service.go:86-91).
THEOREM BadTicksEndTests == Spec /\ [][NoOverlap]_vars => []BadTickEndsTest
BY InitEnd, StepEnd, EndInvEnds, PTL DEF Spec

\* The calls of a single client never overlap, so that its test ends without that
\* condition.
THEOREM BadTickEndsOnlyTest ==
  ASSUME \A c, d \in Clients : c = d
  PROVE  Spec => []BadTickEndsTest
<1>1. [Next]_vars => [NoOverlap]_vars
  BY DEF NoOverlap, Claiming, Clients
<1> QED BY <1>1, InitEnd, StepEnd, EndInvEnds, PTL DEF Spec
=============================================================================
