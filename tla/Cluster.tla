------------------------------- MODULE Cluster -------------------------------
(***************************************************************************)
(* A test on several nodes: the cluster clients of client.go and the nodes *)
(* they use, which are those of Node.                                      *)
(*                                                                         *)
(* A client has a goroutine per node, which starts a run there and hands   *)
(* the batches of its stream over an unbuffered channel to the client,     *)
(* which adds up the batches of a tick when it has as many as nodes.       *)
(***************************************************************************)
EXTENDS Node

CONSTANT CutChunks   \* Encode of a node may fail half-way, which leaves a part of a chunk

ASSUME ClientAssumption == CutChunks \in BOOLEAN

Clients == Callers

VARIABLES
  client,         \* control state of each client
  contact,        \* the node NewClusterClient is dialling or asking
  asked,          \* nodes whose Status NewClusterClient has looked at
  spawned,        \* nodes whose goroutine Run has started
  failed,         \* ClusterClient.failed
  activeClients,
  receiver,       \* control state of the goroutine of each client and node
  held,           \* the batch it received last
  samples,        \* clusterTickMetrics: the batches of each tick, with their nodes
  aggregated,     \* history: the ticks added up, and whether they were bad
  toShutdown      \* nodes a failing client has still to shut down

clientVars == <<client, contact, asked, spawned, failed, activeClients, receiver, held,
                samples, aggregated, toShutdown>>
vars == <<nodeVars, clientVars>>

NoBatch == [tick |-> 0, bad |-> FALSE]

Init ==
  /\ NodeInit
  /\ client = [c \in Clients |-> "dial"]
  /\ contact \in [Clients -> Nodes]
  /\ asked = [c \in Clients |-> {}]
  /\ spawned = [c \in Clients |-> {}]
  /\ failed = [c \in Clients |-> FALSE]
  /\ activeClients = [c \in Clients |-> 0]
  /\ receiver = [c \in Clients |-> [n \in Nodes |-> "none"]]
  /\ held = [c \in Clients |-> [n \in Nodes |-> NoBatch]]
  /\ samples = [c \in Clients |-> [t \in Ticks |-> <<>>]]
  /\ aggregated = [c \in Clients |-> {}]
  /\ toShutdown = [c \in Clients |-> {}]

-----------------------------------------------------------------------------
(* The end of a client *)

\* The client process is there.
Lives(c) == client[c] # "died"

\* The connections of the client go, and with them its streams and what is in transit.
BreakStreams(c) ==
  /\ linked' = [n \in Nodes |-> [linked[n] EXCEPT ![c] = FALSE]]
  /\ wire' = [n \in Nodes |-> [wire[n] EXCEPT ![c] = <<>>]]
  /\ UNCHANGED <<up, serverVars, handler, runVars>>

\* log.Fatal ends the process of the client, in whatever it is doing.
Fatal(c) ==
  /\ client' = [client EXCEPT ![c] = "died"]
  /\ BreakStreams(c)
  /\ UNCHANGED <<contact, asked, spawned, failed, activeClients, receiver, held, samples,
                 aggregated, toShutdown>>

-----------------------------------------------------------------------------
(* NewClusterClient and the start of Run *)

\* Dial waits for the node, without a deadline: for a node that is down, for ever.
Dial(c) ==
  /\ client[c] = "dial"
  /\ up[contact[c]]
  /\ client' = [client EXCEPT ![c] = "status"]
  /\ UNCHANGED <<nodeVars, contact, asked, spawned, failed, activeClients, receiver, held,
                 samples, aggregated, toShutdown>>

\* The client looks at the status of the node it has dialled and takes the next one;
\* a client that finds a node busy has failed before it starts.
AskStatus(c) ==
  /\ client[c] = "status"
  /\ up[contact[c]]
  /\ asked' = [asked EXCEPT ![c] = @ \cup {contact[c]}]
  /\ failed' = [failed EXCEPT ![c] = @ \/ busy[contact[c]]]
  /\ \/ /\ asked'[c] = Nodes
        /\ client' = [client EXCEPT ![c] = "start"]
        /\ contact' = [contact EXCEPT ![c] = None]
     \/ /\ client' = [client EXCEPT ![c] = "dial"]
        /\ \E n \in Nodes \ asked'[c] : contact' = [contact EXCEPT ![c] = n]
  /\ UNCHANGED <<nodeVars, spawned, activeClients, receiver, held, samples, aggregated,
                 toShutdown>>

\* Mutant of StartReceiver: the goroutine itself counts, once it runs.
StartReceiverUncounted(c, n) ==
  /\ client[c] = "start"
  /\ n \notin spawned[c]
  /\ spawned' = [spawned EXCEPT ![c] = @ \cup {n}]
  /\ receiver' = [receiver EXCEPT ![c][n] = "open"]
  /\ client' = [client EXCEPT ![c] = IF spawned'[c] = Nodes THEN "collect" ELSE @]
  /\ UNCHANGED <<nodeVars, contact, asked, failed, activeClients, held, samples, aggregated,
                 toShutdown>>

\* The client counts the goroutine before it starts it, and collects once all of
\* them are started.
StartReceiver(c, n) ==
  /\ client[c] = "start"
  /\ n \notin spawned[c]
  /\ spawned' = [spawned EXCEPT ![c] = @ \cup {n}]
  /\ activeClients' = [activeClients EXCEPT ![c] = @ + 1]
  /\ receiver' = [receiver EXCEPT ![c][n] = "open"]
  /\ client' = [client EXCEPT ![c] = IF spawned'[c] = Nodes THEN "collect" ELSE @]
  /\ UNCHANGED <<nodeVars, contact, asked, failed, held, samples, aggregated, toShutdown>>

-----------------------------------------------------------------------------
(* The goroutine of a node *)

\* StartRunner calls Run of the node.
OpenStream(c, n) ==
  /\ Lives(c)
  /\ receiver[c][n] = "open"
  /\ RunArrives(n, c)
  /\ receiver' = [receiver EXCEPT ![c][n] = "recv"]
  /\ UNCHANGED <<client, contact, asked, spawned, failed, activeClients, held, samples,
                 aggregated, toShutdown>>

\* Recv returns a batch, which the goroutine offers on Results.
ReceiveBatch(c, n) ==
  /\ Lives(c)
  /\ receiver[c][n] = "recv"
  /\ Receive(n, c)
  /\ held' = [held EXCEPT ![c][n] = Head(wire[n][c])]
  /\ receiver' = [receiver EXCEPT ![c][n] = "offer"]
  /\ UNCHANGED <<client, contact, asked, spawned, failed, activeClients, samples,
                 aggregated, toShutdown>>

\* Recv returns a part of a chunk, which cannot be decoded.
ReceiveCut(c, n) ==
  /\ CutChunks
  /\ Lives(c)
  /\ receiver[c][n] = "recv"
  /\ wire[n][c] # <<>>
  /\ Fatal(c)

\* Mutant of ReceiveEnd: an error is counted twice.
ReceiveEndTwice(c, n) ==
  /\ Lives(c)
  /\ receiver[c][n] = "recv"
  /\ wire[n][c] = <<>>
  /\ handler[n][c] = "returned" \/ ~linked[n][c]
  /\ activeClients' = [activeClients EXCEPT ![c] = @ - IF linked[n][c] THEN 1 ELSE 2]
  /\ receiver' = [receiver EXCEPT ![c][n] = "exited"]
  /\ UNCHANGED <<nodeVars, client, contact, asked, spawned, failed, held, samples,
                 aggregated, toShutdown>>

\* Recv returns no batch, at the end of the stream or with an error, and the
\* goroutine ends.
ReceiveEnd(c, n) ==
  /\ Lives(c)
  /\ receiver[c][n] = "recv"
  /\ wire[n][c] = <<>>
  /\ handler[n][c] = "returned" \/ ~linked[n][c]
  /\ activeClients' = [activeClients EXCEPT ![c] = @ - 1]
  /\ receiver' = [receiver EXCEPT ![c][n] = "exited"]
  /\ UNCHANGED <<nodeVars, client, contact, asked, spawned, failed, held, samples,
                 aggregated, toShutdown>>

\* TestTimeSec of the client passes: its context ends, and with it the stream.
StreamTimesOut(c, n) ==
  /\ Lives(c)
  /\ receiver[c][n] \in {"recv", "offer"}
  /\ HangUp(n, c)
  /\ UNCHANGED clientVars

-----------------------------------------------------------------------------
(* collectResults *)

\* Mutant of TickComplete: one batch is as good as all.
TickCompleteEarly(batches) == Len(batches) > 0

TickComplete(batches) == Len(batches) = Cardinality(Nodes)

\* Whether the requests of all batches together are below SuccessRatio: they are if
\* all batches are, they are not if none is, and otherwise it depends on how many
\* requests failed.
BelowTogether(batches) ==
  {b \in BOOLEAN :
     /\ (\A i \in DOMAIN batches : batches[i].bad) => b
     /\ (\A i \in DOMAIN batches : ~batches[i].bad) => ~b}

\* The client takes the batch a goroutine offers; the last batch of a tick adds the
\* tick up, and a bad tick makes the client shut all nodes down.
Collect(c, n) ==
  /\ client[c] = "collect"
  /\ receiver[c][n] = "offer"
  /\ receiver' = [receiver EXCEPT ![c][n] = "recv"]
  /\ held' = [held EXCEPT ![c][n] = NoBatch]
  /\ LET t == held[c][n].tick
         batches == Append(samples[c][t], [node |-> n, bad |-> held[c][n].bad])
     IN /\ samples' = [samples EXCEPT ![c][t] = batches]
        /\ IF TickComplete(batches)
           THEN \E bad \in BelowTogether(batches) :
                  /\ aggregated' = [aggregated EXCEPT ![c] = @ \cup {[tick |-> t, bad |-> bad]}]
                  /\ client' = [client EXCEPT ![c] = IF bad THEN "shutdown" ELSE @]
                  /\ toShutdown' = [toShutdown EXCEPT ![c] = IF bad THEN Nodes ELSE @]
           ELSE UNCHANGED <<aggregated, client, toShutdown>>
  /\ UNCHANGED <<nodeVars, contact, asked, spawned, failed, activeClients>>

\* The default case: no goroutine offers a batch, and none is active any more.
AllExited(c) ==
  /\ client[c] = "collect"
  /\ activeClients[c] = 0
  /\ client' = [client EXCEPT ![c] = "close"]
  /\ UNCHANGED <<nodeVars, contact, asked, spawned, failed, activeClients, receiver, held,
                 samples, aggregated, toShutdown>>

\* Mutant of Shutdown: a node whose stream has ended is left alone.
ShutdownLinked(c, n) ==
  /\ client[c] = "shutdown"
  /\ n \in toShutdown[c]
  /\ up[n]
  /\ IF linked[n][c] THEN ShutdownNode(n) ELSE UNCHANGED nodeVars
  /\ toShutdown' = [toShutdown EXCEPT ![c] = @ \ {n}]
  /\ IF toShutdown'[c] = {}
     THEN /\ failed' = [failed EXCEPT ![c] = TRUE]
          /\ client' = [client EXCEPT ![c] = "close"]
     ELSE UNCHANGED <<failed, client>>
  /\ UNCHANGED <<contact, asked, spawned, activeClients, receiver, held, samples,
                 aggregated>>

\* One node after the other is shut down.
Shutdown(c, n) ==
  /\ client[c] = "shutdown"
  /\ n \in toShutdown[c]
  /\ ShutdownNode(n)
  /\ toShutdown' = [toShutdown EXCEPT ![c] = @ \ {n}]
  /\ IF toShutdown'[c] = {}
     THEN /\ failed' = [failed EXCEPT ![c] = TRUE]
          /\ client' = [client EXCEPT ![c] = "close"]
     ELSE UNCHANGED <<failed, client>>
  /\ UNCHANGED <<contact, asked, spawned, activeClients, receiver, held, samples,
                 aggregated>>

\* Run closes the connections and returns.
CloseAll(c) ==
  /\ client[c] = "close"
  /\ client' = [client EXCEPT ![c] = "returned"]
  /\ BreakStreams(c)
  /\ UNCHANGED <<contact, asked, spawned, failed, activeClients, receiver, held, samples,
                 aggregated, toShutdown>>

\* The client calls Status, Run or ShutdownNode of the node.
Calls(c, n) ==
  \/ client[c] = "status" /\ n = contact[c]
  \/ Lives(c) /\ receiver[c][n] = "open"
  \/ client[c] = "shutdown" /\ n \in toShutdown[c]

\* That a node it calls cannot be reached is fatal to the client.
CallFails(c, n) ==
  /\ Calls(c, n)
  /\ ~up[n]
  /\ Fatal(c)

-----------------------------------------------------------------------------
NodeMoves(n) ==
  /\ Crash(n) \/ \E c \in Clients : NodeStep(n, c)
  /\ UNCHANGED clientVars

Client(c) ==
  \/ Dial(c) \/ AskStatus(c) \/ AllExited(c) \/ CloseAll(c)
  \/ \E n \in Nodes : StartReceiver(c, n) \/ Collect(c, n) \/ Shutdown(c, n)
                      \/ CallFails(c, n)

Receiver(c, n) == OpenStream(c, n) \/ ReceiveBatch(c, n) \/ ReceiveEnd(c, n)

\* The client waits for a node that is down.
DialBlocked(c) == client[c] = "dial" /\ ~up[contact[c]]

\* The clients are done or blocked, and the calls they made are over.
Quiet ==
  /\ \A c \in Clients : client[c] \in {"returned", "died"} \/ DialBlocked(c)
  /\ \A n \in Nodes, c \in Clients :
       ~up[n] \/ ~started[n][c] \/ handler[n][c] = "returned"
  /\ UNCHANGED vars

Next ==
  \/ \E n \in Nodes : NodeMoves(n)
  \/ \E c \in Clients :
       \/ Client(c)
       \/ \E n \in Nodes : Receiver(c, n) \/ ReceiveCut(c, n) \/ StreamTimesOut(c, n)
  \/ Quiet

Spec == Init /\ [][Next]_vars

\* Goroutines that can run do run.
ClientFairness ==
  \A c \in Clients :
    WF_vars(Client(c)) /\ \A n \in Nodes : WF_vars(Receiver(c, n))

\* The time of the test passes for the client; nothing is asked of the nodes, whose
\* runs may hang and which may die.
FairSpec ==
  /\ Spec
  /\ ClientFairness
  /\ \A n \in Nodes, c \in Clients : WF_vars(StreamTimesOut(c, n))

-----------------------------------------------------------------------------
(* Properties *)

ClientTypeOK ==
  /\ client \in [Clients -> {"dial", "status", "start", "collect", "shutdown", "close",
                             "returned", "died"}]
  /\ contact \in [Clients -> Nodes \cup {None}]
  /\ \A c \in Clients : client[c] \in {"dial", "status"} => contact[c] \in Nodes
  /\ asked \in [Clients -> SUBSET Nodes]
  /\ spawned \in [Clients -> SUBSET Nodes]
  /\ failed \in [Clients -> BOOLEAN]
  /\ activeClients \in [Clients -> 0 .. Cardinality(Nodes)]
  /\ receiver \in [Clients -> [Nodes -> {"none", "open", "recv", "offer", "exited"}]]
  /\ held \in [Clients -> [Nodes -> Batches \cup {NoBatch}]]
  /\ samples \in [Clients -> [Ticks -> Seq([node : Nodes, bad : BOOLEAN])]]
  /\ aggregated \in [Clients -> SUBSET Batches]
  /\ toShutdown \in [Clients -> SUBSET Nodes]

\* The shape of the state, of the nodes and of the clients; the goroutines a client
\* counts are at most those of its nodes, and no fewer than none.
TypeOK == NodeTypeOK /\ ClientTypeOK

\* A tick that is added up has one batch of each node, not two of one, and is added
\* up once (client.go:164-182).
AggregatesAllNodes ==
  \A c \in Clients :
    /\ \A a, b \in aggregated[c] : a.tick = b.tick => a = b
    /\ \A a \in aggregated[c] :
         LET batches == samples[c][a.tick] IN
           /\ {batches[i].node : i \in DOMAIN batches} = Nodes
           /\ Len(batches) = Cardinality(Nodes)

\* activeClients counts the goroutines that have not ended, so that a client that
\* stops because none is active has received whatever a stream delivered
\* (client.go:63-67, client.go:148, client.go:204).
NothingLeftBehind ==
  \A c \in Clients :
    client[c] \in {"close", "returned"} /\ (\A a \in aggregated[c] : ~a.bad) =>
      \A n \in Nodes : receiver[c][n] = "exited" /\ held[c][n] = NoBatch

\* A test with a bad tick fails, and its nodes do not go on with it: every run the
\* client started, on a node that is up, was cancelled by the time Run returns
\* (client.go:199-201, client.go:212-222, service.go:86-91).
BadTickEndsTest ==
  \A c \in Clients :
    client[c] = "returned" /\ (\E a \in aggregated[c] : a.bad) =>
      /\ failed[c]
      /\ \A n \in Nodes : up[n] /\ started[n][c] => cancelled[n][c]

\* The client comes to an end, also when nodes hang, die or never send a batch
\* (client.go:37, client.go:58-77, client.go:188-209), unless it dials a node that is
\* down: then it waits for ever (client.go:23).
ClientEnds ==
  \A c \in Clients : <>(client[c] \in {"returned", "died"} \/ DialBlocked(c))

-----------------------------------------------------------------------------
(* What a comment says of a cluster, and the code does not do *)

\* Nothing times out: runs end because they fail or are shut down.
UntimedNext ==
  /\ Next
  /\ \A n \in Nodes, c \in Clients :
       ~ (RunTimesOut(n, c) /\ UNCHANGED clientVars) /\ ~ StreamTimesOut(c, n)
UntimedSpec ==
  /\ Init
  /\ [][UntimedNext]_vars
  /\ ClientFairness
  /\ \A n \in Nodes, c \in Clients :
       WF_vars(Handler(n, c) /\ UNCHANGED clientVars)
       /\ WF_vars((RunEmits(n, c) \/ RunFails(n, c) \/ RunCloses(n, c))
                  /\ UNCHANGED clientVars)

\* service.go:51, "other nodes will be cancelled by client": when the run of one
\* node fails, those of the others are cancelled.
OthersCancelled ==
  \A c \in Clients, n, m \in Nodes :
    failures[n][c] > 0 /\ started[m][c] ~> cancelled[m][c]

==============================================================================
