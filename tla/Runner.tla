------------------------------- MODULE Runner -------------------------------
(***************************************************************************)
(* One load-test run: the goroutines of runner.go, attack.go and the       *)
(* signal handler of utils.go.                                             *)
(*                                                                         *)
(*   scheduler  --next-->  attackers  --results-->  collector              *)
(*                                        collector --OutResults--> stream *)
(*                                                                         *)
(* All of them watch TimeoutCtx, whose expiry or cancellation ends the     *)
(* run.  Each action is what a goroutine does between two channel          *)
(* operations.  Time is left out: a select with several ready cases takes  *)
(* any of them, and a deadline may expire at any moment.                   *)
(*                                                                         *)
(* A token is identified by its position in fired, so that a request can   *)
(* be followed from the scheduler to the report of its tick.               *)
(***************************************************************************)
EXTENDS Naturals, FiniteSets, Sequences

CONSTANTS
  Attackers,            \* all attackers that may ever exist (bounds autoscaling)
  InitialAttackers,     \* those NewRunner clones, Cfg.Attackers of them
  SystemMode,           \* "BoundRPS", "BoundRPSAutoscale" or "UnboundRPS"
  StartRPS,             \* requests of the first tick
  StepRPS,              \* requests added to a tick by each step
  StepDurationSec,      \* ticks in a step
  SamplesPerAttacker,   \* 100 in the code: tick size per attacker, UnboundRPS
  AttackersScaleAmount, \* attackers added to a slow tick, BoundRPSAutoscale
  SuccessRatio,         \* required share of successful requests, in percent
  Stream,               \* batches are streamed to a cluster client
  SendOutcomes,         \* what may become of a batch that is sent
  CSV,                  \* rows are written to report files
  DoOutcomes,           \* what the user's Do may answer
  ResultsCapacity,      \* capacity of results
  OutResultsCapacity,   \* capacity of OutResults
  MaxRequests           \* bound of the model: requests a run may fire

Modes == {"BoundRPS", "BoundRPSAutoscale", "UnboundRPS"}

\* "badStatus" is an answer with no error text and an unexpected status code:
\* it is no success, and it is not counted among the errors either.
Answers == {"ok", "error", "badStatus"}

\* A batch arrives whole, or as much of it as gob could encode; or Send fails.
Fates == {"whole", "cut", "lost"}

ASSUME PoolAssumption ==
  /\ IsFiniteSet(Attackers)
  /\ InitialAttackers \subseteq Attackers
  /\ InitialAttackers # {}

ASSUME ScheduleAssumption ==
  /\ SystemMode \in Modes
  /\ StartRPS \in Nat \ {0}
  /\ StepRPS \in Nat
  /\ StepDurationSec \in Nat \ {0}
  /\ SamplesPerAttacker \in Nat \ {0}
  /\ AttackersScaleAmount \in Nat
  /\ MaxRequests \in Nat

ASSUME ReportAssumption ==
  /\ SuccessRatio \in Nat
  /\ Stream \in BOOLEAN
  /\ CSV \in BOOLEAN
  /\ DoOutcomes \subseteq Answers
  /\ SendOutcomes \subseteq Fates
  /\ SendOutcomes # {}
  /\ ResultsCapacity \in Nat \ {0}
  /\ OutResultsCapacity \in Nat \ {0}

VARIABLES
  cancelled,    \* TimeoutCtx is done
  sched,        \* control state of the scheduler
  step, tick, firedInTick, targetRPS,   \* its counters
  fired,        \* history: the tokens it sent on next
  atk,          \* control state of each attacker
  holds,        \* the request each attacker works on, 0 for none
  outcome,      \* what it will put in results
  call,         \* per request: Do is running, or its answer waits in done
  reqCtx,       \* the context given to Do, per request
  results,      \* channel from attackers to collector
  col, cur,     \* control state of the collector, the tick it completed
  samples,      \* receivedTickMetrics
  uniqErrors,
  reports,      \* history: the ticks reported, in order
  flushed,      \* report rows flushed to disk when Run returned
  OutResults,   \* channel from collector to streamResults
  str, taken,   \* control state of streamResults, history: the batches it took
  sent, broken, \* history: what Send passed on; the stream has failed
  Failed,
  sig,          \* control state of the signal handler
  main,         \* control state of Run
  alive         \* the process has not called os.Exit

ctxVars    == <<cancelled, alive>>
schedVars  == <<sched, step, tick, firedInTick, targetRPS, fired>>
atkVars    == <<atk, holds, outcome>>
callVars   == <<call, reqCtx>>
colVars    == <<col, cur, samples, uniqErrors, reports, Failed>>
strVars    == <<str, taken, sent, broken>>
mainVars   == <<main, flushed>>
vars == <<ctxVars, schedVars, atkVars, callVars, results, colVars, OutResults,
          strVars, sig, mainVars>>

Ids   == 1 .. MaxRequests
Ticks == 1 .. MaxRequests     \* a tick with a fired request, at least one each

\* A tick nobody has sent a result for: no entry in receivedTickMetrics.
NoSamples == [n |-> 0, good |-> 0, ids |-> {}]

\* A rate limiter exists, and so do steps, in these modes only.
Limited == SystemMode \in {"BoundRPS", "BoundRPSAutoscale"}

\* Metrics.Success of n samples falls below Cfg.SuccessRatio.
BelowRatio(s) == s.good * 100 < SuccessRatio * s.n

Init ==
  /\ cancelled = FALSE
  /\ alive = TRUE
  /\ sched = "check"
  /\ step = 1
  /\ tick = 1
  /\ firedInTick = 0
  /\ targetRPS = IF Limited THEN StartRPS
                 ELSE Cardinality(InitialAttackers) * SamplesPerAttacker
  /\ fired = <<>>
  /\ atk = [a \in Attackers |-> IF a \in InitialAttackers THEN "recv" ELSE "absent"]
  /\ holds = [a \in Attackers |-> 0]
  /\ outcome = [a \in Attackers |-> "none"]
  /\ call = [id \in Ids |-> "none"]
  /\ reqCtx = [id \in Ids |-> "live"]
  /\ results = <<>>
  /\ col = "select"
  /\ cur = 0
  /\ samples = [t \in Ticks |-> NoSamples]
  /\ uniqErrors = [e \in {"error", "timeout"} |-> 0]
  /\ reports = <<>>
  /\ Failed = 0
  /\ OutResults = <<>>
  /\ str = IF Stream THEN "recv" ELSE "exited"
  /\ taken = <<>>
  /\ sent = <<>>
  /\ broken = FALSE
  /\ sig = "wait"
  /\ main = "waitDone"
  /\ flushed = 0

-----------------------------------------------------------------------------
(* The scheduler *)

\* close(next) happens as the scheduler returns.
NextClosed == sched = "exited"

SchedulerExit ==
  /\ sched = "check"
  /\ cancelled
  /\ sched' = "exited"
  /\ UNCHANGED <<ctxVars, step, tick, firedInTick, targetRPS, fired, atkVars,
                 callVars, results, colVars, OutResults, strVars, sig, mainVars>>

\* The run is not cancelled: wait for the limiter, then offer a token.
SchedulerTake ==
  /\ sched = "check"
  /\ ~cancelled
  /\ sched' = "offer"
  /\ UNCHANGED <<ctxVars, step, tick, firedInTick, targetRPS, fired, atkVars,
                 callVars, results, colVars, OutResults, strVars, sig, mainVars>>

\* No attacker is parked at next at this moment: retry.
SchedulerRetry ==
  /\ sched = "offer"
  /\ sched' = "check"
  /\ UNCHANGED <<ctxVars, step, tick, firedInTick, targetRPS, fired, atkVars,
                 callVars, results, colVars, OutResults, strVars, sig, mainVars>>

\* Mutant of CountRequest: the step ends by the tick just closed, not by the next.
CountRequestByClosedTick ==
  IF firedInTick + 1 = targetRPS
  THEN /\ tick' = tick + 1
       /\ firedInTick' = 0
       /\ IF Limited /\ tick % StepDurationSec = 0
          THEN /\ targetRPS' = targetRPS + StepRPS
               /\ step' = step + 1
          ELSE UNCHANGED <<targetRPS, step>>
  ELSE /\ firedInTick' = firedInTick + 1
       /\ UNCHANGED <<tick, targetRPS, step>>

\* The counters after a token was taken: the tick closes with its last request,
\* and a step ends at each tick divisible by StepDurationSec.
CountRequest ==
  IF firedInTick + 1 = targetRPS
  THEN /\ tick' = tick + 1
       /\ firedInTick' = 0
       /\ IF Limited /\ (tick + 1) % StepDurationSec = 0
          THEN /\ targetRPS' = targetRPS + StepRPS
               /\ step' = step + 1
          ELSE UNCHANGED <<targetRPS, step>>
  ELSE /\ firedInTick' = firedInTick + 1
       /\ UNCHANGED <<tick, targetRPS, step>>

\* The unbuffered send on next meets attacker a, which starts Do with a fresh
\* request context.
SchedulerFire(a) ==
  /\ sched = "offer"
  /\ atk[a] = "recv"
  /\ Len(fired) < MaxRequests
  /\ LET id == Len(fired) + 1 IN
       /\ holds' = [holds EXCEPT ![a] = id]
       /\ call' = [call EXCEPT ![id] = "running"]
  /\ fired' = Append(fired, [TargetRPS |-> targetRPS, Step |-> step, Tick |-> tick])
  /\ atk' = [atk EXCEPT ![a] = "wait"]
  /\ CountRequest
  /\ sched' = "check"
  /\ UNCHANGED <<ctxVars, outcome, reqCtx, results, colVars, OutResults, strVars,
                 sig, mainVars>>

-----------------------------------------------------------------------------
(* The attackers *)

\* The attacker looks at done no more: an answer in it is lost, Do may go on.
LeaveDone(id) == call' = [call EXCEPT ![id] = IF @ = "running" THEN @ ELSE "none"]

\* requestCtxCancel: whether the context had expired makes no difference to anybody.
CancelRequest(id) == reqCtx' = [reqCtx EXCEPT ![id] = "over"]

\* range over the closed next ends.
AttackerStop(a) ==
  /\ atk[a] = "recv"
  /\ NextClosed
  /\ atk' = [atk EXCEPT ![a] = "exited"]
  /\ UNCHANGED <<ctxVars, schedVars, holds, outcome, callVars, results, colVars,
                 OutResults, strVars, sig, mainVars>>

\* Mutant of AttackAbandon: the outer select does not watch TimeoutCtx.
AttackNeverAbandons(a) ==
  /\ FALSE
  /\ UNCHANGED vars

\* Mutant of AttackAbandon: only the inner select cancels the request.
AttackAbandonsUncancelled(a) ==
  /\ atk[a] = "wait"
  /\ cancelled
  /\ atk' = [atk EXCEPT ![a] = "exited"]
  /\ holds' = [holds EXCEPT ![a] = 0]
  /\ LeaveDone(holds[a])
  /\ UNCHANGED <<ctxVars, schedVars, outcome, reqCtx, results, colVars, OutResults,
                 strVars, sig, mainVars>>

\* The outer select sees TimeoutCtx done: the attacker returns, its request
\* is never delivered.
AttackAbandon(a) ==
  /\ atk[a] = "wait"
  /\ cancelled
  /\ atk' = [atk EXCEPT ![a] = "exited"]
  /\ holds' = [holds EXCEPT ![a] = 0]
  /\ CancelRequest(holds[a])
  /\ LeaveDone(holds[a])
  /\ UNCHANGED <<ctxVars, schedVars, outcome, results, colVars, OutResults, strVars,
                 sig, mainVars>>

\* Mutant of AttackTimeout: a request that times out has no result.
AttackSkipsTimeout(a) ==
  /\ atk[a] = "wait"
  /\ reqCtx[holds[a]] # "live"
  /\ atk' = [atk EXCEPT ![a] = "recv"]
  /\ holds' = [holds EXCEPT ![a] = 0]
  /\ LeaveDone(holds[a])
  /\ UNCHANGED <<ctxVars, schedVars, outcome, reqCtx, results, colVars, OutResults,
                 strVars, sig, mainVars>>

\* The outer select sees requestCtx done: whatever ended it, the answer is
\* errAttackDoTimedOut.  Do may still be running.
AttackTimeout(a) ==
  /\ atk[a] = "wait"
  /\ reqCtx[holds[a]] # "live"
  /\ outcome' = [outcome EXCEPT ![a] = "timeout"]
  /\ atk' = [atk EXCEPT ![a] = "deliver"]
  /\ LeaveDone(holds[a])
  /\ UNCHANGED <<ctxVars, schedVars, holds, reqCtx, results, colVars, OutResults,
                 strVars, sig, mainVars>>

\* The outer select takes Do's answer from done.
AttackAnswer(a) ==
  /\ atk[a] = "wait"
  /\ call[holds[a]] \in DoOutcomes
  /\ outcome' = [outcome EXCEPT ![a] = call[holds[a]]]
  /\ LeaveDone(holds[a])
  /\ CancelRequest(holds[a])
  /\ atk' = [atk EXCEPT ![a] = "deliver"]
  /\ UNCHANGED <<ctxVars, schedVars, holds, results, colVars, OutResults, strVars,
                 sig, mainVars>>

\* Mutant of AttackDeliver: after a timeout the attacker still waits for the answer.
AttackDeliverEach(a) ==
  /\ atk[a] = "deliver"
  /\ Len(results) < ResultsCapacity
  /\ results' = Append(results, [id |-> holds[a], out |-> outcome[a]])
  /\ atk' = [atk EXCEPT ![a] = IF outcome[a] = "timeout" THEN "wait" ELSE "recv"]
  /\ holds' = [holds EXCEPT ![a] = IF outcome[a] = "timeout" THEN @ ELSE 0]
  /\ outcome' = [outcome EXCEPT ![a] = "none"]
  /\ UNCHANGED <<ctxVars, schedVars, callVars, colVars, OutResults, strVars, sig,
                 mainVars>>

\* The result enters results as soon as there is room, whether or not the run
\* was cancelled meanwhile; then the attacker waits for its next token.  The context
\* of the request was over before, by its deadline or by requestCtxCancel.
AttackDeliver(a) ==
  /\ atk[a] = "deliver"
  /\ Len(results) < ResultsCapacity
  /\ results' = Append(results, [id |-> holds[a], out |-> outcome[a]])
  /\ atk' = [atk EXCEPT ![a] = "recv"]
  /\ holds' = [holds EXCEPT ![a] = 0]
  /\ outcome' = [outcome EXCEPT ![a] = "none"]
  /\ UNCHANGED <<ctxVars, schedVars, callVars, colVars, OutResults, strVars, sig,
                 mainVars>>

\* The AttackerTimeout of a request passes.
DeadlineExpires(id) ==
  /\ id \in 1 .. Len(fired)
  /\ reqCtx[id] = "live"
  /\ reqCtx' = [reqCtx EXCEPT ![id] = "over"]
  /\ UNCHANGED <<ctxVars, schedVars, atkVars, call, results, colVars, OutResults,
                 strVars, sig, mainVars>>

\* Somebody will look at done of this request.
Awaited(id) == \E a \in Attackers : atk[a] = "wait" /\ holds[a] = id

\* Do returns, and only then the inner select chooses: it may find the run
\* cancelled and cancel the request, find the request context done, or put the
\* answer in done, which has room for it.
DoReturns(id) ==
  /\ call[id] = "running"
  /\ \/ /\ cancelled
        /\ call' = [call EXCEPT ![id] = "none"]
        /\ CancelRequest(id)
     \/ /\ reqCtx[id] # "live"
        /\ call' = [call EXCEPT ![id] = "none"]
        /\ UNCHANGED reqCtx
     \/ /\ Awaited(id)
        /\ \E answer \in DoOutcomes : call' = [call EXCEPT ![id] = answer]
        /\ UNCHANGED reqCtx
  /\ UNCHANGED <<ctxVars, schedVars, atkVars, results, colVars, OutResults, strVars,
                 sig, mainVars>>

-----------------------------------------------------------------------------
(* The collector *)

\* The select sees TimeoutCtx done: OutResults is closed, results already
\* queued stay there.
CollectorStop ==
  /\ col = "select"
  /\ cancelled
  /\ col' = "exited"
  /\ UNCHANGED <<ctxVars, schedVars, atkVars, callVars, results, cur, samples,
                 uniqErrors, reports, Failed, OutResults, strVars, sig, mainVars>>

\* The samples of a tick with one more result.
AddSample(s, res) ==
  [n    |-> s.n + 1,
   good |-> s.good + (IF res.out = "ok" THEN 1 ELSE 0),
   ids  |-> s.ids \cup {res.id}]

\* Mutant of Complete: one sample short.
CompleteEarly(tm, token) == tm.n + 1 >= token.TargetRPS

\* The last sample of a tick: as many as the target of its token.
Complete(tm, token) == tm.n = token.TargetRPS

\* The select takes a result: the error is counted, the sample joins its tick,
\* and the tick is complete when it has as many samples as its target.
CollectorReceive ==
  /\ col = "select"
  /\ results # <<>>
  /\ results' = Tail(results)
  /\ LET res == Head(results)
         token == fired[res.id]
         tm == AddSample(samples[token.Tick], res)
     IN /\ uniqErrors' = IF res.out \in {"error", "timeout"}
                         THEN [uniqErrors EXCEPT ![res.out] = @ + 1]
                         ELSE uniqErrors
        /\ samples' = [samples EXCEPT ![token.Tick] = tm]
        /\ IF Complete(tm, token)
           THEN /\ col' = IF Stream THEN "stream" ELSE "judge"
                /\ cur' = token.Tick
           ELSE UNCHANGED <<col, cur>>
  /\ UNCHANGED <<ctxVars, schedVars, atkVars, callVars, reports, Failed, OutResults,
                 strVars, sig, mainVars>>

\* The batch of a complete tick, as it is sent to the cluster client and
\* as it is reported.
Batch(t) == [tick |-> t, n |-> samples[t].n, good |-> samples[t].good,
             ids |-> samples[t].ids]

\* Mutant of CollectorStream: OutResults takes any number of batches.
CollectorStreamUnbounded ==
  /\ col = "stream"
  /\ OutResults' = Append(OutResults, Batch(cur))
  /\ col' = "judge"
  /\ UNCHANGED <<ctxVars, schedVars, atkVars, callVars, results, cur, samples,
                 uniqErrors, reports, Failed, strVars, sig, mainVars>>

\* OutResults <- Samples blocks while the channel is full.
CollectorStream ==
  /\ col = "stream"
  /\ Len(OutResults) < OutResultsCapacity
  /\ OutResults' = Append(OutResults, Batch(cur))
  /\ col' = "judge"
  /\ UNCHANGED <<ctxVars, schedVars, atkVars, callVars, results, cur, samples,
                 uniqErrors, reports, Failed, strVars, sig, mainVars>>

\* Autoscaling starts new attackers, at most as many as the pool still has.
ScaleAttackers ==
  LET spare == {a \in Attackers : atk[a] = "absent"}
      amount == IF AttackersScaleAmount < Cardinality(spare)
                THEN AttackersScaleAmount ELSE Cardinality(spare)
  IN \E new \in SUBSET spare :
       /\ Cardinality(new) = amount
       /\ atk' = [a \in Attackers |-> IF a \in new THEN "recv" ELSE atk[a]]

\* Mutant of Fail: the run goes on.
FailWithoutCancel ==
  /\ Failed' = Failed + 1
  /\ UNCHANGED cancelled

Fail ==
  /\ Failed' = Failed + 1
  /\ cancelled' = TRUE

\* The rest of processTickMetrics for a complete tick: too few successes fail
\* and cancel the run, the tick is reported, a slow tick scales the attackers
\* (the measured rate may be anything), the entry of the tick is deleted.
CollectorJudge ==
  /\ col = "judge"
  /\ IF BelowRatio(samples[cur])
     THEN Fail
     ELSE UNCHANGED <<Failed, cancelled>>
  /\ reports' = Append(reports, Batch(cur))
  /\ \/ SystemMode = "BoundRPSAutoscale" /\ ScaleAttackers
     \/ UNCHANGED atk
  /\ samples' = [samples EXCEPT ![cur] = NoSamples]
  /\ col' = "select"
  /\ cur' = 0
  /\ UNCHANGED <<alive, schedVars, holds, outcome, callVars, results, uniqErrors,
                 OutResults, strVars, sig, mainVars>>

-----------------------------------------------------------------------------
(* streamResults, run by the node's gRPC handler when Stream is set *)

StreamerTake ==
  /\ str = "recv"
  /\ OutResults # <<>>
  /\ taken' = Append(taken, Head(OutResults))
  /\ OutResults' = Tail(OutResults)
  /\ str' = "send"
  /\ UNCHANGED <<ctxVars, schedVars, atkVars, callVars, results, colVars, sent,
                 broken, sig, mainVars>>

\* Mutant of StreamerSend: the loop ends with a Send that fails.
StreamerSendOrQuit ==
  /\ str = "send"
  /\ \E fate \in IF broken THEN {"lost"} ELSE SendOutcomes :
       /\ sent' = IF fate = "lost" THEN sent
                  ELSE Append(sent, [batch |-> taken[Len(taken)], coded |-> fate])
       /\ broken' = (fate = "lost")
       /\ str' = IF fate = "lost" THEN "exited" ELSE "check"
  /\ UNCHANGED <<ctxVars, schedVars, atkVars, callVars, results, colVars,
                 OutResults, taken, sig, mainVars>>

\* Encode and Send: either error is logged and the loop goes on.  What Encode
\* left of the batch is sent all the same.  Send may take any time; once the
\* stream is broken it fails, and the batch is lost.
StreamerSend ==
  /\ str = "send"
  /\ \E fate \in IF broken THEN {"lost"} ELSE SendOutcomes :
       /\ sent' = IF fate = "lost" THEN sent
                  ELSE Append(sent, [batch |-> taken[Len(taken)], coded |-> fate])
       /\ broken' = (fate = "lost")
  /\ str' = "check"
  /\ UNCHANGED <<ctxVars, schedVars, atkVars, callVars, results, colVars,
                 OutResults, taken, sig, mainVars>>

StreamerCheck ==
  /\ str = "check"
  /\ cancelled' = (cancelled \/ Failed = 1)
  /\ str' = "recv"
  /\ UNCHANGED <<alive, schedVars, atkVars, callVars, results, colVars, OutResults,
                 taken, sent, broken, sig, mainVars>>

\* range over OutResults ends once it is closed and drained.
StreamerStop ==
  /\ str = "recv"
  /\ OutResults = <<>>
  /\ col = "exited"
  /\ str' = "exited"
  /\ UNCHANGED <<ctxVars, schedVars, atkVars, callVars, results, colVars, OutResults,
                 taken, sent, broken, sig, mainVars>>

-----------------------------------------------------------------------------
(* Run itself, the test timeout, and the signal handler *)

\* TestTimeSec passes, or the caller cancels the context it gave to Run.
Timeout ==
  /\ ~cancelled
  /\ cancelled' = TRUE
  /\ UNCHANGED <<alive, schedVars, atkVars, callVars, results, colVars, OutResults,
                 strVars, sig, mainVars>>

SignalReceive ==
  /\ sig = "wait"
  /\ sig' = "exit"
  /\ cancelled' = TRUE
  /\ UNCHANGED <<alive, schedVars, atkVars, callVars, results, colVars, OutResults,
                 strVars, mainVars>>

\* os.Exit(1): nothing runs any more.
SignalExit ==
  /\ sig = "exit"
  /\ alive' = FALSE
  /\ UNCHANGED <<cancelled, schedVars, atkVars, callVars, results, colVars,
                 OutResults, strVars, sig, mainVars>>

\* Mutant of SignalStop: the handler waits for a signal only.
SignalNeverStops ==
  /\ FALSE
  /\ UNCHANGED vars

SignalStop ==
  /\ sig = "wait"
  /\ cancelled
  /\ sig' = "exited"
  /\ UNCHANGED <<ctxVars, schedVars, atkVars, callVars, results, colVars, OutResults,
                 strVars, mainVars>>

MainDone ==
  /\ main = "waitDone"
  /\ cancelled
  /\ main' = "waitGroup"
  /\ UNCHANGED <<ctxVars, schedVars, atkVars, callVars, results, colVars, OutResults,
                 strVars, sig, flushed>>

\* Mutant of GroupDone: the collector is not in the wait group.
GroupDoneWithoutCollector == sig = "exited"

\* The goroutines Run waits for: the collector and the signal handler, not the
\* scheduler and not the attackers.
GroupDone == col = "exited" /\ sig = "exited"

MainReturn ==
  /\ main = "waitGroup"
  /\ GroupDone
  /\ main' = "returned"
  /\ flushed' = IF CSV THEN Len(reports) ELSE flushed
  /\ UNCHANGED <<ctxVars, schedVars, atkVars, callVars, results, colVars, OutResults,
                 strVars, sig>>

-----------------------------------------------------------------------------
Scheduler == SchedulerExit \/ SchedulerTake \/ SchedulerRetry
             \/ \E a \in Attackers : SchedulerFire(a)
Attacker(a) == AttackerStop(a) \/ AttackAbandon(a) \/ AttackTimeout(a)
               \/ AttackAnswer(a) \/ AttackDeliver(a)
Request(id) == DeadlineExpires(id) \/ DoReturns(id)
Collector == CollectorStop \/ CollectorReceive \/ CollectorStream \/ CollectorJudge
Streamer == StreamerTake \/ StreamerSend \/ StreamerCheck \/ StreamerStop
Main == MainDone \/ MainReturn
SignalHandler == SignalExit \/ SignalStop

\* An attacker that has a result for a full channel nobody receives from: the
\* send on results has no other case.
Stuck(a) ==
  /\ atk[a] = "deliver"
  /\ Len(results) = ResultsCapacity
  /\ col = "exited"

\* Every goroutine of the run has returned or is stuck, or the process is gone.
\* The end of a run is the only state in which nothing can happen.
Finished ==
  /\ NextClosed
  /\ \A a \in Attackers : atk[a] \in {"absent", "exited"} \/ Stuck(a)
  /\ \A id \in Ids : call[id] # "running"
  /\ col = "exited" /\ str = "exited" /\ sig = "exited" /\ main = "returned"

Terminated == (Finished \/ ~alive) /\ UNCHANGED vars

Next ==
  \/ /\ alive
     /\ \/ Scheduler
        \/ \E a \in Attackers : Attacker(a)
        \/ \E id \in Ids : Request(id)
        \/ Collector
        \/ Streamer
        \/ Main
        \/ Timeout
        \/ SignalReceive
        \/ SignalHandler
  \/ Terminated

Spec == Init /\ [][Next]_vars

\* Goroutines that can run do run, and while the test runs the deadline given to
\* Do passes; after its end nobody may count on it.  Nobody has to end the run,
\* neither its test timeout nor a signal, and the user's Do need not return.
Fairness ==
  /\ WF_vars(alive /\ Scheduler)
  /\ \A a \in Attackers : WF_vars(alive /\ Attacker(a))
  /\ \A id \in Ids : WF_vars(alive /\ ~cancelled /\ DeadlineExpires(id))
  /\ WF_vars(alive /\ Collector)
  /\ WF_vars(alive /\ Streamer)
  /\ WF_vars(alive /\ Main)
  /\ WF_vars(alive /\ SignalHandler)

FairSpec == Spec /\ Fairness

-----------------------------------------------------------------------------
(* Properties *)

TickSamples ==
  [n : Nat, good : Nat, ids : SUBSET Ids]
Batches ==
  [tick : Nat, n : Nat, good : Nat, ids : SUBSET Ids]

Chunks ==
  [batch : Batches, coded : Fates]

Token   == [TargetRPS : Nat \ {0}, Step : Nat \ {0}, Tick : Ticks]
Outcome == Answers \cup {"none", "timeout"}
Result  == [id : 1 .. Len(fired), out : Outcome]

\* The shape of the state, one part per goroutine; a tick has one request at
\* least, so that the number of the tick stays within the bound of the model.
SchedulerTyped ==
  /\ sched \in {"check", "offer", "exited"}
  /\ step \in Nat \ {0}
  /\ tick \in Nat \ {0}
  /\ firedInTick \in Nat
  /\ targetRPS \in Nat \ {0}
  /\ fired \in Seq(Token)
  /\ Len(fired) <= MaxRequests
  /\ tick <= Len(fired) + 1

AttackersTyped ==
  /\ atk \in [Attackers -> {"absent", "recv", "wait", "deliver", "exited"}]
  /\ holds \in [Attackers -> 0 .. Len(fired)]
  /\ \A a \in Attackers : holds[a] # 0 <=> atk[a] \in {"wait", "deliver"}
  /\ outcome \in [Attackers -> Outcome]

RequestsTyped ==
  /\ call \in [Ids -> Answers \cup {"none", "running"}]
  /\ reqCtx \in [Ids -> {"live", "over"}]

ResultsTyped ==
  /\ results \in Seq(Result)
  /\ Len(results) <= ResultsCapacity

CollectorTyped ==
  /\ col \in {"select", "stream", "judge", "exited"}
  /\ cur \in 0 .. MaxRequests
  /\ cur # 0 <=> col \in {"stream", "judge"}
  /\ samples \in [Ticks -> TickSamples]
  /\ uniqErrors \in [{"error", "timeout"} -> Nat]
  /\ reports \in Seq(Batches)
  /\ Failed \in Nat

StreamTyped ==
  /\ OutResults \in Seq(Batches)
  /\ Len(OutResults) <= OutResultsCapacity
  /\ str \in {"recv", "send", "check", "exited"}
  /\ taken \in Seq(Batches)
  /\ str = "send" => taken # <<>>
  /\ sent \in Seq(Chunks)
  /\ broken \in BOOLEAN

RunTyped ==
  /\ cancelled \in BOOLEAN
  /\ alive \in BOOLEAN
  /\ sig \in {"wait", "exit", "exited"}
  /\ main \in {"waitDone", "waitGroup", "returned"}
  /\ flushed \in Nat

TypeOK ==
  /\ SchedulerTyped
  /\ AttackersTyped
  /\ RequestsTyped
  /\ ResultsTyped
  /\ CollectorTyped
  /\ StreamTyped
  /\ RunTyped

FiredIn(t) == {id \in 1 .. Len(fired) : fired[id].Tick = t}

\* A reported tick (runner.go:337-387) holds the result of every request the
\* scheduler fired in that tick and of no other, exactly as many as the target
\* its tokens carry; and no tick is reported twice, although the entry of a
\* reported tick is deleted and would be created anew by a late result.
ReportsComplete ==
  /\ \A i \in DOMAIN reports :
       LET b == reports[i] IN
         /\ b.ids = FiredIn(b.tick)
         /\ b.n = Cardinality(b.ids)
         /\ \A id \in b.ids : fired[id].TargetRPS = b.n
  /\ \A i, j \in DOMAIN reports : reports[i].tick = reports[j].tick => i = j

\* Where a fired request is: with an attacker, in results, among the samples of
\* its tick, or in a report.
Places(id) ==
  {<<"attacker", a>> : a \in {a \in Attackers : holds[a] = id}}
  \cup {<<"results", i>> : i \in {i \in DOMAIN results : results[i].id = id}}
  \cup {<<"samples", t>> : t \in {t \in Ticks : id \in samples[t].ids}}
  \cup {<<"reports", i>> : i \in {i \in DOMAIN reports : id \in reports[i].ids}}

\* A request is never counted twice, whatever order timeouts, answers and
\* deliveries take; and none is lost while the run is not cancelled: only the
\* attacker's return on TimeoutCtx (attack.go:44-46) drops one.
RequestsAccounted ==
  \A id \in 1 .. Len(fired) :
    /\ Cardinality(Places(id)) <= 1
    /\ ~cancelled => Places(id) # {}

\* Nobody ends a Do that runs longer than its attacker waits for it, at its
\* deadline or at the end of the run (attack.go:44-52), and the attacker calls Do
\* again meanwhile.  Whenever Do runs with nobody waiting, its context tells it to
\* return.
OrphansCancelled ==
  \A id \in 1 .. Len(fired) :
    call[id] = "running" /\ ~Awaited(id) => reqCtx[id] # "live"

\* The load follows the configured plan (runner.go:255-266): a tick gets exactly
\* the requests its tokens name before the next one starts, and they name the rate
\* of their step, StepRPS above that of the step before.  A step lasts
\* StepDurationSec ticks, as config.go:45 has it, except for the first one: ticks
\* count from 1, so that it is one tick short unless that leaves none.
FirstRPS ==
  IF Limited THEN StartRPS ELSE Cardinality(InitialAttackers) * SamplesPerAttacker

StepTicks(s) == {fired[id].Tick : id \in {id \in 1 .. Len(fired) : fired[id].Step = s}}

StepLength(s) ==
  IF s = 1 /\ StepDurationSec > 1 THEN StepDurationSec - 1 ELSE StepDurationSec

LoadFollowsPlan ==
  /\ \A id \in 1 .. Len(fired) :
       fired[id].TargetRPS = FirstRPS + StepRPS * (fired[id].Step - 1)
  /\ \A t \in 1 .. tick - 1 :
       /\ FiredIn(t) # {}
       /\ \A id \in FiredIn(t) : fired[id].TargetRPS = Cardinality(FiredIn(t))
  /\ Limited => \A s \in 1 .. step :
       /\ Cardinality(StepTicks(s)) <= StepLength(s)
       /\ s < step => Cardinality(StepTicks(s)) = StepLength(s)
  /\ ~Limited => step = 1

\* streamResults takes the batches of the reported ticks in the order of the
\* reports; a batch is queued before its tick is judged, and all of them were taken
\* when streamResults returns, also after a cancellation with batches still queued
\* (runner.go:286, 338-340, service.go:41-50).  What it passes on is in that order
\* too, and only a broken stream loses batches, those from the break on.
StreamCarriesReports ==
  Stream =>
    /\ taken \o OutResults =
         IF col = "judge" THEN Append(reports, Batch(cur)) ELSE reports
    /\ str = "exited" => taken = reports
    /\ Len(sent) <= Len(taken)
    /\ \A i \in DOMAIN sent : sent[i].batch = taken[i]
    /\ ~broken => Len(taken) = Len(sent) + (IF str = "send" THEN 1 ELSE 0)

\* Run flushes the report files after the last row was written to them: the wait
\* group (runner.go:190-196) keeps it from overtaking the collector.
FlushCoversReports ==
  main = "returned" => /\ col = "exited"
                       /\ CSV => flushed = Len(reports)

\* Failed counts the reported ticks below SuccessRatio, and the run is cancelled
\* from the first of them on (runner.go:345-349).
FailuresCancel ==
  /\ Failed = Cardinality({i \in DOMAIN reports : BelowRatio(reports[i])})
  /\ Failed > 0 => cancelled

\* The run implements the abstract promise about ticks: a report tells a closed
\* tick with the number of its requests, and no tick twice (runner.go:253-266,
\* 337-387, 202-204).
Promise == INSTANCE TickReports WITH
  Sizes <- 1 .. MaxRequests,
  closed <- [t \in 1 .. tick - 1 |-> Cardinality(FiredIn(t))],
  reported <- [i \in DOMAIN reports |->
                [tick |-> reports[i].tick, requests |-> reports[i].n]],
  ended <- (main = "returned")

\* Every step of the run is a step of TickReports, or leaves its view unchanged.
KeepsPromise == Promise!Spec

ReportedTicks == {reports[i].tick : i \in DOMAIN reports}

\* A streamed run is what the node takes it for (service.go:40-57): one batch per
\* tick, and a batch below the ratio fails and cancels it before the next one.
Streamed(b) == [tick |-> b.tick, bad |-> BelowRatio(b)]

StreamView == INSTANCE StreamedRun WITH
  Capacity <- OutResultsCapacity,
  started <- TRUE,
  emitted <- IF col = "judge" THEN ReportedTicks \cup {cur} ELSE ReportedTicks,
  queue <- [i \in DOMAIN OutResults |-> Streamed(OutResults[i])],
  pending <- (col = "judge" /\ BelowRatio(Batch(cur))),
  failures <- Failed,
  over <- (col = "exited")

RunStreams == StreamView!Spec

\* What has happened here stays so: a run is cancelled for good, as a tick is closed
\* or reported and a goroutine has ended.  So []<>(P => Q) says P ~> Q, at a third of
\* the cost to TLC.

\* Once the run is cancelled Run returns, whatever the attackers, their requests
\* and the reader of the stream are doing, unless the process exits on a signal.
RunReturns == []<>(cancelled => main = "returned" \/ ~alive)

\* After the end of a run no goroutine of it stays behind, unless results is full
\* when the collector stops: it receives no more, and an attacker that still has a
\* result blocks for ever (attack.go:68).
GoroutinesExit ==
  []<>(cancelled /\ alive => /\ NextClosed
                             /\ \A a \in Attackers :
                                  atk[a] \in {"absent", "exited"} \/ Stuck(a)
                             /\ col = "exited" /\ str = "exited")

\* While the test runs, every closed tick is reported in the end, also when
\* every request of it times out and when ticks complete out of order.
ClosedTicksReported ==
  \A t \in Ticks : []<>(t < tick => t \in ReportedTicks \/ cancelled)

-----------------------------------------------------------------------------
(* What a test says of the run, and the code does not do *)

\* The scenario of runner_test.go:78-98: AttackerTimeout is longer than the test.
LongDeadlineSpec ==
  Init /\ [][Next /\ ~ \E id \in Ids : DeadlineExpires(id)]_vars

\* runner_test.go:93, a request in flight when the test ends "is not an error
\* because test has ended": uniqErrors stays empty.
TestEndIsNoError == \A e \in DOMAIN uniqErrors : uniqErrors[e] = 0

=============================================================================
