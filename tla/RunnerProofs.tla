---------------------------- MODULE RunnerProofs ----------------------------
(***************************************************************************)
(* For every value of the constants of Runner: the state keeps its shape,  *)
(* and ticks are reported whole, each once (RunnerInvariant!IInv is        *)
(* inductive).                                                             *)
(***************************************************************************)
EXTENDS RunnerInvariant, FiniteSetTheorems, SequenceTheorems, TLAPS

-----------------------------------------------------------------------------
(* Type correctness.  Each part of TypeOK depends on the variables of one   *)
(* goroutine only.                                                          *)

\* What the channels do to a queue of elements of S.
LEMMA QueueAppend ==
  ASSUME NEW S, NEW s \in Seq(S), NEW e \in S
  PROVE  /\ Append(s, e) \in Seq(S)
         /\ Len(Append(s, e)) = Len(s) + 1
         /\ \A i \in 1 .. Len(s) : Append(s, e)[i] = s[i]
         /\ Append(s, e)[Len(s) + 1] = e
BY AppendProperties

LEMMA QueueTail ==
  ASSUME NEW S, NEW s \in Seq(S), s # <<>>
  PROVE  /\ Head(s) \in S
         /\ Head(s) = s[1]
         /\ Tail(s) \in Seq(S)
         /\ Len(s) \in Nat \ {0}
         /\ Len(Tail(s)) = Len(s) - 1
         /\ \A i \in 1 .. Len(s) - 1 : Tail(s)[i] = s[i + 1]
BY HeadTailProperties

LEMMA SchedulerFrame ==
  SchedulerTyped /\ UNCHANGED schedVars => SchedulerTyped'
BY DEF SchedulerTyped, schedVars

LEMMA AttackersFrame ==
  AttackersTyped /\ UNCHANGED <<atkVars, fired>> => AttackersTyped'
BY DEF AttackersTyped, atkVars

LEMMA RequestsFrame ==
  RequestsTyped /\ UNCHANGED callVars => RequestsTyped'
BY DEF RequestsTyped, callVars

LEMMA ResultsFrame ==
  ResultsTyped /\ UNCHANGED <<results, fired>> => ResultsTyped'
BY DEF ResultsTyped, Result

LEMMA CollectorFrame ==
  CollectorTyped /\ UNCHANGED colVars => CollectorTyped'
BY DEF CollectorTyped, colVars

LEMMA StreamFrame ==
  StreamTyped /\ UNCHANGED <<OutResults, strVars>> => StreamTyped'
BY DEF StreamTyped, strVars

LEMMA RunFrame ==
  RunTyped /\ UNCHANGED <<ctxVars, sig, mainVars>> => RunTyped'
BY DEF RunTyped, ctxVars, mainVars

LEMMA LeaveDoneTyped ==
  ASSUME call \in [Ids -> Answers \cup {"none", "running"}],
         NEW id, LeaveDone(id)
  PROVE  call' \in [Ids -> Answers \cup {"none", "running"}]
BY DEF LeaveDone

LEMMA CancelRequestTyped ==
  ASSUME reqCtx \in [Ids -> {"live", "over"}],
         NEW id, CancelRequest(id)
  PROVE  reqCtx' \in [Ids -> {"live", "over"}]
BY DEF CancelRequest

LEMMA BatchTyped ==
  ASSUME CollectorTyped, NEW t \in Ticks
  PROVE  Batch(t) \in Batches
BY DEF CollectorTyped, Batch, Batches, TickSamples, Ticks

LEMMA FiredTyped ==
  ASSUME SchedulerTyped, NEW id \in 1 .. Len(fired)
  PROVE  /\ fired[id] \in Token
         /\ fired[id].Tick \in Ticks
         /\ fired[id].TargetRPS \in Nat \ {0}
<1>1. fired[id] \in Token
  <2> HIDE DEF Token
  <2> QED BY DEF SchedulerTyped
<1> QED BY <1>1 DEF Token

LEMMA InitTyped == Init => TypeOK
<1> SUFFICES ASSUME Init PROVE TypeOK
  OBVIOUS
<1> USE PoolAssumption, ScheduleAssumption, ReportAssumption
<1>1. targetRPS \in Nat \ {0}
  <2>1. Cardinality(InitialAttackers) \in Nat \ {0}
    BY FS_CardinalityType, FS_EmptySet, FS_Subset
  <2>2. \A x, y \in Nat \ {0} : x * y \in Nat \ {0}
    OBVIOUS
  <2> QED BY <2>1, <2>2 DEF Init
<1>2. SchedulerTyped
  BY <1>1 DEF Init, SchedulerTyped
<1>3. AttackersTyped
  BY DEF Init, AttackersTyped, Outcome
<1>4. RequestsTyped
  BY DEF Init, RequestsTyped
<1>5. ResultsTyped
  BY DEF Init, ResultsTyped
<1>6. CollectorTyped
  <2>1. samples \in [Ticks -> TickSamples]
    BY DEF Init, NoSamples, TickSamples
  <2>2. uniqErrors \in [{"error", "timeout"} -> Nat]
    BY DEF Init
  <2> QED
    BY <2>1, <2>2 DEF Init, CollectorTyped
<1>7. StreamTyped /\ RunTyped
  <2>1. StreamTyped
    <3>1. str \in {"recv", "exited"} /\ OutResults = <<>> /\ taken = <<>> /\ sent = <<>>
          /\ broken = FALSE
      BY DEF Init
    <3>2. Len(OutResults) <= OutResultsCapacity
      BY <3>1
    <3>3. \A S : <<>> \in Seq(S)
      OBVIOUS
    <3> QED BY <3>1, <3>2, <3>3 DEF StreamTyped
  <2>2. RunTyped
    BY DEF Init, RunTyped
  <2> QED BY <2>1, <2>2
<1> QED
  BY <1>2, <1>3, <1>4, <1>5, <1>6, <1>7 DEF TypeOK

LEMMA FireTyped ==
  ASSUME TypeOK, NEW a \in Attackers, SchedulerFire(a)
  PROVE  TypeOK'
<1> USE ScheduleAssumption DEF TypeOK
<1> DEFINE token == [TargetRPS |-> targetRPS, Step |-> step, Tick |-> tick]
           id == Len(fired) + 1
<1>1. /\ id \in Ids /\ tick \in Ticks /\ Len(fired) \in Nat
  BY DEF SchedulerFire, SchedulerTyped, Ids, Ticks
<1>2. token \in Token
  BY <1>1 DEF SchedulerTyped, Token
<1>3. fired' = Append(fired, token)
  BY DEF SchedulerFire
<1>4. /\ fired' \in Seq(Token)
      /\ Len(fired') = Len(fired) + 1
  <2> HIDE DEF token
  <2> QED BY <1>2, <1>3, QueueAppend DEF SchedulerTyped
<1>5. SchedulerTyped'
  <2>1. CASE firedInTick + 1 = targetRPS
    <3>1. CountRequest /\ sched' = "check" /\ Len(fired) < MaxRequests
      BY DEF SchedulerFire
    <3>2. tick' = tick + 1 /\ firedInTick' = 0
      BY <2>1, <3>1 DEF CountRequest
    <3>3. targetRPS' \in Nat \ {0} /\ step' \in Nat \ {0}
      <4>1. targetRPS' = targetRPS + StepRPS \/ targetRPS' = targetRPS
        BY <2>1, <3>1 DEF CountRequest
      <4>2. step' = step + 1 \/ step' = step
        BY <2>1, <3>1 DEF CountRequest
      <4> QED BY <4>1, <4>2 DEF SchedulerTyped
    <3> QED BY <1>1, <1>4, <3>1, <3>2, <3>3 DEF SchedulerTyped
  <2>2. CASE firedInTick + 1 # targetRPS
    BY <1>1, <1>4, <2>2 DEF SchedulerFire, SchedulerTyped, CountRequest
  <2> QED BY <2>1, <2>2
<1>6. AttackersTyped'
  <2>1. holds' \in [Attackers -> 0 .. Len(fired')]
    BY <1>1, <1>4 DEF SchedulerFire, AttackersTyped
  <2> QED BY <1>1, <2>1 DEF SchedulerFire, AttackersTyped
<1>7. RequestsTyped'
  BY <1>1 DEF SchedulerFire, RequestsTyped
<1>8. ResultsTyped'
  <2>1. Result \subseteq Result'
    BY <1>1, <1>4 DEF Result
  <2>2. results' = results /\ results \in Seq(Result)
    BY DEF SchedulerFire, ResultsTyped
  <2>3. results \in Seq(Result')
    BY <2>1, <2>2
  <2> QED BY <2>2, <2>3 DEF ResultsTyped
<1> QED
  BY <1>5, <1>6, <1>7, <1>8, CollectorFrame, StreamFrame, RunFrame
  DEF SchedulerFire

LEMMA AttackerTyped ==
  ASSUME TypeOK, NEW a \in Attackers, Attacker(a)
  PROVE  TypeOK'
<1> USE DEF TypeOK, schedVars
<1> USE SchedulerFrame, AttackersFrame, RequestsFrame, ResultsFrame, CollectorFrame,
        StreamFrame, RunFrame
<1>1. CASE AttackerStop(a)
  <2>1. AttackersTyped'
    BY <1>1 DEF AttackerStop, AttackersTyped
  <2> QED BY <1>1, <2>1 DEF AttackerStop
<1>2. CASE AttackAbandon(a)
  <2>1. AttackersTyped'
    BY <1>2 DEF AttackAbandon, AttackersTyped
  <2>2. RequestsTyped'
    BY <1>2, LeaveDoneTyped, CancelRequestTyped DEF AttackAbandon, RequestsTyped
  <2> QED BY <1>2, <2>1, <2>2 DEF AttackAbandon
<1>3. CASE AttackTimeout(a)
  <2>1. AttackersTyped'
    BY <1>3 DEF AttackTimeout, AttackersTyped, Outcome
  <2>2. RequestsTyped'
    BY <1>3, LeaveDoneTyped DEF AttackTimeout, RequestsTyped
  <2> QED BY <1>3, <2>1, <2>2 DEF AttackTimeout
<1>4. CASE AttackAnswer(a)
  <2>1. AttackersTyped'
    BY <1>4, ReportAssumption DEF AttackAnswer, AttackersTyped, Outcome
  <2>2. RequestsTyped'
    BY <1>4, LeaveDoneTyped, CancelRequestTyped DEF AttackAnswer, RequestsTyped
  <2> QED BY <1>4, <2>1, <2>2 DEF AttackAnswer
<1>5. CASE AttackDeliver(a)
  <2> DEFINE res == [id |-> holds[a], out |-> outcome[a]]
  <2>1. AttackersTyped'
    BY <1>5 DEF AttackDeliver, AttackersTyped, Outcome
  <2>3. res \in Result /\ Result' = Result
    BY <1>5 DEF AttackDeliver, AttackersTyped, Result
  <2>4. results' = Append(results, res) /\ Len(results) < ResultsCapacity
    BY <1>5 DEF AttackDeliver
  <2>5. ResultsTyped'
    <3> HIDE DEF res
    <3>1. Append(results, res) \in Seq(Result) /\ Len(Append(results, res)) = Len(results) + 1
      BY <2>3, QueueAppend DEF ResultsTyped
    <3>2. Len(results) \in Nat
      BY DEF ResultsTyped
    <3> QED BY <2>3, <2>4, <3>1, <3>2, ReportAssumption DEF ResultsTyped
  <2> QED BY <1>5, <2>1, <2>5 DEF AttackDeliver
<1> QED
  BY <1>1, <1>2, <1>3, <1>4, <1>5 DEF Attacker

LEMMA RequestTyped ==
  ASSUME TypeOK, NEW id \in Ids, Request(id)
  PROVE  TypeOK'
<1> USE DEF TypeOK, schedVars
<1> USE SchedulerFrame, AttackersFrame, ResultsFrame, CollectorFrame, StreamFrame, RunFrame
<1>1. CASE DeadlineExpires(id)
  <2>1. RequestsTyped'
    BY <1>1 DEF DeadlineExpires, RequestsTyped
  <2> QED BY <1>1, <2>1 DEF DeadlineExpires
<1>2. CASE DoReturns(id)
  <2>1. RequestsTyped'
    BY <1>2, ReportAssumption, CancelRequestTyped DEF DoReturns, RequestsTyped
  <2> QED BY <1>2, <2>1 DEF DoReturns
<1> QED
  BY <1>1, <1>2 DEF Request

LEMMA ReceiveTyped ==
  ASSUME TypeOK, CollectorReceive
  PROVE  TypeOK'
<1> USE DEF TypeOK
<1> DEFINE res == Head(results)
           token == fired[res.id]
           tm == AddSample(samples[token.Tick], res)
<1>1. /\ res \in Result
      /\ results' = Tail(results)
      /\ Tail(results) \in Seq(Result)
      /\ Len(results) \in Nat
      /\ Len(Tail(results)) = Len(results) - 1
  BY QueueTail DEF CollectorReceive, ResultsTyped
<1>2. res.id \in 1 .. Len(fired) /\ res.id \in Ids
  BY <1>1, ScheduleAssumption DEF Result, SchedulerTyped, Ids
<1>3. token \in Token /\ token.Tick \in Ticks
  BY <1>2, FiredTyped
<1>4. tm \in TickSamples
  <2> DEFINE s == samples[token.Tick]
             one == IF res.out = "ok" THEN 1 ELSE 0
  <2>1. s \in TickSamples
    BY <1>3 DEF CollectorTyped
  <2> HIDE DEF token, res
  <2>2. one \in Nat /\ tm = [n |-> s.n + 1, good |-> s.good + one, ids |-> s.ids \cup {res.id}]
    BY DEF AddSample
  <2> HIDE DEF s, one, tm
  <2> QED BY <1>2, <2>1, <2>2 DEF TickSamples
<1>5. CollectorTyped'
  <2>1. samples' = [samples EXCEPT ![token.Tick] = tm]
    BY DEF CollectorReceive
  <2>2. samples' \in [Ticks -> TickSamples]
    <3> HIDE DEF tm, token
    <3> QED BY <1>4, <2>1 DEF CollectorTyped
  <2>3. uniqErrors' \in [{"error", "timeout"} -> Nat]
    BY DEF CollectorReceive, CollectorTyped
  <2>4. \/ col' \in {"stream", "judge"} /\ cur' = token.Tick
        \/ col' = col /\ cur' = cur
    BY DEF CollectorReceive
  <2>5. UNCHANGED <<reports, Failed>>
    BY DEF CollectorReceive
  <2> HIDE DEF token
  <2> QED BY <1>3, <2>2, <2>3, <2>4, <2>5, ScheduleAssumption DEF CollectorTyped, Ticks
<1>6. UNCHANGED schedVars /\ Result' = Result
  BY DEF CollectorReceive, Result, schedVars
<1>7. ResultsTyped'
  <2> HIDE DEF res
  <2> QED BY <1>1, <1>6, ReportAssumption DEF ResultsTyped
<1> QED
  BY <1>5, <1>6, <1>7, SchedulerFrame, AttackersFrame, RequestsFrame, StreamFrame, RunFrame
  DEF CollectorReceive, schedVars

LEMMA CollectorStepTyped ==
  ASSUME TypeOK, Collector
  PROVE  TypeOK'
<1> USE DEF TypeOK, schedVars
<1> USE SchedulerFrame, AttackersFrame, RequestsFrame, ResultsFrame, StreamFrame, RunFrame
<1>1. CASE CollectorStop
  <2>1. CollectorTyped'
    BY <1>1 DEF CollectorStop, CollectorTyped
  <2> QED BY <1>1, <2>1 DEF CollectorStop
<1>2. CASE CollectorReceive
  BY <1>2, ReceiveTyped
<1>3. CASE CollectorStream
  <2>1. Batch(cur) \in Batches
    BY <1>3, BatchTyped DEF CollectorStream, CollectorTyped, Ticks
  <2>2. StreamTyped'
    BY <1>3, <2>1, QueueAppend, ReportAssumption DEF CollectorStream, StreamTyped, strVars
  <2>3. CollectorTyped'
    BY <1>3 DEF CollectorStream, CollectorTyped
  <2> QED BY <1>3, <2>2, <2>3 DEF CollectorStream
<1>4. CASE CollectorJudge
  <2>1. Batch(cur) \in Batches
    BY <1>4, BatchTyped DEF CollectorJudge, CollectorTyped, Ticks
  <2>2. AttackersTyped'
    <3>1. atk' \in [Attackers -> {"absent", "recv", "wait", "deliver", "exited"}]
      BY <1>4 DEF CollectorJudge, ScaleAttackers, AttackersTyped
    <3>2. \A a \in Attackers : atk'[a] = atk[a] \/ (atk[a] = "absent" /\ atk'[a] = "recv")
      BY <1>4 DEF CollectorJudge, ScaleAttackers
    <3>3. UNCHANGED <<holds, outcome, fired>>
      BY <1>4 DEF CollectorJudge
    <3> QED BY <3>1, <3>2, <3>3 DEF AttackersTyped
  <2>3. CollectorTyped'
    <3>1. samples' \in [Ticks -> TickSamples]
      BY <1>4 DEF CollectorJudge, CollectorTyped, NoSamples, TickSamples
    <3>2. reports' \in Seq(Batches)
      BY <1>4, <2>1 DEF CollectorJudge, CollectorTyped
    <3>3. Failed' \in Nat
      BY <1>4 DEF CollectorJudge, Fail, CollectorTyped
    <3> QED BY <1>4, <3>1, <3>2, <3>3, ScheduleAssumption DEF CollectorJudge, CollectorTyped
  <2>4. RunTyped'
    BY <1>4 DEF CollectorJudge, Fail, RunTyped, mainVars
  <2> QED BY <1>4, <2>2, <2>3, <2>4 DEF CollectorJudge
<1> QED
  BY <1>1, <1>2, <1>3, <1>4 DEF Collector

LEMMA StreamerTyped ==
  ASSUME TypeOK, Streamer
  PROVE  TypeOK'
<1> USE DEF TypeOK, schedVars
<1> USE SchedulerFrame, AttackersFrame, RequestsFrame, ResultsFrame, CollectorFrame
<1>1. CASE StreamerTake
  <2>1. StreamTyped'
    <3>1. Head(OutResults) \in Batches /\ Tail(OutResults) \in Seq(Batches)
          /\ Len(Tail(OutResults)) = Len(OutResults) - 1 /\ Len(OutResults) \in Nat
      BY <1>1, QueueTail DEF StreamerTake, StreamTyped
    <3>2. taken' \in Seq(Batches) /\ Len(taken') = Len(taken) + 1 /\ Len(taken) \in Nat
      BY <1>1, <3>1, QueueAppend DEF StreamerTake, StreamTyped
    <3>3. taken' # <<>>
      BY <3>2
    <3> QED BY <1>1, <3>1, <3>2, <3>3, ReportAssumption DEF StreamerTake, StreamTyped
  <2> QED BY <1>1, <2>1, RunFrame DEF StreamerTake
<1>2. CASE StreamerSend
  <2>1. StreamTyped'
    <3>1. PICK fate \in Fates :
            /\ sent' = IF fate = "lost" THEN sent
                       ELSE Append(sent, [batch |-> taken[Len(taken)], coded |-> fate])
            /\ broken' = (fate = "lost")
      BY <1>2, ReportAssumption DEF StreamerSend, Fates
    <3>2. taken[Len(taken)] \in Batches
      BY <1>2, EmptySeq, LenProperties DEF StreamerSend, StreamTyped
    <3>3. [batch |-> taken[Len(taken)], coded |-> fate] \in Chunks
      BY <3>2 DEF Chunks
    <3>4. sent' \in Seq(Chunks)
      BY <3>1, <3>3, QueueAppend DEF StreamTyped
    <3> QED BY <1>2, <3>1, <3>4 DEF StreamerSend, StreamTyped
  <2> QED BY <1>2, <2>1, RunFrame DEF StreamerSend
<1>3. CASE StreamerCheck \/ StreamerStop
  <2>1. StreamTyped' /\ RunTyped'
    BY <1>3 DEF StreamerCheck, StreamerStop, StreamTyped, RunTyped, ctxVars, mainVars
  <2> QED BY <1>3, <2>1 DEF StreamerCheck, StreamerStop
<1> QED
  BY <1>1, <1>2, <1>3 DEF Streamer

LEMMA RunStepTyped ==
  ASSUME TypeOK, Main \/ Timeout \/ SignalReceive \/ SignalHandler
  PROVE  TypeOK'
<1> USE DEF TypeOK, Main, SignalHandler, schedVars, strVars
<1> USE SchedulerFrame, AttackersFrame, RequestsFrame, ResultsFrame, CollectorFrame, StreamFrame
<1>1. flushed' \in Nat
  <2>1. Len(reports) \in Nat
    BY DEF CollectorTyped
  <2>2. flushed' \in {flushed, Len(reports)}
    BY DEF MainDone, MainReturn, Timeout, SignalReceive, SignalExit, SignalStop, mainVars
  <2> QED BY <2>1, <2>2 DEF RunTyped
<1>2. RunTyped'
  BY <1>1 DEF MainDone, MainReturn, Timeout, SignalReceive, SignalExit, SignalStop,
              RunTyped, ctxVars, mainVars
<1> QED
  BY <1>2 DEF MainDone, MainReturn, Timeout, SignalReceive, SignalExit, SignalStop

LEMMA IdleTyped ==
  ASSUME TypeOK,
         SchedulerExit \/ SchedulerTake \/ SchedulerRetry \/ UNCHANGED vars
  PROVE  TypeOK'
<1>1. SchedulerTyped'
  BY DEF TypeOK, SchedulerTyped, SchedulerExit, SchedulerTake, SchedulerRetry, vars, schedVars
<1>2. UNCHANGED <<ctxVars, fired, atkVars, callVars, results, colVars, OutResults,
                  strVars, sig, mainVars>>
  BY DEF SchedulerExit, SchedulerTake, SchedulerRetry, vars, schedVars
<1> QED
  BY <1>1, <1>2, AttackersFrame, RequestsFrame, ResultsFrame, CollectorFrame,
     StreamFrame, RunFrame
  DEF TypeOK

LEMMA StepTyped == TypeOK /\ [Next]_vars => TypeOK'
BY IdleTyped, FireTyped, AttackerTyped, RequestTyped, CollectorStepTyped, StreamerTyped,
   RunStepTyped
DEF Next, Scheduler, Terminated

\* Every reachable state has the shape TypeOK describes.
THEOREM TypeCorrect == Spec => []TypeOK
BY InitTyped, StepTyped, PTL DEF Spec

-----------------------------------------------------------------------------
(* The requests of a tick *)

LEMMA FiredInFinite ==
  ASSUME SchedulerTyped, NEW t
  PROVE  /\ FiredIn(t) \subseteq 1 .. Len(fired)
         /\ IsFiniteSet(FiredIn(t))
         /\ Cardinality(FiredIn(t)) \in Nat
<1>1. Len(fired) \in Nat
  BY DEF SchedulerTyped
<1>2. IsFiniteSet(1 .. Len(fired))
  BY <1>1, FS_Interval
<1>3. FiredIn(t) \subseteq 1 .. Len(fired)
  BY DEF FiredIn
<1> QED BY <1>2, <1>3, FS_Subset, FS_CardinalityType

\* A token joins the current tick, and no other.
LEMMA FireExtends ==
  ASSUME SchedulerTyped, NEW a \in Attackers, SchedulerFire(a)
  PROVE  LET id == Len(fired) + 1 IN
         /\ id \in Nat \ {0}
         /\ Len(fired') = id
         /\ fired'[id] = [TargetRPS |-> targetRPS, Step |-> step, Tick |-> tick]
         /\ \A i \in 1 .. Len(fired) : fired'[i] = fired[i]
         /\ \A t : t # tick => FiredIn(t)' = FiredIn(t)
         /\ \A t : t = tick => /\ (FiredIn(t))' = FiredIn(t) \cup {id}
                               /\ Cardinality((FiredIn(t))') = Cardinality(FiredIn(t)) + 1
<1> DEFINE token == [TargetRPS |-> targetRPS, Step |-> step, Tick |-> tick]
           id == Len(fired) + 1
<1>1. fired' = Append(fired, token) /\ Len(fired) < MaxRequests
  BY DEF SchedulerFire
<1>2. token \in Token
  BY <1>1, ScheduleAssumption DEF SchedulerTyped, Token, Ticks
<1>3. /\ id \in Nat \ {0}
      /\ Len(fired') = id
      /\ fired'[id] = token
      /\ \A i \in 1 .. Len(fired) : fired'[i] = fired[i]
  <2> HIDE DEF token
  <2> QED BY <1>1, <1>2, QueueAppend DEF SchedulerTyped
<1>4. \A i \in 1 .. Len(fired') : i = id \/ i \in 1 .. Len(fired)
  BY <1>3
<1>5. token.Tick = tick
  OBVIOUS
<1>6. \A t : t # tick => FiredIn(t)' = FiredIn(t)
  <2> HIDE DEF token
  <2> QED BY <1>3, <1>4, <1>5 DEF FiredIn
<1>7. \A t : t = tick => (FiredIn(t))' = FiredIn(t) \cup {id}
  <2> HIDE DEF token
  <2> QED BY <1>3, <1>4, <1>5 DEF FiredIn
<1>8. \A t : id \notin FiredIn(t)
  BY <1>3 DEF FiredIn
<1>9. \A t : t = tick => Cardinality((FiredIn(t))') = Cardinality(FiredIn(t)) + 1
  BY <1>7, <1>8, FiredInFinite, FS_AddElement
<1> QED BY <1>3, <1>6, <1>7, <1>9

-----------------------------------------------------------------------------
(* The initial state *)

LEMMA InitIInv == Init => IInv
<1> SUFFICES ASSUME Init PROVE IInv
  OBVIOUS
<1>1. TypeOK
  BY InitTyped
<1>2. Len(fired) = 0 /\ Len(results) = 0 /\ Len(reports) = 0
  BY DEF Init
<1>3. \A t : FiredIn(t) = {}
  BY <1>2 DEF FiredIn
<1>4. TicksFilled
  <2>1. firedInTick < targetRPS
    BY <1>1 DEF Init, TypeOK, SchedulerTyped
  <2>2. Cardinality(FiredIn(tick)) = firedInTick
    BY <1>3, FS_EmptySet DEF Init
  <2> QED BY <1>2, <2>1, <2>2 DEF TicksFilled
<1>5. InFlightOnce
  BY <1>2 DEF Init, InFlightOnce
<1>6. SamplesOfTick
  BY FS_EmptySet DEF Init, SamplesOfTick, NoSamples
<1>7. CompleteTick /\ FlushCoversReports
  BY DEF Init, CompleteTick, FlushCoversReports
<1>8. ReportedTicksClosed /\ ReportedOnce
  BY <1>2 DEF ReportedTicksClosed, ReportedOnce
<1> QED BY <1>1, <1>4, <1>5, <1>6, <1>7, <1>8 DEF IInv

-----------------------------------------------------------------------------
(* The scheduler fires a request *)

LEMMA FireFills ==
  ASSUME IInv, NEW a \in Attackers, SchedulerFire(a)
  PROVE  TicksFilled'
<1> DEFINE id == Len(fired) + 1
<1> USE DEF IInv, TypeOK
<1>1. /\ id \in Nat \ {0}
      /\ Len(fired') = id
      /\ fired'[id] = [TargetRPS |-> targetRPS, Step |-> step, Tick |-> tick]
      /\ \A i \in 1 .. Len(fired) : fired'[i] = fired[i]
      /\ \A t : t # tick => FiredIn(t)' = FiredIn(t)
      /\ \A t : t = tick => Cardinality((FiredIn(t))') = Cardinality(FiredIn(t)) + 1
  BY FireExtends
<1>2. /\ tick \in Nat \ {0} /\ firedInTick \in Nat /\ targetRPS \in Nat \ {0}
      /\ \A i \in 1 .. Len(fired) :
           fired[i].Tick \in Nat \ {0} /\ fired[i].TargetRPS \in Nat \ {0}
  BY FiredTyped, ScheduleAssumption DEF SchedulerTyped, Ticks
<1>3. \A t : t = tick => Cardinality((FiredIn(t))') = firedInTick + 1
  BY <1>1 DEF TicksFilled
<1>4. \A i \in 1 .. Len(fired) : fired[i].Tick < tick =>
        Cardinality((FiredIn(fired[i].Tick))) = fired[i].TargetRPS
  BY DEF TicksFilled
<1>5. \A i \in 1 .. Len(fired') : i = id \/ (i \in 1 .. Len(fired) /\ fired'[i] = fired[i])
  BY <1>1
<1>6. fired'[id].Tick = tick /\ fired'[id].TargetRPS = targetRPS
  BY <1>1
<1>7. \A i \in 1 .. Len(fired') :
        /\ fired'[i].Tick \in Nat \ {0}
        /\ fired'[i].Tick <= tick
        /\ fired'[i].Tick = tick => fired'[i].TargetRPS = targetRPS
        /\ fired'[i].Tick < tick =>
             \A t : t = fired'[i].Tick => Cardinality((FiredIn(t))') = fired'[i].TargetRPS
  <2> SUFFICES ASSUME NEW i \in 1 .. Len(fired')
               PROVE  /\ fired'[i].Tick \in Nat \ {0}
                      /\ fired'[i].Tick <= tick
                      /\ fired'[i].Tick = tick => fired'[i].TargetRPS = targetRPS
                      /\ fired'[i].Tick < tick =>
                           \A t : t = fired'[i].Tick =>
                             Cardinality((FiredIn(t))') = fired'[i].TargetRPS
    OBVIOUS
  <2>1. CASE i = id
    BY <1>2, <1>6, <2>1
  <2>2. CASE i \in 1 .. Len(fired) /\ fired'[i] = fired[i]
    BY <1>1, <1>2, <1>4, <2>2 DEF TicksFilled
  <2> QED BY <1>5, <2>1, <2>2
<1>8. CASE firedInTick + 1 = targetRPS
  <2>1. tick' = tick + 1 /\ firedInTick' = 0
    BY <1>8 DEF SchedulerFire, CountRequest
  <2>2. targetRPS' \in Nat \ {0}
    BY FireTyped DEF SchedulerTyped
  <2>3. \A t : t = tick + 1 => (FiredIn(t))' = {}
    BY <1>2, <1>7 DEF FiredIn
  <2>4. \A t : t = tick + 1 => Cardinality((FiredIn(t))') = 0
    BY <2>3, FS_EmptySet
  <2>5. Cardinality(FiredIn(tick))' = firedInTick'
    BY <2>1, <2>4 DEF FiredIn
  <2>6. ASSUME NEW i \in 1 .. Len(fired')
        PROVE  /\ fired'[i].Tick < tick'
               /\ \A t : t = fired'[i].Tick => Cardinality((FiredIn(t))') = fired'[i].TargetRPS
    BY <1>2, <1>3, <1>7, <1>8, <2>1
  <2>7. ASSUME NEW i \in 1 .. Len(fired')
        PROVE  /\ fired'[i].Tick <= tick'
               /\ fired'[i].Tick = tick' => fired'[i].TargetRPS = targetRPS'
               /\ fired'[i].Tick < tick' =>
                    Cardinality(FiredIn(fired[i].Tick))' = fired'[i].TargetRPS
    <3> HIDE DEF IInv, TypeOK
    <3>1. fired'[i].Tick < tick'
      BY <2>6
    <3>2. fired'[i].Tick \in Nat /\ tick' \in Nat
      BY <1>2, <1>7, <2>1
    <3>3. Cardinality(FiredIn(fired[i].Tick))' = fired'[i].TargetRPS
      BY <2>6 DEF FiredIn
    <3> QED BY <3>1, <3>2, <3>3
  <2> QED BY <2>1, <2>2, <2>5, <2>7 DEF TicksFilled
<1>9. CASE firedInTick + 1 # targetRPS
  <2>1. tick' = tick /\ firedInTick' = firedInTick + 1 /\ targetRPS' = targetRPS
    BY <1>9 DEF SchedulerFire, CountRequest
  <2>2. firedInTick' < targetRPS'
    BY <1>2, <1>9, <2>1 DEF TicksFilled
  <2>3. Cardinality(FiredIn(tick))' = firedInTick'
    BY <1>3, <2>1 DEF FiredIn
  <2>4. ASSUME NEW i \in 1 .. Len(fired')
        PROVE  /\ fired'[i].Tick <= tick'
               /\ fired'[i].Tick = tick' => fired'[i].TargetRPS = targetRPS'
               /\ fired'[i].Tick < tick' =>
                    Cardinality(FiredIn(fired[i].Tick))' = fired'[i].TargetRPS
    <3> HIDE DEF IInv, TypeOK
    <3>1. fired'[i].Tick < tick =>
            Cardinality(FiredIn(fired[i].Tick))' = fired'[i].TargetRPS
      BY <1>7 DEF FiredIn
    <3> QED BY <1>7, <2>1, <3>1
  <2> QED BY <2>2, <2>3, <2>4 DEF TicksFilled
<1> QED BY <1>8, <1>9

LEMMA FireIInv ==
  ASSUME IInv, NEW a \in Attackers, SchedulerFire(a)
  PROVE  IInv'
<1> DEFINE id == Len(fired) + 1
<1> USE DEF IInv, TypeOK
<1>1. /\ id \in Nat \ {0}
      /\ Len(fired') = id
      /\ \A i \in 1 .. Len(fired) : fired'[i] = fired[i]
      /\ \A t : t # tick => FiredIn(t)' = FiredIn(t)
      /\ \A t : t = tick => (FiredIn(t))' = FiredIn(t) \cup {id}
  BY FireExtends
<1>2. /\ holds' = [holds EXCEPT ![a] = id]
      /\ UNCHANGED <<results, col, cur, samples, reports, main, flushed>>
      /\ tick' \in {tick, tick + 1}
      /\ tick \in Nat
  BY DEF SchedulerFire, CountRequest, colVars, mainVars, SchedulerTyped
<1>3. /\ \A b \in Attackers : holds[b] # id
      /\ \A i \in 1 .. Len(results) : results[i].id # id
  <2>1. \A i \in 1 .. Len(results) : results[i] \in Result
    BY DEF ResultsTyped
  <2> QED BY <1>1, <2>1 DEF AttackersTyped, Result
<1>4. InFlightOnce'
  BY <1>1, <1>2, <1>3 DEF InFlightOnce, AttackersTyped
<1>5. \A i : i # id /\ OutOfFlight(i) => OutOfFlight(i)'
  BY <1>2 DEF OutOfFlight, AttackersTyped
<1>6. \A t : FiredIn(t) \subseteq 1 .. Len(fired) /\ id \notin FiredIn(t)
  BY <1>1 DEF FiredIn
<1>7. SamplesOfTick'
  <2> SUFFICES ASSUME NEW t \in Ticks
               PROVE  /\ samples[t].ids \subseteq (FiredIn(t))'
                      /\ samples[t].n = Cardinality(samples[t].ids)
                      /\ \A i \in samples[t].ids : OutOfFlight(i)'
    BY <1>2 DEF SamplesOfTick
  <2> QED BY <1>1, <1>5, <1>6 DEF SamplesOfTick
<1>8. CompleteTick'
  <2> SUFFICES ASSUME col \in {"stream", "judge"}
               PROVE  /\ cur < tick'
                      /\ samples[cur].ids = (FiredIn(cur))'
                      /\ samples[cur].ids # {}
                      /\ \A i \in samples[cur].ids : fired'[i].TargetRPS = samples[cur].n
    BY <1>2 DEF CompleteTick, FiredIn
  <2>1. cur < tick /\ cur \in Nat
    BY ScheduleAssumption DEF CompleteTick, CollectorTyped
  <2>2. (FiredIn(cur))' = FiredIn(cur)
    BY <1>1, <1>2, <2>1 DEF FiredIn
  <2> QED BY <1>1, <1>2, <1>6, <2>1, <2>2 DEF CompleteTick
<1>9. ReportedTicksClosed' /\ ReportedOnce'
  <2>1. ASSUME NEW k \in 1 .. Len(reports)
        PROVE  LET b == reports[k] IN
                 /\ b.tick \in Ticks
                 /\ b.tick < tick'
                 /\ b.ids = (FiredIn(b.tick))'
                 /\ b.n = Cardinality(b.ids)
                 /\ \A i \in b.ids : fired'[i].TargetRPS = b.n /\ OutOfFlight(i)'
                 /\ samples[b.tick].ids = {}
    <3> DEFINE b == reports[k]
    <3>1. /\ b.tick \in Ticks
          /\ b.tick < tick
          /\ b.ids = FiredIn(b.tick)
          /\ b.n = Cardinality(b.ids)
          /\ \A i \in b.ids : fired[i].TargetRPS = b.n /\ OutOfFlight(i)
          /\ samples[b.tick].ids = {}
      BY DEF ReportedTicksClosed
    <3> HIDE DEF b
    <3>2. b.tick \in Nat
      BY <3>1, ScheduleAssumption DEF Ticks
    <3>3. (FiredIn(b.tick))' = FiredIn(b.tick)
      BY <1>1, <1>2, <3>1, <3>2 DEF FiredIn, b
    <3>4. \A i \in b.ids : fired'[i].TargetRPS = b.n /\ OutOfFlight(i)'
      BY <1>1, <1>5, <1>6, <3>1
    <3>5. b.tick < tick'
      BY <1>2, <3>1, <3>2
    <3> QED BY <1>2, <3>1, <3>3, <3>4, <3>5 DEF b
  <2>2. ReportedTicksClosed'
    BY <1>2, <2>1 DEF ReportedTicksClosed
  <2>3. ReportedOnce'
    BY <1>2 DEF ReportedOnce
  <2> QED BY <2>2, <2>3
<1>10. FlushCoversReports'
  BY <1>2 DEF FlushCoversReports
<1> QED BY <1>4, <1>7, <1>8, <1>9, <1>10, FireFills, FireTyped

-----------------------------------------------------------------------------
(* Steps that leave ticks, samples and reports alone *)

LEMMA QueuedResult ==
  ASSUME ResultsTyped, NEW i \in 1 .. Len(results)
  PROVE  results[i] \in Result /\ results[i].id \in 1 .. Len(fired) /\ results[i].id # 0
<1>1. results[i] \in Result
  <2> HIDE DEF Result
  <2> QED BY DEF ResultsTyped
<1> QED BY <1>1 DEF Result

LEMMA ReportedIds ==
  ASSUME CollectorTyped, NEW k \in 1 .. Len(reports)
  PROVE  reports[k].ids \subseteq Ids
<1>1. reports[k] \in Batches
  <2> HIDE DEF Batches
  <2> QED BY DEF CollectorTyped
<1> QED BY <1>1 DEF Batches

LEMMA FlightFrame ==
  ASSUME IInv, TypeOK', InFlightOnce', FlushCoversReports',
         \A id \in Ids : OutOfFlight(id) => OutOfFlight(id)',
         UNCHANGED <<fired, tick, firedInTick, targetRPS, samples, reports, cur>>,
         col' \in {"stream", "judge"} => col \in {"stream", "judge"}
  PROVE  IInv'
<1> USE DEF IInv
<1>1. \A t : (FiredIn(t))' = FiredIn(t)
  BY DEF FiredIn
<1>2. TicksFilled'
  BY DEF TicksFilled, FiredIn
<1>3. SamplesOfTick'
  <2>1. \A t \in Ticks : samples[t].ids \subseteq Ids
    BY DEF TypeOK, CollectorTyped, TickSamples
  <2> QED BY <1>1, <2>1 DEF SamplesOfTick
<1>4. CompleteTick'
  BY DEF CompleteTick, FiredIn
<1>5. ReportedTicksClosed'
  <2> SUFFICES ASSUME NEW k \in 1 .. Len(reports)
               PROVE  LET b == reports[k] IN
                        /\ b.tick \in Ticks
                        /\ b.tick < tick
                        /\ b.ids = (FiredIn(b.tick))'
                        /\ b.n = Cardinality(b.ids)
                        /\ \A id \in b.ids : fired[id].TargetRPS = b.n /\ OutOfFlight(id)'
                        /\ samples[b.tick].ids = {}
    BY DEF ReportedTicksClosed
  <2>1. reports[k].ids \subseteq Ids
    BY ReportedIds DEF TypeOK
  <2> QED BY <2>1 DEF ReportedTicksClosed, FiredIn
<1>6. ReportedOnce'
  BY DEF ReportedOnce
<1> QED BY <1>2, <1>3, <1>4, <1>5, <1>6

\* Nothing in flight moves at all.
LEMMA QuietFrame ==
  ASSUME IInv, TypeOK', FlushCoversReports',
         UNCHANGED <<fired, tick, firedInTick, targetRPS, samples, reports, cur,
                     holds, results>>,
         col' \in {"stream", "judge"} => col \in {"stream", "judge"}
  PROVE  IInv'
<1>1. InFlightOnce'
  BY DEF IInv, InFlightOnce
<1>2. \A id \in Ids : OutOfFlight(id) => OutOfFlight(id)'
  BY DEF OutOfFlight
<1> QED BY <1>1, <1>2, FlightFrame

LEMMA AttackerIInv ==
  ASSUME IInv, NEW a \in Attackers, Attacker(a)
  PROVE  IInv'
<1>1. TypeOK'
  BY AttackerTyped DEF IInv
<1>2. /\ UNCHANGED <<fired, tick, firedInTick, targetRPS, samples, reports, cur, col>>
      /\ FlushCoversReports'
  BY DEF IInv, FlushCoversReports, Attacker, AttackerStop, AttackAbandon, AttackTimeout,
         AttackAnswer, AttackDeliver, schedVars, colVars, mainVars
<1>3. CASE UNCHANGED <<holds, results>>
  BY <1>1, <1>2, <1>3, QuietFrame
<1>4. CASE AttackAbandon(a)
  <2>1. holds' = [holds EXCEPT ![a] = 0] /\ results' = results
    BY <1>4 DEF AttackAbandon
  <2>2. InFlightOnce'
    <3>1. \A b \in Attackers : holds'[b] # 0 => holds'[b] = holds[b]
      BY <2>1 DEF IInv, TypeOK, AttackersTyped
    <3>2. \A i \in 1 .. Len(results) : results[i].id # 0
      BY QueuedResult DEF IInv, TypeOK
    <3> QED BY <2>1, <3>1, <3>2 DEF IInv, InFlightOnce
  <2>3. \A id \in Ids : OutOfFlight(id) => OutOfFlight(id)'
    BY <2>1 DEF OutOfFlight, IInv, TypeOK, AttackersTyped, Ids
  <2> QED BY <1>1, <1>2, <2>2, <2>3, FlightFrame
<1>5. CASE AttackDeliver(a)
  <2> DEFINE res == [id |-> holds[a], out |-> outcome[a]]
             n == Len(results)
  <2>1. /\ results' = Append(results, res)
        /\ holds' = [holds EXCEPT ![a] = 0]
        /\ atk[a] = "deliver"
    BY <1>5 DEF AttackDeliver
  <2>2. res \in Result /\ holds[a] # 0
    BY <2>1 DEF IInv, TypeOK, AttackersTyped, Result
  <2>3. /\ n \in Nat
        /\ Len(results') = n + 1
        /\ \A i \in 1 .. n : results'[i] = results[i]
        /\ results'[n + 1] = res
    <3> HIDE DEF res
    <3> QED BY <2>1, <2>2, QueueAppend DEF IInv, TypeOK, ResultsTyped
  <2>4. results'[n + 1].id = holds[a]
    BY <2>3
  <2>5. \A i \in 1 .. Len(results') : i = n + 1 \/ i \in 1 .. n
    BY <2>3
  <2>6. \A b \in Attackers : holds'[b] # 0 => b # a /\ holds'[b] = holds[b]
    BY <2>1 DEF IInv, TypeOK, AttackersTyped
  <2>7. \A i \in 1 .. Len(results') : results'[i].id # 0
    BY <2>2, <2>3, <2>4, <2>5, QueuedResult DEF IInv, TypeOK
  <2> HIDE DEF res, n
  <2>8. InFlightOnce'
    <3>1. \A b, c \in Attackers : holds'[b] # 0 /\ holds'[b] = holds'[c] => b = c
      BY <2>6 DEF IInv, InFlightOnce
    <3>2. \A i, j \in 1 .. Len(results') : results'[i].id = results'[j].id => i = j
      BY <2>3, <2>4, <2>5 DEF IInv, InFlightOnce, n
    <3>3. \A b \in Attackers : \A i \in 1 .. Len(results') : holds'[b] # results'[i].id
      <4> SUFFICES ASSUME NEW b \in Attackers, NEW i \in 1 .. Len(results'), holds'[b] # 0
                   PROVE  holds'[b] # results'[i].id
        BY <2>7
      <4>1. b # a /\ holds'[b] = holds[b]
        BY <2>6
      <4>2. CASE i = n + 1
        BY <2>4, <4>1, <4>2 DEF IInv, InFlightOnce
      <4>3. CASE i \in 1 .. n
        BY <2>3, <4>1, <4>3 DEF IInv, InFlightOnce, n
      <4> QED BY <2>5, <4>2, <4>3
    <3> QED BY <3>1, <3>2, <3>3 DEF InFlightOnce
  <2>9. \A id \in Ids : OutOfFlight(id) => OutOfFlight(id)'
    <3>1. \A b \in Attackers : holds'[b] = 0 \/ holds'[b] = holds[b]
      BY <2>1 DEF IInv, TypeOK, AttackersTyped
    <3> QED BY <2>3, <2>4, <2>5, <3>1 DEF OutOfFlight, Ids, n
  <2> QED BY <1>1, <1>2, <2>8, <2>9, FlightFrame
<1> QED
  BY <1>3, <1>4, <1>5 DEF Attacker, AttackerStop, AttackTimeout, AttackAnswer

-----------------------------------------------------------------------------
(* The collector *)

LEMMA SampleAdded ==
  ASSUME NEW s, NEW res
  PROVE  AddSample(s, res).n = s.n + 1 /\ AddSample(s, res).ids = s.ids \cup {res.id}
BY DEF AddSample

\* What taking a result does to the request, its tick and everything in flight.
LEMMA ReceiveFacts ==
  ASSUME IInv, CollectorReceive
  PROVE  LET id == Head(results).id
             t  == fired[id].Tick
         IN /\ id \in 1 .. Len(fired) /\ id \in FiredIn(t) /\ id \in Ids
            /\ t \in Ticks
            /\ InFlightOnce'
            /\ \A i : i = id => OutOfFlight(i)'
            /\ \A i \in Ids : OutOfFlight(i) => i # id /\ OutOfFlight(i)'
            /\ samples' = [samples EXCEPT ![t] = AddSample(samples[t], Head(results))]
            /\ samples'[t].n = samples[t].n + 1
            /\ samples'[t].ids = samples[t].ids \cup {id}
            /\ \A u \in Ticks \ {t} : samples'[u] = samples[u]
<1> DEFINE id == Head(results).id
           t  == fired[id].Tick
           n  == Len(results)
<1> USE DEF IInv, TypeOK
<1>1. /\ results' = Tail(results) /\ results # <<>>
      /\ holds' = holds
      /\ samples' = [samples EXCEPT ![t] = AddSample(samples[t], Head(results))]
  BY DEF CollectorReceive, atkVars
<1>2. /\ n \in Nat \ {0}
      /\ Head(results) = results[1]
      /\ Len(results') = n - 1
      /\ \A i \in 1 .. n - 1 : results'[i] = results[i + 1]
  BY <1>1, QueueTail DEF ResultsTyped
<1>3. id \in 1 .. Len(fired) /\ id = results[1].id
  BY <1>2, QueuedResult
<1>4. t \in Ticks /\ id \in FiredIn(t) /\ id \in Ids
  BY <1>3, FiredTyped, ScheduleAssumption DEF FiredIn, SchedulerTyped, Ids
<1>5. InFlightOnce'
  <2>1. \A i, j \in 1 .. Len(results') : results'[i].id = results'[j].id => i = j
    <3> SUFFICES ASSUME NEW i \in 1 .. n - 1, NEW j \in 1 .. n - 1,
                        results[i + 1].id = results[j + 1].id
                 PROVE  i = j
      BY <1>2
    <3>1. i + 1 \in 1 .. n /\ j + 1 \in 1 .. n
      BY <1>2
    <3>2. i + 1 = j + 1
      BY <3>1 DEF InFlightOnce
    <3> QED BY <3>2
  <2>2. \A b \in Attackers : \A i \in 1 .. Len(results') : holds'[b] # results'[i].id
    BY <1>1, <1>2 DEF InFlightOnce
  <2> QED BY <1>1, <2>1, <2>2 DEF InFlightOnce
<1>6. \A i : i = id => OutOfFlight(i)'
  <2>1. \A b \in Attackers : holds'[b] # id
    BY <1>1, <1>2, <1>3 DEF InFlightOnce
  <2>2. ASSUME NEW i \in 1 .. n - 1 PROVE results[i + 1].id # id
    <3>1. i + 1 \in 1 .. n /\ i + 1 # 1 /\ 1 \in 1 .. n
      BY <1>2
    <3> QED BY <1>3, <3>1 DEF InFlightOnce
  <2>3. \A i \in 1 .. Len(results') : results'[i].id # id
    BY <1>2, <2>2
  <2> QED BY <1>1, <2>1, <2>3 DEF OutOfFlight
<1>7. \A i \in Ids : OutOfFlight(i) => i # id /\ OutOfFlight(i)'
  BY <1>1, <1>2, <1>3 DEF OutOfFlight
<1>8. samples[t] \in TickSamples
  BY <1>4 DEF CollectorTyped
<1>9. /\ samples'[t] = AddSample(samples[t], Head(results))
      /\ \A u \in Ticks \ {t} : samples'[u] = samples[u]
  BY <1>1, <1>4 DEF CollectorTyped
<1>10. samples'[t].n = samples[t].n + 1 /\ samples'[t].ids = samples[t].ids \cup {id}
  <2> DEFINE s == samples[t]
             res == Head(results)
  <2>1. samples'[t] = AddSample(s, res) /\ id = res.id
    BY <1>9
  <2> HIDE DEF s, res, id, t
  <2>2. samples'[t].n = s.n + 1 /\ samples'[t].ids = s.ids \cup {id}
    BY <2>1, SampleAdded
  <2>3. samples'[t].n = samples[t].n + 1
    BY <2>2 DEF s
  <2>4. samples'[t].ids = samples[t].ids \cup {id}
    BY <2>2 DEF s
  <2> QED BY <2>3, <2>4
<1> QED BY <1>1, <1>3, <1>4, <1>5, <1>6, <1>7, <1>9, <1>10

\* A tick gets complete only when it is closed, and with all its requests.
LEMMA ReceiveCompletes ==
  ASSUME IInv, CollectorReceive,
         LET token == fired[Head(results).id]
         IN Complete(AddSample(samples[token.Tick], Head(results)), token)
  PROVE  LET t == fired[Head(results).id].Tick IN
         /\ t < tick
         /\ samples'[t].ids = FiredIn(t)
         /\ \A i \in FiredIn(t) : fired[i].TargetRPS = samples'[t].n
<1> DEFINE id == Head(results).id
           t  == fired[id].Tick
           new == samples[t].ids \cup {id}
<1> USE DEF IInv, TypeOK
<1>1. /\ id \in 1 .. Len(fired) /\ id \in FiredIn(t) /\ id \in Ids
      /\ t \in Ticks
      /\ \A i \in Ids : OutOfFlight(i) => i # id
      /\ samples'[t].n = samples[t].n + 1
      /\ samples'[t].ids = new
  BY ReceiveFacts
<1>2. samples[t].n + 1 = fired[id].TargetRPS
  BY DEF Complete, AddSample
<1>3. /\ samples[t].ids \subseteq FiredIn(t)
      /\ samples[t].n = Cardinality(samples[t].ids)
      /\ \A i \in samples[t].ids : OutOfFlight(i)
  BY <1>1 DEF SamplesOfTick
<1>4. samples[t].ids \subseteq Ids
  BY <1>1 DEF CollectorTyped, TickSamples
<1>5. id \notin samples[t].ids
  BY <1>1, <1>3, <1>4
<1>6. IsFiniteSet(FiredIn(t)) /\ Cardinality(FiredIn(t)) \in Nat
  BY FiredInFinite
<1>7. Cardinality(new) = fired[id].TargetRPS
  <2>1. IsFiniteSet(samples[t].ids)
    BY <1>3, <1>6, FS_Subset
  <2>2. Cardinality(new) = Cardinality(samples[t].ids) + 1
    BY <1>5, <2>1, FS_AddElement
  <2> HIDE DEF id, t, new
  <2> QED BY <1>2, <1>3, <2>2
<1>8. new \in SUBSET FiredIn(t)
  BY <1>1, <1>3
<1>9. Cardinality(new) <= Cardinality(FiredIn(t))
  BY <1>6, <1>8, FS_Subset
<1>10. fired[id].TargetRPS \in Nat /\ t \in Nat /\ tick \in Nat
       /\ firedInTick \in Nat /\ targetRPS \in Nat
  <2>1. fired[id].TargetRPS \in Nat
    BY <1>1, FiredTyped
  <2> HIDE DEF id, t
  <2> QED BY <1>1, <2>1, ScheduleAssumption DEF SchedulerTyped, Ticks
<1>11. t # tick
  <2> SUFFICES ASSUME t = tick PROVE FALSE
    OBVIOUS
  <2>1. fired[id].TargetRPS = targetRPS /\ Cardinality(FiredIn(t)) = firedInTick
        /\ firedInTick < targetRPS
    BY <1>1 DEF TicksFilled
  <2> QED BY <1>7, <1>9, <1>10, <2>1
<1>12. t < tick
  <2>1. t <= tick
    BY <1>1 DEF TicksFilled
  <2> HIDE DEF id, t
  <2> QED BY <1>10, <1>11, <2>1
<1>13. Cardinality(FiredIn(t)) = fired[id].TargetRPS
  BY <1>1, <1>12 DEF TicksFilled
<1>14. new = FiredIn(t)
  BY <1>6, <1>7, <1>8, <1>13, FS_Subset
<1>15. \A i \in FiredIn(t) : fired[i].TargetRPS = Cardinality(FiredIn(t))
  BY <1>12 DEF TicksFilled, FiredIn
<1> QED BY <1>1, <1>2, <1>12, <1>13, <1>14, <1>15

LEMMA ReceiveIInv ==
  ASSUME IInv, CollectorReceive
  PROVE  IInv'
<1> DEFINE id == Head(results).id
           t  == fired[id].Tick
<1> USE DEF IInv, TypeOK
<1>1. /\ id \in 1 .. Len(fired) /\ id \in FiredIn(t) /\ id \in Ids
      /\ t \in Ticks
      /\ InFlightOnce'
      /\ \A i : i = id => OutOfFlight(i)'
      /\ \A i \in Ids : OutOfFlight(i) => i # id /\ OutOfFlight(i)'
      /\ samples'[t].n = samples[t].n + 1
      /\ samples'[t].ids = samples[t].ids \cup {id}
      /\ \A u \in Ticks \ {t} : samples'[u] = samples[u]
  BY ReceiveFacts
<1>2. /\ UNCHANGED <<fired, tick, firedInTick, targetRPS, reports, main, flushed>>
      /\ col = "select"
      /\ col' # "exited"
  BY DEF CollectorReceive, schedVars, mainVars
<1> HIDE DEF t, id
<1>3. \A u : (FiredIn(u))' = FiredIn(u)
  BY <1>2 DEF FiredIn
<1>4. TypeOK'
  BY ReceiveTyped
<1>5. TicksFilled'
  BY <1>2 DEF TicksFilled, FiredIn
<1>6. SamplesOfTick'
  <2> SUFFICES ASSUME NEW u \in Ticks
               PROVE  /\ samples'[u].ids \subseteq FiredIn(u)
                      /\ samples'[u].n = Cardinality(samples'[u].ids)
                      /\ \A i \in samples'[u].ids : OutOfFlight(i)'
    BY <1>3 DEF SamplesOfTick
  <2>1. /\ samples[u].ids \subseteq FiredIn(u)
        /\ samples[u].n = Cardinality(samples[u].ids)
        /\ \A i \in samples[u].ids : OutOfFlight(i)
    BY DEF SamplesOfTick
  <2>2. samples[u].ids \subseteq Ids
    BY DEF CollectorTyped, TickSamples
  <2>3. CASE u # t
    BY <1>1, <2>1, <2>2, <2>3
  <2>4. CASE u = t
    <3>1. id \notin samples[u].ids
      BY <1>1, <2>1, <2>2
    <3>2. IsFiniteSet(samples[u].ids)
      BY <2>1, FiredInFinite, FS_Subset
    <3>3. Cardinality(samples[u].ids \cup {id}) = samples[u].n + 1
      BY <2>1, <3>1, <3>2, FS_AddElement
    <3> QED BY <1>1, <2>1, <2>2, <2>4, <3>3
  <2> QED BY <2>3, <2>4
<1>7. CompleteTick'
  <2> SUFFICES ASSUME col' \in {"stream", "judge"}
               PROVE  /\ cur' < tick
                      /\ samples'[cur'].ids = FiredIn(cur')
                      /\ samples'[cur'].ids # {}
                      /\ \A i \in samples'[cur'].ids : fired[i].TargetRPS = samples'[cur'].n
    BY <1>2 DEF CompleteTick, FiredIn
  <2>1. cur' = t
    BY <1>2 DEF CollectorReceive, t, id
  <2>2. LET token == fired[Head(results).id]
        IN Complete(AddSample(samples[token.Tick], Head(results)), token)
    BY <1>2 DEF CollectorReceive
  <2>3. /\ t < tick
        /\ samples'[t].ids = FiredIn(t)
        /\ \A i \in FiredIn(t) : fired[i].TargetRPS = samples'[t].n
    BY <2>2, ReceiveCompletes DEF t, id
  <2> QED BY <1>1, <2>1, <2>3
<1>8. ReportedTicksClosed'
  <2> SUFFICES ASSUME NEW k \in 1 .. Len(reports)
               PROVE  LET b == reports[k] IN
                        /\ b.tick \in Ticks
                        /\ b.tick < tick
                        /\ b.ids = FiredIn(b.tick)
                        /\ b.n = Cardinality(b.ids)
                        /\ \A i \in b.ids : fired[i].TargetRPS = b.n /\ OutOfFlight(i)'
                        /\ samples'[b.tick].ids = {}
    BY <1>2 DEF ReportedTicksClosed, FiredIn
  <2>1. reports[k].ids \subseteq Ids
    BY ReportedIds
  <2>2. reports[k].tick # t
    BY <1>1 DEF ReportedTicksClosed
  <2> QED BY <1>1, <2>1, <2>2 DEF ReportedTicksClosed
<1>9. ReportedOnce' /\ FlushCoversReports'
  BY <1>2 DEF ReportedOnce, FlushCoversReports
<1> QED BY <1>1, <1>4, <1>5, <1>6, <1>7, <1>8, <1>9

LEMMA JudgeIInv ==
  ASSUME IInv, CollectorJudge
  PROVE  IInv'
<1> DEFINE b == Batch(cur)
           n == Len(reports)
<1> USE DEF IInv, TypeOK
<1>1. /\ UNCHANGED <<fired, tick, firedInTick, targetRPS, holds, results, main, flushed>>
      /\ col = "judge" /\ col' = "select"
      /\ reports' = Append(reports, b)
      /\ samples' = [samples EXCEPT ![cur] = NoSamples]
  BY DEF CollectorJudge, schedVars, mainVars
<1>2. cur \in Ticks
  BY <1>1 DEF CollectorTyped, Ticks
<1>3. /\ cur < tick
      /\ samples[cur].ids = FiredIn(cur)
      /\ samples[cur].ids # {}
      /\ \A id \in samples[cur].ids : fired[id].TargetRPS = samples[cur].n /\ OutOfFlight(id)
      /\ samples[cur].n = Cardinality(samples[cur].ids)
  BY <1>1, <1>2 DEF CompleteTick, SamplesOfTick
<1>4. b.tick = cur /\ b.n = samples[cur].n /\ b.ids = samples[cur].ids
  BY DEF Batch
<1>5. /\ n \in Nat
      /\ Len(reports') = n + 1
      /\ \A k \in 1 .. n : reports'[k] = reports[k]
      /\ reports'[n + 1] = b
  <2>1. b \in Batches
    BY <1>2, BatchTyped
  <2> HIDE DEF b
  <2> QED BY <1>1, <2>1, QueueAppend DEF CollectorTyped
<1>6. /\ samples'[cur].ids = {} /\ samples'[cur].n = 0
      /\ \A t \in Ticks \ {cur} : samples'[t] = samples[t]
  BY <1>1, <1>2 DEF CollectorTyped, NoSamples
<1>7. \A k \in 1 .. n : reports[k].tick # cur
  BY <1>3 DEF ReportedTicksClosed
<1>8. /\ \A t : (FiredIn(t))' = FiredIn(t)
      /\ \A id : OutOfFlight(id) <=> OutOfFlight(id)'
  BY <1>1 DEF FiredIn, OutOfFlight
<1> HIDE DEF b, n
<1>9. TicksFilled' /\ InFlightOnce'
  BY <1>1 DEF TicksFilled, InFlightOnce, FiredIn
<1>10. SamplesOfTick'
  <2> SUFFICES ASSUME NEW t \in Ticks
               PROVE  /\ samples'[t].ids \subseteq FiredIn(t)
                      /\ samples'[t].n = Cardinality(samples'[t].ids)
                      /\ \A id \in samples'[t].ids : OutOfFlight(id)'
    BY <1>8 DEF SamplesOfTick
  <2>1. CASE t = cur
    BY <1>6, <2>1, FS_EmptySet
  <2>2. CASE t # cur
    BY <1>6, <1>8, <2>2 DEF SamplesOfTick
  <2> QED BY <2>1, <2>2
<1>11. CompleteTick'
  BY <1>1 DEF CompleteTick
<1>12. ReportedTicksClosed'
  <2> DEFINE Closed(r) == /\ r.tick \in Ticks
                          /\ r.tick < tick
                          /\ r.ids = FiredIn(r.tick)
                          /\ r.n = Cardinality(r.ids)
                          /\ \A id \in r.ids : fired[id].TargetRPS = r.n /\ OutOfFlight(id)
                          /\ samples'[r.tick].ids = {}
  <2>1. Closed(b)
    BY <1>2, <1>3, <1>4, <1>6
  <2>2. ASSUME NEW k \in 1 .. n PROVE Closed(reports[k])
    BY <1>6, <1>7 DEF ReportedTicksClosed, n
  <2>3. \A k \in 1 .. n + 1 : Closed(reports'[k])
    <3> HIDE DEF Closed
    <3> QED BY <1>5, <2>1, <2>2
  <2>4. /\ fired' = fired /\ tick' = tick
        /\ 1 .. Len(reports') = 1 .. n + 1
    BY <1>1, <1>5
  <2>5. \A k \in 1 .. n + 1 : (FiredIn(reports[k].tick))' = FiredIn(reports'[k].tick)
    BY <1>1 DEF FiredIn
  <2> QED BY <1>8, <2>3, <2>4, <2>5 DEF ReportedTicksClosed
<1>13. ReportedOnce'
  <2> SUFFICES ASSUME NEW k \in 1 .. n + 1, NEW l \in 1 .. n + 1,
                      reports'[k].tick = reports'[l].tick
               PROVE  k = l
    BY <1>5 DEF ReportedOnce
  <2>1. \A i \in 1 .. n : reports'[i].tick # reports'[n + 1].tick
    BY <1>4, <1>5, <1>7
  <2> QED BY <1>5, <2>1 DEF ReportedOnce, n
<1>14. FlushCoversReports'
  BY <1>1 DEF FlushCoversReports
<1>15. TypeOK'
  BY CollectorStepTyped DEF Collector
<1> QED BY <1>9, <1>10, <1>11, <1>12, <1>13, <1>14, <1>15

LEMMA CollectorIInv ==
  ASSUME IInv, Collector
  PROVE  IInv'
<1>1. CASE CollectorStop \/ CollectorStream
  <2>1. TypeOK'
    BY CollectorStepTyped DEF IInv
  <2>2. FlushCoversReports'
    BY <1>1 DEF IInv, FlushCoversReports, CollectorStop, CollectorStream, mainVars
  <2> QED
    BY <1>1, <2>1, <2>2, QuietFrame
    DEF CollectorStop, CollectorStream, schedVars, atkVars
<1> QED
  BY <1>1, ReceiveIInv, JudgeIInv DEF Collector

-----------------------------------------------------------------------------
(* The other goroutines *)

LEMMA OtherIInv ==
  ASSUME IInv,
         \/ SchedulerExit \/ SchedulerTake \/ SchedulerRetry
         \/ \E id \in Ids : Request(id)
         \/ Streamer \/ Main \/ Timeout \/ SignalReceive \/ SignalHandler
         \/ UNCHANGED vars
  PROVE  IInv'
<1> USE DEF Request, Streamer, Main, SignalHandler
<1>1. TypeOK'
  BY IdleTyped, RequestTyped, StreamerTyped, RunStepTyped DEF IInv
<1>2. FlushCoversReports'
  BY DEF IInv, FlushCoversReports, SchedulerExit, SchedulerTake, SchedulerRetry,
         DeadlineExpires, DoReturns, StreamerTake, StreamerSend, StreamerCheck,
         StreamerStop, MainDone, MainReturn, GroupDone, Timeout, SignalReceive, SignalExit,
         SignalStop, vars, colVars, mainVars
<1>3. UNCHANGED <<fired, tick, firedInTick, targetRPS, samples, reports, cur,
                  holds, results, col>>
  BY DEF SchedulerExit, SchedulerTake, SchedulerRetry,
         DeadlineExpires, DoReturns, StreamerTake, StreamerSend, StreamerCheck,
         StreamerStop, MainDone, MainReturn, Timeout, SignalReceive, SignalExit,
         SignalStop, vars, schedVars, atkVars, colVars
<1> QED
  BY <1>1, <1>2, <1>3, QuietFrame

-----------------------------------------------------------------------------
(* The theorems *)

LEMMA StepIInv == IInv /\ [Next]_vars => IInv'
BY FireIInv, AttackerIInv, CollectorIInv, OtherIInv
DEF Next, Scheduler, Terminated

LEMMA Inductive == Spec => []IInv
BY InitIInv, StepIInv, PTL DEF Spec

LEMMA IInvReports == IInv => ReportsComplete
<1> SUFFICES ASSUME IInv PROVE ReportsComplete
  OBVIOUS
<1>1. DOMAIN reports = 1 .. Len(reports)
  BY DEF IInv, TypeOK, CollectorTyped
<1> QED BY <1>1 DEF IInv, ReportedTicksClosed, ReportedOnce, ReportsComplete

\* Whatever the order of answers, timeouts, deliveries and cancellation, and
\* for any number of attackers and any plan: a reported tick (runner.go:337-387)
\* has the result of each request fired in it and no other, and is reported once.
THEOREM ReportsAreComplete == Spec => []ReportsComplete
BY Inductive, IInvReports, PTL

\* Run flushes the report files only after the collector wrote its last row
\* (runner.go:190-196).
THEOREM FlushIsLast == Spec => []FlushCoversReports
<1>1. IInv => FlushCoversReports
  BY DEF IInv
<1> QED BY <1>1, Inductive, PTL

-----------------------------------------------------------------------------
(* The refinement of TickReports *)

\* What TickReports sees: the sizes of the closed ticks and, of a report, its tick
\* and the number of its requests.
Told(b)  == [tick |-> b.tick, requests |-> b.n]
Sizes    == [t \in 1 .. tick - 1 |-> Cardinality(FiredIn(t))]
ToldReports == [i \in DOMAIN reports |-> Told(reports[i])]

LEMMA JudgeReports ==
  ASSUME IInv, CollectorJudge
  PROVE  /\ main # "returned" /\ main' = main
         /\ cur \in (1 .. tick - 1) \ ReportedTicks
         /\ ReportedTicks' = ReportedTicks \cup {cur}
         /\ Batch(cur) \in Batches /\ reports' = Append(reports, Batch(cur))
         /\ Batch(cur).tick = cur /\ Batch(cur).n = Cardinality(FiredIn(cur))
         /\ UNCHANGED <<tick, fired>>
<1> USE DEF IInv, TypeOK
<1>1. col = "judge" /\ reports' = Append(reports, Batch(cur))
      /\ UNCHANGED <<tick, fired, main>>
  BY DEF CollectorJudge, schedVars, mainVars
<1>2. cur \in Ticks /\ tick \in Nat
  BY <1>1 DEF CollectorTyped, SchedulerTyped, Ticks
<1>3. cur < tick /\ samples[cur].ids # {} /\ samples[cur].ids = FiredIn(cur)
  BY <1>1 DEF CompleteTick
<1>4. cur \in 1 .. tick - 1
  BY <1>2, <1>3, ScheduleAssumption DEF Ticks
<1>5. Batch(cur) \in Batches
  BY <1>2, BatchTyped
<1>6. /\ DOMAIN reports = 1 .. Len(reports) /\ Len(reports) \in Nat
      /\ DOMAIN reports' = 1 .. Len(reports) + 1
      /\ \A k \in 1 .. Len(reports) : reports'[k] = reports[k]
      /\ reports'[Len(reports) + 1] = Batch(cur)
  <2>1. reports' \in Seq(Batches) /\ Len(reports') = Len(reports) + 1
    BY <1>1, <1>5, QueueAppend DEF CollectorTyped
  <2> QED BY <1>1, <1>5, <2>1, QueueAppend DEF CollectorTyped
<1>7. cur \notin ReportedTicks
  BY <1>3, <1>6 DEF ReportedTicks, ReportedTicksClosed
<1>8. Batch(cur).tick = cur /\ Batch(cur).n = Cardinality(FiredIn(cur))
  BY <1>2, <1>3 DEF Batch, SamplesOfTick
<1>9. ReportedTicks' = ReportedTicks \cup {cur}
  BY <1>6, <1>8 DEF ReportedTicks
<1>10. main # "returned"
  BY <1>1 DEF FlushCoversReports
<1> QED BY <1>1, <1>4, <1>5, <1>7, <1>8, <1>9, <1>10

\* A sequence one longer than another that it continues.
LEMMA FunAppend ==
  ASSUME NEW S, NEW n \in Nat, NEW f \in [1 .. n -> S], NEW g \in [1 .. n + 1 -> S],
         \A i \in 1 .. n : g[i] = f[i]
  PROVE  f \in Seq(S) /\ g = Append(f, g[n + 1])
<1>1. f \in Seq(S) /\ g \in Seq(S)
  BY SeqDef
<1>2. Len(f) = n /\ Len(g) = n + 1
  BY <1>1, LenProperties
<1>3. g[n + 1] \in S
  OBVIOUS
<1>4. /\ Append(f, g[n + 1]) \in Seq(S)
      /\ Len(Append(f, g[n + 1])) = n + 1
      /\ \A i \in 1 .. n : Append(f, g[n + 1])[i] = f[i]
      /\ Append(f, g[n + 1])[n + 1] = g[n + 1]
  BY <1>1, <1>2, <1>3, QueueAppend
<1>5. \A i \in 1 .. n + 1 : i = n + 1 \/ i \in 1 .. n
  OBVIOUS
<1>6. \A i \in 1 .. n + 1 : g[i] = Append(f, g[n + 1])[i]
  BY <1>4, <1>5
<1> QED BY <1>1, <1>2, <1>4, <1>6, SeqEqual

\* The last request of a tick closes it.
LEMMA FireCloses ==
  ASSUME IInv, NEW a \in Attackers, SchedulerFire(a), tick' = tick + 1
  PROVE  \E n \in 1 .. MaxRequests : Sizes' = Append(Sizes, n)
<1> USE DEF IInv, TypeOK
<1> DEFINE size == Cardinality((FiredIn(tick))')
<1>1. /\ Len(fired') = Len(fired) + 1
      /\ \A t : t # tick => FiredIn(t)' = FiredIn(t)
      /\ \A t : t = tick => Cardinality((FiredIn(t))') = Cardinality(FiredIn(t)) + 1
  BY FireExtends
<1>2. tick \in Nat \ {0} /\ firedInTick \in Nat
  BY DEF SchedulerTyped
<1>3. \A t : t = tick => Cardinality((FiredIn(t))') = firedInTick + 1
  BY <1>1 DEF TicksFilled
<1>4. firedInTick + 1 <= MaxRequests
  <2>1. firedInTick = Cardinality(FiredIn(tick)) /\ Len(fired) < MaxRequests
        /\ Len(fired) \in Nat
    BY DEF TicksFilled, SchedulerFire, SchedulerTyped
  <2>2. FiredIn(tick) \in SUBSET (1 .. Len(fired))
    BY DEF FiredIn
  <2>3. IsFiniteSet(1 .. Len(fired)) /\ Cardinality(1 .. Len(fired)) = Len(fired)
    <3> DEFINE m == Len(fired)
    <3> HIDE DEF m, IInv, TypeOK
    <3>1. m \in Nat
      BY <2>1 DEF m
    <3>2. /\ IsFiniteSet(1 .. m)
          /\ Cardinality(1 .. m) = IF 1 > m THEN 0 ELSE m - 1 + 1
      BY <3>1, FS_Interval
    <3>3. (IF 1 > m THEN 0 ELSE m - 1 + 1) = m
      BY <3>1
    <3> QED BY <3>2, <3>3 DEF m
  <2>4. Cardinality(FiredIn(tick)) <= Len(fired)
    BY <2>2, <2>3, FS_Subset
  <2> QED BY <1>2, <2>1, <2>4, ScheduleAssumption
<1> DEFINE n == tick - 1
           f == Sizes
           g == Sizes'
<1>5. /\ n \in Nat /\ n + 1 = tick
      /\ f = [t \in 1 .. n |-> Cardinality(FiredIn(t))]
      /\ g = [t \in 1 .. n + 1 |-> Cardinality((FiredIn(t))')]
  BY <1>2 DEF Sizes
<1>6. \A t \in 1 .. n : t # tick /\ Cardinality((FiredIn(t))') = Cardinality(FiredIn(t))
  BY <1>1, <1>2
<1>7. \A t : Cardinality(FiredIn(t)) \in Nat
  BY FiredInFinite
<1>8. \A t \in 1 .. n + 1 : Cardinality((FiredIn(t))') \in Nat
  <2>1. \A t \in 1 .. n + 1 : t = tick \/ t \in 1 .. n
    BY <1>2
  <2> QED BY <1>2, <1>3, <1>6, <1>7, <2>1
<1> HIDE DEF n, f, g, IInv, TypeOK
<1>9. f \in [1 .. n -> Nat] /\ g \in [1 .. n + 1 -> Nat] /\ \A t \in 1 .. n : g[t] = f[t]
  BY <1>5, <1>6, <1>7, <1>8
<1>10. g = Append(f, g[n + 1])
  <2>1. n \in Nat
    BY <1>5
  <2> QED BY <1>9, <2>1, FunAppend
<1>11. g[n + 1] = firedInTick + 1
  BY <1>3, <1>5
<1>12. firedInTick + 1 \in 1 .. MaxRequests
  BY <1>2, <1>4, ScheduleAssumption
<1> QED BY <1>10, <1>11, <1>12 DEF f, g

\* A token that closes no tick leaves the closed ones alone.
LEMMA FireKeepsSizes ==
  ASSUME IInv, NEW a \in Attackers, SchedulerFire(a), tick' = tick
  PROVE  Sizes' = Sizes
<1>1. \A t : t # tick => FiredIn(t)' = FiredIn(t)
  BY FireExtends DEF IInv, TypeOK
<1>2. \A t \in 1 .. tick - 1 : t # tick
  BY DEF IInv, TypeOK, SchedulerTyped
<1> QED BY <1>1, <1>2 DEF Sizes

\* The judged tick joins the reports, with its size.
LEMMA JudgeReportsOnce ==
  ASSUME IInv, CollectorJudge
  PROVE  /\ cur \in DOMAIN Sizes
         /\ \A i \in DOMAIN ToldReports : ToldReports[i].tick # cur
         /\ ToldReports' = Append(ToldReports, [tick |-> cur, requests |-> Sizes[cur]])
<1> DEFINE n == Len(reports)
           S == [tick : Nat, requests : Nat]
<1>1. reports \in Seq(Batches) /\ n \in Nat /\ DOMAIN reports = 1 .. n
  BY DEF IInv, TypeOK, CollectorTyped
<1>2. /\ cur \in (1 .. tick - 1) \ ReportedTicks
      /\ Batch(cur) \in Batches /\ reports' = Append(reports, Batch(cur))
      /\ Batch(cur).tick = cur /\ Batch(cur).n = Cardinality(FiredIn(cur))
  BY JudgeReports
<1>3. /\ DOMAIN reports' = 1 .. n + 1
      /\ reports' \in Seq(Batches)
      /\ \A i \in 1 .. n : reports'[i] = reports[i]
      /\ reports'[n + 1] = Batch(cur)
  <2> DEFINE b == Batch(cur)
  <2> HIDE DEF b
  <2>1. Append(reports, b) \in Seq(Batches) /\ Len(Append(reports, b)) = n + 1
        /\ (\A i \in 1 .. n : Append(reports, b)[i] = reports[i])
        /\ Append(reports, b)[n + 1] = b
    BY <1>1, <1>2, QueueAppend DEF b
  <2> QED BY <1>2, <2>1, LenProperties DEF b
<1>4. \A b \in Batches : Told(b) \in S
  BY DEF Told, Batches
<1> DEFINE f == ToldReports
           g == ToldReports'
<1>5. f = [i \in 1 .. n |-> Told(reports[i])] /\ g = [i \in 1 .. n + 1 |-> Told(reports'[i])]
  BY <1>1, <1>3 DEF ToldReports, Told
<1>6. /\ \A i \in 1 .. n : reports[i] \in Batches
      /\ \A i \in 1 .. n + 1 : reports'[i] \in Batches
  <2> HIDE DEF n
  <2>1. \A i \in 1 .. n : reports[i] \in Batches
    BY <1>1, ElementOfSeq DEF n
  <2>2. \A i \in 1 .. n + 1 : i = n + 1 \/ i \in 1 .. n
    BY <1>1
  <2> QED BY <1>2, <1>3, <2>1, <2>2
<1> HIDE DEF S, f, g, n
<1>7. f \in [1 .. n -> S] /\ g \in [1 .. n + 1 -> S] /\ \A i \in 1 .. n : g[i] = f[i]
  <2>1. \A i \in 1 .. n : i \in 1 .. n + 1
    BY <1>1
  <2> QED BY <1>3, <1>4, <1>5, <1>6, <2>1
<1>8. g = Append(f, g[n + 1])
  BY <1>1, <1>7, FunAppend
<1>9. n + 1 \in 1 .. n + 1
  BY <1>1
<1>10. g[n + 1] = [tick |-> cur, requests |-> Sizes[cur]]
  BY <1>2, <1>3, <1>5, <1>9 DEF Told, Sizes
<1>11. \A i \in DOMAIN f : f[i].tick # cur
  BY <1>1, <1>2, <1>5 DEF ReportedTicks, Told
<1>12. cur \in DOMAIN Sizes
  BY <1>2 DEF Sizes
<1> QED BY <1>8, <1>10, <1>11, <1>12 DEF f, g

LEMMA StepKeepsPromise == IInv /\ [Next]_vars => [Promise!Next]_(Promise!vars)
<1> SUFFICES ASSUME IInv, [Next]_vars PROVE [Promise!Next]_(Promise!vars)
  OBVIOUS
<1>1. ASSUME UNCHANGED <<tick, fired, reports>>, (main' = "returned") = (main = "returned")
      PROVE [Promise!Next]_(Promise!vars)
  BY <1>1 DEF Promise!vars, FiredIn
<1>2. ASSUME NEW a \in Attackers, SchedulerFire(a) PROVE [Promise!Next]_(Promise!vars)
  <2>1. UNCHANGED <<reports, main>> /\ tick' \in {tick, tick + 1} /\ tick \in Nat
    BY <1>2 DEF SchedulerFire, CountRequest, colVars, mainVars, IInv, TypeOK, SchedulerTyped
  <2>2. CASE tick' = tick
    <3>1. Sizes' = Sizes
      BY <1>2, <2>2, FireKeepsSizes
    <3> QED BY <2>1, <3>1 DEF Promise!vars, Sizes
  <2>3. CASE tick' = tick + 1
    <3>1. \E n \in 1 .. MaxRequests : Sizes' = Append(Sizes, n)
      BY <1>2, <2>3, FireCloses
    <3>2. Promise!CloseTick
      BY <2>1, <3>1 DEF Promise!CloseTick, Sizes
    <3> QED BY <3>2 DEF Promise!Next
  <2> QED BY <2>1, <2>2, <2>3
<1>3. CASE CollectorJudge
  <2>1. /\ cur \in DOMAIN Sizes
        /\ \A i \in DOMAIN ToldReports : ToldReports[i].tick # cur
        /\ ToldReports' = Append(ToldReports, [tick |-> cur, requests |-> Sizes[cur]])
    BY <1>3, JudgeReportsOnce
  <2>2. main # "returned" /\ main' = main /\ UNCHANGED <<tick, fired>>
    BY <1>3, JudgeReports
  <2>3. Sizes' = Sizes
    BY <2>2 DEF Sizes, FiredIn
  <2>4. Promise!Report
    BY <2>1, <2>2, <2>3 DEF Promise!Report, Sizes, ToldReports, Told
  <2> QED BY <2>4 DEF Promise!Next
<1>4. CASE MainReturn
  <2>1. Promise!End
    BY <1>4 DEF MainReturn, Promise!End, FiredIn, schedVars, colVars
  <2> QED BY <2>1 DEF Promise!Next
<1>5. ASSUME NEW a \in Attackers, Attacker(a) PROVE [Promise!Next]_(Promise!vars)
  BY <1>1, <1>5 DEF Attacker, AttackerStop, AttackAbandon, AttackTimeout, AttackAnswer,
     AttackDeliver, schedVars, colVars, mainVars
<1>6. CASE \/ SchedulerExit \/ SchedulerTake \/ SchedulerRetry
           \/ \E id \in Ids : Request(id)
  BY <1>1, <1>6 DEF SchedulerExit, SchedulerTake, SchedulerRetry, Request,
     DeadlineExpires, DoReturns, schedVars, colVars, mainVars
<1>7. CASE CollectorStop \/ CollectorReceive \/ CollectorStream
  BY <1>1, <1>7 DEF CollectorStop, CollectorReceive, CollectorStream, schedVars,
     mainVars
<1>8. CASE Streamer
  BY <1>1, <1>8 DEF Streamer, StreamerTake, StreamerSend, StreamerCheck, StreamerStop,
     schedVars, colVars, mainVars
<1>9. CASE MainDone \/ Timeout \/ SignalReceive \/ SignalHandler \/ UNCHANGED vars
  BY <1>1, <1>9 DEF MainDone, Timeout, SignalReceive, SignalHandler, SignalExit,
     SignalStop, vars, schedVars, colVars, mainVars
<1> QED
  BY <1>2, <1>3, <1>4, <1>5, <1>6, <1>7, <1>8, <1>9 DEF Next, Scheduler, Collector, Main, Terminated

\* Every run is a behaviour of TickReports: only closed ticks are reported, with
\* the number of their requests and each at most once, and none after Run returned.
THEOREM RunKeepsPromise == Spec => KeepsPromise
<1>1. Init => Promise!Init
  <2> SUFFICES ASSUME Init PROVE Promise!Init
    OBVIOUS
  <2>1. 1 .. tick - 1 = {} /\ reports = <<>>
    BY DEF Init
  <2>2. [t \in 1 .. tick - 1 |-> Cardinality(FiredIn(t))] = <<>>
    BY <2>1
  <2>3. [i \in DOMAIN reports |-> [tick |-> reports[i].tick, requests |-> reports[i].n]] = <<>>
    BY <2>1
  <2> QED BY <2>2, <2>3 DEF Init, Promise!Init
<1> QED
  BY <1>1, Inductive, StepKeepsPromise, PTL DEF Spec, KeepsPromise, Promise!Spec

=============================================================================
