--------------------------- MODULE RunnerFlowProofs ---------------------------
(***************************************************************************)
(* The requests of a run: how many the scheduler fires, where each of them *)
(* is, and what becomes of a Do nobody waits for.  And the batches: what a *)
(* run streams to its node is what it reports, and a run is one that       *)
(* StreamedRun describes.                                                  *)
(***************************************************************************)
EXTENDS RunnerProofs

-----------------------------------------------------------------------------
(* The plan *)

\* The steps that have begun by tick t, after the first, and its target.
StepsBefore(t) ==
  IF Limited THEN t \div StepDurationSec - 1 \div StepDurationSec ELSE 0

PlannedRPS(t) ==
  IF Limited THEN StartRPS + StepRPS * StepsBefore(t)
  ELSE Cardinality(InitialAttackers) * SamplesPerAttacker

\* A step begins with the ticks its duration divides, and with no other.
LEMMA NextStep ==
  ASSUME NEW t \in Nat, NEW d \in Nat \ {0}
  PROVE  (t + 1) \div d = IF (t + 1) % d = 0 THEN t \div d + 1 ELSE t \div d
OBVIOUS

LEMMA StepsGrow ==
  ASSUME NEW t \in Nat \ {0}
  PROVE  /\ StepsBefore(t) \in Nat
         /\ StepsBefore(t + 1) =
              IF Limited /\ (t + 1) % StepDurationSec = 0 THEN StepsBefore(t) + 1
              ELSE StepsBefore(t)
<1> DEFINE d == StepDurationSec
<1>1. d \in Nat \ {0}
  BY ScheduleAssumption
<1> HIDE DEF d
<1>2. 1 \div d <= t \div d /\ 1 \div d \in Nat /\ t \div d \in Nat
  BY <1>1
<1>3. (t + 1) \div d = IF (t + 1) % d = 0 THEN t \div d + 1 ELSE t \div d
  BY <1>1, NextStep
<1> QED BY <1>2, <1>3 DEF StepsBefore, d

\* The counters of the scheduler are where the plan has them, and each token says
\* what they were when it was fired.
OnPlan ==
  /\ targetRPS = PlannedRPS(tick)
  /\ step = 1 + StepsBefore(tick)
  /\ \A id \in 1 .. Len(fired) :
       /\ fired[id].TargetRPS = PlannedRPS(fired[id].Tick)
       /\ fired[id].Step = 1 + StepsBefore(fired[id].Tick)
  /\ \A t \in 1 .. tick - 1 : Cardinality(FiredIn(t)) = PlannedRPS(t)

LEMMA InitOnPlan == Init => OnPlan
<1> SUFFICES ASSUME Init PROVE OnPlan
  OBVIOUS
<1>1. StepsBefore(1) = 0
  <2> DEFINE d == StepDurationSec
  <2>1. d \in Nat \ {0}
    BY ScheduleAssumption
  <2> HIDE DEF d
  <2>2. 1 \div d \in Nat
    BY <2>1
  <2>3. 1 \div d - 1 \div d = 0
    BY <2>2
  <2> QED BY <2>3 DEF StepsBefore, d
<1>2. StartRPS + StepRPS * 0 = StartRPS
  BY ScheduleAssumption
<1>3. Len(fired) = 0 /\ tick = 1 /\ 1 .. tick - 1 = {} /\ 1 .. Len(fired) = {}
  BY DEF Init
<1> QED BY <1>1, <1>2, <1>3 DEF Init, OnPlan, PlannedRPS

LEMMA PlanGrows ==
  ASSUME NEW t \in Nat \ {0}
  PROVE  PlannedRPS(t + 1) = IF Limited /\ (t + 1) % StepDurationSec = 0
                             THEN PlannedRPS(t) + StepRPS ELSE PlannedRPS(t)
<1>1. \A n \in Nat : /\ StepRPS * (n + 1) = StepRPS * n + StepRPS
                     /\ StepRPS * n \in Nat
  BY ScheduleAssumption
<1> DEFINE n == StepsBefore(t)
<1>2. /\ n \in Nat
      /\ StepsBefore(t + 1) = IF Limited /\ (t + 1) % StepDurationSec = 0
                              THEN n + 1 ELSE n
  BY StepsGrow
<1> HIDE DEF n
<1>3. StepRPS * (n + 1) = StepRPS * n + StepRPS /\ StepRPS * n \in Nat
  BY <1>1, <1>2
<1>4. StepsBefore(t) = n
  BY DEF n
<1>5. CASE Limited /\ (t + 1) % StepDurationSec = 0
  <2>1. PlannedRPS(t) = StartRPS + StepRPS * n
    BY <1>4, <1>5 DEF PlannedRPS
  <2>2. PlannedRPS(t + 1) = StartRPS + StepRPS * (n + 1)
    BY <1>2, <1>5 DEF PlannedRPS
  <2> QED BY <1>3, <1>5, <2>1, <2>2, ScheduleAssumption
<1>6. CASE ~(Limited /\ (t + 1) % StepDurationSec = 0)
  BY <1>2, <1>4, <1>6 DEF PlannedRPS
<1> QED BY <1>5, <1>6

\* A token carries the target and the step of its tick; the last token of a tick
\* moves the counters on.
LEMMA FireOnPlan ==
  ASSUME IInv, OnPlan, NEW a \in Attackers, SchedulerFire(a)
  PROVE  OnPlan'
<1> DEFINE id == Len(fired) + 1
<1> USE DEF IInv, TypeOK
<1>1. /\ id \in Nat \ {0}
      /\ Len(fired') = id
      /\ fired'[id] = [TargetRPS |-> targetRPS, Step |-> step, Tick |-> tick]
      /\ \A i \in 1 .. Len(fired) : fired'[i] = fired[i]
      /\ \A t : t # tick => FiredIn(t)' = FiredIn(t)
      /\ \A t : t = tick => Cardinality((FiredIn(t))') = Cardinality(FiredIn(t)) + 1
  BY FireExtends
<1>2. /\ tick \in Nat \ {0} /\ firedInTick \in Nat /\ targetRPS \in Nat \ {0}
      /\ step \in Nat \ {0}
  BY DEF SchedulerTyped
<1>3. /\ targetRPS' = PlannedRPS(tick')
      /\ step' = 1 + StepsBefore(tick')
      /\ tick' \in {tick, tick + 1}
      /\ tick' = tick + 1 => firedInTick + 1 = targetRPS
  <2>1. CASE firedInTick + 1 # targetRPS
    BY <1>2, <2>1 DEF SchedulerFire, CountRequest, OnPlan
  <2>2. CASE firedInTick + 1 = targetRPS
    <3>1. /\ tick' = tick + 1
          /\ IF Limited /\ (tick + 1) % StepDurationSec = 0
             THEN targetRPS' = targetRPS + StepRPS /\ step' = step + 1
             ELSE UNCHANGED <<targetRPS, step>>
      BY <2>2 DEF SchedulerFire, CountRequest
    <3>2. /\ StepsBefore(tick) \in Nat
          /\ StepsBefore(tick + 1) =
               IF Limited /\ (tick + 1) % StepDurationSec = 0
               THEN StepsBefore(tick) + 1 ELSE StepsBefore(tick)
          /\ PlannedRPS(tick + 1) =
               IF Limited /\ (tick + 1) % StepDurationSec = 0
               THEN PlannedRPS(tick) + StepRPS ELSE PlannedRPS(tick)
      BY <1>2, StepsGrow, PlanGrows
    <3> HIDE DEF IInv, TypeOK
    <3>3. targetRPS = PlannedRPS(tick) /\ step = 1 + StepsBefore(tick)
      BY DEF OnPlan
    <3> QED BY <2>2, <3>1, <3>2, <3>3
  <2> QED BY <2>1, <2>2
<1>4. ASSUME NEW i \in 1 .. Len(fired')
      PROVE  /\ fired'[i].TargetRPS = PlannedRPS(fired'[i].Tick)
             /\ fired'[i].Step = 1 + StepsBefore(fired'[i].Tick)
  <2>1. CASE i = id
    BY <1>1, <2>1 DEF OnPlan
  <2>2. CASE i \in 1 .. Len(fired)
    BY <1>1, <2>2 DEF OnPlan
  <2> QED BY <1>1, <2>1, <2>2
<1>5. ASSUME NEW t \in 1 .. tick' - 1
      PROVE  Cardinality((FiredIn(t))') = PlannedRPS(t)
  <2>0. t \in Nat /\ t < tick' /\ (tick' = tick \/ tick' = tick + 1)
    <3> HIDE DEF IInv, TypeOK
    <3>1. tick' = tick \/ tick' = tick + 1
      BY <1>3
    <3> QED BY <1>2, <3>1
  <2>1. CASE t = tick
    <3>1. Cardinality((FiredIn(t))') = firedInTick + 1
      BY <1>1, <2>1 DEF TicksFilled
    <3>2. firedInTick + 1 = targetRPS
      <4>1. tick' = tick + 1
        BY <1>2, <2>0, <2>1
      <4> QED BY <1>3, <4>1
    <3> QED BY <2>1, <3>1, <3>2 DEF OnPlan
  <2>2. CASE t # tick
    <3>1. t \in 1 .. tick - 1
      BY <1>2, <2>0, <2>2
    <3>2. (FiredIn(t))' = FiredIn(t)
      BY <1>1, <2>2
    <3> QED BY <3>1, <3>2 DEF OnPlan
  <2> QED BY <2>1, <2>2
<1> QED
  BY <1>3, <1>4, <1>5 DEF OnPlan, FiredIn, PlannedRPS, StepsBefore, Limited

LEMMA StepOnPlan == IInv /\ OnPlan /\ [Next]_vars => OnPlan'
<1> SUFFICES ASSUME IInv, OnPlan, [Next]_vars PROVE OnPlan'
  OBVIOUS
<1>1. ASSUME UNCHANGED <<targetRPS, step, tick, fired>> PROVE OnPlan'
  BY <1>1 DEF OnPlan, FiredIn, PlannedRPS, StepsBefore
<1>2. CASE \/ SchedulerExit \/ SchedulerTake \/ SchedulerRetry
           \/ \E a \in Attackers : Attacker(a)
           \/ \E id \in Ids : Request(id)
  BY <1>1, <1>2
  DEF SchedulerExit, SchedulerTake, SchedulerRetry, Attacker, AttackerStop,
      AttackAbandon, AttackTimeout, AttackAnswer, AttackDeliver, Request,
      DeadlineExpires, DoReturns, schedVars
<1>3. CASE Collector \/ Streamer
  BY <1>1, <1>3
  DEF Collector, CollectorStop, CollectorReceive, CollectorStream, CollectorJudge,
      Streamer, StreamerTake, StreamerSend, StreamerCheck, StreamerStop, schedVars
<1>4. CASE Main \/ Timeout \/ SignalReceive \/ SignalHandler \/ UNCHANGED vars
  BY <1>1, <1>4
  DEF Main, MainDone, MainReturn, Timeout, SignalReceive, SignalHandler, SignalExit,
      SignalStop, vars, schedVars
<1> QED BY <1>2, <1>3, <1>4, FireOnPlan DEF Next, Scheduler, Terminated

\* The ticks a step may have: those whose number has the same quotient by the
\* duration of a step; no tick has the number 0.
StepInterval(q) ==
  IF q = 0 THEN 1 .. StepDurationSec - 1
  ELSE q * StepDurationSec .. q * StepDurationSec + StepDurationSec - 1

LEMMA PlannedFilled ==
  ASSUME IInv, OnPlan, NEW t \in 1 .. tick - 1
  PROVE  FiredIn(t) # {}
<1>1. Cardinality(FiredIn(t)) = PlannedRPS(t)
  BY DEF OnPlan
<1>2. tick \in Nat
  BY DEF IInv, TypeOK, SchedulerTyped
<1>3. t \in Nat \ {0}
  BY <1>2
<1>4. PlannedRPS(t) # 0
  <2>1. StepsBefore(t) \in Nat
    BY <1>3, StepsGrow
  <2>2. CASE Limited
    <3>1. \A n \in Nat : StepRPS * n \in Nat
      BY ScheduleAssumption
    <3>2. PlannedRPS(t) = StartRPS + StepRPS * StepsBefore(t)
      BY <2>2 DEF PlannedRPS
    <3>3. StepRPS * StepsBefore(t) \in Nat
      BY <2>1, <3>1
    <3> QED BY <3>2, <3>3, ScheduleAssumption
  <2>3. CASE ~Limited
    <3>1. Cardinality(InitialAttackers) \in Nat \ {0}
      BY PoolAssumption, FS_CardinalityType, FS_EmptySet, FS_Subset
    <3>2. \A x, y \in Nat \ {0} : x * y # 0
      OBVIOUS
    <3> QED BY <2>3, <3>1, <3>2, ScheduleAssumption DEF PlannedRPS
  <2> QED BY <2>2, <2>3
<1> QED BY <1>1, <1>4, FS_EmptySet

LEMMA TargetOfStep ==
  ASSUME IInv, OnPlan, NEW id \in 1 .. Len(fired)
  PROVE  fired[id].TargetRPS = FirstRPS + StepRPS * (fired[id].Step - 1)
<1> DEFINE n == StepsBefore(fired[id].Tick)
<1>0. fired[id].Tick \in Nat \ {0}
  BY FiredTyped DEF IInv, TypeOK, Ticks
<1>1. n \in Nat
  BY <1>0, StepsGrow
<1>2. fired[id].TargetRPS = PlannedRPS(fired[id].Tick) /\ fired[id].Step = 1 + n
  BY DEF OnPlan
<1>3. PlannedRPS(fired[id].Tick) = IF Limited THEN StartRPS + StepRPS * n
                                   ELSE Cardinality(InitialAttackers) * SamplesPerAttacker
  BY DEF PlannedRPS
<1>4. ~Limited => n = 0
  BY DEF StepsBefore
<1> HIDE DEF n
<1>5. fired[id].Step - 1 = n
  BY <1>1, <1>2
<1>6. CASE Limited
  BY <1>2, <1>3, <1>5, <1>6 DEF FirstRPS
<1>7. CASE ~Limited
  <2>1. Cardinality(InitialAttackers) \in Nat
    BY PoolAssumption, FS_CardinalityType, FS_Subset
  <2>2. \A x, y \in Nat : x * y + StepRPS * 0 = x * y
    BY ScheduleAssumption
  <2>3. FirstRPS = Cardinality(InitialAttackers) * SamplesPerAttacker
    BY <1>7 DEF FirstRPS
  <2> QED BY <1>2, <1>3, <1>4, <1>5, <1>7, <2>1, <2>2, <2>3, ScheduleAssumption
<1> QED BY <1>6, <1>7

LEMMA QuotientIs ==
  ASSUME NEW t \in Nat, NEW d \in Nat \ {0}, NEW q \in Nat
  PROVE  t \div d = q <=> q * d <= t /\ t < q * d + d
<1>1. \A k \in Nat : t \div d = k => k * d <= t /\ t < k * d + d
  OBVIOUS
<1>2. t \div d \in Nat
  OBVIOUS
<1> DEFINE k == t \div d
<1>3. k \in Nat /\ k * d <= t /\ t < k * d + d
  BY <1>1, <1>2
<1> HIDE DEF k
<1>4. ASSUME q * d <= t, t < q * d + d PROVE k = q
  <2>1. k * d < (q + 1) * d /\ q * d < (k + 1) * d
    BY <1>3, <1>4
  <2>2. k < q + 1 /\ q < k + 1
    BY <1>3, <2>1
  <2> QED BY <1>3, <2>2
<1> QED BY <1>1, <1>4 DEF k

LEMMA IntervalOfStep ==
  ASSUME NEW q \in Nat
  PROVE  /\ \A t \in Nat \ {0} : t \in StepInterval(q) <=> t \div StepDurationSec = q
         /\ IsFiniteSet(StepInterval(q))
         /\ StepInterval(q) \subseteq Nat \ {0}
         /\ Cardinality(StepInterval(q)) =
              IF q = 0 THEN StepDurationSec - 1 ELSE StepDurationSec
<1> DEFINE d == StepDurationSec
           p == q * d
<1>1. d \in Nat \ {0} /\ p \in Nat /\ (q = 0 => p = 0) /\ (q # 0 => p > 0)
  BY ScheduleAssumption
<1>2. \A t \in Nat : t \div d = q <=> p <= t /\ t < p + d
  BY <1>1, QuotientIs
<1>3. StepInterval(q) = IF q = 0 THEN 1 .. d - 1 ELSE p .. p + d - 1
  BY DEF StepInterval
<1> HIDE DEF d, p
<1>4. \A a, b \in Nat : IsFiniteSet(a .. b)
                        /\ Cardinality(a .. b) = IF a > b THEN 0 ELSE b - a + 1
  BY FS_Interval
<1>5. CASE q = 0
  <2>1. /\ 1 \in Nat /\ d - 1 \in Nat
        /\ (IF 1 > d - 1 THEN 0 ELSE d - 1 - 1 + 1) = d - 1
    BY <1>1
  <2>2. IsFiniteSet(1 .. d - 1) /\ Cardinality(1 .. d - 1) = d - 1
    BY <1>4, <2>1
  <2>3. \A t \in Nat \ {0} : t \in 1 .. d - 1 <=> p <= t /\ t < p + d
    BY <1>1, <1>5
  <2>4. 1 .. d - 1 \subseteq Nat \ {0}
    OBVIOUS
  <2> QED BY <1>2, <1>3, <1>5, <2>2, <2>3, <2>4 DEF d
<1>6. CASE q # 0
  <2>1. /\ p + d - 1 \in Nat
        /\ (IF p > p + d - 1 THEN 0 ELSE p + d - 1 - p + 1) = d
    BY <1>1
  <2>2. IsFiniteSet(p .. p + d - 1) /\ Cardinality(p .. p + d - 1) = d
    BY <1>1, <1>4, <2>1
  <2>3. \A t \in Nat \ {0} : t \in p .. p + d - 1 <=> p <= t /\ t < p + d
    BY <1>1
  <2>4. p .. p + d - 1 \subseteq Nat \ {0}
    BY <1>1, <1>6
  <2> QED BY <1>2, <1>3, <1>6, <2>2, <2>3, <2>4 DEF d
<1> QED BY <1>5, <1>6

\* The ticks of a step that is over are all of its interval, those of the current
\* one are some of it.
LEMMA TicksOfStep ==
  ASSUME IInv, OnPlan, Limited, NEW s \in 1 .. step
  PROVE  /\ Cardinality(StepTicks(s)) <= StepLength(s)
         /\ s < step => Cardinality(StepTicks(s)) = StepLength(s)
<1> DEFINE d == StepDurationSec
           c == 1 \div d
           q == s - 1 + c
<1>1. d \in Nat \ {0} /\ c = IF d = 1 THEN 1 ELSE 0
  BY ScheduleAssumption
<1>2. step \in Nat \ {0} /\ tick \in Nat \ {0} /\ s \in Nat \ {0} /\ s <= step
  BY DEF IInv, TypeOK, SchedulerTyped
<1>3. /\ \A id \in 1 .. Len(fired) : /\ fired[id].Tick \in Nat \ {0}
                                     /\ fired[id].Tick <= tick
                                     /\ fired[id].Step = 1 + fired[id].Tick \div d - c
      /\ step = 1 + tick \div d - c
  <2>1. \A id \in 1 .. Len(fired) : fired[id].Tick \in Nat \ {0} /\ fired[id].Tick <= tick
    BY FiredTyped, ScheduleAssumption DEF IInv, TypeOK, TicksFilled, Ticks
  <2>2. /\ \A id \in 1 .. Len(fired) : fired[id].Step = 1 + StepsBefore(fired[id].Tick)
        /\ step = 1 + StepsBefore(tick)
    BY DEF OnPlan
  <2>3. \A t : StepsBefore(t) = t \div d - c
    BY DEF StepsBefore
  <2> HIDE DEF d, c
  <2>4. c \in Int /\ \A t \in Nat : t \div d \in Int
    BY <1>1
  <2> QED BY <1>2, <2>1, <2>2, <2>3, <2>4
<1>4. \A t \in 1 .. tick - 1 : \E id \in 1 .. Len(fired) : fired[id].Tick = t
  <2> SUFFICES ASSUME NEW t \in 1 .. tick - 1
               PROVE  \E id \in 1 .. Len(fired) : fired[id].Tick = t
    OBVIOUS
  <2>1. FiredIn(t) # {}
    BY PlannedFilled
  <2> QED BY <2>1 DEF FiredIn
<1> HIDE DEF c, d
<1>5. q \in Nat
  BY <1>1, <1>2
<1>6. \A id \in 1 .. Len(fired) : fired[id].Step = s <=> fired[id].Tick \div d = q
  <2>1. \A id \in 1 .. Len(fired) : fired[id].Tick \div d \in Int
    BY <1>1, <1>3
  <2> QED BY <1>1, <1>2, <1>3, <2>1
<1> HIDE DEF q
<1>7. /\ \A t \in Nat \ {0} : t \in StepInterval(q) <=> t \div d = q
      /\ IsFiniteSet(StepInterval(q))
      /\ StepInterval(q) \subseteq Nat \ {0}
      /\ Cardinality(StepInterval(q)) = IF q = 0 THEN d - 1 ELSE d
  BY <1>5, IntervalOfStep DEF d
<1>8. StepTicks(s) \subseteq StepInterval(q)
  BY <1>3, <1>6, <1>7 DEF StepTicks
<1>9. Cardinality(StepInterval(q)) = StepLength(s)
  <2>1. q = 0 <=> s = 1 /\ d > 1
    BY <1>1, <1>2 DEF q
  <2> QED BY <1>7, <2>1 DEF StepLength, d
<1>10. Cardinality(StepTicks(s)) <= StepLength(s)
  BY <1>7, <1>8, <1>9, FS_Subset
<1>11. ASSUME s < step PROVE StepInterval(q) \subseteq StepTicks(s)
  <2> SUFFICES ASSUME NEW t \in StepInterval(q) PROVE t \in StepTicks(s)
    OBVIOUS
  <2>1. t \in Nat \ {0} /\ t \div d = q
    BY <1>7
  <2>2. tick \div d > q /\ tick \div d \in Int
    BY <1>1, <1>2, <1>3, <1>11 DEF q
  <2>3. t < tick
    <3>1. tick <= t => tick \div d <= t \div d
      BY <1>1, <1>2, <2>1
    <3> QED BY <1>2, <1>5, <2>1, <2>2, <3>1
  <2>4. t \in 1 .. tick - 1
    BY <1>2, <2>1, <2>3
  <2> QED BY <1>4, <1>6, <2>1, <2>4 DEF StepTicks
<1> QED BY <1>8, <1>9, <1>10, <1>11

\* The load follows the plan: what the tokens of a tick name, how the rate grows,
\* and how long a step lasts, whatever the duration and the height of a step
\* (runner.go:255-266).
THEOREM PlanIsFollowed == Spec => []LoadFollowsPlan
<1>1. IInv /\ OnPlan => LoadFollowsPlan
  <2> SUFFICES ASSUME IInv, OnPlan PROVE LoadFollowsPlan
    OBVIOUS
  <2>1. \A id \in 1 .. Len(fired) :
          fired[id].TargetRPS = FirstRPS + StepRPS * (fired[id].Step - 1)
    BY TargetOfStep
  <2>2. ASSUME NEW t \in 1 .. tick - 1
        PROVE  /\ FiredIn(t) # {}
               /\ \A id \in FiredIn(t) : fired[id].TargetRPS = Cardinality(FiredIn(t))
    BY PlannedFilled DEF OnPlan, FiredIn
  <2>3. ~Limited => step = 1
    BY DEF OnPlan, StepsBefore
  <2> QED BY <2>1, <2>2, <2>3, TicksOfStep DEF LoadFollowsPlan
<1> QED BY <1>1, InitOnPlan, StepOnPlan, Inductive, PTL DEF Spec

-----------------------------------------------------------------------------
(* Where a request is *)

Held(id)     == \E a \in Attackers : holds[a] = id
Queued(id)   == \E i \in 1 .. Len(results) : results[i].id = id
Sampled(id)  == \E t \in Ticks : id \in samples[t].ids
Reported(id) == \E i \in 1 .. Len(reports) : id \in reports[i].ids

\* While the run is not cancelled every request is somewhere.
NothingLost ==
  ~cancelled =>
    \A id \in 1 .. Len(fired) : Held(id) \/ Queued(id) \/ Sampled(id) \/ Reported(id)

LEMMA InitNothingLost == Init => NothingLost
BY DEF Init, NothingLost

\* A request is where it was, or in one more place.
LEMMA LostFrame ==
  ASSUME NothingLost, cancelled => cancelled', fired' = fired,
         \A id \in 1 .. Len(fired) :
           Held(id) \/ Queued(id) \/ Sampled(id) \/ Reported(id)
             => (Held(id) \/ Queued(id) \/ Sampled(id) \/ Reported(id))'
  PROVE  NothingLost'
BY DEF NothingLost

LEMMA FireNothingLost ==
  ASSUME TypeOK, NothingLost, NEW a \in Attackers, SchedulerFire(a)
  PROVE  NothingLost'
<1> DEFINE id == Len(fired) + 1
<1>1. /\ Len(fired') = id /\ id \in Nat
      /\ holds' = [holds EXCEPT ![a] = id]
      /\ holds[a] = 0
      /\ UNCHANGED <<cancelled, results, samples, reports>>
  BY FireExtends DEF SchedulerFire, TypeOK, AttackersTyped, ctxVars, colVars
<1>2. \A i \in 1 .. Len(fired') : i = id \/ i \in 1 .. Len(fired)
  BY <1>1
<1>3. \A i : i = id => Held(i)'
  BY <1>1 DEF Held, TypeOK, AttackersTyped
<1>4. ASSUME NEW i \in 1 .. Len(fired), Held(i)
      PROVE  Held(i)'
  <2>1. PICK b \in Attackers : holds[b] = i
    BY <1>4 DEF Held
  <2>2. b # a
    BY <1>1, <2>1
  <2>3. holds'[b] = i
    BY <1>1, <2>1, <2>2 DEF TypeOK, AttackersTyped
  <2> QED BY <2>3 DEF Held
<1>5. \A i \in 1 .. Len(fired) :
        Queued(i) \/ Sampled(i) \/ Reported(i) => (Queued(i) \/ Sampled(i) \/ Reported(i))'
  BY <1>1 DEF Queued, Sampled, Reported
<1> HIDE DEF id
<1> QED BY <1>1, <1>2, <1>3, <1>4, <1>5 DEF NothingLost

LEMMA AttackerNothingLost ==
  ASSUME IInv, NothingLost, NEW a \in Attackers, Attacker(a)
  PROVE  NothingLost'
<1> USE DEF IInv, TypeOK
<1>1. UNCHANGED <<cancelled, fired, samples, reports>>
  BY DEF Attacker, AttackerStop, AttackAbandon, AttackTimeout, AttackAnswer,
         AttackDeliver, schedVars, colVars, ctxVars
<1>2. CASE UNCHANGED <<holds, results>>
  BY <1>1, <1>2 DEF NothingLost, Held, Queued, Sampled, Reported
<1>3. CASE AttackAbandon(a)
  BY <1>1, <1>3 DEF AttackAbandon, NothingLost
<1>4. CASE AttackDeliver(a)
  <2> DEFINE res == [id |-> holds[a], out |-> outcome[a]]
             n == Len(results)
  <2>1. /\ results' = Append(results, res)
        /\ holds' = [holds EXCEPT ![a] = 0]
        /\ atk[a] = "deliver"
    BY <1>4 DEF AttackDeliver
  <2>2. res \in Result
    BY <2>1 DEF AttackersTyped, Result
  <2>3. /\ n \in Nat
        /\ Len(results') = n + 1
        /\ \A i \in 1 .. n : results'[i] = results[i]
        /\ results'[n + 1] = res
    <3> HIDE DEF res
    <3> QED BY <2>1, <2>2, QueueAppend DEF ResultsTyped
  <2>4. results'[n + 1].id = holds[a]
    BY <2>3
  <2> HIDE DEF res, n
  <2>5. \A id \in 1 .. Len(fired) : Queued(id) => Queued(id)'
    BY <2>3 DEF Queued, n
  <2>6. ASSUME NEW id \in 1 .. Len(fired), Held(id)
        PROVE  Held(id)' \/ Queued(id)'
    <3>1. PICK b \in Attackers : holds[b] = id
      BY <2>6 DEF Held
    <3>2. CASE b = a
      <4>1. n + 1 \in 1 .. Len(results')
        BY <2>3
      <4> QED BY <2>4, <3>1, <3>2, <4>1 DEF Queued
    <3>3. CASE b # a
      <4>1. holds'[b] = id
        BY <2>1, <3>1, <3>3 DEF AttackersTyped
      <4> QED BY <4>1 DEF Held
    <3> QED BY <3>2, <3>3
  <2> QED
    BY <1>1, <2>5, <2>6, LostFrame DEF Sampled, Reported
<1> QED
  BY <1>2, <1>3, <1>4 DEF Attacker, AttackerStop, AttackTimeout, AttackAnswer

\* A result taken is a sample, and the samples of a tick judged are reported.
LEMMA CollectorNothingLost ==
  ASSUME IInv, NothingLost, Collector
  PROVE  NothingLost'
<1> USE DEF IInv, TypeOK
<1>1. CASE CollectorStop \/ CollectorStream
  BY <1>1
  DEF CollectorStop, CollectorStream, NothingLost, Held, Queued, Sampled, Reported,
      ctxVars, schedVars, atkVars
<1>2. CASE CollectorReceive
  <2> DEFINE r == Head(results).id
             u == fired[r].Tick
             n == Len(results)
  <2>1. /\ UNCHANGED <<cancelled, fired, holds, reports>>
        /\ results # <<>> /\ results' = Tail(results)
    BY <1>2 DEF CollectorReceive, ctxVars, schedVars, atkVars
  <2>2. /\ n \in Nat \ {0}
        /\ Head(results) = results[1]
        /\ Len(results') = n - 1
        /\ \A i \in 1 .. n - 1 : results'[i] = results[i + 1]
    BY <2>1, QueueTail DEF ResultsTyped
  <2>3. /\ u \in Ticks
        /\ samples'[u].ids = samples[u].ids \cup {r}
        /\ \A t \in Ticks \ {u} : samples'[t] = samples[t]
    BY <1>2, ReceiveFacts
  <2> HIDE DEF u, n
  <2>4. \A id : Sampled(id) => Sampled(id)'
    BY <2>3 DEF Sampled
  <2>5. \A id : id = r => Sampled(id)'
    BY <2>3 DEF Sampled
  <2>6. ASSUME NEW id \in 1 .. Len(fired), Queued(id), id # r
        PROVE  Queued(id)'
    <3>1. PICK i \in 1 .. n : results[i].id = id
      BY <2>6 DEF Queued, n
    <3>2. i # 1
      BY <2>2, <2>6, <3>1
    <3>3. i - 1 \in 1 .. n - 1 /\ (i - 1) + 1 = i
      BY <2>2, <3>2
    <3>4. results'[i - 1].id = id
      BY <2>2, <3>1, <3>3
    <3> QED BY <2>2, <3>3, <3>4 DEF Queued
  <2>7. \A id : Held(id)' = Held(id) /\ Reported(id)' = Reported(id)
    BY <2>1 DEF Held, Reported
  <2> HIDE DEF r, IInv, TypeOK
  <2> QED BY <2>1, <2>4, <2>5, <2>6, <2>7, LostFrame
<1>3. CASE CollectorJudge
  <2> DEFINE b == Batch(cur)
             n == Len(reports)
  <2>1. /\ UNCHANGED <<fired, holds, results>>
        /\ cancelled => cancelled'
        /\ reports' = Append(reports, b)
        /\ samples' = [samples EXCEPT ![cur] = NoSamples]
        /\ col = "judge"
    BY <1>3 DEF CollectorJudge, Fail, schedVars
  <2>2. cur \in Ticks
    BY <2>1 DEF CollectorTyped, Ticks
  <2>3. b.ids = samples[cur].ids
    BY DEF Batch
  <2>4. /\ n \in Nat
        /\ Len(reports') = n + 1
        /\ \A k \in 1 .. n : reports'[k] = reports[k]
        /\ reports'[n + 1] = b
    <3>1. b \in Batches
      BY <2>2, BatchTyped
    <3> HIDE DEF b
    <3> QED BY <2>1, <3>1, QueueAppend DEF CollectorTyped
  <2> HIDE DEF b, n
  <2>5. n + 1 \in 1 .. Len(reports') /\ \A k \in 1 .. n : k \in 1 .. Len(reports')
    BY <2>4
  <2>6. \A id : Reported(id) => Reported(id)'
    BY <2>4, <2>5 DEF Reported, n
  <2>7. \A t \in Ticks \ {cur} : samples'[t] = samples[t]
    BY <2>1, <2>2 DEF CollectorTyped
  <2>8. \A id : Sampled(id) => Sampled(id)' \/ Reported(id)'
    BY <2>3, <2>4, <2>5, <2>7 DEF Sampled, Reported
  <2>9. \A id : Held(id)' = Held(id) /\ Queued(id)' = Queued(id)
    BY <2>1 DEF Held, Queued
  <2> HIDE DEF IInv, TypeOK
  <2> QED BY <2>1, <2>6, <2>8, <2>9, LostFrame
<1> QED BY <1>1, <1>2, <1>3 DEF Collector

LEMMA StepNothingLost == IInv /\ NothingLost /\ [Next]_vars => NothingLost'
<1> SUFFICES ASSUME IInv, NothingLost, [Next]_vars PROVE NothingLost'
  OBVIOUS
<1>1. ASSUME UNCHANGED <<fired, holds, results, samples, reports>>, cancelled => cancelled'
      PROVE  NothingLost'
  BY <1>1 DEF NothingLost, Held, Queued, Sampled, Reported
<1>2. CASE \/ SchedulerExit \/ SchedulerTake \/ SchedulerRetry
           \/ \E id \in Ids : Request(id)
  BY <1>1, <1>2
  DEF SchedulerExit, SchedulerTake, SchedulerRetry, Request, DeadlineExpires,
      DoReturns, schedVars, atkVars, colVars, ctxVars
<1>3. CASE Streamer
  BY <1>1, <1>3
  DEF Streamer, StreamerTake, StreamerSend, StreamerCheck, StreamerStop, schedVars, atkVars, colVars,
      ctxVars
<1>4. CASE Main \/ Timeout \/ SignalReceive \/ SignalHandler \/ UNCHANGED vars
  BY <1>1, <1>4
  DEF Main, MainDone, MainReturn, Timeout, SignalReceive, SignalHandler, SignalExit,
      SignalStop, vars, schedVars, atkVars, colVars, ctxVars
<1> QED
  BY <1>2, <1>3, <1>4, FireNothingLost, AttackerNothingLost, CollectorNothingLost
  DEF Next, Scheduler, Terminated, IInv

\* A request is in one place at a time.
LEMMA PlacesAgree ==
  ASSUME IInv, NEW id \in 1 .. Len(fired), NEW p \in Places(id), NEW q \in Places(id)
  PROVE  p = q
<1> USE DEF IInv, TypeOK
<1>1. id # 0 /\ DOMAIN reports = 1 .. Len(reports) /\ DOMAIN results = 1 .. Len(results)
  BY DEF CollectorTyped, ResultsTyped
<1> DEFINE A == {<<"attacker", a>> : a \in {a \in Attackers : holds[a] = id}}
           R == {<<"results", i>> : i \in {i \in DOMAIN results : results[i].id = id}}
           S == {<<"samples", t>> : t \in {t \in Ticks : id \in samples[t].ids}}
           P == {<<"reports", i>> : i \in {i \in DOMAIN reports : id \in reports[i].ids}}
<1>2. (p \in A \/ p \in R \/ p \in S \/ p \in P) /\ (q \in A \/ q \in R \/ q \in S \/ q \in P)
  BY DEF Places
<1>3. /\ \A a, b \in Attackers : holds[a] = id /\ holds[b] = id => a = b
      /\ \A i, j \in 1 .. Len(results) : results[i].id = id /\ results[j].id = id => i = j
      /\ Held(id) => ~Queued(id)
  BY <1>1 DEF InFlightOnce, Held, Queued
<1>4. \A t \in Ticks : id \in samples[t].ids =>
        t = fired[id].Tick /\ ~Held(id) /\ ~Queued(id)
  BY DEF SamplesOfTick, FiredIn, OutOfFlight, Held, Queued
<1>5. \A k \in 1 .. Len(reports) : id \in reports[k].ids =>
        /\ reports[k].tick = fired[id].Tick
        /\ ~Held(id) /\ ~Queued(id) /\ ~Sampled(id)
  <2> SUFFICES ASSUME NEW k \in 1 .. Len(reports), id \in reports[k].ids
               PROVE  /\ reports[k].tick = fired[id].Tick
                      /\ ~Held(id) /\ ~Queued(id) /\ ~Sampled(id)
    OBVIOUS
  <2>1. /\ id \in FiredIn(reports[k].tick) /\ OutOfFlight(id)
        /\ samples[reports[k].tick].ids = {}
    BY DEF ReportedTicksClosed
  <2>2. reports[k].tick = fired[id].Tick
    BY <2>1 DEF FiredIn
  <2>3. ~Sampled(id)
    BY <1>4, <2>1, <2>2 DEF Sampled
  <2> QED BY <2>1, <2>2, <2>3 DEF OutOfFlight, Held, Queued
<1>6. \A k, l \in 1 .. Len(reports) : id \in reports[k].ids /\ id \in reports[l].ids => k = l
  BY <1>5 DEF ReportedOnce
<1> HIDE DEF IInv, TypeOK
<1>7. /\ p \in A \/ q \in A => Held(id)
      /\ p \in R \/ q \in R => Queued(id)
      /\ p \in S \/ q \in S => Sampled(id)
      /\ p \in P \/ q \in P => Reported(id)
  BY <1>1 DEF Held, Queued, Sampled, Reported
<1>8. /\ Sampled(id) => ~Held(id) /\ ~Queued(id)
      /\ Reported(id) => ~Held(id) /\ ~Queued(id) /\ ~Sampled(id)
  BY <1>4, <1>5 DEF Sampled, Reported
<1>9. CASE p \in A /\ q \in A
  BY <1>3, <1>9
<1>10. CASE p \in R /\ q \in R
  BY <1>1, <1>3, <1>10
<1>11. CASE p \in S /\ q \in S
  BY <1>4, <1>11
<1>12. CASE p \in P /\ q \in P
  BY <1>1, <1>6, <1>12
<1> HIDE DEF A, R, S, P
<1> QED BY <1>2, <1>3, <1>7, <1>8, <1>9, <1>10, <1>11, <1>12

\* No request is counted twice, and none is lost while the run is not cancelled,
\* whatever order timeouts, answers and deliveries take: only the attacker's return
\* on TimeoutCtx (attack.go:44-46) drops one.
THEOREM RequestsAreAccounted == Spec => []RequestsAccounted
<1>1. ASSUME IInv, NothingLost PROVE RequestsAccounted
  <2> SUFFICES ASSUME NEW id \in 1 .. Len(fired)
               PROVE  /\ Cardinality(Places(id)) <= 1
                      /\ ~cancelled => Places(id) # {}
    BY DEF RequestsAccounted
  <2>1. Places(id) = {} \/ \E p : Places(id) = {p}
    <3>1. \A p, q \in Places(id) : p = q
      BY <1>1, PlacesAgree
    <3> QED BY <3>1
  <2>2. Cardinality(Places(id)) <= 1
    <3>1. Cardinality(Places(id)) = 0 \/ Cardinality(Places(id)) = 1
      BY <2>1, FS_EmptySet, FS_Singleton
    <3> QED BY <3>1
  <2>3. ASSUME ~cancelled PROVE Places(id) # {}
    <3>1. DOMAIN reports = 1 .. Len(reports) /\ DOMAIN results = 1 .. Len(results)
      BY <1>1 DEF IInv, TypeOK, CollectorTyped, ResultsTyped
    <3>2. Held(id) \/ Queued(id) \/ Sampled(id) \/ Reported(id)
      BY <1>1, <2>3 DEF NothingLost
    <3>3. CASE Held(id)
      <4>1. PICK a \in Attackers : holds[a] = id
        BY <3>3 DEF Held
      <4>2. <<"attacker", a>> \in Places(id)
        BY <4>1 DEF Places
      <4> QED BY <4>2
    <3>4. CASE Queued(id)
      <4>1. PICK i \in DOMAIN results : results[i].id = id
        BY <3>1, <3>4 DEF Queued
      <4>2. <<"results", i>> \in Places(id)
        BY <4>1 DEF Places
      <4> QED BY <4>2
    <3>5. CASE Sampled(id)
      <4>1. PICK t \in Ticks : id \in samples[t].ids
        BY <3>5 DEF Sampled
      <4>2. <<"samples", t>> \in Places(id)
        BY <4>1 DEF Places
      <4> QED BY <4>2
    <3>6. CASE Reported(id)
      <4>1. PICK i \in DOMAIN reports : id \in reports[i].ids
        BY <3>1, <3>6 DEF Reported
      <4>2. <<"reports", i>> \in Places(id)
        BY <4>1 DEF Places
      <4> QED BY <4>2
    <3> QED BY <3>2, <3>3, <3>4, <3>5, <3>6
  <2> QED BY <2>2, <2>3
<1> QED BY <1>1, InitNothingLost, StepNothingLost, Inductive, PTL DEF Spec

-----------------------------------------------------------------------------
(* A Do nobody waits for *)

\* No step of the collector, of streamResults or of Run touches a request.
LEMMA OrphansFrame ==
  ASSUME OrphansCancelled, UNCHANGED <<fired, call, reqCtx>>,
         \A id \in Ids : Awaited(id) => Awaited(id)', Len(fired) <= MaxRequests,
         MaxRequests \in Nat, Len(fired) \in Nat
  PROVE  OrphansCancelled'
BY DEF OrphansCancelled, Ids

LEMMA FireOrphans ==
  ASSUME TypeOK, OrphansCancelled, NEW a \in Attackers, SchedulerFire(a)
  PROVE  OrphansCancelled'
<1> DEFINE id == Len(fired) + 1
<1> USE DEF TypeOK
<1>1. /\ Len(fired') = id /\ id \in Nat
      /\ holds' = [holds EXCEPT ![a] = id]
      /\ atk' = [atk EXCEPT ![a] = "wait"]
      /\ atk[a] = "recv"
      /\ call' = [call EXCEPT ![id] = "running"]
      /\ reqCtx' = reqCtx
      /\ id \in Ids
  BY FireExtends, ScheduleAssumption DEF SchedulerFire, SchedulerTyped, Ids
<1>2. \A i \in 1 .. Len(fired') : i = id \/ (i # id /\ i \in 1 .. Len(fired) /\ i \in Ids)
  BY <1>1, ScheduleAssumption DEF SchedulerTyped, Ids
<1>3. \A i : i = id => Awaited(i)'
  BY <1>1 DEF Awaited, AttackersTyped
<1>4. \A i : Awaited(i) => Awaited(i)'
  <2> SUFFICES ASSUME NEW i, Awaited(i) PROVE Awaited(i)'
    OBVIOUS
  <2>1. PICK b \in Attackers : atk[b] = "wait" /\ holds[b] = i
    BY DEF Awaited
  <2>2. b # a
    BY <1>1, <2>1
  <2>3. atk'[b] = "wait" /\ holds'[b] = i
    BY <1>1, <2>1, <2>2 DEF AttackersTyped
  <2> QED BY <2>3 DEF Awaited
<1>5. \A i \in Ids : i # id => call'[i] = call[i]
  BY <1>1 DEF RequestsTyped
<1> HIDE DEF id
<1> QED BY <1>1, <1>2, <1>3, <1>4, <1>5 DEF OrphansCancelled

\* An attacker lets go of its request only with its context ended.
LEMMA AttackerOrphans ==
  ASSUME TypeOK, OrphansCancelled, NEW a \in Attackers, Attacker(a)
  PROVE  OrphansCancelled'
<1> USE DEF TypeOK
<1>1. /\ fired' = fired
      /\ \A i \in 1 .. Len(fired) : i \in Ids /\ i # 0
      /\ \A i \in Ids : call'[i] = "running" => call[i] = "running"
      /\ \A i \in Ids : reqCtx[i] # "live" => reqCtx'[i] # "live"
  <2>1. fired' = fired
    BY DEF Attacker, AttackerStop, AttackAbandon, AttackTimeout, AttackAnswer,
           AttackDeliver, schedVars
  <2>2. \A i \in 1 .. Len(fired) : i \in Ids /\ i # 0
    BY ScheduleAssumption DEF SchedulerTyped, Ids
  <2>3. /\ \A i \in Ids : call'[i] = "running" => call[i] = "running"
        /\ \A i \in Ids : reqCtx[i] # "live" => reqCtx'[i] # "live"
    BY DEF Attacker, AttackerStop, AttackAbandon, AttackTimeout, AttackAnswer,
           AttackDeliver, LeaveDone, CancelRequest, RequestsTyped, callVars
  <2> QED BY <2>1, <2>2, <2>3
<1>2. ASSUME NEW i \in 1 .. Len(fired), Awaited(i), ~Awaited(i)'
      PROVE  reqCtx'[i] # "live"
  <2>1. PICK b \in Attackers : atk[b] = "wait" /\ holds[b] = i
    BY <1>2 DEF Awaited
  <2>2. b = a
    <3>1. \A c \in Attackers \ {a} : atk'[c] = atk[c] /\ holds'[c] = holds[c]
      BY DEF Attacker, AttackerStop, AttackAbandon, AttackTimeout, AttackAnswer,
             AttackDeliver, AttackersTyped
    <3> QED BY <1>2, <2>1, <3>1 DEF Awaited
  <2>3. AttackAbandon(a) \/ AttackTimeout(a) \/ AttackAnswer(a)
    BY <2>1, <2>2 DEF Attacker, AttackerStop, AttackDeliver
  <2>4. i \in Ids /\ holds[a] = i
    BY <1>1, <2>1, <2>2
  <2> QED
    BY <2>3, <2>4 DEF AttackAbandon, AttackTimeout, AttackAnswer, CancelRequest, RequestsTyped
<1> QED BY <1>1, <1>2 DEF OrphansCancelled

LEMMA RequestOrphans ==
  ASSUME TypeOK, OrphansCancelled, NEW r \in Ids, Request(r)
  PROVE  OrphansCancelled'
<1> USE DEF TypeOK
<1>1. /\ UNCHANGED <<fired, atk, holds>>
      /\ \A i \in 1 .. Len(fired) : i \in Ids
  BY ScheduleAssumption DEF Request, DeadlineExpires, DoReturns, SchedulerTyped, Ids,
     schedVars, atkVars
<1>2. /\ \A i \in Ids : call'[i] = "running" => call[i] = "running"
      /\ \A i \in Ids : reqCtx[i] # "live" => reqCtx'[i] # "live"
  BY ReportAssumption DEF Request, DeadlineExpires, DoReturns, CancelRequest, RequestsTyped,
     Answers
<1>3. \A i : Awaited(i)' = Awaited(i)
  BY <1>1 DEF Awaited
<1> QED BY <1>1, <1>2, <1>3 DEF OrphansCancelled

LEMMA StepOrphans == TypeOK /\ OrphansCancelled /\ [Next]_vars => OrphansCancelled'
<1> SUFFICES ASSUME TypeOK, OrphansCancelled, [Next]_vars PROVE OrphansCancelled'
  OBVIOUS
<1>1. ASSUME UNCHANGED <<fired, call, reqCtx>>, \A id \in Ids : Awaited(id) => Awaited(id)'
      PROVE  OrphansCancelled'
  BY <1>1, OrphansFrame, ScheduleAssumption DEF TypeOK, SchedulerTyped
<1>2. ASSUME UNCHANGED <<fired, call, reqCtx, atk, holds>> PROVE OrphansCancelled'
  BY <1>1, <1>2 DEF Awaited
<1>3. CASE SchedulerExit \/ SchedulerTake \/ SchedulerRetry
  BY <1>2, <1>3 DEF SchedulerExit, SchedulerTake, SchedulerRetry, callVars, atkVars
<1>4. CASE CollectorStop \/ CollectorReceive \/ CollectorStream \/ Streamer
  BY <1>2, <1>4
  DEF CollectorStop, CollectorReceive, CollectorStream, Streamer, StreamerTake, StreamerSend,
      StreamerCheck, StreamerStop, schedVars, callVars, atkVars
<1>5. CASE Main \/ Timeout \/ SignalReceive \/ SignalHandler \/ UNCHANGED vars
  BY <1>2, <1>5
  DEF Main, MainDone, MainReturn, Timeout, SignalReceive, SignalHandler, SignalExit,
      SignalStop, vars, schedVars, callVars, atkVars
<1>6. CASE CollectorJudge
  <2>1. UNCHANGED <<fired, call, reqCtx, holds>>
    BY <1>6 DEF CollectorJudge, schedVars, callVars
  <2>2. \A a \in Attackers : atk[a] = "wait" => atk'[a] = "wait"
    BY <1>6 DEF CollectorJudge, ScaleAttackers
  <2> QED BY <1>1, <2>1, <2>2 DEF Awaited
<1> QED
  BY <1>3, <1>4, <1>5, <1>6, FireOrphans, AttackerOrphans, RequestOrphans
  DEF Next, Scheduler, Collector, Terminated

\* Whenever Do runs with nobody waiting for it, its context has told it to return
\* (attack.go:44-52), though the attacker may have called it again meanwhile.
THEOREM OrphansAreCancelled == Spec => []OrphansCancelled
<1>1. Init => OrphansCancelled
  BY DEF Init, OrphansCancelled
<1> QED BY <1>1, StepOrphans, TypeCorrect, PTL DEF Spec

-----------------------------------------------------------------------------
(* Queues *)

\* An element joins the end of the second of two queues.
LEMMA ConcatAppend ==
  ASSUME NEW S, NEW s \in Seq(S), NEW t \in Seq(S), NEW e \in S
  PROVE  s \o Append(t, e) = Append(s \o t, e)
<1>1. /\ s \o t \in Seq(S) /\ Append(t, e) \in Seq(S)
      /\ s \o Append(t, e) \in Seq(S) /\ Append(s \o t, e) \in Seq(S)
  BY ConcatProperties, AppendProperties
<1>2. /\ Len(s \o Append(t, e)) = Len(s) + Len(t) + 1
      /\ Len(Append(s \o t, e)) = Len(s) + Len(t) + 1
  BY <1>1, ConcatProperties, AppendProperties
<1>3. ASSUME NEW i \in 1 .. Len(s) + Len(t) + 1
      PROVE  (s \o Append(t, e))[i] = Append(s \o t, e)[i]
  <2>1. Len(s) \in Nat /\ Len(t) \in Nat
    BY LenProperties
  <2>2. (s \o Append(t, e))[i] = IF i <= Len(s) THEN s[i] ELSE Append(t, e)[i - Len(s)]
    <3> DEFINE u == Append(t, e)
    <3>1. u \in Seq(S) /\ Len(u) = Len(t) + 1
      BY QueueAppend
    <3> HIDE DEF u
    <3>2. i \in 1 .. Len(s) + Len(u)
      BY <2>1, <3>1
    <3>3. (s \o u)[i] = IF i <= Len(s) THEN s[i] ELSE u[i - Len(s)]
      BY <3>1, <3>2, ConcatProperties
    <3> QED BY <3>3 DEF u
  <2>3. CASE i <= Len(s) + Len(t)
    <3>1. Append(s \o t, e)[i] = IF i <= Len(s) THEN s[i] ELSE t[i - Len(s)]
      BY <1>1, <2>1, <2>3, ConcatProperties, QueueAppend
    <3>2. i > Len(s) => Append(t, e)[i - Len(s)] = t[i - Len(s)]
      BY <2>1, <2>3, QueueAppend
    <3> QED BY <2>1, <2>2, <3>1, <3>2
  <2>4. CASE i = Len(s) + Len(t) + 1
    <3>1. Append(s \o t, e)[i] = e
      BY <1>1, <2>1, <2>4, ConcatProperties, QueueAppend
    <3>2. i - Len(s) = Len(t) + 1 /\ ~(i <= Len(s))
      BY <2>1, <2>4
    <3> QED BY <2>2, <3>1, <3>2, QueueAppend
  <2> QED BY <2>1, <2>3, <2>4
<1> QED BY <1>1, <1>2, <1>3, SeqEqual

\* The first element of the second queue moves to the end of the first.
LEMMA ConcatMove ==
  ASSUME NEW S, NEW s \in Seq(S), NEW t \in Seq(S), t # <<>>
  PROVE  Append(s, Head(t)) \o Tail(t) = s \o t
<1>1. /\ Head(t) \in S /\ Head(t) = t[1] /\ Tail(t) \in Seq(S)
      /\ Len(t) \in Nat \ {0} /\ Len(Tail(t)) = Len(t) - 1
      /\ \A i \in 1 .. Len(t) - 1 : Tail(t)[i] = t[i + 1]
  BY QueueTail
<1>2. /\ Append(s, Head(t)) \in Seq(S)
      /\ Len(Append(s, Head(t))) = Len(s) + 1
      /\ \A i \in 1 .. Len(s) : Append(s, Head(t))[i] = s[i]
      /\ Append(s, Head(t))[Len(s) + 1] = Head(t)
  BY <1>1, QueueAppend
<1> DEFINE u == Append(s, Head(t))
           v == Tail(t)
<1>3. Len(s) \in Nat
  OBVIOUS
<1> HIDE DEF u, v
<1>4. /\ u \o v \in Seq(S) /\ s \o t \in Seq(S)
      /\ Len(u \o v) = Len(s) + Len(t)
      /\ Len(s \o t) = Len(s) + Len(t)
  BY <1>1, <1>2, <1>3, ConcatProperties DEF u, v
<1>5. ASSUME NEW i \in 1 .. Len(s) + Len(t)
      PROVE  (u \o v)[i] = (s \o t)[i]
  <2>1. (s \o t)[i] = IF i <= Len(s) THEN s[i] ELSE t[i - Len(s)]
    BY ConcatProperties
  <2>2. (u \o v)[i] = IF i <= Len(s) + 1 THEN u[i] ELSE v[i - (Len(s) + 1)]
    BY <1>1, <1>2, <1>3, ConcatProperties DEF u, v
  <2>3. CASE i <= Len(s)
    BY <1>2, <1>3, <2>1, <2>2, <2>3 DEF u
  <2>4. CASE i = Len(s) + 1
    BY <1>1, <1>2, <1>3, <2>1, <2>2, <2>4 DEF u
  <2>5. CASE i > Len(s) + 1
    <3>1. i - (Len(s) + 1) \in 1 .. Len(t) - 1
      BY <1>1, <1>3, <2>5
    <3>2. v[i - (Len(s) + 1)] = t[i - Len(s)]
      BY <1>1, <1>3, <3>1 DEF v
    <3> QED BY <1>3, <2>1, <2>2, <2>5, <3>2
  <2>6. i <= Len(s) \/ i = Len(s) + 1 \/ i > Len(s) + 1
    BY <1>1, <1>3
  <2> QED BY <2>3, <2>4, <2>5, <2>6
<1> QED BY <1>4, <1>5, SeqEqual DEF u, v

-----------------------------------------------------------------------------
(* The stream *)

\* The reader of the stream leaves only an empty, closed queue.
ReaderLast == Stream /\ str = "exited" => col = "exited" /\ OutResults = <<>>

\* The batches taken and queued are the reported ones, and the one being judged.
Carried ==
  Stream => taken \o OutResults =
              IF col = "judge" THEN Append(reports, Batch(cur)) ELSE reports

\* What was passed on are the first batches taken, all of them but the one in hand
\* until the stream breaks.
PassedOn ==
  /\ Len(sent) + (IF str = "send" THEN 1 ELSE 0) <= Len(taken)
  /\ \A i \in 1 .. Len(sent) : sent[i].batch = taken[i]
  /\ ~broken => Len(taken) = Len(sent) + (IF str = "send" THEN 1 ELSE 0)

StreamInv == ReaderLast /\ Carried /\ PassedOn

LEMMA InitStreamInv == Init => StreamInv
<1>1. <<>> \o <<>> = <<>>
  BY EmptySeq, ConcatEmptySeq
<1>2. Init => PassedOn
  <2> SUFFICES ASSUME Init PROVE PassedOn
    OBVIOUS
  <2>1. Len(sent) = 0 /\ Len(taken) = 0 /\ str # "send"
    BY DEF Init
  <2> QED BY <2>1 DEF PassedOn
<1> QED BY <1>1, <1>2 DEF Init, StreamInv, ReaderLast, Carried

\* The collector puts a batch into the queue and judges it next.
LEMMA StreamStreamInv ==
  ASSUME TypeOK, StreamInv, CollectorStream
  PROVE  StreamInv'
<1>1. /\ col = "stream" /\ col' = "judge"
      /\ OutResults' = Append(OutResults, Batch(cur))
      /\ UNCHANGED <<taken, sent, broken, str, reports, cur, samples>>
  BY DEF CollectorStream, strVars
<1>2. Batch(cur) \in Batches
  BY <1>1, BatchTyped DEF TypeOK, CollectorTyped, Ticks
<1>3. taken \o OutResults' = Append(taken \o OutResults, Batch(cur))
  BY <1>1, <1>2, ConcatAppend DEF TypeOK, StreamTyped
<1>4. Batch(cur)' = Batch(cur)
  BY <1>1 DEF Batch
<1> QED BY <1>1, <1>3, <1>4 DEF StreamInv, ReaderLast, Carried, PassedOn

\* streamResults takes a batch out of the queue.
LEMMA TakeStreamInv ==
  ASSUME TypeOK, StreamInv, StreamerTake
  PROVE  StreamInv'
<1>1. /\ OutResults # <<>> /\ str = "recv" /\ str' = "send"
      /\ OutResults' = Tail(OutResults)
      /\ taken' = Append(taken, Head(OutResults))
      /\ UNCHANGED <<col, reports, cur, samples, sent, broken>>
  BY DEF StreamerTake, colVars
<1>2. taken' \o OutResults' = taken \o OutResults
  BY <1>1, ConcatMove DEF TypeOK, StreamTyped
<1>3. Batch(cur)' = Batch(cur)
  BY <1>1 DEF Batch
<1>4. /\ Len(taken) \in Nat /\ Len(sent) \in Nat /\ Len(taken') = Len(taken) + 1
      /\ \A i \in 1 .. Len(taken) : taken'[i] = taken[i]
  BY <1>1, QueueTail, QueueAppend, LenProperties DEF TypeOK, StreamTyped
<1>5. Len(sent) <= Len(taken) /\ \A i \in 1 .. Len(sent) : sent[i].batch = taken[i]
  BY <1>1 DEF StreamInv, PassedOn
<1>6. \A i \in 1 .. Len(sent) : i \in 1 .. Len(taken)
  BY <1>4, <1>5
<1>7. PassedOn'
  BY <1>1, <1>4, <1>5, <1>6 DEF StreamInv, PassedOn
<1> QED BY <1>1, <1>2, <1>3, <1>7 DEF StreamInv, ReaderLast, Carried

\* streamResults passes it on, or finds the stream broken.
LEMMA SendStreamInv ==
  ASSUME TypeOK, StreamInv, StreamerSend
  PROVE  StreamInv'
<1>1. /\ str = "send" /\ str' = "check"
      /\ UNCHANGED <<taken, OutResults, col, reports, cur, samples>>
  BY DEF StreamerSend, colVars
<1>2. PICK fate \in Fates :
        /\ broken => fate = "lost"
        /\ sent' = IF fate = "lost" THEN sent
                   ELSE Append(sent, [batch |-> taken[Len(taken)], coded |-> fate])
        /\ broken' = (fate = "lost")
  BY ReportAssumption DEF StreamerSend, Fates
<1>3. Len(taken) \in Nat /\ Len(sent) \in Nat /\ sent \in Seq(Chunks)
  BY LenProperties DEF TypeOK, StreamTyped
<1>4. /\ Len(sent) + 1 <= Len(taken)
      /\ \A i \in 1 .. Len(sent) : sent[i].batch = taken[i]
      /\ ~broken => Len(taken) = Len(sent) + 1
  BY <1>1 DEF StreamInv, PassedOn
<1>5. PassedOn'
  <2>1. CASE fate = "lost"
    <3>1. sent' = sent /\ broken' = TRUE
      BY <1>2, <2>1
    <3> QED BY <1>1, <1>3, <1>4, <3>1 DEF PassedOn
  <2>2. CASE fate # "lost"
    <3> DEFINE e == [batch |-> taken[Len(taken)], coded |-> fate]
    <3>1. sent' = Append(sent, e) /\ broken' = FALSE /\ ~broken /\ Len(taken) = Len(sent) + 1
      BY <1>2, <1>4, <2>2
    <3>2. e \in Chunks
      <4>1. taken[Len(taken)] \in Batches
        BY <1>1, EmptySeq, LenProperties DEF TypeOK, StreamTyped
      <4> QED BY <4>1 DEF Chunks
    <3>3. e.batch = taken[Len(taken)]
      OBVIOUS
    <3> HIDE DEF e
    <3>4. /\ Len(sent') = Len(sent) + 1
          /\ \A i \in 1 .. Len(sent) : sent'[i] = sent[i]
          /\ sent'[Len(sent) + 1] = e
      BY <1>3, <3>1, <3>2, QueueAppend
    <3>5. \A i \in 1 .. Len(sent') : i = Len(sent) + 1 \/ i \in 1 .. Len(sent)
      BY <1>3, <3>4
    <3>6. \A i \in 1 .. Len(sent') : sent'[i].batch = taken[i]
      BY <1>4, <3>1, <3>3, <3>4, <3>5
    <3> QED BY <1>1, <1>3, <3>1, <3>4, <3>6 DEF PassedOn
  <2> QED BY <2>1, <2>2
<1>6. Batch(cur)' = Batch(cur)
  BY <1>1 DEF Batch
<1> QED BY <1>1, <1>5, <1>6 DEF StreamInv, ReaderLast, Carried

\* The collector moves on without touching the queue.
LEMMA CollectorStreamInv ==
  ASSUME TypeOK, StreamInv, CollectorStop \/ CollectorReceive \/ CollectorJudge
  PROVE  StreamInv'
<1>1. UNCHANGED <<OutResults, taken, sent, broken, str>>
  BY DEF CollectorStop, CollectorReceive, CollectorJudge, strVars
<1>2. CASE CollectorStop
  BY <1>1, <1>2 DEF CollectorStop, StreamInv, ReaderLast, Carried, PassedOn
<1>3. CASE CollectorReceive
  <2>1. col = "select" /\ (Stream => col' \in {"select", "stream"}) /\ reports' = reports
    BY <1>3 DEF CollectorReceive
  <2> QED BY <1>1, <2>1 DEF StreamInv, ReaderLast, Carried, PassedOn
<1>4. CASE CollectorJudge
  <2>1. /\ col = "judge" /\ col' = "select"
        /\ reports' = Append(reports, Batch(cur))
    BY <1>4 DEF CollectorJudge
  <2> QED BY <1>1, <2>1 DEF StreamInv, ReaderLast, Carried, PassedOn
<1> QED BY <1>2, <1>3, <1>4

\* The steps of everybody else leave the batches where they are.
LEMMA OtherStreamInv ==
  ASSUME StreamInv,
         \/ Scheduler
         \/ \E a \in Attackers : Attacker(a)
         \/ \E id \in Ids : Request(id)
         \/ StreamerCheck \/ StreamerStop \/ Main \/ Timeout \/ SignalReceive
         \/ SignalHandler \/ UNCHANGED vars
  PROVE  StreamInv'
<1>1. UNCHANGED <<OutResults, taken, sent, broken, col, reports, cur, samples>>
  BY DEF Scheduler, SchedulerExit, SchedulerTake, SchedulerRetry, SchedulerFire,
         Attacker, AttackerStop, AttackAbandon, AttackTimeout, AttackAnswer,
         AttackDeliver, Request, DeadlineExpires, DoReturns, StreamerCheck,
         StreamerStop, Main, MainDone, MainReturn, Timeout, SignalReceive,
         SignalHandler, SignalExit, SignalStop, vars, colVars, strVars
<1>2. str' # "exited" \/ str' = str \/ (col = "exited" /\ OutResults = <<>>)
  BY DEF Scheduler, SchedulerExit, SchedulerTake, SchedulerRetry, SchedulerFire,
         Attacker, AttackerStop, AttackAbandon, AttackTimeout, AttackAnswer,
         AttackDeliver, Request, DeadlineExpires, DoReturns, StreamerCheck,
         StreamerStop, Main, MainDone, MainReturn, Timeout, SignalReceive,
         SignalHandler, SignalExit, SignalStop, vars, strVars
<1>3. str' = "send" <=> str = "send"
  BY DEF Scheduler, SchedulerExit, SchedulerTake, SchedulerRetry, SchedulerFire,
         Attacker, AttackerStop, AttackAbandon, AttackTimeout, AttackAnswer,
         AttackDeliver, Request, DeadlineExpires, DoReturns, StreamerCheck,
         StreamerStop, Main, MainDone, MainReturn, Timeout, SignalReceive,
         SignalHandler, SignalExit, SignalStop, vars, strVars
<1>4. Batch(cur)' = Batch(cur)
  BY <1>1 DEF Batch
<1> QED BY <1>1, <1>2, <1>3, <1>4 DEF StreamInv, ReaderLast, Carried, PassedOn

LEMMA StepStreamInv == TypeOK /\ StreamInv /\ [Next]_vars => StreamInv'
BY StreamStreamInv, TakeStreamInv, SendStreamInv, CollectorStreamInv, OtherStreamInv
DEF Next, Collector, Streamer, Terminated

\* streamResults takes what the run reports, batch by batch and in the same order,
\* also when the run is cancelled with batches still queued, and passes it on until
\* the stream breaks (runner.go:286, 338-340, service.go:41-50).
THEOREM StreamIsWhole == Spec => []StreamCarriesReports
<1>1. StreamInv /\ TypeOK => StreamCarriesReports
  <2> SUFFICES ASSUME StreamInv, TypeOK, Stream PROVE StreamCarriesReports
    BY DEF StreamCarriesReports
  <2>1. ASSUME NEW S, NEW s \in Seq(S) PROVE s \o <<>> = s
    BY ConcatEmptySeq
  <2>2. str = "exited" => taken = reports
    BY <2>1 DEF StreamInv, ReaderLast, Carried, TypeOK, StreamTyped
  <2>3. Len(sent) \in Nat /\ Len(taken) \in Nat /\ DOMAIN sent = 1 .. Len(sent)
    BY LenProperties DEF TypeOK, StreamTyped
  <2>4. Len(sent) <= Len(taken)
    BY <2>3 DEF StreamInv, PassedOn
  <2> QED BY <2>2, <2>3, <2>4 DEF StreamInv, Carried, PassedOn, StreamCarriesReports
<1> QED BY <1>1, InitStreamInv, StepStreamInv, TypeCorrect, PTL DEF Spec

-----------------------------------------------------------------------------
(* Failures *)

\* The reported ticks that failed the run.
BadReports == {i \in DOMAIN reports : BelowRatio(reports[i])}

LEMMA JudgeCounts ==
  ASSUME TypeOK, FailuresCancel, CollectorJudge
  PROVE  FailuresCancel'
<1> DEFINE n == Len(reports)
           b == Batch(cur)
<1>1. /\ col = "judge"
      /\ reports' = Append(reports, b)
      /\ IF BelowRatio(samples[cur]) THEN Failed' = Failed + 1 /\ cancelled' = TRUE
                                     ELSE UNCHANGED <<Failed, cancelled>>
  BY DEF CollectorJudge, Fail
<1>2. b \in Batches
  BY <1>1, BatchTyped DEF TypeOK, CollectorTyped, Ticks
<1>3. BelowRatio(b) <=> BelowRatio(samples[cur])
  BY DEF Batch, BelowRatio
<1> HIDE DEF b
<1>4. /\ n \in Nat
      /\ DOMAIN reports = 1 .. n
      /\ DOMAIN reports' = 1 .. n + 1
      /\ \A i \in 1 .. n : reports'[i] = reports[i]
      /\ reports'[n + 1] = b
  BY <1>1, <1>2, QueueAppend DEF TypeOK, CollectorTyped
<1>5. BadReports' = IF BelowRatio(b) THEN BadReports \cup {n + 1} ELSE BadReports
  <2>1. \A i \in 1 .. n + 1 : i = n + 1 \/ i \in 1 .. n
    BY <1>4
  <2>2. \A i \in 1 .. n : BelowRatio(reports'[i]) <=> BelowRatio(reports[i])
    BY <1>4
  <2>3. BelowRatio(reports'[n + 1]) <=> BelowRatio(b)
    BY <1>4
  <2>4. BadReports' = {i \in 1 .. n + 1 : BelowRatio(reports'[i])}
    BY <1>4 DEF BadReports, BelowRatio
  <2>5. BadReports = {i \in 1 .. n : BelowRatio(reports[i])}
    BY <1>4 DEF BadReports
  <2> HIDE DEF n
  <2>6. n + 1 \in 1 .. n + 1 /\ \A i \in 1 .. n : i \in 1 .. n + 1
    BY <1>4 DEF n
  <2>7. CASE BelowRatio(b)
    BY <2>1, <2>2, <2>3, <2>4, <2>5, <2>6, <2>7
  <2>8. CASE ~BelowRatio(b)
    BY <2>1, <2>2, <2>3, <2>4, <2>5, <2>6, <2>8
  <2> QED BY <2>7, <2>8
<1>6. /\ IsFiniteSet(BadReports) /\ n + 1 \notin BadReports
      /\ Cardinality(BadReports) = Failed /\ Failed \in Nat
  <2>1. IsFiniteSet(1 .. n) /\ BadReports \in SUBSET (1 .. n)
    BY <1>4, FS_Interval DEF BadReports
  <2>2. IsFiniteSet(BadReports)
    BY <2>1, FS_Subset
  <2>3. n + 1 \notin 1 .. n
    BY <1>4
  <2> QED BY <2>1, <2>2, <2>3 DEF FailuresCancel, BadReports, TypeOK, CollectorTyped
<1>7. Cardinality(BadReports') = IF BelowRatio(b) THEN Failed + 1 ELSE Failed
  BY <1>5, <1>6, FS_AddElement
<1>8. Failed' = Cardinality(BadReports') /\ (Failed' > 0 => cancelled')
  BY <1>1, <1>3, <1>6, <1>7 DEF FailuresCancel
<1> QED BY <1>8 DEF FailuresCancel, BadReports, BelowRatio

\* No other step reports a tick, counts a failure or takes a cancellation back.
LEMMA StepCounts == TypeOK /\ FailuresCancel /\ [Next]_vars => FailuresCancel'
<1> SUFFICES ASSUME TypeOK, FailuresCancel, [Next]_vars
             PROVE  FailuresCancel'
  OBVIOUS
<1>1. CASE CollectorJudge
  BY <1>1, JudgeCounts
<1>2. ASSUME UNCHANGED <<reports, Failed>>, cancelled => cancelled'
      PROVE  FailuresCancel'
  BY <1>2 DEF FailuresCancel, BelowRatio
<1>3. CASE \/ SchedulerExit \/ SchedulerTake \/ SchedulerRetry
           \/ \E a \in Attackers : SchedulerFire(a) \/ Attacker(a)
           \/ \E id \in Ids : Request(id)
  BY <1>2, <1>3
  DEF SchedulerExit, SchedulerTake, SchedulerRetry, SchedulerFire, Attacker,
      AttackerStop, AttackAbandon, AttackTimeout, AttackAnswer, AttackDeliver,
      Request, DeadlineExpires, DoReturns, ctxVars, colVars
<1>4. CASE CollectorStop \/ CollectorReceive \/ CollectorStream \/ Streamer
  BY <1>2, <1>4
  DEF CollectorStop, CollectorReceive, CollectorStream, Streamer, StreamerTake, StreamerSend,
      StreamerCheck, StreamerStop, ctxVars, colVars
<1>5. CASE Main \/ Timeout \/ SignalReceive \/ SignalHandler \/ UNCHANGED vars
  BY <1>2, <1>5
  DEF Main, MainDone, MainReturn, Timeout, SignalReceive, SignalHandler, SignalExit,
      SignalStop, vars, ctxVars, colVars
<1> QED BY <1>1, <1>3, <1>4, <1>5 DEF Next, Scheduler, Collector, Terminated

\* Failed counts the reported ticks below SuccessRatio, and from the first of them
\* on the run is cancelled (runner.go:345-349), whoever else cancels it.
THEOREM FailuresEndRun == Spec => []FailuresCancel
<1>1. Init => FailuresCancel
  <2>1. ASSUME Init PROVE {i \in DOMAIN reports : BelowRatio(reports[i])} = {}
    BY <2>1 DEF Init
  <2> QED BY <2>1, FS_EmptySet DEF Init, FailuresCancel
<1> QED BY <1>1, StepCounts, TypeCorrect, PTL DEF Spec

-----------------------------------------------------------------------------
(* The refinement of StreamedRun, for runs with a stream *)

\* What StreamedRun sees of a queue of batches, of the ticks that had one, and of
\* the batch being judged.
View(q) == [i \in DOMAIN q |-> Streamed(q[i])]
Emitted == IF col = "judge" THEN ReportedTicks \cup {cur} ELSE ReportedTicks
Pending == col = "judge" /\ BelowRatio(Batch(cur))

LEMMA ViewSeq ==
  ASSUME NEW q \in Seq(Batches)
  PROVE  View(q) \in Seq([tick : Nat, bad : BOOLEAN]) /\ Len(View(q)) = Len(q)
<1>1. /\ Len(q) \in Nat /\ DOMAIN q = 1 .. Len(q)
      /\ \A i \in 1 .. Len(q) : q[i].tick \in Nat
  <2>1. \A i \in 1 .. Len(q) : q[i] \in Batches
    <3> HIDE DEF Batches
    <3> QED OBVIOUS
  <2> QED BY <2>1, LenProperties DEF Batches
<1>2. \A i \in 1 .. Len(q) : Streamed(q[i]) \in [tick : Nat, bad : BOOLEAN]
  BY <1>1 DEF Streamed, BelowRatio
<1>3. View(q) \in [1 .. Len(q) -> [tick : Nat, bad : BOOLEAN]]
  BY <1>1, <1>2 DEF View
<1> DEFINE S == [tick : Nat, bad : BOOLEAN]
           n == Len(q)
           v == View(q)
<1>4. v \in [1 .. n -> S] /\ n \in Nat
  BY <1>1, <1>3
<1> HIDE DEF S, n, v
<1>5. v \in Seq(S)
  BY <1>4, SeqDef
<1>6. Len(v) = n
  BY <1>4, <1>5, LenProperties
<1> QED BY <1>5, <1>6 DEF S, n, v

LEMMA ViewAppend ==
  ASSUME NEW q \in Seq(Batches), NEW b \in Batches
  PROVE  View(Append(q, b)) = Append(View(q), Streamed(b))
<1> DEFINE S == [tick : Nat, bad : BOOLEAN]
           r == Append(q, b)
<1>1. /\ r \in Seq(Batches) /\ Len(r) = Len(q) + 1
      /\ r[Len(q) + 1] = b
      /\ \A i \in 1 .. Len(q) : r[i] = q[i]
      /\ Len(q) \in Nat
  BY QueueAppend
<1> HIDE DEF r
<1>2. /\ View(r) \in Seq(S) /\ Len(View(r)) = Len(q) + 1
      /\ View(q) \in Seq(S) /\ Len(View(q)) = Len(q)
  BY <1>1, ViewSeq
<1>3. Streamed(b) \in S
  BY DEF Streamed, Batches, BelowRatio
<1>4. /\ Append(View(q), Streamed(b)) \in Seq(S)
      /\ Len(Append(View(q), Streamed(b))) = Len(q) + 1
      /\ \A i \in 1 .. Len(q) : Append(View(q), Streamed(b))[i] = View(q)[i]
      /\ Append(View(q), Streamed(b))[Len(q) + 1] = Streamed(b)
  <2> HIDE DEF S
  <2> QED BY <1>2, <1>3, QueueAppend
<1>5. /\ \A i \in 1 .. Len(q) : View(q)[i] = Streamed(q[i])
      /\ \A i \in 1 .. Len(q) + 1 : View(r)[i] = Streamed(r[i])
  BY <1>1, LenProperties DEF View
<1>6. \A i \in 1 .. Len(q) + 1 : View(r)[i] = Append(View(q), Streamed(b))[i]
  <2> SUFFICES ASSUME NEW i \in 1 .. Len(q) + 1
               PROVE  View(r)[i] = Append(View(q), Streamed(b))[i]
    OBVIOUS
  <2>1. CASE i = Len(q) + 1
    BY <1>1, <1>4, <1>5, <2>1
  <2>2. CASE i \in 1 .. Len(q)
    BY <1>1, <1>4, <1>5, <2>2
  <2>3. i = Len(q) + 1 \/ i \in 1 .. Len(q)
    BY <1>1
  <2> QED BY <2>1, <2>2, <2>3
<1> HIDE DEF S
<1> QED BY <1>2, <1>4, <1>6, SeqEqual DEF r

LEMMA ViewTail ==
  ASSUME NEW q \in Seq(Batches), q # <<>>
  PROVE  View(q) # <<>> /\ View(Tail(q)) = Tail(View(q))
<1> DEFINE S == [tick : Nat, bad : BOOLEAN]
           r == Tail(q)
           n == Len(q)
<1>1. /\ r \in Seq(Batches) /\ Len(r) = n - 1 /\ n \in Nat \ {0}
      /\ \A i \in 1 .. n - 1 : r[i] = q[i + 1]
  BY QueueTail
<1> HIDE DEF r
<1>2. /\ View(r) \in Seq(S) /\ Len(View(r)) = n - 1
      /\ View(q) \in Seq(S) /\ Len(View(q)) = n
  BY <1>1, ViewSeq
<1> HIDE DEF S
<1>3. View(q) # <<>>
  BY <1>1, <1>2, EmptySeq
<1>4. /\ Tail(View(q)) \in Seq(S) /\ Len(Tail(View(q))) = n - 1
      /\ \A i \in 1 .. n - 1 : Tail(View(q))[i] = View(q)[i + 1]
  BY <1>2, <1>3, QueueTail
<1>5. /\ \A i \in 1 .. n : View(q)[i] = Streamed(q[i])
      /\ \A i \in 1 .. n - 1 : View(r)[i] = Streamed(r[i])
  BY <1>1, LenProperties DEF View
<1>6. \A i \in 1 .. n - 1 : View(r)[i] = Tail(View(q))[i]
  <2> SUFFICES ASSUME NEW i \in 1 .. n - 1 PROVE View(r)[i] = Tail(View(q))[i]
    OBVIOUS
  <2>1. i + 1 \in 1 .. n
    BY <1>1
  <2> QED BY <1>1, <1>4, <1>5, <2>1
<1> QED BY <1>2, <1>3, <1>4, <1>6, SeqEqual DEF r

\* The view depends on these variables only.
LEMMA ViewFrame ==
  ASSUME UNCHANGED <<col, cur, samples, reports, OutResults, Failed, cancelled>>
  PROVE  UNCHANGED (StreamView!vars)
BY DEF StreamView!vars, ReportedTicks, Batch, BelowRatio, Streamed

\* Queueing the batch of a tick is the emission of a tick that had no batch before.
LEMMA StreamEmits ==
  ASSUME IInv, CollectorStream
  PROVE  StreamView!Emit
<1> USE DEF IInv, TypeOK
<1>1. /\ col = "stream" /\ col' = "judge"
      /\ Len(OutResults) < OutResultsCapacity
      /\ OutResults' = Append(OutResults, Batch(cur))
      /\ UNCHANGED <<reports, cur, samples, Failed, cancelled>>
  BY DEF CollectorStream, ctxVars
<1>2. cur \in Ticks /\ Batch(cur) \in Batches
  BY <1>1, BatchTyped DEF CollectorTyped, Ticks
<1>3. cur \notin ReportedTicks
  <2>1. samples[cur].ids # {}
    BY <1>1 DEF CompleteTick
  <2>2. DOMAIN reports = 1 .. Len(reports)
    BY DEF CollectorTyped
  <2> QED BY <2>1, <2>2 DEF ReportedTicks, ReportedTicksClosed
<1>4. /\ View(OutResults') = Append(View(OutResults), Streamed(Batch(cur)))
      /\ Len(View(OutResults)) < OutResultsCapacity
  BY <1>1, <1>2, ViewAppend, ViewSeq DEF StreamTyped
<1>5. /\ ReportedTicks' = ReportedTicks
      /\ Batch(cur)' = Batch(cur)
      /\ BelowRatio(Batch(cur))' <=> BelowRatio(Batch(cur))
  BY <1>1 DEF ReportedTicks, Batch, BelowRatio
<1>6. Streamed(Batch(cur)) = [tick |-> cur, bad |-> BelowRatio(Batch(cur))]
  BY DEF Streamed, Batch
<1> DEFINE bad == BelowRatio(Batch(cur))
<1>7. bad \in BOOLEAN
  BY DEF BelowRatio
<1> HIDE DEF bad
<1>8. /\ cur \in Ticks \ Emitted
      /\ Emitted' = Emitted \cup {cur}
      /\ View(OutResults)' = Append(View(OutResults), [tick |-> cur, bad |-> bad])
      /\ Pending' = bad
      /\ ~Pending
  <2>1. Emitted = ReportedTicks /\ Emitted' = ReportedTicks \cup {cur}
    BY <1>1, <1>5 DEF Emitted
  <2>2. View(OutResults)' = View(OutResults')
    BY DEF View, Streamed, BelowRatio
  <2>3. Pending' = bad /\ ~Pending
    BY <1>1, <1>5, <1>7 DEF Pending, bad
  <2> QED BY <1>2, <1>3, <1>4, <1>6, <2>1, <2>2, <2>3 DEF bad
<1> QED
  BY <1>1, <1>4, <1>7, <1>8 DEF StreamView!Emit, Emitted, View, Pending

\* Judging a tick below the ratio is the failure its batch has announced.
LEMMA JudgeFails ==
  ASSUME IInv, CollectorJudge
  PROVE  StreamView!Fail \/ UNCHANGED (StreamView!vars)
<1>1. /\ col = "judge" /\ col' = "select"
      /\ OutResults' = OutResults
      /\ IF BelowRatio(samples[cur]) THEN Failed' = Failed + 1 /\ cancelled' = TRUE
                                     ELSE UNCHANGED <<Failed, cancelled>>
  BY DEF CollectorJudge, Fail
<1>2. BelowRatio(Batch(cur)) <=> BelowRatio(samples[cur])
  BY DEF Batch, BelowRatio
<1>3. ReportedTicks' = ReportedTicks \cup {cur}
  BY JudgeReports
<1>4. /\ View(OutResults)' = View(OutResults)
      /\ Emitted' = Emitted
      /\ Pending' = FALSE
  BY <1>1, <1>3 DEF Emitted, View, Streamed, BelowRatio, Pending
<1>5. CASE BelowRatio(samples[cur])
  BY <1>1, <1>2, <1>4, <1>5 DEF StreamView!Fail, Emitted, View, Pending
<1>6. CASE ~BelowRatio(samples[cur])
  <2>1. Pending = FALSE
    BY <1>2, <1>6 DEF Pending
  <2> QED BY <1>1, <1>4, <1>6, <2>1 DEF StreamView!vars, Emitted, View, Pending
<1> QED BY <1>5, <1>6

\* streamResults takes a batch.
LEMMA TakeTakes ==
  ASSUME IInv, StreamerTake
  PROVE  StreamView!Take
<1>1. /\ OutResults # <<>> /\ OutResults' = Tail(OutResults)
      /\ UNCHANGED <<col, cur, samples, reports, Failed, cancelled>>
  BY DEF StreamerTake, colVars, ctxVars
<1>2. View(OutResults) # <<>> /\ View(Tail(OutResults)) = Tail(View(OutResults))
  BY <1>1, ViewTail DEF IInv, TypeOK, StreamTyped
<1>3. View(OutResults)' = Tail(View(OutResults))
  <2>1. View(OutResults)' = View(OutResults')
    BY DEF View, Streamed, BelowRatio
  <2> QED BY <1>1, <1>2, <2>1
<1>4. Emitted' = Emitted /\ Pending' = Pending
  BY <1>1 DEF Emitted, Pending, ReportedTicks, Batch, BelowRatio
<1> QED BY <1>1, <1>2, <1>3, <1>4 DEF StreamView!Take, Emitted, View, Pending

\* The end of the test, a signal, and streamResults itself cancel the run.
LEMMA OthersCancelRun ==
  ASSUME cancelled' = TRUE,
         UNCHANGED <<col, cur, samples, reports, OutResults, Failed>>
  PROVE  StreamView!Cancel
BY DEF StreamView!Cancel, ReportedTicks, Batch, BelowRatio, Streamed

\* The collector closes the queue once the run is cancelled.
LEMMA StopCloses ==
  ASSUME CollectorStop
  PROVE  StreamView!Close
<1>1. /\ col = "select" /\ cancelled /\ col' = "exited"
      /\ UNCHANGED <<cur, samples, reports, OutResults, Failed, cancelled>>
  BY DEF CollectorStop, ctxVars
<1>2. Emitted' = Emitted /\ Pending' = Pending /\ View(OutResults)' = View(OutResults)
  BY <1>1 DEF Emitted, Pending, ReportedTicks, View, Streamed, BelowRatio
<1> QED BY <1>1, <1>2 DEF StreamView!Close, Emitted, View, Pending

\* A result taken with the stream on completes a tick for the queue, not for the
\* judgement; nothing of the view changes.
LEMMA ReceiveStutters ==
  ASSUME Stream, CollectorReceive
  PROVE  UNCHANGED (StreamView!vars)
<1>1. /\ col = "select" /\ col' \in {"select", "stream"}
      /\ UNCHANGED <<reports, OutResults, Failed, cancelled>>
  BY DEF CollectorReceive, ctxVars
<1>2. Emitted' = Emitted /\ Pending' = Pending /\ View(OutResults)' = View(OutResults)
  BY <1>1 DEF Emitted, Pending, ReportedTicks, View, Streamed, BelowRatio
<1> QED BY <1>1, <1>2 DEF StreamView!vars, Emitted, View, Pending

LEMMA StepStreams ==
  ASSUME Stream
  PROVE  IInv /\ [Next]_vars => [StreamView!Next]_(StreamView!vars)
<1> SUFFICES ASSUME IInv, [Next]_vars
             PROVE  [StreamView!Next]_(StreamView!vars)
  OBVIOUS
<1>1. CASE Collector
  BY <1>1, StreamEmits, JudgeFails, StopCloses, ReceiveStutters DEF Collector, StreamView!Next
<1>2. CASE StreamerTake
  BY <1>2, TakeTakes DEF StreamView!Next
<1>3. CASE StreamerCheck
  <2>1. UNCHANGED <<col, cur, samples, reports, OutResults, Failed>>
        /\ cancelled' = (cancelled \/ Failed = 1)
    BY <1>3 DEF StreamerCheck, colVars
  <2>2. CASE cancelled' = TRUE
    BY <2>1, <2>2, OthersCancelRun DEF StreamView!Next
  <2>3. CASE cancelled' = cancelled
    BY <2>1, <2>3, ViewFrame
  <2> QED BY <2>1, <2>2, <2>3 DEF IInv, TypeOK, RunTyped
<1>4. CASE Timeout \/ SignalReceive
  <2>1. cancelled' = TRUE /\ UNCHANGED <<col, cur, samples, reports, OutResults, Failed>>
    BY <1>4 DEF Timeout, SignalReceive, colVars
  <2> QED BY <2>1, OthersCancelRun DEF StreamView!Next
<1>5. CASE \/ SchedulerExit \/ SchedulerTake \/ SchedulerRetry
           \/ \E a \in Attackers : SchedulerFire(a) \/ Attacker(a)
           \/ \E id \in Ids : Request(id)
  BY <1>5, ViewFrame
  DEF SchedulerExit, SchedulerTake, SchedulerRetry, SchedulerFire, Attacker,
      AttackerStop, AttackAbandon, AttackTimeout, AttackAnswer, AttackDeliver,
      Request, DeadlineExpires, DoReturns, ctxVars, colVars
<1>6. CASE StreamerSend \/ StreamerStop \/ Main \/ SignalHandler \/ UNCHANGED vars
  BY <1>6, ViewFrame
  DEF StreamerSend, StreamerStop, Main, MainDone, MainReturn, SignalHandler, SignalExit,
      SignalStop, vars, ctxVars, colVars
<1> QED BY <1>1, <1>2, <1>3, <1>4, <1>5, <1>6 DEF Next, Scheduler, Streamer, Terminated

\* A run with a stream is one StreamedRun describes, which is what Node takes it for
\* (service.go:40-57): no tick has two batches, a bad batch fails and cancels the
\* run before the next one is queued, and the queue is closed only after that.
THEOREM RunIsStreamedRun ==
  ASSUME Stream
  PROVE  Spec => RunStreams
<1>1. Init => StreamView!Init
  <2> SUFFICES ASSUME Init PROVE StreamView!Init
    OBVIOUS
  <2>1. ReportedTicks = {} /\ OutResults = <<>>
    BY DEF Init, ReportedTicks
  <2>2. [i \in DOMAIN OutResults |-> Streamed(OutResults[i])] = <<>>
    BY <2>1
  <2> QED BY <2>1, <2>2 DEF Init, StreamView!Init
<1> QED
  BY <1>1, Inductive, StepStreams, PTL DEF Spec, RunStreams, StreamView!Spec
=============================================================================
