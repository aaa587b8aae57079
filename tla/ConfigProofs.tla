---------------------------- MODULE ConfigProofs ----------------------------
(***************************************************************************)
(* Proofs about Config: what a node makes of its share of a test, for any   *)
(* number of nodes and whatever users write.                               *)
(***************************************************************************)
EXTENDS Config, TLAPS

-----------------------------------------------------------------------------
(* Quotients *)

LEMMA QuotientBounds ==
  ASSUME NEW a \in Int
  PROVE  /\ Quotient(a, N) \in Int
         /\ a >= 0 => /\ Quotient(a, N) >= 0
                      /\ N * Quotient(a, N) <= a
                      /\ a < N * Quotient(a, N) + N
         /\ a >= N => Quotient(a, N) > 0
         /\ a = 0 => Quotient(a, N) = 0
         /\ N = 1 => Quotient(a, N) = a
<1>1. N \in Nat \ {0}
  BY ClusterAssumption
<1>2. CASE a >= 0
  BY <1>1, <1>2 DEF Quotient
<1>3. CASE a < 0
  BY <1>1, <1>3 DEF Quotient
<1> QED BY <1>2, <1>3

LEMMA ConfigTyped ==
  ASSUME NEW c \in Configs
  PROVE  c \in Settings /\ c.SystemMode \in SystemModes
BY RangeAssumption DEF Configs, Settings

LEMMA ShareTyped ==
  ASSUME NEW c \in Settings
  PROVE  /\ Share(c) \in Settings
         /\ Share(c).SystemMode = c.SystemMode
         /\ Share(c).Attackers = Quotient(c.Attackers, N)
         /\ Share(c).StartRPS = Quotient(c.StartRPS, N)
         /\ Share(c).StepRPS = Quotient(c.StepRPS, N)
         /\ Share(c).AttackerTimeout = c.AttackerTimeout
         /\ Share(c).StepDurationSec = c.StepDurationSec
         /\ Share(c).TestTimeSec = c.TestTimeSec
         /\ N = 1 => Share(c) = c
<1>1. /\ Quotient(c.Attackers, N) \in Int
      /\ Quotient(c.StartRPS, N) \in Int
      /\ Quotient(c.StepRPS, N) \in Int
      /\ N = 1 => /\ Quotient(c.Attackers, N) = c.Attackers
                  /\ Quotient(c.StartRPS, N) = c.StartRPS
                  /\ Quotient(c.StepRPS, N) = c.StepRPS
  BY QuotientBounds DEF Settings
<1> QED BY <1>1 DEF Share, Settings

LEMMA DefaultsTyped ==
  ASSUME NEW c \in Settings
  PROVE  /\ WithDefaults(c) \in Settings
         /\ WithDefaults(c).SystemMode = c.SystemMode
         /\ WithDefaults(c).Attackers = c.Attackers
         /\ WithDefaults(c).StepRPS = c.StepRPS
         /\ WithDefaults(c).StartRPS =
              IF c.SystemMode = "BoundRPS" /\ c.StartRPS = 0 THEN 10 ELSE c.StartRPS
         /\ WithDefaults(c).StepDurationSec =
              IF c.SystemMode = "BoundRPS" /\ c.StepRPS = 0 THEN 10 ELSE c.StepDurationSec
<1> DEFINE a == IF c.SystemMode = "BoundRPS" /\ c.StartRPS = 0 THEN 10 ELSE c.StartRPS
           b == IF c.SystemMode = "BoundRPS" /\ c.StepRPS = 0 THEN 10
                ELSE c.StepDurationSec
           w == [c EXCEPT !.StartRPS = a, !.StepDurationSec = b]
<1>1. a \in Int /\ b \in Int
  BY DEF Settings
<1>2. WithDefaults(c) = w
  BY DEF WithDefaults, Settings
<1> HIDE DEF a, b
<1>3. /\ w \in Settings
      /\ w.SystemMode = c.SystemMode /\ w.Attackers = c.Attackers
      /\ w.StepRPS = c.StepRPS /\ w.StartRPS = a /\ w.StepDurationSec = b
  BY <1>1 DEF Settings
<1> HIDE DEF w
<1> QED BY <1>2, <1>3 DEF a, b

-----------------------------------------------------------------------------
(* Type correctness *)

LEMMA InitTyped == Init => TypeOK
BY ConfigTyped DEF Init, TypeOK

LEMMA CloseTickTyped ==
  ASSUME TypeOK, NEW n \in Nodes, CloseTick(n)
  PROVE  TypeOK'
<1> USE DEF TypeOK
<1>1. /\ tick' = [tick EXCEPT ![n] = @ + 1]
      /\ UNCHANGED <<testCfg, cfg>>
      /\ phase[n] = "running"
      /\ \/ phase' = [phase EXCEPT ![n] = "panicked"] /\ UNCHANGED <<step, targetRPS>>
         \/ /\ targetRPS' = [targetRPS EXCEPT ![n] = @ + cfg[n].StepRPS]
            /\ \/ phase' = [phase EXCEPT ![n] = "panicked"] /\ UNCHANGED step
               \/ /\ targetRPS'[n] # 0
                  /\ step' = [step EXCEPT ![n] = @ + 1]
                  /\ UNCHANGED phase
         \/ UNCHANGED <<phase, step, targetRPS>>
  BY DEF CloseTick, LimiterPanics
<1>2. cfg[n].StepRPS \in Int
  BY DEF Settings
<1>3. /\ tick' \in [Nodes -> Nat \ {0}]
      /\ step' \in [Nodes -> Nat \ {0}]
      /\ targetRPS' \in [Nodes -> Int]
      /\ phase' \in [Nodes -> {"split", "validate", "default", "start", "running",
                               "exited", "panicked"}]
  BY <1>1, <1>2
<1>4. \A m \in Nodes : step'[m] <= tick'[m]
  BY <1>1
<1>5. \A m \in Nodes : phase'[m] = "running" /\ Limited(cfg[m]) => targetRPS'[m] # 0
  BY <1>1
<1> QED BY <1>1, <1>3, <1>4, <1>5 DEF Limited

LEMMA StepTyped == TypeOK /\ [Next]_vars => TypeOK'
<1> SUFFICES ASSUME TypeOK, [Next]_vars PROVE TypeOK'
  OBVIOUS
<1> USE DEF TypeOK
<1>1. CASE UNCHANGED vars
  BY <1>1 DEF vars, Limited
<1>2. ASSUME NEW n \in Nodes, ConfigToNodes(n) PROVE TypeOK'
  <2>1. Share(testCfg) \in Settings
    BY ConfigTyped, ShareTyped
  <2> QED BY <1>2, <2>1 DEF ConfigToNodes, Limited
<1>3. ASSUME NEW n \in Nodes, Validate(n) PROVE TypeOK'
  BY <1>3 DEF Validate, Limited
<1>4. ASSUME NEW n \in Nodes, DefaultCfgValues(n) PROVE TypeOK'
  <2>1. WithDefaults(cfg[n]) \in Settings
    BY DefaultsTyped
  <2> QED BY <1>4, <2>1 DEF DefaultCfgValues, Limited
<1>5. ASSUME NEW n \in Nodes, Start(n) PROVE TypeOK'
  <2>1. cfg[n].StartRPS \in Int /\ cfg[n].Attackers * 100 \in Int
    BY DEF Settings
  <2> QED BY <1>5, <2>1 DEF Start, Limited, LimiterPanics
<1> QED BY <1>1, <1>2, <1>3, <1>4, <1>5, CloseTickTyped DEF Next

\* The counters and settings of a node have the shape TypeOK gives them; in
\* particular no limiter runs at a rate of zero (runner.go:259, config.go:150-170).
THEOREM TypeCorrect == Spec => []TypeOK
BY InitTyped, StepTyped, PTL DEF Spec

-----------------------------------------------------------------------------
(* What each node runs *)

\* A node past the split has its share of the test, completed by defaults once it
\* was accepted; without a cluster the share is the test itself.
SharesOfTest ==
  \A n \in Nodes :
    /\ phase[n] \in {"validate", "default"} => cfg[n] = Share(testCfg)
    /\ phase[n] \in {"start", "running"} => cfg[n] = WithDefaults(Share(testCfg))
    /\ phase[n] \in {"default", "start", "running"} => Accepted(Share(testCfg))
    /\ phase[n] \notin {"running", "panicked"} => step[n] = 1

LEMMA InitShares == Init => SharesOfTest
<1> SUFFICES ASSUME Init PROVE SharesOfTest
  OBVIOUS
<1>1. testCfg \in Settings
  BY ConfigTyped DEF Init
<1>2. ~Clustered => Share(testCfg) = testCfg
  BY <1>1, ShareTyped, ClusterAssumption
<1> QED BY <1>2 DEF Init, SharesOfTest

LEMMA StepShares == TypeOK /\ SharesOfTest /\ [Next]_vars => SharesOfTest'
<1> SUFFICES ASSUME TypeOK, SharesOfTest, [Next]_vars PROVE SharesOfTest'
  OBVIOUS
<1> DEFINE S == Share(testCfg)
           W == WithDefaults(Share(testCfg))
           A == Accepted(Share(testCfg))
<1>1. testCfg' = testCfg
  BY DEF Next, ConfigToNodes, Validate, DefaultCfgValues, Start, CloseTick, vars
<1>2. S' = S /\ W' = W /\ A' = A
  BY <1>1 DEF Share, WithDefaults, Accepted
<1>3. CASE UNCHANGED vars
  BY <1>2, <1>3 DEF SharesOfTest, vars
<1>4. ASSUME NEW n \in Nodes, ConfigToNodes(n) PROVE SharesOfTest'
  BY <1>2, <1>4 DEF SharesOfTest, ConfigToNodes, TypeOK
<1>5. ASSUME NEW n \in Nodes, Validate(n) PROVE SharesOfTest'
  BY <1>2, <1>5 DEF SharesOfTest, Validate, TypeOK
<1>6. ASSUME NEW n \in Nodes, DefaultCfgValues(n) PROVE SharesOfTest'
  BY <1>2, <1>6 DEF SharesOfTest, DefaultCfgValues, TypeOK
<1>7. ASSUME NEW n \in Nodes, Start(n) PROVE SharesOfTest'
  BY <1>2, <1>7 DEF SharesOfTest, Start, TypeOK
<1>8. ASSUME NEW n \in Nodes, CloseTick(n) PROVE SharesOfTest'
  <2>1. /\ UNCHANGED cfg
        /\ phase[n] = "running"
        /\ phase' \in {phase, [phase EXCEPT ![n] = "panicked"]}
        /\ step' \in {step, [step EXCEPT ![n] = @ + 1]}
    BY <1>8 DEF CloseTick
  <2> QED BY <1>2, <2>1 DEF SharesOfTest, TypeOK
<1> QED BY <1>3, <1>4, <1>5, <1>6, <1>7, <1>8 DEF Next

-----------------------------------------------------------------------------
(* The share of a sound test *)

\* The configuration of a node that starts.
NodeCfg == WithDefaults(Share(testCfg))

LEMMA NodeCfgFields ==
  ASSUME TypeOK
  PROVE  /\ NodeCfg \in Settings
         /\ NodeCfg.SystemMode = testCfg.SystemMode
         /\ Limited(NodeCfg) = Limited(testCfg)
         /\ NodeCfg.Attackers = Quotient(testCfg.Attackers, N)
         /\ NodeCfg.StepRPS = Quotient(testCfg.StepRPS, N)
         /\ NodeCfg.StartRPS =
              IF testCfg.SystemMode = "BoundRPS" /\ Quotient(testCfg.StartRPS, N) = 0
              THEN 10 ELSE Quotient(testCfg.StartRPS, N)
         /\ NodeCfg.StepDurationSec =
              IF testCfg.SystemMode = "BoundRPS" /\ Quotient(testCfg.StepRPS, N) = 0
              THEN 10 ELSE testCfg.StepDurationSec
<1>1. testCfg \in Settings
  BY ConfigTyped DEF TypeOK
<1> DEFINE S == Share(testCfg)
<1>2. /\ S \in Settings
      /\ S.SystemMode = testCfg.SystemMode
      /\ S.Attackers = Quotient(testCfg.Attackers, N)
      /\ S.StartRPS = Quotient(testCfg.StartRPS, N)
      /\ S.StepRPS = Quotient(testCfg.StepRPS, N)
      /\ S.StepDurationSec = testCfg.StepDurationSec
  BY <1>1, ShareTyped
<1> HIDE DEF S
<1> DEFINE W == WithDefaults(S)
<1>3. /\ W \in Settings
      /\ W.SystemMode = S.SystemMode
      /\ W.Attackers = S.Attackers
      /\ W.StepRPS = S.StepRPS
      /\ W.StartRPS = IF S.SystemMode = "BoundRPS" /\ S.StartRPS = 0 THEN 10
                      ELSE S.StartRPS
      /\ W.StepDurationSec = IF S.SystemMode = "BoundRPS" /\ S.StepRPS = 0 THEN 10
                             ELSE S.StepDurationSec
  BY <1>2, DefaultsTyped
<1>4. NodeCfg = W
  BY DEF NodeCfg, S
<1> HIDE DEF W
<1> QED BY <1>2, <1>3, <1>4 DEF Limited

\* The share of a sound test that divides is accepted, and makes a plan: attackers,
\* a rate, and steps that last and never slow the test down.
LEMMA ShareOfSound ==
  ASSUME TypeOK, Sound(testCfg), Divisible(testCfg)
  PROVE  /\ Accepted(Share(testCfg))
         /\ NodeCfg.Attackers > 0
         /\ NodeCfg.StepRPS >= 0
         /\ Limited(NodeCfg) =>
              /\ NodeCfg.StartRPS = Quotient(testCfg.StartRPS, N)
              /\ NodeCfg.StartRPS > 0
              /\ NodeCfg.StepDurationSec > 0
<1>1. testCfg \in Settings /\ testCfg.SystemMode \in SystemModes
  BY ConfigTyped DEF TypeOK
<1>2. /\ testCfg.Attackers \in Int /\ testCfg.StartRPS \in Int
      /\ testCfg.StepRPS \in Int /\ testCfg.StepDurationSec \in Int
      /\ testCfg.TestTimeSec > 0 /\ testCfg.AttackerTimeout > 0
      /\ testCfg.Attackers >= N /\ testCfg.StepRPS >= 0 /\ testCfg.StepDurationSec >= 0
      /\ Limited(testCfg) => testCfg.StartRPS >= N
  BY <1>1 DEF Settings, Sound, Divisible
<1>3. /\ Quotient(testCfg.Attackers, N) > 0
      /\ Quotient(testCfg.StepRPS, N) >= 0
      /\ Limited(testCfg) => Quotient(testCfg.StartRPS, N) > 0
      /\ testCfg.StepRPS = 0 => Quotient(testCfg.StepRPS, N) = 0
      /\ Quotient(testCfg.Attackers, N) \in Int /\ Quotient(testCfg.StepRPS, N) \in Int
      /\ Quotient(testCfg.StartRPS, N) \in Int
  BY <1>2, QuotientBounds
<1>4. Accepted(Share(testCfg))
  BY <1>1, <1>2, <1>3, ShareTyped DEF Accepted
<1>5. NodeCfg.Attackers > 0 /\ NodeCfg.StepRPS >= 0
  BY <1>3, NodeCfgFields
<1>6. ASSUME Limited(NodeCfg)
      PROVE  /\ NodeCfg.StartRPS = Quotient(testCfg.StartRPS, N)
             /\ NodeCfg.StartRPS > 0
             /\ NodeCfg.StepDurationSec > 0
  <2>1. Limited(testCfg)
    BY <1>6, NodeCfgFields
  <2>2. NodeCfg.StartRPS = Quotient(testCfg.StartRPS, N) /\ NodeCfg.StartRPS > 0
    BY <1>3, <2>1, NodeCfgFields
  <2>3. testCfg.StepDurationSec = 0 =>
          testCfg.SystemMode = "BoundRPS" /\ testCfg.StepRPS = 0
    BY <2>1 DEF Sound, Limited
  <2>4. NodeCfg.StepDurationSec > 0
    BY <1>2, <1>3, <2>3, NodeCfgFields
  <2> QED BY <2>2, <2>4
<1> QED BY <1>4, <1>5, <1>6

-----------------------------------------------------------------------------
(* The split of a sound test *)

\* Why it is sound: a node that runs has a target, and steps of a positive length.
SoundRun ==
  Sound(testCfg) /\ Divisible(testCfg) =>
    \A n \in Nodes :
      /\ phase[n] \notin {"exited", "panicked"}
      /\ phase[n] = "running" => targetRPS[n] > 0

LEMMA TestKept == [Next]_vars => testCfg' = testCfg
BY DEF Next, ConfigToNodes, Validate, DefaultCfgValues, Start, CloseTick, vars

LEMMA StepSoundRun == TypeOK /\ SharesOfTest /\ SoundRun /\ [Next]_vars => SoundRun'
<1> SUFFICES ASSUME TypeOK, SharesOfTest, SoundRun, [Next]_vars,
                    Sound(testCfg), Divisible(testCfg)
             PROVE  \A n \in Nodes :
                      /\ phase'[n] \notin {"exited", "panicked"}
                      /\ phase'[n] = "running" => targetRPS'[n] > 0
  BY TestKept DEF SoundRun, Sound, Divisible, Limited
<1>1. \A n \in Nodes : /\ phase[n] \notin {"exited", "panicked"}
                       /\ phase[n] = "running" => targetRPS[n] > 0
  BY DEF SoundRun
<1>2. CASE UNCHANGED vars
  BY <1>1, <1>2 DEF vars
<1>3. ASSUME NEW n \in Nodes, ConfigToNodes(n) \/ DefaultCfgValues(n)
      PROVE  \A m \in Nodes : /\ phase'[m] \notin {"exited", "panicked"}
                              /\ phase'[m] = "running" => targetRPS'[m] > 0
  BY <1>1, <1>3 DEF ConfigToNodes, DefaultCfgValues, TypeOK
<1>4. ASSUME NEW n \in Nodes, Validate(n)
      PROVE  \A m \in Nodes : /\ phase'[m] \notin {"exited", "panicked"}
                              /\ phase'[m] = "running" => targetRPS'[m] > 0
  <2>1. Accepted(cfg[n])
    BY <1>4, ShareOfSound DEF Validate, SharesOfTest
  <2> QED BY <1>1, <1>4, <2>1 DEF Validate, TypeOK
<1>5. ASSUME NEW n \in Nodes, Start(n)
      PROVE  \A m \in Nodes : /\ phase'[m] \notin {"exited", "panicked"}
                              /\ phase'[m] = "running" => targetRPS'[m] > 0
  <2>1. cfg[n] = NodeCfg
    BY <1>5 DEF Start, SharesOfTest, NodeCfg
  <2>2. /\ cfg[n].Attackers > 0 /\ cfg[n].Attackers \in Int /\ cfg[n].StartRPS \in Int
        /\ Limited(cfg[n]) => cfg[n].StartRPS > 0
    BY <2>1, ShareOfSound DEF TypeOK, Settings
  <2>3. phase' = [phase EXCEPT ![n] = "running"]
    <3>1. ~ (Limited(cfg[n]) /\ LimiterPanics(cfg[n].StartRPS))
      BY <2>2 DEF LimiterPanics
    <3> QED BY <1>5, <3>1 DEF Start
  <2>4. targetRPS'[n] > 0 /\ \A m \in Nodes : m # n => targetRPS'[m] = targetRPS[m]
    BY <1>5, <2>2 DEF Start, TypeOK
  <2> QED BY <1>1, <2>3, <2>4 DEF TypeOK
<1>6. ASSUME NEW n \in Nodes, CloseTick(n)
      PROVE  \A m \in Nodes : /\ phase'[m] \notin {"exited", "panicked"}
                              /\ phase'[m] = "running" => targetRPS'[m] > 0
  <2>1. cfg[n] = NodeCfg /\ targetRPS[n] > 0 /\ targetRPS[n] \in Int
    BY <1>6 DEF CloseTick, SharesOfTest, NodeCfg, TypeOK
  <2>2. /\ cfg[n].StepRPS >= 0 /\ cfg[n].StepRPS \in Int
        /\ Limited(cfg[n]) => cfg[n].StepDurationSec > 0
        /\ cfg[n].StepDurationSec \in Int
    BY <2>1, ShareOfSound DEF TypeOK, Settings
  <2>3. TicksInStep(cfg[n]) # 0
    BY <2>2 DEF TicksInStep
  <2>4. /\ UNCHANGED phase
        /\ \/ targetRPS' = [targetRPS EXCEPT ![n] = @ + cfg[n].StepRPS]
           \/ UNCHANGED targetRPS
    BY <1>6, <2>1, <2>2, <2>3 DEF CloseTick, LimiterPanics, TypeOK
  <2> QED BY <1>1, <2>1, <2>2, <2>4 DEF TypeOK
<1> QED BY <1>2, <1>3, <1>4, <1>5, <1>6 DEF Next

LEMMA InitSoundRun == Init => SoundRun
BY DEF Init, SoundRun

LEMMA SoundRunKept == Spec => [](TypeOK /\ SharesOfTest /\ SoundRun)
BY InitTyped, StepTyped, InitShares, StepShares, InitSoundRun, StepSoundRun, PTL DEF Spec

\* Whatever the number of nodes, a plan that is sound and gives every node an
\* attacker and a request is split into plans that no node exits or panics on
\* (client.go:123-136, config.go:150-170, runner.go:259).
THEOREM SplitsAreSound == Spec => []SplitIsSound
<1>1. SoundRun => SplitIsSound
  BY DEF SoundRun, SplitIsSound
<1> QED BY <1>1, SoundRunKept, PTL

-----------------------------------------------------------------------------
(* What splitting loses *)

LEMMA StepLosesLittle ==
  TypeOK /\ SharesOfTest /\ SoundRun /\ SplitLosesLittle /\ [Next]_vars
    => SplitLosesLittle'
<1> SUFFICES ASSUME TypeOK, SharesOfTest, SoundRun, SplitLosesLittle, [Next]_vars,
                    Sound(testCfg), Divisible(testCfg), Limited(testCfg),
                    NEW n \in Nodes, phase'[n] = "running"
             PROVE  /\ N * targetRPS'[n] <= PlannedRPS(step'[n])
                    /\ PlannedRPS(step'[n]) < N * (targetRPS'[n] + step'[n])
  BY TestKept DEF SplitLosesLittle, Sound, Divisible, Limited, PlannedRPS
<1> DEFINE S == testCfg.StartRPS
           I == testCfg.StepRPS
           q == Quotient(S, N)
           r == Quotient(I, N)
<1>1. N \in Nat \ {0} /\ S \in Int /\ I \in Int /\ S >= 0 /\ I >= 0
  BY ConfigTyped, ClusterAssumption DEF TypeOK, Settings, Sound
<1>2. /\ q \in Int /\ N * q <= S /\ S < N * q + N
      /\ r \in Int /\ N * r <= I /\ I < N * r + N
  BY <1>1, QuotientBounds
<1> HIDE DEF q, r, S, I
<1>3. ASSUME phase[n] = "running", targetRPS'[n] = targetRPS[n], step'[n] = step[n]
      PROVE  /\ N * targetRPS'[n] <= PlannedRPS(step'[n])
             /\ PlannedRPS(step'[n]) < N * (targetRPS'[n] + step'[n])
  BY <1>3 DEF SplitLosesLittle
<1>4. CASE UNCHANGED vars
  BY <1>3, <1>4 DEF vars
<1>5. ASSUME NEW m \in Nodes, ConfigToNodes(m) \/ Validate(m) \/ DefaultCfgValues(m)
      PROVE  /\ N * targetRPS'[n] <= PlannedRPS(step'[n])
             /\ PlannedRPS(step'[n]) < N * (targetRPS'[n] + step'[n])
  BY <1>3, <1>5 DEF ConfigToNodes, Validate, DefaultCfgValues, TypeOK
<1>6. ASSUME NEW m \in Nodes, Start(m)
      PROVE  /\ N * targetRPS'[n] <= PlannedRPS(step'[n])
             /\ PlannedRPS(step'[n]) < N * (targetRPS'[n] + step'[n])
  <2>1. CASE m # n
    BY <1>3, <1>6, <2>1 DEF Start, TypeOK
  <2>2. CASE m = n
    <3>1. cfg[n] = NodeCfg /\ Limited(NodeCfg)
      BY <1>6, <2>2, NodeCfgFields DEF Start, SharesOfTest, NodeCfg
    <3>2. targetRPS'[n] = q
      BY <1>6, <2>2, <3>1, ShareOfSound DEF Start, TypeOK, q, S
    <3>3. step'[n] = 1
      BY <1>6, <2>2 DEF Start, SharesOfTest
    <3>4. PlannedRPS(1) = S
      BY <1>1 DEF PlannedRPS, S, I
    <3>5. N * (q + 1) = N * q + N
      BY <1>1, <1>2
    <3> QED BY <1>1, <1>2, <3>2, <3>3, <3>4, <3>5
  <2> QED BY <2>1, <2>2
<1>7. ASSUME NEW m \in Nodes, CloseTick(m)
      PROVE  /\ N * targetRPS'[n] <= PlannedRPS(step'[n])
             /\ PlannedRPS(step'[n]) < N * (targetRPS'[n] + step'[n])
  <2>1. CASE m # n
    BY <1>3, <1>7, <2>1 DEF CloseTick, TypeOK
  <2>2. CASE m = n /\ targetRPS' = targetRPS /\ step' = step
    BY <1>3, <1>7, <2>2 DEF CloseTick
  <2>3. CASE m = n /\ targetRPS' = [targetRPS EXCEPT ![n] = @ + cfg[n].StepRPS]
             /\ step' = [step EXCEPT ![n] = @ + 1]
    <3> DEFINE T == targetRPS[n]
               s == step[n]
    <3>1. /\ T \in Int /\ s \in Nat \ {0} /\ phase[n] = "running"
          /\ cfg[n].StepRPS = r
      BY <1>7, <2>3, NodeCfgFields DEF CloseTick, SharesOfTest, NodeCfg, TypeOK, r, I
    <3>2. targetRPS'[n] = T + r /\ step'[n] = s + 1
      BY <2>3, <3>1 DEF TypeOK
    <3>3. N * T <= PlannedRPS(s) /\ PlannedRPS(s) < N * (T + s)
      BY <3>1 DEF SplitLosesLittle
    <3> HIDE DEF T, s
    <3>4. PlannedRPS(s + 1) = PlannedRPS(s) + I /\ PlannedRPS(s) \in Int
      <4>1. ((s + 1) - 1) * I = (s - 1) * I + I
        BY <1>1, <3>1
      <4> QED BY <1>1, <3>1, <4>1 DEF PlannedRPS, S, I
    <3>5. N * (T + r) = N * T + N * r
      BY <1>1, <1>2, <3>1
    <3>6. N * ((T + r) + (s + 1)) = N * (T + s) + N * r + N
      BY <1>1, <1>2, <3>1
    <3>7. N * T \in Int /\ N * r \in Int /\ N * (T + s) \in Int
      BY <1>1, <1>2, <3>1
    <3> QED BY <1>1, <1>2, <3>2, <3>3, <3>4, <3>5, <3>6, <3>7
  <2>4. \/ targetRPS' = targetRPS /\ step' = step
        \/ /\ targetRPS' = [targetRPS EXCEPT ![m] = @ + cfg[m].StepRPS]
           /\ step' = [step EXCEPT ![m] = @ + 1]
        \/ phase' = [phase EXCEPT ![m] = "panicked"]
    BY <1>7 DEF CloseTick
  <2>5. ~ (m = n /\ phase' = [phase EXCEPT ![m] = "panicked"])
    BY DEF TypeOK
  <2> QED BY <2>1, <2>2, <2>3, <2>4, <2>5
<1> QED BY <1>4, <1>5, <1>6, <1>7 DEF Next

LEMMA InitLosesLittle == Init => SplitLosesLittle
BY DEF Init, SplitLosesLittle

\* All nodes together stay within the plan of the test and, in step s, are less than
\* s requests per node short of it: each of the s quotients rounds down once
\* (client.go:132-134, runner.go:259).
THEOREM SplitsLoseLittle == Spec => []SplitLosesLittle
<1>1. Init => TypeOK /\ SharesOfTest /\ SoundRun /\ SplitLosesLittle
  BY InitTyped, InitShares, InitSoundRun, InitLosesLittle
<1>2. TypeOK /\ SharesOfTest /\ SoundRun /\ SplitLosesLittle /\ [Next]_vars
        => TypeOK' /\ SharesOfTest' /\ SoundRun' /\ SplitLosesLittle'
  BY StepTyped, StepShares, StepSoundRun, StepLosesLittle
<1> QED BY <1>1, <1>2, PTL DEF Spec

-----------------------------------------------------------------------------
(* Tests that pass validate *)

\* With a StartRPS that is not negative, what was accepted has attackers, and the
\* default takes the place of a rate of zero.
LEMMA StepShoots ==
  TypeOK /\ SharesOfTest /\ BoundTestsShoot /\ [Next]_vars => BoundTestsShoot'
<1> SUFFICES ASSUME TypeOK, SharesOfTest, BoundTestsShoot, [Next]_vars,
                    NEW n \in Nodes, phase'[n] = "running",
                    cfg'[n].SystemMode = "BoundRPS", testCfg.StartRPS >= 0
             PROVE  cfg'[n].Attackers > 0 /\ targetRPS'[n] > 0
  BY TestKept DEF BoundTestsShoot
<1>1. /\ testCfg \in Settings /\ Share(testCfg) \in Settings
      /\ Share(testCfg).SystemMode = testCfg.SystemMode
      /\ Share(testCfg).Attackers = Quotient(testCfg.Attackers, N)
      /\ Share(testCfg).StepRPS = Quotient(testCfg.StepRPS, N)
  BY ConfigTyped, ShareTyped DEF TypeOK
<1>2. ASSUME Accepted(Share(testCfg)), NodeCfg.SystemMode = "BoundRPS"
      PROVE  /\ NodeCfg.Attackers > 0 /\ NodeCfg.StartRPS > 0 /\ NodeCfg.StepRPS >= 0
             /\ NodeCfg.StartRPS \in Int /\ NodeCfg.StepRPS \in Int
             /\ Limited(NodeCfg)
  <2>1. testCfg.SystemMode = "BoundRPS"
    BY <1>2, NodeCfgFields
  <2>2. Share(testCfg).Attackers > 0 /\ Share(testCfg).StepRPS >= 0
    BY <1>1, <1>2, <2>1 DEF Accepted, Settings
  <2>3. Quotient(testCfg.StartRPS, N) >= 0 /\ Quotient(testCfg.StartRPS, N) \in Int
    BY <1>1, QuotientBounds DEF Settings
  <2> QED BY <1>1, <2>1, <2>2, <2>3, NodeCfgFields DEF Settings, Limited
<1>3. ASSUME phase[n] = "running", UNCHANGED <<cfg[n], targetRPS[n]>>
      PROVE  cfg'[n].Attackers > 0 /\ targetRPS'[n] > 0
  BY <1>3 DEF BoundTestsShoot
<1>4. CASE UNCHANGED vars
  BY <1>3, <1>4 DEF vars
<1>5. ASSUME NEW m \in Nodes, ConfigToNodes(m) \/ Validate(m) \/ DefaultCfgValues(m)
      PROVE  cfg'[n].Attackers > 0 /\ targetRPS'[n] > 0
  BY <1>3, <1>5 DEF ConfigToNodes, Validate, DefaultCfgValues, TypeOK
<1>6. ASSUME NEW m \in Nodes, Start(m)
      PROVE  cfg'[n].Attackers > 0 /\ targetRPS'[n] > 0
  <2>1. CASE m # n
    BY <1>3, <1>6, <2>1 DEF Start, TypeOK
  <2>2. CASE m = n
    <3>1. cfg[n] = NodeCfg /\ Accepted(Share(testCfg)) /\ cfg' = cfg
      BY <1>6, <2>2 DEF Start, SharesOfTest, NodeCfg
    <3> QED BY <1>2, <1>6, <2>2, <3>1 DEF Start, TypeOK
  <2> QED BY <2>1, <2>2
<1>7. ASSUME NEW m \in Nodes, CloseTick(m)
      PROVE  cfg'[n].Attackers > 0 /\ targetRPS'[n] > 0
  <2>1. CASE m # n
    BY <1>3, <1>7, <2>1 DEF CloseTick, TypeOK
  <2>2. CASE m = n
    <3>1. /\ phase[n] = "running" /\ cfg[n] = NodeCfg /\ Accepted(Share(testCfg))
          /\ cfg' = cfg /\ targetRPS[n] \in Int
      BY <1>7, <2>2 DEF CloseTick, SharesOfTest, NodeCfg, TypeOK
    <3>2. cfg[n].Attackers > 0 /\ targetRPS[n] > 0
      BY <3>1 DEF BoundTestsShoot
    <3>3. \/ targetRPS' = targetRPS
          \/ targetRPS' = [targetRPS EXCEPT ![n] = @ + cfg[n].StepRPS]
      BY <1>7, <2>2 DEF CloseTick
    <3>4. NodeCfg.StepRPS >= 0 /\ NodeCfg.StepRPS \in Int
      BY <1>2, <3>1
    <3> QED BY <3>1, <3>2, <3>3, <3>4 DEF TypeOK
  <2> QED BY <2>1, <2>2
<1> QED BY <1>4, <1>5, <1>6, <1>7 DEF Next

LEMMA InitShoots == Init => BoundTestsShoot
BY DEF Init, BoundTestsShoot

\* A BoundRPS test that gets past validate has attackers and a reachable target in
\* every tick of every step, unless its StartRPS is negative (config.go:109-111,
\* config.go:154-156, config.go:163-165).
THEOREM BoundTestsDoShoot == Spec => []BoundTestsShoot
<1>1. Init => TypeOK /\ SharesOfTest /\ BoundTestsShoot
  BY InitTyped, InitShares, InitShoots
<1>2. TypeOK /\ SharesOfTest /\ BoundTestsShoot /\ [Next]_vars
        => TypeOK' /\ SharesOfTest' /\ BoundTestsShoot'
  BY StepTyped, StepShares, StepShoots
<1> QED BY <1>1, <1>2, PTL DEF Spec
=============================================================================
