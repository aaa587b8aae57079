-------------------------------- MODULE Config --------------------------------
(***************************************************************************)
(* From the configuration of a test to the plan a runner follows: the      *)
(* checks and default values of config.go, the split among the nodes of a  *)
(* cluster in client.go, and what NewRunner and the scheduler make of the  *)
(* result.  With a single node and no split this is a test run without a   *)
(* cluster.                                                                *)
(***************************************************************************)
EXTENDS Integers

CONSTANTS
  N,              \* nodes of the cluster
  Clustered,      \* the configuration goes through configToNodes
  SystemModes, AttackersRange, AttackerTimeoutRange, StartRPSRange,
  StepDurationRange, StepRPSRange, TestTimeRange,   \* what users may write
  MaxTick         \* bound of the model: ticks a runner closes

ASSUME ClusterAssumption ==
  /\ N \in Nat \ {0}
  /\ Clustered \in BOOLEAN
  /\ Clustered \/ N = 1
  /\ MaxTick \in Nat

ASSUME RangeAssumption ==
  /\ SystemModes \subseteq {"BoundRPS", "BoundRPSAutoscale", "UnboundRPS"}
  /\ AttackersRange \subseteq Int
  /\ AttackerTimeoutRange \subseteq Int
  /\ StartRPSRange \subseteq Int
  /\ StepDurationRange \subseteq Int
  /\ StepRPSRange \subseteq Int
  /\ TestTimeRange \subseteq Int

Nodes == 1 .. N

VARIABLES
  testCfg,        \* the configuration the user wrote
  cfg,            \* the configuration each runner has
  phase,          \* how far each runner is
  step, tick, targetRPS   \* the counters of each scheduler

vars == <<testCfg, cfg, phase, step, tick, targetRPS>>

Configs ==
  [SystemMode : SystemModes, Attackers : AttackersRange,
   AttackerTimeout : AttackerTimeoutRange, StartRPS : StartRPSRange,
   StepDurationSec : StepDurationRange, StepRPS : StepRPSRange,
   TestTimeSec : TestTimeRange]

Init ==
  /\ testCfg \in Configs
  /\ cfg = [n \in Nodes |-> testCfg]
  /\ phase = [n \in Nodes |-> IF Clustered THEN "split" ELSE "validate"]
  /\ step = [n \in Nodes |-> 1]
  /\ tick = [n \in Nodes |-> 1]
  /\ targetRPS = [n \in Nodes |-> 0]

-----------------------------------------------------------------------------
(* Splitting *)

\* Division of integers truncates.
Quotient(a, b) == IF a >= 0 THEN a \div b ELSE -((-a) \div b)

\* Mutant of Share: every node steps by the whole StepRPS.
ShareButStep(c) ==
  [c EXCEPT !.Attackers = Quotient(@, N), !.StartRPS = Quotient(@, N)]

\* What a node gets of the load.
Share(c) ==
  [c EXCEPT !.Attackers = Quotient(@, N),
            !.StartRPS = Quotient(@, N),
            !.StepRPS = Quotient(@, N)]

\* ReportOptions, which no decision of a runner here reads, is left out.
ConfigToNodes(n) ==
  /\ phase[n] = "split"
  /\ cfg' = [cfg EXCEPT ![n] = Share(testCfg)]
  /\ phase' = [phase EXCEPT ![n] = "validate"]
  /\ UNCHANGED <<testCfg, step, tick, targetRPS>>

-----------------------------------------------------------------------------
(* Checks and default values *)

\* Mutant of Accepted: a BoundRPS test may have no attackers.
AcceptedUnattacked(c) ==
  /\ c.AttackerTimeout > 0
  /\ c.StepDurationSec >= 0
  /\ ~ (c.SystemMode = "BoundRPS" /\ c.StepRPS < 0)
  /\ c.TestTimeSec > 0

\* validate finds no problem.
Accepted(c) ==
  /\ ~ (c.Attackers <= 0 /\ c.SystemMode = "BoundRPS")
  /\ c.AttackerTimeout > 0
  /\ ~ (c.StepDurationSec < 0)
  /\ ~ (c.SystemMode = "BoundRPS" /\ c.StepRPS < 0)
  /\ c.TestTimeSec > 0

\* Validate exits the process otherwise.
Validate(n) ==
  /\ phase[n] = "validate"
  /\ phase' = [phase EXCEPT ![n] = IF Accepted(cfg[n]) THEN "default" ELSE "exited"]
  /\ UNCHANGED <<testCfg, cfg, step, tick, targetRPS>>

\* Mutant of WithDefaults: a constant rate keeps the duration of its step.
WithDefaultRate(c) ==
  [c EXCEPT !.StartRPS = IF c.SystemMode = "BoundRPS" /\ @ = 0 THEN 10 ELSE @]

WithDefaults(c) ==
  [c EXCEPT
    !.StartRPS = IF c.SystemMode = "BoundRPS" /\ @ = 0 THEN 10 ELSE @,
    !.StepDurationSec = IF c.SystemMode = "BoundRPS" /\ c.StepRPS = 0 THEN 10 ELSE @]

DefaultCfgValues(n) ==
  /\ phase[n] = "default"
  /\ cfg' = [cfg EXCEPT ![n] = WithDefaults(cfg[n])]
  /\ phase' = [phase EXCEPT ![n] = "start"]
  /\ UNCHANGED <<testCfg, step, tick, targetRPS>>

-----------------------------------------------------------------------------
(* NewRunner and the scheduler *)

Limited(c) == c.SystemMode \in {"BoundRPS", "BoundRPSAutoscale"}

\* ratelimit.New divides a second by the rate.
LimiterPanics(rate) == rate = 0

\* Mutant of Start: the runner starts without a limiter.
StartUnlimited(n) ==
  /\ phase[n] = "start"
  /\ targetRPS' = [targetRPS EXCEPT ![n] = IF Limited(cfg[n]) THEN cfg[n].StartRPS
                                           ELSE cfg[n].Attackers * 100]
  /\ phase' = [phase EXCEPT ![n] = "running"]
  /\ UNCHANGED <<testCfg, cfg, step, tick>>

\* The limiter of the first step, and the target of its ticks.
Start(n) ==
  /\ phase[n] = "start"
  /\ targetRPS' = [targetRPS EXCEPT ![n] = IF Limited(cfg[n]) THEN cfg[n].StartRPS
                                           ELSE cfg[n].Attackers * 100]
  /\ phase' = [phase EXCEPT ![n] =
       IF Limited(cfg[n]) /\ LimiterPanics(cfg[n].StartRPS) THEN "panicked"
       ELSE "running"]
  /\ UNCHANGED <<testCfg, cfg, step, tick>>

TicksInStep(c) == IF Limited(c) THEN c.StepDurationSec ELSE 1

\* The last request of a tick was fired, which takes an attacker and a target
\* that counting from one on can reach.
CloseTick(n) ==
  /\ phase[n] = "running"
  /\ tick[n] <= MaxTick
  /\ cfg[n].Attackers > 0
  /\ targetRPS[n] > 0
  /\ tick' = [tick EXCEPT ![n] = @ + 1]
  /\ IF TicksInStep(cfg[n]) = 0
     THEN /\ phase' = [phase EXCEPT ![n] = "panicked"]    \* currentTick % 0
          /\ UNCHANGED <<step, targetRPS>>
     ELSE IF Limited(cfg[n]) /\ (tick[n] + 1) % TicksInStep(cfg[n]) = 0
     THEN /\ targetRPS' = [targetRPS EXCEPT ![n] = @ + cfg[n].StepRPS]
          /\ IF LimiterPanics(targetRPS'[n])
             THEN /\ phase' = [phase EXCEPT ![n] = "panicked"]
                  /\ UNCHANGED step
             ELSE /\ step' = [step EXCEPT ![n] = @ + 1]
                  /\ UNCHANGED phase
     ELSE UNCHANGED <<phase, step, targetRPS>>
  /\ UNCHANGED <<testCfg, cfg>>

Next == \E n \in Nodes :
  ConfigToNodes(n) \/ Validate(n) \/ DefaultCfgValues(n) \/ Start(n) \/ CloseTick(n)

Spec == Init /\ [][Next]_vars

-----------------------------------------------------------------------------
(* Properties *)

Settings ==
  [SystemMode : SystemModes, Attackers : Int, AttackerTimeout : Int, StartRPS : Int,
   StepDurationSec : Int, StepRPS : Int, TestTimeSec : Int]

\* The shape of the state; a limiter that runs has a rate, and a step takes a tick at
\* least.
TypeOK ==
  /\ testCfg \in Configs
  /\ cfg \in [Nodes -> Settings]
  /\ phase \in [Nodes -> {"split", "validate", "default", "start", "running",
                          "exited", "panicked"}]
  /\ step \in [Nodes -> Nat \ {0}]
  /\ tick \in [Nodes -> Nat \ {0}]
  /\ targetRPS \in [Nodes -> Int]
  /\ \A n \in Nodes :
       /\ step[n] <= tick[n]
       /\ phase[n] = "running" /\ Limited(cfg[n]) => targetRPS[n] # 0

\* A configuration that makes a sound plan, whether or not validate looks at it.
Sound(c) ==
  /\ c.Attackers > 0
  /\ c.AttackerTimeout > 0
  /\ c.TestTimeSec > 0
  /\ c.StepRPS >= 0
  /\ c.StepDurationSec >= 0
  /\ Limited(c) => c.StartRPS > 0
  /\ c.StepDurationSec = 0 => c.SystemMode = "UnboundRPS"
                              \/ (c.SystemMode = "BoundRPS" /\ c.StepRPS = 0)

\* There is an attacker and a request in each tick for every node.
Divisible(c) == c.Attackers >= N /\ (Limited(c) => c.StartRPS >= N)

\* The split of a sound plan is one a node can run: no node exits or panics on
\* it (client.go:123-136, config.go:150-170, runner.go:259).
SplitIsSound ==
  Sound(testCfg) /\ Divisible(testCfg) =>
    \A n \in Nodes : phase[n] \notin {"exited", "panicked"}

\* What is left of the load after splitting it (client.go:132-134): in step s all
\* nodes together are at most the plan and less than a request per node and step
\* below it, provided nobody falls back to default values.
PlannedRPS(s) == testCfg.StartRPS + (s - 1) * testCfg.StepRPS

SplitLosesLittle ==
  Sound(testCfg) /\ Divisible(testCfg) /\ Limited(testCfg) =>
    \A n \in Nodes : phase[n] = "running" =>
      /\ N * targetRPS[n] <= PlannedRPS(step[n])
      /\ PlannedRPS(step[n]) < N * (targetRPS[n] + step[n])

\* A BoundRPS test that passes validate fires requests: it has attackers, and each
\* of its ticks a target that can be reached, also when the rate was left out
\* (config.go:109-111, config.go:154-156, config.go:163-165).  A negative StartRPS
\* is the exception that validate overlooks.
BoundTestsShoot ==
  \A n \in Nodes :
    /\ phase[n] = "running"
    /\ cfg[n].SystemMode = "BoundRPS"
    /\ testCfg.StartRPS >= 0
    => cfg[n].Attackers > 0 /\ targetRPS[n] > 0

-----------------------------------------------------------------------------
(* What a message says, and the code does not do *)

\* config.go:161, "please set step duration > 0, seconds": a test that runs in steps
\* has steps of a positive duration.
RunningStepsLast ==
  \A n \in Nodes :
    phase[n] = "running" /\ Limited(cfg[n]) => cfg[n].StepDurationSec > 0

==============================================================================
