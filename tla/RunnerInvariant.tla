-------------------------- MODULE RunnerInvariant --------------------------
(***************************************************************************)
(* Why a reported tick of Runner is whole: an inductive invariant that      *)
(* follows a request from the scheduler to the report of its tick.          *)
(***************************************************************************)
EXTENDS Runner

\* The current tick has fewer requests than its target, the earlier ones have
\* exactly theirs.
TicksFilled ==
  /\ firedInTick < targetRPS
  /\ Cardinality(FiredIn(tick)) = firedInTick
  /\ \A id \in 1 .. Len(fired) :
       /\ fired[id].Tick <= tick
       /\ fired[id].Tick = tick => fired[id].TargetRPS = targetRPS
       /\ fired[id].Tick < tick =>
            Cardinality(FiredIn(fired[id].Tick)) = fired[id].TargetRPS

\* An attacker holds a request of its own, and results has it once, after the
\* attacker let go of it.
InFlightOnce ==
  /\ \A a, b \in Attackers : holds[a] # 0 /\ holds[a] = holds[b] => a = b
  /\ \A i, j \in 1 .. Len(results) : results[i].id = results[j].id => i = j
  /\ \A a \in Attackers : \A i \in 1 .. Len(results) : holds[a] # results[i].id

\* The collector took the result of this request, or nobody ever will deliver it.
OutOfFlight(id) ==
  /\ \A a \in Attackers : holds[a] # id
  /\ \A i \in 1 .. Len(results) : results[i].id # id

\* The samples of a tick are results of distinct requests of the tick.
SamplesOfTick ==
  \A t \in Ticks :
    /\ samples[t].ids \subseteq FiredIn(t)
    /\ samples[t].n = Cardinality(samples[t].ids)
    /\ \A id \in samples[t].ids : OutOfFlight(id)

\* A tick being reported is closed and has the result of each of its requests.
CompleteTick ==
  col \in {"stream", "judge"} =>
    /\ cur < tick
    /\ samples[cur].ids = FiredIn(cur)
    /\ samples[cur].ids # {}
    /\ \A id \in samples[cur].ids : fired[id].TargetRPS = samples[cur].n

\* So does a tick that was reported, and no result of it can arrive any more.
ReportedTicksClosed ==
  \A k \in 1 .. Len(reports) :
    LET b == reports[k] IN
      /\ b.tick \in Ticks
      /\ b.tick < tick
      /\ b.ids = FiredIn(b.tick)
      /\ b.n = Cardinality(b.ids)
      /\ \A id \in b.ids : fired[id].TargetRPS = b.n /\ OutOfFlight(id)
      /\ samples[b.tick].ids = {}

ReportedOnce ==
  \A k, l \in 1 .. Len(reports) : reports[k].tick = reports[l].tick => k = l

IInv ==
  /\ TypeOK
  /\ TicksFilled
  /\ InFlightOnce
  /\ SamplesOfTick
  /\ CompleteTick
  /\ ReportedTicksClosed
  /\ ReportedOnce
  /\ FlushCoversReports
=============================================================================
