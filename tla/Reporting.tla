------------------------------ MODULE Reporting ------------------------------
(***************************************************************************)
(* What becomes of the results a runner collects: the metrics of their     *)
(* ticks, the rows of the report file, the chart and the maximum Run       *)
(* returns, and the gauges the process exports to Prometheus.  A process   *)
(* may use one runner after another, all of the same name.  Runner says    *)
(* which results arrive: a tick gets as many as its target, in any order   *)
(* and interleaved with those of other ticks, until the run is cancelled.  *)
(***************************************************************************)
EXTENDS Metrics, Charts

CONSTANTS
  Targets,         \* the target of each tick the scheduler closes in time
  Samples,         \* the results an attacker may deliver
  CSV, PNG,        \* ReportOptions
  Prometheus,      \* Cfg.Prometheus.Enable
  MaxRunners       \* bound of the model: runners a process builds

ASSUME ReportAssumption ==
  /\ Targets \in Seq(Nat \ {0})
  /\ CSV \in BOOLEAN /\ PNG \in BOOLEAN /\ Prometheus \in BOOLEAN
  /\ MaxRunners \in Nat
  /\ \A s \in Samples : s.Begin \in Nat \ {0} /\ s.End \in Nat /\ s.Begin <= s.End

VARIABLES
  runner,     \* the number of the current runner, 0 before the first
  exported,   \* what /metrics shows of each gauge: whose, and of which report
  main,       \* control state of the goroutine that builds and runs the runner
  registered, \* gauges the constructor has gone through
  ticks,      \* receivedTickMetrics: the samples of each tick
  col, cur,   \* control state of the collector, the tick it reports
  gaugesSet,  \* gauges reportTick has set
  reported,   \* history: the ticks of this run that were reported
  percLog,    \* rows written to percLogFile, the header aside
  onDisk,     \* how many of them are in the file, the rest are buffered
  chart,      \* the rendered chart
  maxRPS      \* what Run returned

promVars == <<exported, registered>>
colVars  == <<ticks, col, cur, gaugesSet, reported, percLog>>
endVars  == <<chart, maxRPS>>
vars == <<runner, main, promVars, colVars, onDisk, endVars>>

\* The gauges in the order the constructor registers them, and in the order
\* reportTick sets them.
RegisterOrder == <<"success_ratio", "p50", "p95", "p99", "max", "rps">>
SetOrder      == <<"p50", "p95", "p99", "max", "success_ratio", "rps">>
Gauges        == Range(RegisterOrder)

NoRunner == 0
NoChart  == <<>>

NoSamples == [t \in DOMAIN Targets |-> <<>>]

Init ==
  /\ runner = NoRunner
  /\ exported = [g \in Gauges |-> [runner |-> NoRunner, report |-> 0]]
  /\ main = "returned"
  /\ registered = 0
  /\ ticks = NoSamples
  /\ col = "recv" /\ cur = 0 /\ gaugesSet = 0
  /\ reported = <<>> /\ percLog = <<>> /\ onDisk = 0
  /\ chart = NoChart /\ maxRPS = 0

-----------------------------------------------------------------------------
(* Building a runner *)

\* Files of their own for every runner.
NewReport == percLog' = <<>> /\ onDisk' = 0

\* NewRunner, with new files and new gauges; the process goes on exporting what
\* it has registered.
NewRunner ==
  /\ main = "returned"
  /\ runner < MaxRunners
  /\ runner' = runner + 1
  /\ main' = IF Prometheus THEN "register" ELSE "run"
  /\ registered' = 0
  /\ ticks' = NoSamples
  /\ col' = "recv"
  /\ reported' = <<>>
  /\ NewReport
  /\ chart' = NoChart /\ maxRPS' = 0
  /\ UNCHANGED <<cur, gaugesSet, exported>>

\* The registry refuses a second gauge of the same name and labels, and the
\* refusal is ignored.
Register(g) ==
  exported' = IF exported[g].runner = NoRunner
              THEN [exported EXCEPT ![g] = [runner |-> runner, report |-> 0]]
              ELSE exported

\* Mutant of RegisterGauge: a gauge of the same name is unregistered before.
RegisterGaugeAnew ==
  /\ main = "register"
  /\ LET g == RegisterOrder[registered + 1] IN
       exported' = [exported EXCEPT ![g] = [runner |-> runner, report |-> 0]]
  /\ registered' = registered + 1
  /\ main' = IF registered' = Len(RegisterOrder) THEN "run" ELSE main
  /\ UNCHANGED <<runner, colVars, onDisk, endVars>>

RegisterGauge ==
  /\ main = "register"
  /\ Register(RegisterOrder[registered + 1])
  /\ registered' = registered + 1
  /\ main' = IF registered' = Len(RegisterOrder) THEN "run" ELSE main
  /\ UNCHANGED <<runner, colVars, onDisk, endVars>>

-----------------------------------------------------------------------------
(* The collector *)

ReportedTicks == {reported[i].tick : i \in DOMAIN reported}

\* A result joins the samples of its tick; the last one completes the tick.
Receive(t, s) ==
  /\ main = "run"
  /\ col = "recv"
  /\ t \notin ReportedTicks
  /\ ticks' = [ticks EXCEPT ![t] = Append(@, s)]
  /\ IF Len(ticks'[t]) = Targets[t]
     THEN col' = "report" /\ cur' = t
     ELSE UNCHANGED <<col, cur>>
  /\ UNCHANGED <<runner, main, promVars, gaugesSet, reported, percLog, onDisk,
                 endVars>>

Row(t, m) == [c \in {"tick"} \cup DOMAIN m |-> IF c = "tick" THEN t ELSE m[c]]

\* The metrics of the tick are computed and its row is written; the writer may
\* pass some of what it holds on to the file.
WriteRow ==
  /\ col = "report"
  /\ reported' = Append(reported, [tick |-> cur, samples |-> ticks[cur]])
  /\ IF CSV
     THEN /\ percLog' = Append(percLog, Row(cur, MetricsOf(ticks[cur])))
          /\ onDisk' \in onDisk .. Len(percLog')
     ELSE UNCHANGED <<percLog, onDisk>>
  /\ col' = "gauges"
  /\ UNCHANGED <<runner, main, promVars, ticks, cur, gaugesSet, endVars>>

\* reportTick sets one gauge after the other; a gauge that is not registered is
\* set all the same, and nobody sees it.
SetGauge ==
  /\ col = "gauges"
  /\ Prometheus
  /\ gaugesSet < Len(SetOrder)
  /\ gaugesSet' = gaugesSet + 1
  /\ LET g == SetOrder[gaugesSet + 1] IN
       exported' = IF exported[g].runner = runner
                   THEN [exported EXCEPT ![g].report = Len(reported)]
                   ELSE exported
  /\ UNCHANGED <<runner, main, registered, ticks, col, cur, reported, percLog, onDisk,
                 endVars>>

\* Mutant of ForgetTick: the entry of the tick stays.
KeepTick ==
  /\ col = "gauges"
  /\ Prometheus => gaugesSet = Len(SetOrder)
  /\ col' = "recv" /\ cur' = 0 /\ gaugesSet' = 0
  /\ UNCHANGED <<runner, main, promVars, ticks, reported, percLog, onDisk, endVars>>

ForgetTick ==
  /\ col = "gauges"
  /\ Prometheus => gaugesSet = Len(SetOrder)
  /\ ticks' = [ticks EXCEPT ![cur] = <<>>]
  /\ col' = "recv" /\ cur' = 0 /\ gaugesSet' = 0
  /\ UNCHANGED <<runner, main, promVars, reported, percLog, onDisk, endVars>>

\* The run is cancelled: samples of ticks that are not complete are dropped.
CollectorStop ==
  /\ main = "run"
  /\ col = "recv"
  /\ col' = "exited"
  /\ UNCHANGED <<runner, main, promVars, ticks, cur, gaugesSet, reported, percLog,
                 onDisk, endVars>>

-----------------------------------------------------------------------------
(* The end of Run *)

\* Mutant of FlushLogs: the writer of the percentiles is forgotten.
FlushRequestsOnly ==
  /\ main = "run"
  /\ col = "exited"
  /\ main' = IF CSV THEN "plot" ELSE "returned"
  /\ UNCHANGED <<runner, promVars, colVars, onDisk, endVars>>

\* The wait group is done.  Without CSV nothing is left to do, and Run returns 0.
FlushLogs ==
  /\ main = "run"
  /\ col = "exited"
  /\ onDisk' = Len(percLog)
  /\ main' = IF CSV THEN "plot" ELSE "returned"
  /\ UNCHANGED <<runner, promVars, colVars, endVars>>

InFile == SubSeq(percLog, 1, onDisk)

\* plot reads the file back.  One without rows is an error, logged and forgotten.
Plot ==
  /\ main = "plot"
  /\ chart' = IF PNG /\ InFile # <<>> THEN PercsChart(InFile) ELSE NoChart
  /\ main' = "max"
  /\ UNCHANGED <<runner, promVars, colVars, onDisk, maxRPS>>

\* maxRPS reads the file once more.  It takes the header for a row, whose rate
\* is no number and counts as 0.
ReadMaxRPS ==
  /\ main = "max"
  /\ maxRPS' = MaxRPS({0} \cup {InFile[i].rps : i \in DOMAIN InFile})
  /\ main' = "returned"
  /\ UNCHANGED <<runner, promVars, colVars, onDisk, chart>>

-----------------------------------------------------------------------------
Next ==
  \/ NewRunner
  \/ RegisterGauge
  \/ \E t \in DOMAIN Targets, s \in Samples : Receive(t, s)
  \/ WriteRow
  \/ SetGauge
  \/ ForgetTick
  \/ CollectorStop
  \/ FlushLogs
  \/ Plot
  \/ ReadMaxRPS

Spec == Init /\ [][Next]_vars

-----------------------------------------------------------------------------
(* Properties *)

\* The shape of the state.  A tick has at most its target of samples, and none
\* once it was reported: the map of ticks holds those in progress only
\* (runner.go:387).
TypeOK ==
  /\ runner \in 0 .. MaxRunners
  /\ \A g \in Gauges : exported[g].runner \in 0 .. runner
  /\ main \in {"register", "run", "plot", "max", "returned"}
  /\ col \in {"recv", "report", "gauges", "exited"}
  /\ cur # 0 <=> col \in {"report", "gauges"}
  /\ registered \in 0 .. Len(RegisterOrder)
  /\ gaugesSet \in 0 .. Len(SetOrder)
  /\ \A t \in DOMAIN Targets :
       Len(ticks[t]) <= (IF t \in ReportedTicks /\ t # cur THEN 0 ELSE Targets[t])
  /\ onDisk \in 0 .. Len(percLog)

\* The chart (graph_report.go:132-149) has one point per reported tick on each
\* line, at that tick and with the figures of exactly its samples, in whatever
\* order results arrived, ticks were reported and the writer passed rows on.
ChartShowsReports ==
  main \in {"max", "returned"} /\ runner # NoRunner /\ CSV /\ PNG =>
    IF reported = <<>> THEN chart = NoChart
    ELSE /\ DOMAIN chart = PercsSeries
         /\ \A s \in PercsSeries :
              chart[s] = [i \in DOMAIN reported |->
                            <<reported[i].tick, Summary(reported[i].samples)[s]>>]

\* Run returns the highest rate of a reported tick, as told by the samples of the
\* ticks, and 0 when it reported none or keeps no file (runner.go:194-201, 396-416).
MaxRPSIsReached ==
  main = "returned" =>
    LET rates == {Summary(reported[i].samples).rps : i \in DOMAIN reported}
    IN maxRPS = IF CSV /\ rates # {} THEN Max(rates) ELSE 0

\* A scrape at any moment shows one runner only, the first of its name, and of
\* that one figures of at most two reports, the second being the next after the
\* first; gauges are registered and set one by one, without a lock
\* (prometheus_metrics.go:18-66, 69-76).
ScrapeOfOneRunner ==
  \A g, h \in Gauges :
    exported[g].runner # NoRunner /\ exported[h].runner # NoRunner =>
      /\ exported[g].runner = exported[h].runner
      /\ exported[g].report <= exported[h].report + 1
=============================================================================
