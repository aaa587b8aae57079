------------------------------- MODULE Metrics -------------------------------
(***************************************************************************)
(* The metrics of one tick (metrics.go): its samples are added one at a    *)
(* time, in the order their results arrived, then the derived figures are  *)
(* computed once.  Times are counted in units of 1/Second seconds from a   *)
(* moment before the run, so that 0 stands for the zero time of Go.        *)
(* Fractions are truncated, as they are in the rows of the report.         *)
(***************************************************************************)
EXTENDS Sorting

CONSTANT Second   \* units of time in a second

ASSUME SecondAssumption == Second \in Nat \ {0}

Elapsed(s) == s.End - s.Begin

Later(a, b) == IF a > b THEN a ELSE b

NewMetrics ==
  [Requests |-> 0, success |-> 0, latencies |-> <<>>, MaxLatency |-> 0,
   Earliest |-> 0, Latest |-> 0, End |-> 0]

\* No error text, and a status code that is either left out or of no failure.
Successful(s) == s.Error = "" /\ (s.StatusCode = 0 \/ s.StatusCode \in 200 .. 399)

\* Mutant of Earlier: the zero time counts as the earliest.
EarlierOrZero(old, begin) == IF old > begin THEN begin ELSE old

Earlier(old, begin) == IF old = 0 \/ old > begin THEN begin ELSE old

Add(m, s) ==
  [Requests   |-> m.Requests + 1,
   success    |-> m.success + (IF Successful(s) THEN 1 ELSE 0),
   latencies  |-> Append(m.latencies, Elapsed(s)),
   MaxLatency |-> Later(m.MaxLatency, Elapsed(s)),
   Earliest   |-> Earlier(m.Earliest, s.Begin),
   Latest     |-> Later(m.Latest, s.Begin),
   End        |-> Later(m.End, s.End)]

\* The estimator of a percentile, taken as exact: the smallest latency that
\* percent of the samples do not exceed.
Quantile(percent, latencies) ==
  LET below(x) == {i \in DOMAIN latencies : latencies[i] <= x}
      enough == {x \in Range(latencies) :
                   Cardinality(below(x)) * 100 >= percent * Len(latencies)}
  IN Min(enough)

\* What update derives.  The rate is left 0 when all requests began at once, in
\* particular when there was one.
Updated(m) ==
  [rps |-> IF m.Latest > m.Earliest
           THEN (m.Requests * Second) \div (m.Latest - m.Earliest) ELSE 0,
   p50 |-> Quantile(50, m.latencies),
   p95 |-> Quantile(95, m.latencies),
   p99 |-> Quantile(99, m.latencies),
   max |-> m.MaxLatency,
   success |-> (m.success * 100) \div m.Requests,
   wait |-> m.End - m.Latest]

MetricsOf(samples) == Updated(FoldLeft(Add, NewMetrics, samples))

-----------------------------------------------------------------------------
(* The same figures told from the samples as a whole. *)

Summary(samples) ==
  LET n == Len(samples)
      begins == {samples[i].Begin : i \in 1 .. n}
      ends == {samples[i].End : i \in 1 .. n}
      latencies == [i \in 1 .. n |-> Elapsed(samples[i])]
      rank(percent) == Ranked((percent * n + 99) \div 100, latencies)
  IN [rps |-> IF Cardinality(begins) = 1 THEN 0
              ELSE (n * Second) \div (Max(begins) - Min(begins)),
      p50 |-> rank(50),
      p95 |-> rank(95),
      p99 |-> rank(99),
      max |-> Ranked(n, latencies),
      success |-> (100 * Cardinality({i \in 1 .. n : Successful(samples[i])})) \div n,
      wait |-> Max(ends) - Max(begins)]
=============================================================================
