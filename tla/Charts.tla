------------------------------- MODULE Charts -------------------------------
(***************************************************************************)
(* The chart of response times drawn from the file of a run:               *)
(* graph_report.go.  A file is the sequence of its rows.  A line is the    *)
(* pair of lists ChartLine has, and the charting library pairs them up by  *)
(* position, so that a list sorted or replaced on its own moves points.    *)
(***************************************************************************)
EXTENDS Sorting

\* The points a library draws for a line, at 0 those beyond the X axis.
Points(xs, ys) == [i \in DOMAIN ys |-> <<IF i \in DOMAIN xs THEN xs[i] ELSE 0, ys[i]>>]

\* The largest of the values, 1 for none.
MaxRPS(values) == IF values = {} THEN 1 ELSE Max(values)

Lists(rows, x(_), y(_)) ==
  [XValues |-> [i \in DOMAIN rows |-> x(rows[i])],
   YValues |-> [i \in DOMAIN rows |-> y(rows[i])]]

\* The lines of the chart; a row has a reported tick.
PercsSeries == {"rps", "p50", "p95", "p99"}

\* Every line has the ticks for X.  The header is skipped.
ParsePercsData(rows) ==
  [s \in PercsSeries |-> Lists(rows, LAMBDA r : r.tick, LAMBDA r : r[s])]

\* One X axis for all lines, that of "rps".
PercsChart(rows) ==
  LET d == ParsePercsData(rows) IN
  [s \in PercsSeries |-> Points(d["rps"].XValues, d[s].YValues)]
=============================================================================
