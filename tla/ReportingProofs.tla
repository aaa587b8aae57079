--------------------------- MODULE ReportingProofs ---------------------------
(***************************************************************************)
(* For every number of ticks, samples and runners: the figures of a tick   *)
(* are those of its samples as a whole, the metrics in progress are no     *)
(* more than the ticks in progress, a scrape shows one runner, and charts  *)
(* and maximum of a run are those of its reports.                          *)
(***************************************************************************)
EXTENDS Reporting, FiniteSetTheorems, TLAPS

\* The fold of the model: samples into metrics.
Figures == INSTANCE FoldFacts WITH Op <- Add, Base <- NewMetrics

-----------------------------------------------------------------------------
(* Sums of samples *)

LEMMA MaxIs ==
  ASSUME NEW S, NEW m \in S, S \subseteq Nat, \A y \in S : m >= y
  PROVE  Max(S) = m
<1>1. \A x \in S : (\A y \in S : x >= y) => x = m
  OBVIOUS
<1> QED BY <1>1 DEF Max

LEMMA MinIs ==
  ASSUME NEW S, NEW m \in S, S \subseteq Nat, \A y \in S : m <= y
  PROVE  Min(S) = m
<1>1. \A x \in S : (\A y \in S : x <= y) => x = m
  OBVIOUS
<1> QED BY <1>1 DEF Min

-----------------------------------------------------------------------------
\* What has been added up after k samples.
Counts(ss, k, m) ==
  /\ m.Requests = k
  /\ m.success = Cardinality({i \in 1 .. k : Successful(ss[i])})
  /\ m.latencies \in Seq(Nat) /\ Len(m.latencies) = k
  /\ \A i \in 1 .. k : m.latencies[i] = Elapsed(ss[i])

Extremes(ss, k, m) ==
  /\ \E i \in 1 .. k : m.MaxLatency = Elapsed(ss[i])
  /\ \A i \in 1 .. k : m.MaxLatency >= Elapsed(ss[i])
  /\ \E i \in 1 .. k : m.Earliest = ss[i].Begin
  /\ \A i \in 1 .. k : m.Earliest <= ss[i].Begin
  /\ \E i \in 1 .. k : m.Latest = ss[i].Begin
  /\ \A i \in 1 .. k : m.Latest >= ss[i].Begin
  /\ \E i \in 1 .. k : m.End = ss[i].End
  /\ \A i \in 1 .. k : m.End >= ss[i].End

SumsTo(ss, k, m) ==
  /\ Counts(ss, k, m)
  /\ IF k = 0 THEN m.MaxLatency = 0 /\ m.Earliest = 0 /\ m.Latest = 0 /\ m.End = 0
     ELSE Extremes(ss, k, m)

Moments(s) == s.Begin \in Nat \ {0} /\ s.End \in Nat /\ s.Begin <= s.End

LEMMA AddSums ==
  ASSUME NEW ss, NEW k \in Nat, NEW m, SumsTo(ss, k, m),
         \A i \in 1 .. k + 1 : Moments(ss[i])
  PROVE  SumsTo(ss, k + 1, Add(m, ss[k + 1]))
<1> DEFINE s == ss[k + 1]
           a == Add(m, s)
<1>1. /\ Moments(s) /\ Elapsed(s) \in Nat
      /\ \A i \in 1 .. k : Moments(ss[i]) /\ Elapsed(ss[i]) \in Nat
      /\ \A i \in 1 .. k + 1 : i \in 1 .. k \/ i = k + 1
      /\ \A i \in 1 .. k : i \in 1 .. k + 1
      /\ k + 1 \in 1 .. k + 1 /\ k + 1 # 0
  BY DEF Moments, Elapsed
<1>2. a.Requests = k + 1
  BY DEF Add, SumsTo, Counts
<1>3. a.success = Cardinality({i \in 1 .. k + 1 : Successful(ss[i])})
  <2> DEFINE S == {i \in 1 .. k : Successful(ss[i])}
  <2>1. IsFiniteSet(S) /\ Cardinality(S) \in Nat
    <3>1. IsFiniteSet(1 .. k) /\ S \in SUBSET (1 .. k)
      BY FS_Interval
    <3> QED BY <3>1, FS_Subset, FS_CardinalityType
  <2>2. a.success = Cardinality(S) + (IF Successful(s) THEN 1 ELSE 0)
    BY DEF Add, SumsTo, Counts
  <2>3. CASE Successful(s)
    <3>1. {i \in 1 .. k + 1 : Successful(ss[i])} = S \cup {k + 1} /\ k + 1 \notin S
      BY <1>1, <2>3
    <3> QED BY <2>1, <2>2, <2>3, <3>1, FS_AddElement
  <2>4. CASE ~Successful(s)
    <3>1. {i \in 1 .. k + 1 : Successful(ss[i])} = S
      BY <1>1, <2>4
    <3> HIDE DEF S
    <3> QED BY <2>1, <2>2, <2>4, <3>1
  <2> QED BY <2>3, <2>4
<1>4. /\ a.latencies \in Seq(Nat) /\ Len(a.latencies) = k + 1
      /\ \A i \in 1 .. k + 1 : a.latencies[i] = Elapsed(ss[i])
  <2>1. /\ a.latencies = Append(m.latencies, Elapsed(s))
        /\ m.latencies \in Seq(Nat) /\ Len(m.latencies) = k
        /\ \A i \in 1 .. k : m.latencies[i] = Elapsed(ss[i])
    BY DEF Add, SumsTo, Counts
  <2> HIDE DEF a
  <2> QED BY <1>1, <2>1
<1>5. /\ a.MaxLatency = Later(m.MaxLatency, Elapsed(s))
      /\ a.Earliest = Earlier(m.Earliest, s.Begin)
      /\ a.Latest = Later(m.Latest, s.Begin)
      /\ a.End = Later(m.End, s.End)
  BY DEF Add
<1> HIDE DEF a
<1>8. Counts(ss, k + 1, a)
  BY <1>2, <1>3, <1>4, Zenon DEF Counts
<1>6. CASE k = 0
  <2>1. m.MaxLatency = 0 /\ m.Earliest = 0 /\ m.Latest = 0 /\ m.End = 0
    BY <1>6 DEF SumsTo
  <2>2. /\ a.MaxLatency = Elapsed(s) /\ a.Earliest = s.Begin /\ a.Latest = s.Begin
        /\ a.End = s.End
    BY <1>1, <1>5, <2>1 DEF Later, Earlier, Moments
  <2>3. 1 .. k + 1 = {k + 1} /\ k + 1 # 0
    BY <1>6
  <2>4. Extremes(ss, k + 1, a)
    BY <1>1, <2>2, <2>3 DEF Extremes, Moments
  <2> QED BY <1>8, <2>3, <2>4, Zenon DEF SumsTo, a
<1>7. CASE k # 0
  <2>1. /\ \E i \in 1 .. k : m.MaxLatency = Elapsed(ss[i])
        /\ \A i \in 1 .. k : m.MaxLatency >= Elapsed(ss[i])
    BY <1>7 DEF SumsTo, Extremes
  <2>2. /\ \E i \in 1 .. k : m.Earliest = ss[i].Begin
        /\ \A i \in 1 .. k : m.Earliest <= ss[i].Begin
    BY <1>7 DEF SumsTo, Extremes
  <2>3. /\ \E i \in 1 .. k : m.Latest = ss[i].Begin
        /\ \A i \in 1 .. k : m.Latest >= ss[i].Begin
    BY <1>7 DEF SumsTo, Extremes
  <2>4. /\ \E i \in 1 .. k : m.End = ss[i].End
        /\ \A i \in 1 .. k : m.End >= ss[i].End
    BY <1>7 DEF SumsTo, Extremes
  <2>5. /\ \E i \in 1 .. k + 1 : a.MaxLatency = Elapsed(ss[i])
        /\ \A i \in 1 .. k + 1 : a.MaxLatency >= Elapsed(ss[i])
    BY <1>1, <1>5, <2>1 DEF Later
  <2>6. /\ \E i \in 1 .. k + 1 : a.Earliest = ss[i].Begin
        /\ \A i \in 1 .. k + 1 : a.Earliest <= ss[i].Begin
    BY <1>1, <1>5, <2>2 DEF Earlier, Moments
  <2>7. /\ \E i \in 1 .. k + 1 : a.Latest = ss[i].Begin
        /\ \A i \in 1 .. k + 1 : a.Latest >= ss[i].Begin
    BY <1>1, <1>5, <2>3 DEF Later, Moments
  <2>8. /\ \E i \in 1 .. k + 1 : a.End = ss[i].End
        /\ \A i \in 1 .. k + 1 : a.End >= ss[i].End
    BY <1>1, <1>5, <2>4 DEF Later, Moments
  <2>9. Extremes(ss, k + 1, a)
    BY <2>5, <2>6, <2>7, <2>8, Zenon DEF Extremes
  <2> QED BY <1>1, <1>8, <2>9, Zenon DEF SumsTo, a
<1> QED BY <1>6, <1>7 DEF a

LEMMA FoldSums ==
  ASSUME NEW ss, NEW n \in Nat, DOMAIN ss = 1 .. n, \A i \in 1 .. n : Moments(ss[i])
  PROVE  SumsTo(ss, n, FoldLeft(Add, NewMetrics, ss))
<1>1. PICK m : /\ m[0] = NewMetrics
               /\ \A k \in 1 .. n : m[k] = Add(m[k - 1], ss[k])
               /\ FoldLeft(Add, NewMetrics, ss) = m[n]
      BY Figures!FoldSteps DEF FoldLeft, Figures!FoldLeft, MapThenFoldSet,
                             Figures!MapThenFoldSet, Max, Figures!Max
<1> DEFINE T == {k \in 0 .. n : SumsTo(ss, k, m[k])}
<1>2. 0 \in T
  <2>1. 1 .. 0 = {} /\ {i \in 1 .. 0 : Successful(ss[i])} = {} /\ Cardinality({}) = 0
    BY FS_EmptySet
  <2>2. SumsTo(ss, 0, m[0])
    BY <1>1, <2>1 DEF SumsTo, Counts, NewMetrics
  <2> QED BY <2>2
<1>3. ASSUME NEW k \in 0 .. n - 1, k \in T PROVE k + 1 \in T
  <2>1. /\ k \in Nat /\ SumsTo(ss, k, m[k]) /\ \A i \in 1 .. k + 1 : Moments(ss[i])
        /\ k + 1 \in 1 .. n /\ (k + 1) - 1 = k /\ k + 1 \in 0 .. n
    BY <1>3
  <2>2. m[k + 1] = Add(m[k], ss[k + 1])
    BY <1>1, <2>1
  <2>3. SumsTo(ss, k + 1, m[k + 1])
    BY <2>1, <2>2, AddSums
  <2> QED BY <2>1, <2>3
<1> HIDE DEF T
<1>4. n \in T
  <2>1. \A k \in 0 .. n : k \in T
    BY <1>2, <1>3, Figures!UpTo
  <2> QED BY <2>1
<1> QED BY <1>1, <1>4 DEF T
-----------------------------------------------------------------------------
\* Ranks.

LEMMA Counted ==
  ASSUME NEW n \in Nat, NEW values \in [1 .. n -> Nat], NEW S \in SUBSET (1 .. n),
         NEW T \in SUBSET S
  PROVE  /\ Cardinality(S) \in Nat /\ Cardinality(T) \in Nat
         /\ Cardinality(T) <= Cardinality(S) /\ Cardinality(S) <= n
<1> DEFINE I == 1 .. n
<1>1. IsFiniteSet(I) /\ Cardinality(I) = n /\ S \in SUBSET I
  BY FS_Interval
<1> HIDE DEF I
<1>2. IsFiniteSet(S) /\ Cardinality(S) <= Cardinality(I)
  BY <1>1, FS_Subset
<1>3. IsFiniteSet(T) /\ Cardinality(T) <= Cardinality(S)
  BY <1>2, FS_Subset
<1> QED BY <1>1, <1>2, <1>3, FS_CardinalityType

\* Only one value stands at a place.
LEMMA OneAtPlace ==
  ASSUME NEW n \in Nat, NEW values \in [1 .. n -> Nat], NEW k \in Nat,
         NEW x \in Nat, NEW y \in Nat, IsAt(x, k, values), IsAt(y, k, values)
  PROVE  x = y
<1>1. ASSUME NEW a \in Nat, NEW b \in Nat, IsAt(a, k, values), IsAt(b, k, values), a < b
      PROVE  FALSE
  <2>1. /\ UpToValue(a, values) \in SUBSET BelowValue(b, values)
        /\ BelowValue(b, values) \in SUBSET (1 .. n)
    BY <1>1 DEF UpToValue, BelowValue
  <2>2. /\ Cardinality(BelowValue(b, values)) \in Nat
        /\ Cardinality(UpToValue(a, values)) \in Nat
        /\ Cardinality(UpToValue(a, values)) <= Cardinality(BelowValue(b, values))
    BY <2>1, Counted
  <2> QED BY <1>1, <2>2 DEF IsAt
<1> QED BY <1>1

LEMMA RankedIs ==
  ASSUME NEW n \in Nat, NEW values \in [1 .. n -> Nat], NEW k \in Nat,
         NEW i \in 1 .. n, IsAt(values[i], k, values)
  PROVE  Ranked(k, values) = values[i]
<1>1. Range(values) = {values[j] : j \in 1 .. n}
  BY DEF Range
<1>2. values[i] \in Range(values) /\ Range(values) \subseteq Nat
  BY <1>1
<1>3. \A x \in Range(values) : IsAt(x, k, values) => x = values[i]
  BY <1>2, OneAtPlace
<1>4. Ranked(k, values) = CHOOSE x \in Range(values) : IsAt(x, k, values)
  BY Zenon DEF Ranked
<1> QED BY <1>2, <1>3, <1>4

\* The values that at least k do not exceed.
Reaching(k, values) == {x \in Range(values) : Cardinality(UpToValue(x, values)) >= k}

\* Where the highest of n values is.
Highest(top, n, values) == top \in 1 .. n /\ \A i \in 1 .. n : values[i] <= values[top]

\* The smallest value that so many do not exceed stands at that place.
LEMMA SmallestIsRanked ==
  ASSUME NEW n \in Nat \ {0}, NEW values \in [1 .. n -> Nat], NEW k \in 1 .. n,
         NEW top, Highest(top, n, values)
  PROVE  Min(Reaching(k, values)) = Ranked(k, values)
<1> USE DEF Highest
<1> DEFINE E == {x \in Range(values) : Cardinality(UpToValue(x, values)) >= k}
<1>1. Range(values) = {values[j] : j \in 1 .. n} /\ Range(values) \subseteq Nat
  BY DEF Range
<1>2. values[top] \in E
  <2>1. UpToValue(values[top], values) = 1 .. n
    BY DEF UpToValue
  <2>2. Cardinality(1 .. n) = n
    BY FS_Interval
  <2> QED BY <1>1, <2>1, <2>2
<1>3. PICK x \in E : \A y \in E : x <= y
  <2>1. E \in SUBSET Nat
    BY <1>1
  <2> HIDE DEF E
  <2> QED BY <1>2, <2>1, Figures!Least
<1>4. Min(E) = x
  <2>1. E \subseteq Nat
    BY <1>1
  <2> HIDE DEF E
  <2> QED BY <1>3, <2>1, MinIs
<1>5. PICK i \in 1 .. n : x = values[i]
  BY <1>1
<1> DEFINE B == BelowValue(x, values)
<1>6. B \in SUBSET (1 .. n) /\ Cardinality(B) \in Nat
  <2>1. B \in SUBSET (1 .. n)
    BY DEF BelowValue
  <2> QED BY <2>1, Counted
<1>7. Cardinality(B) < k
  <2>1. CASE B = {}
    BY <2>1, FS_EmptySet
  <2>2. CASE B # {}
    <3> DEFINE V == {values[j] : j \in B}
    <3>1. V \in SUBSET Nat /\ V # {} /\ \A v \in V : v <= x
      <4>1. \A j \in B : j \in 1 .. n /\ values[j] \in Nat /\ values[j] < x
        BY <1>5 DEF BelowValue
      <4> QED BY <1>5, <2>2, <4>1
    <3>2. PICK v \in V : \A w \in V : v >= w
      <4> HIDE DEF V
      <4> QED BY <1>5, <3>1, Figures!Greatest
    <3>3. PICK j \in B : v = values[j]
      OBVIOUS
    <3>4. v \in Range(values) /\ v < x /\ v \in Nat /\ x \in Nat
      BY <1>1, <1>5, <3>3 DEF BelowValue
    <3>5. v \notin E
      BY <1>3, <3>4
    <3>6. ~(Cardinality(UpToValue(v, values)) >= k)
      BY <3>4, <3>5
    <3>7. B \in SUBSET UpToValue(v, values) /\ UpToValue(v, values) \in SUBSET (1 .. n)
      <4>1. \A h \in B : h \in 1 .. n /\ values[h] <= v
        <5>1. \A h \in B : h \in 1 .. n /\ values[h] \in V /\ values[h] \in Nat
          BY <1>6
        <5> QED BY <3>2, <3>4, <5>1
      <4> QED BY <4>1 DEF UpToValue
    <3>8. /\ Cardinality(B) <= Cardinality(UpToValue(v, values))
          /\ Cardinality(UpToValue(v, values)) \in Nat
      <4> HIDE DEF B
      <4> QED BY <3>7, Counted
    <3> HIDE DEF B
    <3> QED BY <1>6, <3>6, <3>8
  <2> QED BY <2>1, <2>2
<1>8. k <= Cardinality(UpToValue(x, values))
  <2>1. Cardinality(UpToValue(x, values)) \in Nat
    <3>1. UpToValue(x, values) \in SUBSET (1 .. n)
      BY DEF UpToValue
    <3> QED BY <3>1, Counted
  <2> QED BY <1>3, <2>1
<1>9. IsAt(values[i], k, values)
  BY <1>5, <1>7, <1>8 DEF IsAt
<1>10. Reaching(k, values) = E
  BY Zenon DEF Reaching
<1> HIDE DEF E
<1> QED BY <1>4, <1>5, <1>9, <1>10, RankedIs

\* The highest value stands last.
LEMMA HighestIsLast ==
  ASSUME NEW n \in Nat \ {0}, NEW values \in [1 .. n -> Nat],
         NEW top, Highest(top, n, values)
  PROVE  Ranked(n, values) = values[top]
<1> USE DEF Highest
<1>1. /\ UpToValue(values[top], values) = 1 .. n
      /\ IsFiniteSet(1 .. n) /\ Cardinality(1 .. n) = n
  <2>1. UpToValue(values[top], values) = 1 .. n
    BY DEF UpToValue
  <2>2. IsFiniteSet(1 .. n) /\ Cardinality(1 .. n) = n
    BY FS_Interval
  <2> QED BY <2>1, <2>2
<1>2. Cardinality(BelowValue(values[top], values)) < n
  <2> DEFINE B == BelowValue(values[top], values)
             R == 1 .. n
  <2>1. B \in SUBSET (R \ {top})
    BY DEF BelowValue
  <2>2. IsFiniteSet(R) /\ Cardinality(R) = n /\ top \in R
    BY <1>1
  <2> HIDE DEF B, R
  <2>5. IsFiniteSet(R \ {top}) /\ Cardinality(R \ {top}) = n - 1
    BY <2>2, FS_RemoveElement
  <2>3. IsFiniteSet(B) /\ Cardinality(B) <= n - 1
    BY <2>1, <2>5, FS_Subset
  <2>4. Cardinality(B) \in Nat
    BY <2>3, FS_CardinalityType
  <2> QED BY <2>3, <2>4 DEF B
<1>3. IsAt(values[top], n, values)
  BY <1>1, <1>2 DEF IsAt
<1> QED BY <1>3, RankedIs

\* A count covers the percentage of n values when it is k or more.
Covers(k, percent, n) == \A c \in Nat : c * 100 >= percent * n <=> c >= k

LEMMA QuantileIsRanked ==
  ASSUME NEW n \in Nat \ {0}, NEW values \in [1 .. n -> Nat], NEW percent,
         NEW k \in 1 .. n, NEW top, Len(values) = n,
         Covers(k, percent, n), Highest(top, n, values)
  PROVE  Quantile(percent, values) = Ranked(k, values)
<1>1. \A x : Cardinality(UpToValue(x, values)) \in Nat
  <2>1. \A x : UpToValue(x, values) \in SUBSET (1 .. n)
    BY DEF UpToValue
  <2> QED BY <2>1, Counted
<1>2. Quantile(percent, values)
        = Min({x \in Range(values) :
                 Cardinality(UpToValue(x, values)) * 100 >= percent * n})
  BY Zenon DEF Quantile, UpToValue
<1>3. {x \in Range(values) : Cardinality(UpToValue(x, values)) * 100 >= percent * n}
        = Reaching(k, values)
  BY <1>1 DEF Reaching, Covers
<1>4. Min(Reaching(k, values)) = Ranked(k, values)
  BY SmallestIsRanked
<1> QED BY <1>2, <1>3, <1>4

\* The place of a percentile.
Place(percent, n) == (percent * n + 99) \div 100

LEMMA PlaceOf ==
  ASSUME NEW n \in Nat \ {0}, NEW percent \in {50, 95, 99}
  PROVE  Place(percent, n) \in 1 .. n /\ Covers(Place(percent, n), percent, n)
<1> USE DEF Covers, Place
<1>1. CASE percent = 50
  BY <1>1
<1>2. CASE percent = 95
  BY <1>2
<1>3. CASE percent = 99
  BY <1>3
<1> QED BY <1>1, <1>2, <1>3

LEMMA PercentileIsRanked ==
  ASSUME NEW n \in Nat \ {0}, NEW values \in [1 .. n -> Nat],
         NEW percent \in {50, 95, 99}, NEW top, Len(values) = n, Highest(top, n, values)
  PROVE  Quantile(percent, values) = Ranked(Place(percent, n), values)
<1>1. Place(percent, n) \in 1 .. n /\ Covers(Place(percent, n), percent, n)
  BY PlaceOf
<1> QED BY <1>1, QuantileIsRanked

-----------------------------------------------------------------------------
(* The figures of a tick *)

LEMMA FiguresAgree ==
  ASSUME NEW ss, NEW n \in Nat \ {0}, DOMAIN ss = 1 .. n, Len(ss) = n,
         \A i \in 1 .. n : Moments(ss[i])
  PROVE  MetricsOf(ss) = Summary(ss) /\ MetricsOf(ss).rps \in Nat
<1> DEFINE m == FoldLeft(Add, NewMetrics, ss)
           lat == [i \in 1 .. n |-> Elapsed(ss[i])]
           begins == {ss[i].Begin : i \in 1 .. n}
           ends == {ss[i].End : i \in 1 .. n}
           rank(percent) == Ranked((percent * n + 99) \div 100, lat)
<1>1. Counts(ss, n, m) /\ Extremes(ss, n, m)
  BY FoldSums DEF SumsTo
<1> HIDE DEF m
<1>2. /\ lat \in [1 .. n -> Nat] /\ \A i \in 1 .. n : lat[i] = Elapsed(ss[i])
      /\ m.latencies = lat /\ Len(lat) = n
  <2>1. \A i \in 1 .. n : Elapsed(ss[i]) \in Nat
    BY DEF Moments, Elapsed
  <2>2. lat \in [1 .. n -> Nat] /\ \A i \in 1 .. n : lat[i] = Elapsed(ss[i])
    BY <2>1
  <2>3. /\ m.latencies \in Seq(Nat) /\ Len(m.latencies) = n
        /\ \A i \in 1 .. n : m.latencies[i] = Elapsed(ss[i])
    BY <1>1, Zenon DEF Counts
  <2> HIDE DEF lat
  <2>4. m.latencies = lat
    <3>1. m.latencies \in [1 .. n -> Nat]
      BY <2>3
    <3> QED BY <2>2, <2>3, <3>1
  <2> QED BY <2>2, <2>3, <2>4
<1> HIDE DEF lat
<1>3. PICK top : m.MaxLatency = lat[top] /\ Highest(top, n, lat)
  <2>1. PICK i \in 1 .. n : m.MaxLatency = Elapsed(ss[i])
    BY <1>1 DEF Extremes
  <2>2. \A j \in 1 .. n : m.MaxLatency >= Elapsed(ss[j])
    BY <1>1 DEF Extremes
  <2>3. \A j \in 1 .. n : lat[j] = Elapsed(ss[j]) /\ lat[j] \in Nat
    BY <1>2
  <2> QED BY <2>1, <2>2, <2>3 DEF Highest
<1>4. \A percent \in {50, 95, 99} : Quantile(percent, m.latencies) = rank(percent)
  <2>1. lat \in [1 .. n -> Nat] /\ Len(lat) = n /\ Highest(top, n, lat)
    BY <1>2, <1>3
  <2>2. ASSUME NEW percent \in {50, 95, 99}
        PROVE  Quantile(percent, lat) = Ranked(Place(percent, n), lat)
    BY <2>1, PercentileIsRanked
  <2>3. m.latencies = lat
    BY <1>2
  <2> HIDE DEF rank
  <2>4. ASSUME NEW percent \in {50, 95, 99}
        PROVE  Quantile(percent, lat) = rank(percent)
    BY <2>2 DEF rank, Place
  <2> QED BY <2>3, <2>4
<1>5. m.MaxLatency = Ranked(n, lat)
  BY <1>2, <1>3, HighestIsLast
<1>6. /\ m.Latest \in begins /\ m.Earliest \in begins /\ begins \subseteq Nat
      /\ \A b \in begins : m.Latest >= b /\ m.Earliest <= b
  <2>1. \A i \in 1 .. n : ss[i].Begin \in Nat
    BY DEF Moments
  <2> QED BY <1>1, <2>1 DEF Extremes
<1>7. m.End \in ends /\ ends \subseteq Nat /\ \A b \in ends : m.End >= b
  <2>1. \A i \in 1 .. n : ss[i].End \in Nat
    BY DEF Moments
  <2> QED BY <1>1, <2>1 DEF Extremes
<1>8. Cardinality(begins) = 1 <=> m.Latest = m.Earliest
  <2>1. IsFiniteSet(begins)
    <3> DEFINE f == [i \in 1 .. n |-> ss[i].Begin]
    <3>1. f \in Surjection(1 .. n, begins)
      BY DEF Surjection
    <3>2. IsFiniteSet(1 .. n)
      BY FS_Interval
    <3> HIDE DEF f, begins
    <3> QED BY <3>1, <3>2, FS_Surjection
  <2> HIDE DEF begins
  <2>2. Cardinality(begins) = 1 <=> \E x : begins = {x}
    BY <2>1, FS_Singleton
  <2>3. ASSUME m.Latest = m.Earliest PROVE begins = {m.Latest}
    <3>1. ASSUME NEW b \in begins PROVE b = m.Latest
      <4>1. b \in Nat /\ m.Latest \in Nat /\ m.Latest >= b /\ m.Earliest <= b
        BY <1>6
      <4> QED BY <2>3, <4>1
    <3> QED BY <1>6, <3>1
  <2>4. ASSUME NEW x, begins = {x} PROVE m.Latest = m.Earliest
    BY <1>6, <2>4
  <2> QED BY <2>2, <2>3, <2>4
<1> HIDE DEF begins, ends
<1>9. Max(begins) = m.Latest /\ Min(begins) = m.Earliest /\ Max(ends) = m.End
  BY <1>6, <1>7, MaxIs, MinIs
<1>10. /\ m.Latest \in Nat /\ m.Earliest \in Nat /\ m.Latest >= m.Earliest
       /\ m.Requests = n
       /\ m.success = Cardinality({i \in 1 .. n : Successful(ss[i])})
  BY <1>1, <1>6, Zenon DEF Counts
<1> DEFINE rate == IF m.Latest > m.Earliest
                   THEN (m.Requests * Second) \div (m.Latest - m.Earliest) ELSE 0
<1>11. /\ rate = IF Cardinality(begins) = 1 THEN 0
                  ELSE (n * Second) \div (Max(begins) - Min(begins))
       /\ rate \in Nat
  <2>1. CASE m.Latest = m.Earliest
    BY <1>8, <1>10, <2>1
  <2>2. CASE m.Latest > m.Earliest
    <3>1. n * Second \in Nat
      BY SecondAssumption
    <3> DEFINE d == m.Latest - m.Earliest
               a == n * Second
    <3>2. d \in Nat \ {0}
      BY <1>10, <2>2
    <3>3. rate = a \div d
      BY <1>10, <2>2
    <3> HIDE DEF a, d
    <3>4. a \in Nat
      BY <3>1 DEF a
    <3>5. a \div d \in Nat
      BY <3>2, <3>4
    <3> QED BY <1>8, <1>9, <1>10, <2>2, <3>3, <3>5 DEF a, d
  <2> QED BY <1>10, <2>1, <2>2
<1>12. (m.success * 100) \div m.Requests
         = (100 * Cardinality({i \in 1 .. n : Successful(ss[i])})) \div n
  <2> DEFINE c == Cardinality({i \in 1 .. n : Successful(ss[i])})
  <2>1. c \in Nat
    <3>1. {i \in 1 .. n : Successful(ss[i])} \in SUBSET (1 .. n)
      OBVIOUS
    <3> QED BY <1>2, <3>1, Counted
  <2>2. m.success = c /\ m.Requests = n
    BY <1>10
  <2> HIDE DEF c
  <2>3. m.success * 100 = 100 * c
    BY <2>1, <2>2
  <2> QED BY <2>2, <2>3 DEF c
<1>13. MetricsOf(ss) = [rps |-> rate,
                        p50 |-> Quantile(50, m.latencies),
                        p95 |-> Quantile(95, m.latencies),
                        p99 |-> Quantile(99, m.latencies),
                        max |-> m.MaxLatency,
                        success |-> (m.success * 100) \div m.Requests,
                        wait |-> m.End - m.Latest]
  BY Zenon DEF MetricsOf, Updated, m
<1>14. Summary(ss) = [rps |-> IF Cardinality(begins) = 1 THEN 0
                              ELSE (n * Second) \div (Max(begins) - Min(begins)),
                      p50 |-> rank(50),
                      p95 |-> rank(95),
                      p99 |-> rank(99),
                      max |-> Ranked(n, lat),
                      success |-> (100 * Cardinality({i \in 1 .. n : Successful(ss[i])})) \div n,
                      wait |-> Max(ends) - Max(begins)]
  BY Zenon DEF Summary, lat, begins, ends
<1> HIDE DEF rate, rank
<1> QED BY <1>4, <1>5, <1>9, <1>11, <1>12, <1>13, <1>14

\* Adding the samples of a tick up one by one gives the figures they have as a whole,
\* whatever order they come in (metrics.go:81-133).
THEOREM FiguresAreExact ==
  \A ss \in Seq(Samples) \ {<<>>} : MetricsOf(ss) = Summary(ss) /\ MetricsOf(ss).rps \in Nat
<1> SUFFICES ASSUME NEW ss \in Seq(Samples) \ {<<>>}
             PROVE  MetricsOf(ss) = Summary(ss) /\ MetricsOf(ss).rps \in Nat
  OBVIOUS
<1>1. /\ Len(ss) \in Nat \ {0} /\ DOMAIN ss = 1 .. Len(ss)
      /\ \A i \in 1 .. Len(ss) : Moments(ss[i])
  BY ReportAssumption DEF Moments
<1> QED BY <1>1, FiguresAgree

-----------------------------------------------------------------------------
(* The inductive invariant *)

\* Where the goroutines are.
Control ==
  /\ runner \in 0 .. MaxRunners
  /\ main \in {"register", "run", "plot", "max", "returned"}
  /\ col \in {"recv", "report", "gauges", "exited"}
  /\ runner = 0 => main = "returned"
  /\ main \in {"plot", "max"} => col = "exited"
  /\ main = "register" => col = "recv" /\ Prometheus
  /\ main = "returned" => col \in {"recv", "exited"}

Counters ==
  /\ registered \in 0 .. 6
  /\ main = "register" => registered < 6
  /\ gaugesSet \in 0 .. 6
  /\ col # "gauges" => gaugesSet = 0

\* What is reported of a tick; there is no tick without samples.
Reports == [tick : DOMAIN Targets, samples : Seq(Samples) \ {<<>>}]

\* A tick holds samples until it is reported, and is complete when it is the current
\* one.
InProgress ==
  /\ ticks \in [DOMAIN Targets -> Seq(Samples)]
  /\ reported \in Seq(Reports)
  /\ IF col \in {"report", "gauges"} THEN cur \in DOMAIN Targets ELSE cur = 0
  /\ \A t \in DOMAIN Targets :
       IF t = cur
       THEN /\ Len(ticks[t]) = Targets[t]
            /\ t \in ReportedTicks <=> col = "gauges"
       ELSE Len(ticks[t]) < Targets[t] /\ (t \in ReportedTicks => ticks[t] = <<>>)

\* The row of a report.
RowOf(r) == Row(r.tick, MetricsOf(r.samples))

\* The file has the row of each report, in their order, once it is flushed.
Written ==
  /\ percLog \in Seq({RowOf(r) : r \in Reports})
  /\ IF CSV
     THEN /\ Len(percLog) = Len(reported)
          /\ \A i \in 1 .. Len(reported) : percLog[i] = RowOf(reported[i])
     ELSE percLog = <<>> /\ main \notin {"plot", "max"}
  /\ onDisk \in 0 .. Len(percLog)
  /\ main \in {"plot", "max", "returned"} => onDisk = Len(percLog)
  /\ runner = 0 => reported = <<>>

\* The first runner exports its gauges before it runs, and no other runner does.
Exporting(i) ==
  Prometheus /\ (runner > 1 \/ (runner = 1 /\ (main = "register" => i <= registered)))

GaugesOfFirst ==
  /\ exported \in [Gauges -> [runner : Nat, report : Nat]]
  /\ \A i \in 1 .. 6 : exported[RegisterOrder[i]].runner = IF Exporting(i) THEN 1 ELSE 0

\* It sets them one by one, in an order of their own, to the report in hand.
Behind(i) == runner = 1 /\ col = "gauges" /\ i > gaugesSet

GaugesInStep ==
  Prometheus =>
    /\ main = "register" => reported = <<>>
    /\ \E r \in Nat :
         /\ runner <= 1 => r = Len(reported)
         /\ runner = 1 /\ col = "gauges" => r > 0
         /\ \A i \in 1 .. 6 :
              exported[SetOrder[i]].report = IF Behind(i) THEN r - 1 ELSE r

ReportInv ==
  /\ Control /\ Counters /\ InProgress /\ Written
  /\ GaugesOfFirst /\ GaugesInStep

-----------------------------------------------------------------------------
(* Gauges and rows *)

\* Both orders have each gauge once.
LEMMA Orders ==
  /\ Len(RegisterOrder) = 6 /\ Len(SetOrder) = 6
  /\ Gauges = {"success_ratio", "p50", "p95", "p99", "max", "rps"}
  /\ \A i \in 1 .. 6 : RegisterOrder[i] \in Gauges /\ SetOrder[i] \in Gauges
  /\ \A i, j \in 1 .. 6 : i # j => RegisterOrder[i] # RegisterOrder[j] /\ SetOrder[i] # SetOrder[j]
  /\ \A g \in Gauges : \E i \in 1 .. 6 : RegisterOrder[i] = g
  /\ \A g \in Gauges : \E i \in 1 .. 6 : SetOrder[i] = g
BY DEF RegisterOrder, SetOrder, Gauges, Range

LEMMA InitReport == Init => ReportInv
<1> SUFFICES ASSUME Init PROVE ReportInv
  OBVIOUS
<1> USE ReportAssumption DEF Init
<1>1. Control /\ Counters
  BY DEF Control, Counters, NoRunner
<1>2. InProgress
  BY DEF InProgress, ReportedTicks, NoSamples
<1>3. Written
  BY DEF Written
<1>4. GaugesOfFirst
  BY Orders DEF GaugesOfFirst, Exporting, NoRunner
<1>5. GaugesInStep
  BY Orders DEF GaugesInStep, Behind, NoRunner
<1> QED BY <1>1, <1>2, <1>3, <1>4, <1>5 DEF ReportInv

LEMMA StepControl == Control /\ Counters /\ [Next]_vars => Control' /\ Counters'
<1> SUFFICES ASSUME Control, Counters, [Next]_vars PROVE Control' /\ Counters'
  OBVIOUS
<1> USE ReportAssumption, Orders DEF Control, Counters
<1>1. CASE NewRunner
  BY <1>1 DEF NewRunner, NewReport
<1>2. CASE RegisterGauge
  BY <1>2 DEF RegisterGauge, Register, colVars
<1>3. ASSUME NEW t \in DOMAIN Targets, NEW s \in Samples, Receive(t, s)
      PROVE  Control' /\ Counters'
  BY <1>3 DEF Receive, promVars
<1>4. CASE WriteRow
  BY <1>4 DEF WriteRow, promVars
<1>5. CASE SetGauge
  BY <1>5 DEF SetGauge
<1>6. CASE ForgetTick
  BY <1>6 DEF ForgetTick, promVars
<1>7. CASE CollectorStop
  BY <1>7 DEF CollectorStop, promVars
<1>8. CASE FlushLogs
  BY <1>8 DEF FlushLogs, promVars, colVars
<1>9. CASE Plot \/ ReadMaxRPS
  BY <1>9 DEF Plot, ReadMaxRPS, promVars, colVars
<1>10. CASE UNCHANGED vars
  <2>1. UNCHANGED <<runner, main, col, registered, gaugesSet>>
    BY <1>10 DEF vars, promVars, colVars
  <2> QED BY <2>1
<1> QED BY <1>1, <1>2, <1>3, <1>4, <1>5, <1>6, <1>7, <1>8, <1>9, <1>10 DEF Next

\* One more report.
LEMMA ReportsGrow ==
  ASSUME NEW S, NEW r \in S, reported \in Seq(S), reported' = Append(reported, r)
  PROVE  /\ reported' \in Seq(S) /\ Len(reported') = Len(reported) + 1
         /\ \A i \in 1 .. Len(reported) : reported'[i] = reported[i]
         /\ reported'[Len(reported) + 1] = r
         /\ ReportedTicks' = ReportedTicks \cup {r.tick}
<1>1. /\ reported' \in Seq(S) /\ Len(reported') = Len(reported) + 1
      /\ Len(reported) \in Nat
      /\ \A i \in 1 .. Len(reported) : reported'[i] = reported[i]
      /\ reported'[Len(reported) + 1] = r
  OBVIOUS
<1>2. DOMAIN reported = 1 .. Len(reported) /\ DOMAIN reported' = 1 .. Len(reported) + 1
  BY <1>1
<1>3. ReportedTicks' = ReportedTicks \cup {r.tick}
  BY <1>1, <1>2 DEF ReportedTicks
<1> QED BY <1>1, <1>3

LEMMA StepInProgress ==
  Control /\ InProgress /\ [Next]_vars => InProgress'
<1> SUFFICES ASSUME Control, InProgress, [Next]_vars PROVE InProgress'
  OBVIOUS
<1>1. ASSUME UNCHANGED <<ticks, reported, col, cur>> PROVE InProgress'
  BY <1>1 DEF InProgress, ReportedTicks
<1>2. Targets \in Seq(Nat \ {0}) /\ \A t \in DOMAIN Targets : Targets[t] \in Nat /\ Targets[t] > 0 /\ t # 0
  BY ReportAssumption
<1>3. CASE NewRunner
  <2>1. /\ ticks' = [t \in DOMAIN Targets |-> <<>>] /\ reported' = <<>>
        /\ col' = "recv" /\ cur' = cur /\ col \in {"recv", "exited"}
    BY <1>3 DEF NewRunner, NoSamples, Control
  <2>2. cur' = 0 /\ ReportedTicks' = {}
    BY <2>1 DEF InProgress, ReportedTicks
  <2> QED BY <1>2, <2>1, <2>2 DEF InProgress
<1>4. ASSUME NEW t \in DOMAIN Targets, NEW s \in Samples, Receive(t, s)
      PROVE  InProgress'
  <2>1. /\ col = "recv" /\ cur = 0 /\ t \notin ReportedTicks
        /\ ticks \in [DOMAIN Targets -> Seq(Samples)]
        /\ Len(ticks[t]) < Targets[t]
    BY <1>2, <1>4 DEF Receive, InProgress
  <2>2. ticks' = [ticks EXCEPT ![t] = Append(ticks[t], s)]
    BY <1>4 DEF Receive
  <2>3. Append(ticks[t], s) \in Seq(Samples) /\ Len(Append(ticks[t], s)) = Len(ticks[t]) + 1
    BY <2>1
  <2>4. /\ ticks' \in [DOMAIN Targets -> Seq(Samples)]
        /\ Len(ticks'[t]) = Len(ticks[t]) + 1
        /\ \A u \in DOMAIN Targets : u # t => ticks'[u] = ticks[u]
    BY <2>1, <2>2, <2>3
  <2>5. UNCHANGED <<reported, ReportedTicks>>
    BY <1>4 DEF Receive, ReportedTicks
  <2>6. \/ Len(ticks'[t]) = Targets[t] /\ col' = "report" /\ cur' = t
        \/ Len(ticks'[t]) # Targets[t] /\ UNCHANGED <<col, cur>>
    BY <1>4 DEF Receive
  <2>7. Len(ticks'[t]) <= Targets[t]
    BY <1>2, <2>1, <2>4
  <2> QED BY <1>2, <2>1, <2>4, <2>5, <2>6, <2>7 DEF InProgress
<1>5. CASE WriteRow
  <2> DEFINE r == [tick |-> cur, samples |-> ticks[cur]]
  <2>1. /\ col = "report" /\ col' = "gauges" /\ UNCHANGED <<ticks, cur>>
        /\ cur \in DOMAIN Targets /\ ticks[cur] \in Seq(Samples)
        /\ reported' = Append(reported, r)
    BY <1>5 DEF WriteRow, InProgress
  <2>2. r \in Reports /\ r.tick = cur
    <3>1. ticks[cur] # <<>>
      BY <1>2, <2>1 DEF InProgress
    <3> QED BY <2>1, <3>1 DEF Reports
  <2>3. reported' \in Seq(Reports) /\ ReportedTicks' = ReportedTicks \cup {cur}
    <3> HIDE DEF r
    <3> QED BY <2>1, <2>2, ReportsGrow DEF InProgress
  <2> QED BY <2>1, <2>3 DEF InProgress
<1>6. CASE ForgetTick
  <2>1. /\ col = "gauges" /\ col' = "recv" /\ cur' = 0 /\ cur \in DOMAIN Targets
        /\ ticks' = [ticks EXCEPT ![cur] = <<>>]
        /\ UNCHANGED <<reported, ReportedTicks>>
        /\ cur \in ReportedTicks
    BY <1>6 DEF ForgetTick, InProgress, ReportedTicks
  <2>2. /\ ticks' \in [DOMAIN Targets -> Seq(Samples)]
        /\ ticks'[cur] = <<>>
        /\ \A u \in DOMAIN Targets : u # cur => ticks'[u] = ticks[u]
    BY <2>1 DEF InProgress
  <2> QED BY <1>2, <2>1, <2>2 DEF InProgress
<1>7. CASE CollectorStop
  BY <1>7 DEF CollectorStop, InProgress, ReportedTicks
<1>8. CASE \/ RegisterGauge \/ SetGauge \/ FlushLogs \/ Plot \/ ReadMaxRPS
           \/ UNCHANGED vars
  BY <1>1, <1>8 DEF RegisterGauge, SetGauge, FlushLogs, Plot, ReadMaxRPS,
                    vars, colVars
<1> QED BY <1>3, <1>4, <1>5, <1>6, <1>7, <1>8 DEF Next

LEMMA StepWritten ==
  Control /\ InProgress /\ Written /\ [Next]_vars => Written'
<1> SUFFICES ASSUME Control, InProgress, Written, [Next]_vars PROVE Written'
  OBVIOUS
<1> DEFINE R == {RowOf(r) : r \in Reports}
<1>1. /\ percLog \in Seq(R) /\ onDisk \in 0 .. Len(percLog) /\ Len(percLog) \in Nat
      /\ reported \in Seq(Reports) /\ Len(reported) \in Nat
  BY DEF Written, InProgress
<1>2. CASE NewRunner
  <2>1. percLog' = <<>> /\ onDisk' = 0 /\ reported' = <<>> /\ main' \in {"register", "run"}
    BY <1>2 DEF NewRunner, NewReport
  <2> HIDE DEF R
  <2>2. percLog' \in Seq(R) /\ Len(percLog') = 0 /\ Len(reported') = 0
    BY <2>1
  <2> QED BY <2>1, <2>2 DEF Written, R
<1>3. CASE WriteRow
  <2> DEFINE r == [tick |-> cur, samples |-> ticks[cur]]
  <2>1. /\ col = "report" /\ main' = main /\ main \notin {"plot", "max", "returned"}
        /\ runner' # 0
        /\ cur \in DOMAIN Targets /\ ticks[cur] \in Seq(Samples)
        /\ reported' = Append(reported, r)
    BY <1>3 DEF WriteRow, InProgress, Control
  <2>2. r \in Reports
    <3>1. Targets[cur] > 0 /\ Len(ticks[cur]) = Targets[cur]
      BY <2>1, ReportAssumption DEF InProgress
    <3> QED BY <2>1, <3>1 DEF Reports
  <2>3. RowOf(r) = Row(cur, MetricsOf(ticks[cur])) /\ RowOf(r) \in R
    BY <2>2 DEF RowOf
  <2> HIDE DEF R, r
  <2>4. CASE CSV
    <3>1. percLog' = Append(percLog, RowOf(r)) /\ onDisk' \in onDisk .. Len(percLog')
      BY <1>3, <2>3, <2>4 DEF WriteRow
    <3>2. /\ percLog' \in Seq(R) /\ Len(percLog') = Len(percLog) + 1
          /\ \A i \in 1 .. Len(percLog) : percLog'[i] = percLog[i]
          /\ percLog'[Len(percLog) + 1] = RowOf(r)
      BY <1>1, <2>3, <3>1
    <3>3. /\ Len(reported') = Len(reported) + 1
          /\ \A i \in 1 .. Len(reported) : reported'[i] = reported[i]
          /\ reported'[Len(reported) + 1] = r
      BY <1>1, <2>1, <2>2, ReportsGrow
    <3>4. /\ Len(percLog) = Len(reported)
          /\ \A i \in 1 .. Len(reported) : percLog[i] = RowOf(reported[i])
      BY <2>4 DEF Written
    <3>5. \A i \in 1 .. Len(reported') : percLog'[i] = RowOf(reported'[i])
      BY <1>1, <3>2, <3>3, <3>4
    <3>6. onDisk' \in 0 .. Len(percLog')
      BY <1>1, <3>1, <3>2
    <3> QED BY <2>1, <2>4, <3>2, <3>3, <3>4, <3>5, <3>6 DEF Written, R
  <2>5. CASE ~CSV
    BY <1>3, <2>1, <2>5 DEF WriteRow, Written
  <2> QED BY <2>4, <2>5
<1>4. CASE FlushLogs
  <2>1. /\ UNCHANGED <<percLog, reported, runner>> /\ onDisk' = Len(percLog)
        /\ main' = IF CSV THEN "plot" ELSE "returned"
    BY <1>4 DEF FlushLogs, colVars
  <2>2. onDisk' \in 0 .. Len(percLog')
    BY <1>1, <2>1
  <2> QED BY <2>1, <2>2 DEF Written
<1>5. CASE Plot \/ ReadMaxRPS
  <2>1. UNCHANGED <<percLog, reported, onDisk, runner>> /\ main \in {"plot", "max"} /\ CSV
    BY <1>5 DEF Plot, ReadMaxRPS, colVars, Written
  <2> QED BY <2>1 DEF Written
<1>6. ASSUME UNCHANGED <<percLog, reported, onDisk, runner>>,
             main' = main \/ main' \notin {"plot", "max", "returned"}
      PROVE  Written'
  BY <1>6 DEF Written
<1>7. ASSUME NEW t \in DOMAIN Targets, NEW s \in Samples, Receive(t, s) PROVE Written'
  BY <1>6, <1>7 DEF Receive
<1>8. CASE RegisterGauge
  BY <1>6, <1>8 DEF RegisterGauge, colVars
<1>9. CASE \/ SetGauge \/ ForgetTick \/ CollectorStop \/ UNCHANGED vars
  BY <1>6, <1>9 DEF SetGauge, ForgetTick, CollectorStop, vars, colVars
<1> QED BY <1>2, <1>3, <1>4, <1>5, <1>7, <1>8, <1>9 DEF Next

\* A gauge is registered once, and one by one in the order of registration.
LEMMA StepGaugesOfFirst ==
  ReportInv /\ [Next]_vars => GaugesOfFirst'
<1> SUFFICES ASSUME ReportInv, [Next]_vars PROVE GaugesOfFirst'
  OBVIOUS
<1> USE Orders DEF NoRunner
<1>1. /\ Control /\ Counters /\ GaugesOfFirst
      /\ exported \in [Gauges -> [runner : Nat, report : Nat]]
      /\ runner \in Nat
  BY ReportAssumption DEF ReportInv, GaugesOfFirst, Control
<1>2. ASSUME UNCHANGED <<exported, runner, main, registered>> PROVE GaugesOfFirst'
  BY <1>1, <1>2 DEF GaugesOfFirst, Exporting
<1>3. CASE NewRunner
  <2>1. /\ runner' = runner + 1 /\ registered' = 0 /\ main = "returned" /\ UNCHANGED exported
        /\ main' = IF Prometheus THEN "register" ELSE "run"
    BY <1>3 DEF NewRunner
  <2>2. \A i \in 1 .. 6 : Exporting(i)' <=> Exporting(i)
    BY <1>1, <2>1 DEF Exporting
  <2> QED BY <1>1, <2>1, <2>2 DEF GaugesOfFirst
<1>4. CASE RegisterGauge
  <2> DEFINE g == RegisterOrder[registered + 1]
  <2>1. /\ main = "register" /\ registered \in 0 .. 5 /\ Prometheus /\ runner >= 1
        /\ registered' = registered + 1 /\ runner' = runner
        /\ main' = IF registered' = 6 THEN "run" ELSE "register"
    BY <1>1, <1>4 DEF RegisterGauge, Control, Counters
  <2>2. exported' = IF exported[g].runner = 0
                    THEN [exported EXCEPT ![g] = [runner |-> runner, report |-> 0]]
                    ELSE exported
    BY <1>4 DEF RegisterGauge, Register
  <2>3. g \in Gauges /\ \A i \in 1 .. 6 : RegisterOrder[i] = g <=> i = registered + 1
    BY <2>1
  <2>4. exported[g].runner = IF Exporting(registered + 1) THEN 1 ELSE 0
    BY <1>1, <2>1 DEF GaugesOfFirst
  <2>5. \A i \in 1 .. 6 : Exporting(i)' <=> Exporting(i) \/ i = registered + 1
    BY <1>1, <2>1 DEF Exporting
  <2> HIDE DEF g
  <2>6. CASE runner = 1
    <3>1. exported[g].runner = 0
      BY <2>1, <2>4, <2>6 DEF Exporting
    <3>2. exported' = [exported EXCEPT ![g] = [runner |-> 1, report |-> 0]]
      BY <2>2, <2>6, <3>1
    <3>3. exported' \in [Gauges -> [runner : Nat, report : Nat]]
      BY <1>1, <3>2
    <3>4. /\ exported'[g].runner = 1
          /\ \A h \in Gauges : h # g => exported'[h] = exported[h]
      BY <1>1, <2>3, <3>2
    <3>5. ASSUME NEW i \in 1 .. 6
          PROVE  exported'[RegisterOrder[i]].runner = IF Exporting(i)' THEN 1 ELSE 0
      BY <1>1, <2>3, <2>5, <3>4 DEF GaugesOfFirst
    <3> QED BY <3>3, <3>5 DEF GaugesOfFirst
  <2>7. CASE runner > 1
    <3>1. UNCHANGED exported
      BY <2>1, <2>2, <2>4, <2>7 DEF Exporting
    <3>2. \A i \in 1 .. 6 : Exporting(i)' <=> Exporting(i)
      BY <2>1, <2>7 DEF Exporting
    <3> QED BY <1>1, <3>1, <3>2 DEF GaugesOfFirst
  <2> QED BY <1>1, <2>1, <2>6, <2>7
<1>5. CASE SetGauge
  <2> DEFINE g == SetOrder[gaugesSet + 1]
  <2>1. /\ UNCHANGED <<runner, main, registered>>
        /\ exported' = exported
             \/ exported' = [exported EXCEPT ![g].report = Len(reported)]
    BY <1>5 DEF SetGauge
  <2>2. Len(reported) \in Nat
    BY DEF ReportInv, InProgress
  <2> HIDE DEF g
  <2>3. /\ exported' \in [Gauges -> [runner : Nat, report : Nat]]
        /\ \A h \in Gauges : exported'[h].runner = exported[h].runner
    <3>1. CASE exported' = [exported EXCEPT ![g].report = Len(reported)]
      <4>1. exported' = [h \in Gauges |-> IF h = g THEN [exported[g] EXCEPT !.report = Len(reported)]
                                          ELSE exported[h]]
        BY <1>1, <3>1
      <4>2. ASSUME NEW e \in [runner : Nat, report : Nat], NEW n \in Nat
            PROVE  /\ [e EXCEPT !.report = n] \in [runner : Nat, report : Nat]
                   /\ [e EXCEPT !.report = n].runner = e.runner
        OBVIOUS
      <4>3. \A h \in Gauges : /\ exported'[h] \in [runner : Nat, report : Nat]
                               /\ exported'[h].runner = exported[h].runner
        BY <1>1, <2>2, <4>1, <4>2
      <4> QED BY <4>1, <4>3
    <3> QED BY <1>1, <2>1, <3>1
  <2>4. \A i \in 1 .. 6 : Exporting(i)' <=> Exporting(i)
    BY <2>1 DEF Exporting
  <2> QED BY <1>1, <2>3, <2>4 DEF GaugesOfFirst
<1>6. ASSUME UNCHANGED <<exported, runner, registered>>,
             main # "register" /\ main' # "register"
      PROVE  GaugesOfFirst'
  <2>1. \A i \in 1 .. 6 : Exporting(i)' <=> Exporting(i)
    BY <1>6 DEF Exporting
  <2> QED BY <1>1, <1>6, <2>1 DEF GaugesOfFirst
<1>7. CASE FlushLogs \/ Plot \/ ReadMaxRPS
  BY <1>6, <1>7 DEF FlushLogs, Plot, ReadMaxRPS, promVars
<1>8. ASSUME NEW t \in DOMAIN Targets, NEW s \in Samples, Receive(t, s)
      PROVE  GaugesOfFirst'
  BY <1>2, <1>8 DEF Receive, promVars
<1>9. CASE \/ WriteRow \/ ForgetTick \/ CollectorStop \/ UNCHANGED vars
  BY <1>2, <1>9 DEF WriteRow, ForgetTick, CollectorStop, vars, promVars
<1> QED BY <1>3, <1>4, <1>5, <1>7, <1>8, <1>9 DEF Next

\* The gauges of the first runner follow its reports, at most one behind.
LEMMA StepGaugesInStep ==
  ReportInv /\ [Next]_vars => GaugesInStep'
<1> SUFFICES ASSUME ReportInv, [Next]_vars, Prometheus PROVE GaugesInStep'
  BY DEF GaugesInStep
<1> USE DEF NoRunner
<1>1. /\ Control /\ Counters /\ GaugesOfFirst
      /\ exported \in [Gauges -> [runner : Nat, report : Nat]]
      /\ runner \in Nat /\ Len(reported) \in Nat
  <2>1. runner \in Nat
    BY ReportAssumption DEF ReportInv, Control
  <2>2. Len(reported) \in Nat
    BY DEF ReportInv, InProgress
  <2> QED BY <2>1, <2>2 DEF ReportInv, GaugesOfFirst
<1>2. PICK r \in Nat :
        /\ runner <= 1 => r = Len(reported)
        /\ runner = 1 /\ col = "gauges" => r > 0
        /\ \A i \in 1 .. 6 : exported[SetOrder[i]].report = IF Behind(i) THEN r - 1 ELSE r
  BY DEF ReportInv, GaugesInStep
<1>3. main = "register" => reported = <<>>
  BY DEF ReportInv, GaugesInStep
<1>4. ASSUME UNCHANGED <<exported, runner, reported, col, gaugesSet>>,
             main' = "register" => main = "register"
      PROVE  GaugesInStep'
  <2>1. \A i \in 1 .. 6 : Behind(i)' <=> Behind(i)
    BY <1>4 DEF Behind
  <2> QED BY <1>2, <1>3, <1>4, <2>1 DEF GaugesInStep
<1>5. CASE NewRunner
  <2>1. /\ runner' = runner + 1 /\ UNCHANGED <<exported, gaugesSet>> /\ col' = "recv"
        /\ reported' = <<>> /\ col # "gauges"
    BY <1>1, <1>5 DEF NewRunner, Control
  <2>2. \A i \in 1 .. 6 : ~Behind(i) /\ ~Behind(i)'
    BY <1>1, <2>1 DEF Behind
  <2>3. runner' <= 1 => r = 0
    <3>1. runner = 0 => reported = <<>>
      BY DEF ReportInv, Written
    <3> QED BY <1>1, <1>2, <2>1, <3>1
  <2> QED BY <1>2, <2>1, <2>2, <2>3 DEF GaugesInStep
<1>6. CASE RegisterGauge
  <2> DEFINE g == RegisterOrder[registered + 1]
  <2>1. /\ main = "register" /\ registered \in 0 .. 5 /\ col = "recv" /\ reported = <<>>
        /\ runner >= 1 /\ UNCHANGED <<runner, reported, col, gaugesSet>>
    BY <1>1, <1>3, <1>6 DEF RegisterGauge, Control, Counters, colVars
  <2>2. exported' = exported
          \/ (runner = 1 /\ exported' = [exported EXCEPT ![g] = [runner |-> runner, report |-> 0]])
    <3>1. exported[g].runner = IF Exporting(registered + 1) THEN 1 ELSE 0
      <4>1. \A i \in 1 .. 6 : exported[RegisterOrder[i]].runner = IF Exporting(i) THEN 1 ELSE 0
        BY <1>1 DEF GaugesOfFirst
      <4>2. registered + 1 \in 1 .. 6
        BY <2>1
      <4> QED BY <4>1, <4>2
    <3>2. runner > 1 => exported[g].runner # 0
      BY <3>1 DEF Exporting
    <3>3. exported' = IF exported[g].runner = 0
                      THEN [exported EXCEPT ![g] = [runner |-> runner, report |-> 0]]
                      ELSE exported
      BY <1>6 DEF RegisterGauge, Register
    <3> HIDE DEF g
    <3>4. runner = 1 \/ runner > 1
      BY <1>1, <2>1
    <3> QED BY <3>2, <3>3, <3>4
  <2>3. \A i \in 1 .. 6 : ~Behind(i) /\ ~Behind(i)'
    BY <2>1 DEF Behind
  <2>4. g \in Gauges
    <3>1. registered + 1 \in 1 .. 6
      BY <2>1
    <3> QED BY <3>1, Orders
  <2> HIDE DEF g
  <2>5. runner = 1 => r = 0
    BY <1>2, <2>1
  <2>6. \A i \in 1 .. 6 : exported'[SetOrder[i]].report = r
    <3>1. \A i \in 1 .. 6 : exported[SetOrder[i]].report = r /\ SetOrder[i] \in Gauges
      BY <1>2, <2>3, Orders
    <3>2. CASE exported' = exported
      BY <3>1, <3>2
    <3>3. CASE runner = 1 /\ exported' = [exported EXCEPT ![g] = [runner |-> runner, report |-> 0]]
      <4>1. \A h \in Gauges : exported'[h].report = IF h = g THEN 0 ELSE exported[h].report
        BY <1>1, <3>3
      <4> QED BY <2>5, <3>1, <3>3, <4>1
    <3> QED BY <2>2, <3>2, <3>3
  <2> QED BY <1>2, <2>1, <2>3, <2>6 DEF GaugesInStep
<1>7. CASE WriteRow
  <2>1. /\ col = "report" /\ col' = "gauges" /\ gaugesSet = 0 /\ main' # "register"
        /\ UNCHANGED <<runner, exported, gaugesSet>>
        /\ Len(reported') = Len(reported) + 1
    <3>1. reported \in Seq(Reports)
      BY DEF ReportInv, InProgress
    <3> QED BY <1>1, <1>7, <3>1 DEF WriteRow, promVars, Control, Counters
  <2>2. \A i \in 1 .. 6 : ~Behind(i) /\ (Behind(i)' <=> runner = 1)
    BY <2>1 DEF Behind
  <2>3. CASE runner = 1
    <3>1. r + 1 \in Nat /\ r + 1 = Len(reported') /\ r = (r + 1) - 1
      BY <1>2, <2>1, <2>3
    <3>2. \A i \in 1 .. 6 : exported'[SetOrder[i]].report = (r + 1) - 1
      BY <1>2, <2>1, <2>2, <3>1
    <3> QED BY <2>1, <2>2, <2>3, <3>1, <3>2 DEF GaugesInStep
  <2>4. CASE runner > 1
    <3>1. \A i \in 1 .. 6 : ~Behind(i) /\ ~Behind(i)'
      BY <2>2, <2>4
    <3>2. \A i \in 1 .. 6 : exported'[SetOrder[i]].report = r
      BY <1>2, <2>1, <3>1
    <3>3. ~(runner' <= 1)
      BY <1>1, <2>1, <2>4
    <3> QED BY <2>1, <3>1, <3>2, <3>3 DEF GaugesInStep
  <2>5. runner # 0
    BY <1>1, <2>1 DEF Control
  <2> QED BY <1>1, <2>3, <2>4, <2>5
<1>8. CASE SetGauge
  <2> DEFINE g == SetOrder[gaugesSet + 1]
  <2>1. /\ col = "gauges" /\ main # "register" /\ gaugesSet \in 0 .. 5
        /\ gaugesSet' = gaugesSet + 1
        /\ UNCHANGED <<runner, main, reported, col>>
    BY <1>1, <1>8, Orders DEF SetGauge, Control, Counters
  <2>2. exported' = IF exported[g].runner = runner
                    THEN [exported EXCEPT ![g].report = Len(reported)] ELSE exported
    BY <1>8 DEF SetGauge
  <2>3. g \in Gauges /\ \A i \in 1 .. 6 : SetOrder[i] = g <=> i = gaugesSet + 1
    <3>1. gaugesSet + 1 \in 1 .. 6
      BY <2>1
    <3> QED BY <3>1, Orders
  <2>4. runner # 0
    BY <1>1, <2>1 DEF Control
  <2> HIDE DEF g
  <2>5. exported[g].runner = 1
    <3>1. PICK k \in 1 .. 6 : RegisterOrder[k] = g
      BY <2>3, Orders
    <3>2. Exporting(k)
      BY <1>1, <2>1, <2>4 DEF Exporting
    <3>3. exported[RegisterOrder[k]].runner = 1
      BY <1>1, <3>2 DEF GaugesOfFirst
    <3> QED BY <3>1, <3>3
  <2>6. CASE runner = 1
    <3>1. exported' = [exported EXCEPT ![g].report = Len(reported)]
      BY <2>2, <2>5, <2>6
    <3>2. /\ exported'[g].report = Len(reported)
          /\ \A h \in Gauges : h # g => exported'[h] = exported[h]
      <4>1. exported \in [Gauges -> [runner : Nat, report : Nat]] /\ g \in Gauges
        BY <1>1, <2>3
      <4> QED BY <3>1, <4>1
    <3>3. \A i \in 1 .. 6 : Behind(i)' <=> Behind(i) /\ i # gaugesSet + 1
      BY <2>1, <2>6 DEF Behind
    <3>4. ASSUME NEW i \in 1 .. 6
          PROVE  exported'[SetOrder[i]].report = IF Behind(i)' THEN r - 1 ELSE r
      <4>1. SetOrder[i] \in Gauges /\ (SetOrder[i] = g <=> i = gaugesSet + 1)
        BY <2>3, Orders
      <4>2. CASE i = gaugesSet + 1
        <5>1. exported'[SetOrder[i]].report = r
          BY <1>2, <2>6, <3>2, <4>1, <4>2
        <5> QED BY <3>3, <4>2, <5>1
      <4>3. CASE i # gaugesSet + 1
        <5>1. exported'[SetOrder[i]] = exported[SetOrder[i]] /\ (Behind(i)' <=> Behind(i))
          BY <3>2, <3>3, <4>1, <4>3
        <5>2. exported[SetOrder[i]].report = IF Behind(i) THEN r - 1 ELSE r
          BY <1>2
        <5> QED BY <5>1, <5>2
      <4> QED BY <4>2, <4>3
    <3> QED BY <1>2, <2>1, <2>6, <3>4 DEF GaugesInStep
  <2>7. CASE runner > 1
    <3>1. UNCHANGED exported
      BY <2>2, <2>5, <2>7
    <3>2. \A i \in 1 .. 6 : ~Behind(i) /\ ~Behind(i)'
      BY <2>1, <2>7 DEF Behind
    <3> QED BY <1>2, <2>1, <2>7, <3>1, <3>2 DEF GaugesInStep
  <2> QED BY <1>1, <2>4, <2>6, <2>7
<1>9. CASE ForgetTick
  <2>1. /\ col = "gauges" /\ gaugesSet = 6 /\ col' = "recv"
        /\ UNCHANGED <<runner, main, exported, reported>>
    BY <1>9, Orders DEF ForgetTick, promVars
  <2>2. \A i \in 1 .. 6 : ~Behind(i) /\ ~Behind(i)'
    <3>1. Len(SetOrder) = 6
      BY Orders
    <3> QED BY <2>1, <3>1 DEF Behind
  <2> QED BY <1>2, <1>3, <2>1, <2>2 DEF GaugesInStep
<1>10. ASSUME UNCHANGED <<exported, runner, reported, gaugesSet>>,
              col # "gauges", col' # "gauges", main' = main
       PROVE  GaugesInStep'
  <2>1. \A i \in 1 .. 6 : ~Behind(i) /\ ~Behind(i)'
    BY <1>10 DEF Behind
  <2> QED BY <1>2, <1>3, <1>10, <2>1 DEF GaugesInStep
<1>11. ASSUME NEW t \in DOMAIN Targets, NEW s \in Samples, Receive(t, s)
       PROVE  GaugesInStep'
  BY <1>10, <1>11 DEF Receive, promVars
<1>12. CASE CollectorStop
  BY <1>10, <1>12 DEF CollectorStop, promVars
<1>13. CASE \/ FlushLogs \/ Plot \/ ReadMaxRPS \/ UNCHANGED vars
  BY <1>4, <1>13 DEF FlushLogs, Plot, ReadMaxRPS, vars, promVars, colVars
<1> QED BY <1>5, <1>6, <1>7, <1>8, <1>9, <1>11, <1>12, <1>13 DEF Next

LEMMA ReportInvHolds == Spec => []ReportInv
<1>1. ReportInv /\ [Next]_vars => ReportInv'
  BY StepControl, StepInProgress, StepWritten, StepGaugesOfFirst, StepGaugesInStep DEF ReportInv
<1> QED BY <1>1, InitReport, PTL DEF Spec

LEMMA RowFields ==
  ASSUME NEW t, NEW ss
  PROVE  /\ Row(t, MetricsOf(ss)).tick = t
         /\ \A s \in PercsSeries : Row(t, MetricsOf(ss))[s] = MetricsOf(ss)[s]
<1> DEFINE m == MetricsOf(ss)
<1>1. DOMAIN m = {"rps", "p50", "p95", "p99", "max", "success", "wait"}
  BY DEF MetricsOf, Updated
<1> HIDE DEF m
<1>2. Row(t, m) = [c \in {"tick"} \cup DOMAIN m |-> IF c = "tick" THEN t ELSE m[c]]
  BY DEF Row
<1>3. Row(t, m)["tick"] = t /\ \A s \in PercsSeries : Row(t, m)[s] = m[s]
  BY <1>1, <1>2 DEF PercsSeries
<1> QED BY <1>3 DEF m

-----------------------------------------------------------------------------
(* Theorems *)

\* Each goroutine is where the others let it be, and the map of ticks holds those in
\* progress only, below their targets (runner.go:376-388).
THEOREM TypeCorrect == Spec => []TypeOK
<1>1. ReportInv => TypeOK
  <2> SUFFICES ASSUME ReportInv PROVE TypeOK
    OBVIOUS
  <2>1. Control /\ Counters /\ InProgress /\ Written /\ GaugesOfFirst
    BY DEF ReportInv
  <2>2. ASSUME NEW g \in Gauges PROVE exported[g].runner \in 0 .. runner
    <3>1. PICK i \in 1 .. 6 : RegisterOrder[i] = g
      BY Orders
    <3>2. exported[g].runner = IF Exporting(i) THEN 1 ELSE 0
      BY <2>1, <3>1 DEF GaugesOfFirst
    <3>3. runner \in Nat /\ (Exporting(i) => runner >= 1)
      BY <2>1, ReportAssumption DEF Control, Exporting
    <3> QED BY <3>2, <3>3
  <2>3. ASSUME NEW t \in DOMAIN Targets
        PROVE  Len(ticks[t]) <= (IF t \in ReportedTicks /\ t # cur THEN 0 ELSE Targets[t])
    <3>1. Targets[t] \in Nat /\ Len(ticks[t]) \in Nat
      BY <2>1, ReportAssumption DEF InProgress
    <3> QED BY <2>1, <3>1 DEF InProgress
  <2>4. cur # 0 <=> col \in {"report", "gauges"}
    BY <2>1, ReportAssumption DEF InProgress
  <2>5. /\ registered \in 0 .. Len(RegisterOrder)
        /\ gaugesSet \in 0 .. Len(SetOrder)
    BY <2>1, Orders DEF Counters
  <2> QED BY <2>1, <2>2, <2>3, <2>4, <2>5 DEF TypeOK, Control, Written
<1> QED BY <1>1, ReportInvHolds, PTL

\* Whatever the moment of a scrape, it shows the first runner of a process and two
\* neighbouring reports of it at most (prometheus_metrics.go:18-66, 69-76).
THEOREM ScrapesAreOfOneRunner == Spec => []ScrapeOfOneRunner
<1>1. ReportInv => ScrapeOfOneRunner
  <2> SUFFICES ASSUME ReportInv, NEW g \in Gauges, NEW h \in Gauges,
                      exported[g].runner # NoRunner, exported[h].runner # NoRunner
               PROVE  /\ exported[g].runner = exported[h].runner
                      /\ exported[g].report <= exported[h].report + 1
    BY DEF ScrapeOfOneRunner
  <2>1. PICK i \in 1 .. 6 : RegisterOrder[i] = g
    BY Orders
  <2>2. PICK j \in 1 .. 6 : RegisterOrder[j] = h
    BY Orders
  <2>3. exported[g].runner = 1 /\ exported[h].runner = 1 /\ Prometheus
    BY <2>1, <2>2 DEF ReportInv, GaugesOfFirst, NoRunner, Exporting
  <2>4. PICK r \in Nat :
          \A k \in 1 .. 6 : exported[SetOrder[k]].report = IF Behind(k) THEN r - 1 ELSE r
    BY <2>3 DEF ReportInv, GaugesInStep
  <2>5. exported[g].report \in {r - 1, r} /\ exported[h].report \in {r - 1, r}
    BY <2>4, Orders
  <2> QED BY <2>3, <2>5
<1> QED BY <1>1, ReportInvHolds, PTL

-----------------------------------------------------------------------------
(* The chart and the maximum *)

RateOf(r) == MetricsOf(r.samples).rps

\* What Run leaves behind: the chart of all its rows, and the highest of their rates.
ChartOfRows ==
  chart = IF PNG /\ percLog # <<>> THEN PercsChart(percLog) ELSE NoChart

Left ==
  /\ main = "max" \/ (main = "returned" /\ runner # 0 /\ CSV) => ChartOfRows
  /\ main = "returned" =>
       maxRPS = IF CSV /\ runner # 0
                THEN MaxRPS({0} \cup {percLog[i].rps : i \in DOMAIN percLog}) ELSE 0
  /\ main # "returned" => maxRPS = 0

LEMMA FlushedFile ==
  ASSUME Written, main \in {"plot", "max"}
  PROVE  InFile = percLog
<1> DEFINE R == {RowOf(r) : r \in Reports}
<1>1. percLog \in Seq(R) /\ onDisk = Len(percLog)
  BY DEF Written
<1> HIDE DEF R
<1> QED BY <1>1 DEF InFile

LEMMA StepLeft == Control /\ Written /\ Left /\ [Next]_vars => Left'
<1> SUFFICES ASSUME Control, Written, Left, [Next]_vars PROVE Left'
  OBVIOUS
<1>1. ASSUME UNCHANGED <<main, runner, percLog, chart, maxRPS>> PROVE Left'
  BY <1>1 DEF Left, ChartOfRows
<1>2. ASSUME main' \in {"register", "run", "plot"}, maxRPS' = 0 PROVE Left'
  BY <1>2 DEF Left
<1>3. CASE NewRunner
  BY <1>2, <1>3 DEF NewRunner
<1>4. CASE RegisterGauge
  BY <1>2, <1>4 DEF RegisterGauge, endVars, Left
<1>5. ASSUME NEW t \in DOMAIN Targets, NEW s \in Samples, Receive(t, s) PROVE Left'
  BY <1>2, <1>5 DEF Receive, endVars, Left
<1>6. CASE WriteRow
  <2>1. main = "run"
    BY <1>6 DEF WriteRow, Control
  <2> QED BY <1>2, <1>6, <2>1 DEF WriteRow, endVars, Left
<1>7. CASE FlushLogs
  <2>1. main = "run" /\ main' = (IF CSV THEN "plot" ELSE "returned")
        /\ UNCHANGED <<runner, percLog, chart, maxRPS>>
    BY <1>7 DEF FlushLogs, endVars, colVars
  <2> QED BY <2>1 DEF Left
<1>8. CASE Plot
  <2>1. /\ main = "plot" /\ main' = "max" /\ UNCHANGED <<percLog, maxRPS>>
        /\ chart' = IF PNG /\ InFile # <<>> THEN PercsChart(InFile) ELSE NoChart
    BY <1>8 DEF Plot, colVars
  <2>2. InFile = percLog
    BY <2>1, FlushedFile
  <2> QED BY <2>1, <2>2 DEF Left, ChartOfRows
<1>9. CASE ReadMaxRPS
  <2>1. /\ main = "max" /\ main' = "returned" /\ UNCHANGED <<runner, percLog, chart>>
        /\ maxRPS' = MaxRPS({0} \cup {InFile[i].rps : i \in DOMAIN InFile})
    BY <1>9 DEF ReadMaxRPS, colVars
  <2>2. InFile = percLog /\ CSV /\ runner # 0
    BY <2>1, FlushedFile DEF Written, Control
  <2> QED BY <2>1, <2>2 DEF Left, ChartOfRows
<1>10. CASE \/ SetGauge \/ ForgetTick \/ CollectorStop \/ UNCHANGED vars
  BY <1>1, <1>10 DEF SetGauge, ForgetTick, CollectorStop, vars, endVars, colVars
<1> QED BY <1>3, <1>4, <1>5, <1>6, <1>7, <1>8, <1>9, <1>10 DEF Next

LEMMA LeftHolds == Spec => [](ReportInv /\ Left)
<1>1. Init => Left
  BY DEF Init, Left, NoRunner
<1>2. ReportInv /\ Left /\ [Next]_vars => Left'
  BY StepLeft DEF ReportInv
<1> QED BY <1>1, <1>2, ReportInvHolds, PTL DEF Spec

\* The chart shows what was computed for each reported tick.
LEMMA ChartOfReports ==
  ASSUME ReportInv, CSV, PNG, ChartOfRows
  PROVE  IF reported = <<>> THEN chart = NoChart
         ELSE /\ DOMAIN chart = PercsSeries
              /\ \A s \in PercsSeries :
                   chart[s] = [i \in DOMAIN reported |->
                                 <<reported[i].tick, MetricsOf(reported[i].samples)[s]>>]
<1> DEFINE R == {RowOf(r) : r \in Reports}
<1>1. /\ percLog \in Seq(R) /\ Len(percLog) = Len(reported)
      /\ \A i \in 1 .. Len(reported) : percLog[i] = RowOf(reported[i])
      /\ reported \in Seq(Reports)
  BY DEF ReportInv, Written, InProgress
<1> HIDE DEF R
<1>2. /\ DOMAIN percLog = 1 .. Len(reported) /\ DOMAIN reported = 1 .. Len(reported)
      /\ percLog = <<>> <=> reported = <<>>
  BY <1>1
<1>3. CASE reported = <<>>
  BY <1>2, <1>3 DEF ChartOfRows
<1>4. CASE reported # <<>>
  <2>1. chart = PercsChart(percLog)
    BY <1>2, <1>4 DEF ChartOfRows
  <2>2. PercsChart(percLog) =
          [s \in PercsSeries |-> [i \in DOMAIN percLog |-> <<percLog[i].tick, percLog[i][s]>>]]
    <3> DEFINE d == ParsePercsData(percLog)
    <3>1. \A s \in PercsSeries : /\ d[s].XValues = [i \in DOMAIN percLog |-> percLog[i].tick]
                                 /\ d[s].YValues = [i \in DOMAIN percLog |-> percLog[i][s]]
      BY DEF ParsePercsData, Lists
    <3>2. "rps" \in PercsSeries
      BY DEF PercsSeries
    <3> HIDE DEF d
    <3>3. \A s \in PercsSeries :
            Points(d["rps"].XValues, d[s].YValues)
              = [i \in DOMAIN percLog |-> <<percLog[i].tick, percLog[i][s]>>]
      <4> SUFFICES ASSUME NEW s \in PercsSeries
                   PROVE  Points(d["rps"].XValues, d[s].YValues)
                            = [i \in DOMAIN percLog |-> <<percLog[i].tick, percLog[i][s]>>]
        OBVIOUS
      <4> DEFINE xs == d["rps"].XValues
                 ys == d[s].YValues
      <4>1. xs = [i \in DOMAIN percLog |-> percLog[i].tick]
        BY <3>1, <3>2
      <4>2. ys = [i \in DOMAIN percLog |-> percLog[i][s]]
        BY <3>1
      <4> HIDE DEF xs, ys
      <4>3. Points(xs, ys) = [i \in DOMAIN percLog |-> <<percLog[i].tick, percLog[i][s]>>]
        BY <4>1, <4>2 DEF Points
      <4> QED BY <4>3 DEF xs, ys
    <3>4. PercsChart(percLog) = [s \in PercsSeries |-> Points(d["rps"].XValues, d[s].YValues)]
      BY DEF PercsChart, d
    <3> QED BY <3>3, <3>4
  <2>3. \A i \in DOMAIN reported :
          /\ percLog[i].tick = reported[i].tick
          /\ \A s \in PercsSeries : percLog[i][s] = MetricsOf(reported[i].samples)[s]
    BY <1>1, <1>2, RowFields DEF RowOf
  <2> QED BY <1>2, <1>4, <2>1, <2>2, <2>3
<1> QED BY <1>3, <1>4

\* The chart shows each report, at its tick and with the figures of its samples, in
\* whatever order results came, ticks were reported and the writer passed rows on
\* (graph_report.go:132-149).
THEOREM ChartIsOfReports == Spec => []ChartShowsReports
<1>1. ReportInv /\ Left => ChartShowsReports
  <2> SUFFICES ASSUME ReportInv, Left, main \in {"max", "returned"}, runner # NoRunner, CSV, PNG
               PROVE  IF reported = <<>> THEN chart = NoChart
                      ELSE /\ DOMAIN chart = PercsSeries
                           /\ \A s \in PercsSeries :
                                chart[s] = [i \in DOMAIN reported |->
                                              <<reported[i].tick, Summary(reported[i].samples)[s]>>]
    BY DEF ChartShowsReports
  <2>1. ChartOfRows
    BY DEF Left, NoRunner
  <2>2. \A i \in DOMAIN reported : \A s \in PercsSeries :
          MetricsOf(reported[i].samples)[s] = Summary(reported[i].samples)[s]
    <3>1. \A i \in DOMAIN reported : reported[i] \in Reports
      BY DEF ReportInv, InProgress
    <3> QED BY <3>1, FiguresAreExact DEF Reports
  <2> QED BY <2>1, <2>2, ChartOfReports
<1> QED BY <1>1, LeftHolds, PTL

-----------------------------------------------------------------------------
(* The highest rate *)

\* Of the rates of the reports one is the highest.
TopRate ==
  reported # <<>> =>
    \E i \in 1 .. Len(reported) :
      \A j \in 1 .. Len(reported) : RateOf(reported[i]) >= RateOf(reported[j])

LEMMA TopGrows ==
  ASSUME NEW n \in Nat, NEW f \in [1 .. n + 1 -> Nat],
         \E i \in 1 .. n : \A j \in 1 .. n : f[i] >= f[j]
  PROVE  \E i \in 1 .. n + 1 : \A j \in 1 .. n + 1 : f[i] >= f[j]
<1>1. PICK i \in 1 .. n : \A j \in 1 .. n : f[i] >= f[j]
  OBVIOUS
<1>2. CASE f[i] >= f[n + 1]
  <2>1. \A j \in 1 .. n + 1 : f[i] >= f[j]
    BY <1>1, <1>2
  <2> QED BY <2>1
<1>3. CASE ~(f[i] >= f[n + 1])
  <2>1. \A j \in 1 .. n + 1 : f[n + 1] >= f[j]
    BY <1>1, <1>3
  <2> QED BY <2>1
<1> QED BY <1>2, <1>3

LEMMA StepTopRate ==
  ASSUME ReportInv, TopRate, [Next]_vars
  PROVE  TopRate'
<1>1. CASE NewRunner
  BY <1>1 DEF NewRunner, NewReport, TopRate
<1>2. CASE WriteRow
  <2> DEFINE r == [tick |-> cur, samples |-> ticks[cur]]
             n == Len(reported)
  <2>1. r \in Reports
    <3>1. /\ cur \in DOMAIN Targets /\ ticks[cur] \in Seq(Samples)
          /\ Targets[cur] > 0 /\ Len(ticks[cur]) = Targets[cur]
      BY <1>2, ReportAssumption DEF WriteRow, ReportInv, InProgress
    <3> QED BY <3>1 DEF Reports
  <2>2. reported' = Append(reported, r) /\ reported \in Seq(Reports)
    BY <1>2 DEF WriteRow, ReportInv, InProgress
  <2> HIDE DEF r
  <2>3. /\ Len(reported') = n + 1 /\ n \in Nat
        /\ \A i \in 1 .. n : reported'[i] = reported[i] /\ reported[i] \in Reports
        /\ reported'[n + 1] = r
    BY <2>1, <2>2, ReportsGrow
  <2>4. \A e \in Reports : RateOf(e) \in Nat
    BY FiguresAreExact DEF Reports, RateOf
  <2>5. PICK f \in [1 .. n + 1 -> Nat] : \A i \in 1 .. n + 1 : f[i] = RateOf(reported'[i])
    <3> DEFINE g == [i \in 1 .. n + 1 |-> RateOf(reported'[i])]
    <3>1. \A i \in 1 .. n + 1 : RateOf(reported'[i]) \in Nat
      BY <2>1, <2>3, <2>4
    <3>2. g \in [1 .. n + 1 -> Nat] /\ \A i \in 1 .. n + 1 : g[i] = RateOf(reported'[i])
      BY <3>1
    <3> QED BY <3>2
  <2>6. \E i \in 1 .. n + 1 : \A j \in 1 .. n + 1 : f[i] >= f[j]
    <3>1. CASE n = 0
      BY <2>3, <3>1
    <3>2. CASE n # 0
      <4>1. \E i \in 1 .. n : \A j \in 1 .. n : f[i] >= f[j]
        BY <2>3, <2>5, <3>2 DEF TopRate
      <4> HIDE DEF n
      <4> QED BY <2>3, <4>1, TopGrows
    <3> QED BY <3>1, <3>2
  <2>7. \E i \in 1 .. n + 1 : \A j \in 1 .. n + 1 : RateOf(reported'[i]) >= RateOf(reported'[j])
    BY <2>5, <2>6
  <2> QED BY <2>3, <2>7 DEF TopRate
<1>3. CASE ~NewRunner /\ ~WriteRow
  <2>1. UNCHANGED reported
    BY <1>3 DEF Next, RegisterGauge, Receive, SetGauge, ForgetTick, CollectorStop, FlushLogs,
                Plot, ReadMaxRPS, vars, colVars
  <2> QED BY <2>1 DEF TopRate
<1> QED BY <1>1, <1>2, <1>3

\* Run returns the highest rate of its reports, whatever was flushed when
\* (runner.go:194-201, 396-416).
THEOREM MaxIsReached == Spec => []MaxRPSIsReached
<1>1. ReportInv /\ Left /\ TopRate => MaxRPSIsReached
  <2> SUFFICES ASSUME ReportInv, Left, TopRate, main = "returned"
               PROVE  LET rates == {Summary(reported[i].samples).rps : i \in DOMAIN reported}
                      IN maxRPS = IF CSV /\ rates # {} THEN Max(rates) ELSE 0
    BY DEF MaxRPSIsReached
  <2> DEFINE rates == {Summary(reported[i].samples).rps : i \in DOMAIN reported}
             n == Len(reported)
  <2>1. n \in Nat /\ DOMAIN reported = 1 .. n /\ \A i \in 1 .. n : reported[i] \in Reports
    BY DEF ReportInv, InProgress
  <2>2. \A i \in 1 .. n : /\ Summary(reported[i].samples).rps = RateOf(reported[i])
                          /\ RateOf(reported[i]) \in Nat
    BY <2>1, FiguresAreExact DEF Reports, RateOf
  <2>3. rates = {RateOf(reported[i]) : i \in 1 .. n}
    BY <2>1, <2>2
  <2>4. CASE ~CSV \/ runner = 0
    <3>1. maxRPS = 0
      BY <2>4 DEF Left
    <3>2. runner = 0 => rates = {}
      BY DEF ReportInv, Written
    <3> QED BY <2>4, <3>1, <3>2
  <2>5. CASE CSV /\ runner # 0
    <3>1. {percLog[i].rps : i \in DOMAIN percLog} = rates
      <4> DEFINE R == {RowOf(r) : r \in Reports}
      <4>1. percLog \in Seq(R) /\ Len(percLog) = n
        BY <2>5 DEF ReportInv, Written
      <4> HIDE DEF R
      <4>2. DOMAIN percLog = 1 .. n
        BY <4>1
      <4>3. \A i \in 1 .. n : percLog[i].rps = RateOf(reported[i])
        <5>1. \A i \in 1 .. n : percLog[i] = RowOf(reported[i])
          BY <2>5 DEF ReportInv, Written
        <5> QED BY <5>1, RowFields DEF RowOf, RateOf, PercsSeries
      <4> QED BY <2>3, <4>2, <4>3
    <3>2. maxRPS = Max({0} \cup rates)
      <4>1. maxRPS = MaxRPS({0} \cup rates)
        BY <2>5, <3>1 DEF Left
      <4> HIDE DEF rates
      <4> QED BY <4>1 DEF MaxRPS
    <3>3. CASE n = 0
      <4>1. rates = {}
        BY <2>3, <3>3
      <4>2. Max({0}) = 0
        BY MaxIs
      <4> QED BY <3>2, <4>1, <4>2
    <3>4. CASE n # 0
      <4>1. PICK i \in 1 .. n : \A j \in 1 .. n : RateOf(reported[i]) >= RateOf(reported[j])
        BY <2>1, <3>4 DEF TopRate
      <4> DEFINE m == RateOf(reported[i])
      <4>2. m \in rates /\ rates \subseteq Nat /\ \A y \in rates : m >= y
        BY <2>2, <2>3, <4>1
      <4> HIDE DEF m, rates
      <4>3. Max(rates) = m
        BY <4>2, MaxIs
      <4>4. Max({0} \cup rates) = m
        <5>1. m \in {0} \cup rates /\ {0} \cup rates \subseteq Nat /\ \A y \in {0} \cup rates : m >= y
          BY <4>2
        <5> QED BY <5>1, MaxIs
      <4> QED BY <2>5, <3>2, <4>2, <4>3, <4>4 DEF rates
    <3> QED BY <3>3, <3>4
  <2> QED BY <2>4, <2>5
<1>2. Init => TopRate
  BY DEF Init, TopRate
<1>3. ReportInv /\ TopRate /\ [Next]_vars => TopRate'
  BY StepTopRate
<1> QED BY <1>1, <1>2, <1>3, LeftHolds, PTL DEF Spec
=============================================================================
