----------------------------- MODULE FoldFacts -----------------------------
(***************************************************************************)
(* What FoldLeft computes, for any operator and any sequence: it applies   *)
(* the operator to one element after the other.  Proofs about a fold       *)
(* instantiate this module with the operator and the base of that fold.    *)
(* Induction is by the least number for which a claim would be false.      *)
(***************************************************************************)
EXTENDS Integers, SequencesExt, WellFoundedInduction, TLAPS

CONSTANTS Op(_, _), Base

\* A number has a property if 0 has it and the next one always has it too.
LEMMA Least == ASSUME NEW T \in SUBSET Nat, T # {} PROVE \E x \in T : \A y \in T : x <= y
<1>1. PICK x \in T : \A y \in T : ~(<<y, x>> \in OpToRel(<, Nat))
  BY NatLessThanWellFounded, WFMin
<1>2. ASSUME NEW y \in T PROVE x <= y
  <2>1. ~(<<y, x>> \in OpToRel(<, Nat))
    BY <1>1
  <2>2. ~(y < x)
    BY <2>1 DEF OpToRel
  <2> QED BY <2>2
<1> QED BY <1>2

LEMMA Greatest ==
  ASSUME NEW T \in SUBSET Nat, T # {}, NEW u \in Nat, \A x \in T : x <= u
  PROVE  \E x \in T : \A y \in T : x >= y
<1> DEFINE R == {u - x : x \in T}
<1>1. R \in SUBSET Nat /\ R # {}
  <2>1. \A x \in T : u - x \in Nat
    OBVIOUS
  <2> QED BY <2>1
<1>2. PICK r \in R : \A q \in R : r <= q
  <2> HIDE DEF R
  <2> QED BY <1>1, Least
<1>3. PICK x \in T : r = u - x
  OBVIOUS
<1>4. \A y \in T : u - x <= u - y
  BY <1>2, <1>3
<1> QED BY <1>4

LEMMA UpTo ==
  ASSUME NEW n \in Nat, NEW T, 0 \in T, \A k \in 0 .. n - 1 : k \in T => k + 1 \in T
  PROVE  \A k \in 0 .. n : k \in T
<1> SUFFICES ASSUME (0 .. n) \ T # {} PROVE FALSE
  OBVIOUS
<1>1. PICK k \in (0 .. n) \ T : \A j \in (0 .. n) \ T : k <= j
  <2>1. (0 .. n) \ T \in SUBSET Nat
    OBVIOUS
  <2> QED BY <2>1, Least
<1>2. k - 1 \in 0 .. n - 1 /\ k - 1 \in T
  BY <1>1
<1> QED BY <1>1, <1>2

LEMMA MaxIs ==
  ASSUME NEW S, NEW m \in S, S \subseteq Nat, \A y \in S : m >= y
  PROVE  Max(S) = m
<1>1. \A x \in S : (\A y \in S : x >= y) => x = m
  OBVIOUS
<1> QED BY <1>1 DEF Max

-----------------------------------------------------------------------------
\* The fold of Add, set by set.
FoldOf(seq, k, g) ==
  g = [s \in SUBSET (1 .. k) |->
         IF s = {} THEN Base ELSE Op(g[s \ {Max(s)}], seq[Max(s)])]

LEMMA MaxInside ==
  ASSUME NEW k \in Nat, NEW s \in SUBSET (1 .. k), s # {}
  PROVE  Max(s) \in s /\ Max(s) >= 1 /\ s \ {Max(s)} \in SUBSET (1 .. k - 1)
<1>1. PICK m \in s : \A y \in s : m >= y
  <2>1. s \in SUBSET Nat /\ \A x \in s : x <= k
    OBVIOUS
  <2> QED BY <2>1, Greatest
<1>2. Max(s) = m
  <2>1. s \subseteq Nat
    OBVIOUS
  <2> QED BY <1>1, <2>1, MaxIs
<1>3. \A x \in s : x \in 1 .. k /\ x <= m
  BY <1>1
<1>4. \A x \in s \ {m} : x \in 1 .. k - 1
  BY <1>3
<1> QED BY <1>1, <1>2, <1>3, <1>4

LEMMA FoldExists ==
  ASSUME NEW seq, NEW n \in Nat
  PROVE  \E g : FoldOf(seq, n, g)
<1> DEFINE T == {k \in 0 .. n : \E g : FoldOf(seq, k, g)}
<1>1. 0 \in T
  <2> DEFINE g == [s \in SUBSET (1 .. 0) |-> Base]
  <2>1. \A s \in SUBSET (1 .. 0) : s = {}
    OBVIOUS
  <2>2. g = [s \in SUBSET (1 .. 0) |->
              IF s = {} THEN Base ELSE Op(g[s \ {Max(s)}], seq[Max(s)])]
    BY <2>1
  <2>3. FoldOf(seq, 0, g)
    BY <2>2 DEF FoldOf
  <2> QED BY <2>3
<1>2. ASSUME NEW k \in 0 .. n - 1, k \in T PROVE k + 1 \in T
  <2>1. PICK g : FoldOf(seq, k, g)
    BY <1>2
  <2> DEFINE h == [s \in SUBSET (1 .. k + 1) |->
                     IF s = {} THEN Base ELSE Op(g[s \ {Max(s)}], seq[Max(s)])]
  <2>2. \A s \in SUBSET (1 .. k) : s \in SUBSET (1 .. k + 1) /\ h[s] = g[s]
    <3>1. \A s \in SUBSET (1 .. k) : s \in SUBSET (1 .. k + 1)
      OBVIOUS
    <3>2. ASSUME NEW s \in SUBSET (1 .. k) PROVE h[s] = g[s]
      <4>1. g[s] = IF s = {} THEN Base ELSE Op(g[s \ {Max(s)}], seq[Max(s)])
        BY <2>1, Zenon DEF FoldOf
      <4>2. h[s] = IF s = {} THEN Base ELSE Op(g[s \ {Max(s)}], seq[Max(s)])
        BY <3>1, Zenon
      <4> QED BY <4>1, <4>2
    <3> QED BY <3>1, <3>2
  <2>3. \A s \in SUBSET (1 .. k + 1) :
          IF s = {} THEN TRUE ELSE h[s \ {Max(s)}] = g[s \ {Max(s)}]
    <3> SUFFICES ASSUME NEW s \in SUBSET (1 .. k + 1), s # {}
                 PROVE  h[s \ {Max(s)}] = g[s \ {Max(s)}]
      OBVIOUS
    <3>1. s \ {Max(s)} \in SUBSET (1 .. k)
      <4>1. k + 1 \in Nat /\ (k + 1) - 1 = k
        OBVIOUS
      <4> QED BY <4>1, MaxInside
    <3> QED BY <2>2, <3>1
  <2>4. h = [s \in SUBSET (1 .. k + 1) |->
               IF s = {} THEN Base ELSE Op(h[s \ {Max(s)}], seq[Max(s)])]
    BY <2>3, Zenon
  <2>5. FoldOf(seq, k + 1, h)
    BY <2>4, Zenon DEF FoldOf
  <2>6. k + 1 \in 0 .. n
    OBVIOUS
  <2> QED BY <2>5, <2>6
<1> HIDE DEF T
<1>3. n \in T
  BY <1>1, <1>2, UpTo
<1> QED BY <1>3 DEF T

\* Folding is adding one sample after the other.
LEMMA FoldSteps ==
  ASSUME NEW seq, NEW n \in Nat, DOMAIN seq = 1 .. n
  PROVE  \E m : /\ m[0] = Base
                /\ \A k \in 1 .. n : m[k] = Op(m[k - 1], seq[k])
                /\ FoldLeft(Op, Base, seq) = m[n]
<1>0. n \in 0 .. n
  OBVIOUS
<1> DEFINE it == CHOOSE g : FoldOf(seq, n, g)
<1>1. FoldOf(seq, n, it)
  BY FoldExists, Zenon
<1>2. FoldLeft(Op, Base, seq) = it[1 .. n]
  BY Zenon DEF FoldLeft, MapThenFoldSet, FoldOf
<1> HIDE DEF it
<1> DEFINE m == [k \in 0 .. n |-> it[1 .. k]]
<1>3. m[0] = Base
  <2>1. 1 .. 0 = {} /\ {} \in SUBSET (1 .. n) /\ 0 \in 0 .. n
    OBVIOUS
  <2>2. it[{}] = Base
    BY <1>1, <2>1, Zenon DEF FoldOf
  <2>3. m[0] = it[1 .. 0]
    BY <2>1, Zenon
  <2> QED BY <2>1, <2>2, <2>3, Zenon
<1>4. ASSUME NEW k \in 1 .. n PROVE m[k] = Op(m[k - 1], seq[k])
  <2>1. /\ 1 .. k \in SUBSET (1 .. n) /\ 1 .. k # {} /\ k \in 0 .. n /\ k - 1 \in 0 .. n
        /\ (1 .. k) \ {k} = 1 .. k - 1
    <3>1. k \in 1 .. k /\ k \in 0 .. n /\ k - 1 \in 0 .. n
      OBVIOUS
    <3>2. \A i \in 1 .. k : i \in 1 .. n /\ (i # k => i \in 1 .. k - 1)
      OBVIOUS
    <3>3. \A i \in 1 .. k - 1 : i \in 1 .. k /\ i # k
      OBVIOUS
    <3> QED BY <3>1, <3>2, <3>3
  <2>2. Max(1 .. k) = k
    <3>1. k \in 1 .. k /\ 1 .. k \subseteq Nat /\ \A y \in 1 .. k : k >= y
      OBVIOUS
    <3> QED BY <3>1, MaxIs
  <2>3. it[1 .. k] = Op(it[(1 .. k) \ {Max(1 .. k)}], seq[Max(1 .. k)])
    BY <1>1, <2>1, Zenon DEF FoldOf
  <2>4. m[k] = it[1 .. k] /\ m[k - 1] = it[1 .. k - 1]
    BY <2>1, Zenon
  <2> QED BY <2>1, <2>2, <2>3, <2>4
<1>5. m[n] = it[1 .. n]
  BY <1>0, Zenon
<1> HIDE DEF m
<1> QED BY <1>2, <1>3, <1>4, <1>5
=============================================================================
