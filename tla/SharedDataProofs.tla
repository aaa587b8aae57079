-------------------------- MODULE SharedDataProofs --------------------------
(***************************************************************************)
(* For every number of callers and all data, SharedDataSlice keeps its     *)
(* mutex and hands the data out round and round, skipping none; so it does *)
(* for attackers that draw from it in their attempts, which never index    *)
(* outside of it, give their connections back and tell their failures.     *)
(***************************************************************************)
EXTENDS Attempts, FiniteSetTheorems, TLAPS

\* The shape of the state, and what the mutex is worth: one goroutine at a time
\* is inside a call.
DataTyped ==
  /\ Data \in Seq(Datums)
  /\ Index \in 0 .. Len(Data)
  /\ mutex \in Goroutines \cup {NoOne}
  /\ at \in [Goroutines -> {"out", "wrap", "read", "unlock", "append"}]
  /\ handed \in Seq([datum : Datums, of : Nat])
  /\ alive \in BOOLEAN

MutexHeld == \A g \in Goroutines : at[g] # "out" <=> mutex = g

\* The index is behind the last datum only before it is wrapped, and after the
\* first datum was handed out it is 0 only between the wrap and the read.
IndexInRound ==
  /\ \A g \in Goroutines : at[g] = "read" => Index < Len(Data) \/ Data = <<>>
  /\ handed # <<>> => Data # <<>>
  /\ handed = <<>> => Index = 0
  /\ Index = 0 /\ handed # <<>> => \E g \in Goroutines : at[g] = "read"

DataInv == DataTyped /\ MutexHeld /\ IndexInRound

-----------------------------------------------------------------------------
\* Whoever is inside a call is alone there.
LEMMA Alone ==
  ASSUME DataInv, NEW g \in Goroutines, at[g] # "out"
  PROVE  mutex = g /\ \A h \in Goroutines \ {g} : at[h] = "out"
BY DEF DataInv, MutexHeld

LEMMA InitInv == DataInit => DataInv
<1> SUFFICES ASSUME DataInit PROVE DataInv
  OBVIOUS
<1> USE SharedDataAssumption DEF DataInit
<1>1. DataTyped
  BY DEF DataTyped, Goroutines
<1>2. MutexHeld
  BY DEF MutexHeld, Goroutines
<1>3. IndexInRound
  BY DEF IndexInRound, Goroutines
<1> QED BY <1>1, <1>2, <1>3 DEF DataInv

\* Taking the lock.
LEMMA LockInv ==
  ASSUME DataInv, NEW g \in Goroutines, Lock(g),
         NEW here \in {"wrap", "append"}, at' = [at EXCEPT ![g] = here],
         UNCHANGED <<Data, Index, handed, alive>>
  PROVE  DataInv'
<1> USE SharedDataAssumption DEF DataInv, Lock
<1>1. DataTyped'
  BY DEF DataTyped, Goroutines
<1>2. MutexHeld'
  BY DEF MutexHeld, DataTyped, Goroutines
<1>3. IndexInRound'
  BY DEF IndexInRound, MutexHeld, DataTyped, Goroutines
<1> QED BY <1>1, <1>2, <1>3

\* Releasing it.
LEMMA UnlockInv ==
  ASSUME DataInv, NEW g \in Goroutines, at[g] = "unlock", Unlock(g),
         at' = [at EXCEPT ![g] = "out"],
         UNCHANGED <<Data, Index, handed, alive>>
  PROVE  DataInv'
<1> USE SharedDataAssumption DEF Unlock
<1>0. mutex = g /\ \A h \in Goroutines \ {g} : at[h] = "out"
  BY Alone
<1>1. DataTyped'
  BY DEF DataInv, DataTyped, Goroutines
<1>2. MutexHeld'
  BY <1>0 DEF DataInv, MutexHeld, DataTyped, Goroutines
<1>3. IndexInRound'
  BY <1>0 DEF DataInv, IndexInRound, DataTyped
<1> QED BY <1>1, <1>2, <1>3 DEF DataInv

LEMMA WrapInv ==
  ASSUME DataInv, NEW c \in Callers, GetWrap(c)
  PROVE  DataInv'
<1> USE DEF GetWrap, Wrapped, Goroutines
<1>0. \A h \in Goroutines \ {c} : at[h] = "out"
  BY Alone
<1>1. DataTyped'
  BY DEF DataInv, DataTyped
<1>2. MutexHeld'
  BY DEF DataInv, MutexHeld, DataTyped
<1>3. IndexInRound'
  <2>1. Index' < Len(Data) \/ Data = <<>>
    BY DEF DataInv, DataTyped
  <2> QED BY <2>1, <1>0 DEF DataInv, IndexInRound, DataTyped
<1> QED BY <1>1, <1>2, <1>3 DEF DataInv

LEMMA ReadInv ==
  ASSUME DataInv, NEW c \in Callers, GetRead(c)
  PROVE  DataInv'
<1> USE DEF GetRead, Goroutines
<1>0. \A h \in Goroutines \ {c} : at[h] = "out"
  BY Alone
<1>1. DataTyped'
  <2>1. [datum |-> Data[Index + 1], of |-> Len(Data)] \in [datum : Datums, of : Nat]
    BY DEF DataInv, DataTyped
  <2> QED BY <2>1 DEF DataInv, DataTyped
<1>2. MutexHeld'
  BY DEF DataInv, MutexHeld, DataTyped
<1>3. IndexInRound'
  <2>1. Data # <<>> /\ handed' # <<>> /\ Index' # 0
    BY DEF DataInv, DataTyped
  <2> QED BY <2>1, <1>0 DEF DataInv, IndexInRound, DataTyped
<1> QED BY <1>1, <1>2, <1>3 DEF DataInv

LEMMA AppendInv ==
  ASSUME DataInv, NEW a \in Adders, NEW d \in Added, AddAppend(a, d)
  PROVE  DataInv'
<1> USE SharedDataAssumption DEF AddAppend, Goroutines
<1>0. \A h \in Goroutines \ {a} : at[h] = "out"
  BY Alone
<1>1. DataTyped'
  BY DEF DataInv, DataTyped
<1>2. MutexHeld'
  BY DEF DataInv, MutexHeld, DataTyped
<1>3. IndexInRound'
  <2>1. Data' # <<>>
    BY DEF DataInv, DataTyped
  <2> QED BY <2>1, <1>0 DEF DataInv, IndexInRound, DataTyped
<1> QED BY <1>1, <1>2, <1>3 DEF DataInv

LEMMA StepInv == DataInv /\ [DataNext]_dataVars => DataInv'
<1> SUFFICES ASSUME DataInv, [DataNext]_dataVars PROVE DataInv'
  OBVIOUS
<1>1. ASSUME NEW c \in Callers, Get(c) PROVE DataInv'
  <2>1. CASE GetLock(c)
    BY <2>1, LockInv DEF GetLock, Goroutines
  <2>2. CASE GetWrap(c)
    BY <2>2, WrapInv
  <2>3. CASE GetRead(c)
    BY <2>3, ReadInv
  <2>4. CASE GetPanic(c)
    BY <2>4 DEF GetPanic, DataInv, DataTyped, MutexHeld, IndexInRound
  <2>5. CASE GetUnlock(c)
    BY <2>5, UnlockInv DEF GetUnlock, Goroutines
  <2> QED BY <1>1, <2>1, <2>2, <2>3, <2>4, <2>5 DEF Get
<1>2. ASSUME NEW a \in Adders, Extend(a) PROVE DataInv'
  <2>1. CASE AddLock(a)
    BY <2>1, LockInv DEF AddLock, Goroutines
  <2>2. ASSUME NEW d \in Added, AddAppend(a, d) PROVE DataInv'
    BY <2>2, AppendInv
  <2>3. CASE AddUnlock(a)
    BY <2>3, UnlockInv DEF AddUnlock, Goroutines
  <2> QED BY <1>2, <2>1, <2>2, <2>3 DEF Extend
<1>3. CASE Die \/ UNCHANGED dataVars
  BY <1>3 DEF Die, dataVars, DataInv, DataTyped, MutexHeld, IndexInRound
<1> QED BY <1>1, <1>2, <1>3 DEF DataNext

\* At most one goroutine is inside a call, the one that holds the mutex, and the
\* index never points outside the data when a datum is read (shared.go:23-38).
THEOREM MutexWorks == DataSpec => []DataInv
<1>1. DataInit => DataInv
  BY InitInv
<1>2. DataInv /\ [DataNext]_dataVars => DataInv'
  BY StepInv
<1> QED BY <1>1, <1>2, PTL DEF DataSpec

-----------------------------------------------------------------------------
(* The calls are atomic *)

NextBar == IF Index = 0 /\ handed # <<>> THEN Len(Data) ELSE Index

\* A read is the Get of the ring.
LEMMA ReadIsGet ==
  ASSUME DataInv, NEW c \in Callers, GetRead(c)
  PROVE  RingView!Get
<1> USE DEF GetRead
<1>1. Data # <<>> /\ Index \in 0 .. Len(Data) - 1 /\ handed \in Seq([datum : Datums, of : Nat])
  BY DEF DataInv, DataTyped
<1>2. (IF NextBar < Len(Data) THEN NextBar ELSE 0) = Index
  BY <1>1 DEF NextBar
<1>3. NextBar' = Index + 1
  BY <1>1 DEF NextBar
<1> QED BY <1>1, <1>2, <1>3 DEF RingView!Get, NextBar

\* Neither the wrap of the index nor an addition disturbs the round.
LEMMA WrapIsSilent ==
  ASSUME DataInv, NEW c \in Callers, GetWrap(c)
  PROVE  UNCHANGED <<Data, NextBar, handed>>
<1> USE DEF GetWrap, Wrapped
<1>1. CASE handed = <<>>
  BY <1>1 DEF DataInv, IndexInRound, DataTyped, NextBar
<1>2. CASE handed # <<>>
  <2>1. Index # 0
    <3>1. \A h \in Goroutines \ {c} : at[h] = "out"
      BY Alone DEF Goroutines
    <3> QED BY <3>1, <1>2 DEF DataInv, IndexInRound
  <2> QED BY <1>2, <2>1 DEF DataInv, DataTyped, NextBar
<1> QED BY <1>1, <1>2

LEMMA AppendIsAdd ==
  ASSUME DataInv, NEW a \in Adders, NEW d \in Added, AddAppend(a, d)
  PROVE  RingView!Add
<1> USE DEF AddAppend
<1>1. \A h \in Goroutines \ {a} : at[h] = "out"
  BY Alone DEF Goroutines
<1>2. ~ (Index = 0 /\ handed # <<>>)
  BY <1>1 DEF DataInv, IndexInRound
<1>3. NextBar' = NextBar
  BY <1>2 DEF NextBar
<1> QED BY <1>3 DEF RingView!Add, NextBar

LEMMA StepIsRing ==
  DataInv /\ [DataNext]_dataVars => [RingView!Next]_(RingView!vars)
<1> SUFFICES ASSUME DataInv, [DataNext]_dataVars
             PROVE  [RingView!Next]_(RingView!vars)
  OBVIOUS
<1> USE DEF RingView!Next, RingView!vars
<1>1. ASSUME NEW c \in Callers, Get(c) PROVE RingView!Next \/ UNCHANGED RingView!vars
  <2>1. CASE GetLock(c) \/ GetPanic(c) \/ GetUnlock(c)
    BY <2>1 DEF GetLock, GetPanic, GetUnlock
  <2>2. CASE GetWrap(c)
    BY <2>2, WrapIsSilent DEF NextBar
  <2>3. CASE GetRead(c)
    BY <2>3, ReadIsGet
  <2> QED BY <1>1, <2>1, <2>2, <2>3 DEF Get
<1>2. ASSUME NEW a \in Adders, Extend(a) PROVE RingView!Next \/ UNCHANGED RingView!vars
  <2>1. CASE AddLock(a) \/ AddUnlock(a)
    BY <2>1 DEF AddLock, AddUnlock
  <2>2. ASSUME NEW d \in Added, AddAppend(a, d) PROVE RingView!Next
    BY <2>2, AppendIsAdd
  <2> QED BY <1>2, <2>1, <2>2 DEF Extend
<1>3. CASE Die \/ UNCHANGED dataVars
  BY <1>3 DEF Die, dataVars
<1> QED BY <1>1, <1>2, <1>3 DEF DataNext

\* The calls of any number of goroutines hand the data out round and round, as if
\* each call happened at once (shared.go:23-38).
THEOREM RoundRobinHolds == DataSpec => RoundRobin
<1>1. DataInit => RingView!Init
  BY DEF DataInit, RingView!Init
<1>2. DataInv /\ [DataNext]_dataVars => [RingView!Next]_(RingView!vars)
  BY StepIsRing
<1> QED BY <1>1, <1>2, MutexWorks, PTL DEF DataSpec, RoundRobin, RingView!Spec

-----------------------------------------------------------------------------
(* Rounds *)

\* Where each datum stood that was handed out: p.  Since turn i everything behind p[i]
\* had a turn up to p[j], or to the end of the data of then and from the first again.
HadTurn(p, n, i, j) == \E k \in i + 1 .. j : p[k] = n

Walked(p, i, j) ==
  \/ p[i] <= p[j] /\ \A n \in p[i] + 1 .. p[j] : HadTurn(p, n, i, j)
  \/ \A n \in Nat : n \in p[i] + 1 .. handed[i].of \/ n \in 1 .. p[j] => HadTurn(p, n, i, j)

\* Between two turns of a position all the others had theirs.
FullRound(p, i, j) ==
  \A n \in 1 .. handed[i].of : n # p[i] => HadTurn(p, n, i, j - 1)

Positions(p) ==
  /\ p \in [1 .. Len(handed) -> Nat]
  /\ \A k \in 1 .. Len(handed) :
       /\ p[k] \in 1 .. handed[k].of
       /\ handed[k].of <= Len(Data)
       /\ handed[k].datum = Data[p[k]]

Turns(p) ==
  \A i, j \in 1 .. Len(handed) :
    /\ i <= j => Walked(p, i, j)
    /\ i < j /\ p[i] = p[j] => FullRound(p, i, j)

Rounds ==
  \E p : /\ Positions(p) /\ Turns(p)
         /\ IF handed = <<>> THEN NextBar = 0 ELSE NextBar = p[Len(handed)]

LEMMA InitRounds == DataInit => Rounds
<1> SUFFICES ASSUME DataInit PROVE Rounds
  OBVIOUS
<1> DEFINE p == [k \in 1 .. 0 |-> 0]
<1>1. handed = <<>> /\ Len(handed) = 0 /\ NextBar = 0
  BY DEF DataInit, NextBar
<1>2. Positions(p) /\ Turns(p)
  BY <1>1 DEF Positions, Turns
<1> QED BY <1>1, <1>2 DEF Rounds

\* One more turn, which is the next position or the first.
LEMMA TurnWalks ==
  ASSUME DataTyped, NEW p, Positions(p), Turns(p), handed # <<>>,
         NEW q \in [1 .. Len(handed) + 1 -> Nat],
         \A k \in 1 .. Len(handed) : q[k] = p[k],
         q[Len(handed) + 1] = IF p[Len(handed)] < Len(Data) THEN p[Len(handed)] + 1 ELSE 1,
         NEW i \in 1 .. Len(handed)
  PROVE  /\ Walked(q, i, Len(handed) + 1)
         /\ q[i] = q[Len(handed) + 1] => FullRound(q, i, Len(handed) + 1)
<1> DEFINE l == Len(handed)
           m == l + 1
           of == handed[i].of
<1>1. /\ l \in Nat \ {0} /\ Len(Data) \in Nat
      /\ of \in Nat /\ of <= Len(Data)
      /\ p[i] \in Nat /\ p[i] >= 1 /\ p[i] <= of
      /\ p[l] \in Nat /\ p[l] >= 1
  <2> DEFINE R == [datum : Datums, of : Nat]
  <2>1. handed \in Seq(R) /\ Data \in Seq(Datums)
    BY DEF DataTyped
  <2>2. \A r \in R : r.of \in Nat
    OBVIOUS
  <2> HIDE DEF R
  <2>3. l \in Nat \ {0} /\ Len(Data) \in Nat /\ handed[i] \in R
    BY <2>1
  <2> QED BY <2>2, <2>3 DEF Positions
<1>2. Walked(p, i, l)
  BY <1>1 DEF Turns
<1>3. ASSUME NEW n \in Nat, HadTurn(p, n, i, l) PROVE HadTurn(q, n, i, m) /\ HadTurn(q, n, i, m - 1)
  BY <1>1, <1>3 DEF HadTurn
<1>4. HadTurn(q, q[m], i, m)
  BY <1>1 DEF HadTurn
<1>5. q[i] = p[i]
  OBVIOUS
<1>6. CASE p[l] < Len(Data)
  <2>1. q[m] = p[l] + 1
    BY <1>6
  <2>2. CASE p[i] <= p[l] /\ \A n \in p[i] + 1 .. p[l] : HadTurn(p, n, i, l)
    <3>1. \A n \in p[i] + 1 .. p[l] + 1 : HadTurn(q, n, i, m)
      BY <1>1, <1>3, <1>4, <2>1, <2>2
    <3>2. q[i] <= q[m] /\ q[i] # q[m]
      BY <1>1, <1>5, <2>1, <2>2
    <3> QED BY <1>5, <2>1, <3>1, <3>2 DEF Walked
  <2>3. CASE \A n \in Nat : n \in p[i] + 1 .. of \/ n \in 1 .. p[l] => HadTurn(p, n, i, l)
    <3>1. \A n \in Nat : n \in p[i] + 1 .. of \/ n \in 1 .. p[l] + 1 => HadTurn(q, n, i, m)
      BY <1>1, <1>3, <1>4, <2>1, <2>3
    <3>2. Walked(q, i, m)
      BY <1>5, <2>1, <3>1 DEF Walked
    <3>3. ASSUME q[i] = q[m], NEW n \in 1 .. of, n # q[i]
          PROVE  HadTurn(q, n, i, m - 1)
      <4>1. n \in p[i] + 1 .. of \/ n \in 1 .. p[l]
        BY <1>1, <1>5, <2>1, <3>3
      <4>2. n \in Nat
        BY <1>1
      <4>3. HadTurn(p, n, i, l)
        BY <2>3, <4>1, <4>2
      <4> QED BY <1>3, <4>2, <4>3
    <3> QED BY <3>2, <3>3 DEF FullRound
  <2> QED BY <1>2, <2>2, <2>3 DEF Walked
<1>7. CASE ~(p[l] < Len(Data))
  <2>1. q[m] = 1
    BY <1>7
  <2>2. \A n \in p[i] + 1 .. of : HadTurn(p, n, i, l)
    BY <1>1, <1>2, <1>7 DEF Walked
  <2>3. \A n \in Nat : n \in p[i] + 1 .. of \/ n \in 1 .. 1 => HadTurn(q, n, i, m)
    BY <1>1, <1>3, <1>4, <2>1, <2>2
  <2>4. Walked(q, i, m)
    BY <1>5, <2>1, <2>3 DEF Walked
  <2>5. ASSUME q[i] = q[m], NEW n \in 1 .. of, n # q[i]
        PROVE  HadTurn(q, n, i, m - 1)
    <3>1. n \in p[i] + 1 .. of
      BY <1>1, <1>5, <2>1, <2>5
    <3> QED BY <1>1, <1>3, <2>2, <3>1
  <2> QED BY <2>4, <2>5 DEF FullRound
<1> QED BY <1>6, <1>7

\* The turns there were stay what they are.
LEMMA TurnsStay ==
  ASSUME DataTyped, NEW p, Positions(p), Turns(p), NEW q,
         \A k \in 1 .. Len(handed) : q[k] = p[k],
         \A k \in 1 .. Len(handed) : handed'[k] = handed[k],
         NEW i \in 1 .. Len(handed), NEW j \in 1 .. Len(handed)
  PROVE  /\ i <= j => Walked(q, i, j)'
         /\ i < j /\ q[i] = q[j] => FullRound(q, i, j)'
<1>1. Len(handed) \in Nat
  BY DEF DataTyped
<1>2. \A n : HadTurn(p, n, i, j) => HadTurn(q, n, i, j)
  BY <1>1 DEF HadTurn
<1>3. \A n : HadTurn(p, n, i, j - 1) => HadTurn(q, n, i, j - 1)
  BY <1>1 DEF HadTurn
<1>4. i <= j => Walked(p, i, j)
  BY DEF Turns
<1>5. i < j /\ p[i] = p[j] => FullRound(p, i, j)
  BY DEF Turns
<1> QED BY <1>2, <1>3, <1>4, <1>5 DEF Walked, FullRound

LEMMA GetRounds == DataTyped /\ Rounds /\ RingView!Get => Rounds'
<1> SUFFICES ASSUME DataTyped, Rounds, RingView!Get PROVE Rounds'
  OBVIOUS
<1> DEFINE l == Len(handed)
           pos == IF NextBar < Len(Data) THEN NextBar + 1 ELSE 1
           h == [datum |-> Data[pos], of |-> Len(Data)]
<1>1. PICK p : /\ Positions(p) /\ Turns(p)
               /\ IF handed = <<>> THEN NextBar = 0 ELSE NextBar = p[l]
  BY DEF Rounds
<1>2. l \in Nat /\ Len(Data) \in Nat \ {0} /\ NextBar \in Nat /\ pos \in 1 .. Len(Data)
  <2>1. l \in Nat /\ Len(Data) \in Nat \ {0}
    BY DEF DataTyped, RingView!Get
  <2>2. NextBar \in Nat
    BY <1>1, <2>1 DEF Positions, DataTyped
  <2> QED BY <2>1, <2>2
<1>3. /\ handed' = Append(handed, h)
      /\ NextBar' = pos
      /\ Data' = Data
  <2>1. pos = (IF NextBar < Len(Data) THEN NextBar ELSE 0) + 1
    OBVIOUS
  <2>2. /\ handed' = Append(handed, [datum |-> Data[(IF NextBar < Len(Data) THEN NextBar ELSE 0) + 1],
                                     of |-> Len(Data)])
        /\ NextBar' = (IF NextBar < Len(Data) THEN NextBar ELSE 0) + 1
        /\ Data' = Data
    BY DEF RingView!Get, NextBar
  <2> HIDE DEF pos
  <2> QED BY <2>1, <2>2
<1>4. /\ Len(handed') = l + 1
      /\ \A k \in 1 .. l : handed'[k] = handed[k]
      /\ handed'[l + 1] = h
      /\ handed' # <<>>
  <2>1. handed \in Seq([datum : Datums, of : Nat])
    BY DEF DataTyped
  <2> HIDE DEF h, pos
  <2> QED BY <1>3, <2>1
<1>5. PICK q \in [1 .. l + 1 -> Nat] : (\A k \in 1 .. l : q[k] = p[k]) /\ q[l + 1] = pos
  <2> DEFINE f == [k \in 1 .. l + 1 |-> IF k <= l THEN p[k] ELSE pos]
  <2>1. /\ f \in [1 .. l + 1 -> Nat]
        /\ \A k \in 1 .. l : f[k] = p[k]
        /\ f[l + 1] = pos
    BY <1>1, <1>2 DEF Positions
  <2> QED BY <2>1
<1> HIDE DEF h, pos
<1>6. Positions(q)'
  <2>1. ASSUME NEW k \in 1 .. l
        PROVE  /\ q[k] \in 1 .. handed'[k].of
               /\ handed'[k].of <= Len(Data')
               /\ handed'[k].datum = Data'[q[k]]
    BY <1>1, <1>3, <1>4, <1>5 DEF Positions
  <2>2. h.of = Len(Data) /\ h.datum = Data[pos]
    BY DEF h
  <2>3. /\ q[l + 1] \in 1 .. handed'[l + 1].of
        /\ handed'[l + 1].of <= Len(Data')
        /\ handed'[l + 1].datum = Data'[q[l + 1]]
    BY <1>2, <1>3, <1>4, <1>5, <2>2
  <2>4. 1 .. Len(handed') = 1 .. l + 1 /\ \A k \in 1 .. l + 1 : k \in 1 .. l \/ k = l + 1
    BY <1>2, <1>4
  <2> QED BY <1>5, <2>1, <2>3, <2>4 DEF Positions
<1>7. PICK m \in Nat : m = l + 1
  BY <1>2
<1>8. Turns(q)'
  <2>1. ASSUME NEW i \in 1 .. l, NEW j \in 1 .. l
        PROVE  /\ i <= j => Walked(q, i, j)'
               /\ i < j /\ q[i] = q[j] => FullRound(q, i, j)'
    BY <1>1, <1>4, <1>5, TurnsStay
  <2>2. ASSUME NEW i \in 1 .. l
        PROVE  /\ Walked(q, i, m)'
               /\ q[i] = q[m] => FullRound(q, i, m)'
    <3>1. handed # <<>>
      BY <1>2, <2>2
    <3>2. q[l + 1] = IF p[l] < Len(Data) THEN p[l] + 1 ELSE 1
      BY <1>1, <1>5, <3>1 DEF pos
    <3>3. /\ Walked(q, i, l + 1)
          /\ q[i] = q[l + 1] => FullRound(q, i, l + 1)
      BY <1>1, <1>5, <3>1, <3>2, TurnWalks
    <3>4. handed'[i] = handed[i]
      BY <1>4
    <3>5. Walked(q, i, m) => Walked(q, i, m)'
      BY <3>4 DEF Walked, HadTurn
    <3>6. FullRound(q, i, m) => FullRound(q, i, m)'
      BY <3>4 DEF FullRound, HadTurn
    <3> QED BY <1>2, <1>7, <3>3, <3>5, <3>6
  <2>3. Walked(q, m, m)'
    <3>1. q[m] \in Nat
      BY <1>2, <1>5, <1>7
    <3> QED BY <3>1 DEF Walked
  <2>4. ASSUME NEW i \in 1 .. m, NEW j \in 1 .. m
        PROVE  /\ i <= j => Walked(q, i, j)'
               /\ i < j /\ q[i] = q[j] => FullRound(q, i, j)'
    BY <1>2, <1>7, <2>1, <2>2, <2>3
  <2>5. 1 .. Len(handed') = 1 .. m
    BY <1>4, <1>7
  <2> QED BY <2>4, <2>5 DEF Turns
<1> QED BY <1>3, <1>4, <1>5, <1>6, <1>8 DEF Rounds

LEMMA AddRounds ==
  ASSUME DataTyped, Rounds, UNCHANGED <<handed, NextBar>>,
         Data' = Data \/ \E d \in Datums : Data' = Append(Data, d)
  PROVE  Rounds'
<1>1. PICK p : /\ Positions(p) /\ Turns(p)
               /\ IF handed = <<>> THEN NextBar = 0 ELSE NextBar = p[Len(handed)]
  BY DEF Rounds
<1>2. /\ Len(Data') >= Len(Data)
      /\ \A n \in 1 .. Len(Data) : Data'[n] = Data[n]
      /\ Len(Data) \in Nat /\ Len(Data') \in Nat
  BY DEF DataTyped
<1>3. \A k \in 1 .. Len(handed) : handed[k].of \in Nat
  <2> DEFINE R == [datum : Datums, of : Nat]
  <2>1. handed \in Seq(R)
    BY DEF DataTyped
  <2>2. \A r \in R : r.of \in Nat
    OBVIOUS
  <2> HIDE DEF R
  <2> QED BY <2>1, <2>2
<1>4. Positions(p)'
  <2>1. ASSUME NEW k \in 1 .. Len(handed)
        PROVE  handed[k].of <= Len(Data') /\ handed[k].datum = Data'[p[k]]
    <3>1. /\ p[k] \in 1 .. handed[k].of /\ handed[k].of <= Len(Data)
          /\ handed[k].datum = Data[p[k]]
      BY <1>1 DEF Positions
    <3>2. p[k] \in 1 .. Len(Data)
      BY <1>2, <1>3, <3>1
    <3> QED BY <1>2, <1>3, <3>1, <3>2
  <2>2. p \in [1 .. Len(handed) -> Nat] /\ \A k \in 1 .. Len(handed) : p[k] \in 1 .. handed[k].of
    BY <1>1 DEF Positions
  <2> QED BY <2>1, <2>2 DEF Positions
<1>5. Turns(p)'
  BY <1>1 DEF Turns, Walked, FullRound, HadTurn
<1> QED BY <1>1, <1>4, <1>5 DEF Rounds

LEMMA RoundsKept == Rounds /\ DataInv /\ [DataNext]_dataVars => Rounds'
<1> SUFFICES ASSUME Rounds, DataInv, [DataNext]_dataVars PROVE Rounds'
  OBVIOUS
<1>1. DataTyped /\ [RingView!Next]_(RingView!vars)
  BY StepIsRing DEF DataInv
<1>2. CASE RingView!Get
  BY <1>1, <1>2, GetRounds
<1>3. CASE RingView!Add \/ UNCHANGED RingView!vars
  <2>1. /\ UNCHANGED <<handed, NextBar>>
        /\ Data' = Data \/ \E d \in Datums : Data' = Append(Data, d)
    BY <1>3, SharedDataAssumption DEF RingView!Add, RingView!vars, NextBar
  <2> QED BY <1>1, <2>1, AddRounds
<1> QED BY <1>1, <1>2, <1>3 DEF RingView!Next

-----------------------------------------------------------------------------
(* The attempts of attackers *)

\* Whatever attackers do between two draws, they use the slice as its callers may.
LEMMA AttemptIsDraw == [Next]_vars => [DataNext]_dataVars
<1> SUFFICES ASSUME [Next]_vars PROVE DataNext \/ UNCHANGED dataVars
  OBVIOUS
<1>1. ASSUME NEW c \in Callers, alive, Start(c) \/ Attempt(c)
      PROVE  DataNext \/ UNCHANGED dataVars
  <2>1. CASE Draw(c)
    BY <1>1, <2>1 DEF Draw, DataNext
  <2>2. CASE DumpFatal(c) \/ NoTestData(c) \/ RequestPanic(c)
    BY <1>1, <2>2 DEF DumpFatal, NoTestData, RequestPanic, DataNext
  <2>3. CASE Start(c) \/ Connect(c) \/ Fail(c) \/ Respond(c)
             \/ FinishHTTP(c) \/ FinishData(c)
    BY <2>3 DEF Start, Connect, Fail, Respond, FinishHTTP, FinishData
  <2> QED BY <1>1, <2>1, <2>2, <2>3 DEF Attempt
<1>2. ASSUME NEW a \in Adders, alive, UserAdds(a) PROVE DataNext
  BY <1>2 DEF UserAdds, DataNext
<1>3. CASE Expire \/ UNCHANGED vars
  BY <1>3 DEF Expire, vars
<1> QED BY <1>1, <1>2, <1>3 DEF Next

\* However requests and responses interleave, and whoever else calls Get, the
\* attackers of a run draw their data round and round (attacker_with_data.go:25).
THEOREM AttemptsDrawRound == Spec => RoundRobin
<1>1. Init => DataInit
  BY DEF Init
<1>2. Spec => DataSpec
  BY <1>1, AttemptIsDraw, PTL DEF Spec, DataSpec
<1> QED BY <1>2, RoundRobinHolds

\* The ring gives every other datum a turn between two of the same, so the attackers
\* skip none, however their calls and those of Add interleave (shared.go:23-38).
THEOREM NothingSkipped == Spec => []NoDatumSkipped
<1>1. DataTyped /\ Rounds => NoDatumSkipped
  <2> SUFFICES ASSUME DataTyped, Rounds,
                      \A m, n \in DOMAIN Data : m # n => Data[m] # Data[n],
                      NEW i \in DOMAIN handed, NEW j \in DOMAIN handed, i < j,
                      handed[j].datum = handed[i].datum,
                      NEW n \in 1 .. handed[i].of, Data[n] # handed[i].datum
               PROVE  Data[n] \in {handed[k].datum : k \in i + 1 .. j - 1}
    BY DEF NoDatumSkipped
  <2>1. PICK p : Positions(p) /\ Turns(p)
    BY DEF Rounds
  <2>2. DOMAIN handed = 1 .. Len(handed) /\ DOMAIN Data = 1 .. Len(Data)
    BY DEF DataTyped
  <2>3. Len(handed) \in Nat /\ Len(Data) \in Nat /\ handed[i].of \in Nat /\ handed[j].of \in Nat
    <3> DEFINE R == [datum : Datums, of : Nat]
    <3>1. handed \in Seq(R) /\ Data \in Seq(Datums)
      BY DEF DataTyped
    <3>2. \A r \in R : r.of \in Nat
      OBVIOUS
    <3> HIDE DEF R
    <3> QED BY <2>2, <3>1, <3>2
  <2>4. p[i] \in 1 .. Len(Data) /\ p[j] \in 1 .. Len(Data)
    BY <2>1, <2>2, <2>3 DEF Positions
  <2>5. p[i] = p[j] /\ n # p[i]
    BY <2>1, <2>2, <2>4 DEF Positions
  <2>6. PICK k \in i + 1 .. j - 1 : p[k] = n
    BY <2>1, <2>2, <2>5 DEF Turns, FullRound, HadTurn
  <2>7. k \in 1 .. Len(handed)
    BY <2>2, <2>3
  <2>8. handed[k].datum = Data[n]
    BY <2>1, <2>6, <2>7 DEF Positions
  <2> QED BY <2>8
<1>2. Init => DataInit
  BY DEF Init
<1>3. Spec => DataSpec
  BY <1>2, AttemptIsDraw, PTL DEF Spec, DataSpec
<1>4. DataSpec => [](DataTyped /\ Rounds)
  <2>1. DataInv => DataTyped
    BY DEF DataInv
  <2> QED BY <2>1, InitRounds, RoundsKept, MutexWorks, PTL DEF DataSpec
<1> QED BY <1>1, <1>3, <1>4, PTL

-----------------------------------------------------------------------------
(* Connections *)

DoTyped ==
  /\ dump \in BOOLEAN
  /\ do \in [Callers -> {"idle", "get", "send", "wait", "finish"}]
  /\ resp \in [Callers -> Responses \cup {Failure}]

CallsInDo ==
  \A c \in Callers : /\ at[c] # "out" => do[c] = "get"
                     /\ do[c] = "get" => c \in DataCallers

\* A response holds at most one connection, and a dump reads it at once.
PoolKept ==
  /\ unread \in Nat /\ IsFiniteSet(active)
  /\ active \subseteq {c \in Callers : do[c] \in {"wait", "finish"}}
  /\ Cardinality(active) + unread <= MaxConns
  /\ dump => unread = 0 /\ \A c \in active : do[c] = "wait"

\* Those that drew a datum and are not done with it.
Drawn ==
  {c \in DataCallers : \/ do[c] \in {"send", "wait", "finish"}
                       \/ do[c] = "get" /\ at[c] = "unlock"}

\* A connection is left by a drawn datum, one by each.
LeftByDraws == IsFiniteSet(Drawn) /\ unread + Cardinality(Drawn) <= Len(handed)

AttemptInv == DataInv /\ DoTyped /\ CallsInDo /\ PoolKept /\ LeftByDraws

LEMMA InitAttempt == Init => AttemptInv
<1> SUFFICES ASSUME Init PROVE AttemptInv
  OBVIOUS
<1> USE AttemptsAssumption DEF Init
<1>1. DataInv
  BY InitInv
<1>2. DoTyped /\ CallsInDo
  BY DEF DoTyped, CallsInDo, DataInit, Goroutines
<1>3. PoolKept
  BY FS_EmptySet DEF PoolKept
<1>4. LeftByDraws
  <2>1. Drawn = {}
    BY DEF Drawn
  <2>2. Len(handed) = 0
    BY DEF DataInit
  <2> QED BY <2>1, <2>2, FS_EmptySet DEF LeftByDraws
<1> QED BY <1>1, <1>2, <1>3, <1>4 DEF AttemptInv

\* A step draws at most one datum; who drew one is counted in the data handed out.
LEMMA FewerDrawn ==
  ASSUME LeftByDraws, unread \in Nat, unread' \in Nat, unread' <= unread,
         Len(handed) \in Nat, Len(handed') \in Nat, Len(handed) <= Len(handed'),
         Drawn' \subseteq Drawn
  PROVE  LeftByDraws'
<1>1. /\ IsFiniteSet(Drawn') /\ Cardinality(Drawn') <= Cardinality(Drawn)
      /\ Cardinality(Drawn) \in Nat /\ Cardinality(Drawn') \in Nat
  BY FS_Subset, FS_CardinalityType DEF LeftByDraws
<1> QED BY <1>1 DEF LeftByDraws

LEMMA OneMoreDrawn ==
  ASSUME LeftByDraws, unread \in Nat, UNCHANGED unread,
         Len(handed) \in Nat, Len(handed') = Len(handed) + 1,
         NEW c, Drawn' \subseteq Drawn \cup {c}
  PROVE  LeftByDraws'
<1>1. /\ IsFiniteSet(Drawn \cup {c}) /\ Cardinality(Drawn \cup {c}) <= Cardinality(Drawn) + 1
      /\ Cardinality(Drawn) \in Nat
  <2>1. IsFiniteSet(Drawn)
    BY DEF LeftByDraws
  <2> HIDE DEF Drawn
  <2>2. /\ IsFiniteSet(Drawn \cup {c}) /\ Cardinality(Drawn) \in Nat
        /\ Cardinality(Drawn \cup {c}) =
             IF c \in Drawn THEN Cardinality(Drawn) ELSE Cardinality(Drawn) + 1
    BY <2>1, FS_AddElement, FS_CardinalityType
  <2> QED BY <2>2
<1>2. /\ IsFiniteSet(Drawn') /\ Cardinality(Drawn') <= Cardinality(Drawn \cup {c})
      /\ Cardinality(Drawn \cup {c}) \in Nat /\ Cardinality(Drawn') \in Nat
  BY <1>1, FS_Subset, FS_CardinalityType
<1> QED BY <1>1, <1>2 DEF LeftByDraws

\* What a draw does to its caller.
LEMMA DrawStep ==
  ASSUME AttemptInv, NEW c \in Callers, Draw(c)
  PROVE  DoTyped' /\ CallsInDo' /\ PoolKept' /\ LeftByDraws'
<1> USE AttemptsAssumption DEF Draw, Goroutines
<1>1. /\ at \in [Goroutines -> {"out", "wrap", "read", "unlock", "append"}]
      /\ DoTyped /\ CallsInDo /\ PoolKept /\ LeftByDraws
      /\ handed \in Seq([datum : Datums, of : Nat]) /\ Len(handed) \in Nat
  BY DEF AttemptInv, DataInv, DataTyped
<1>2. /\ do[c] = "get"
      /\ do' = [do EXCEPT ![c] = IF at[c] = "unlock" THEN "send" ELSE "get"]
      /\ UNCHANGED <<dump, resp, active, unread, answer>>
  BY DEF settings
<1>3. DoTyped'
  BY <1>1, <1>2 DEF DoTyped
<1>4. \A d \in Callers : at'[d] = at[d] \/ d = c
  BY <1>1 DEF Get, GetLock, GetWrap, GetRead, GetPanic, GetUnlock
<1>5. at[c] = "unlock" => at'[c] = "out" /\ UNCHANGED handed
  BY <1>1 DEF Get, GetLock, GetWrap, GetRead, GetPanic, GetUnlock, Lock
<1>6. CallsInDo'
  BY <1>1, <1>2, <1>4, <1>5 DEF CallsInDo, DoTyped
<1>7. PoolKept'
  <2>1. \A d \in Callers : do'[d] = do[d] \/ (d = c /\ d \notin active)
    BY <1>1, <1>2 DEF DoTyped, PoolKept
  <2> QED BY <1>1, <1>2, <2>1 DEF PoolKept
<1>8. LeftByDraws'
  <2>1. CASE GetRead(c)
    <3>1. Len(handed') = Len(handed) + 1
      BY <1>1, <2>1 DEF GetRead
    <3>2. Drawn' \subseteq Drawn \cup {c}
      BY <1>1, <1>2, <1>4 DEF Drawn, DoTyped
    <3> QED BY <1>1, <1>2, <3>1, <3>2, OneMoreDrawn DEF PoolKept
  <2>2. CASE ~GetRead(c)
    <3>1. UNCHANGED handed
      BY <2>2 DEF Get, GetLock, GetWrap, GetPanic, GetUnlock
    <3>2. at'[c] # "unlock" \/ at[c] = "unlock"
      BY <1>1, <2>2 DEF Get, GetLock, GetWrap, GetPanic, GetUnlock
    <3>3. Drawn' \subseteq Drawn
      BY <1>1, <1>2, <1>4, <3>2 DEF Drawn, DoTyped
    <3> QED BY <1>1, <1>2, <3>1, <3>3, FewerDrawn DEF PoolKept
  <2> QED BY <2>1, <2>2
<1> QED BY <1>3, <1>6, <1>7, <1>8

\* A connection is given back, or left unread.
LEMMA PoolStep ==
  ASSUME AttemptInv, NEW c \in Callers,
         do[c] \in {"send", "wait", "finish"},
         NEW to \in {"wait", "finish", "idle"}, do' = [do EXCEPT ![c] = to],
         UNCHANGED <<dataVars, dump>>,
         resp' \in [Callers -> Responses \cup {Failure}],
         \/ /\ active' = active \ {c}
            /\ \/ UNCHANGED unread
               \/ /\ do[c] = "finish" /\ to = "idle" /\ c \in active /\ c \in DataCallers
                  /\ unread' = unread + 1
         \/ /\ UNCHANGED <<active, unread>>
            /\ to = "finish" /\ do[c] = "wait" /\ ~dump
         \/ /\ to = "wait" /\ do[c] = "send" /\ UNCHANGED unread
            /\ active' = active \cup {c} /\ Cardinality(active) + unread < MaxConns
  PROVE  DoTyped' /\ CallsInDo' /\ PoolKept' /\ LeftByDraws'
<1> USE AttemptsAssumption
<1>1. /\ DoTyped /\ CallsInDo /\ PoolKept /\ LeftByDraws
      /\ UNCHANGED <<at, handed>> /\ Len(handed) \in Nat
  BY DEF AttemptInv, DataInv, DataTyped, dataVars
<1>2. at[c] = "out"
  BY <1>1 DEF CallsInDo
<1>3. DoTyped' /\ CallsInDo'
  BY <1>1, <1>2 DEF DoTyped, CallsInDo
<1>4. /\ unread \in Nat /\ IsFiniteSet(active) /\ Cardinality(active) \in Nat
      /\ Cardinality(active) + unread <= MaxConns /\ MaxConns \in Nat
      /\ active \subseteq {d \in Callers : do[d] \in {"wait", "finish"}}
      /\ dump => unread = 0 /\ \A d \in active : do[d] = "wait"
  BY <1>1, FS_CardinalityType DEF PoolKept
<1>5. /\ do'[c] = to
      /\ \A d \in Callers : d # c => do'[d] = do[d]
  BY <1>1 DEF DoTyped
<1>6. /\ IsFiniteSet(active \ {c}) /\ IsFiniteSet(active \cup {c})
      /\ Cardinality(active \ {c}) =
           IF c \in active THEN Cardinality(active) - 1 ELSE Cardinality(active)
      /\ Cardinality(active \cup {c}) =
           IF c \in active THEN Cardinality(active) ELSE Cardinality(active) + 1
  BY <1>4, FS_AddElement, FS_RemoveElement
<1>7. PoolKept'
  <2>1. /\ unread' \in Nat /\ IsFiniteSet(active')
        /\ Cardinality(active') + unread' <= MaxConns
    <3>1. CASE active' = active \ {c} /\ UNCHANGED unread
      BY <1>4, <1>6, <3>1
    <3>2. CASE active' = active \ {c} /\ c \in active /\ unread' = unread + 1
      BY <1>4, <1>6, <3>2
    <3>3. CASE UNCHANGED <<active, unread>>
      BY <1>4, <3>3
    <3>4. CASE /\ active' = active \cup {c} /\ UNCHANGED unread
               /\ Cardinality(active) + unread < MaxConns
      BY <1>4, <1>6, <3>4
    <3> QED BY <3>1, <3>2, <3>3, <3>4
  <2>2. active' \subseteq {d \in Callers : do'[d] \in {"wait", "finish"}}
    BY <1>4, <1>5
  <2>3. dump' => unread' = 0 /\ \A d \in active' : do'[d] = "wait"
    BY <1>4, <1>5
  <2> QED BY <2>1, <2>2, <2>3 DEF PoolKept
<1>8. LeftByDraws'
  <2>1. Drawn' \subseteq Drawn
    BY <1>1, <1>2, <1>5 DEF Drawn
  <2>2. CASE UNCHANGED unread
    BY <1>1, <1>4, <2>1, <2>2, FewerDrawn
  <2>3. CASE to = "idle" /\ c \in DataCallers /\ unread' = unread + 1
    <3>1. Drawn' \subseteq Drawn \ {c} /\ c \in Drawn
      BY <1>1, <1>2, <1>5, <2>3 DEF Drawn
    <3>2. /\ IsFiniteSet(Drawn \ {c}) /\ Cardinality(Drawn \ {c}) = Cardinality(Drawn) - 1
          /\ Cardinality(Drawn) \in Nat
      BY <1>1, <3>1, FS_RemoveElement, FS_CardinalityType DEF LeftByDraws
    <3>3. /\ IsFiniteSet(Drawn') /\ Cardinality(Drawn') <= Cardinality(Drawn \ {c})
          /\ Cardinality(Drawn') \in Nat
      BY <3>1, <3>2, FS_Subset, FS_CardinalityType
    <3> QED BY <1>1, <1>4, <2>3, <3>2, <3>3 DEF LeftByDraws
  <2> QED BY <2>2, <2>3
<1> QED BY <1>3, <1>7, <1>8

\* The steps of an attempt between a draw and the next one.
LEMMA RequestStep ==
  ASSUME AttemptInv, NEW c \in Callers,
         Connect(c) \/ Fail(c) \/ Respond(c) \/ FinishHTTP(c) \/ FinishData(c)
  PROVE  DoTyped' /\ CallsInDo' /\ PoolKept' /\ LeftByDraws'
<1>1. /\ resp \in [Callers -> Responses \cup {Failure}]
      /\ unread \in Nat
  BY DEF AttemptInv, DoTyped, PoolKept
<1>2. CASE Connect(c)
  BY <1>1, <1>2, PoolStep DEF Connect, settings
<1>3. CASE Fail(c)
  <2>1. /\ do[c] \in {"send", "wait"} /\ do' = [do EXCEPT ![c] = "finish"]
        /\ active' = active \ {c} /\ UNCHANGED <<dataVars, dump, unread>>
        /\ resp' \in [Callers -> Responses \cup {Failure}]
    BY <1>1, <1>3 DEF Fail, settings
  <2> QED BY <2>1, PoolStep
<1>4. CASE Respond(c)
  <2>1. PICK r \in Responses :
          /\ resp' = [resp EXCEPT ![c] = r]
          /\ active' = IF dump \/ r.body = "none" \/ r.limit THEN active \ {c} ELSE active
    BY <1>4 DEF Respond, settings
  <2>2. /\ do[c] = "wait" /\ do' = [do EXCEPT ![c] = "finish"]
        /\ UNCHANGED <<dataVars, dump, unread>>
        /\ resp' \in [Callers -> Responses \cup {Failure}]
        /\ active' = active \ {c} \/ (UNCHANGED active /\ ~dump)
    <3>1. resp' \in [Callers -> Responses \cup {Failure}]
      BY <1>1, <2>1
    <3>2. active' = active \ {c} \/ (UNCHANGED active /\ ~dump)
      BY <2>1
    <3> QED BY <1>4, <3>1, <3>2 DEF Respond, settings
  <2> QED BY <2>2, PoolStep
<1>5. CASE FinishHTTP(c) \/ FinishData(c)
  <2>1. /\ do[c] = "finish" /\ do' = [do EXCEPT ![c] = "idle"]
        /\ active' = active \ {c} /\ UNCHANGED <<dataVars, dump>>
        /\ resp' \in [Callers -> Responses \cup {Failure}]
        /\ \/ UNCHANGED unread
           \/ c \in active /\ c \in DataCallers /\ unread' = unread + 1
    BY <1>1, <1>5 DEF FinishHTTP, FinishData, settings
  <2> QED BY <2>1, PoolStep
<1> QED BY <1>2, <1>3, <1>4, <1>5

LEMMA StepAttempt == AttemptInv /\ [Next]_vars => AttemptInv'
<1> SUFFICES ASSUME AttemptInv, [Next]_vars PROVE AttemptInv'
  OBVIOUS
<1>1. /\ DataInv /\ DoTyped /\ CallsInDo /\ PoolKept /\ LeftByDraws
      /\ DataTyped /\ unread \in Nat
  BY DEF AttemptInv, DataInv, PoolKept
<1>2. DataInv'
  BY <1>1, StepInv, AttemptIsDraw
<1>3. Len(handed) \in Nat
  BY <1>1 DEF DataTyped
<1>4. ASSUME NEW c \in Callers, Start(c)
      PROVE  DoTyped' /\ CallsInDo' /\ PoolKept' /\ LeftByDraws'
  <2>1. /\ do[c] = "idle" /\ at[c] = "out"
        /\ \E to \in {"get", "send"} :
             do' = [do EXCEPT ![c] = to] /\ (c \in DataCallers <=> to = "get")
        /\ UNCHANGED <<at, handed, dump, resp, active, unread>>
    BY <1>1, <1>4 DEF Start, CallsInDo, dataVars, settings
  <2>2. DoTyped' /\ CallsInDo'
    BY <1>1, <2>1 DEF DoTyped, CallsInDo
  <2>3. /\ c \notin active
        /\ \A d \in Callers : d # c => do'[d] = do[d]
        /\ c \in DataCallers => do'[c] = "get"
    BY <1>1, <2>1 DEF DoTyped, PoolKept
  <2>4. PoolKept'
    BY <1>1, <2>1, <2>3 DEF PoolKept
  <2>5. Drawn' \subseteq Drawn
    BY <2>1, <2>3, AttemptsAssumption DEF Drawn
  <2> QED BY <1>1, <1>3, <2>1, <2>2, <2>4, <2>5, FewerDrawn
<1>5. ASSUME NEW c \in Callers, DumpFatal(c) \/ NoTestData(c) \/ RequestPanic(c)
      PROVE  DoTyped' /\ CallsInDo' /\ PoolKept' /\ LeftByDraws'
  <2>1. UNCHANGED <<at, handed, dump, do, resp, active, unread>>
    BY <1>5 DEF DumpFatal, NoTestData, RequestPanic, Die, doVars, settings
  <2>2. DoTyped' /\ CallsInDo' /\ PoolKept'
    BY <1>1, <2>1 DEF DoTyped, CallsInDo, PoolKept
  <2> QED BY <1>1, <2>1, <2>2 DEF LeftByDraws, Drawn
<1>6. ASSUME Expire PROVE DoTyped' /\ CallsInDo' /\ PoolKept' /\ LeftByDraws'
  <2>1. /\ unread' \in Nat /\ unread' <= unread /\ unread > 0
        /\ UNCHANGED <<at, handed, dump, do, resp, active>>
    BY <1>1, <1>6 DEF Expire, dataVars, settings
  <2>2. DoTyped' /\ CallsInDo'
    BY <1>1, <2>1 DEF DoTyped, CallsInDo
  <2>3. PoolKept'
    <3>1. Cardinality(active) \in Nat /\ MaxConns \in Nat
      BY <1>1, FS_CardinalityType, AttemptsAssumption DEF PoolKept
    <3> QED BY <1>1, <2>1, <3>1 DEF PoolKept
  <2>4. Drawn' \subseteq Drawn
    BY <2>1 DEF Drawn
  <2>5. Len(handed') = Len(handed)
    BY <2>1
  <2>6. LeftByDraws'
    BY <1>1, <1>3, <2>1, <2>4, <2>5, FewerDrawn
  <2> QED BY <2>2, <2>3, <2>6
<1>7. ASSUME NEW a \in Adders, UserAdds(a)
      PROVE  DoTyped' /\ CallsInDo' /\ PoolKept' /\ LeftByDraws'
  <2>1. UNCHANGED <<handed, dump, do, resp, active, unread>>
    BY <1>7 DEF UserAdds, Extend, AddLock, AddAppend, AddUnlock, doVars, settings
  <2>2. \A c \in Callers : at'[c] = at[c]
    BY <1>1, <1>7, SharedDataAssumption
       DEF UserAdds, Extend, AddLock, AddAppend, AddUnlock, DataTyped, Goroutines
  <2>3. DoTyped' /\ CallsInDo' /\ PoolKept'
    BY <1>1, <2>1, <2>2 DEF DoTyped, CallsInDo, PoolKept
  <2>4. Drawn' = Drawn
    BY <2>1, <2>2, AttemptsAssumption DEF Drawn
  <2> QED BY <1>1, <2>1, <2>3, <2>4 DEF LeftByDraws
<1>8. ASSUME UNCHANGED vars PROVE DoTyped' /\ CallsInDo' /\ PoolKept' /\ LeftByDraws'
  <2>1. UNCHANGED <<at, handed, dump, do, resp, active, unread>>
    BY <1>8 DEF vars, dataVars, doVars, settings
  <2>2. DoTyped' /\ CallsInDo' /\ PoolKept'
    BY <1>1, <2>1 DEF DoTyped, CallsInDo, PoolKept
  <2> QED BY <1>1, <2>1, <2>2 DEF LeftByDraws, Drawn
<1>9. ASSUME NEW c \in Callers, Attempt(c)
      PROVE  DoTyped' /\ CallsInDo' /\ PoolKept' /\ LeftByDraws'
  BY <1>5, <1>9, DrawStep, RequestStep DEF Attempt
<1>10. DoTyped' /\ CallsInDo' /\ PoolKept' /\ LeftByDraws'
  BY <1>4, <1>6, <1>7, <1>8, <1>9 DEF Next
<1> QED BY <1>2, <1>10 DEF AttemptInv

LEMMA AttemptInvHolds == Spec => []AttemptInv
BY InitAttempt, StepAttempt, PTL DEF Spec

\* The mutex serves one call at a time, inside an attempt, and the pool is never
\* overdrawn, by connections in use and left unread together
\* (shared.go:23-38, default_http_client.go:106-122).
THEOREM TypeCorrect == Spec => []TypeOK
<1>1. AttemptInv => TypeOK
  BY DEF AttemptInv, DataInv, DataTyped, MutexHeld, DoTyped, CallsInDo, PoolKept, TypeOK
<1> QED BY <1>1, AttemptInvHolds, PTL

\* An attempt ends the process by a dump, for want of data or by a URL that does not
\* parse, never by an index outside the data there are (default_http_client.go:55-104,
\* shared.go:25-28, attacker_with_data.go:25, http_attacker_mock.go:27-28).
THEOREM ProcessSurvives == Spec => []KnownDeaths
<1>1. Init => KnownDeaths
  BY DEF Init, DataInit, KnownDeaths
<1>2. AttemptInv /\ KnownDeaths /\ [Next]_vars => KnownDeaths'
  <2> SUFFICES ASSUME AttemptInv, KnownDeaths, [Next]_vars
               PROVE  KnownDeaths'
    OBVIOUS
  <2> USE DEF KnownDeaths
  <2>1. ASSUME NEW c \in Callers, alive, Draw(c) PROVE KnownDeaths'
    <3>1. CASE GetPanic(c)
      <4>1. Data' = <<>>
        BY <3>1 DEF GetPanic, AttemptInv, DataInv, DataTyped, IndexInRound, Goroutines
      <4>2. c \in DataCallers
        BY <2>1 DEF Draw, AttemptInv, CallsInDo
      <4> QED BY <4>1, <4>2
    <3>2. CASE ~GetPanic(c)
      BY <2>1, <3>2 DEF Draw, Get, GetLock, GetWrap, GetRead, GetUnlock
    <3> QED BY <3>1, <3>2
  <2>2. ASSUME NEW c \in Callers, NoTestData(c) PROVE KnownDeaths'
    BY <2>2 DEF NoTestData, AttemptInv, CallsInDo, doVars, settings
  <2>3. ASSUME NEW c \in Callers, RequestPanic(c) PROVE KnownDeaths'
    BY <2>3 DEF RequestPanic, NoRequest, doVars, settings
  <2>4. ASSUME NEW c \in Callers, DumpFatal(c) PROVE KnownDeaths'
    BY <2>4 DEF DumpFatal, doVars, settings
  <2>5. ASSUME NEW c \in Callers, alive,
               \/ Start(c) \/ Connect(c) \/ Fail(c) \/ Respond(c)
               \/ FinishHTTP(c) \/ FinishData(c)
        PROVE  KnownDeaths'
    BY <2>5 DEF Start, Connect, Fail, Respond, FinishHTTP, FinishData, dataVars
  <2>6. ASSUME NEW a \in Adders, alive, UserAdds(a) PROVE KnownDeaths'
    BY <2>6 DEF UserAdds, Extend, AddLock, AddAppend, AddUnlock
  <2>7. CASE Expire \/ UNCHANGED vars
    BY <2>7 DEF Expire, vars, dataVars, doVars, settings
  <2> QED BY <2>1, <2>2, <2>3, <2>4, <2>5, <2>6, <2>7 DEF Next, Attempt
<1> QED BY <1>1, <1>2, AttemptInvHolds, PTL DEF Spec

\* A connection is left unread by a datum drawn, one by each, and by none when
\* responses are dumped (attacker_with_data.go:27, http_attacker_mock.go:31).
THEOREM ConnectionsComeBack == Spec => []ConnectionsReturned
<1>1. AttemptInv => ConnectionsReturned
  <2> SUFFICES ASSUME AttemptInv PROVE ConnectionsReturned
    OBVIOUS
  <2>1. unread \in Nat /\ (dump => unread = 0) /\ LeftByDraws /\ Len(handed) \in Nat
    BY DEF AttemptInv, DataInv, DataTyped, PoolKept
  <2>2. Cardinality(Drawn) \in Nat
    BY <2>1, FS_CardinalityType DEF LeftByDraws
  <2> QED BY <2>1, <2>2 DEF ConnectionsReturned, LeftByDraws
<1> QED BY <1>1, AttemptInvHolds, PTL

\* A failed request that is not reported met the limit of redirects, and left no body
\* to read (http_attacker_mock.go:28-42).
THEOREM FailuresAreReported == Spec => FailuresReported
<1> DEFINE Told(c) == do[c] = "finish" /\ do'[c] = "idle" /\ answer'.failed /\ ~answer'.Error =>
                        /\ resp[c].limit
                        /\ dump \/ resp[c].body = "none"
                        /\ c \notin DataCallers
<1>1. AttemptInv /\ [Next]_vars => [\A c \in Callers : Told(c)]_vars
  <2> SUFFICES ASSUME AttemptInv, Next, NEW c \in Callers, do[c] = "finish", do'[c] = "idle",
                      answer'.failed, ~answer'.Error
               PROVE  /\ resp[c].limit
                      /\ dump \/ resp[c].body = "none"
                      /\ c \notin DataCallers
    OBVIOUS
  <2>1. do \in [Callers -> {"idle", "get", "send", "wait", "finish"}]
    BY DEF AttemptInv, DoTyped
  <2>2. FinishHTTP(c) \/ FinishData(c)
    <3>1. ASSUME NEW d \in Callers, Start(d) \/ Attempt(d), ~(FinishHTTP(c) \/ FinishData(c))
          PROVE  do'[c] # "idle"
      BY <2>1, <3>1 DEF Start, Attempt, Draw, NoTestData, RequestPanic, Connect,
                        Fail, DumpFatal, Respond, FinishHTTP, FinishData, doVars
    <3>2. ASSUME Expire \/ \E a \in Adders : UserAdds(a) PROVE do'[c] # "idle"
      BY <3>2 DEF Expire, UserAdds, doVars
    <3> QED BY <3>1, <3>2 DEF Next
  <2>3. CASE FinishHTTP(c)
    <3>1. PICK error \in CopyError(c) :
            answer' = [failed |-> RequestFailed(resp[c]), Error |-> error]
      BY <2>3 DEF FinishHTTP
    <3>2. ~error /\ RequestFailed(resp[c])
      BY <3>1
    <3>3. resp[c] # Failure /\ ~ClosedBody(resp[c])
      BY <3>1, <3>2 DEF CopyError
    <3>4. resp[c].limit
      BY <3>2, <3>3 DEF RequestFailed
    <3>5. c \notin DataCallers
      BY <2>3 DEF FinishHTTP
    <3> QED BY <3>3, <3>4, <3>5 DEF ClosedBody
  <2>4. CASE FinishData(c)
    BY <2>4 DEF FinishData
  <2> QED BY <2>2, <2>3, <2>4
<1> QED BY <1>1, AttemptInvHolds, PTL DEF Spec, FailuresReported
=============================================================================
