----------------------------- MODULE SharedData -----------------------------
(***************************************************************************)
(* SharedDataSlice of shared.go: the test data all attackers of a run draw *)
(* from, and that the user may extend meanwhile.  A call is a sequence of  *)
(* steps, between which other goroutines run; the mutex is all that keeps  *)
(* them apart.  Attackers whose request timed out call Get again while     *)
(* their last Do still runs, so there may be more callers than attackers.  *)
(***************************************************************************)
EXTENDS Naturals, Sequences

CONSTANTS
  Callers,       \* goroutines that call Get
  Adders,        \* goroutines that call Add
  NoOne,
  Datums,        \* test data
  Added,         \* those the user may add later
  InitialData    \* arguments of NewSharedDataSlice

ASSUME SharedDataAssumption ==
  /\ Callers \cap Adders = {}
  /\ NoOne \notin Callers \cup Adders
  /\ InitialData \subseteq Seq(Datums)
  /\ Added \subseteq Datums

VARIABLES
  Data, Index,
  mutex,    \* who holds the lock
  at,       \* where each goroutine is in its call, "out" between calls
  handed,   \* history: the data handed out, each with how many there were
  alive     \* the process has not died

dataVars == <<Data, Index, mutex, at, handed, alive>>

Goroutines == Callers \cup Adders

DataInit ==
  /\ Data \in InitialData
  /\ Index = 0
  /\ mutex = NoOne
  /\ at = [g \in Goroutines |-> "out"]
  /\ handed = <<>>
  /\ alive = TRUE

Lock(g) ==
  /\ at[g] = "out"
  /\ mutex = NoOne
  /\ mutex' = g

Unlock(g) == mutex' = NoOne

\* Mutant of GetLock: the call goes ahead without the lock.
GetUnguarded(c) ==
  /\ at[c] = "out"
  /\ at' = [at EXCEPT ![c] = "wrap"]
  /\ UNCHANGED <<Data, Index, mutex, handed, alive>>

GetLock(c) ==
  /\ Lock(c)
  /\ at' = [at EXCEPT ![c] = "wrap"]
  /\ UNCHANGED <<Data, Index, handed, alive>>

\* Mutant of Wrapped: the last datum is skipped.
WrappedEarly == IF Index + 1 > Len(Data) - 1 THEN 0 ELSE Index

\* Mutant of Wrapped: the index may point behind the last datum.
WrappedLate == IF Index > Len(Data) THEN 0 ELSE Index

\* Index > len(Data)-1, where Index counts from 0.
Wrapped == IF Index >= Len(Data) THEN 0 ELSE Index

GetWrap(c) ==
  /\ at[c] = "wrap"
  /\ Index' = Wrapped
  /\ at' = [at EXCEPT ![c] = "read"]
  /\ UNCHANGED <<Data, mutex, handed, alive>>

GetRead(c) ==
  /\ at[c] = "read"
  /\ Index < Len(Data)
  /\ handed' = Append(handed, [datum |-> Data[Index + 1], of |-> Len(Data)])
  /\ Index' = Index + 1
  /\ at' = [at EXCEPT ![c] = "unlock"]
  /\ UNCHANGED <<Data, mutex, alive>>

\* Indexing an empty slice panics, and nothing recovers from it.
GetPanic(c) ==
  /\ at[c] = "read"
  /\ Index >= Len(Data)
  /\ alive' = FALSE
  /\ UNCHANGED <<Data, Index, mutex, at, handed>>

\* Mutant of GetUnlock: the call returns with the lock.
GetKeepsLock(c) ==
  /\ at[c] = "unlock"
  /\ at' = [at EXCEPT ![c] = "out"]
  /\ UNCHANGED <<Data, Index, mutex, handed, alive>>

GetUnlock(c) ==
  /\ at[c] = "unlock"
  /\ Unlock(c)
  /\ at' = [at EXCEPT ![c] = "out"]
  /\ UNCHANGED <<Data, Index, handed, alive>>

AddLock(a) ==
  /\ Lock(a)
  /\ at' = [at EXCEPT ![a] = "append"]
  /\ UNCHANGED <<Data, Index, handed, alive>>

AddAppend(a, d) ==
  /\ at[a] = "append"
  /\ Data' = Append(Data, d)
  /\ at' = [at EXCEPT ![a] = "unlock"]
  /\ UNCHANGED <<Index, mutex, handed, alive>>

AddUnlock(a) ==
  /\ at[a] = "unlock"
  /\ Unlock(a)
  /\ at' = [at EXCEPT ![a] = "out"]
  /\ UNCHANGED <<Data, Index, handed, alive>>

Get(c) == GetLock(c) \/ GetWrap(c) \/ GetRead(c) \/ GetPanic(c) \/ GetUnlock(c)
Extend(a) == AddLock(a) \/ (\E d \in Added : AddAppend(a, d)) \/ AddUnlock(a)

\* Something else ends the process.
Die ==
  /\ alive' = FALSE
  /\ UNCHANGED <<Data, Index, mutex, at, handed>>

DataNext ==
  /\ alive
  /\ (\E c \in Callers : Get(c)) \/ (\E a \in Adders : Extend(a)) \/ Die

DataSpec == DataInit /\ [][DataNext]_dataVars

-----------------------------------------------------------------------------
(* Properties *)

\* The calls are atomic and hand the data out round and round (shared.go:23-38).
\* Between the wrap of the index and the read of the datum the round is over and
\* the next one not begun.
RingView == INSTANCE Ring WITH
  Datums <- Added,
  data <- Data,
  next <- IF Index = 0 /\ handed # <<>> THEN Len(Data) ELSE Index

RoundRobin == RingView!Spec
=============================================================================
