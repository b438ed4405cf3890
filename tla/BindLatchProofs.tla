---------------------------- MODULE BindLatchProofs ---------------------------
(***************************************************************************)
(* Proofs about BindLatch, for every set of calls and every finite set of   *)
(* listeners.                                                               *)
(***************************************************************************)
EXTENDS BindLatch, FiniteSetTheorems, TLAPS

IInv == OwnersFinite /\ TypeOK /\ LatchInv /\ PassedOwesNothing

(* The guards alive are finitely many, hence counted by a natural number.   *)
LEMMA LockedFinite ==
  ASSUME OwnersFinite, TypeOK
  PROVE  IsFiniteSet(locked) /\ Cardinality(locked) \in Nat
<1>1. IsFiniteSet(locked)
  BY FS_Subset DEF OwnersFinite, TypeOK
<1> QED
  BY <1>1, FS_CardinalityType

LEMMA InitInv ==
  ASSUME OwnersFinite
  PROVE  Init => IInv
BY FS_EmptySet DEF Init, IInv, TypeOK, LatchInv, PassedOwesNothing

(* Taking and dropping guards: the counter follows the guards alive.        *)
LEMMA LockInv ==
  ASSUME IInv, NEW o \in Owners, Lock(o)
  PROVE  IInv'
<1>1. Cardinality(locked \cup {o}) = Cardinality(locked) + 1
  BY LockedFinite, FS_AddElement DEF IInv, Lock
<1>2. TypeOK'
  BY DEF IInv, TypeOK, Lock
<1>3. LatchInv'
  BY <1>1 DEF IInv, TypeOK, LatchInv, Lock
<1> QED
  BY <1>2, <1>3 DEF IInv, OwnersFinite, PassedOwesNothing, Lock

LEMMA UnlockInv ==
  ASSUME IInv, NEW o \in Owners, Unlock(o)
  PROVE  IInv'
<1>1. /\ Cardinality(locked \ {o}) = Cardinality(locked) - 1
      /\ Cardinality(locked \ {o}) \in Nat
  <2>1. IsFiniteSet(locked \ {o})
    BY LockedFinite, FS_RemoveElement DEF IInv
  <2>2. Cardinality(locked \ {o}) = Cardinality(locked) - 1
    BY LockedFinite, FS_RemoveElement DEF IInv, Unlock
  <2> QED
    BY <2>1, <2>2, FS_CardinalityType
<1>2. TypeOK'
  BY <1>1 DEF IInv, TypeOK, LatchInv, Unlock
<1>3. LatchInv'
  BY <1>1 DEF IInv, TypeOK, LatchInv, Unlock
<1>4. PassedOwesNothing'
  BY DEF IInv, TypeOK, PassedOwesNothing, Unlock
<1> QED
  BY <1>2, <1>3, <1>4 DEF IInv

(* A call passes when the counter is zero: no guard is alive, so none it    *)
(* was owed is.                                                             *)
LEMMA PassInv ==
  ASSUME IInv, NEW c \in Calls, Pass(c)
  PROVE  IInv'
<1>1. locked = {}
  BY LockedFinite, FS_EmptySet DEF IInv, LatchInv, Pass, Open
<1>2. owed[c] = {}
  BY <1>1 DEF IInv, LatchInv
<1>3. PassedOwesNothing'
  BY <1>2 DEF IInv, TypeOK, PassedOwesNothing, Pass
<1> QED
  BY <1>3 DEF IInv, TypeOK, LatchInv, Pass

LEMMA StepInv == IInv /\ [Next]_vars => IInv'
<1> SUFFICES ASSUME IInv, [Next]_vars PROVE IInv'
  OBVIOUS
<1>1. ASSUME NEW o \in Owners, Lock(o) PROVE IInv'
  BY <1>1, LockInv
<1>2. ASSUME NEW o \in Owners, Unlock(o) PROVE IInv'
  BY <1>2, UnlockInv
<1>3. ASSUME NEW c \in Calls, Call(c) PROVE IInv'
  BY <1>3 DEF IInv, TypeOK, LatchInv, PassedOwesNothing, Call
<1>4. ASSUME NEW c \in Calls, Pass(c) PROVE IInv'
  BY <1>4, PassInv
<1>5. ASSUME NEW c \in Calls, Finish(c) PROVE IInv'
  BY <1>5 DEF IInv, TypeOK, LatchInv, PassedOwesNothing, Finish
<1>6. ASSUME NEW c \in Calls, Abandon(c) PROVE IInv'
  BY <1>6 DEF IInv, TypeOK, LatchInv, PassedOwesNothing, Abandon
<1>7. CASE UNCHANGED vars
  BY <1>7 DEF IInv, TypeOK, LatchInv, PassedOwesNothing, vars
<1> QED
  BY <1>1, <1>2, <1>3, <1>4, <1>5, <1>6, <1>7 DEF Next

(* Type correctness; in particular the AtomicUsize counter never goes below *)
(* zero (bind_latch.rs:7-11).                                               *)
THEOREM TypeCorrect ==
  ASSUME OwnersFinite
  PROVE  Spec => []TypeOK
<1>1. IInv => TypeOK
  BY DEF IInv
<1> QED
  BY <1>1, InitInv, StepInv, PTL DEF Spec

(* The counter is exactly the number of guards alive, whatever the          *)
(* interleaving of lock() and Drop (bind_latch.rs:7-11, 19-22).             *)
THEOREM CounterCountsGuards ==
  ASSUME OwnersFinite
  PROVE  Spec => []LatchInv
<1>1. IInv => LatchInv
  BY DEF IInv
<1> QED
  BY <1>1, InitInv, StepInv, PTL DEF Spec

(* The latch keeps its promise to every emit (bind_latch.rs:18-28).         *)
THEOREM LatchKeepsPromise ==
  ASSUME OwnersFinite
  PROVE  Spec => []PassedOwesNothing
<1>1. IInv => PassedOwesNothing
  BY DEF IInv
<1> QED
  BY <1>1, InitInv, StepInv, PTL DEF Spec
===============================================================================
