---------------------------- MODULE WaitGroupProofs ---------------------------
(***************************************************************************)
(* Proofs about WaitGroup, for every set of waiters and every finite set of *)
(* tasks: the counter, the absence of lost wake-ups, and the safety part of *)
(* the refinement of WaitGroupPromise.                                      *)
(***************************************************************************)
EXTENDS WaitGroup, FiniteSetTheorems, TLAPS

IInv == TypeOK /\ CountIsHeld /\ FutureOwned /\ NoLostWakeup

LEMMA HeldFinite == IsFiniteSet(Held) /\ Cardinality(Held) \in Nat
<1>1. IsFiniteSet(Held)
  BY TasksFinite, FS_Subset DEF Held
<1> QED
  BY <1>1, FS_CardinalityType

LEMMA InitInv == Init => IInv
<1> SUFFICES ASSUME Init PROVE IInv
  OBVIOUS
<1>1. Held = {}
  BY DEF Init, Held
<1>2. TypeOK /\ FutureOwned /\ NoLostWakeup
  BY DEF Init, N!Init, TypeOK, N!TypeOK, FutureOwned, NoLostWakeup, Waiting
<1>3. CountIsHeld
  BY <1>1, FS_EmptySet DEF CountIsHeld, Init
<1> QED
  BY <1>2, <1>3 DEF IInv

-----------------------------------------------------------------------------
(* GroupGuard: the counter follows the guards that are held.                *)

LEMMA AddHeld ==
  ASSUME TypeOK, NEW t \in Tasks, Add(t)
  PROVE  t \notin Held /\ Held' = Held \cup {t}
BY DEF TypeOK, Add, Held

LEMMA DropHeld ==
  ASSUME TypeOK, NEW t \in Tasks, DropGuard(t)
  PROVE  t \in Held /\ Held' = Held \ {t}
BY DEF TypeOK, DropGuard, Held

LEMMA AddInv ==
  ASSUME IInv, NEW t \in Tasks, Add(t)
  PROVE  IInv'
<1>1. Cardinality(Held') = Cardinality(Held) + 1
  BY AddHeld, HeldFinite, FS_AddElement DEF IInv
<1>2. TypeOK'
  BY DEF IInv, TypeOK, N!TypeOK, Add
<1>3. CountIsHeld'
  BY <1>1 DEF IInv, CountIsHeld, Add
<1>4. FutureOwned' /\ NoLostWakeup'
  BY DEF IInv, TypeOK, FutureOwned, NoLostWakeup, Add
<1> QED
  BY <1>2, <1>3, <1>4 DEF IInv

LEMMA DropInv ==
  ASSUME IInv, NEW t \in Tasks, DropGuard(t)
  PROVE  IInv'
<1>1. Cardinality(Held') = Cardinality(Held) - 1
  BY DropHeld, HeldFinite, FS_RemoveElement DEF IInv
<1>2. Cardinality(Held') \in Nat
  BY DropHeld, HeldFinite, FS_RemoveElement, FS_CardinalityType DEF IInv
<1>3. CountIsHeld'
  BY <1>1 DEF IInv, CountIsHeld, DropGuard
<1>4. count' \in Nat
  BY <1>2, <1>3 DEF CountIsHeld
<1>5. TypeOK'
  BY <1>4 DEF IInv, TypeOK, N!TypeOK, DropGuard
<1>6. FutureOwned'
  BY DEF IInv, FutureOwned, DropGuard
<1>7. NoLostWakeup'
  <2>1. CASE Last
    BY <2>1 DEF IInv, TypeOK, NoLostWakeup, DropGuard
  <2>2. CASE ~Last
    BY <2>2, <1>4 DEF IInv, TypeOK, NoLostWakeup, DropGuard, Last
  <2> QED
    BY <2>1, <2>2
<1> QED
  BY <1>3, <1>5, <1>6, <1>7 DEF IInv

LEMMA NotifyInv ==
  ASSUME IInv, NEW t \in Tasks, Notify(t)
  PROVE  IInv'
<1>1. Held' = Held
  BY DEF IInv, TypeOK, Notify, Held
<1>2. CountIsHeld'
  BY <1>1 DEF IInv, CountIsHeld, Notify
<1>3. TypeOK'
  BY DEF IInv, TypeOK, N!TypeOK, Notify, N!NotifyWaiters
<1>4. FutureOwned' /\ NoLostWakeup'
  BY DEF IInv, TypeOK, N!TypeOK, FutureOwned, NoLostWakeup, Notify, N!NotifyWaiters
<1> QED
  BY <1>2, <1>3, <1>4 DEF IInv

-----------------------------------------------------------------------------
(* WaitGroup::wait: no step of a waiter touches the counter or a guard.     *)

LEMMA WaiterKeepsCount ==
  ASSUME CountIsHeld, UNCHANGED <<count, guard>>
  PROVE  CountIsHeld'
BY DEF CountIsHeld, Held

LEMMA WaiterInv ==
  ASSUME IInv, NEW w \in Waiters, Wait(w) \/ WaitStep(w) \/ Return(w) \/ Abandon(w)
  PROVE  IInv'
<1> USE DEF IInv, TypeOK, N!TypeOK, FutureOwned, NoLostWakeup, Waiting, At
<1>1. CASE Wait(w)
  BY <1>1, WaiterKeepsCount DEF Wait
<1>2. CASE Load(w)
  BY <1>2, WaiterKeepsCount DEF Load
<1>3. CASE Arm(w)
  BY <1>3, WaiterKeepsCount DEF Arm, N!Notified
<1>4. CASE Reload(w)
  BY <1>4, WaiterKeepsCount DEF Reload, N!Forget
<1>5. CASE Wake(w)
  BY <1>5, WaiterKeepsCount DEF Wake, N!Forget, N!Ready
<1>6. CASE Return(w)
  BY <1>6, WaiterKeepsCount DEF Return
<1>7. CASE Abandon(w)
  BY <1>7, WaiterKeepsCount DEF Abandon, N!Forget
<1> QED
  BY <1>1, <1>2, <1>3, <1>4, <1>5, <1>6, <1>7 DEF WaitStep

LEMMA StepInv == IInv /\ [Next]_vars => IInv'
<1> SUFFICES ASSUME IInv, [Next]_vars PROVE IInv'
  OBVIOUS
<1>1. ASSUME NEW t \in Tasks, Add(t) \/ DropGuard(t) \/ Notify(t) PROVE IInv'
  BY <1>1, AddInv, DropInv, NotifyInv
<1>2. ASSUME NEW w \in Waiters, Wait(w) \/ WaitStep(w) \/ Return(w) \/ Abandon(w) PROVE IInv'
  BY <1>2, WaiterInv
<1>3. CASE UNCHANGED vars
  BY <1>3 DEF IInv, TypeOK, N!TypeOK, CountIsHeld, Held, FutureOwned, NoLostWakeup, vars
<1> QED
  BY <1>1, <1>2, <1>3 DEF Next

LEMMA Invariant == Spec => []IInv
BY InitInv, StepInv, PTL DEF Spec

(* Type correctness of the wait group; the counter never goes below zero    *)
(* (wait_group.rs:42-48).                                                   *)
THEOREM TypeCorrect == Spec => []TypeOK
<1>1. IInv => TypeOK
  BY DEF IInv
<1> QED
  BY <1>1, Invariant, PTL

(* The counter that drain trusts is the number of guards alive              *)
(* (wait_group.rs:18-21, 42-48).                                            *)
THEOREM CountCorrect == Spec => []CountIsHeld
<1>1. IInv => CountIsHeld
  BY DEF IInv
<1> QED
  BY <1>1, Invariant, PTL

(* No caller of wait() sleeps through the last notification                 *)
(* (wait_group.rs:23-48).                                                   *)
THEOREM NoWakeupLost == Spec => []NoLostWakeup
<1>1. IInv => NoLostWakeup
  BY DEF IInv
<1> QED
  BY <1>1, Invariant, PTL
-----------------------------------------------------------------------------
(* The abstract state is Held and the waiters with their four points in the *)
(* loop made one.                                                           *)
AbsWaiter == [w \in Waiters |-> IF waiter[w] \in Waiting THEN "waiting" ELSE waiter[w]]

LEMMA RefinesInit == Init => Promise!Init
BY DEF Init, N!Init, Promise!Init, Held, Waiting

(* A load that ends the loop is the abstract Finish: the counter is zero,   *)
(* so no guard is held at that moment.                                      *)
LEMMA ZeroMeansNoneHeld ==
  ASSUME CountIsHeld, count = 0
  PROVE  Held = {}
BY HeldFinite, FS_EmptySet DEF CountIsHeld

LEMMA GuardRefines ==
  ASSUME IInv, NEW t \in Tasks, Add(t) \/ DropGuard(t) \/ Notify(t)
  PROVE  [Promise!Next]_(Promise!vars)
<1>0. AbsWaiter' = AbsWaiter
  BY DEF AbsWaiter, Add, DropGuard, Notify
<1>1. CASE Add(t)
  <2>1. Promise!Add(t)
    BY <1>0, <1>1, AddHeld DEF IInv, Promise!Add, AbsWaiter
  <2> QED
    BY <2>1 DEF Promise!Next
<1>2. CASE DropGuard(t)
  <2>1. Promise!Drop(t)
    BY <1>0, <1>2, DropHeld DEF IInv, Promise!Drop, AbsWaiter
  <2> QED
    BY <2>1 DEF Promise!Next
<1>3. CASE Notify(t)
  <2>1. Held' = Held
    BY <1>3 DEF IInv, TypeOK, Notify, Held
  <2> QED
    BY <1>0, <2>1 DEF Promise!vars, AbsWaiter
<1> QED
  BY <1>1, <1>2, <1>3

LEMMA WaiterRefines ==
  ASSUME IInv, NEW w \in Waiters, Wait(w) \/ WaitStep(w) \/ Return(w) \/ Abandon(w)
  PROVE  [Promise!Next]_(Promise!vars)
<1>0. UNCHANGED Held
  BY DEF Held, Wait, WaitStep, Load, Arm, Reload, Wake, Return, Abandon
<1>1. CASE Wait(w)
  <2>1. Promise!Wait(w)
    BY <1>0, <1>1 DEF IInv, TypeOK, Wait, At, Waiting, Promise!Wait, Promise!Move
  <2> QED
    BY <2>1 DEF Promise!Next
<1>2. CASE Return(w)
  <2>1. Promise!Return(w)
    BY <1>0, <1>2 DEF IInv, TypeOK, Return, At, Waiting, Promise!Return, Promise!Move
  <2> QED
    BY <2>1 DEF Promise!Next
<1>3. CASE (Load(w) \/ Reload(w)) /\ count = 0
  <2>1. Held = {}
    BY <1>3, ZeroMeansNoneHeld DEF IInv
  <2>2. Promise!Finish(w)
    BY <1>0, <1>3, <2>1
    DEF IInv, TypeOK, Load, Reload, At, Waiting, Promise!Finish, Promise!Move
  <2> QED
    BY <2>2 DEF Promise!Next
<1>4. CASE Arm(w) \/ Wake(w) \/ ((Load(w) \/ Reload(w)) /\ count # 0)
  <2>1. AbsWaiter' = AbsWaiter
    BY <1>4 DEF IInv, TypeOK, Load, Arm, Reload, Wake, At, Waiting, AbsWaiter
  <2> QED
    BY <1>0, <2>1 DEF Promise!vars, AbsWaiter
<1>5. CASE Abandon(w)
  <2>1. Promise!Abandon(w)
    BY <1>0, <1>5 DEF IInv, TypeOK, Abandon, At, Waiting, Promise!Abandon, Promise!Move
  <2> QED
    BY <2>1 DEF Promise!Next
<1> QED
  BY <1>1, <1>2, <1>3, <1>4, <1>5 DEF WaitStep

LEMMA StepRefines == IInv /\ [Next]_vars => [Promise!Next]_(Promise!vars)
<1> SUFFICES ASSUME IInv, [Next]_vars PROVE [Promise!Next]_(Promise!vars)
  OBVIOUS
<1>1. CASE Next
  BY <1>1, GuardRefines, WaiterRefines DEF Next
<1>2. CASE UNCHANGED vars
  BY <1>2 DEF vars, Promise!vars, Held
<1> QED
  BY <1>1, <1>2

(* The wait group implements its promise, fairness aside: every step of the *)
(* code is a step of WaitGroupPromise or changes nothing of it, so a wait   *)
(* returns only at a moment when no guard is held (wait_group.rs:17-48).    *)
THEOREM KeepsPromiseSafely == Spec => Promise!Init /\ [][Promise!Next]_(Promise!vars)
BY Invariant, RefinesInit, StepRefines, PTL DEF Spec
===============================================================================
