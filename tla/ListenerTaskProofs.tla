-------------------------- MODULE ListenerTaskProofs --------------------------
(***************************************************************************)
(* Proofs about ListenerTask, for any listeners, tokens shared in any way,  *)
(* limits, and listeners that may panic or be aborted.                      *)
(***************************************************************************)
EXTENDS ListenerTask, TLAPS

IInv == TypeOK /\ AtMostTimes /\ AtMostOneLate /\ SelectsInTime

LEMMA InitInv == Init => IInv
BY ListenerConstants
   DEF Init, IInv, TypeOK, AtMostTimes, AtMostOneLate, SelectsInTime, Cancelled

-----------------------------------------------------------------------------
(* Steps that move the program counter only.                                *)

(* Launcher::launch and begin(): nothing has been handed over yet that the  *)
(* next point forbids.                                                      *)
LEMMA StartInv ==
  ASSUME IInv, NEW l \in Listeners,
         Spawn(l) \/ Subscribe(l) \/ DropLauncher(l) \/ Begin(l)
  PROVE  IInv'
BY DEF IInv, TypeOK, AtMostTimes, AtMostOneLate, SelectsInTime, Cancelled,
       Spawn, Subscribe, DropLauncher, Begin, Goto, At

(* The head of the loop: select! is entered only if the token is not        *)
(* cancelled, hence with nothing late and the limit not reached.            *)
LEMMA CheckInv ==
  ASSUME IInv, NEW l \in Listeners, CheckCancel(l)
  PROVE  IInv'
<1>1. CASE Cancelled(l)
  BY <1>1 DEF IInv, TypeOK, AtMostTimes, AtMostOneLate, SelectsInTime, Cancelled,
              CheckCancel, Goto, At
<1>2. CASE ~Cancelled(l)
  <2>1. late[l] = 0 /\ (Times[l] # 0 => count[l] < Times[l])
    BY <1>2 DEF IInv, SelectsInTime, CheckCancel, Goto, At
  <2> QED
    BY <1>2, <2>1 DEF IInv, TypeOK, AtMostTimes, AtMostOneLate, SelectsInTime, Cancelled,
                      CheckCancel, Goto, At
<1> QED
  BY <1>1, <1>2

LEMMA LeaveInv ==
  ASSUME IInv, NEW l \in Listeners,
         StreamEnd(l) \/ SelectCancelled(l) \/ Exit(l) \/ DropListener(l)
           \/ Panic(l) \/ Abort(l)
  PROVE  IInv'
<1>1. \E from \in {"starting", "begin", "select", "handle", "after", "exiting", "ended"},
         to \in {"after", "exiting", "ended", "dropped"} : Goto(l, from, to)
  BY DEF StreamEnd, SelectCancelled, Exit, DropListener, Panic, Abort, Hooks
<1>2. PICK from \in {"starting", "begin", "select", "handle", "after", "exiting", "ended"},
           to \in {"after", "exiting", "ended", "dropped"} : Goto(l, from, to)
  BY <1>1
<1> QED
  BY <1>2 DEF IInv, TypeOK, AtMostTimes, AtMostOneLate, SelectsInTime, Cancelled, Goto, At

-----------------------------------------------------------------------------
(* Steps that hand over an event, run after(), or cancel a token.           *)

LEMMA TakeInv ==
  ASSUME IInv, NEW l \in Listeners, TakeEvent(l)
  PROVE  IInv'
<1>1. late[l] = 0 /\ (Times[l] # 0 => count[l] < Times[l])
  BY DEF IInv, TypeOK, SelectsInTime, TakeEvent, At
<1>2. TypeOK'
  BY DEF IInv, TypeOK, TakeEvent, At
<1>3. AtMostTimes'
  <2>1. SUFFICES ASSUME NEW m \in Listeners, Times[m] # 0
                 PROVE  count'[m] <= Times[m]
    BY DEF AtMostTimes
  <2>2. count[l] \in Nat /\ Times[l] \in Nat
    BY ListenerConstants DEF IInv, TypeOK
  <2>3. CASE m = l
    BY <1>1, <2>1, <2>2, <2>3 DEF IInv, TypeOK, TakeEvent
  <2>4. CASE m # l
    BY <2>1, <2>4 DEF IInv, TypeOK, AtMostTimes, TakeEvent
  <2> QED
    BY <2>3, <2>4
<1>4. AtMostOneLate'
  BY <1>1 DEF IInv, TypeOK, AtMostOneLate, TakeEvent, At
<1>5. SelectsInTime'
  BY <1>1 DEF IInv, TypeOK, SelectsInTime, Cancelled, TakeEvent, At
<1> QED
  BY <1>2, <1>3, <1>4, <1>5 DEF IInv

(* After its last event many(n) has cancelled the token, so that the loop   *)
(* is left.                                                                 *)
LEMMA HandleInv ==
  ASSUME IInv, NEW l \in Listeners, HandleDone(l)
  PROVE  IInv'
<1>1. cancelled \subseteq cancelled' /\ cancelled' \subseteq Tokens
  BY ListenerConstants DEF IInv, TypeOK, HandleDone
<1>2. Times[l] # 0 => count[l] < Times[l] \/ Cancelled(l)'
  BY ListenerConstants DEF IInv, TypeOK, HandleDone, TimesReached, Cancelled
<1>3. TypeOK'
  BY <1>1 DEF IInv, TypeOK, HandleDone, At
<1>4. AtMostTimes' /\ AtMostOneLate'
  BY DEF IInv, AtMostTimes, AtMostOneLate, HandleDone
<1>5. SelectsInTime'
  BY <1>1, <1>2 DEF IInv, TypeOK, SelectsInTime, Cancelled, HandleDone, At
<1> QED
  BY <1>3, <1>4, <1>5 DEF IInv

LEMMA AfterInv ==
  ASSUME IInv, NEW l \in Listeners, AfterDone(l)
  PROVE  IInv'
BY DEF IInv, TypeOK, AtMostTimes, AtMostOneLate, SelectsInTime, Cancelled, AfterDone, At

LEMMA CancelInv ==
  ASSUME IInv, NEW k \in Tokens, Cancel(k)
  PROVE  IInv'
BY DEF IInv, TypeOK, AtMostTimes, AtMostOneLate, SelectsInTime, Cancelled, Cancel

-----------------------------------------------------------------------------
LEMMA StepInv == IInv /\ [Next]_vars => IInv'
<1> SUFFICES ASSUME IInv, [Next]_vars PROVE IInv'
  OBVIOUS
<1>1. ASSUME NEW l \in Listeners, Spawn(l) \/ TaskStep(l) \/ Panic(l) \/ Abort(l)
      PROVE  IInv'
  BY <1>1, StartInv, CheckInv, LeaveInv, HandleInv, AfterInv DEF TaskStep
<1>2. ASSUME NEW l \in Listeners, TakeEvent(l) \/ StreamEnd(l) PROVE IInv'
  BY <1>2, TakeInv, LeaveInv
<1>3. ASSUME NEW k \in Tokens, Cancel(k) PROVE IInv'
  BY <1>3, CancelInv
<1>4. CASE UNCHANGED vars
  BY <1>4 DEF IInv, TypeOK, AtMostTimes, AtMostOneLate, SelectsInTime, Cancelled, vars
<1> QED
  BY <1>1, <1>2, <1>3, <1>4 DEF Next

LEMMA Invariant == Spec => []IInv
BY InitInv, StepInv, PTL DEF Spec

(* Type correctness of the listeners' tasks.                                *)
THEOREM TypeCorrect == Spec => []TypeOK
<1>1. IInv => TypeOK
  BY DEF IInv
<1> QED
  BY <1>1, Invariant, PTL

(* A task waits in select! only while its limit is not reached and nothing  *)
(* came late (listener/mod.rs:65-78, with_times.rs:39-45).                  *)
THEOREM AlwaysSelectsInTime == Spec => []SelectsInTime
<1>1. IInv => SelectsInTime
  BY DEF IInv
<1> QED
  BY <1>1, Invariant, PTL

(* once() and many(n) hand over at most n events, whoever else cancels or   *)
(* shares the token (with_times.rs:39-45, listener/mod.rs:65-78).           *)
THEOREM LimitKept == Spec => []AtMostTimes
<1>1. IInv => AtMostTimes
  BY DEF IInv
<1> QED
  BY <1>1, Invariant, PTL

(* At most one event is handed over once the token is cancelled             *)
(* (listener/mod.rs:65-78).                                                 *)
THEOREM OneLateEvent == Spec => []AtMostOneLate
<1>1. IInv => AtMostOneLate
  BY DEF IInv
<1> QED
  BY <1>1, Invariant, PTL
===============================================================================
