------------------------------ MODULE WaitGroup ------------------------------
(***************************************************************************)
(* src/wait_group.rs: the counter of live GroupGuards, the drop of a guard  *)
(* and the loop of `wait`, one action per access to shared memory.          *)
(***************************************************************************)
EXTENDS Integers, FiniteSets

CONSTANTS Tasks,      \* whoever may own a GroupGuard
          Waiters     \* callers of wait()

ASSUME TasksFinite == IsFiniteSet(Tasks)

VARIABLES count,      \* Inner.count
          guard,      \* per task: "none", "held", or "notifying" while its
                      \* Drop stands between fetch_sub and notify_waiters
          waiter,     \* the point each caller of wait() has reached
          future      \* Inner.notify: the Notified future of each caller

vars == <<count, guard, waiter, future>>

N == INSTANCE Notify

Init ==
  /\ count = 0
  /\ guard = [t \in Tasks |-> "none"]
  /\ waiter = [w \in Waiters |-> "idle"]
  /\ N!Init

At(w, from, to) ==
  /\ waiter[w] = from
  /\ waiter' = [waiter EXCEPT ![w] = to]

-----------------------------------------------------------------------------
(* GroupGuard *)

Add(t) ==
  /\ guard[t] = "none"
  /\ guard' = [guard EXCEPT ![t] = "held"]
  /\ count' = count + 1
  /\ UNCHANGED <<waiter, future>>

\* fetch_sub returns the value before the subtraction.
Last == count = 1

\* Mutant: fetch_sub(2).
DropTwice(t) ==
  /\ guard[t] = "held"
  /\ guard' = [guard EXCEPT ![t] = IF Last THEN "notifying" ELSE "none"]
  /\ count' = count - 2
  /\ UNCHANGED <<waiter, future>>

DropGuard(t) ==
  /\ guard[t] = "held"
  /\ guard' = [guard EXCEPT ![t] = IF Last THEN "notifying" ELSE "none"]
  /\ count' = count - 1
  /\ UNCHANGED <<waiter, future>>

Notify(t) ==
  /\ guard[t] = "notifying"
  /\ guard' = [guard EXCEPT ![t] = "none"]
  /\ N!NotifyWaiters
  /\ UNCHANGED <<count, waiter>>

-----------------------------------------------------------------------------
(* WaitGroup::wait *)

Wait(w) ==
  /\ At(w, "idle", "load")
  /\ UNCHANGED <<count, guard, future>>

Load(w) ==
  /\ At(w, "load", IF count = 0 THEN "done" ELSE "arm")
  /\ UNCHANGED <<count, guard, future>>

Arm(w) ==
  /\ At(w, "arm", "reload")
  /\ N!Notified(w)
  /\ UNCHANGED <<count, guard>>

\* Mutant: the counter is not read again once the future exists.
ReloadSkipped(w) ==
  /\ At(w, "reload", "park")
  /\ UNCHANGED <<count, guard, future>>

Reload(w) ==
  /\ At(w, "reload", IF count = 0 THEN "done" ELSE "park")
  /\ IF count = 0 THEN N!Forget(w) ELSE UNCHANGED future
  /\ UNCHANGED <<count, guard>>

\* Mutant: wait returns on a notification without reading the counter again.
WakeReturns(w) ==
  /\ At(w, "park", "done")
  /\ N!Ready(w)
  /\ N!Forget(w)
  /\ UNCHANGED <<count, guard>>

Wake(w) ==
  /\ At(w, "park", "load")
  /\ N!Ready(w)
  /\ N!Forget(w)
  /\ UNCHANGED <<count, guard>>

Return(w) ==
  /\ At(w, "done", "idle")
  /\ UNCHANGED <<count, guard, future>>

(* The future of wait() is dropped; it can be only where it awaits.         *)
Abandon(w) ==
  /\ At(w, "park", "idle")
  /\ N!Forget(w)
  /\ UNCHANGED <<count, guard>>

-----------------------------------------------------------------------------
WaitStep(w) == Load(w) \/ Arm(w) \/ Reload(w) \/ Wake(w)

Next ==
  \/ \E t \in Tasks : Add(t) \/ DropGuard(t) \/ Notify(t)
  \/ \E w \in Waiters : Wait(w) \/ WaitStep(w) \/ Return(w) \/ Abandon(w)

(* A guard's Drop runs to its end, and the executor polls every task that   *)
(* was woken.  Nobody has to create or drop a guard, or to call wait.       *)
Fairness ==
  /\ \A t \in Tasks : WF_vars(Notify(t))
  /\ \A w \in Waiters : WF_vars(WaitStep(w))

Spec == Init /\ [][Next]_vars /\ Fairness

-----------------------------------------------------------------------------
Waiting == {"load", "arm", "reload", "park"}

Held == {t \in Tasks : guard[t] = "held"}

TypeOK ==
  /\ count \in Nat
  /\ guard \in [Tasks -> {"none", "held", "notifying"}]
  /\ waiter \in [Waiters -> Waiting \cup {"idle", "done"}]
  /\ N!TypeOK

(* The counter that drain trusts is the number of guards alive, whatever    *)
(* the interleaving of add() and Drop (wait_group.rs:18-21, 42-48).         *)
CountIsHeld == count = Cardinality(Held)

(* No lost wake-up: a caller parked on a future that has not fired is owed  *)
(* a notification, by a guard still alive or by a Drop that has brought the *)
(* counter to zero and not yet called notify_waiters (wait_group.rs:23-48). *)
NoLostWakeup ==
  \A w \in Waiters :
    waiter[w] = "park" /\ future[w] # "fired" =>
      count # 0 \/ \E t \in Tasks : guard[t] = "notifying"

(* A caller owns a Notified future exactly between the two loads of wait()  *)
(* and its wake-up; with it NoLostWakeup is inductive (wait_group.rs:29-35). *)
FutureOwned ==
  \A w \in Waiters : (future[w] # "none") <=> (waiter[w] \in {"reload", "park"})

(* wait() is linearizable: it returns only at a moment when no guard is     *)
(* alive, and always returns once there is none left (wait_group.rs:23-37). *)
Promise == INSTANCE WaitGroupPromise WITH
  held   <- Held,
  waiter <- [w \in Waiters |-> IF waiter[w] \in Waiting THEN "waiting" ELSE waiter[w]]

KeepsPromise == Promise!Spec
===============================================================================
