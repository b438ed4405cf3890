------------------------------- MODULE BindLatch ------------------------------
(***************************************************************************)
(* src/bind_latch.rs with the emits that wait on it (publisher.rs): a       *)
(* counter of listeners still starting up.  The spin of wait_for_binds      *)
(* yields while the counter is not zero, which changes nothing, so only its *)
(* last turn is an action.                                                  *)
(***************************************************************************)
EXTENDS Integers, FiniteSets

CONSTANTS Owners,     \* whoever may own a BindGuard: the listeners
          Calls       \* emit calls that may be in flight at once

OwnersFinite == IsFiniteSet(Owners)

VARIABLES counter,    \* BindLatch.counter
          locked,     \* owners of a live BindGuard
          call,       \* per emit call: "idle", "spinning", or "passed" once
                      \* it has left wait_for_binds
          owed        \* history: the guards alive when the call was made
                      \* and not dropped since

vars == <<counter, locked, call, owed>>

Init ==
  /\ counter = 0
  /\ locked = {}
  /\ call = [c \in Calls |-> "idle"]
  /\ owed = [c \in Calls |-> {}]

Lock(o) ==
  /\ o \notin locked
  /\ locked' = locked \cup {o}
  /\ counter' = counter + 1
  /\ UNCHANGED <<call, owed>>

\* Mutant: the drop of a guard takes two off the counter.
UnlockTwice(o) ==
  /\ o \in locked
  /\ locked' = locked \ {o}
  /\ counter' = counter - 2
  /\ owed' = [c \in Calls |-> owed[c] \ {o}]
  /\ UNCHANGED call

Unlock(o) ==
  /\ o \in locked
  /\ locked' = locked \ {o}
  /\ counter' = counter - 1
  /\ owed' = [c \in Calls |-> owed[c] \ {o}]
  /\ UNCHANGED call

Call(c) ==
  /\ call[c] = "idle"
  /\ call' = [call EXCEPT ![c] = "spinning"]
  /\ owed' = [owed EXCEPT ![c] = locked]
  /\ UNCHANGED <<counter, locked>>

\* Mutant: the spin stops as soon as a single guard is left.
OpenEarly == counter <= 1

Open == counter = 0

Pass(c) ==
  /\ call[c] = "spinning" /\ Open
  /\ call' = [call EXCEPT ![c] = "passed"]
  /\ UNCHANGED <<counter, locked, owed>>

Finish(c) ==
  /\ call[c] = "passed"
  /\ call' = [call EXCEPT ![c] = "idle"]
  /\ owed' = [owed EXCEPT ![c] = {}]
  /\ UNCHANGED <<counter, locked>>

(* The future of emit() is dropped at one of its awaits, by a timeout say.  *)
Abandon(c) ==
  /\ call[c] # "idle"
  /\ call' = [call EXCEPT ![c] = "idle"]
  /\ owed' = [owed EXCEPT ![c] = {}]
  /\ UNCHANGED <<counter, locked>>

Next ==
  \/ \E o \in Owners : Lock(o) \/ Unlock(o)
  \/ \E c \in Calls : Call(c) \/ Pass(c) \/ Finish(c) \/ Abandon(c)

Spec == Init /\ [][Next]_vars

-----------------------------------------------------------------------------
TypeOK ==
  /\ counter \in Nat
  /\ locked \subseteq Owners
  /\ call \in [Calls -> {"idle", "spinning", "passed"}]
  /\ owed \in [Calls -> SUBSET Owners]

(* The latch keeps its promise: an emit leaves wait_for_binds only after    *)
(* every guard that was alive when the emit was called has been dropped,    *)
(* whatever was locked and dropped meanwhile (bind_latch.rs:18-28).         *)
PassedOwesNothing == \A c \in Calls : call[c] = "passed" => owed[c] = {}

(* What the proof of PassedOwesNothing rests on: the counter is the number  *)
(* of guards alive (so an AtomicUsize never underflows), and a call is owed *)
(* only guards that are alive (bind_latch.rs:7-11, 19-22).                  *)
LatchInv ==
  /\ counter = Cardinality(locked)
  /\ \A c \in Calls : owed[c] \subseteq locked
===============================================================================
