------------------------------ MODULE EvnoProofs ------------------------------
(***************************************************************************)
(* Zero-loss startup and what a drain waits for, for every number of        *)
(* listeners, calls, clones and event types: no emit publishes before the   *)
(* listeners bound by then have subscribed, and no drain returns before the *)
(* listeners bound by then are over.                                        *)
(***************************************************************************)
EXTENDS Evno, FiniteSetTheorems, TLAPS

Points == {"unbound", "starting", "subscribed", "begin", "loop", "select",
           "handle", "after", "exiting", "ended", "dropped"}

-----------------------------------------------------------------------------
(* Zero-loss startup *)

\* The state the argument is about.
startVars == <<latch, locked, call, owed, pc, before>>

\* Where the Launcher, with its BindGuard, is alive.
Launching == {"starting", "subscribed"}

\* Where a task is once its Launcher is gone.
Launched == Points \ ({"unbound"} \cup Launching)

StartTypes ==
  /\ latch \in Nat
  /\ locked \subseteq Listeners
  /\ call \in [Calls -> {"idle", "spinning", "passed"}]
  /\ owed \in [Calls -> SUBSET Listeners]
  /\ pc \in [Listeners -> Points]
  /\ before \in [Calls -> SUBSET Listeners]

\* The counter is the number of guards alive, and only those are owed.
GuardsCounted ==
  /\ latch = Cardinality(locked)
  /\ \A c \in Calls : owed[c] \subseteq locked
  /\ \A c \in Calls : call[c] = "passed" => owed[c] = {}

\* A Launcher holds its guard until the task has subscribed, and is dropped.
GuardsLaunch == \A l \in Listeners : l \in locked <=> pc[l] \in Launching

\* A listener that a call found starting is bound; while it is still
\* starting, the call is owed its guard.
StartingIsOwed ==
  \A c \in Calls : \A l \in before[c] :
    /\ pc[l] # "unbound"
    /\ pc[l] = "starting" => l \in owed[c]

StartInv == StartTypes /\ GuardsCounted /\ GuardsLaunch /\ StartingIsOwed

LEMMA StartInvInit == Init => StartInv
<1> SUFFICES ASSUME Init PROVE StartInv
  OBVIOUS
<1>1. /\ latch = 0 /\ locked = {} /\ call = [c \in Calls |-> "idle"]
      /\ owed = [c \in Calls |-> {}] /\ pc = [l \in Listeners |-> "unbound"]
      /\ before = [c \in Calls |-> {}]
  BY DEF Init, Latch!Init, Task!Init
<1>2. StartTypes /\ GuardsLaunch /\ StartingIsOwed
  BY <1>1 DEF StartTypes, Points, Launching, GuardsLaunch, StartingIsOwed
<1>3. GuardsCounted
  BY <1>1, FS_EmptySet DEF GuardsCounted
<1> QED
  BY <1>2, <1>3 DEF StartInv

LEMMA LockedFinite ==
  ASSUME StartTypes
  PROVE  IsFiniteSet(locked) /\ Cardinality(locked) \in Nat
<1>1. IsFiniteSet(locked)
  BY EvnoConstants, FS_Subset DEF StartTypes
<1> QED
  BY <1>1, FS_CardinalityType

LEMMA FrameInv ==
  ASSUME StartInv, UNCHANGED startVars
  PROVE  StartInv'
BY DEF startVars, StartInv, StartTypes, GuardsCounted, GuardsLaunch, StartingIsOwed

-----------------------------------------------------------------------------
(* Emits *)

LEMMA EmitCallInv ==
  ASSUME StartInv, NEW c \in Calls, EmitCall(c)
  PROVE  StartInv'
<1>1. /\ call[c] = "idle" /\ call' = [call EXCEPT ![c] = "spinning"]
      /\ owed' = [owed EXCEPT ![c] = locked]
      /\ before' = [before EXCEPT ![c] = Starting]
      /\ UNCHANGED <<latch, locked, pc>>
  BY DEF EmitCall, Latch!Call, taskVars
<1>2. Starting \subseteq locked
  BY DEF StartInv, GuardsLaunch, Launching, Starting
<1>3. StartTypes'
  BY <1>1 DEF StartInv, StartTypes, Starting
<1>4. GuardsCounted'
  BY <1>1 DEF StartInv, StartTypes, GuardsCounted
<1>5. GuardsLaunch'
  BY <1>1 DEF StartInv, GuardsLaunch
<1>6. StartingIsOwed'
  BY <1>1, <1>2 DEF StartInv, StartTypes, StartingIsOwed, Starting
<1> QED
  BY <1>3, <1>4, <1>5, <1>6 DEF StartInv

(* The counter is zero, so no guard is alive, and the call is owed none.    *)
LEMMA EmitPassInv ==
  ASSUME StartInv, NEW c \in Calls, EmitPass(c)
  PROVE  StartInv'
<1>1. /\ latch = 0 /\ call' = [call EXCEPT ![c] = "passed"]
      /\ UNCHANGED <<latch, locked, owed, pc, before>>
  BY DEF EmitPass, Latch!Pass, Latch!Open, taskVars, ownVars
<1>2. locked = {}
  BY <1>1, LockedFinite, FS_EmptySet DEF StartInv, GuardsCounted
<1>3. owed[c] = {}
  BY <1>2 DEF StartInv, GuardsCounted
<1> QED
  BY <1>1, <1>3
    DEF StartInv, StartTypes, GuardsCounted, GuardsLaunch, StartingIsOwed

LEMMA EmitEndInv ==
  ASSUME StartInv, NEW c \in Calls, Publish(c) \/ EmitAbandon(c)
  PROVE  StartInv'
<1>1. /\ call' = [call EXCEPT ![c] = "idle"] /\ owed' = [owed EXCEPT ![c] = {}]
      /\ before' = [before EXCEPT ![c] = {}] /\ UNCHANGED <<latch, locked, pc>>
  BY DEF Publish, EmitAbandon, Latch!Finish, Latch!Abandon, taskVars
<1> QED
  BY <1>1 DEF StartInv, StartTypes, GuardsCounted, GuardsLaunch, StartingIsOwed

-----------------------------------------------------------------------------
(* Tasks *)

(* A new listener is in no call's way: none has found it starting.          *)
LEMMA BindInv ==
  ASSUME StartInv, NEW s \in Buses, NEW l \in Listeners, Bind(s, l)
  PROVE  StartInv'
<1>1. /\ l \notin locked /\ locked' = locked \cup {l} /\ latch' = latch + 1
      /\ pc[l] = "unbound" /\ pc' = [pc EXCEPT ![l] = "starting"]
      /\ UNCHANGED <<call, owed, before>>
  BY DEF Bind, Latch!Lock, Task!Spawn, Task!Goto, Task!At, ownVars
<1>2. Cardinality(locked') = Cardinality(locked) + 1
  BY <1>1, LockedFinite, FS_AddElement DEF StartInv
<1>3. StartTypes'
  BY <1>1 DEF StartInv, StartTypes, Points
<1>4. GuardsCounted'
  BY <1>1, <1>2 DEF StartInv, GuardsCounted
<1>5. GuardsLaunch'
  BY <1>1 DEF StartInv, StartTypes, GuardsLaunch, Launching
<1>6. StartingIsOwed'
  BY <1>1 DEF StartInv, StartTypes, StartingIsOwed
<1> QED
  BY <1>3, <1>4, <1>5, <1>6 DEF StartInv

LEMMA SubscribeInv ==
  ASSUME StartInv, NEW l \in Listeners, Subscribe(l)
  PROVE  StartInv'
<1>1. /\ pc[l] = "starting" /\ pc' = [pc EXCEPT ![l] = "subscribed"]
      /\ UNCHANGED <<latch, locked, call, owed, before>>
  BY DEF Subscribe, Task!Subscribe, Task!Goto, Task!At, latchVars, ownVars
<1> QED
  BY <1>1 DEF StartInv, StartTypes, Points, GuardsCounted, GuardsLaunch, Launching,
    StartingIsOwed

(* The Launcher goes: its guard is owed to nobody any more.                 *)
LEMMA UnlockInv ==
  ASSUME StartInv, NEW l \in Listeners, Latch!Unlock(l), NEW to \in Launched,
         pc' = [pc EXCEPT ![l] = to], UNCHANGED before
  PROVE  StartInv'
<1>1. /\ l \in locked /\ locked' = locked \ {l} /\ latch' = latch - 1
      /\ owed' = [c \in Calls |-> owed[c] \ {l}] /\ UNCHANGED call
  BY DEF Latch!Unlock
<1>2. /\ Cardinality(locked') = Cardinality(locked) - 1
      /\ Cardinality(locked') \in Nat
  <2>1. IsFiniteSet(locked \ {l}) /\ Cardinality(locked \ {l}) = Cardinality(locked) - 1
    BY <1>1, LockedFinite, FS_RemoveElement DEF StartInv
  <2> QED
    BY <1>1, <2>1, FS_CardinalityType
<1>3. to \in Points /\ to \notin Launching /\ to # "unbound" /\ to # "starting"
  BY DEF Launched, Launching
<1>4. StartTypes'
  <2>1. latch' \in Nat
    BY <1>1, <1>2 DEF StartInv, GuardsCounted
  <2>2. pc' \in [Listeners -> Points]
    BY <1>3 DEF StartInv, StartTypes
  <2> QED
    BY <1>1, <2>1, <2>2 DEF StartInv, StartTypes
<1>5. GuardsCounted'
  BY <1>1, <1>2 DEF StartInv, StartTypes, GuardsCounted
<1>6. GuardsLaunch'
  BY <1>1, <1>3 DEF StartInv, StartTypes, GuardsLaunch
<1>7. StartingIsOwed'
  BY <1>1, <1>3 DEF StartInv, StartTypes, StartingIsOwed
<1> QED
  BY <1>4, <1>5, <1>6, <1>7 DEF StartInv

(* Past its launch, a task touches neither the latch nor the calls.         *)
LEMMA LaunchedInv ==
  ASSUME StartInv, NEW l \in Listeners, pc[l] \in Launched, NEW to \in Launched,
         pc' = [pc EXCEPT ![l] = to], UNCHANGED <<latchVars, before>>
  PROVE  StartInv'
<1>1. /\ to \in Points /\ to \notin Launching /\ to # "unbound" /\ to # "starting"
      /\ pc[l] \notin Launching
  BY DEF Launched, Launching
<1>2. UNCHANGED <<latch, locked, call, owed, before>>
  BY DEF latchVars
<1>3. StartTypes' /\ GuardsLaunch'
  BY <1>1, <1>2 DEF StartInv, StartTypes, GuardsLaunch
<1>4. GuardsCounted' /\ StartingIsOwed'
  BY <1>1, <1>2 DEF StartInv, StartTypes, GuardsCounted, StartingIsOwed
<1> QED
  BY <1>3, <1>4 DEF StartInv

LEMMA TaskStepInv ==
  ASSUME StartInv, NEW l \in Listeners, TaskStep(l)
  PROVE  StartInv'
<1>1. CASE Subscribe(l)
  BY <1>1, SubscribeInv
<1>2. CASE DropLauncher(l)
  <2>1. /\ Latch!Unlock(l) /\ pc' = [pc EXCEPT ![l] = "begin"] /\ UNCHANGED before
    BY <1>2 DEF DropLauncher, Task!DropLauncher, Task!Goto, Task!At, ownVars
  <2>2. "begin" \in Launched
    BY DEF Launched, Launching, Points
  <2> QED
    BY <2>1, <2>2, UnlockInv
<1>3. CASE TakeEvent(l) \/ StreamEnd(l) \/ HandleDone(l) \/ TaskAlone(l) \/ Exit(l)
  <2>1. PICK to \in {"handle", "after", "loop", "select", "exiting", "ended"} :
          pc' = [pc EXCEPT ![l] = to]
    BY <1>3 DEF TakeEvent, StreamEnd, HandleDone, TaskAlone, Exit, Task!TakeEvent,
      Task!StreamEnd, Task!HandleDone, Task!Begin, Task!AfterDone, Task!CheckCancel,
      Task!SelectCancelled, Task!Exit, Task!Goto, Task!At
  <2>2. pc[l] \in {"select", "handle", "begin", "after", "loop", "exiting"}
    BY <1>3 DEF TakeEvent, StreamEnd, HandleDone, TaskAlone, Exit, Task!TakeEvent,
      Task!StreamEnd, Task!HandleDone, Task!Begin, Task!AfterDone, Task!CheckCancel,
      Task!SelectCancelled, Task!Exit, Task!Goto, Task!At
  <2>3. UNCHANGED <<latchVars, before>>
    BY <1>3 DEF TakeEvent, StreamEnd, HandleDone, TaskAlone, Exit, ownVars
  <2>4. to \in Launched /\ pc[l] \in Launched
    BY <2>1, <2>2 DEF Launched, Launching, Points
  <2> QED
    BY <2>1, <2>3, <2>4, LaunchedInv
<1>4. CASE ReleaseEvent(l) \/ GuardNotify(l)
  BY <1>4, FrameInv DEF ReleaseEvent, GuardNotify, latchVars, taskVars, ownVars, startVars
<1>5. CASE DropListener(l)
  <2>1. /\ pc[l] = "ended" /\ pc' = [pc EXCEPT ![l] = "dropped"]
        /\ UNCHANGED <<latchVars, before>>
    BY <1>5 DEF DropListener, Task!DropListener, Task!Goto, Task!At
  <2>2. "dropped" \in Launched /\ "ended" \in Launched
    BY DEF Launched, Launching, Points
  <2> QED
    BY <2>1, <2>2, LaunchedInv
<1> QED
  BY <1>1, <1>2, <1>3, <1>4, <1>5 DEF TaskStep

(* Panics and aborts: a task aborted before it has subscribed drops its     *)
(* guard with it.                                                           *)
LEMMA FaultInv ==
  ASSUME StartInv, NEW l \in Listeners, Panic(l) \/ Abort(l)
  PROVE  StartInv'
<1>1. "exiting" \in Launched
  BY DEF Launched, Launching, Points
<1>2. pc' = [pc EXCEPT ![l] = "exiting"] /\ UNCHANGED before
  BY DEF Panic, Abort, Task!Panic, Task!Abort, Task!Goto, Task!At, ownVars
<1>3. pc[l] = "starting" \/ pc[l] \in Launched
  BY DEF Panic, Abort, Task!Panic, Task!Abort, Task!Goto, Task!At, Task!Hooks,
    Launched, Launching, Points
<1>4. CASE Abort(l) /\ pc[l] = "starting"
  <2>1. Latch!Unlock(l)
    BY <1>4 DEF Abort
  <2> QED
    BY <1>1, <1>2, <2>1, UnlockInv
<1>5. CASE pc[l] \in Launched
  <2>1. pc[l] # "starting"
    BY <1>5 DEF Launched, Launching
  <2>2. UNCHANGED latchVars
    BY <2>1 DEF Panic, Abort
  <2> QED
    BY <1>1, <1>2, <1>5, <2>2, LaunchedInv
<1>6. CASE Panic(l) /\ pc[l] = "starting"
  BY <1>6 DEF Panic, Task!Panic, Task!Goto, Task!At, Task!Hooks
<1> QED
  BY <1>3, <1>4, <1>5, <1>6

-----------------------------------------------------------------------------
(* Steps of clones, typed emitters and tokens touch none of it.             *)
LEMMA DrainStepInv ==
  ASSUME StartInv, NEW b \in Buses, DrainStep(b)
  PROVE  StartInv'
<1>1. UNCHANGED startVars
  BY DEF DrainStep, DropCheck, Release, WaitStep, WaitReturns, DrainReturns,
    latchVars, taskVars, ownVars, startVars
<1> QED
  BY <1>1, FrameInv

LEMMA UserStepInv ==
  ASSUME StartInv, UserStep
  PROVE  StartInv'
<1>1. ASSUME NEW l \in Listeners, Panic(l) \/ Abort(l) PROVE StartInv'
  BY <1>1, FaultInv
<1>2. ASSUME NEW c \in Calls, EmitCall(c) \/ EmitAbandon(c) PROVE StartInv'
  BY <1>2, EmitCallInv, EmitEndInv
<1>3. ASSUME NEW b \in Buses, NEW l \in Listeners, Bind(b, l) PROVE StartInv'
  BY <1>3, BindInv
<1>4. ASSUME NEW b \in Buses, NEW p \in Emitters, ToEmitter(b, p) PROVE StartInv'
  BY <1>4, FrameInv DEF ToEmitter, latchVars, taskVars, startVars
<1>5. ASSUME NEW p \in Emitters, DropEmitter(p) PROVE StartInv'
  BY <1>5, FrameInv DEF DropEmitter, latchVars, taskVars, startVars
<1>6. ASSUME NEW k \in Tokens, Cancel(k) PROVE StartInv'
  BY <1>6, FrameInv DEF Cancel, Task!Cancel, latchVars, ownVars, startVars
<1>7. ASSUME NEW b \in Buses, NEW c \in Buses, Clone(b, c) PROVE StartInv'
  BY <1>7, FrameInv DEF Clone, latchVars, taskVars, ownVars, startVars
<1>8. ASSUME NEW b \in Buses, Discard(b) \/ AbandonDrain(b) PROVE StartInv'
  BY <1>8, FrameInv
    DEF Discard, DropBus, Drain, Close, AbandonDrain, latchVars, taskVars, ownVars, startVars
<1> QED
  BY <1>1, <1>2, <1>3, <1>4, <1>5, <1>6, <1>7, <1>8 DEF UserStep

LEMMA StartInvStep == StartInv /\ [Next]_vars => StartInv'
<1> SUFFICES ASSUME StartInv, [Next]_vars PROVE StartInv'
  OBVIOUS
<1>1. ASSUME NEW l \in Listeners, TaskStep(l) PROVE StartInv'
  BY <1>1, TaskStepInv
<1>2. ASSUME NEW c \in Calls, EmitStep(c) PROVE StartInv'
  BY <1>2, EmitPassInv, EmitEndInv DEF EmitStep
<1>3. ASSUME NEW b \in Buses, DrainStep(b) PROVE StartInv'
  BY <1>3, DrainStepInv
<1>4. CASE UserStep
  BY <1>4, UserStepInv
<1>5. CASE UNCHANGED vars
  BY <1>5, FrameInv DEF vars, latchVars, taskVars, ownVars, startVars
<1> QED
  BY <1>1, <1>2, <1>3, <1>4, <1>5 DEF Next

(* Zero-loss startup (bind_latch.rs, launcher.rs:26-34, publisher.rs:29-32): *)
(* an emit that goes on to publish was owed the guard of every listener it   *)
(* found starting, and is owed none any more.                                *)
THEOREM NoEarlyPublish == Spec => []ZeroLossStartup
<1>1. StartInv => ZeroLossStartup
  BY DEF StartInv, GuardsCounted, StartingIsOwed, ZeroLossStartup, Starting
<1> QED
  BY <1>1, StartInvInit, StartInvStep, PTL DEF Spec

-----------------------------------------------------------------------------
(* Drains *)

\* The state the argument is about.
drainVars == <<count, guard, waiter, pc, bus, known>>

\* Where a task has its GroupGuard.
Working == Points \ {"unbound", "ended", "dropped"}

DrainTypes ==
  /\ count \in Nat
  /\ guard \in [Listeners -> {"none", "held", "notifying"}]
  /\ waiter \in [Buses -> {"idle", "load", "arm", "reload", "park", "done"}]
  /\ pc \in [Listeners -> Points]
  /\ bus \in [Buses -> {"unborn", "live", "dropping", "releasing", "waiting",
                        "awaiting", "drained", "abandoned", "gone"}]
  /\ known \in [Buses -> SUBSET Listeners]

GuardHolders == {l \in Listeners : guard[l] = "held"}

HoldersCounted == count = Cardinality(GuardHolders)

GuardsWork == \A l \in Listeners : guard[l] = "held" <=> pc[l] \in Working

KnownAreBound == \A b \in Buses : \A l \in known[b] : pc[l] # "unbound"

\* A Bus calls wait() only while it drains.
WaitsToDrain == \A b \in Buses : waiter[b] # "idle" => bus[b] = "waiting"

\* wait() has seen the count at zero.
Cleared(b) == waiter[b] = "done" \/ bus[b] \in {"awaiting", "drained"}

ClearedAreOver == \A b \in Buses : Cleared(b) => \A l \in known[b] : Over(l)

DrainInv ==
  /\ DrainTypes /\ HoldersCounted /\ GuardsWork
  /\ KnownAreBound /\ WaitsToDrain /\ ClearedAreOver

LEMMA DrainInvInit == Init => DrainInv
<1> SUFFICES ASSUME Init PROVE DrainInv
  OBVIOUS
<1>1. /\ count = 0 /\ guard = [l \in Listeners |-> "none"]
      /\ waiter = [b \in Buses |-> "idle"] /\ pc = [l \in Listeners |-> "unbound"]
      /\ bus = [b \in Buses |-> IF b = First THEN "live" ELSE "unborn"]
      /\ known = [b \in Buses |-> {}]
  BY DEF Init, WG!Init, Task!Init, Handle!Init
<1>2. DrainTypes /\ GuardsWork /\ KnownAreBound /\ WaitsToDrain /\ ClearedAreOver
  BY <1>1 DEF DrainTypes, Points, Working, GuardsWork, KnownAreBound, WaitsToDrain,
    ClearedAreOver, Cleared
<1>3. GuardHolders = {}
  BY <1>1 DEF GuardHolders
<1>4. HoldersCounted
  BY <1>1, <1>3, FS_EmptySet DEF HoldersCounted
<1> QED
  BY <1>2, <1>4 DEF DrainInv

LEMMA HoldersFinite == IsFiniteSet(GuardHolders) /\ Cardinality(GuardHolders) \in Nat
<1>1. IsFiniteSet(GuardHolders)
  BY EvnoConstants, FS_Subset DEF GuardHolders
<1> QED
  BY <1>1, FS_CardinalityType

LEMMA DrainFrame ==
  ASSUME DrainInv, UNCHANGED drainVars
  PROVE  DrainInv'
<1>1. UNCHANGED <<count, guard, waiter, pc, bus, known>>
  BY DEF drainVars
<1> QED
  BY <1>1 DEF DrainInv, DrainTypes, HoldersCounted, GuardHolders, GuardsWork, KnownAreBound,
    WaitsToDrain, ClearedAreOver, Cleared, Over

-----------------------------------------------------------------------------
(* Tasks *)

(* A listener bound now is known to no drain.                               *)
LEMMA BindDrain ==
  ASSUME DrainInv, NEW s \in Buses, NEW l \in Listeners, Bind(s, l)
  PROVE  DrainInv'
<1>1. /\ guard[l] = "none" /\ guard' = [guard EXCEPT ![l] = "held"] /\ count' = count + 1
      /\ pc[l] = "unbound" /\ pc' = [pc EXCEPT ![l] = "starting"]
      /\ UNCHANGED <<waiter, bus, known>>
  BY DEF Bind, WG!Add, Task!Spawn, Task!Goto, Task!At, busVars, ownVars
<1>2. l \notin GuardHolders /\ GuardHolders' = GuardHolders \cup {l}
  BY <1>1 DEF DrainInv, DrainTypes, GuardHolders
<1>3. HoldersCounted'
  BY <1>1, <1>2, HoldersFinite, FS_AddElement DEF DrainInv, HoldersCounted
<1>4. DrainTypes'
  BY <1>1 DEF DrainInv, DrainTypes, Points
<1>5. GuardsWork'
  BY <1>1 DEF DrainInv, DrainTypes, GuardsWork, Working, Points
<1>6. KnownAreBound' /\ WaitsToDrain'
  BY <1>1 DEF DrainInv, DrainTypes, KnownAreBound, WaitsToDrain
<1>7. ClearedAreOver'
  BY <1>1 DEF DrainInv, DrainTypes, KnownAreBound, ClearedAreOver, Cleared, Over
<1> QED
  BY <1>3, <1>4, <1>5, <1>6, <1>7 DEF DrainInv

(* A task that goes on keeps its guard.                                     *)
LEMMA MoveDrain ==
  ASSUME DrainInv, NEW l \in Listeners, pc[l] \in Working, NEW to \in Working,
         pc' = [pc EXCEPT ![l] = to], UNCHANGED <<wgVars, bus, known>>
  PROVE  DrainInv'
<1>1. /\ to \in Points /\ to # "unbound"
      /\ pc[l] # "ended" /\ pc[l] # "dropped"
  BY DEF Working
<1>2. UNCHANGED <<count, guard, waiter>>
  BY DEF wgVars
<1>3. DrainTypes' /\ HoldersCounted'
  BY <1>1, <1>2 DEF DrainInv, DrainTypes, HoldersCounted, GuardHolders
<1>4. GuardsWork' /\ KnownAreBound' /\ WaitsToDrain'
  BY <1>1, <1>2 DEF DrainInv, DrainTypes, GuardsWork, KnownAreBound, WaitsToDrain
<1>5. ClearedAreOver'
  BY <1>1, <1>2 DEF DrainInv, DrainTypes, ClearedAreOver, Cleared, Over
<1> QED
  BY <1>3, <1>4, <1>5 DEF DrainInv

LEMMA ExitDrain ==
  ASSUME DrainInv, NEW l \in Listeners, Exit(l)
  PROVE  DrainInv'
<1>1. /\ guard[l] = "held" /\ count' = count - 1
      /\ guard' \in {[guard EXCEPT ![l] = "notifying"], [guard EXCEPT ![l] = "none"]}
      /\ pc[l] = "exiting" /\ pc' = [pc EXCEPT ![l] = "ended"]
      /\ UNCHANGED <<waiter, bus, known>>
  BY DEF Exit, WG!DropGuard, Task!Exit, Task!Goto, Task!At, busVars, ownVars
<1>2. l \in GuardHolders /\ GuardHolders' = GuardHolders \ {l}
  BY <1>1 DEF DrainInv, DrainTypes, GuardHolders
<1>3. /\ Cardinality(GuardHolders') = Cardinality(GuardHolders) - 1
      /\ Cardinality(GuardHolders') \in Nat
  <2>1. /\ IsFiniteSet(GuardHolders \ {l})
        /\ Cardinality(GuardHolders \ {l}) = Cardinality(GuardHolders) - 1
    BY <1>2, HoldersFinite, FS_RemoveElement
  <2> QED
    BY <1>2, <2>1, FS_CardinalityType
<1>4. HoldersCounted' /\ count' \in Nat
  BY <1>1, <1>3 DEF DrainInv, HoldersCounted
<1>5. DrainTypes'
  BY <1>1, <1>4 DEF DrainInv, DrainTypes, Points
<1>6. GuardsWork'
  BY <1>1 DEF DrainInv, DrainTypes, GuardsWork, Working
<1>7. KnownAreBound' /\ WaitsToDrain'
  BY <1>1 DEF DrainInv, DrainTypes, KnownAreBound, WaitsToDrain
<1>8. ClearedAreOver'
  BY <1>1 DEF DrainInv, DrainTypes, ClearedAreOver, Cleared, Over
<1> QED
  BY <1>4, <1>5, <1>6, <1>7, <1>8 DEF DrainInv

LEMMA NotifyDrain ==
  ASSUME DrainInv, NEW l \in Listeners, GuardNotify(l)
  PROVE  DrainInv'
<1>1. /\ guard[l] = "notifying" /\ guard' = [guard EXCEPT ![l] = "none"]
      /\ UNCHANGED <<count, waiter, pc, bus, known>>
  BY DEF GuardNotify, WG!Notify, taskVars, busVars, ownVars
<1>2. GuardHolders' = GuardHolders
  BY <1>1 DEF DrainInv, DrainTypes, GuardHolders
<1> QED
  BY <1>1, <1>2 DEF DrainInv, DrainTypes, HoldersCounted, GuardsWork, KnownAreBound,
    WaitsToDrain, ClearedAreOver, Cleared, Over

(* What a listener owned goes with it; its clone, if it has one, is live    *)
(* and begins its drop.                                                     *)
LEMMA OwnedGoes ==
  ASSUME NEW l \in Listeners, DropOwned(l)
  PROVE  \/ UNCHANGED bus
         \/ \E b \in Buses : bus[b] = "live" /\ bus' = [bus EXCEPT ![b] = "dropping"]
BY DEF DropOwned, Handle!DropBus, Handle!At, busVars

LEMMA LiveDrops ==
  ASSUME DrainInv, UNCHANGED <<count, guard, waiter, pc, known>>,
         NEW b \in Buses, bus[b] = "live", bus' = [bus EXCEPT ![b] = "dropping"]
  PROVE  DrainInv'
BY DEF DrainInv, DrainTypes, HoldersCounted, GuardHolders, GuardsWork, KnownAreBound,
  WaitsToDrain, ClearedAreOver, Cleared, Over

(* A task that is over stays so.                                            *)
LEMMA DropListenerDrain ==
  ASSUME DrainInv, NEW l \in Listeners, DropListener(l)
  PROVE  DrainInv'
<1>1. /\ pc[l] = "ended" /\ pc' = [pc EXCEPT ![l] = "dropped"]
      /\ UNCHANGED <<count, guard, waiter, known>>
  BY DEF DropListener, Task!DropListener, Task!Goto, Task!At, wgVars
<1>2. \/ UNCHANGED bus
      \/ \E b \in Buses : bus[b] = "live" /\ bus' = [bus EXCEPT ![b] = "dropping"]
  BY OwnedGoes DEF DropListener
<1>3. DrainTypes' /\ HoldersCounted'
  BY <1>1, <1>2 DEF DrainInv, DrainTypes, Points, HoldersCounted, GuardHolders
<1>4. GuardsWork' /\ KnownAreBound'
  BY <1>1 DEF DrainInv, DrainTypes, GuardsWork, Working, KnownAreBound
<1>5. WaitsToDrain'
  BY <1>1, <1>2 DEF DrainInv, DrainTypes, WaitsToDrain
<1>6. \A b \in Buses : Cleared(b)' => Cleared(b)
  BY <1>1, <1>2 DEF DrainInv, DrainTypes, Cleared
<1>7. ClearedAreOver'
  BY <1>1, <1>6 DEF DrainInv, DrainTypes, ClearedAreOver, Over
<1> QED
  BY <1>3, <1>4, <1>5, <1>7 DEF DrainInv

LEMMA TaskStepDrain ==
  ASSUME DrainInv, NEW l \in Listeners, TaskStep(l)
  PROVE  DrainInv'
<1>1. CASE \/ Subscribe(l) \/ DropLauncher(l) \/ TakeEvent(l) \/ StreamEnd(l)
           \/ HandleDone(l) \/ TaskAlone(l)
  <2>1. /\ pc[l] \in {"starting", "subscribed", "select", "handle", "begin", "after", "loop"}
        /\ \E to \in {"subscribed", "begin", "handle", "after", "loop", "select", "exiting"} :
             pc' = [pc EXCEPT ![l] = to]
    BY <1>1 DEF Subscribe, DropLauncher, TakeEvent, StreamEnd, HandleDone, TaskAlone,
      Task!Subscribe, Task!DropLauncher, Task!TakeEvent, Task!StreamEnd, Task!HandleDone,
      Task!Begin, Task!AfterDone, Task!CheckCancel, Task!SelectCancelled, Task!Goto, Task!At
  <2>2. UNCHANGED <<wgVars, bus, known>>
    BY <1>1 DEF Subscribe, DropLauncher, TakeEvent, StreamEnd, HandleDone, TaskAlone,
      busVars, ownVars
  <2>3. /\ pc[l] \in Working
        /\ {"subscribed", "begin", "handle", "after", "loop", "select", "exiting"} \subseteq Working
    BY <2>1 DEF Working, Points
  <2> QED
    BY <2>1, <2>2, <2>3, MoveDrain
<1>2. CASE Exit(l)
  BY <1>2, ExitDrain
<1>3. CASE GuardNotify(l)
  BY <1>3, NotifyDrain
<1>4. CASE DropListener(l)
  BY <1>4, DropListenerDrain
<1>5. CASE ReleaseEvent(l)
  BY <1>5, DrainFrame DEF ReleaseEvent, wgVars, taskVars, busVars, ownVars, drainVars
<1> QED
  BY <1>1, <1>2, <1>3, <1>4, <1>5 DEF TaskStep

(* A task that fails keeps its guard until it is unwound; one aborted       *)
(* before it has subscribed may take a clone with it.                       *)
LEMMA FaultDrain ==
  ASSUME DrainInv, NEW l \in Listeners, Panic(l) \/ Abort(l)
  PROVE  DrainInv'
<1>1. /\ pc[l] \in {"starting", "select", "begin", "handle", "after"}
      /\ pc' = [pc EXCEPT ![l] = "exiting"]
      /\ UNCHANGED <<count, guard, waiter, known>>
  BY DEF Panic, Abort, Task!Panic, Task!Abort, Task!Hooks, Task!Goto, Task!At, wgVars, ownVars
<1>2. UNCHANGED bus \/ DropOwned(l)
  BY DEF Panic, Abort, busVars
<1>3. \/ UNCHANGED bus
      \/ \E b \in Buses : bus[b] = "live" /\ bus' = [bus EXCEPT ![b] = "dropping"]
  BY <1>2, OwnedGoes
<1>4. DrainTypes' /\ HoldersCounted'
  BY <1>1, <1>3 DEF DrainInv, DrainTypes, Points, HoldersCounted, GuardHolders
<1>5. GuardsWork' /\ KnownAreBound'
  BY <1>1 DEF DrainInv, DrainTypes, GuardsWork, Working, Points, KnownAreBound
<1>6. WaitsToDrain'
  BY <1>1, <1>3 DEF DrainInv, DrainTypes, WaitsToDrain
<1>7. \A b \in Buses : Cleared(b)' => Cleared(b)
  BY <1>1, <1>3 DEF DrainInv, DrainTypes, Cleared
<1>8. ClearedAreOver'
  BY <1>1, <1>7 DEF DrainInv, DrainTypes, ClearedAreOver, Over
<1> QED
  BY <1>4, <1>5, <1>6, <1>8 DEF DrainInv

-----------------------------------------------------------------------------
(* Clones and drains *)

\* Steps of one clone that call no wait().
LEMMA BusMoves ==
  ASSUME DrainInv, UNCHANGED <<count, guard, waiter, pc, known>>,
         NEW b \in Buses, bus[b] # "waiting",
         NEW to \in {"live", "dropping", "releasing", "gone", "drained", "abandoned"},
         to = "drained" => bus[b] = "awaiting",
         bus' = [bus EXCEPT ![b] = to]
  PROVE  DrainInv'
<1>1. DrainTypes' /\ HoldersCounted' /\ GuardsWork' /\ KnownAreBound' /\ WaitsToDrain'
  BY DEF DrainInv, DrainTypes, HoldersCounted, GuardHolders, GuardsWork, KnownAreBound,
    WaitsToDrain
<1>2. \A c \in Buses : Cleared(c)' => Cleared(c)
  BY DEF DrainInv, DrainTypes, Cleared
<1>3. ClearedAreOver'
  BY <1>2 DEF DrainInv, ClearedAreOver, Over
<1> QED
  BY <1>1, <1>3 DEF DrainInv

(* A drain begins: it has waited for nothing yet.                           *)
LEMMA DrainBegins ==
  ASSUME DrainInv, UNCHANGED <<count, guard, waiter, pc>>,
         NEW b \in Buses, bus[b] = "live", bus' = [bus EXCEPT ![b] = "dropping"],
         known' = [known EXCEPT ![b] = Bound]
  PROVE  DrainInv'
<1>1. DrainTypes' /\ HoldersCounted' /\ GuardsWork' /\ WaitsToDrain'
  BY DEF DrainInv, DrainTypes, HoldersCounted, GuardHolders, GuardsWork, WaitsToDrain, Bound
<1>2. KnownAreBound'
  BY DEF DrainInv, DrainTypes, KnownAreBound, Bound
<1>3. \A c \in Buses : Cleared(c)' => c # b /\ Cleared(c)
  BY DEF DrainInv, DrainTypes, WaitsToDrain, Cleared
<1>4. ClearedAreOver'
  BY <1>3 DEF DrainInv, DrainTypes, ClearedAreOver, Over
<1> QED
  BY <1>1, <1>2, <1>4 DEF DrainInv

(* wait() begins, in a drain, and returns.                                  *)
LEMMA ReleaseDrain ==
  ASSUME DrainInv, NEW b \in Buses, Release(b)
  PROVE  DrainInv'
<1>1. UNCHANGED <<count, guard, pc, known>> /\ bus[b] = "releasing"
  BY DEF Release, Handle!Release, Handle!At, WG!Wait, wgVars, taskVars, ownVars
<1>2. CASE Handle!Draining(b)
  <2>1. /\ bus' = [bus EXCEPT ![b] = "waiting"]
        /\ waiter' = [waiter EXCEPT ![b] = "load"]
    BY <1>2 DEF Release, Handle!Release, Handle!At, WG!Wait, WG!At
  <2>2. DrainTypes' /\ HoldersCounted' /\ GuardsWork' /\ KnownAreBound' /\ WaitsToDrain'
    BY <1>1, <2>1 DEF DrainInv, DrainTypes, HoldersCounted, GuardHolders, GuardsWork,
      KnownAreBound, WaitsToDrain
  <2>3. \A c \in Buses : Cleared(c)' => Cleared(c)
    BY <2>1 DEF DrainInv, DrainTypes, Cleared
  <2>4. ClearedAreOver'
    BY <1>1, <2>3 DEF DrainInv, ClearedAreOver, Over
  <2> QED
    BY <2>2, <2>4 DEF DrainInv
<1>3. CASE ~Handle!Draining(b)
  <2>1. bus' = [bus EXCEPT ![b] = "gone"] /\ UNCHANGED waiter
    BY <1>3 DEF Release, Handle!Release, Handle!At, wgVars
  <2> QED
    BY <1>1, <2>1, BusMoves
<1> QED
  BY <1>2, <1>3

(* wait() is done when it reads a count of zero: no guard is held, so every *)
(* listener bound so far is over.                                           *)
LEMMA WaitStepDrain ==
  ASSUME DrainInv, NEW b \in Buses, WaitStep(b)
  PROVE  DrainInv'
<1>1. UNCHANGED <<count, guard, pc, bus, known>>
  BY DEF WaitStep, WG!WaitStep, WG!Load, WG!Arm, WG!Reload, WG!Wake, taskVars, busVars, ownVars
<1>2. PICK to \in {"load", "arm", "reload", "park", "done"} :
        /\ waiter[b] # "idle" /\ waiter' = [waiter EXCEPT ![b] = to]
        /\ to = "done" => count = 0
  BY DEF WaitStep, WG!WaitStep, WG!Load, WG!Arm, WG!Reload, WG!Wake, WG!At
<1>3. DrainTypes' /\ HoldersCounted' /\ GuardsWork' /\ KnownAreBound' /\ WaitsToDrain'
  BY <1>1, <1>2 DEF DrainInv, DrainTypes, HoldersCounted, GuardHolders, GuardsWork,
    KnownAreBound, WaitsToDrain
<1>4. ASSUME to = "done" PROVE \A l \in known[b] : Over(l)
  <2>1. GuardHolders = {}
    BY <1>2, <1>4, HoldersFinite, FS_EmptySet DEF DrainInv, HoldersCounted
  <2>2. \A l \in Listeners : pc[l] \in Points /\ pc[l] \notin Working
    BY <2>1 DEF DrainInv, DrainTypes, GuardsWork, GuardHolders
  <2> QED
    BY <2>2 DEF DrainInv, DrainTypes, KnownAreBound, Working, Over
<1>5. \A c \in Buses : Cleared(c)' => Cleared(c) \/ (c = b /\ to = "done")
  BY <1>1, <1>2 DEF DrainInv, DrainTypes, Cleared
<1>6. ClearedAreOver'
  BY <1>1, <1>4, <1>5 DEF DrainInv, ClearedAreOver, Over
<1> QED
  BY <1>3, <1>6 DEF DrainInv

LEMMA WaitReturnsDrain ==
  ASSUME DrainInv, NEW b \in Buses, WaitReturns(b)
  PROVE  DrainInv'
<1>1. /\ waiter[b] = "done" /\ waiter' = [waiter EXCEPT ![b] = "idle"]
      /\ bus[b] = "waiting" /\ bus' = [bus EXCEPT ![b] = "awaiting"]
      /\ UNCHANGED <<count, guard, pc, known>>
  BY DEF WaitReturns, Handle!WaitReturns, Handle!At, WG!Return, WG!At, taskVars, ownVars
<1>2. DrainTypes' /\ HoldersCounted' /\ GuardsWork' /\ KnownAreBound' /\ WaitsToDrain'
  BY <1>1 DEF DrainInv, DrainTypes, HoldersCounted, GuardHolders, GuardsWork,
    KnownAreBound, WaitsToDrain
<1>3. \A c \in Buses : Cleared(c)' => Cleared(c)
  BY <1>1 DEF DrainInv, DrainTypes, Cleared
<1>4. ClearedAreOver'
  BY <1>1, <1>3 DEF DrainInv, ClearedAreOver, Over
<1> QED
  BY <1>2, <1>4 DEF DrainInv

LEMMA AbandonDrainInv ==
  ASSUME DrainInv, NEW b \in Buses, AbandonDrain(b)
  PROVE  DrainInv'
<1>1. /\ UNCHANGED <<count, guard, pc, known>>
      /\ bus' = [bus EXCEPT ![b] = "abandoned"] /\ bus[b] \in {"waiting", "awaiting"}
  BY DEF AbandonDrain, Handle!Abandon, Handle!At, WG!Abandon, wgVars, taskVars, ownVars
<1>2. CASE bus[b] = "waiting"
  <2>1. waiter' = [waiter EXCEPT ![b] = "idle"]
    BY <1>2 DEF AbandonDrain, WG!Abandon, WG!At
  <2>2. DrainTypes' /\ HoldersCounted' /\ GuardsWork' /\ KnownAreBound' /\ WaitsToDrain'
    BY <1>1, <2>1 DEF DrainInv, DrainTypes, HoldersCounted, GuardHolders, GuardsWork,
      KnownAreBound, WaitsToDrain
  <2>3. \A c \in Buses : Cleared(c)' => Cleared(c)
    BY <1>1, <2>1 DEF DrainInv, DrainTypes, Cleared
  <2>4. ClearedAreOver'
    BY <1>1, <2>3 DEF DrainInv, ClearedAreOver, Over
  <2> QED
    BY <2>2, <2>4 DEF DrainInv
<1>3. CASE bus[b] = "awaiting"
  <2>1. UNCHANGED waiter
    BY <1>3 DEF AbandonDrain, wgVars
  <2> QED
    BY <1>1, <1>3, <2>1, BusMoves
<1> QED
  BY <1>1, <1>2, <1>3

LEMMA DrainStepDrain ==
  ASSUME DrainInv, NEW b \in Buses, DrainStep(b)
  PROVE  DrainInv'
<1>1. CASE DropCheck(b)
  <2>1. /\ bus[b] = "dropping" /\ bus' = [bus EXCEPT ![b] = "releasing"]
        /\ UNCHANGED <<count, guard, waiter, pc, known>>
    BY <1>1 DEF DropCheck, Handle!DropCheck, Handle!At, wgVars, taskVars, ownVars
  <2> QED
    BY <2>1, BusMoves
<1>2. CASE Release(b)
  BY <1>2, ReleaseDrain
<1>3. CASE WaitStep(b)
  BY <1>3, WaitStepDrain
<1>4. CASE WaitReturns(b)
  BY <1>4, WaitReturnsDrain
<1>5. CASE DrainReturns(b)
  <2>1. /\ bus[b] = "awaiting" /\ bus' = [bus EXCEPT ![b] = "drained"]
        /\ UNCHANGED <<count, guard, waiter, pc, known>>
    BY <1>5 DEF DrainReturns, Handle!DrainReturns, Handle!At, wgVars, taskVars, ownVars
  <2> QED
    BY <2>1, BusMoves
<1> QED
  BY <1>1, <1>2, <1>3, <1>4, <1>5 DEF DrainStep

LEMMA DiscardDrain ==
  ASSUME DrainInv, NEW b \in Buses, Discard(b)
  PROVE  DrainInv'
<1>1. /\ bus[b] = "live" /\ bus' = [bus EXCEPT ![b] = "dropping"]
      /\ UNCHANGED <<count, guard, waiter, pc>>
  BY DEF Discard, DropBus, Drain, Close, Handle!DropBus, Handle!Drain, Handle!Close,
    Handle!At, wgVars, taskVars
<1>2. UNCHANGED known \/ known' = [known EXCEPT ![b] = Bound]
  <2>1. DrainTypes
    BY DEF DrainInv
  <2> QED
    BY <2>1 DEF Discard, DropBus, Drain, Close, ownVars, DrainTypes
<1> QED
  BY <1>1, <1>2, LiveDrops, DrainBegins

LEMMA UserStepDrain ==
  ASSUME DrainInv, UserStep
  PROVE  DrainInv'
<1>1. ASSUME NEW l \in Listeners, Panic(l) \/ Abort(l) PROVE DrainInv'
  BY <1>1, FaultDrain
<1>2. ASSUME NEW c \in Calls, EmitCall(c) \/ EmitAbandon(c) PROVE DrainInv'
  BY <1>2, DrainFrame DEF EmitCall, EmitAbandon, wgVars, taskVars, busVars, drainVars
<1>3. ASSUME NEW b \in Buses, NEW l \in Listeners, Bind(b, l) PROVE DrainInv'
  BY <1>3, BindDrain
<1>4. ASSUME NEW b \in Buses, NEW p \in Emitters, ToEmitter(b, p) PROVE DrainInv'
  BY <1>4, DrainFrame DEF ToEmitter, wgVars, taskVars, busVars, drainVars
<1>5. ASSUME NEW p \in Emitters, DropEmitter(p) PROVE DrainInv'
  BY <1>5, DrainFrame DEF DropEmitter, wgVars, taskVars, busVars, drainVars
<1>6. ASSUME NEW k \in Tokens, Cancel(k) PROVE DrainInv'
  BY <1>6, DrainFrame DEF Cancel, Task!Cancel, wgVars, busVars, ownVars, drainVars
<1>7. ASSUME NEW b \in Buses, NEW c \in Buses, Clone(b, c) PROVE DrainInv'
  <2>1. /\ bus[c] = "unborn" /\ bus' = [bus EXCEPT ![c] = "live"]
        /\ UNCHANGED <<count, guard, waiter, pc, known>>
    BY <1>7 DEF Clone, Handle!Clone, wgVars, taskVars, ownVars
  <2> QED
    BY <2>1, BusMoves
<1>8. ASSUME NEW b \in Buses, Discard(b) PROVE DrainInv'
  BY <1>8, DiscardDrain
<1>9. ASSUME NEW b \in Buses, AbandonDrain(b) PROVE DrainInv'
  BY <1>9, AbandonDrainInv
<1> QED
  BY <1>1, <1>2, <1>3, <1>4, <1>5, <1>6, <1>7, <1>8, <1>9 DEF UserStep

LEMMA DrainInvStep == DrainInv /\ [Next]_vars => DrainInv'
<1> SUFFICES ASSUME DrainInv, [Next]_vars PROVE DrainInv'
  OBVIOUS
<1>1. ASSUME NEW l \in Listeners, TaskStep(l) PROVE DrainInv'
  BY <1>1, TaskStepDrain
<1>2. ASSUME NEW c \in Calls, EmitStep(c) PROVE DrainInv'
  BY <1>2, DrainFrame DEF EmitStep, EmitPass, Publish, wgVars, taskVars, busVars, ownVars, drainVars
<1>3. ASSUME NEW b \in Buses, DrainStep(b) PROVE DrainInv'
  BY <1>3, DrainStepDrain
<1>4. CASE UserStep
  BY <1>4, UserStepDrain
<1>5. CASE UNCHANGED vars
  BY <1>5, DrainFrame DEF vars, wgVars, taskVars, busVars, ownVars, drainVars
<1> QED
  BY <1>1, <1>2, <1>3, <1>4, <1>5 DEF Next

(* A drain returns only after every listener bound before it was called has *)
(* left the wait group (bus.rs:107-109, 158-174): wait() returned when no   *)
(* guard was held, and a listener that is over stays so.                    *)
THEOREM DrainsWait == Spec => []DrainWaitsForKnown
<1>1. DrainInv => DrainWaitsForKnown
  BY DEF DrainInv, ClearedAreOver, Cleared, DrainWaitsForKnown
<1> QED
  BY <1>1, DrainInvInit, DrainInvStep, PTL DEF Spec

-----------------------------------------------------------------------------
(* Clones: see BusHandleProofs *)

HandleTypes ==
  /\ bus \in [Buses -> {"unborn", "live", "dropping", "releasing", "waiting",
                        "awaiting", "drained", "abandoned", "gone"}]
  /\ refs \in Nat
  /\ dropped \in [Buses -> {"none", "armed", "fired"}]

RefsCounted == refs = Cardinality(Handle!Holders)

\* A drain has its future from the start to its end.
FutureDrains ==
  \A b \in Buses :
    /\ dropped[b] # "none" => bus[b] \in {"dropping", "releasing", "waiting", "awaiting"}
    /\ bus[b] \in {"waiting", "awaiting"} => dropped[b] # "none"

HandleInv == HandleTypes /\ RefsCounted /\ Handle!NotifiedLast /\ FutureDrains

HandleStep(b) ==
  Handle!BusStep(b) \/ Handle!Discard(b) \/ Handle!Abandon(b) \/ \E c \in Buses : Handle!Clone(b, c)

LEMMA CloneHoldersFinite == IsFiniteSet(Handle!Holders) /\ Cardinality(Handle!Holders) \in Nat
<1>1. IsFiniteSet(Handle!Holders)
  BY EvnoConstants, FS_Subset DEF Handle!Holders
<1> QED
  BY <1>1, FS_CardinalityType

LEMMA HandleInvInit == Init => HandleInv
<1> SUFFICES ASSUME Init PROVE HandleInv
  OBVIOUS
<1>1. /\ bus = [b \in Buses |-> IF b = First THEN "live" ELSE "unborn"]
      /\ refs = 1 /\ dropped = [b \in Buses |-> "none"]
  BY DEF Init, Handle!Init, Handle!N!Init
<1>2. HandleTypes /\ Handle!NotifiedLast /\ FutureDrains
  BY <1>1, EvnoConstants DEF HandleTypes, Handle!NotifiedLast, FutureDrains
<1>3. Handle!Holders = {First}
  BY <1>1, EvnoConstants DEF Handle!Holders
<1>4. RefsCounted
  BY <1>1, <1>3, FS_Singleton DEF RefsCounted
<1> QED
  BY <1>2, <1>4 DEF HandleInv

LEMMA CloneHandle ==
  ASSUME HandleInv, NEW b \in Buses, NEW c \in Buses, Handle!Clone(b, c)
  PROVE  HandleInv'
<1>1. /\ bus[b] = "live" /\ bus[c] = "unborn" /\ bus' = [bus EXCEPT ![c] = "live"]
      /\ refs' = refs + 1 /\ UNCHANGED dropped
  BY DEF Handle!Clone
<1>2. c \notin Handle!Holders /\ Handle!Holders' = Handle!Holders \cup {c}
  BY <1>1 DEF HandleInv, HandleTypes, Handle!Holders
<1>3. RefsCounted'
  BY <1>1, <1>2, CloneHoldersFinite, FS_AddElement DEF HandleInv, RefsCounted
<1>4. HandleTypes' /\ Handle!NotifiedLast' /\ FutureDrains'
  BY <1>1 DEF HandleInv, HandleTypes, Handle!NotifiedLast, FutureDrains
<1> QED
  BY <1>3, <1>4 DEF HandleInv

LEMMA DiscardHandle ==
  ASSUME HandleInv, NEW b \in Buses, Handle!Discard(b)
  PROVE  HandleInv'
<1>1. /\ bus[b] = "live" /\ bus' = [bus EXCEPT ![b] = "dropping"] /\ UNCHANGED refs
      /\ UNCHANGED dropped \/ dropped' = [dropped EXCEPT ![b] = "armed"]
  BY DEF Handle!Discard, Handle!DropBus, Handle!Drain, Handle!Close, Handle!At, Handle!N!Notified
<1>2. Handle!Holders' = Handle!Holders
  BY <1>1 DEF HandleInv, HandleTypes, Handle!Holders
<1>3. RefsCounted'
  BY <1>1, <1>2 DEF HandleInv, RefsCounted
<1>4. HandleTypes' /\ FutureDrains'
  BY <1>1 DEF HandleInv, HandleTypes, FutureDrains
<1>5. Handle!NotifiedLast'
  BY <1>1 DEF HandleInv, HandleTypes, Handle!NotifiedLast
<1> QED
  BY <1>3, <1>4, <1>5 DEF HandleInv

(* Arc::get_mut succeeds only for the one clone left.                       *)
LEMMA CheckHandle ==
  ASSUME HandleInv, NEW b \in Buses, Handle!DropCheck(b)
  PROVE  HandleInv'
<1>1. /\ bus[b] = "dropping" /\ bus' = [bus EXCEPT ![b] = "releasing"] /\ UNCHANGED refs
      /\ \/ UNCHANGED dropped
         \/ /\ refs = 1
            /\ dropped' = [c \in Buses |-> IF dropped[c] = "armed" THEN "fired" ELSE dropped[c]]
  BY DEF Handle!DropCheck, Handle!At, Handle!SoleRef, Handle!N!NotifyWaiters
<1>2. b \in Handle!Holders /\ Handle!Holders' = Handle!Holders
  BY <1>1 DEF HandleInv, HandleTypes, Handle!Holders
<1>3. RefsCounted'
  BY <1>1, <1>2 DEF HandleInv, RefsCounted
<1>4. HandleTypes' /\ FutureDrains'
  BY <1>1 DEF HandleInv, HandleTypes, FutureDrains
<1>5. Handle!NotifiedLast'
  <2>1. CASE UNCHANGED dropped
    BY <1>1, <2>1 DEF HandleInv, HandleTypes, Handle!NotifiedLast
  <2>2. CASE refs = 1
    <3>1. \E h : Handle!Holders = {h}
      BY <2>2, CloneHoldersFinite, FS_Singleton DEF HandleInv, RefsCounted
    <3>2. \A c \in Buses : c \in Handle!Holders => c = b
      BY <1>2, <3>1
    <3>3. \A c \in Buses : bus'[c] \notin {"live", "dropping"}
      BY <1>1, <3>2 DEF HandleInv, HandleTypes, Handle!Holders
    <3> QED
      BY <3>3 DEF Handle!NotifiedLast
  <2> QED
    BY <1>1, <2>1, <2>2
<1> QED
  BY <1>3, <1>4, <1>5 DEF HandleInv

LEMMA ReleaseHandle ==
  ASSUME HandleInv, NEW b \in Buses, Handle!Release(b)
  PROVE  HandleInv'
<1>1. /\ bus[b] = "releasing" /\ refs' = refs - 1 /\ UNCHANGED dropped
      /\ bus' = [bus EXCEPT ![b] = IF dropped[b] # "none" THEN "waiting" ELSE "gone"]
  BY DEF Handle!Release, Handle!At, Handle!Draining
<1>2. b \in Handle!Holders /\ Handle!Holders' = Handle!Holders \ {b}
  BY <1>1 DEF HandleInv, HandleTypes, Handle!Holders
<1>3. /\ Cardinality(Handle!Holders') = Cardinality(Handle!Holders) - 1
      /\ Cardinality(Handle!Holders') \in Nat
  <2>1. /\ IsFiniteSet(Handle!Holders \ {b})
        /\ Cardinality(Handle!Holders \ {b}) = Cardinality(Handle!Holders) - 1
    BY <1>2, CloneHoldersFinite, FS_RemoveElement
  <2> QED
    BY <1>2, <2>1, FS_CardinalityType
<1>4. RefsCounted' /\ refs' \in Nat
  BY <1>1, <1>3 DEF HandleInv, RefsCounted
<1>5. HandleTypes'
  BY <1>1, <1>4 DEF HandleInv, HandleTypes
<1>6. Handle!NotifiedLast' /\ FutureDrains'
  BY <1>1 DEF HandleInv, HandleTypes, Handle!NotifiedLast, FutureDrains
<1> QED
  BY <1>4, <1>5, <1>6 DEF HandleInv

LEMMA WaitHandle ==
  ASSUME HandleInv, NEW b \in Buses,
         Handle!WaitReturns(b) \/ Handle!DrainReturns(b) \/ Handle!Abandon(b)
  PROVE  HandleInv'
<1>1. /\ UNCHANGED refs /\ bus[b] \in {"waiting", "awaiting"}
      /\ \/ bus' = [bus EXCEPT ![b] = "awaiting"] /\ UNCHANGED dropped
         \/ /\ bus' = [bus EXCEPT ![b] = "drained"] /\ dropped[b] = "fired"
            /\ dropped' = [dropped EXCEPT ![b] = "none"]
         \/ /\ bus' = [bus EXCEPT ![b] = "abandoned"]
            /\ dropped' = [dropped EXCEPT ![b] = "none"]
  BY DEF Handle!WaitReturns, Handle!DrainReturns, Handle!Abandon, Handle!At,
    Handle!N!Ready, Handle!N!Forget
<1>2. Handle!Holders' = Handle!Holders
  BY <1>1 DEF HandleInv, HandleTypes, Handle!Holders
<1>3. RefsCounted'
  BY <1>1, <1>2 DEF HandleInv, RefsCounted
<1>4. HandleTypes' /\ FutureDrains'
  BY <1>1 DEF HandleInv, HandleTypes, FutureDrains
<1>5. Handle!NotifiedLast'
  BY <1>1 DEF HandleInv, HandleTypes, Handle!NotifiedLast
<1> QED
  BY <1>3, <1>4, <1>5 DEF HandleInv

(* Whatever the bus does, to its clones it does what BusHandle says.        *)
LEMMA StepsOfHandle ==
  ASSUME [Next]_vars
  PROVE  UNCHANGED busVars \/ \E b \in Buses : HandleStep(b)
<1>1. ASSUME NEW l \in Listeners, DropOwned(l)
      PROVE  UNCHANGED busVars \/ \E b \in Buses : HandleStep(b)
  BY <1>1 DEF DropOwned, HandleStep, Handle!Discard
<1>2. CASE \E l \in Listeners : TaskStep(l)
  BY <1>1, <1>2 DEF TaskStep, Subscribe, DropLauncher, TakeEvent, StreamEnd, ReleaseEvent,
    HandleDone, TaskAlone, Exit, GuardNotify, DropListener
<1>3. CASE \E c \in Calls : EmitStep(c)
  BY <1>3 DEF EmitStep, EmitPass, Publish
<1>4. CASE \E b \in Buses : DrainStep(b)
  BY <1>4 DEF DrainStep, DropCheck, Release, WaitStep, WaitReturns, DrainReturns,
    HandleStep, Handle!BusStep
<1>5. CASE UserStep
  <2>1. CASE \E l \in Listeners : Panic(l) \/ Abort(l)
    BY <1>1, <2>1 DEF Panic, Abort
  <2>2. CASE \/ \E c \in Calls : EmitCall(c) \/ EmitAbandon(c)
             \/ \E b \in Buses, l \in Listeners : Bind(b, l)
             \/ \E b \in Buses, p \in Emitters : ToEmitter(b, p)
             \/ \E p \in Emitters : DropEmitter(p)
             \/ \E k \in Tokens : Cancel(k)
    BY <2>2 DEF EmitCall, EmitAbandon, Bind, ToEmitter, DropEmitter, Cancel
  <2>3. CASE \/ \E b, c \in Buses : Clone(b, c)
             \/ \E b \in Buses : Discard(b) \/ AbandonDrain(b)
    BY <2>3 DEF Clone, Discard, DropBus, Drain, Close, AbandonDrain, HandleStep, Handle!Discard
  <2> QED
    BY <1>5, <2>1, <2>2, <2>3 DEF UserStep
<1>6. CASE UNCHANGED vars
  BY <1>6 DEF vars
<1> QED
  BY <1>2, <1>3, <1>4, <1>5, <1>6 DEF Next

LEMMA HandleInvStep == HandleInv /\ [Next]_vars => HandleInv'
<1> SUFFICES ASSUME HandleInv, [Next]_vars PROVE HandleInv'
  OBVIOUS
<1>1. ASSUME NEW b \in Buses, HandleStep(b) PROVE HandleInv'
  BY <1>1, CloneHandle, DiscardHandle, CheckHandle, ReleaseHandle, WaitHandle
    DEF HandleStep, Handle!BusStep
<1>2. CASE UNCHANGED busVars
  BY <1>2 DEF busVars, HandleInv, HandleTypes, RefsCounted, Handle!Holders,
    Handle!NotifiedLast, FutureDrains
<1> QED
  BY <1>1, <1>2, StepsOfHandle

-----------------------------------------------------------------------------
(* Releasing every clone through close() *)

\* close() is the end of a clone.
ClosedEnds == \A b \in Buses : b \in closers => bus[b] \notin {"unborn", "live"}

\* Some clone lives, drains, did drain, or goes without close().
SomeoneDrains ==
  \E b \in Buses :
    \/ bus[b] \in {"live", "waiting", "awaiting", "drained", "abandoned"}
    \/ bus[b] \in {"dropping", "releasing"} /\ dropped[b] # "none"
    \/ bus[b] \in {"dropping", "releasing", "gone"} /\ b \notin closers

CloseInv == HandleInv /\ ClosedEnds /\ SomeoneDrains

LEMMA CloseInvInit == Init => CloseInv
<1> SUFFICES ASSUME Init PROVE CloseInv
  OBVIOUS
<1>1. bus = [b \in Buses |-> IF b = First THEN "live" ELSE "unborn"] /\ closers = {}
  BY DEF Init, Handle!Init
<1> QED
  BY <1>1, EvnoConstants, HandleInvInit DEF CloseInv, ClosedEnds, SomeoneDrains

(* A close() that finds other clones leaves the drain to them.  None of     *)
(* them is between the check of its drop and the release, where it would    *)
(* be counted but not drain any more: that takes a second thread.           *)
LEMMA CloseLeavesOne ==
  ASSUME ~Parallel, CloseInv, NEW b \in Buses, Handle!Close(b), ~Handle!SoleRef
  PROVE  \E c \in Buses \ {b} : bus[c] = "live"
<1>1. bus[b] = "live" /\ \A c \in Buses \ {b} : bus[c] \notin {"dropping", "releasing"}
  BY DEF Handle!Close, Handle!At, Handle!Turn
<1>2. b \in Handle!Holders /\ Handle!Holders # {b}
  BY <1>1, FS_Singleton DEF CloseInv, HandleInv, RefsCounted, Handle!SoleRef, Handle!Holders
<1>3. PICK c \in Handle!Holders : c # b
  BY <1>2
<1> QED
  BY <1>1, <1>3 DEF Handle!Holders

LEMMA CloseSomeone ==
  ASSUME ~Parallel, CloseInv, NEW b \in Buses, Handle!Close(b)
  PROVE  SomeoneDrains'
<1>1. /\ bus[b] = "live" /\ bus' = [bus EXCEPT ![b] = "dropping"]
      /\ IF Handle!SoleRef THEN dropped' = [dropped EXCEPT ![b] = "armed"] ELSE UNCHANGED dropped
  BY DEF Handle!Close, Handle!At, Handle!N!Notified
<1>2. CASE Handle!SoleRef
  <2>1. bus'[b] = "dropping" /\ dropped'[b] = "armed"
    BY <1>1, <1>2 DEF CloseInv, HandleInv, HandleTypes
  <2> QED
    BY <2>1 DEF SomeoneDrains
<1>3. CASE ~Handle!SoleRef
  <2>1. PICK c \in Buses \ {b} : bus[c] = "live"
    BY <1>3, CloseLeavesOne
  <2>2. bus'[c] = "live"
    BY <1>1, <2>1 DEF CloseInv, HandleInv, HandleTypes
  <2> QED
    BY <2>1, <2>2 DEF SomeoneDrains
<1> QED
  BY <1>2, <1>3

LEMMA CloseInvStep ==
  ASSUME ~Parallel, CloseInv, [Next]_vars
  PROVE  CloseInv'
<1>1. HandleInv'
  BY HandleInvStep DEF CloseInv
<1>2. CASE UNCHANGED busVars
  BY <1>1, <1>2 DEF busVars, CloseInv, ClosedEnds, SomeoneDrains
<1>3. ASSUME NEW b \in Buses, HandleStep(b) PROVE CloseInv'
  <2>1. ClosedEnds'
    BY <1>3 DEF CloseInv, HandleInv, HandleTypes, ClosedEnds, HandleStep, Handle!BusStep,
      Handle!DropCheck, Handle!Release, Handle!WaitReturns, Handle!DrainReturns, Handle!Discard,
      Handle!DropBus, Handle!Drain, Handle!Close, Handle!Abandon, Handle!Clone, Handle!At
  <2>2. SomeoneDrains'
    <3>1. CASE Handle!Close(b)
      BY <3>1, CloseSomeone
    <3>2. ASSUME NEW c \in Buses, Handle!Clone(b, c) PROVE SomeoneDrains'
      BY <3>2 DEF CloseInv, HandleInv, HandleTypes, SomeoneDrains, Handle!Clone
    <3>3. CASE Handle!DropBus(b) \/ Handle!Drain(b)
      BY <3>3 DEF CloseInv, HandleInv, HandleTypes, ClosedEnds, SomeoneDrains, Handle!DropBus,
        Handle!Drain, Handle!At, Handle!N!Notified
    <3>4. CASE Handle!DropCheck(b) \/ Handle!Release(b)
      <4>1. /\ UNCHANGED closers
            /\ \A c \in Buses : dropped[c] # "none" => dropped'[c] # "none"
            /\ \/ bus[b] = "dropping" /\ bus' = [bus EXCEPT ![b] = "releasing"]
               \/ /\ bus[b] = "releasing" /\ UNCHANGED dropped
                  /\ bus' = [bus EXCEPT ![b] = IF dropped[b] # "none" THEN "waiting" ELSE "gone"]
        BY <3>4 DEF Handle!DropCheck, Handle!Release, Handle!Draining, Handle!At, Handle!N!NotifyWaiters
      <4> QED
        BY <4>1 DEF CloseInv, HandleInv, HandleTypes, SomeoneDrains
    <3>5. CASE Handle!WaitReturns(b) \/ Handle!DrainReturns(b) \/ Handle!Abandon(b)
      <4>1. PICK to \in {"awaiting", "drained", "abandoned"} : bus' = [bus EXCEPT ![b] = to]
        BY <3>5 DEF Handle!WaitReturns, Handle!DrainReturns, Handle!Abandon, Handle!At
      <4>2. bus'[b] = to
        BY <4>1 DEF CloseInv, HandleInv, HandleTypes
      <4> QED
        BY <4>2 DEF SomeoneDrains
    <3> QED
      BY <1>3, <3>1, <3>2, <3>3, <3>4, <3>5 DEF HandleStep, Handle!BusStep, Handle!Discard
  <2> QED
    BY <1>1, <2>1, <2>2 DEF CloseInv
<1> QED
  BY <1>2, <1>3, StepsOfHandle

(* On a current-thread runtime a program that releases every clone through  *)
(* close() drains (bus.rs:181-189, README.md:44).  With several threads two *)
(* clones may each find the other and neither drain: see BusHandle.         *)
THEOREM CloseDrains ==
  ASSUME ~Parallel
  PROVE  Spec => []CloseTriggersDrain
<1>1. CloseInv => CloseTriggersDrain
  BY DEF CloseInv, SomeoneDrains, CloseTriggersDrain, Handle!CloseTriggersDrain
<1>2. CloseInv /\ [Next]_vars => CloseInv'
  BY CloseInvStep
<1> QED
  BY <1>1, <1>2, CloseInvInit, PTL DEF Spec
===============================================================================
