--------------------------------- MODULE Evno ---------------------------------
(***************************************************************************)
(* The event bus: bus.rs over its parts.  Bus clones and typed emitters     *)
(* bind listeners and emit events; each listener is a task that consumes    *)
(* the ring of its event type; drains wait for the tasks and for the        *)
(* clones.  An action here is an operation of bus.rs, publisher.rs or the   *)
(* task, written as the actions of the parts it touches.                    *)
(***************************************************************************)
EXTENDS Integers, FiniteSets

CONSTANTS Buses, First, Parallel,                   \* see BusHandle
          Listeners, Tokens, TokenOf, Times, Faulty, Closures, \* see ListenerTask
          Emitters,     \* typed emitters to_emitter() may return
          Owned,        \* the clone and the typed emitters each listener holds:
                        \* those its closure captured
          Calls,        \* emit calls that may be in flight at once
          Via,          \* the clone or typed emitter each call goes through
          Types,        \* event types
          TypeOf,       \* the event type of listeners, typed emitters and calls
          Capacities,   \* the arguments Bus::new may be given
          MaxEvents     \* bound: events of a type ever emitted to consumers

ASSUME EvnoConstants ==
  /\ IsFiniteSet(Buses) /\ First \in Buses /\ IsFiniteSet(Listeners)
  /\ Buses \cap Emitters = {}
  /\ IsFiniteSet(Calls) /\ Via \in [Calls -> Buses \cup Emitters]
  /\ TypeOf \in [Listeners \cup Emitters \cup Calls -> Types]
  /\ Owned \in [Listeners -> SUBSET (Buses \cup Emitters)]
  /\ \A l \in Listeners : Cardinality(Owned[l] \cap Buses) <= 1
  /\ \A l, m \in Listeners : l # m => Owned[l] \cap Owned[m] = {}
  /\ \A c \in Calls : Via[c] \in Emitters => TypeOf[c] = TypeOf[Via[c]]
  /\ \A n \in Capacities : n >= 2 /\ \E e \in 1..n : n = 2 ^ e
  /\ MaxEvents \in Nat
  /\ TokenOf \in [Listeners -> Tokens] /\ Times \in [Listeners -> Nat]
  /\ Faulty \subseteq Listeners /\ Closures \subseteq Listeners
  /\ Parallel \in BOOLEAN

VARIABLES
  count, guard, waiter, idle,           \* WaitGroup; idle is its Notify
  latch, locked, call, owed,            \* BindLatch and the calls that wait on it
  capacity, tail, pos, consumers, held, \* the rings
  pc, cancelled, handled, late, afterRan, \* the listeners' tasks
  bus, refs, dropped, closers,          \* the clones; dropped is drop_notifier
  emitter,                              \* per typed emitter: "none", "live", "gone"
  before,   \* history: listeners still to subscribe when each call was made
  known     \* history: listeners bound when each drain was called

wgVars == <<count, guard, waiter, idle>>
latchVars == <<latch, locked, call, owed>>
ringVars == <<capacity, tail, pos, consumers, held>>
taskVars == <<pc, cancelled, handled, late, afterRan>>
busVars == <<bus, refs, dropped, closers>>
ownVars == <<emitter, before, known>>
vars == <<wgVars, latchVars, ringVars, taskVars, busVars, ownVars>>

WG == INSTANCE WaitGroup WITH Tasks <- Listeners, Waiters <- Buses, future <- idle
Latch == INSTANCE BindLatch WITH Owners <- Listeners, counter <- latch
Ring == INSTANCE Channel WITH Consumers <- Listeners
Task == INSTANCE ListenerTask WITH count <- handled, MaxHandled <- MaxEvents
Handle == INSTANCE BusHandle WITH future <- dropped

Init ==
  /\ WG!Init /\ Latch!Init /\ Ring!Init /\ Task!Init /\ Handle!Init
  /\ emitter = [p \in Emitters |-> "none"]
  /\ before = [c \in Calls |-> {}]
  /\ known = [b \in Buses |-> {}]

-----------------------------------------------------------------------------
(* Emitting *)

Alive(s) == IF s \in Buses THEN bus[s] = "live" ELSE emitter[s] = "live"

\* An emit in flight borrows the clone or emitter it goes through.
InUse(s) == \E c \in Calls : Via[c] = s /\ call[c] # "idle"

\* What a listener was bound with is its own: only its code may use it.
Free(s) == \A l \in Listeners : s \in Owned[l] => pc[l] = "unbound"

Usable(s) ==
  /\ Alive(s)
  /\ \A l \in Listeners : s \in Owned[l] => pc[l] = "unbound" \/ pc[l] \in Task!Hooks(l)

\* The code of a listener returns, or unwinds, when no emit of its own is
\* in flight.
Returning(l) == \A s \in Owned[l] : ~InUse(s)

InFlight(t) == {c \in Calls : TypeOf[c] = t /\ call[c] # "idle"}

Starting == {l \in Listeners : pc[l] = "starting"}

EmitCall(c) ==
  /\ Usable(Via[c])
  /\ tail[TypeOf[c]] + Cardinality(InFlight(TypeOf[c])) < MaxEvents
  /\ Latch!Call(c)
  /\ before' = [before EXCEPT ![c] = Starting]
  /\ UNCHANGED <<wgVars, ringVars, taskVars, busVars, emitter, known>>

EmitPass(c) ==
  /\ Latch!Pass(c)
  /\ UNCHANGED <<wgVars, ringVars, taskVars, busVars, ownVars>>

Publish(c) ==
  /\ Latch!Finish(c)
  /\ Ring!Publish(TypeOf[c])
  /\ before' = [before EXCEPT ![c] = {}]
  /\ UNCHANGED <<wgVars, taskVars, busVars, emitter, known>>

(* The future of emit() is dropped before it has published. *)
EmitAbandon(c) ==
  /\ Latch!Abandon(c)
  /\ before' = [before EXCEPT ![c] = {}]
  /\ UNCHANGED <<wgVars, ringVars, taskVars, busVars, emitter, known>>

ToEmitter(b, p) ==
  /\ Usable(b) /\ emitter[p] = "none"
  /\ emitter' = [emitter EXCEPT ![p] = "live"]
  /\ UNCHANGED <<wgVars, latchVars, ringVars, taskVars, busVars, before, known>>

DropEmitter(p) ==
  /\ emitter[p] = "live" /\ ~InUse(p) /\ Free(p)
  /\ emitter' = [emitter EXCEPT ![p] = "gone"]
  /\ UNCHANGED <<wgVars, latchVars, ringVars, taskVars, busVars, before, known>>

-----------------------------------------------------------------------------
(* Listeners *)

\* What a listener holds is moved into it: alive, not in use, and not the
\* clone that binds it.
Movable(b, l) == b \notin Owned[l] /\ \A s \in Owned[l] : Alive(s) /\ ~InUse(s)

\* Mutant: bind_cancel drops the BindGuard when it returns.
BindUnlatched(b, l) ==
  /\ Usable(b) /\ Movable(b, l)
  /\ WG!Add(l) /\ Task!Spawn(l)
  /\ UNCHANGED <<latchVars, ringVars, busVars, ownVars>>

Bind(b, l) ==
  /\ Usable(b) /\ Movable(b, l)
  /\ WG!Add(l) /\ Latch!Lock(l) /\ Task!Spawn(l)
  /\ UNCHANGED <<ringVars, busVars, ownVars>>

Subscribe(l) ==
  /\ Task!Subscribe(l) /\ Ring!Subscribe(l)
  /\ UNCHANGED <<wgVars, latchVars, busVars, ownVars>>

(* drop(self): the Publisher clone and the BindGuard go.                    *)
DropLauncher(l) ==
  /\ Task!DropLauncher(l) /\ Latch!Unlock(l)
  /\ UNCHANGED <<wgVars, ringVars, busVars, ownVars>>

\* Mutant: launch() without drop(self); the Launcher goes with the task.
OpenUntilExit(t) ==
  \/ refs > 0
  \/ \E p \in Emitters : emitter[p] = "live" /\ TypeOf[p] = t
  \/ \E l \in Listeners : pc[l] \notin {"unbound", "ended", "dropped"} /\ TypeOf[l] = t

\* Mutant: the last Bus closes the rings, whoever still has a Publisher.
OpenWhileBus(t) == refs > 0

(* Some Publisher of the type exists: in the map of Inner, as a typed       *)
(* emitter, or in a Launcher.                                               *)
Open(t) ==
  \/ refs > 0
  \/ \E p \in Emitters : emitter[p] = "live" /\ TypeOf[p] = t
  \/ \E l \in Listeners : pc[l] \in {"starting", "subscribed"} /\ TypeOf[l] = t

\* Mutant: events still in the ring when the last Publisher goes are lost.
TakeWhileOpen(l) ==
  /\ Open(TypeOf[l])
  /\ Ring!TakeEvent(l) /\ Task!TakeEvent(l)
  /\ UNCHANGED <<wgVars, latchVars, busVars, ownVars>>

TakeEvent(l) ==
  /\ Ring!TakeEvent(l) /\ Task!TakeEvent(l)
  /\ UNCHANGED <<wgVars, latchVars, busVars, ownVars>>

\* Mutant: the stream ends as soon as nobody can publish any more.
StreamEndEarly(l) ==
  /\ ~Open(TypeOf[l])
  /\ Task!StreamEnd(l)
  /\ UNCHANGED <<wgVars, latchVars, ringVars, busVars, ownVars>>

StreamEnd(l) ==
  /\ ~Ring!HasEvent(l) /\ ~Open(TypeOf[l])
  /\ Task!StreamEnd(l)
  /\ UNCHANGED <<wgVars, latchVars, ringVars, busVars, ownVars>>

(* The guard is moved into the handler, which drops it when it likes: a     *)
(* closure may do so before the future it returns has run, and the slot is  *)
(* free while the handler is still at work.  The end of the handler, and    *)
(* the unwinding of its task, drop it at the latest.                        *)
ReleaseEvent(l) ==
  /\ Ring!ReleaseEvent(l)
  /\ UNCHANGED <<wgVars, latchVars, taskVars, busVars, ownVars>>

HandleDone(l) ==
  /\ Returning(l) /\ l \notin held
  /\ Task!HandleDone(l)
  /\ UNCHANGED <<wgVars, latchVars, ringVars, busVars, ownVars>>

TaskAlone(l) ==
  /\ \/ Returning(l) /\ (Task!Begin(l) \/ Task!AfterDone(l))
     \/ Task!CheckCancel(l) \/ Task!SelectCancelled(l)
  /\ UNCHANGED <<wgVars, latchVars, ringVars, busVars, ownVars>>

\* Mutant: the Consumer outlives its task.
ExitSubscribed(l) ==
  /\ l \notin held
  /\ Task!Exit(l) /\ WG!DropGuard(l)
  /\ UNCHANGED <<latchVars, ringVars, busVars, ownVars>>

(* The locals of run() are dropped: the stream with its Consumer, then the  *)
(* GroupGuard.                                                              *)
Exit(l) ==
  /\ l \notin held
  /\ Task!Exit(l) /\ Ring!DropConsumer(l) /\ WG!DropGuard(l)
  /\ UNCHANGED <<latchVars, busVars, ownVars>>

DropOwned(l) ==
  /\ emitter' = [p \in Emitters |->
       IF p \in Owned[l] /\ emitter[p] = "live" THEN "gone" ELSE emitter[p]]
  /\ IF \E b \in Owned[l] \cap Buses : bus[b] = "live"
       THEN \E b \in Owned[l] \cap Buses : Handle!DropBus(b)
       ELSE UNCHANGED busVars

\* Mutant: the listener is leaked, and what it owned with it.
DropListenerLeaks(l) ==
  /\ Task!DropListener(l)
  /\ UNCHANGED <<wgVars, latchVars, ringVars, busVars, ownVars>>

(* The listener was declared first and is dropped last, after the guard.    *)
DropListener(l) ==
  /\ Task!DropListener(l)
  /\ DropOwned(l)
  /\ UNCHANGED <<wgVars, latchVars, ringVars, before, known>>

GuardNotify(l) ==
  /\ WG!Notify(l)
  /\ UNCHANGED <<latchVars, ringVars, taskVars, busVars, ownVars>>

Cancel(k) ==
  /\ Task!Cancel(k)
  /\ UNCHANGED <<wgVars, latchVars, ringVars, busVars, ownVars>>

Panic(l) ==
  /\ Returning(l)
  /\ Task!Panic(l)
  /\ UNCHANGED <<wgVars, latchVars, ringVars, busVars, ownVars>>

(* A task aborted before it has subscribed still owns its Launcher, and its *)
(* listener goes before the guard, as the fields of ListenerActor do.       *)
Abort(l) ==
  /\ Returning(l)
  /\ Task!Abort(l)
  /\ IF pc[l] = "starting" THEN Latch!Unlock(l) /\ DropOwned(l)
                           ELSE UNCHANGED <<latchVars, busVars, emitter>>
  /\ UNCHANGED <<wgVars, ringVars, before, known>>

-----------------------------------------------------------------------------
(* The clones and their drains *)

Clone(b, c) ==
  /\ Usable(b)
  /\ Handle!Clone(b, c)
  /\ UNCHANGED <<wgVars, latchVars, ringVars, taskVars, ownVars>>

(* A clone is given up by who holds it: never while an emit borrows it, nor *)
(* while it is a listener's own.                                            *)
MayGo(b) == ~InUse(b) /\ Free(b)

Bound == {l \in Listeners : pc[l] # "unbound"}

DropBus(b) ==
  /\ MayGo(b) /\ Handle!DropBus(b)
  /\ UNCHANGED <<wgVars, latchVars, ringVars, taskVars, ownVars>>

Drain(b) ==
  /\ MayGo(b) /\ Handle!Drain(b)
  /\ known' = [known EXCEPT ![b] = Bound]
  /\ UNCHANGED <<wgVars, latchVars, ringVars, taskVars, emitter, before>>

Close(b) ==
  /\ MayGo(b) /\ Handle!Close(b)
  /\ known' = [known EXCEPT ![b] = IF Handle!SoleRef THEN Bound ELSE @]
  /\ UNCHANGED <<wgVars, latchVars, ringVars, taskVars, emitter, before>>

Discard(b) == DropBus(b) \/ Drain(b) \/ Close(b)

DropCheck(b) ==
  /\ Handle!DropCheck(b)
  /\ UNCHANGED <<wgVars, latchVars, ringVars, taskVars, ownVars>>

Release(b) ==
  /\ Handle!Release(b)
  /\ IF Handle!Draining(b) THEN WG!Wait(b) ELSE UNCHANGED wgVars
  /\ UNCHANGED <<latchVars, ringVars, taskVars, ownVars>>

WaitStep(b) ==
  /\ WG!WaitStep(b)
  /\ UNCHANGED <<latchVars, ringVars, taskVars, busVars, ownVars>>

\* Mutant: drain() does not await the wait group.
WaitUnawaited(b) ==
  /\ Handle!WaitReturns(b)
  /\ UNCHANGED <<wgVars, latchVars, ringVars, taskVars, ownVars>>

WaitReturns(b) ==
  /\ Handle!WaitReturns(b) /\ WG!Return(b)
  /\ UNCHANGED <<latchVars, ringVars, taskVars, ownVars>>

DrainReturns(b) ==
  /\ Handle!DrainReturns(b)
  /\ UNCHANGED <<wgVars, latchVars, ringVars, taskVars, ownVars>>

(* The future of drain() is dropped at one of its awaits: in wait(), or on  *)
(* the notification.                                                        *)
AbandonDrain(b) ==
  /\ Handle!Abandon(b)
  /\ IF bus[b] = "waiting" THEN WG!Abandon(b) ELSE UNCHANGED wgVars
  /\ UNCHANGED <<latchVars, ringVars, taskVars, ownVars>>

-----------------------------------------------------------------------------
(* On a current-thread runtime nothing else runs during the drop of a Bus.  *)
Quiet == Parallel \/ \A b \in Buses : bus[b] \notin {"dropping", "releasing"}

TaskStep(l) ==
  /\ Quiet
  /\ \/ Subscribe(l) \/ DropLauncher(l) \/ TakeEvent(l) \/ StreamEnd(l)
     \/ ReleaseEvent(l) \/ HandleDone(l) \/ TaskAlone(l)
     \/ Exit(l) \/ GuardNotify(l) \/ DropListener(l)

EmitStep(c) == Quiet /\ (EmitPass(c) \/ Publish(c))

DrainStep(b) ==
  \/ DropCheck(b) \/ Release(b)
  \/ Quiet /\ (WaitStep(b) \/ WaitReturns(b) \/ DrainReturns(b))

UserStep ==
  \/ \E l \in Listeners : Panic(l) \/ Abort(l)
  \/ \E c \in Calls : EmitCall(c) \/ EmitAbandon(c)
  \/ \E b \in Buses, l \in Listeners : Bind(b, l)
  \/ \E b \in Buses, p \in Emitters : ToEmitter(b, p)
  \/ \E p \in Emitters : DropEmitter(p)
  \/ \E k \in Tokens : Cancel(k)
  \/ \E b, c \in Buses : Clone(b, c)
  \/ \E b \in Buses : Discard(b) \/ AbandonDrain(b)

Next ==
  \/ \E l \in Listeners : TaskStep(l)
  \/ \E c \in Calls : EmitStep(c)
  \/ \E b \in Buses : DrainStep(b)
  \/ Quiet /\ UserStep

Fairness ==
  /\ \A l \in Listeners : WF_vars(TaskStep(l))
  /\ \A c \in Calls : WF_vars(EmitStep(c))
  /\ \A b \in Buses : WF_vars(DrainStep(b))

(* Every task that can make progress is polled.  Nobody has to bind, emit,  *)
(* cancel, clone, discard or give up a call.                                *)
Spec == Init /\ [][Next]_vars /\ Fairness

(* A program that keeps no Bus and no typed emitter for ever.  Strong        *)
(* fairness: each is dropped even if it is in use again and again before.   *)
(* One condition is enough, as none can be dropped twice.                   *)
TidyStep ==
  \/ \E b \in Buses : Discard(b)
  \/ \E p \in Emitters : DropEmitter(p)

TidySpec == Spec /\ SF_vars(Quiet /\ TidyStep)

-----------------------------------------------------------------------------
TypeOK ==
  /\ WG!TypeOK /\ Latch!TypeOK /\ Ring!TypeOK /\ Task!TypeOK /\ Handle!TypeOK
  /\ emitter \in [Emitters -> {"none", "live", "gone"}]
  /\ before \in [Calls -> SUBSET Listeners]
  /\ known \in [Buses -> SUBSET Listeners]

(* The latch keeps its promise in the bus: an emit leaves wait_for_binds     *)
(* only after every guard that was alive when the emit was called is gone,  *)
(* whatever is bound, launched and aborted meanwhile (bind_latch.rs:18-28). *)
PassedOwesNothing == Latch!PassedOwesNothing

(* Zero-loss startup: an event whose emit was called after bind() returned  *)
(* reaches that listener.  When the emit goes on to publish, every listener *)
(* bound before the call has subscribed or is gone (bind_latch.rs,          *)
(* launcher.rs:26-34, publisher.rs:29-32).                                  *)
ZeroLossStartup ==
  \A c \in Calls : call[c] = "passed" => before[c] \cap Starting = {}

(* A listener whose stream ended has been given every event there will ever *)
(* be: no clone, typed emitter or launcher is left that could publish one   *)
(* more (listener/mod.rs:72-73, "Stream has ended").                        *)
StreamEndsComplete ==
  \A l \in Listeners \ Faulty :
    pc[l] \in {"after", "exiting", "ended", "dropped"} /\ ~Task!Cancelled(l) =>
      pos[l] = tail[TypeOf[l]]

\* The guard of the wait group is gone.
Over(l) == pc[l] \in {"ended", "dropped"}

(* A drain returns only after every listener bound before it was called has *)
(* left the wait group (bus.rs:107-109, 158-174).                           *)
DrainWaitsForKnown ==
  \A b \in Buses : bus[b] = "drained" => \A l \in known[b] : Over(l)

(* An emit call returns: the latch is released by every launch, and a full  *)
(* ring is freed by its consumers, even those that stop, panic or are       *)
(* aborted (publisher.rs:29-32).                                            *)
EmitReturns == \A c \in Calls : call[c] = "spinning" ~> call[c] = "idle"

(* Every event is handled by every listener that subscribed before it, in   *)
(* order and whether or not the bus is still there, unless the listener     *)
(* ends first: as MaxEvents bounds the streams, every listener catches up   *)
(* with its own (listener/mod.rs:65-78).                                    *)
EventsHandled == []<>(\A l \in consumers : ~Ring!HasEvent(l) /\ pc[l] # "handle")

(* drain() returns once the clones and typed emitters are dropped: that     *)
(* ends the streams, hence the tasks, hence the wait (bus.rs:158-174).      *)
DrainTerminates == \A b \in Buses : bus[b] = "waiting" ~> bus[b] \in {"drained", "abandoned"}

(* An emit that is held back is owed its turn: while the latch is closed, by *)
(* a listener that has still to release it; while its ring is full, by one  *)
(* that is behind and alive, to take its next event or to give up its place *)
(* (publisher.rs:29-32).                                                    *)
EmitOwed ==
  \A c \in Calls :
    /\ call[c] = "spinning" /\ ~Latch!Open =>
         \E l \in Listeners : pc[l] \in {"starting", "subscribed"}
    /\ call[c] = "passed" /\ ~Ring!HasRoom(TypeOf[c]) =>
         \E l \in Ring!Subscribers(TypeOf[c]) : Ring!HasEvent(l) /\ ~Over(l)

\* A clone that somebody has still to drop, or is dropping.
WillGo(c) ==
  \/ bus[c] \in {"dropping", "releasing"}
  \/ bus[c] = "live" /\ \A l \in Listeners : c \in Owned[l] => pc[l] # "dropped"

(* A drain that sleeps is not forgotten: in wait(), a task has still to     *)
(* leave the wait group or to notify; after it, a clone has still to go,    *)
(* and not with a listener that is gone already (bus.rs:158-174, 222-231).  *)
DrainOwed ==
  \A b \in Buses :
    /\ waiter[b] = "park" /\ idle[b] # "fired" =>
         \E l \in Listeners : guard[l] = "notifying" \/ (pc[l] # "unbound" /\ ~Over(l))
    /\ dropped[b] = "armed" => \E c \in Buses : WillGo(c)

(* If every clone was released through close(), one of them drains          *)
(* (bus.rs:181-189).                                                        *)
CloseTriggersDrain == Handle!CloseTriggersDrain

(* The bus keeps its promise (emit.rs, lib.rs:65-72): an event called after *)
(* a bind reaches that listener, events are handled in order and once, a    *)
(* drain returns when no clone is left and the listeners it found are over, *)
(* and from then on nobody binds a listener.                                *)
Phase(l) ==
  CASE pc[l] = "unbound" -> "unbound"
    [] pc[l] = "starting" -> "bound"
    [] l \in consumers -> "listening"
    [] OTHER -> "over"

DrainPhase(b) ==
  CASE bus[b] = "drained" -> "returned"
    [] bus[b] = "abandoned" -> "abandoned"
    [] OTHER -> IF Handle!Draining(b) THEN "draining" ELSE "idle"

Promise == INSTANCE EventBus WITH
  clones <- {b \in Buses : bus[b] = "live"},
  phase  <- [l \in Listeners |-> Phase(l)],
  log    <- tail,
  at     <- pos,
  call   <- [c \in Calls |-> IF call[c] = "idle" THEN "idle" ELSE "called"],
  reach  <- before,
  drain  <- [b \in Buses |-> DrainPhase(b)],
  wait   <- known

KeepsPromise == Promise!Spec

(* bus.rs:154 says drain performs "a global drain, waiting for all active   *)
(* tasks to complete and waiting for all Bus replicas to be dropped".       *)
DrainLeavesNoTask ==
  \A b \in Buses :
    bus[b] = "drained" => \A l \in Listeners : pc[l] = "unbound" \/ Over(l)
===============================================================================
