--------------------------- MODULE EvnoPromiseProofs --------------------------
(***************************************************************************)
(* What the bus promises, for every number of listeners, clones, calls,     *)
(* typed emitters and event types: a listener whose stream ended has been   *)
(* given every event there will ever be, every step of Evno is a step of    *)
(* EventBus or changes nothing of it, each part of the bus does what it     *)
(* does alone, so that what was proved of the parts holds in the bus, and   *)
(* an emit or a drain that is held back is owed its turn by somebody.       *)
(***************************************************************************)
EXTENDS EvnoProofs

-----------------------------------------------------------------------------
(* Who is subscribed, and to what. *)

streamVars == <<pc, tail, pos, consumers, held>>

Listening == {"subscribed", "begin", "loop", "select", "handle", "after"}

StreamTypes ==
  /\ pc \in [Listeners -> Points]
  /\ tail \in [Types -> Nat]
  /\ pos \in [Listeners -> Nat]
  /\ consumers \subseteq Listeners
  /\ held \subseteq Listeners

\* A task has its Consumer while it listens, and may still have it when it
\* is about to exit.
ConsumersListen ==
  \A l \in Listeners :
    /\ pc[l] \in Listening => l \in consumers
    /\ l \in consumers => pc[l] \in Listening \cup {"exiting"}

\* An event in hand is an event of the ring, in the hand of a consumer that
\* handles it or was stopped while it did.
Handling(l) == {"handle"} \cup (IF l \in Faulty THEN {"exiting"} ELSE {})

InHand ==
  \A l \in held : pc[l] \in Handling(l) /\ l \in consumers /\ pos[l] < tail[TypeOf[l]]

StreamInv == StreamTypes /\ ConsumersListen /\ InHand

LEMMA TypesOfListeners == \A l \in Listeners : TypeOf[l] \in Types
BY EvnoConstants

LEMMA TypesOfCalls == \A c \in Calls : TypeOf[c] \in Types
BY EvnoConstants

LEMMA StreamInvInit == Init => StreamInv
<1> SUFFICES ASSUME Init PROVE StreamInv
  OBVIOUS
<1>1. /\ pc = [l \in Listeners |-> "unbound"] /\ tail = [t \in Types |-> 0]
      /\ pos = [l \in Listeners |-> 0] /\ consumers = {} /\ held = {}
  BY DEF Init, Task!Init, Ring!Init
<1> QED
  BY <1>1 DEF StreamInv, StreamTypes, Points, ConsumersListen, Listening, InHand

LEMMA StreamFrame ==
  ASSUME StreamInv, UNCHANGED streamVars
  PROVE  StreamInv'
BY DEF streamVars, StreamInv, StreamTypes, ConsumersListen, InHand

\* Steps of a task that leave the ring alone, but for the guard it may take.
LEMMA StreamMove ==
  ASSUME StreamInv, UNCHANGED <<tail, pos, consumers>>, NEW l \in Listeners,
         NEW to \in Points, pc' = [pc EXCEPT ![l] = to],
         held' = held \/ held' = held \cup {l},
         l \in held' => to \in Handling(l) /\ l \in consumers /\ pos[l] < tail[TypeOf[l]],
         to \in Listening => pc[l] \in Listening,
         pc[l] \in Listening => to \in Listening \cup {"exiting"},
         pc[l] = "exiting" => l \notin consumers
  PROVE  StreamInv'
<1>1. StreamTypes'
  BY DEF StreamInv, StreamTypes
<1>2. ConsumersListen'
  BY DEF StreamInv, StreamTypes, ConsumersListen
<1>3. InHand'
  BY DEF StreamInv, StreamTypes, InHand
<1> QED
  BY <1>1, <1>2, <1>3 DEF StreamInv

LEMMA PublishStream ==
  ASSUME StreamInv, NEW c \in Calls, Publish(c)
  PROVE  StreamInv'
<1>1. /\ UNCHANGED <<pc, pos, consumers, held>>
      /\ UNCHANGED tail \/ tail' = [tail EXCEPT ![TypeOf[c]] = @ + 1]
  BY DEF Publish, Ring!Publish, taskVars
<1>2. StreamTypes' /\ \A t \in Types : tail'[t] >= tail[t]
  BY <1>1, TypesOfCalls DEF StreamInv, StreamTypes
<1>3. ConsumersListen'
  BY <1>1 DEF StreamInv, ConsumersListen
<1>4. InHand'
  BY <1>1, <1>2, TypesOfListeners DEF StreamInv, StreamTypes, InHand
<1> QED
  BY <1>2, <1>3, <1>4 DEF StreamInv

LEMMA SubscribeStream ==
  ASSUME StreamInv, NEW l \in Listeners, Subscribe(l)
  PROVE  StreamInv'
<1>1. /\ pc[l] = "starting" /\ pc' = [pc EXCEPT ![l] = "subscribed"]
      /\ consumers' = consumers \cup {l} /\ UNCHANGED <<tail, held>>
      /\ pos' = [pos EXCEPT ![l] = tail[TypeOf[l]]]
  BY DEF Subscribe, Task!Subscribe, Task!Goto, Task!At, Ring!Subscribe
<1>2. StreamTypes'
  BY <1>1, TypesOfListeners DEF StreamInv, StreamTypes, Points
<1>3. ConsumersListen'
  BY <1>1 DEF StreamInv, StreamTypes, ConsumersListen, Listening
<1>4. InHand'
  BY <1>1 DEF StreamInv, StreamTypes, InHand, Handling
<1> QED
  BY <1>2, <1>3, <1>4 DEF StreamInv

LEMMA ReleaseStream ==
  ASSUME StreamInv, NEW l \in Listeners, ReleaseEvent(l)
  PROVE  StreamInv'
<1>1. /\ l \in held /\ held' = held \ {l}
      /\ UNCHANGED <<pc, consumers, tail>> /\ pos' = [pos EXCEPT ![l] = @ + 1]
  BY DEF ReleaseEvent, Ring!ReleaseEvent, taskVars
<1>2. StreamTypes'
  BY <1>1 DEF StreamInv, StreamTypes
<1>3. ConsumersListen'
  BY <1>1 DEF StreamInv, StreamTypes, ConsumersListen
<1>4. InHand'
  BY <1>1 DEF StreamInv, StreamTypes, InHand
<1> QED
  BY <1>2, <1>3, <1>4 DEF StreamInv

LEMMA ExitStream ==
  ASSUME StreamInv, NEW l \in Listeners, Exit(l)
  PROVE  StreamInv'
<1>1. /\ pc[l] = "exiting" /\ pc' = [pc EXCEPT ![l] = "ended"]
      /\ UNCHANGED <<pos, tail, held>> /\ consumers' = consumers \ {l} /\ l \notin held
  BY DEF Exit, Task!Exit, Task!Goto, Task!At, Ring!DropConsumer
<1>2. StreamTypes'
  BY <1>1 DEF StreamInv, StreamTypes, Points
<1>3. ConsumersListen'
  BY <1>1 DEF StreamInv, StreamTypes, ConsumersListen, Listening
<1>4. InHand'
  BY <1>1 DEF StreamInv, StreamTypes, InHand
<1> QED
  BY <1>2, <1>3, <1>4 DEF StreamInv

(* The steps of a task between its subscription and its exit.               *)
Inside(l) ==
  DropLauncher(l) \/ TakeEvent(l) \/ StreamEnd(l) \/ HandleDone(l) \/ TaskAlone(l)

LEMMA InsideMoves ==
  ASSUME StreamInv, NEW l \in Listeners, Inside(l)
  PROVE  /\ UNCHANGED <<tail, pos, consumers>>
         /\ held' = held \/ held' = held \cup {l}
         /\ pc[l] \in Listening
         /\ \E to \in Listening \cup {"exiting"} :
              /\ pc' = [pc EXCEPT ![l] = to]
              /\ l \in held' => to = "handle" /\ pos[l] < tail[TypeOf[l]]
<1>1. pc[l] # "handle" /\ pc[l] # "exiting" => l \notin held
  BY DEF StreamInv, InHand, Handling
<1>2. CASE DropLauncher(l)
  BY <1>1, <1>2 DEF DropLauncher, Task!DropLauncher, Task!Goto, Task!At, Listening, ringVars
<1>3. CASE TakeEvent(l)
  BY <1>3 DEF TakeEvent, Task!TakeEvent, Task!At, Ring!TakeEvent, Ring!HasEvent, Listening
<1>4. CASE StreamEnd(l)
  BY <1>1, <1>4 DEF StreamEnd, Task!StreamEnd, Task!Goto, Task!At, Listening, ringVars
<1>5. CASE HandleDone(l)
  BY <1>5 DEF HandleDone, Task!HandleDone, Task!At, Listening, ringVars
<1>6. CASE TaskAlone(l)
  BY <1>1, <1>6 DEF TaskAlone, Task!Begin, Task!AfterDone, Task!CheckCancel,
    Task!SelectCancelled, Task!Goto, Task!At, Listening, ringVars
<1> QED
  BY <1>2, <1>3, <1>4, <1>5, <1>6 DEF Inside

LEMMA InsideStream ==
  ASSUME StreamInv, NEW l \in Listeners, Inside(l)
  PROVE  StreamInv'
<1>1. /\ Listening \cup {"exiting"} \subseteq Points
      /\ "exiting" \notin Listening
  BY DEF Listening, Points
<1>2. l \in consumers /\ "handle" \in Handling(l)
  BY InsideMoves DEF StreamInv, ConsumersListen, Handling
<1> QED
  BY <1>1, <1>2, InsideMoves, StreamMove

LEMMA DropListenerStream ==
  ASSUME StreamInv, NEW l \in Listeners, DropListener(l)
  PROVE  StreamInv'
<1>1. /\ pc[l] = "ended" /\ pc' = [pc EXCEPT ![l] = "dropped"]
      /\ UNCHANGED <<pos, tail, consumers, held>>
  BY DEF DropListener, Task!DropListener, Task!Goto, Task!At, ringVars
<1> QED
  BY <1>1, StreamMove DEF StreamInv, InHand, Handling, Points, Listening

LEMMA FaultStream ==
  ASSUME StreamInv, NEW l \in Listeners, Panic(l) \/ Abort(l)
  PROVE  StreamInv'
<1>1. /\ pc[l] \in {"starting", "select", "begin", "handle", "after"}
      /\ pc' = [pc EXCEPT ![l] = "exiting"]
      /\ l \in Faulty /\ UNCHANGED <<pos, tail, consumers, held>>
  BY DEF Panic, Abort, Task!Panic, Task!Abort, Task!Hooks, Task!Goto, Task!At, ringVars
<1> QED
  BY <1>1, StreamMove DEF StreamInv, InHand, Handling, Points, Listening

LEMMA BindStream ==
  ASSUME StreamInv, NEW b \in Buses, NEW l \in Listeners, Bind(b, l)
  PROVE  StreamInv'
<1>1. /\ pc[l] = "unbound" /\ pc' = [pc EXCEPT ![l] = "starting"]
      /\ UNCHANGED <<pos, tail, consumers, held>>
  BY DEF Bind, Task!Spawn, Task!Goto, Task!At, ringVars
<1> QED
  BY <1>1, StreamMove DEF StreamInv, InHand, Handling, Points, Listening

\* The other steps are none of a task's.
LEMMA AsideStream ==
  ASSUME StreamInv,
         \/ \E c \in Calls : EmitCall(c) \/ EmitPass(c) \/ EmitAbandon(c)
         \/ \E l \in Listeners : GuardNotify(l)
         \/ \E b \in Buses, p \in Emitters : ToEmitter(b, p)
         \/ \E p \in Emitters : DropEmitter(p)
         \/ \E k \in Tokens : Cancel(k)
         \/ \E b, c \in Buses : Clone(b, c)
         \/ \E b \in Buses : DrainStep(b) \/ Discard(b) \/ AbandonDrain(b)
  PROVE  StreamInv'
<1>1. UNCHANGED streamVars
  BY DEF EmitCall, EmitPass, EmitAbandon, GuardNotify, ToEmitter, DropEmitter, Cancel,
    Task!Cancel, Clone, DrainStep, DropCheck, Release, WaitStep, WaitReturns, DrainReturns,
    Discard, DropBus, Drain, Close, AbandonDrain, ringVars, taskVars, streamVars
<1> QED
  BY <1>1, StreamFrame

LEMMA StreamInvStep == StreamInv /\ [Next]_vars => StreamInv'
<1> SUFFICES ASSUME StreamInv, [Next]_vars PROVE StreamInv'
  OBVIOUS
<1>1. ASSUME NEW l \in Listeners, TaskStep(l) PROVE StreamInv'
  BY <1>1, SubscribeStream, InsideStream, ReleaseStream, ExitStream, DropListenerStream,
    AsideStream DEF TaskStep, Inside
<1>2. ASSUME NEW c \in Calls, EmitStep(c) PROVE StreamInv'
  BY <1>2, AsideStream, PublishStream DEF EmitStep
<1>3. ASSUME NEW b \in Buses, DrainStep(b) PROVE StreamInv'
  BY <1>3, AsideStream
<1>4. CASE UserStep
  BY <1>4, FaultStream, BindStream, AsideStream DEF UserStep
<1>5. CASE UNCHANGED vars
  BY <1>5, StreamFrame DEF vars, ringVars, taskVars, streamVars
<1> QED
  BY <1>1, <1>2, <1>3, <1>4, <1>5 DEF Next

-----------------------------------------------------------------------------
(* Why a stream that ended is complete. *)

\* An emit in flight goes through a clone or emitter that is alive.
SendersAlive == \A c \in Calls : call[c] # "idle" => Alive(Via[c])

\* What a listener holds is used by the code of the listener alone.
OwnedIdle ==
  \A l \in Listeners : \A s \in Owned[l] :
    InUse(s) => pc[l] = "unbound" \/ pc[l] \in Task!Hooks(l)

NotAhead == \A l \in Listeners : pos[l] <= tail[TypeOf[l]]

Finished(l) == pc[l] \in {"after", "exiting", "ended", "dropped"}

\* Nothing is left in the ring, and nobody is left to publish.
StreamOver(l) == pos[l] = tail[TypeOf[l]] /\ ~Open(TypeOf[l])

FinishedAreOver ==
  \A l \in Listeners \ Faulty : Finished(l) /\ ~Task!Cancelled(l) => StreamOver(l)

CallTypes == call \in [Calls -> {"idle", "spinning", "passed"}]

EndInv ==
  /\ CallTypes /\ HandleInv /\ StreamInv
  /\ emitter \in [Emitters -> {"none", "live", "gone"}]
  /\ SendersAlive /\ OwnedIdle /\ NotAhead /\ FinishedAreOver

senderVars == <<bus, emitter>>

CallStep(c) == EmitCall(c) \/ EmitPass(c) \/ Publish(c) \/ EmitAbandon(c)

\* A step is one of an emit, which nobody's state but the ring's depends on,
\* or it leaves the emits and the rings' tails alone.
LEMMA EmitsOrNot ==
  ASSUME [Next]_vars
  PROVE  \/ (\E c \in Calls : CallStep(c)) /\ UNCHANGED <<pc, senderVars>>
         \/ UNCHANGED <<call, tail>>
<1>1. ASSUME NEW c \in Calls, CallStep(c) PROVE UNCHANGED <<pc, senderVars>>
  BY <1>1 DEF CallStep, EmitCall, EmitPass, Publish, EmitAbandon, taskVars, busVars, ownVars,
    senderVars
<1>2. ASSUME NEW l \in Listeners, TaskStep(l) PROVE UNCHANGED <<call, tail>>
  BY <1>2 DEF TaskStep, Subscribe, Ring!Subscribe, DropLauncher, Latch!Unlock, TakeEvent,
    Ring!TakeEvent, StreamEnd, ReleaseEvent, Ring!ReleaseEvent, HandleDone, TaskAlone, Exit, Ring!DropConsumer, GuardNotify,
    DropListener, latchVars, ringVars
<1>3. ASSUME NEW b \in Buses, DrainStep(b) PROVE UNCHANGED <<call, tail>>
  BY <1>3 DEF DrainStep, DropCheck, Release, WaitStep, WaitReturns, DrainReturns, latchVars, ringVars
<1>4. ASSUME UserStep PROVE (\E c \in Calls : CallStep(c)) \/ UNCHANGED <<call, tail>>
  BY <1>4 DEF UserStep, CallStep, Panic, Abort, Latch!Unlock, Bind, Latch!Lock, ToEmitter,
    DropEmitter, Cancel, Clone, Discard, DropBus, Drain, Close, AbandonDrain, latchVars, ringVars
<1>5. ASSUME UNCHANGED vars PROVE UNCHANGED <<call, tail>>
  BY <1>5 DEF vars, latchVars, ringVars
<1> QED
  BY <1>1, <1>2, <1>3, <1>4, <1>5 DEF Next, EmitStep, CallStep

\* A task moves only when no emit of its listener is in flight.
LEMMA MovesReturn ==
  ASSUME EndInv, [Next]_vars, NEW l \in Listeners
  PROVE  pc'[l] = pc[l] \/ Returning(l)
<1>1. pc \in [Listeners -> Points]
  BY DEF EndInv, StreamInv, StreamTypes
<1>2. ASSUME pc[l] \in Points \ {"unbound", "begin", "handle", "after"} PROVE Returning(l)
  BY <1>2 DEF EndInv, OwnedIdle, Returning, Task!Hooks
<1>3. ASSUME NEW m \in Listeners, TaskStep(m) PROVE pc'[l] = pc[l] \/ Returning(l)
  <2>1. CASE HandleDone(m) \/ TaskAlone(m)
    BY <1>1, <1>2, <2>1 DEF HandleDone, Task!HandleDone, TaskAlone, Task!Begin, Task!AfterDone,
      Task!CheckCancel, Task!SelectCancelled, Task!Goto, Task!At, Points
  <2>2. CASE Subscribe(m) \/ DropLauncher(m) \/ TakeEvent(m) \/ StreamEnd(m)
             \/ Exit(m) \/ DropListener(m)
    BY <1>1, <1>2, <2>2 DEF Subscribe, Task!Subscribe, DropLauncher, Task!DropLauncher, TakeEvent,
      Task!TakeEvent, StreamEnd, Task!StreamEnd, Exit, Task!Exit, DropListener,
      Task!DropListener, Task!Goto, Task!At, Points
  <2>3. CASE ReleaseEvent(m) \/ GuardNotify(m)
    BY <2>3 DEF ReleaseEvent, GuardNotify, taskVars
  <2> QED
    BY <1>3, <2>1, <2>2, <2>3 DEF TaskStep
<1>4. CASE UserStep
  <2>1. ASSUME NEW m \in Listeners, Panic(m) \/ Abort(m) PROVE pc'[l] = pc[l] \/ Returning(l)
    BY <1>1, <2>1 DEF Panic, Task!Panic, Abort, Task!Abort, Task!Goto, Task!At
  <2>2. ASSUME NEW b \in Buses, NEW m \in Listeners, Bind(b, m)
        PROVE  pc'[l] = pc[l] \/ Returning(l)
    BY <1>1, <2>2 DEF Bind, Movable, Returning, Task!Spawn, Task!Goto, Task!At
  <2> QED
    BY <1>4, <2>1, <2>2 DEF UserStep, EmitCall, EmitAbandon, ToEmitter, DropEmitter, Cancel,
      Task!Cancel, Clone, Discard, DropBus, Drain, Close, AbandonDrain, taskVars
<1>5. CASE \/ \E c \in Calls : EmitStep(c)
           \/ \E b \in Buses : DrainStep(b)
           \/ UNCHANGED vars
  BY <1>5 DEF EmitStep, EmitPass, Publish, DrainStep, DropCheck, Release, WaitStep, WaitReturns,
    DrainReturns, vars, taskVars
<1> QED
  BY <1>3, <1>4, <1>5 DEF Next

LEMMA OwnedIdleStep ==
  ASSUME EndInv, [Next]_vars
  PROVE  OwnedIdle'
<1> SUFFICES ASSUME NEW l \in Listeners, NEW s \in Owned[l], InUse(s)'
             PROVE  pc'[l] = "unbound" \/ pc'[l] \in Task!Hooks(l)
  BY DEF OwnedIdle, Task!Hooks
<1>1. CASE UNCHANGED call
  <2>1. InUse(s)
    BY <1>1 DEF InUse
  <2> QED
    BY <2>1, MovesReturn DEF EndInv, OwnedIdle, Returning
<1>2. ASSUME NEW c \in Calls, CallStep(c), UNCHANGED pc
      PROVE  pc'[l] = "unbound" \/ pc'[l] \in Task!Hooks(l)
  <2>1. CASE InUse(s)
    BY <1>2, <2>1 DEF EndInv, OwnedIdle
  <2>2. CASE ~InUse(s)
    <3>1. EmitCall(c) /\ Via[c] = s
      BY <1>2, <2>2 DEF EndInv, CallTypes, InUse, CallStep, EmitCall, Latch!Call, EmitPass,
        Latch!Pass, Publish, Latch!Finish, EmitAbandon, Latch!Abandon
    <3> QED
      BY <1>2, <3>1 DEF EmitCall, Usable
  <2> QED
    BY <2>1, <2>2
<1> QED
  BY <1>1, <1>2, EmitsOrNot

\* What an emit in flight borrows is not dropped.
LEMMA BorrowedStays ==
  ASSUME EndInv, [Next]_vars, NEW s \in Buses \cup Emitters, Alive(s), InUse(s)
  PROVE  Alive(s)'
<1>1. bus \in [Buses -> {"unborn", "live", "dropping", "releasing", "waiting",
                         "awaiting", "drained", "abandoned", "gone"}]
      /\ emitter \in [Emitters -> {"none", "live", "gone"}]
  BY DEF EndInv, HandleInv, HandleTypes
<1>2. ASSUME UNCHANGED senderVars PROVE Alive(s)'
  BY <1>2 DEF senderVars, Alive
<1>3. ASSUME NEW l \in Listeners, DropOwned(l), Returning(l) PROVE Alive(s)'
  <2>1. s \notin Owned[l]
    BY <1>3 DEF Returning
  <2> QED
    BY <1>1, <1>3, <2>1 DEF DropOwned, Alive, Handle!DropBus, Handle!At, busVars
<1>4. ASSUME NEW l \in Listeners, TaskStep(l) PROVE Alive(s)'
  <2>1. CASE DropListener(l)
    <3>1. Returning(l)
      BY <2>1 DEF EndInv, OwnedIdle, Returning, DropListener, Task!DropListener, Task!Goto,
        Task!At, Task!Hooks
    <3> QED
      BY <1>3, <2>1, <3>1 DEF DropListener
  <2> QED
    BY <1>2, <1>4, <2>1 DEF TaskStep, Subscribe, DropLauncher, TakeEvent, StreamEnd,
      ReleaseEvent, HandleDone, TaskAlone, Exit, GuardNotify, busVars, ownVars, senderVars
<1>5. ASSUME NEW b \in Buses, Discard(b) PROVE Alive(s)'
  <2>1. b # s /\ UNCHANGED emitter /\ bus' = [bus EXCEPT ![b] = "dropping"]
    BY <1>5 DEF Discard, DropBus, Drain, Close, MayGo, Handle!DropBus, Handle!Drain, Handle!Close,
      Handle!At, ownVars
  <2> QED
    BY <1>1, <2>1 DEF Alive
<1>6. ASSUME NEW b \in Buses, DrainStep(b) \/ AbandonDrain(b) PROVE Alive(s)'
  <2>1. \/ UNCHANGED bus
        \/ bus[b] # "live" /\ \E to : bus' = [bus EXCEPT ![b] = to]
    BY <1>6 DEF DrainStep, DropCheck, Handle!DropCheck, Release, Handle!Release, WaitStep,
      WaitReturns, Handle!WaitReturns, DrainReturns, Handle!DrainReturns, AbandonDrain,
      Handle!Abandon, Handle!At, busVars
  <2>2. UNCHANGED emitter
    BY <1>6 DEF DrainStep, DropCheck, Release, WaitStep, WaitReturns, DrainReturns, AbandonDrain,
      ownVars
  <2> QED
    BY <1>1, <2>1, <2>2 DEF Alive
<1>7. CASE UserStep
  <2>1. ASSUME NEW l \in Listeners, Panic(l) \/ Abort(l) PROVE Alive(s)'
    BY <1>2, <1>3, <2>1 DEF Panic, Abort, busVars, ownVars, senderVars
  <2>2. ASSUME NEW b \in Buses, NEW p \in Emitters, ToEmitter(b, p) PROVE Alive(s)'
    BY <1>1, <2>2 DEF ToEmitter, Alive, busVars
  <2>3. ASSUME NEW p \in Emitters, DropEmitter(p) PROVE Alive(s)'
    BY <1>1, <2>3 DEF DropEmitter, Alive, busVars
  <2>4. ASSUME NEW b \in Buses, NEW c \in Buses, Clone(b, c) PROVE Alive(s)'
    BY <1>1, <2>4 DEF Clone, Handle!Clone, Alive, ownVars
  <2> QED
    BY <1>2, <1>5, <1>6, <1>7, <2>1, <2>2, <2>3, <2>4 DEF UserStep, EmitCall, EmitAbandon, Bind,
      Cancel, busVars, ownVars, senderVars
<1>8. CASE (\E c \in Calls : EmitStep(c)) \/ UNCHANGED vars
  BY <1>2, <1>8 DEF EmitStep, EmitPass, Publish, vars, busVars, ownVars, senderVars
<1> QED
  BY <1>4, <1>6, <1>7, <1>8 DEF Next

LEMMA SendersAliveStep ==
  ASSUME EndInv, [Next]_vars
  PROVE  SendersAlive'
<1> SUFFICES ASSUME NEW c \in Calls, call'[c] # "idle" PROVE Alive(Via[c])'
  BY DEF SendersAlive, Alive
<1>1. Via[c] \in Buses \cup Emitters
  BY EvnoConstants
<1>2. CASE UNCHANGED call
  BY <1>1, <1>2, BorrowedStays DEF EndInv, SendersAlive, InUse
<1>3. ASSUME NEW d \in Calls, CallStep(d), UNCHANGED senderVars PROVE Alive(Via[c])'
  <2>1. Alive(Via[c])
    BY <1>3 DEF EndInv, CallTypes, SendersAlive, CallStep, EmitCall, Usable, Latch!Call, EmitPass,
      Latch!Pass, Publish, Latch!Finish, EmitAbandon, Latch!Abandon
  <2> QED
    BY <1>3, <2>1 DEF Alive, senderVars
<1> QED
  BY <1>2, <1>3, EmitsOrNot

\* With no clone left there never is one again.
LEMMA ClosedIsDead ==
  ASSUME EndInv, NEW t \in Types, ~Open(t)
  PROVE  refs = 0 /\ Handle!Holders = {}
<1>1. refs \in Nat /\ refs = Cardinality(Handle!Holders) /\ ~(refs > 0)
  BY DEF EndInv, HandleInv, HandleTypes, RefsCounted, Open
<1> QED
  BY <1>1, CloneHoldersFinite, FS_EmptySet

\* Nobody starts to hold a Publisher but through a clone.
LEMMA PublishersFromClones ==
  ASSUME EndInv, [Next]_vars, \A b \in Buses : bus[b] # "live"
  PROVE  /\ \A p \in Emitters : emitter'[p] = "live" => emitter[p] = "live"
         /\ \A l \in Listeners : pc'[l] \in Launching => pc[l] \in Launching
<1>1. pc \in [Listeners -> Points] /\ emitter \in [Emitters -> {"none", "live", "gone"}]
  BY DEF EndInv, StreamInv, StreamTypes
<1>2. ASSUME UNCHANGED <<pc, emitter>>
      PROVE  /\ \A p \in Emitters : emitter'[p] = "live" => emitter[p] = "live"
             /\ \A l \in Listeners : pc'[l] \in Launching => pc[l] \in Launching
  BY <1>2
<1>3. ASSUME NEW l \in Listeners, TaskStep(l) \/ Panic(l) \/ Abort(l)
      PROVE  \A m \in Listeners : pc'[m] \in Launching => pc[m] \in Launching
  <2>1. \/ UNCHANGED pc
        \/ \E to : pc' = [pc EXCEPT ![l] = to] /\ (to \in Launching => pc[l] \in Launching)
    BY <1>3 DEF Launching, TaskStep, Panic, Task!Panic, Abort, Task!Abort, Subscribe,
      Task!Subscribe, DropLauncher, Task!DropLauncher, TakeEvent, Task!TakeEvent, StreamEnd,
      Task!StreamEnd, ReleaseEvent, HandleDone, Task!HandleDone, TaskAlone, Task!Begin,
      Task!AfterDone, Task!CheckCancel, Task!SelectCancelled, Exit, Task!Exit, GuardNotify,
      DropListener, Task!DropListener, Task!Goto, Task!At, taskVars
  <2> QED
    BY <1>1, <2>1
<1>4. ASSUME NEW l \in Listeners, TaskStep(l) \/ Panic(l) \/ Abort(l)
      PROVE  \A p \in Emitters : emitter'[p] = "live" => emitter[p] = "live"
  BY <1>1, <1>4 DEF TaskStep, Panic, Abort, Subscribe, DropLauncher, TakeEvent, StreamEnd,
    ReleaseEvent, HandleDone, TaskAlone, Exit, GuardNotify, DropListener, DropOwned, ownVars
<1>5. ASSUME NEW b \in Buses PROVE ~Usable(b)
  BY DEF Usable, Alive
<1>6. CASE UserStep
  <2>1. CASE \E p \in Emitters : DropEmitter(p)
    BY <1>1, <2>1 DEF DropEmitter, taskVars
  <2> QED
    BY <1>2, <1>3, <1>4, <1>5, <1>6, <2>1 DEF UserStep, EmitCall, EmitAbandon, Bind, ToEmitter,
      Cancel, Task!Cancel, Clone, Discard, DropBus, Drain, Close, AbandonDrain, taskVars, ownVars
<1>7. CASE \/ \E c \in Calls : EmitStep(c)
           \/ \E b \in Buses : DrainStep(b)
           \/ UNCHANGED vars
  BY <1>2, <1>7 DEF EmitStep, EmitPass, Publish, DrainStep, DropCheck, Release, WaitStep,
    WaitReturns, DrainReturns, vars, taskVars, ownVars
<1> QED
  BY <1>3, <1>4, <1>6, <1>7 DEF Next

LEMMA ClosedStays ==
  ASSUME EndInv, [Next]_vars, NEW t \in Types, ~Open(t)
  PROVE  ~Open(t)'
<1>1. \A b \in Buses : bus[b] \notin {"live", "dropping", "releasing"}
  BY ClosedIsDead DEF Handle!Holders
<1>2. ~(refs' > 0)
  <2>1. CASE UNCHANGED busVars
    BY <2>1 DEF busVars, Open
  <2>2. ASSUME NEW b \in Buses, HandleStep(b) PROVE UNCHANGED refs
    BY <1>1, <2>2 DEF HandleStep, Handle!BusStep, Handle!DropCheck, Handle!Release,
      Handle!WaitReturns, Handle!DrainReturns, Handle!Discard, Handle!DropBus, Handle!Drain,
      Handle!Close, Handle!Abandon, Handle!Clone, Handle!At
  <2> QED
    BY <2>1, <2>2, StepsOfHandle DEF Open
<1> QED
  BY <1>1, <1>2, PublishersFromClones DEF Open, Launching

\* Nobody publishes an event of a type nobody has a Publisher of.
LEMMA ClosedTailStays ==
  ASSUME EndInv, [Next]_vars, NEW t \in Types, ~Open(t)
  PROVE  tail'[t] = tail[t]
<1>1. tail \in [Types -> Nat]
  BY DEF EndInv, StreamInv, StreamTypes
<1>2. ASSUME NEW c \in Calls, Publish(c) PROVE TypeOf[c] # t
  <2>1. Alive(Via[c]) /\ Via[c] \in Buses \cup Emitters
    BY <1>2, EvnoConstants DEF Publish, Latch!Finish, EndInv, SendersAlive
  <2>2. Via[c] \notin Buses
    BY <2>1, ClosedIsDead DEF Alive, Handle!Holders
  <2>3. emitter[Via[c]] = "live" /\ Via[c] \in Emitters /\ TypeOf[c] = TypeOf[Via[c]]
    BY <2>1, <2>2, EvnoConstants DEF Alive
  <2> QED
    BY <2>3 DEF Open
<1>3. ASSUME NEW c \in Calls, CallStep(c) PROVE tail'[t] = tail[t]
  BY <1>1, <1>2, <1>3 DEF CallStep, EmitCall, EmitPass, EmitAbandon, Publish, Ring!Publish, ringVars
<1> QED
  BY <1>3, EmitsOrNot

LEMMA NotAheadStep ==
  ASSUME EndInv, [Next]_vars
  PROVE  NotAhead'
<1>1. tail \in [Types -> Nat] /\ pos \in [Listeners -> Nat]
  BY DEF EndInv, StreamInv, StreamTypes
<1>2. ASSUME UNCHANGED <<tail, pos>> PROVE NotAhead'
  BY <1>2 DEF EndInv, NotAhead
<1>3. ASSUME NEW c \in Calls, Publish(c) PROVE NotAhead'
  <2>1. UNCHANGED pos /\ (UNCHANGED tail \/ tail' = [tail EXCEPT ![TypeOf[c]] = @ + 1])
    BY <1>3 DEF Publish, Ring!Publish
  <2> QED
    BY <1>1, <2>1, TypesOfListeners, TypesOfCalls DEF EndInv, NotAhead
<1>4. ASSUME NEW l \in Listeners, Subscribe(l) \/ ReleaseEvent(l) PROVE NotAhead'
  <2>1. UNCHANGED tail
    BY <1>4 DEF Subscribe, Ring!Subscribe, ReleaseEvent, Ring!ReleaseEvent
  <2>2. pos' = [pos EXCEPT ![l] = tail[TypeOf[l]]]
        \/ (pos' = [pos EXCEPT ![l] = @ + 1] /\ pos[l] < tail[TypeOf[l]])
    BY <1>4 DEF Subscribe, Ring!Subscribe, ReleaseEvent, Ring!ReleaseEvent, EndInv, StreamInv,
      InHand
  <2> QED
    BY <1>1, <2>1, <2>2, TypesOfListeners DEF EndInv, NotAhead
<1>5. ASSUME NEW l \in Listeners, TaskStep(l) PROVE NotAhead'
  BY <1>2, <1>4, <1>5, InsideMoves DEF EndInv, TaskStep, Inside, Exit, Ring!DropConsumer,
    GuardNotify, DropListener, ringVars
<1>6. CASE UserStep
  BY <1>2, <1>6 DEF UserStep, Panic, Abort, EmitCall, EmitAbandon, Bind, ToEmitter, DropEmitter,
    Cancel, Clone, Discard, DropBus, Drain, Close, AbandonDrain, ringVars
<1>7. CASE \/ \E c \in Calls : EmitStep(c)
           \/ \E b \in Buses : DrainStep(b)
           \/ UNCHANGED vars
  BY <1>2, <1>3, <1>7 DEF EmitStep, EmitPass, DrainStep, DropCheck, Release, WaitStep,
    WaitReturns, DrainReturns, vars, ringVars
<1> QED
  BY <1>5, <1>6, <1>7 DEF Next

\* A listener that neither fails nor is cancelled finishes only because its
\* stream has ended.
LEMMA FinishedFrom ==
  ASSUME EndInv, [Next]_vars, NEW l \in Listeners \ Faulty, Finished(l)', ~Task!Cancelled(l)'
  PROVE  /\ pos'[l] = pos[l] /\ ~Task!Cancelled(l)
         /\ Finished(l) \/ (~Ring!HasEvent(l) /\ ~Open(TypeOf[l]))
<1> DEFINE Stays == /\ pos'[l] = pos[l] /\ ~Task!Cancelled(l)
                    /\ Finished(l) \/ (~Ring!HasEvent(l) /\ ~Open(TypeOf[l]))
<1>1. pc \in [Listeners -> Points] /\ pos \in [Listeners -> Nat]
  BY DEF EndInv, StreamInv, StreamTypes
<1>2. ASSUME UNCHANGED <<pc, pos, cancelled>> PROVE Stays
  BY <1>2 DEF Finished, Task!Cancelled
<1>3. ASSUME NEW m \in Listeners, m # l, pc'[l] = pc[l], pos'[l] = pos[l],
             cancelled \subseteq cancelled'
      PROVE  Stays
  BY <1>3 DEF Finished, Task!Cancelled
<1>4. ASSUME NEW m \in Listeners, TaskStep(m) PROVE Stays
  <2>1. CASE Subscribe(m) \/ ReleaseEvent(m) \/ HandleDone(m)
    <3>1. /\ \/ \E to \in {"subscribed", "loop"} : pc' = [pc EXCEPT ![m] = to]
             \/ UNCHANGED pc /\ m \in held
          /\ \E n : pos' = [pos EXCEPT ![m] = n]
          /\ cancelled \subseteq cancelled'
      <4>1. CASE Subscribe(m)
        BY <4>1 DEF Subscribe, Task!Subscribe, Task!Goto, Task!At, Ring!Subscribe
      <4>2. CASE ReleaseEvent(m)
        BY <4>2 DEF ReleaseEvent, Ring!ReleaseEvent, taskVars
      <4>3. CASE HandleDone(m)
        <5>1. pos' = [pos EXCEPT ![m] = pos[m]]
          BY <1>1, <4>3 DEF HandleDone, ringVars
        <5> QED
          BY <4>3, <5>1 DEF HandleDone, Task!HandleDone, Task!At
      <4> QED
        BY <2>1, <4>1, <4>2, <4>3
    <3>2. m # l
      BY <1>1, <3>1 DEF Finished, EndInv, StreamInv, InHand, Handling
    <3> QED
      BY <1>1, <1>3, <3>1, <3>2
  <2>2. CASE TaskAlone(m)
    <3>1. UNCHANGED <<pos, cancelled>> /\ \E to : pc' = [pc EXCEPT ![m] = to]
      BY <2>2 DEF TaskAlone, Task!Begin, Task!AfterDone, Task!CheckCancel, Task!SelectCancelled,
        Task!Goto, Task!At, ringVars
    <3>2. CASE m # l
      BY <1>1, <1>3, <3>1, <3>2
    <3>3. CASE m = l
      <4>1. ~Task!Cancelled(l)
        BY <3>1 DEF Task!Cancelled
      <4>2. Finished(l)
        BY <1>1, <2>2, <3>3, <4>1 DEF Finished, TaskAlone, Task!Begin, Task!AfterDone,
          Task!CheckCancel, Task!SelectCancelled, Task!Goto, Task!At
      <4> QED
        BY <3>1, <4>1, <4>2
    <3> QED
      BY <3>2, <3>3
  <2>3. CASE DropLauncher(m) \/ TakeEvent(m) \/ StreamEnd(m) \/ Exit(m) \/ DropListener(m)
    <3>1. UNCHANGED <<pos, cancelled>> /\ \E to : pc' = [pc EXCEPT ![m] = to]
      BY <2>3 DEF DropLauncher, Task!DropLauncher, TakeEvent, Ring!TakeEvent, Task!TakeEvent,
        StreamEnd, Task!StreamEnd, Exit, Task!Exit, Ring!DropConsumer, DropListener, Task!DropListener,
        Task!Goto, Task!At, ringVars
    <3>2. CASE m # l
      BY <1>1, <1>3, <3>1, <3>2
    <3>3. CASE m = l
      <4>1. Finished(l) \/ (~Ring!HasEvent(l) /\ ~Open(TypeOf[l]))
        BY <1>1, <2>3, <3>3 DEF Finished, DropLauncher, Task!DropLauncher, TakeEvent,
          Task!TakeEvent, StreamEnd, Exit, Task!Exit, DropListener, Task!DropListener,
          Task!Goto, Task!At
      <4> QED
        BY <3>1, <4>1 DEF Task!Cancelled
    <3> QED
      BY <3>2, <3>3
  <2>4. CASE GuardNotify(m)
    BY <1>2, <2>4 DEF GuardNotify, ringVars, taskVars
  <2> QED
    BY <1>4, <2>1, <2>2, <2>3, <2>4 DEF TaskStep
<1>5. CASE UserStep
  <2>1. ASSUME NEW m \in Listeners, Panic(m) \/ Abort(m) PROVE Stays
    <3>1. /\ m \in Faulty /\ UNCHANGED <<pos, cancelled>>
          /\ \E to : pc' = [pc EXCEPT ![m] = to]
      BY <2>1 DEF Panic, Task!Panic, Abort, Task!Abort, Task!Goto, Task!At, ringVars
    <3> QED
      BY <1>1, <1>3, <3>1
  <2>2. ASSUME NEW b \in Buses, NEW m \in Listeners, Bind(b, m) PROVE Stays
    <3>1. UNCHANGED <<pos, cancelled>> /\ pc' = [pc EXCEPT ![m] = "starting"]
      BY <2>2 DEF Bind, Task!Spawn, Task!Goto, Task!At, ringVars
    <3> QED
      BY <1>1, <1>3, <3>1 DEF Finished
  <2>3. ASSUME NEW k \in Tokens, Cancel(k) PROVE Stays
    BY <2>3 DEF Cancel, Task!Cancel, ringVars, Finished, Task!Cancelled
  <2> QED
    BY <1>2, <1>5, <2>1, <2>2, <2>3 DEF UserStep, EmitCall, EmitAbandon, ToEmitter, DropEmitter,
      Clone, Discard, DropBus, Drain, Close, AbandonDrain, ringVars, taskVars
<1>6. CASE \/ \E c \in Calls : EmitStep(c)
           \/ \E b \in Buses : DrainStep(b)
           \/ UNCHANGED vars
  BY <1>2, <1>6 DEF EmitStep, EmitPass, Publish, Ring!Publish, DrainStep, DropCheck, Release,
    WaitStep, WaitReturns, DrainReturns, vars, ringVars, taskVars
<1> QED
  BY <1>4, <1>5, <1>6 DEF Next

LEMMA FinishedAreOverStep ==
  ASSUME EndInv, [Next]_vars
  PROVE  FinishedAreOver'
<1> SUFFICES ASSUME NEW l \in Listeners \ Faulty, Finished(l)', ~Task!Cancelled(l)'
             PROVE  StreamOver(l)'
  BY DEF FinishedAreOver, Finished, StreamOver, Task!Cancelled, Open
<1>1. pos'[l] = pos[l] /\ StreamOver(l)
  <2>1. tail[TypeOf[l]] \in Nat /\ pos[l] \in Nat /\ pos[l] <= tail[TypeOf[l]]
    BY TypesOfListeners DEF EndInv, StreamInv, StreamTypes, NotAhead
  <2> QED
    BY <2>1, FinishedFrom DEF EndInv, FinishedAreOver, StreamOver, Ring!HasEvent
<1>2. ~Open(TypeOf[l])' /\ tail'[TypeOf[l]] = tail[TypeOf[l]]
  BY <1>1, TypesOfListeners, ClosedStays, ClosedTailStays DEF StreamOver
<1> QED
  BY <1>1, <1>2 DEF StreamOver

LEMMA EndInvInit == Init => EndInv
<1> SUFFICES ASSUME Init PROVE EndInv
  OBVIOUS
<1>1. /\ pc = [l \in Listeners |-> "unbound"] /\ tail = [t \in Types |-> 0]
      /\ pos = [l \in Listeners |-> 0] /\ call = [c \in Calls |-> "idle"]
      /\ emitter = [p \in Emitters |-> "none"]
  BY DEF Init, Task!Init, Ring!Init, Latch!Init
<1>2. CallTypes /\ SendersAlive /\ emitter \in [Emitters -> {"none", "live", "gone"}]
  BY <1>1 DEF CallTypes, SendersAlive
<1>3. OwnedIdle /\ FinishedAreOver
  BY <1>1 DEF OwnedIdle, FinishedAreOver, Finished
<1>4. NotAhead
  BY <1>1, TypesOfListeners DEF NotAhead
<1> QED
  BY <1>2, <1>3, <1>4, HandleInvInit, StreamInvInit DEF EndInv

LEMMA EndInvStep == EndInv /\ [Next]_vars => EndInv'
<1> SUFFICES ASSUME EndInv, [Next]_vars PROVE EndInv'
  OBVIOUS
<1>1. CallTypes'
  <2>1. ASSUME NEW c \in Calls, CallStep(c) PROVE CallTypes'
    BY <2>1 DEF EndInv, CallTypes, CallStep, EmitCall, Latch!Call, EmitPass, Latch!Pass, Publish,
      Latch!Finish, EmitAbandon, Latch!Abandon
  <2> QED
    BY <2>1, EmitsOrNot DEF EndInv, CallTypes
<1>2. (emitter \in [Emitters -> {"none", "live", "gone"}])'
  <2>1. ASSUME NEW l \in Listeners, TaskStep(l) \/ Abort(l)
        PROVE  emitter' \in [Emitters -> {"none", "live", "gone"}]
    BY <2>1 DEF EndInv, TaskStep, Abort, Subscribe, DropLauncher, TakeEvent, StreamEnd,
      ReleaseEvent, HandleDone, TaskAlone, Exit, GuardNotify, DropListener, DropOwned, ownVars
  <2> QED
    BY <2>1 DEF EndInv, Next, EmitStep, EmitPass, Publish, DrainStep, DropCheck, Release, WaitStep,
      WaitReturns, DrainReturns, UserStep, Panic, EmitCall, EmitAbandon, Bind, ToEmitter,
      DropEmitter, Cancel, Clone, Discard, DropBus, Drain, Close, AbandonDrain, vars, ownVars
<1>3. HandleInv' /\ StreamInv'
  BY HandleInvStep, StreamInvStep DEF EndInv
<1> QED
  BY <1>1, <1>2, <1>3, SendersAliveStep, OwnedIdleStep, NotAheadStep, FinishedAreOverStep DEF EndInv

(* Every stream ends complete: when the listener of a stream that ended,    *)
(* neither cancelled nor faulty, has run its last hook or is about to, no   *)
(* event is left behind, and none follows (listener/mod.rs:72-73).          *)
THEOREM StreamsEndComplete == Spec => []StreamEndsComplete
<1>1. EndInv => StreamEndsComplete
  BY DEF EndInv, FinishedAreOver, Finished, StreamOver, StreamEndsComplete
<1> QED
  BY <1>1, EndInvInit, EndInvStep, PTL DEF Spec

-----------------------------------------------------------------------------
(* Evno implements EventBus. *)

PromiseInv == StartInv /\ DrainInv /\ HandleInv /\ StreamInv

LEMMA PromiseInvariant == Spec => []PromiseInv
<1>1. Init => PromiseInv
  BY StartInvInit, DrainInvInit, HandleInvInit, StreamInvInit DEF PromiseInv
<1>2. PromiseInv /\ [Next]_vars => PromiseInv'
  BY StartInvStep, DrainInvStep, HandleInvStep, StreamInvStep DEF PromiseInv
<1> QED
  BY <1>1, <1>2, PTL DEF Spec

\* The abstract state, as Evno's INSTANCE of EventBus has it.
AbsClones == {b \in Buses : bus[b] = "live"}
AbsPhase == [l \in Listeners |-> Phase(l)]
AbsCall == [c \in Calls |-> IF call[c] = "idle" THEN "idle" ELSE "called"]
AbsDrain == [b \in Buses |-> DrainPhase(b)]

absVars == <<AbsClones, AbsPhase, tail, pos, AbsCall, before, AbsDrain, known>>

LEMMA Stutters ==
  ASSUME UNCHANGED absVars
  PROVE  [Promise!Next]_(Promise!vars)
BY DEF absVars, Promise!vars, AbsClones, AbsPhase, AbsCall, AbsDrain

LEMMA PhaseIs ==
  ASSUME StreamInv, NEW l \in Listeners
  PROVE  /\ Phase(l) = "unbound" <=> pc[l] = "unbound"
         /\ Phase(l) = "bound" <=> pc[l] = "starting"
         /\ Phase(l) = "listening" <=> l \in consumers
         /\ Phase(l) \in {"unbound", "bound", "listening", "over"}
BY DEF StreamInv, StreamTypes, ConsumersListen, Listening, Points, Phase

\* What the step of one task does to the phases.
LEMMA PhaseMove ==
  ASSUME NEW l \in Listeners,
         \A m \in Listeners : m # l => pc'[m] = pc[m] /\ (m \in consumers' <=> m \in consumers)
  PROVE  AbsPhase' = [AbsPhase EXCEPT ![l] = Phase(l)']
<1>1. ASSUME NEW m \in Listeners, m # l PROVE Phase(m)' = Phase(m)
  <2>1. CASE m \in consumers
    BY <1>1, <2>1 DEF Phase
  <2>2. CASE m \notin consumers
    BY <1>1, <2>2 DEF Phase
  <2> QED
    BY <2>1, <2>2
<1> QED
  BY <1>1 DEF AbsPhase

LEMMA SamePhases ==
  ASSUME UNCHANGED <<pc, consumers>>
  PROVE  UNCHANGED AbsPhase
BY DEF AbsPhase, Phase

LEMMA SameClones ==
  ASSUME UNCHANGED <<bus, dropped>>
  PROVE  UNCHANGED <<AbsClones, AbsDrain>>
BY DEF AbsClones, AbsDrain, DrainPhase, Handle!Draining

LEMMA InitRefines == Init => Promise!Init
<1> SUFFICES ASSUME Init PROVE Promise!Init
  OBVIOUS
<1>1. /\ pc = [l \in Listeners |-> "unbound"] /\ tail = [t \in Types |-> 0]
      /\ pos = [l \in Listeners |-> 0] /\ call = [c \in Calls |-> "idle"]
      /\ bus = [b \in Buses |-> IF b = First THEN "live" ELSE "unborn"]
      /\ dropped = [b \in Buses |-> "none"]
      /\ before = [c \in Calls |-> {}] /\ known = [b \in Buses |-> {}]
  BY DEF Init, Task!Init, Ring!Init, Latch!Init, Handle!Init, Handle!N!Init
<1>2. AbsClones = {First}
  BY <1>1, EvnoConstants DEF AbsClones
<1>3. AbsPhase = [l \in Listeners |-> "unbound"]
  BY <1>1, PhaseIs, StreamInvInit DEF AbsPhase
<1>4. AbsCall = [c \in Calls |-> "idle"]
  BY <1>1 DEF AbsCall
<1>5. AbsDrain = [b \in Buses |-> "idle"]
  BY <1>1 DEF AbsDrain, DrainPhase, Handle!Draining
<1> QED
  BY <1>1, <1>2, <1>3, <1>4, <1>5 DEF Promise!Init, AbsClones, AbsPhase, AbsCall, AbsDrain

-----------------------------------------------------------------------------
(* Emits *)

LEMMA CallRefines ==
  ASSUME PromiseInv, NEW c \in Calls, EmitCall(c)
  PROVE  [Promise!Next]_(Promise!vars)
<1>1. /\ call[c] = "idle" /\ call' = [call EXCEPT ![c] = "spinning"]
      /\ before' = [before EXCEPT ![c] = Starting]
      /\ UNCHANGED <<pc, consumers, tail, pos, bus, dropped, known>>
  BY DEF EmitCall, Latch!Call, taskVars, ringVars, busVars
<1>2. UNCHANGED <<AbsPhase, AbsClones, AbsDrain>>
  BY <1>1, SamePhases, SameClones
<1>3. AbsCall[c] = "idle" /\ AbsCall' = [AbsCall EXCEPT ![c] = "called"]
  BY <1>1 DEF PromiseInv, StartInv, StartTypes, AbsCall
<1>4. Starting = {l \in Listeners : AbsPhase[l] = "bound"}
  BY PhaseIs DEF PromiseInv, Starting, AbsPhase
<1>5. Promise!Call(c)
  BY <1>1, <1>2, <1>3, <1>4 DEF Promise!Call, AbsClones, AbsPhase, AbsCall, AbsDrain
<1> QED
  BY <1>5 DEF Promise!Next

LEMMA ReturnRefines ==
  ASSUME PromiseInv, NEW c \in Calls, Publish(c) \/ EmitAbandon(c)
  PROVE  Promise!Return(c)
<1>1. /\ call[c] # "idle" /\ call' = [call EXCEPT ![c] = "idle"]
      /\ before' = [before EXCEPT ![c] = {}]
      /\ UNCHANGED <<pc, consumers, pos, bus, dropped, known>>
  BY DEF Publish, EmitAbandon, Latch!Finish, Latch!Abandon, Ring!Publish, taskVars, ringVars, busVars
<1>2. UNCHANGED <<AbsPhase, AbsClones, AbsDrain>>
  BY <1>1, SamePhases, SameClones
<1>3. AbsCall[c] = "called" /\ AbsCall' = [AbsCall EXCEPT ![c] = "idle"]
  BY <1>1 DEF PromiseInv, StartInv, StartTypes, AbsCall
<1> QED
  BY <1>1, <1>2, <1>3 DEF Promise!Return, AbsClones, AbsPhase, AbsCall, AbsDrain

(* No listener the call was to reach is still starting: NoEarlyPublish.     *)
LEMMA PublishRefines ==
  ASSUME PromiseInv, NEW c \in Calls, Publish(c)
  PROVE  [Promise!Next]_(Promise!vars)
<1>1. \A l \in before[c] : AbsPhase[l] # "bound"
  <2>1. call[c] = "passed"
    BY DEF Publish, Latch!Finish
  <2>2. \A l \in before[c] : l \in Listeners /\ pc[l] # "starting"
    BY <2>1 DEF PromiseInv, StartInv, StartTypes, GuardsCounted, StartingIsOwed
  <2> QED
    BY <2>2, PhaseIs DEF PromiseInv, AbsPhase
<1>2. Ring!Subscribers(TypeOf[c]) =
        {l \in Listeners : AbsPhase[l] = "listening" /\ TypeOf[l] = TypeOf[c]}
  BY PhaseIs DEF PromiseInv, StreamInv, StreamTypes, Ring!Subscribers, AbsPhase
<1>3. tail' = IF {l \in Listeners : AbsPhase[l] = "listening" /\ TypeOf[l] = TypeOf[c]} = {}
                THEN tail ELSE [tail EXCEPT ![TypeOf[c]] = @ + 1]
  BY <1>2 DEF Publish, Ring!Publish
<1>4. Promise!Publish(c)
  BY <1>1, <1>3, ReturnRefines DEF Promise!Publish, Promise!Audience, AbsPhase
<1> QED
  BY <1>4 DEF Promise!Next

LEMMA GiveUpRefines ==
  ASSUME PromiseInv, NEW c \in Calls, EmitAbandon(c)
  PROVE  [Promise!Next]_(Promise!vars)
<1>1. Promise!Abandon(c)
  BY ReturnRefines DEF Promise!Abandon, EmitAbandon, ringVars
<1> QED
  BY <1>1 DEF Promise!Next

LEMMA PassRefines ==
  ASSUME PromiseInv, NEW c \in Calls, EmitPass(c)
  PROVE  [Promise!Next]_(Promise!vars)
<1>1. /\ call[c] = "spinning" /\ call' = [call EXCEPT ![c] = "passed"]
      /\ UNCHANGED <<before, pc, consumers, tail, pos, bus, dropped, known>>
  BY DEF EmitPass, Latch!Pass, taskVars, ringVars, busVars, ownVars
<1>2. UNCHANGED AbsCall
  BY <1>1 DEF PromiseInv, StartInv, StartTypes, AbsCall
<1> QED
  BY <1>1, <1>2, SamePhases, SameClones, Stutters DEF absVars

-----------------------------------------------------------------------------
(* Tasks *)

\* What the steps of tasks leave alone.
TaskAction(l) ==
  \/ Subscribe(l) \/ Inside(l) \/ ReleaseEvent(l) \/ Exit(l) \/ DropListener(l)
  \/ GuardNotify(l) \/ Panic(l) \/ Abort(l) \/ \E b \in Buses : Bind(b, l)

LEMMA TaskKeeps ==
  ASSUME NEW l \in Listeners, TaskAction(l)
  PROVE  UNCHANGED <<AbsCall, before, known, tail>>
<1>1. UNCHANGED <<call, before, known, tail>>
  BY DEF TaskAction, Inside, Subscribe, DropLauncher, TakeEvent, StreamEnd, ReleaseEvent,
    HandleDone, TaskAlone, Exit, GuardNotify, DropListener, Panic, Abort, Bind, Latch!Lock,
    Latch!Unlock, latchVars, ringVars, ownVars, Ring!Subscribe, Ring!TakeEvent, Ring!ReleaseEvent,
    Ring!DropConsumer
<1> QED
  BY <1>1 DEF AbsCall

LEMMA BindRefines ==
  ASSUME PromiseInv, PromiseInv', NEW b \in Buses, NEW l \in Listeners, Bind(b, l)
  PROVE  [Promise!Next]_(Promise!vars)
<1>1. /\ pc[l] = "unbound" /\ pc' = [pc EXCEPT ![l] = "starting"]
      /\ UNCHANGED <<consumers, pos, bus, dropped>> /\ bus[b] = "live"
  BY DEF Bind, Usable, Alive, Task!Spawn, Task!Goto, Task!At, ringVars, busVars
<1>2. Phase(l) = "unbound" /\ Phase(l)' = "bound"
  BY <1>1, PhaseIs DEF PromiseInv, StreamInv, StreamTypes, Phase
<1>3. AbsPhase[l] = "unbound" /\ AbsPhase' = [AbsPhase EXCEPT ![l] = "bound"]
  BY <1>1, <1>2, PhaseMove DEF PromiseInv, StreamInv, StreamTypes, AbsPhase
<1>4. AbsClones # {}
  BY <1>1 DEF AbsClones
<1>5. Promise!Bind(l)
  BY <1>1, <1>3, <1>4, SameClones, TaskKeeps
    DEF TaskAction, Promise!Bind, Promise!Goto, AbsClones, AbsPhase, AbsCall, AbsDrain
<1> QED
  BY <1>5 DEF Promise!Next

LEMMA SubscribeRefines ==
  ASSUME PromiseInv, PromiseInv', NEW l \in Listeners, Subscribe(l)
  PROVE  [Promise!Next]_(Promise!vars)
<1>1. /\ pc[l] = "starting" /\ pc' = [pc EXCEPT ![l] = "subscribed"]
      /\ consumers' = consumers \cup {l} /\ pos' = [pos EXCEPT ![l] = tail[TypeOf[l]]]
      /\ UNCHANGED <<bus, dropped>>
  BY DEF Subscribe, Task!Subscribe, Task!Goto, Task!At, Ring!Subscribe, busVars
<1>2. Phase(l) = "bound" /\ Phase(l)' = "listening"
  BY <1>1, PhaseIs DEF PromiseInv, StreamInv, StreamTypes, Phase
<1>3. AbsPhase[l] = "bound" /\ AbsPhase' = [AbsPhase EXCEPT ![l] = "listening"]
  BY <1>1, <1>2, PhaseMove DEF PromiseInv, StreamInv, StreamTypes, AbsPhase
<1>4. Promise!Listen(l)
  BY <1>1, <1>3, SameClones, TaskKeeps DEF TaskAction, Promise!Listen, Promise!Goto,
    AbsClones, AbsPhase, AbsCall, AbsDrain
<1> QED
  BY <1>4 DEF Promise!Next

\* The bus counts an event as handled once its guard has gone.
LEMMA ReleaseRefines ==
  ASSUME PromiseInv, NEW l \in Listeners, ReleaseEvent(l)
  PROVE  [Promise!Next]_(Promise!vars)
<1>1. /\ l \in held /\ UNCHANGED <<pc, consumers, bus, dropped>>
      /\ pos' = [pos EXCEPT ![l] = @ + 1]
  BY DEF ReleaseEvent, Ring!ReleaseEvent, taskVars, busVars
<1>2. l \in consumers /\ pos[l] < tail[TypeOf[l]]
  BY <1>1 DEF PromiseInv, StreamInv, InHand
<1>3. AbsPhase[l] = "listening" /\ UNCHANGED AbsPhase
  BY <1>1, <1>2, PhaseIs, SamePhases DEF PromiseInv, AbsPhase
<1>4. Promise!Handle(l)
  BY <1>1, <1>2, <1>3, SameClones, TaskKeeps DEF TaskAction, Promise!Handle,
    AbsClones, AbsPhase, AbsCall, AbsDrain
<1> QED
  BY <1>4 DEF Promise!Next

\* Between its subscription and its exit, a task only listens.
LEMMA InsideRefines ==
  ASSUME PromiseInv, PromiseInv', NEW l \in Listeners, Inside(l)
  PROVE  [Promise!Next]_(Promise!vars)
<1>1. PICK to \in Listening \cup {"exiting"} : pc' = [pc EXCEPT ![l] = to]
  BY InsideMoves DEF PromiseInv
<1>2. /\ UNCHANGED <<pos, consumers, bus, dropped>> /\ pc[l] \in Listening
  BY InsideMoves DEF PromiseInv, Inside, DropLauncher, TakeEvent, StreamEnd, HandleDone,
    TaskAlone, busVars
<1>3. l \in consumers
  BY <1>2 DEF PromiseInv, StreamInv, ConsumersListen
<1>4. Phase(l) = "listening" /\ Phase(l)' = "listening"
  BY <1>2, <1>3, PhaseIs DEF PromiseInv, Phase
<1>5. UNCHANGED AbsPhase
  BY <1>1, <1>2, <1>4, PhaseMove DEF PromiseInv, StreamInv, StreamTypes, AbsPhase
<1> QED
  BY <1>2, <1>5, SameClones, TaskKeeps, Stutters DEF TaskAction, absVars

(* A task that ends leaves the bus, unless it was aborted before it had     *)
(* subscribed, and had left then.                                           *)
LEMMA ExitRefines ==
  ASSUME PromiseInv, PromiseInv', NEW l \in Listeners, Exit(l)
  PROVE  [Promise!Next]_(Promise!vars)
<1>1. /\ pc[l] = "exiting" /\ pc' = [pc EXCEPT ![l] = "ended"]
      /\ UNCHANGED <<pos, bus, dropped>> /\ consumers' = consumers \ {l}
  BY DEF Exit, Task!Exit, Task!Goto, Task!At, Ring!DropConsumer, busVars
<1>2. Phase(l)' = "over"
  BY <1>1 DEF PromiseInv, StreamInv, StreamTypes, Phase
<1>3. AbsPhase' = [AbsPhase EXCEPT ![l] = "over"]
  BY <1>1, <1>2, PhaseMove DEF PromiseInv, StreamInv, StreamTypes
<1>4. CASE l \in consumers
  <2>1. AbsPhase[l] = "listening"
    BY <1>4, PhaseIs DEF PromiseInv, AbsPhase
  <2>2. Promise!Leave(l)
    BY <1>1, <1>3, <2>1, SameClones, TaskKeeps DEF TaskAction, Promise!Leave, Promise!Goto,
      AbsClones, AbsPhase, AbsCall, AbsDrain
  <2> QED
    BY <2>2 DEF Promise!Next
<1>5. CASE l \notin consumers
  <2>1. AbsPhase[l] = "over"
    BY <1>1, <1>5 DEF Phase, AbsPhase
  <2>2. UNCHANGED AbsPhase
    BY <1>3, <2>1 DEF AbsPhase
  <2> QED
    BY <1>1, <2>2, SameClones, TaskKeeps, Stutters DEF TaskAction, absVars
<1> QED
  BY <1>4, <1>5

\* A clone that goes with its listener is dropped as any other.
LEMMA OwnedClones ==
  ASSUME HandleInv, NEW l \in Listeners, DropOwned(l)
  PROVE  UNCHANGED AbsDrain /\ (UNCHANGED AbsClones \/ \E b \in AbsClones : AbsClones' = AbsClones \ {b})
<1>1. CASE UNCHANGED busVars
  BY <1>1, SameClones DEF busVars
<1>2. CASE \E b \in Buses : Handle!DropBus(b)
  <2>1. PICK b \in Buses : bus[b] = "live" /\ bus' = [bus EXCEPT ![b] = "dropping"] /\ UNCHANGED dropped
    BY <1>2 DEF Handle!DropBus, Handle!At
  <2>2. UNCHANGED AbsDrain
    BY <2>1 DEF HandleInv, HandleTypes, AbsDrain, DrainPhase, Handle!Draining
  <2>3. b \in AbsClones /\ AbsClones' = AbsClones \ {b}
    BY <2>1 DEF HandleInv, HandleTypes, AbsClones
  <2> QED
    BY <2>2, <2>3
<1> QED
  BY <1>1, <1>2 DEF DropOwned

LEMMA DropListenerRefines ==
  ASSUME PromiseInv, PromiseInv', NEW l \in Listeners, DropListener(l)
  PROVE  [Promise!Next]_(Promise!vars)
<1>1. /\ pc[l] = "ended" /\ pc' = [pc EXCEPT ![l] = "dropped"]
      /\ UNCHANGED <<pos, consumers>>
  BY DEF DropListener, Task!DropListener, Task!Goto, Task!At, ringVars
<1>2. l \notin consumers
  BY <1>1 DEF PromiseInv, StreamInv, ConsumersListen, Listening
<1>3. Phase(l) = "over" /\ Phase(l)' = "over"
  BY <1>1, <1>2 DEF PromiseInv, StreamInv, StreamTypes, Phase
<1>4. UNCHANGED AbsPhase
  BY <1>1, <1>3, PhaseMove DEF PromiseInv, StreamInv, StreamTypes, AbsPhase
<1>5. UNCHANGED <<AbsCall, before, known, tail>>
  BY TaskKeeps DEF TaskAction
<1>6. UNCHANGED AbsDrain /\ (UNCHANGED AbsClones \/ \E b \in AbsClones : AbsClones' = AbsClones \ {b})
  BY OwnedClones DEF PromiseInv, DropListener
<1>7. CASE UNCHANGED AbsClones
  BY <1>1, <1>4, <1>5, <1>6, <1>7, Stutters DEF absVars
<1>8. ASSUME NEW b \in AbsClones, AbsClones' = AbsClones \ {b}
      PROVE  [Promise!Next]_(Promise!vars)
  <2>1. Promise!Drop(b)
    BY <1>1, <1>4, <1>5, <1>6, <1>8 DEF Promise!Drop, AbsClones, AbsPhase, AbsCall, AbsDrain
  <2> QED
    BY <2>1 DEF Promise!Next, AbsClones
<1> QED
  BY <1>6, <1>7, <1>8

LEMMA FaultRefines ==
  ASSUME PromiseInv, PromiseInv', NEW l \in Listeners, Panic(l) \/ Abort(l)
  PROVE  [Promise!Next]_(Promise!vars)
<1>1. /\ pc' = [pc EXCEPT ![l] = "exiting"] /\ UNCHANGED <<pos, consumers>>
  BY DEF Panic, Abort, Task!Panic, Task!Abort, Task!Goto, Task!At, ringVars
<1>2. pc[l] = "starting" \/ pc[l] \in Listening
  BY DEF Panic, Abort, Task!Panic, Task!Abort, Task!Hooks, Task!Goto, Task!At, Listening
<1>3. UNCHANGED <<AbsCall, before, known, tail>>
  BY TaskKeeps DEF TaskAction
<1>4. CASE pc[l] = "starting"
  <2>1. DropOwned(l)
    BY <1>4 DEF Panic, Abort, Task!Panic, Task!Goto, Task!At, Task!Hooks
  <2>2. l \notin consumers
    BY <1>4 DEF PromiseInv, StreamInv, ConsumersListen, Listening
  <2>3. Phase(l) = "bound" /\ Phase(l)' = "over"
    BY <1>1, <1>4, <2>2, PhaseIs DEF PromiseInv, StreamInv, StreamTypes, Phase
  <2>4. AbsPhase[l] = "bound" /\ AbsPhase' = [AbsPhase EXCEPT ![l] = "over"]
    BY <1>1, <2>3, PhaseMove DEF PromiseInv, StreamInv, StreamTypes, AbsPhase
  <2>5. UNCHANGED AbsDrain /\ AbsClones' \subseteq AbsClones
    BY <2>1, OwnedClones DEF PromiseInv
  <2>6. Promise!Leave(l)
    BY <1>1, <1>3, <2>4, <2>5
      DEF Promise!Leave, Promise!Goto, AbsClones, AbsPhase, AbsCall, AbsDrain
  <2> QED
    BY <2>6 DEF Promise!Next
<1>5. CASE pc[l] \in Listening
  <2>1. UNCHANGED <<bus, dropped>>
    BY <1>5 DEF Panic, Abort, Listening, busVars
  <2>2. l \in consumers
    BY <1>5 DEF PromiseInv, StreamInv, ConsumersListen
  <2>3. Phase(l) = "listening" /\ Phase(l)' = "listening"
    BY <1>1, <2>2, PhaseIs DEF PromiseInv, Phase
  <2>4. UNCHANGED AbsPhase
    BY <1>1, <2>3, PhaseMove DEF PromiseInv, StreamInv, StreamTypes, AbsPhase
  <2> QED
    BY <1>1, <1>3, <2>1, <2>4, SameClones, Stutters DEF absVars
<1> QED
  BY <1>2, <1>4, <1>5

LEMMA TaskStepRefines ==
  ASSUME PromiseInv, PromiseInv', NEW l \in Listeners, TaskStep(l)
  PROVE  [Promise!Next]_(Promise!vars)
<1>1. CASE GuardNotify(l)
  <2>1. UNCHANGED <<pc, consumers, pos, bus, dropped>>
    BY <1>1 DEF GuardNotify, taskVars, ringVars, busVars
  <2>2. UNCHANGED <<AbsCall, before, known, tail>>
    BY <1>1, TaskKeeps DEF TaskAction
  <2> QED
    BY <2>1, <2>2, SamePhases, SameClones, Stutters DEF absVars
<1> QED
  BY <1>1, SubscribeRefines, InsideRefines, ReleaseRefines, ExitRefines, DropListenerRefines
    DEF TaskStep, Inside

-----------------------------------------------------------------------------
(* Clones and drains *)

\* What the steps of clones and drains leave alone.
DrainAction(b) ==
  \/ DropCheck(b) \/ Release(b) \/ WaitStep(b) \/ WaitReturns(b) \/ DrainReturns(b)
  \/ Discard(b) \/ AbandonDrain(b) \/ \E c \in Buses : Clone(b, c)

LEMMA DrainKeeps ==
  ASSUME NEW b \in Buses, DrainAction(b)
  PROVE  UNCHANGED <<AbsPhase, tail, pos, AbsCall, before>>
<1>1. UNCHANGED <<pc, consumers, tail, pos, call, before>>
  BY DEF DrainAction, DropCheck, Release, WaitStep, WaitReturns, DrainReturns, Discard, DropBus,
    Drain, Close, AbandonDrain, Clone, latchVars, ringVars, taskVars, ownVars
<1> QED
  BY <1>1, SamePhases DEF AbsCall

LEMMA CloneRefines ==
  ASSUME PromiseInv, NEW b \in Buses, NEW c \in Buses, Clone(b, c)
  PROVE  [Promise!Next]_(Promise!vars)
<1>1. /\ bus[b] = "live" /\ bus[c] = "unborn" /\ bus' = [bus EXCEPT ![c] = "live"]
      /\ UNCHANGED <<dropped, known>>
  BY DEF Clone, Handle!Clone, ownVars
<1>2. b \in AbsClones /\ c \notin AbsClones /\ AbsClones' = AbsClones \cup {c}
  BY <1>1 DEF PromiseInv, HandleInv, HandleTypes, AbsClones
<1>3. UNCHANGED AbsDrain
  BY <1>1 DEF PromiseInv, HandleInv, HandleTypes, AbsDrain, DrainPhase, Handle!Draining
<1>4. UNCHANGED <<AbsPhase, tail, pos, AbsCall, before>>
  BY DrainKeeps DEF DrainAction
<1>5. Promise!Clone(c)
  BY <1>1, <1>2, <1>3, <1>4 DEF Promise!Clone, AbsClones, AbsPhase, AbsCall, AbsDrain
<1> QED
  BY <1>5 DEF Promise!Next

(* A clone is given up, by a drain or not.                                  *)
LEMMA DiscardRefines ==
  ASSUME PromiseInv, NEW b \in Buses, Discard(b)
  PROVE  [Promise!Next]_(Promise!vars)
<1>1. /\ bus[b] = "live" /\ bus' = [bus EXCEPT ![b] = "dropping"]
      /\ \/ UNCHANGED <<dropped, known>>
         \/ dropped' = [dropped EXCEPT ![b] = "armed"] /\ known' = [known EXCEPT ![b] = Bound]
  BY DEF PromiseInv, DrainInv, DrainTypes, Discard, DropBus, Drain, Close, Handle!DropBus,
    Handle!Drain, Handle!Close, Handle!At, Handle!N!Notified, ownVars
<1>2. dropped[b] = "none" /\ AbsDrain[b] = "idle"
  BY <1>1 DEF PromiseInv, HandleInv, HandleTypes, FutureDrains, AbsDrain, DrainPhase,
    Handle!Draining
<1>3. b \in AbsClones /\ AbsClones' = AbsClones \ {b}
  BY <1>1 DEF PromiseInv, HandleInv, HandleTypes, AbsClones
<1>4. UNCHANGED <<AbsPhase, tail, pos, AbsCall, before>>
  BY DrainKeeps DEF DrainAction
<1>5. CASE UNCHANGED <<dropped, known>>
  <2>1. UNCHANGED AbsDrain
    BY <1>1, <1>5 DEF PromiseInv, HandleInv, HandleTypes, AbsDrain, DrainPhase, Handle!Draining
  <2>2. Promise!Drop(b)
    BY <1>3, <1>4, <1>5, <2>1 DEF Promise!Drop, AbsClones, AbsPhase, AbsCall, AbsDrain
  <2> QED
    BY <2>2 DEF Promise!Next
<1>6. CASE dropped' = [dropped EXCEPT ![b] = "armed"] /\ known' = [known EXCEPT ![b] = Bound]
  <2>1. AbsDrain' = [AbsDrain EXCEPT ![b] = "draining"]
    BY <1>1, <1>6 DEF PromiseInv, HandleInv, HandleTypes, AbsDrain, DrainPhase, Handle!Draining
  <2>2. Bound = {l \in Listeners : AbsPhase[l] # "unbound"}
    BY PhaseIs DEF PromiseInv, Bound, AbsPhase
  <2>3. Promise!Drain(b)
    BY <1>2, <1>3, <1>4, <1>6, <2>1, <2>2
      DEF Promise!Drain, AbsClones, AbsPhase, AbsCall, AbsDrain
  <2> QED
    BY <2>3 DEF Promise!Next
<1> QED
  BY <1>1, <1>5, <1>6

(* From the notification on there is no clone, and since wait() returned    *)
(* every listener the drain found is over.                                  *)
LEMMA DrainReturnsRefines ==
  ASSUME PromiseInv, NEW b \in Buses, DrainReturns(b)
  PROVE  [Promise!Next]_(Promise!vars)
<1>1. /\ bus[b] = "awaiting" /\ bus' = [bus EXCEPT ![b] = "drained"]
      /\ dropped[b] = "fired" /\ dropped' = [dropped EXCEPT ![b] = "none"]
      /\ UNCHANGED known
  BY DEF DrainReturns, Handle!DrainReturns, Handle!At, Handle!N!Ready, Handle!N!Forget, ownVars
<1>2. AbsDrain[b] = "draining" /\ AbsDrain' = [AbsDrain EXCEPT ![b] = "returned"]
  BY <1>1 DEF PromiseInv, HandleInv, HandleTypes, AbsDrain, DrainPhase, Handle!Draining
<1>3. AbsClones = {} /\ UNCHANGED AbsClones
  BY <1>1 DEF PromiseInv, HandleInv, HandleTypes, Handle!NotifiedLast, AbsClones
<1>4. \A l \in known[b] : AbsPhase[l] = "over"
  <2>1. \A l \in known[b] : l \in Listeners /\ pc[l] \in {"ended", "dropped"}
    BY <1>1 DEF PromiseInv, DrainInv, DrainTypes, ClearedAreOver, Cleared, Over
  <2>2. \A l \in known[b] : l \notin consumers
    BY <2>1 DEF PromiseInv, StreamInv, ConsumersListen, Listening
  <2> QED
    BY <2>1, <2>2 DEF AbsPhase, Phase
<1>5. UNCHANGED <<AbsPhase, tail, pos, AbsCall, before>>
  BY DrainKeeps DEF DrainAction
<1>6. Promise!DrainReturns(b)
  BY <1>1, <1>2, <1>3, <1>4, <1>5
    DEF Promise!DrainReturns, AbsClones, AbsPhase, AbsCall, AbsDrain
<1> QED
  BY <1>6 DEF Promise!Next

LEMMA AbandonDrainRefines ==
  ASSUME PromiseInv, NEW b \in Buses, AbandonDrain(b)
  PROVE  [Promise!Next]_(Promise!vars)
<1>1. /\ bus[b] \in {"waiting", "awaiting"} /\ bus' = [bus EXCEPT ![b] = "abandoned"]
      /\ dropped' = [dropped EXCEPT ![b] = "none"] /\ UNCHANGED known
  BY DEF AbandonDrain, Handle!Abandon, Handle!At, Handle!N!Forget, ownVars
<1>2. AbsDrain[b] = "draining" /\ AbsDrain' = [AbsDrain EXCEPT ![b] = "abandoned"]
  BY <1>1 DEF PromiseInv, HandleInv, HandleTypes, FutureDrains, AbsDrain, DrainPhase,
    Handle!Draining
<1>3. UNCHANGED AbsClones
  BY <1>1 DEF PromiseInv, HandleInv, HandleTypes, AbsClones
<1>4. UNCHANGED <<AbsPhase, tail, pos, AbsCall, before>>
  BY DrainKeeps DEF DrainAction
<1>5. Promise!AbandonDrain(b)
  BY <1>1, <1>2, <1>3, <1>4 DEF Promise!AbandonDrain, AbsClones, AbsPhase, AbsCall, AbsDrain
<1> QED
  BY <1>5 DEF Promise!Next

\* The steps within a drain are its own.
LEMMA DrainInside ==
  ASSUME PromiseInv, NEW b \in Buses,
         DropCheck(b) \/ Release(b) \/ WaitStep(b) \/ WaitReturns(b)
  PROVE  /\ UNCHANGED <<AbsClones, AbsDrain, known>>
         /\ UNCHANGED <<AbsPhase, tail, pos, AbsCall, before>>
<1>1. UNCHANGED <<AbsPhase, tail, pos, AbsCall, before, known>>
  BY DrainKeeps DEF DrainAction, DropCheck, Release, WaitStep, WaitReturns, ownVars
<1>2. ASSUME WaitStep(b) PROVE UNCHANGED <<AbsClones, AbsDrain>>
  BY <1>2, SameClones DEF WaitStep, busVars
<1>3. ASSUME DropCheck(b) \/ Release(b) \/ WaitReturns(b) PROVE UNCHANGED <<AbsClones, AbsDrain>>
  <2>1. /\ bus[b] \in {"dropping", "releasing", "waiting"}
        /\ \E to \in {"releasing", "waiting", "gone", "awaiting"} : bus' = [bus EXCEPT ![b] = to]
    BY <1>3 DEF DropCheck, Release, WaitReturns, Handle!DropCheck, Handle!Release,
      Handle!WaitReturns, Handle!At
  <2>2. \A c \in Buses : dropped'[c] # "none" <=> dropped[c] # "none"
    BY <1>3 DEF PromiseInv, HandleInv, HandleTypes, DropCheck, Release, WaitReturns,
      Handle!DropCheck, Handle!Release, Handle!WaitReturns, Handle!N!NotifyWaiters
  <2>3. UNCHANGED AbsClones
    BY <2>1 DEF PromiseInv, HandleInv, HandleTypes, AbsClones
  <2>4. \A c \in Buses : DrainPhase(c)' = DrainPhase(c)
    BY <2>1, <2>2 DEF PromiseInv, HandleInv, HandleTypes, DrainPhase, Handle!Draining
  <2> QED
    BY <2>3, <2>4 DEF AbsDrain
<1> QED
  BY <1>1, <1>2, <1>3

LEMMA DrainStepRefines ==
  ASSUME PromiseInv, NEW b \in Buses, DrainStep(b)
  PROVE  [Promise!Next]_(Promise!vars)
<1>1. CASE DropCheck(b) \/ Release(b) \/ WaitStep(b) \/ WaitReturns(b)
  BY <1>1, DrainInside, Stutters DEF absVars
<1>2. CASE DrainReturns(b)
  BY <1>2, DrainReturnsRefines
<1> QED
  BY <1>1, <1>2 DEF DrainStep

-----------------------------------------------------------------------------
\* Typed emitters and tokens are no part of the promise.
LEMMA AsideRefines ==
  ASSUME \/ \E b \in Buses, p \in Emitters : ToEmitter(b, p)
         \/ \E p \in Emitters : DropEmitter(p)
         \/ \E k \in Tokens : Cancel(k)
         \/ UNCHANGED vars
  PROVE  [Promise!Next]_(Promise!vars)
<1>1. UNCHANGED <<pc, consumers, tail, pos, call, before, bus, dropped, known>>
  BY DEF ToEmitter, DropEmitter, Cancel, Task!Cancel, vars, latchVars, ringVars, taskVars,
    busVars, ownVars
<1> QED
  BY <1>1, SamePhases, SameClones, Stutters DEF absVars, AbsCall

LEMMA StepRefines == PromiseInv /\ PromiseInv' /\ [Next]_vars => [Promise!Next]_(Promise!vars)
<1> SUFFICES ASSUME PromiseInv, PromiseInv', [Next]_vars
             PROVE  [Promise!Next]_(Promise!vars)
  OBVIOUS
<1>1. CASE \E l \in Listeners : TaskStep(l)
  BY <1>1, TaskStepRefines
<1>2. CASE \E c \in Calls : EmitStep(c)
  BY <1>2, PassRefines, PublishRefines DEF EmitStep
<1>3. CASE \E b \in Buses : DrainStep(b)
  BY <1>3, DrainStepRefines
<1>4. CASE UserStep
  BY <1>4, FaultRefines, CallRefines, GiveUpRefines, BindRefines, CloneRefines,
    DiscardRefines, AbandonDrainRefines, AsideRefines DEF UserStep
<1>5. CASE UNCHANGED vars
  BY <1>5, AsideRefines
<1> QED
  BY <1>1, <1>2, <1>3, <1>4, <1>5 DEF Next

(* The bus keeps its promise (emit.rs, lib.rs:65-72), for every number of    *)
(* listeners, clones, calls, typed emitters and event types, on both kinds   *)
(* of runtime, whatever panics, is aborted, cancelled or given up.           *)
THEOREM BusKeepsPromise == Spec => KeepsPromise
BY PromiseInvariant, InitRefines, StepRefines, PTL DEF Spec, KeepsPromise, Promise!Spec

-----------------------------------------------------------------------------
(* The types of the state that no argument above is about. *)

RestTypes ==
  /\ idle \in [Buses -> {"none", "armed", "fired"}]
  /\ capacity \in Capacities
  /\ closers \subseteq Buses
  /\ cancelled \subseteq Tokens
  /\ handled \in [Listeners -> Nat]
  /\ late \in [Listeners -> Nat]
  /\ afterRan \subseteq Listeners

LEMMA RestTypesInit == Init => RestTypes
BY DEF Init, WG!Init, WG!N!Init, Ring!Init, Task!Init, Handle!Init, RestTypes

LEMMA IdleTypes ==
  ASSUME RestTypes, [Next]_vars
  PROVE  idle' \in [Buses -> {"none", "armed", "fired"}]
<1>1. CASE UNCHANGED idle
  BY <1>1 DEF RestTypes
<1>2. ASSUME NEW l \in Listeners, WG!Notify(l) PROVE idle' \in [Buses -> {"none", "armed", "fired"}]
  BY <1>2 DEF RestTypes, WG!Notify, WG!N!NotifyWaiters
<1>3. ASSUME NEW b \in Buses, WG!WaitStep(b) \/ WG!Abandon(b)
      PROVE  idle' \in [Buses -> {"none", "armed", "fired"}]
  BY <1>3 DEF RestTypes, WG!WaitStep, WG!Load, WG!Arm, WG!Reload, WG!Wake, WG!Abandon,
    WG!N!Notified, WG!N!Forget
<1>4. CASE \E l \in Listeners : TaskStep(l)
  BY <1>1, <1>2, <1>4 DEF TaskStep, Subscribe, DropLauncher, TakeEvent, StreamEnd, ReleaseEvent,
    HandleDone, TaskAlone, Exit, WG!DropGuard, GuardNotify, DropListener, wgVars
<1>5. CASE \E b \in Buses : DrainStep(b)
  BY <1>1, <1>3, <1>5 DEF DrainStep, DropCheck, Release, WG!Wait, WaitStep, WaitReturns,
    WG!Return, DrainReturns, wgVars
<1>6. CASE UserStep
  BY <1>1, <1>3, <1>6 DEF UserStep, Panic, Abort, EmitCall, EmitAbandon, Bind, WG!Add, ToEmitter,
    DropEmitter, Cancel, Clone, Discard, DropBus, Drain, Close, AbandonDrain, wgVars
<1>7. CASE (\E c \in Calls : EmitStep(c)) \/ UNCHANGED vars
  BY <1>1, <1>7 DEF EmitStep, EmitPass, Publish, vars, wgVars
<1> QED
  BY <1>4, <1>5, <1>6, <1>7 DEF Next

LEMMA CapacityStays ==
  ASSUME [Next]_vars
  PROVE  UNCHANGED capacity
<1>1. ASSUME NEW l \in Listeners, TaskStep(l) PROVE UNCHANGED capacity
  BY <1>1 DEF TaskStep, Subscribe, Ring!Subscribe, DropLauncher, TakeEvent, Ring!TakeEvent,
    StreamEnd, ReleaseEvent, Ring!ReleaseEvent, HandleDone, TaskAlone, Exit, Ring!DropConsumer,
    GuardNotify, DropListener, ringVars
<1>2. ASSUME NEW b \in Buses, DrainStep(b) PROVE UNCHANGED capacity
  BY <1>2 DEF DrainStep, DropCheck, Release, WaitStep, WaitReturns, DrainReturns, ringVars
<1>3. ASSUME UserStep PROVE UNCHANGED capacity
  BY <1>3 DEF UserStep, Panic, Abort, EmitCall, EmitAbandon, Bind, ToEmitter, DropEmitter, Cancel,
    Clone, Discard, DropBus, Drain, Close, AbandonDrain, ringVars
<1>4. CASE (\E c \in Calls : EmitStep(c)) \/ UNCHANGED vars
  BY <1>4 DEF EmitStep, EmitPass, Publish, Ring!Publish, vars, ringVars
<1> QED
  BY <1>1, <1>2, <1>3, <1>4 DEF Next

\* The history of a task: its cancellations and the events it was given.
TaskTypes ==
  /\ cancelled \subseteq Tokens
  /\ handled \in [Listeners -> Nat]
  /\ late \in [Listeners -> Nat]
  /\ afterRan \subseteq Listeners

LEMMA TaskTypesStep ==
  ASSUME RestTypes, [Next]_vars
  PROVE  TaskTypes'
<1>1. CASE UNCHANGED <<cancelled, handled, late, afterRan>>
  BY <1>1 DEF RestTypes, TaskTypes
<1>2. ASSUME NEW l \in Listeners, TakeEvent(l) PROVE TaskTypes'
  BY <1>2 DEF RestTypes, TaskTypes, TakeEvent, Task!TakeEvent
<1>3. ASSUME NEW l \in Listeners, HandleDone(l) PROVE TaskTypes'
  BY <1>3, EvnoConstants DEF RestTypes, TaskTypes, HandleDone, Task!HandleDone
<1>4. ASSUME NEW l \in Listeners, TaskAlone(l) PROVE TaskTypes'
  BY <1>1, <1>4 DEF RestTypes, TaskTypes, TaskAlone, Task!Begin, Task!CheckCancel,
    Task!SelectCancelled, Task!AfterDone, Task!Goto
<1>5. CASE \E l \in Listeners : TaskStep(l)
  BY <1>1, <1>2, <1>3, <1>4, <1>5 DEF TaskStep, Subscribe, Task!Subscribe, DropLauncher,
    Task!DropLauncher, StreamEnd, Task!StreamEnd, ReleaseEvent, Exit, Task!Exit, GuardNotify,
    DropListener, Task!DropListener, Task!Goto, taskVars
<1>6. ASSUME NEW k \in Tokens, Cancel(k) PROVE TaskTypes'
  BY <1>6 DEF RestTypes, TaskTypes, Cancel, Task!Cancel
<1>7. CASE UserStep
  BY <1>1, <1>6, <1>7 DEF UserStep, Panic, Task!Panic, Abort, Task!Abort, EmitCall, EmitAbandon,
    Bind, Task!Spawn, Task!Goto, ToEmitter, DropEmitter, Clone, Discard, DropBus, Drain, Close,
    AbandonDrain, taskVars
<1>8. CASE \/ \E c \in Calls : EmitStep(c)
           \/ \E b \in Buses : DrainStep(b)
           \/ UNCHANGED vars
  BY <1>1, <1>8 DEF EmitStep, EmitPass, Publish, DrainStep, DropCheck, Release, WaitStep,
    WaitReturns, DrainReturns, vars, taskVars
<1> QED
  BY <1>5, <1>7, <1>8 DEF Next

LEMMA RestTypesStep == RestTypes /\ [Next]_vars => RestTypes'
<1> SUFFICES ASSUME RestTypes, [Next]_vars PROVE RestTypes'
  OBVIOUS
<1>1. (closers \subseteq Buses)'
  BY StepsOfHandle DEF RestTypes, busVars, HandleStep, Handle!BusStep, Handle!DropCheck,
    Handle!Release, Handle!WaitReturns, Handle!DrainReturns, Handle!Discard, Handle!DropBus,
    Handle!Drain, Handle!Close, Handle!Abandon, Handle!Clone
<1> QED
  BY <1>1, IdleTypes, CapacityStays, TaskTypesStep DEF RestTypes, TaskTypes

(* No counter of the bus ever falls below zero or counts what is not there: *)
(* guards of the wait group and of the latch, clones, events and positions. *)
THEOREM TypeCorrect == Spec => []TypeOK
<1> DEFINE TypeInv == StartInv /\ DrainInv /\ EndInv /\ RestTypes
<1>1. Init => TypeInv
  BY StartInvInit, DrainInvInit, EndInvInit, RestTypesInit
<1>2. TypeInv /\ [Next]_vars => TypeInv'
  BY StartInvStep, DrainInvStep, EndInvStep, RestTypesStep
<1>3. TypeInv => TypeOK
  <2> SUFFICES ASSUME TypeInv PROVE TypeOK
    OBVIOUS
  <2>1. WG!TypeOK
    BY DEF DrainInv, DrainTypes, RestTypes, WG!TypeOK, WG!Waiting, WG!N!TypeOK
  <2>2. Latch!TypeOK
    BY DEF StartInv, StartTypes, Latch!TypeOK
  <2>3. Ring!TypeOK
    BY DEF EndInv, StreamInv, StreamTypes, RestTypes, Ring!TypeOK
  <2>4. Task!TypeOK
    BY DEF StartInv, StartTypes, Points, RestTypes, Task!TypeOK
  <2>5. Handle!TypeOK
    BY DEF EndInv, HandleInv, HandleTypes, RestTypes, Handle!TypeOK, Handle!N!TypeOK
  <2> QED
    BY <2>1, <2>2, <2>3, <2>4, <2>5 DEF StartInv, StartTypes, DrainInv, DrainTypes, EndInv, TypeOK
<1> HIDE DEF TypeInv
<1> QED
  BY <1>1, <1>2, <1>3, PTL DEF Spec

-----------------------------------------------------------------------------
(* The parts in the bus: every step of Evno is a step of each part, or     *)
(* leaves the part alone.                                                   *)

WaitGroupPart == INSTANCE WaitGroupProofs WITH
  Tasks <- Listeners, Waiters <- Buses, future <- idle
LatchPart == INSTANCE BindLatchProofs WITH Owners <- Listeners, counter <- latch
TaskPart == INSTANCE ListenerTaskProofs WITH count <- handled, MaxHandled <- MaxEvents
HandlePart == INSTANCE BusHandleProofs WITH future <- dropped

LEMMA WaitGroupSteps ==
  ASSUME [Next]_vars
  PROVE  [WG!Next]_wgVars
<1>1. ASSUME NEW l \in Listeners, TaskStep(l) PROVE [WG!Next]_wgVars
  BY <1>1 DEF TaskStep, Subscribe, DropLauncher, TakeEvent, StreamEnd, ReleaseEvent, HandleDone,
    TaskAlone, Exit, GuardNotify, DropListener, WG!Next
<1>2. ASSUME NEW b \in Buses, DrainStep(b) PROVE [WG!Next]_wgVars
  BY <1>2 DEF DrainStep, DropCheck, Release, WaitStep, WaitReturns, DrainReturns, WG!Next
<1>3. ASSUME UserStep PROVE [WG!Next]_wgVars
  BY <1>3 DEF UserStep, Panic, Abort, EmitCall, EmitAbandon, Bind, ToEmitter, DropEmitter, Cancel,
    Clone, Discard, DropBus, Drain, Close, AbandonDrain, WG!Next
<1>4. CASE (\E c \in Calls : EmitStep(c)) \/ UNCHANGED vars
  BY <1>4 DEF EmitStep, EmitPass, Publish, vars
<1> QED
  BY <1>1, <1>2, <1>3, <1>4 DEF Next

LEMMA LatchSteps ==
  ASSUME [Next]_vars
  PROVE  [Latch!Next]_latchVars
<1>1. ASSUME NEW l \in Listeners, TaskStep(l) PROVE [Latch!Next]_latchVars
  BY <1>1 DEF TaskStep, Subscribe, DropLauncher, TakeEvent, StreamEnd, ReleaseEvent, HandleDone,
    TaskAlone, Exit, GuardNotify, DropListener, Latch!Next
<1>2. ASSUME NEW c \in Calls, EmitStep(c) PROVE [Latch!Next]_latchVars
  BY <1>2 DEF EmitStep, EmitPass, Publish, Latch!Next
<1>3. ASSUME UserStep PROVE [Latch!Next]_latchVars
  BY <1>3 DEF UserStep, Panic, Abort, EmitCall, EmitAbandon, Bind, ToEmitter, DropEmitter, Cancel,
    Clone, Discard, DropBus, Drain, Close, AbandonDrain, Latch!Next, latchVars
<1>4. CASE (\E b \in Buses : DrainStep(b)) \/ UNCHANGED vars
  BY <1>4 DEF DrainStep, DropCheck, Release, WaitStep, WaitReturns, DrainReturns, vars
<1> QED
  BY <1>1, <1>2, <1>3, <1>4 DEF Next

LEMMA HandleSteps ==
  ASSUME HandleInv, [Next]_vars
  PROVE  [Handle!Next]_busVars
BY StepsOfHandle DEF HandleStep, Handle!Next

(* The same steps, as the proofs about the parts know them.                 *)
LEMMA WaitGroupSame == [WG!Next]_wgVars => [WaitGroupPart!Next]_(WaitGroupPart!vars)
<1>1. ASSUME NEW l \in Listeners
      PROVE  (WG!Add(l) \/ WG!DropGuard(l) \/ WG!Notify(l)) =>
               (WaitGroupPart!Add(l) \/ WaitGroupPart!DropGuard(l) \/ WaitGroupPart!Notify(l))
  BY DEF WG!Add, WG!DropGuard, WG!Notify, WG!Last, WG!N!NotifyWaiters, WaitGroupPart!Add,
    WaitGroupPart!DropGuard, WaitGroupPart!Notify, WaitGroupPart!Last, WaitGroupPart!N!NotifyWaiters
<1>2. ASSUME NEW b \in Buses
      PROVE  /\ WG!Wait(b) => WaitGroupPart!Wait(b)
             /\ WG!WaitStep(b) => WaitGroupPart!WaitStep(b)
             /\ WG!Return(b) => WaitGroupPart!Return(b)
             /\ WG!Abandon(b) => WaitGroupPart!Abandon(b)
  BY DEF WG!Wait, WG!WaitStep, WG!Return, WG!Abandon, WG!Load, WG!Arm, WG!Reload, WG!Wake, WG!At,
    WG!N!Notified, WG!N!Ready, WG!N!Forget,
    WaitGroupPart!Wait, WaitGroupPart!WaitStep, WaitGroupPart!Return, WaitGroupPart!Abandon,
    WaitGroupPart!Load, WaitGroupPart!Arm, WaitGroupPart!Reload, WaitGroupPart!Wake,
    WaitGroupPart!At, WaitGroupPart!N!Notified, WaitGroupPart!N!Ready, WaitGroupPart!N!Forget
<1> QED
  BY <1>1, <1>2 DEF WG!Next, WaitGroupPart!Next, WaitGroupPart!vars, wgVars

LEMMA LatchSame == [Latch!Next]_latchVars => [LatchPart!Next]_(LatchPart!vars)
BY DEF Latch!Next, Latch!Lock, Latch!Unlock, Latch!Call, Latch!Pass, Latch!Open, Latch!Finish,
  Latch!Abandon, LatchPart!Next, LatchPart!Lock, LatchPart!Unlock, LatchPart!Call, LatchPart!Pass,
  LatchPart!Open, LatchPart!Finish, LatchPart!Abandon, LatchPart!vars, latchVars

LEMMA TaskSame == [Task!Next]_taskVars => [TaskPart!Next]_(TaskPart!vars)
<1>1. ASSUME NEW l \in Listeners
      PROVE  /\ Task!Spawn(l) => TaskPart!Spawn(l)
             /\ Task!TaskStep(l) => TaskPart!TaskStep(l)
             /\ Task!StreamEnd(l) => TaskPart!StreamEnd(l)
  BY DEF Task!Spawn, Task!TaskStep, Task!Subscribe, Task!DropLauncher, Task!Begin,
    Task!CheckCancel, Task!SelectCancelled, Task!HandleDone, Task!TimesReached, Task!AfterDone,
    Task!Exit, Task!DropListener, Task!StreamEnd, Task!Cancelled, Task!Goto, Task!At,
    TaskPart!Spawn, TaskPart!TaskStep, TaskPart!Subscribe, TaskPart!DropLauncher, TaskPart!Begin,
    TaskPart!CheckCancel, TaskPart!SelectCancelled, TaskPart!HandleDone, TaskPart!TimesReached,
    TaskPart!AfterDone, TaskPart!Exit, TaskPart!DropListener, TaskPart!StreamEnd,
    TaskPart!Cancelled, TaskPart!Goto, TaskPart!At
<1>2. ASSUME NEW l \in Listeners
      PROVE  /\ Task!Panic(l) => TaskPart!Panic(l)
             /\ Task!Abort(l) => TaskPart!Abort(l)
             /\ Task!TakeEvent(l) => TaskPart!TakeEvent(l)
  BY DEF Task!Panic, Task!Abort, Task!TakeEvent, Task!Hooks, Task!Cancelled, Task!Goto, Task!At,
    TaskPart!Panic, TaskPart!Abort, TaskPart!TakeEvent, TaskPart!Hooks, TaskPart!Cancelled,
    TaskPart!Goto, TaskPart!At
<1>3. ASSUME NEW k \in Tokens PROVE Task!Cancel(k) => TaskPart!Cancel(k)
  BY DEF Task!Cancel, TaskPart!Cancel
<1> QED
  BY <1>1, <1>2, <1>3 DEF Task!Next, TaskPart!Next, TaskPart!vars, taskVars

LEMMA HandleSame == [Handle!Next]_busVars => [HandlePart!Next]_(HandlePart!vars)
<1>1. ASSUME NEW b \in Buses
      PROVE  /\ Handle!BusStep(b) => HandlePart!BusStep(b)
             /\ Handle!Discard(b) => HandlePart!Discard(b)
             /\ Handle!Abandon(b) => HandlePart!Abandon(b)
             /\ \A c \in Buses : Handle!Clone(b, c) => HandlePart!Clone(b, c)
  BY DEF Handle!BusStep, Handle!DropCheck, Handle!Release, Handle!WaitReturns, Handle!DrainReturns,
    Handle!Discard, Handle!DropBus, Handle!Drain, Handle!Close, Handle!Abandon, Handle!Clone,
    Handle!At, Handle!Turn, Handle!SoleRef, Handle!Draining, Handle!N!Notified,
    Handle!N!NotifyWaiters, Handle!N!Ready, Handle!N!Forget,
    HandlePart!BusStep, HandlePart!DropCheck, HandlePart!Release, HandlePart!WaitReturns,
    HandlePart!DrainReturns, HandlePart!Discard, HandlePart!DropBus, HandlePart!Drain,
    HandlePart!Close, HandlePart!Abandon, HandlePart!Clone, HandlePart!At, HandlePart!Turn,
    HandlePart!SoleRef, HandlePart!Draining, HandlePart!N!Notified, HandlePart!N!NotifyWaiters,
    HandlePart!N!Ready, HandlePart!N!Forget
<1> QED
  BY <1>1 DEF Handle!Next, HandlePart!Next, HandlePart!vars, busVars

-----------------------------------------------------------------------------
(* The ring is the environment ListenerTask assumes: it never offers a      *)
(* listener more events than there are, and none twice.                     *)

InBounds == \A t \in Types : tail[t] + Cardinality(InFlight(t)) <= MaxEvents

\* The events a listener was given are those it has let go of and the one it
\* has in hand, at most.
GivenOnce ==
  \A l \in Listeners :
    /\ pc[l] \in {"unbound", "starting"} => handled[l] = 0
    /\ pc[l] \in {"subscribed", "begin", "loop", "select"} => handled[l] <= pos[l]
    /\ pc[l] = "handle" => handled[l] <= pos[l] + (IF l \in held THEN 1 ELSE 0)

FedInv == RestTypes /\ StreamInv /\ CallTypes /\ InBounds /\ GivenOnce

LEMMA InFlightFinite ==
  \A t \in Types : IsFiniteSet(InFlight(t)) /\ Cardinality(InFlight(t)) \in Nat
<1>1. \A t \in Types : InFlight(t) \subseteq Calls
  BY DEF InFlight
<1> QED
  BY <1>1, EvnoConstants, FS_Subset, FS_CardinalityType

LEMMA FedInvInit == Init => FedInv
<1> SUFFICES ASSUME Init PROVE FedInv
  OBVIOUS
<1>1. /\ \A t \in Types : tail[t] = 0 /\ InFlight(t) = {}
      /\ \A l \in Listeners : pc[l] = "unbound" /\ handled[l] = 0
      /\ CallTypes
  BY DEF Init, Ring!Init, Latch!Init, Task!Init, InFlight, CallTypes
<1>2. \A t \in Types : Cardinality(InFlight(t)) = 0
  BY <1>1, FS_EmptySet
<1>3. InBounds
  BY <1>1, <1>2, EvnoConstants DEF InBounds
<1> QED
  BY <1>1, <1>3, RestTypesInit, StreamInvInit DEF FedInv, GivenOnce

(* An emit call counts as an event from its beginning; it is one, or none.  *)
LEMMA InBoundsStep ==
  ASSUME FedInv, [Next]_vars
  PROVE  InBounds' /\ CallTypes'
<1>1. CASE UNCHANGED <<call, tail>>
  BY <1>1 DEF FedInv, InBounds, CallTypes, InFlight
<1>2. ASSUME NEW c \in Calls, CallStep(c) PROVE InBounds' /\ CallTypes'
  <2>1. call \in [Calls -> {"idle", "spinning", "passed"}] /\ TypeOf[c] \in Types
        /\ tail \in [Types -> Nat]
    BY TypesOfCalls DEF FedInv, CallTypes, StreamInv, StreamTypes
  <2>2. \A t \in Types : Cardinality(InFlight(t)) \in Nat /\ tail[t] \in Nat
    BY <2>1, InFlightFinite
  <2>3. MaxEvents \in Nat
    BY EvnoConstants
  <2>4. CASE EmitCall(c)
    <3>1. /\ call[c] = "idle" /\ call' = [call EXCEPT ![c] = "spinning"] /\ tail' = tail
          /\ tail[TypeOf[c]] + Cardinality(InFlight(TypeOf[c])) < MaxEvents
      BY <2>4 DEF EmitCall, Latch!Call, ringVars
    <3>2. /\ c \notin InFlight(TypeOf[c]) /\ InFlight(TypeOf[c])' = InFlight(TypeOf[c]) \cup {c}
          /\ \A t \in Types : t # TypeOf[c] => InFlight(t)' = InFlight(t)
      BY <2>1, <3>1 DEF InFlight
    <3>3. Cardinality(InFlight(TypeOf[c]) \cup {c}) = Cardinality(InFlight(TypeOf[c])) + 1
      BY <2>1, <3>2, InFlightFinite, FS_AddElement
    <3>4. ASSUME NEW t \in Types PROVE tail'[t] + Cardinality(InFlight(t)') <= MaxEvents
      <4>1. CASE t = TypeOf[c]
        <5>1. Cardinality(InFlight(t)') = Cardinality(InFlight(t)) + 1
          BY <3>2, <3>3, <4>1
        <5> QED
          BY <2>2, <2>3, <3>1, <4>1, <5>1
      <4>2. CASE t # TypeOf[c]
        BY <3>1, <3>2, <4>2 DEF FedInv, InBounds
      <4> QED
        BY <4>1, <4>2
    <3> QED
      BY <2>1, <3>1, <3>4 DEF InBounds, CallTypes
  <2>5. CASE EmitPass(c)
    <3>1. /\ call[c] = "spinning" /\ call' = [call EXCEPT ![c] = "passed"] /\ tail' = tail
      BY <2>5 DEF EmitPass, Latch!Pass, ringVars
    <3>2. \A t \in Types : InFlight(t)' = InFlight(t)
      BY <2>1, <3>1 DEF InFlight
    <3> QED
      BY <2>1, <3>1, <3>2 DEF FedInv, InBounds, CallTypes
  <2>6. CASE Publish(c) \/ EmitAbandon(c)
    <3>1. /\ call[c] # "idle" /\ call' = [call EXCEPT ![c] = "idle"]
          /\ tail' = tail \/ tail' = [tail EXCEPT ![TypeOf[c]] = @ + 1]
      BY <2>6 DEF Publish, Latch!Finish, Ring!Publish, EmitAbandon, Latch!Abandon, ringVars
    <3>2. /\ c \in InFlight(TypeOf[c]) /\ InFlight(TypeOf[c])' = InFlight(TypeOf[c]) \ {c}
          /\ \A t \in Types : t # TypeOf[c] => InFlight(t)' = InFlight(t)
      BY <2>1, <3>1 DEF InFlight
    <3>3. Cardinality(InFlight(TypeOf[c]) \ {c}) = Cardinality(InFlight(TypeOf[c])) - 1
      BY <2>1, <3>2, InFlightFinite, FS_RemoveElement
    <3>4. ASSUME NEW t \in Types PROVE tail'[t] + Cardinality(InFlight(t)') <= MaxEvents
      <4>1. tail[t] + Cardinality(InFlight(t)) <= MaxEvents
        BY DEF FedInv, InBounds
      <4>2. CASE t = TypeOf[c]
        <5>1. Cardinality(InFlight(t)') = Cardinality(InFlight(t)) - 1
          BY <3>2, <3>3, <4>2
        <5>2. tail'[t] <= tail[t] + 1 /\ tail'[t] \in Nat
          BY <2>1, <3>1, <4>2
        <5> QED
          BY <2>2, <2>3, <4>1, <5>1, <5>2
      <4>3. CASE t # TypeOf[c]
        BY <2>1, <3>1, <3>2, <4>1, <4>3
      <4> QED
        BY <4>2, <4>3
    <3> QED
      BY <2>1, <3>1, <3>4 DEF InBounds, CallTypes
  <2> QED
    BY <1>2, <2>4, <2>5, <2>6 DEF CallStep
<1> QED
  BY <1>1, <1>2, EmitsOrNot

LEMMA GivenOnceStep ==
  ASSUME FedInv, [Next]_vars
  PROVE  GivenOnce'
<1> USE DEF FedInv, GivenOnce, RestTypes, StreamInv, StreamTypes
<1>1. CASE UNCHANGED <<pc, handled, pos, held>>
  BY <1>1
<1>2. ASSUME NEW l \in Listeners, Subscribe(l) PROVE GivenOnce'
  BY <1>2, TypesOfListeners DEF Subscribe, Task!Subscribe, Task!Goto, Task!At, Ring!Subscribe
<1>3. ASSUME NEW l \in Listeners, TakeEvent(l) PROVE GivenOnce'
  BY <1>3 DEF TakeEvent, Task!TakeEvent, Task!At, Ring!TakeEvent
<1>4. ASSUME NEW l \in Listeners, ReleaseEvent(l) PROVE GivenOnce'
  BY <1>4 DEF ReleaseEvent, Ring!ReleaseEvent, InHand, Handling, taskVars
<1>5. ASSUME NEW l \in Listeners, DropLauncher(l) \/ StreamEnd(l) \/ HandleDone(l) \/ TaskAlone(l)
      PROVE  GivenOnce'
  BY <1>5 DEF DropLauncher, Task!DropLauncher, StreamEnd, Task!StreamEnd, HandleDone,
    Task!HandleDone, TaskAlone, Task!Begin, Task!AfterDone, Task!CheckCancel,
    Task!SelectCancelled, Task!Goto, Task!At, ringVars
<1>6. ASSUME NEW l \in Listeners, Exit(l) \/ DropListener(l) \/ Panic(l) \/ Abort(l) PROVE GivenOnce'
  BY <1>6 DEF Exit, Task!Exit, Ring!DropConsumer, DropListener, Task!DropListener, Panic,
    Task!Panic, Abort, Task!Abort, Task!Goto, Task!At, ringVars
<1>7. ASSUME NEW b \in Buses, NEW l \in Listeners, Bind(b, l) PROVE GivenOnce'
  BY <1>7 DEF Bind, Task!Spawn, Task!Goto, Task!At, ringVars
<1>8. CASE \E l \in Listeners : TaskStep(l)
  BY <1>1, <1>2, <1>3, <1>4, <1>5, <1>6, <1>8 DEF TaskStep, GuardNotify, ringVars, taskVars
<1>9. CASE UserStep
  BY <1>1, <1>6, <1>7, <1>9 DEF UserStep, EmitCall, EmitAbandon, ToEmitter, DropEmitter, Cancel,
    Task!Cancel, Clone, Discard, DropBus, Drain, Close, AbandonDrain, ringVars, taskVars
<1>10. CASE \/ \E c \in Calls : EmitStep(c)
            \/ \E b \in Buses : DrainStep(b)
            \/ UNCHANGED vars
  BY <1>1, <1>10 DEF EmitStep, EmitPass, Publish, Ring!Publish, DrainStep, DropCheck, Release,
    WaitStep, WaitReturns, DrainReturns, vars, ringVars, taskVars
<1> QED
  BY <1>8, <1>9, <1>10 DEF Next

LEMMA FedInvStep == FedInv /\ [Next]_vars => FedInv'
BY RestTypesStep, StreamInvStep, InBoundsStep, GivenOnceStep DEF FedInv

LEMMA TaskSteps ==
  ASSUME FedInv, [Next]_vars
  PROVE  [Task!Next]_taskVars
<1>1. ASSUME NEW l \in Listeners, TakeEvent(l) PROVE Task!Next
  <2>1. pc[l] = "select" /\ pos[l] < tail[TypeOf[l]] /\ Task!TakeEvent(l)
    BY <1>1 DEF TakeEvent, Task!TakeEvent, Task!At, Ring!TakeEvent, Ring!HasEvent
  <2>2. handled[l] <= pos[l] /\ TypeOf[l] \in Types
    BY <2>1, TypesOfListeners DEF FedInv, GivenOnce
  <2>3. tail[TypeOf[l]] + Cardinality(InFlight(TypeOf[l])) <= MaxEvents
    BY <2>2 DEF FedInv, InBounds
  <2>4. /\ Cardinality(InFlight(TypeOf[l])) \in Nat /\ tail[TypeOf[l]] \in Nat
        /\ handled[l] \in Nat /\ pos[l] \in Nat /\ MaxEvents \in Nat
    BY <2>2, InFlightFinite, EvnoConstants DEF FedInv, RestTypes, StreamInv, StreamTypes
  <2>5. handled[l] < MaxEvents
    BY <2>1, <2>2, <2>3, <2>4
  <2> QED
    BY <2>1, <2>5 DEF Task!Next
<1>2. ASSUME NEW l \in Listeners, TaskStep(l) PROVE [Task!Next]_taskVars
  BY <1>1, <1>2 DEF TaskStep, Subscribe, DropLauncher, StreamEnd, ReleaseEvent, HandleDone,
    TaskAlone, Exit, GuardNotify, DropListener, Task!Next, Task!TaskStep
<1>3. ASSUME UserStep PROVE [Task!Next]_taskVars
  BY <1>3 DEF UserStep, Panic, Abort, EmitCall, EmitAbandon, Bind, ToEmitter, DropEmitter, Cancel,
    Clone, Discard, DropBus, Drain, Close, AbandonDrain, Task!Next
<1>4. CASE \/ \E c \in Calls : EmitStep(c)
           \/ \E b \in Buses : DrainStep(b)
           \/ UNCHANGED vars
  BY <1>4 DEF EmitStep, EmitPass, Publish, DrainStep, DropCheck, Release, WaitStep, WaitReturns,
    DrainReturns, vars
<1> QED
  BY <1>2, <1>3, <1>4 DEF Next

-----------------------------------------------------------------------------
(* The bus runs each part as the part was modelled alone, whatever the      *)
(* other parts do meanwhile: a call of bus.rs is one operation of each part *)
(* it touches (bus.rs:103-128, 158-174, launcher.rs, listener/mod.rs).      *)
THEOREM PartsKept ==
  Spec => /\ WG!Init /\ [][WG!Next]_wgVars
          /\ Latch!Init /\ [][Latch!Next]_latchVars
          /\ Task!Init /\ [][Task!Next]_taskVars
          /\ Handle!Init /\ [][Handle!Next]_busVars
<1> DEFINE PartsInv == FedInv /\ HandleInv
<1>1. Init => PartsInv /\ WG!Init /\ Latch!Init /\ Task!Init /\ Handle!Init
  BY FedInvInit, HandleInvInit DEF Init
<1>2. PartsInv /\ [Next]_vars => PartsInv'
  BY FedInvStep, HandleInvStep
<1>3. PartsInv /\ [Next]_vars =>
        [WG!Next]_wgVars /\ [Latch!Next]_latchVars /\ [Task!Next]_taskVars /\ [Handle!Next]_busVars
  BY WaitGroupSteps, LatchSteps, TaskSteps, HandleSteps
<1> HIDE DEF PartsInv
<1> QED
  BY <1>1, <1>2, <1>3, PTL DEF Spec

(* What was proved of the parts therefore holds in the bus: no drain sleeps *)
(* through the last notification (wait_group.rs:23-48), no emit passes a    *)
(* guard it found locked (bind_latch.rs:18-28), once() and many(n) are kept *)
(* and at most one event comes late (with_times.rs:39-45,                   *)
(* listener/mod.rs:65-78), and no drain returns before the last clone is    *)
(* past its check (bus.rs:222-231).                                         *)
THEOREM PartsHold ==
  Spec => [](/\ WG!NoLostWakeup
             /\ PassedOwesNothing
             /\ Task!AtMostTimes /\ Task!AtMostOneLate
             /\ Handle!DrainAfterLastDrop)
<1> DEFINE WGI == WaitGroupPart!IInv
           LaI == LatchPart!IInv
           TaI == TaskPart!IInv
           HaI == HandlePart!IInv
<1>1. WG!Init => WGI
  <2>1. WG!Init => WaitGroupPart!Init
    BY DEF WG!Init, WG!N!Init, WaitGroupPart!Init, WaitGroupPart!N!Init
  <2> QED
    BY <2>1, WaitGroupPart!InitInv, EvnoConstants DEF WaitGroupPart!IsFiniteSet, IsFiniteSet
<1>2. WGI /\ [WG!Next]_wgVars => WGI'
  BY WaitGroupSame, WaitGroupPart!StepInv, EvnoConstants DEF WaitGroupPart!IsFiniteSet, IsFiniteSet
<1>3. WGI => WG!NoLostWakeup
  BY DEF WaitGroupPart!IInv, WG!NoLostWakeup, WaitGroupPart!NoLostWakeup
<1>4. Latch!Init => LaI
  <2>1. Latch!Init => LatchPart!Init
    BY DEF Latch!Init, LatchPart!Init
  <2> QED
    BY <2>1, LatchPart!InitInv, EvnoConstants
      DEF LatchPart!OwnersFinite, LatchPart!IsFiniteSet, IsFiniteSet
<1>5. LaI /\ [Latch!Next]_latchVars => LaI'
  BY LatchSame, LatchPart!StepInv
<1>6. LaI => PassedOwesNothing
  BY DEF LatchPart!IInv, PassedOwesNothing, Latch!PassedOwesNothing, LatchPart!PassedOwesNothing
<1>7. Task!Init => TaI
  <2>1. Task!Init => TaskPart!Init
    BY DEF Task!Init, TaskPart!Init
  <2> QED
    BY <2>1, TaskPart!InitInv, EvnoConstants
<1>8. TaI /\ [Task!Next]_taskVars => TaI'
  BY TaskSame, TaskPart!StepInv, EvnoConstants
<1>9. TaI => Task!AtMostTimes /\ Task!AtMostOneLate
  BY DEF TaskPart!IInv, Task!AtMostTimes, Task!AtMostOneLate, TaskPart!AtMostTimes,
    TaskPart!AtMostOneLate
<1>10. Handle!Init => HaI
  <2>1. Handle!Init => HandlePart!Init
    BY DEF Handle!Init, Handle!N!Init, HandlePart!Init, HandlePart!N!Init
  <2> QED
    BY <2>1, HandlePart!InitInv, EvnoConstants DEF HandlePart!IsFiniteSet, IsFiniteSet
<1>11. HaI /\ [Handle!Next]_busVars => HaI'
  BY HandleSame, HandlePart!StepInv, EvnoConstants DEF HandlePart!IsFiniteSet, IsFiniteSet
<1>12. HaI => Handle!DrainAfterLastDrop
  BY DEF HandlePart!IInv, HandlePart!NotifiedLast, Handle!DrainAfterLastDrop
<1> HIDE DEF WGI, LaI, TaI, HaI
<1>13. Spec => []WGI
  BY <1>1, <1>2, PartsKept, PTL
<1>14. Spec => []LaI
  BY <1>4, <1>5, PartsKept, PTL
<1>15. Spec => []TaI
  BY <1>7, <1>8, PartsKept, PTL
<1>16. Spec => []HaI
  BY <1>10, <1>11, PartsKept, PTL
<1> QED
  BY <1>3, <1>6, <1>9, <1>12, <1>13, <1>14, <1>15, <1>16, PTL

(* wait() is linearizable in the bus as it is alone: while tasks start and  *)
(* end, clones come and go and drains are given up, a drain leaves wait()   *)
(* only at a moment when no task holds its guard (wait_group.rs:23-37,      *)
(* bus.rs:170).                                                             *)
THEOREM WaitKeepsPromise ==
  Spec => WaitGroupPart!Promise!Init /\ [][WaitGroupPart!Promise!Next]_(WaitGroupPart!Promise!vars)
<1> DEFINE WGI == WaitGroupPart!IInv
           PNext == [WaitGroupPart!Promise!Next]_(WaitGroupPart!Promise!vars)
<1>1. WG!Init => WGI /\ WaitGroupPart!Promise!Init
  <2>1. WG!Init => WaitGroupPart!Init
    BY DEF WG!Init, WG!N!Init, WaitGroupPart!Init, WaitGroupPart!N!Init
  <2> QED
    BY <2>1, WaitGroupPart!InitInv, WaitGroupPart!RefinesInit, EvnoConstants
      DEF WaitGroupPart!IsFiniteSet, IsFiniteSet
<1>2. WGI /\ [WG!Next]_wgVars => WGI' /\ PNext
  BY WaitGroupSame, WaitGroupPart!StepInv, WaitGroupPart!StepRefines, EvnoConstants
    DEF WaitGroupPart!IsFiniteSet, IsFiniteSet
<1> HIDE DEF WGI
<1> QED
  BY <1>1, <1>2, PartsKept, PTL

-----------------------------------------------------------------------------
(* What is held back is owed its turn. *)

(* A closed latch has a guard, and the guard a launcher.                    *)
LEMMA ClosedHasLauncher ==
  ASSUME StartInv, ~Latch!Open
  PROVE  \E l \in Listeners : pc[l] \in {"starting", "subscribed"}
<1>1. locked # {}
  BY FS_EmptySet DEF StartInv, GuardsCounted, Latch!Open
<1> QED
  BY <1>1 DEF StartInv, StartTypes, GuardsLaunch, Launching

(* A full ring has a consumer that is behind, and that has its task.        *)
LEMMA FullHasBehind ==
  ASSUME StreamInv, RestTypes, NEW c \in Calls, ~Ring!HasRoom(TypeOf[c])
  PROVE  \E l \in Ring!Subscribers(TypeOf[c]) : Ring!HasEvent(l) /\ ~Over(l)
<1>1. PICK l \in Ring!Subscribers(TypeOf[c]) : ~(tail[TypeOf[c]] - pos[l] < capacity)
  BY DEF Ring!HasRoom
<1>2. l \in consumers /\ l \in Listeners /\ TypeOf[l] = TypeOf[c] /\ TypeOf[c] \in Types
  BY <1>1, TypesOfCalls DEF Ring!Subscribers, StreamInv, StreamTypes
<1>3. capacity >= 2 /\ capacity \in Int
  <2>1. PICK e \in 1..capacity : capacity = 2 ^ e
    BY EvnoConstants DEF RestTypes
  <2> QED
    BY <2>1, EvnoConstants DEF RestTypes
<1>4. Ring!HasEvent(l)
  BY <1>1, <1>2, <1>3 DEF StreamInv, StreamTypes, Ring!HasEvent
<1>5. ~Over(l)
  BY <1>2 DEF StreamInv, ConsumersListen, Listening, Over
<1> QED
  BY <1>1, <1>4, <1>5

(* No emit is held back for good by a latch nobody will open or a ring that *)
(* nobody will empty (publisher.rs:29-32).                                  *)
THEOREM EmitsAreOwed == Spec => []EmitOwed
<1> DEFINE OwedInv == StartInv /\ StreamInv /\ RestTypes
<1>1. Init => OwedInv
  BY StartInvInit, StreamInvInit, RestTypesInit
<1>2. OwedInv /\ [Next]_vars => OwedInv'
  BY StartInvStep, StreamInvStep, RestTypesStep
<1>3. OwedInv => EmitOwed
  BY ClosedHasLauncher, FullHasBehind DEF EmitOwed
<1> HIDE DEF OwedInv
<1> QED
  BY <1>1, <1>2, <1>3, PTL DEF Spec

\* A clone that a listener holds exists since it was bound, and went with it.
OwnedGone ==
  \A l \in Listeners : \A b \in Owned[l] \cap Buses :
    /\ pc[l] # "unbound" => bus[b] # "unborn"
    /\ pc[l] = "dropped" => bus[b] # "live"

Begun(b) == bus[b] # "unborn"
Ended(b) == bus[b] \notin {"unborn", "live"}

(* No clone comes back.                                                     *)
LEMMA NoneComesBack ==
  ASSUME HandleInv, [Next]_vars, NEW b \in Buses
  PROVE  /\ Begun(b) => Begun(b)'
         /\ Ended(b) => Ended(b)'
<1>1. CASE UNCHANGED bus
  BY <1>1 DEF Begun, Ended
<1>2. ASSUME NEW a \in Buses, HandleStep(a)
      PROVE  \/ UNCHANGED bus
             \/ \E c \in Buses : bus[c] = "unborn" /\ bus' = [bus EXCEPT ![c] = "live"]
             \/ \E to \in {"dropping", "releasing", "waiting", "awaiting", "drained",
                           "abandoned", "gone"} : bus' = [bus EXCEPT ![a] = to]
  BY <1>2 DEF HandleStep, Handle!BusStep, Handle!DropCheck, Handle!Release, Handle!WaitReturns,
    Handle!DrainReturns, Handle!Discard, Handle!DropBus, Handle!Drain, Handle!Close,
    Handle!Abandon, Handle!Clone, Handle!At
<1> QED
  BY <1>1, <1>2, StepsOfHandle DEF HandleInv, HandleTypes, Begun, Ended, busVars

(* The two steps at which a listener gets what it holds and gives it up.    *)
LEMMA TurnsOfTask ==
  ASSUME StreamTypes, [Next]_vars, NEW l \in Listeners
  PROVE  \/ pc'[l] = pc[l]
         \/ \E b \in Buses : Bind(b, l) /\ pc'[l] = "starting"
         \/ DropListener(l)
         \/ pc[l] # "unbound" /\ pc'[l] # "dropped"
<1> USE DEF StreamTypes, Task!Goto, Task!At
<1>1. ASSUME NEW m \in Listeners, Subscribe(m) \/ DropLauncher(m) \/ TakeEvent(m) \/ StreamEnd(m)
      PROVE  pc'[l] = pc[l] \/ (pc[l] # "unbound" /\ pc'[l] # "dropped")
  BY <1>1 DEF Subscribe, Task!Subscribe, DropLauncher, Task!DropLauncher, TakeEvent,
    Task!TakeEvent, StreamEnd, Task!StreamEnd
<1>2. ASSUME NEW m \in Listeners, HandleDone(m) \/ TaskAlone(m) \/ Exit(m) \/ Panic(m) \/ Abort(m)
      PROVE  pc'[l] = pc[l] \/ (pc[l] # "unbound" /\ pc'[l] # "dropped")
  BY <1>2 DEF HandleDone, Task!HandleDone, TaskAlone, Task!Begin, Task!AfterDone,
    Task!CheckCancel, Task!SelectCancelled, Exit, Task!Exit, Panic, Task!Panic, Abort,
    Task!Abort, Task!Hooks
<1>3. ASSUME NEW m \in Listeners, DropListener(m)
      PROVE  pc'[l] = pc[l] \/ DropListener(l)
  BY <1>3 DEF DropListener, Task!DropListener
<1>4. ASSUME NEW b \in Buses, NEW m \in Listeners, Bind(b, m)
      PROVE  pc'[l] = pc[l] \/ (Bind(b, l) /\ pc'[l] = "starting")
  BY <1>4 DEF Bind, Task!Spawn
<1>5. CASE UNCHANGED pc
  BY <1>5
<1>6. CASE \E m \in Listeners : TaskStep(m)
  BY <1>1, <1>2, <1>3, <1>5, <1>6 DEF TaskStep, ReleaseEvent, GuardNotify, taskVars
<1>7. CASE UserStep
  BY <1>2, <1>4, <1>5, <1>7 DEF UserStep, EmitCall, EmitAbandon, ToEmitter, DropEmitter, Cancel,
    Task!Cancel, Clone, Discard, DropBus, Drain, Close, AbandonDrain, taskVars
<1>8. CASE \/ \E c \in Calls : EmitStep(c)
           \/ \E b \in Buses : DrainStep(b)
           \/ UNCHANGED vars
  BY <1>5, <1>8 DEF EmitStep, EmitPass, Publish, DrainStep, DropCheck, Release, WaitStep,
    WaitReturns, DrainReturns, vars, taskVars
<1> QED
  BY <1>6, <1>7, <1>8 DEF Next

(* A listener holds one clone at most: dropping it leaves none.             *)
LEMMA OwnedDrops ==
  ASSUME HandleInv, NEW l \in Listeners, DropOwned(l), NEW b \in Owned[l] \cap Buses
  PROVE  bus'[b] # "live"
<1>1. CASE bus[b] = "live"
  <2>1. PICK c \in Owned[l] \cap Buses : Handle!DropBus(c)
    BY <1>1 DEF DropOwned
  <2>2. c = b
    <3>1. IsFiniteSet(Owned[l] \cap Buses) /\ Cardinality(Owned[l] \cap Buses) <= 1
      BY EvnoConstants, FS_Subset
    <3>2. {b} \cup {c} \subseteq Owned[l] \cap Buses
      BY <2>1
    <3>3. /\ Cardinality({b} \cup {c}) <= Cardinality(Owned[l] \cap Buses)
          /\ Cardinality(Owned[l] \cap Buses) \in Nat /\ Cardinality({b} \cup {c}) \in Nat
      BY <3>1, <3>2, FS_Subset, FS_CardinalityType
    <3>4. IsFiniteSet({b}) /\ Cardinality({b}) = 1
      BY FS_Singleton
    <3>5. c \notin {b} => Cardinality({b} \cup {c}) = Cardinality({b}) + 1
      BY <3>4, FS_AddElement
    <3> QED
      BY <3>1, <3>3, <3>4, <3>5
  <2> QED
    BY <2>1, <2>2 DEF HandleInv, HandleTypes, Handle!DropBus, Handle!At
<1>2. CASE bus[b] # "live"
  <2>1. \/ UNCHANGED bus
        \/ \E c \in Buses : bus' = [bus EXCEPT ![c] = "dropping"]
    BY OwnedGoes
  <2> QED
    BY <1>2, <2>1 DEF HandleInv, HandleTypes
<1> QED
  BY <1>1, <1>2

LEMMA OwnedGoneStep ==
  ASSUME HandleInv, StreamTypes, OwnedGone, [Next]_vars
  PROVE  OwnedGone'
<1> SUFFICES ASSUME NEW l \in Listeners, NEW b \in Owned[l] \cap Buses
             PROVE  /\ pc'[l] # "unbound" => bus'[b] # "unborn"
                    /\ pc'[l] = "dropped" => bus'[b] # "live"
  BY DEF OwnedGone
<1>1. CASE pc'[l] = pc[l] \/ (pc[l] # "unbound" /\ pc'[l] # "dropped")
  BY <1>1, NoneComesBack DEF OwnedGone, Begun, Ended
<1>2. ASSUME NEW a \in Buses, Bind(a, l), pc'[l] = "starting"
      PROVE  bus'[b] # "unborn"
  BY <1>2, NoneComesBack DEF Bind, Movable, Alive, Begun
<1>3. CASE DropListener(l)
  <2>1. pc[l] # "unbound" /\ DropOwned(l)
    BY <1>3 DEF DropListener, Task!DropListener, Task!Goto, Task!At
  <2> QED
    BY <2>1, NoneComesBack, OwnedDrops DEF OwnedGone, Begun
<1> QED
  BY <1>1, <1>2, <1>3, TurnsOfTask

(* A count above zero has a guard, and the guard a task.                    *)
LEMMA CountedHasTask ==
  ASSUME DrainInv, count # 0
  PROVE  \E l \in Listeners : pc[l] # "unbound" /\ ~Over(l)
<1>1. GuardHolders # {}
  BY FS_EmptySet DEF DrainInv, HoldersCounted
<1> QED
  BY <1>1 DEF GuardHolders, DrainInv, GuardsWork, Working, Over

LEMMA HolderWillGo ==
  ASSUME OwnedGone, Handle!Holders # {}
  PROVE  \E c \in Buses : WillGo(c)
BY DEF OwnedGone, Handle!Holders, WillGo

(* The only way for a drain to sleep for good by mistake, in wait() with     *)
(* nobody left to notify it, or on drop_notifier when the clones are gone   *)
(* or went with a listener, is that two drops overlap between the check and *)
(* the release (bus.rs:158-174, 222-231).                                   *)
THEOREM OwedUnlessOverlap == Spec /\ []Handle!DropsApart => []DrainOwed
<1> DEFINE NoI == HandlePart!NotifyInv
           OwI == PromiseInv /\ OwnedGone
<1>1. Handle!Init => NoI
  <2>1. Handle!Init => HandlePart!Init
    BY DEF Handle!Init, Handle!N!Init, HandlePart!Init, HandlePart!N!Init
  <2> QED
    BY <2>1, HandlePart!NotifyInit, EvnoConstants DEF HandlePart!IsFiniteSet, IsFiniteSet
<1>2. NoI /\ Handle!DropsApart /\ Handle!DropsApart' /\ [Handle!Next]_busVars => NoI'
  <2> SUFFICES ASSUME NoI, Handle!DropsApart, Handle!DropsApart', [Handle!Next]_busVars
               PROVE  NoI'
    OBVIOUS
  <2>1. [HandlePart!Next]_(HandlePart!vars)
    BY HandleSame
  <2>2. HandlePart!DropsApart /\ HandlePart!DropsApart'
    BY DEF Handle!DropsApart, HandlePart!DropsApart
  <2> QED
    BY <2>1, <2>2, HandlePart!NotifyStep, EvnoConstants DEF HandlePart!IsFiniteSet, IsFiniteSet
<1>3. NoI => \A b \in Buses : dropped[b] = "armed" => Handle!Holders # {}
  BY DEF HandlePart!NotifyInv, HandlePart!NoLostNotify, HandlePart!Holders, Handle!Holders
<1>4. Init => OwI
  <2>1. Init => OwnedGone
    BY DEF Init, Task!Init, OwnedGone
  <2> QED
    BY <2>1, StartInvInit, DrainInvInit, HandleInvInit, StreamInvInit DEF PromiseInv
<1>5. OwI /\ [Next]_vars => OwI'
  BY StartInvStep, DrainInvStep, HandleInvStep, StreamInvStep, OwnedGoneStep
    DEF PromiseInv, StreamInv
<1>6. OwI /\ WG!NoLostWakeup /\ NoI => DrainOwed
  <2> SUFFICES ASSUME OwI, WG!NoLostWakeup, NoI, NEW b \in Buses
               PROVE  /\ waiter[b] = "park" /\ idle[b] # "fired" =>
                           \E l \in Listeners :
                             guard[l] = "notifying" \/ (pc[l] # "unbound" /\ ~Over(l))
                      /\ dropped[b] = "armed" => \E c \in Buses : WillGo(c)
    BY DEF DrainOwed
  <2>1. waiter[b] = "park" /\ idle[b] # "fired" =>
          count # 0 \/ \E l \in Listeners : guard[l] = "notifying"
    BY DEF WG!NoLostWakeup
  <2>2. DrainInv
    BY DEF PromiseInv
  <2>3. dropped[b] = "armed" => Handle!Holders # {}
    BY <1>3
  <2> QED
    BY <2>1, <2>2, <2>3, CountedHasTask, HolderWillGo
<1> HIDE DEF NoI, OwI
<1>7. Spec => []OwI
  BY <1>4, <1>5, PTL DEF Spec
<1>8. Spec /\ []Handle!DropsApart => []NoI
  BY <1>1, <1>2, PartsKept, PTL
<1>9. Spec => []WG!NoLostWakeup
  BY PartsHold, PTL
<1> QED
  BY <1>6, <1>7, <1>8, <1>9, PTL

(* On a current-thread runtime the drops take turns, and no drain sleeps    *)
(* for good by mistake (bus.rs:158-174, 222-231).                           *)
THEOREM DrainsAreOwed ==
  ASSUME ~Parallel
  PROVE  Spec => []DrainOwed
<1> DEFINE TuI == HandlePart!IInv /\ Handle!DropsApart
<1>1. Handle!Init => TuI
  <2>1. Handle!Init => HandlePart!Init
    BY DEF Handle!Init, Handle!N!Init, HandlePart!Init, HandlePart!N!Init
  <2> QED
    BY <2>1, HandlePart!InitInv, HandlePart!NotifyInit, EvnoConstants
      DEF HandlePart!IsFiniteSet, IsFiniteSet, Handle!DropsApart, HandlePart!DropsApart
<1>2. TuI /\ [Handle!Next]_busVars => TuI'
  BY HandleSame, HandlePart!StepInv, HandlePart!TurnsStep, EvnoConstants
    DEF HandlePart!IsFiniteSet, IsFiniteSet, Handle!DropsApart, HandlePart!DropsApart
<1>3. TuI => Handle!DropsApart
  OBVIOUS
<1> HIDE DEF TuI
<1>4. Spec => []Handle!DropsApart
  BY <1>1, <1>2, <1>3, PartsKept, PTL
<1> QED
  BY <1>4, OwedUnlessOverlap, PTL
===============================================================================
