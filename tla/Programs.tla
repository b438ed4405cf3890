------------------------------- MODULE Programs -------------------------------
(***************************************************************************)
(* Programs that use the bus: those of the examples, of the documentation   *)
(* and of the tests, and a few that put listeners to harder use.  A program *)
(* is a list of calls for its main task, for one more task, and for the     *)
(* handler of each listener; the bus underneath is Evno's.  On tokio's      *)
(* current-thread runtime, which the tests use, the other tasks run only    *)
(* while main is at an await.                                               *)
(***************************************************************************)
EXTENDS Evno, Sequences

CONSTANTS mb, cb,         \* main's Bus; a clone of it, a chain's perhaps
          em,             \* a typed emitter for events of type B
          a1, a2, b,      \* on() listeners: two of type A and one of type B
          o, m,           \* once() and many(3) listeners of type A
          k,              \* a Listener of type A that is no closure
          f,              \* one of type A that panics
          w, h,           \* of type A; w owns the clone and h the typed emitter
          viaBus, viaClone, \* calls that emit an A through mb and through cb
          viaEmitter, alsoB \* calls that emit a B through em and through mb

VARIABLES program,
          at,           \* per task, the place of its next call
          begun,        \* the tasks that are waiting for that call to return
          counter       \* the AtomicUsize that the handlers of a program share

pvars == <<program, at, begun, counter>>
allVars == <<vars, pvars>>

Tasks == Listeners \cup {"main", "other"}

(* Calls, named as in the source.  A wait names what main waits for: the    *)
(* n-th event of a listener, its after(), its task, or that nobody has any  *)
(* work left, which is what the sleeps of the tests are for.                *)
on(s, l) == <<"on", s, l>>
emit(c) == <<"emit", c>>
clone(s) == <<"clone", s, cb>>
toEmitter(s) == <<"toEmitter", s>>
drop(s) == <<"drop", s>>
drain(s) == <<"drain", s>>
close(s) == <<"close", s>>
cancel(l) == <<"cancel", l>>
receive(l, n) == <<"receive", l, n>>
afterOf(l) == <<"afterOf", l>>
join(l) == <<"join", l>>
sleep == <<"sleep">>
yield == <<"yield">>
fetchAdd == <<"fetchAdd">>
panicFrom(n) == <<"panicFrom", n>>
assertHandled(l, n) == <<"assertHandled", l, n>>
assertCounter(n) == <<"assertCounter", n>>

Program(multi, n, main) ==
  [multi |-> multi, capacity |-> n,
   code |-> [t \in Tasks |-> IF t = "main" THEN main ELSE <<>>]]

Multi(n, main) == Program(TRUE, n, main)
Current(n, main) == Program(FALSE, n, main)
With(p, t, code) == [p EXCEPT !.code[t] = code]

-----------------------------------------------------------------------------
(* The examples *)

SimpleEmitAndOn ==
  Multi(4, <<on(mb, a1), emit(viaBus), emit(viaBus), emit(viaBus), close(mb)>>)

StepContextInjection ==
  Multi(4, <<clone(mb), on(mb, a1), emit(viaClone), emit(viaClone), close(cb), close(mb)>>)

(* The documentation *)

QuickStart ==
  Multi(4, <<on(mb, a1), emit(viaBus), emit(viaBus), close(mb)>>)

\* The listener asserts that the number of its event is 1000; that of the
\* second event is 1001.
ContextInjection ==
  With(Multi(4, <<clone(mb), on(mb, f), emit(viaClone), emit(viaClone), close(cb), close(mb)>>),
       f, <<panicFrom(2)>>)

BasicEventDispatch ==
  Multi(4, <<on(mb, a1), on(mb, a2), emit(viaBus), emit(viaBus), close(mb)>>)

LimitAndCancel ==
  With(With(Multi(4, <<on(mb, o), on(mb, m)>> \o [i \in 1..5 |-> emit(viaBus)] \o
                     <<join(m), assertHandled(m, 3), assertCounter(4),
                       on(mb, a1), cancel(a1), join(a1), assertHandled(a1, 0),
                       close(mb), assertHandled(o, 1)>>),
            o, <<fetchAdd>>),
       m, <<fetchAdd>>)

(* The tests of bus.rs, but for their first sleep: the latch makes it       *)
(* unnecessary.                                                             *)

BindAndEmitSingle ==
  Current(2, <<on(mb, a1), emit(viaBus), receive(a1, 1)>>)

RespectsEventTypes ==
  Current(4, <<on(mb, a1), on(mb, b), emit(viaBus), emit(viaBus), emit(alsoB), sleep,
               assertHandled(a1, 2), assertHandled(b, 1)>>)

OnceFiresOnlyOnce ==
  Current(2, <<on(mb, o), emit(viaBus), emit(viaBus), join(o), assertHandled(o, 1)>>)

ManyFiresExactTimes ==
  Current(8, <<on(mb, m)>> \o [i \in 1..5 |-> emit(viaBus)] \o
             <<join(m), assertHandled(m, 3)>>)

SubscribeHandleCancel ==
  Current(2, <<on(mb, a1), cancel(a1), yield, emit(viaBus), sleep, assertHandled(a1, 0),
               join(a1)>>)

DrainWaitsForListeners ==
  Current(2, <<on(mb, a1), emit(viaBus), receive(a1, 1), drain(mb), assertHandled(a1, 1)>>)

ToEmitterWorks ==
  Current(2, <<on(mb, b), toEmitter(mb), emit(viaEmitter), sleep, assertHandled(b, 1)>>)

(* The tests of listener/mod.rs *)

NormalCompletion ==
  Current(2, <<on(mb, k), emit(viaBus), drop(mb), afterOf(k), assertHandled(k, 1)>>)

OnCancellation ==
  Current(2, <<on(mb, k), sleep, cancel(k), afterOf(k), assertHandled(k, 0)>>)

SelfCancellation ==
  With(Current(2, <<on(mb, k), emit(viaBus), join(k), afterOf(k)>>), k, <<cancel(k)>>)

(* The tests of chain/mod.rs, but for what the steps do: see Chain *)

IdentityChain ==
  Current(2, <<clone(mb), on(mb, a1), emit(viaClone), receive(a1, 1)>>)

ChainToEmitter ==
  Current(2, <<clone(mb), on(mb, b), toEmitter(cb), emit(viaEmitter), receive(b, 1)>>)

-----------------------------------------------------------------------------
(* Harder use: two tasks that fill a ring of two slots, with a listener     *)
(* that leaves early ...                                                    *)
TwoSenders ==
  With(Multi(2, <<clone(mb), on(mb, m), emit(viaBus), emit(viaBus), emit(viaBus), close(mb)>>),
       "other", <<emit(viaClone), emit(viaClone), emit(viaClone), close(cb)>>)

\* ... a handler that emits to the next listener, and so is to end before it ...
Pipeline ==
  With(Multi(2, <<on(mb, b), toEmitter(mb), on(mb, h), emit(viaBus), emit(viaBus), emit(viaBus),
                  drain(mb), assertHandled(h, 3), assertHandled(b, 3)>>),
       h, <<emit(viaEmitter)>>)

\* ... a listener that panics with an event in hand, while the ring fills ...
PanicInHand ==
  With(Multi(2, <<on(mb, f), emit(viaBus), emit(viaBus), emit(viaBus), emit(viaBus), close(mb)>>),
       f, <<panicFrom(1)>>)

\* ... a listener that owns the last clone, and is cancelled during a drain ...
OwnsBus ==
  With(Current(2, <<clone(mb), on(mb, w), emit(viaBus), drain(mb), join(w)>>),
       "other", <<cancel(w)>>)

\* ... or that binds another listener through it, emits to that one, and then
\* cancels itself: the drain is to wait for the event to be handled.
BindsDuringDrain ==
  With(Current(2, <<clone(mb), on(mb, w), emit(viaBus), drain(mb), assertHandled(a2, 1),
                    join(w), join(a2)>>),
       w, <<on(cb, a2), emit(viaClone), cancel(w)>>)

Programs ==
  {SimpleEmitAndOn, StepContextInjection, QuickStart, ContextInjection,
   BasicEventDispatch, LimitAndCancel,
   BindAndEmitSingle, RespectsEventTypes, OnceFiresOnlyOnce, ManyFiresExactTimes,
   SubscribeHandleCancel, DrainWaitsForListeners, ToEmitterWorks,
   NormalCompletion, OnCancellation, SelfCancellation, IdentityChain, ChainToEmitter,
   TwoSenders, Pipeline, PanicInHand, OwnsBus, BindsDuringDrain}

-----------------------------------------------------------------------------
InitPrograms ==
  /\ Init
  /\ program \in Programs
  /\ capacity = program.capacity
  /\ at = [t \in Tasks |-> 1]
  /\ begun = {}
  /\ counter = 0

Done(t) == at[t] > Len(program.code[t])
Op(t) == program.code[t][at[t]]

AtRest(l) ==
  \/ pc[l] \in {"unbound", "dropped"}
  \/ /\ pc[l] = "select" /\ ~Task!Cancelled(l)
     /\ ~Ring!HasEvent(l) /\ Open(TypeOf[l])

(* The body of a closure is a future: it runs once the closure has returned *)
(* it, and dropped the Guard that was its argument.                         *)
FetchAdd(t) ==
  /\ t \notin held
  /\ counter' = counter + 1
  /\ UNCHANGED vars

(* Calls that return in one step ... *)
AtOnce(t) ==
  LET op == Op(t) IN
  \/ op[1] = "on" /\ Bind(op[2], op[3])
  \/ op[1] = "clone" /\ Clone(op[2], op[3])
  \/ op[1] = "toEmitter" /\ ToEmitter(op[2], em)
  \/ op[1] = "cancel" /\ pc[op[2]] # "unbound" /\ Cancel(TokenOf[op[2]])
  \/ op[1] = "panicFrom" /\ handled[t] >= op[2] /\ Panic(t)
  \/ /\ \/ op[1] = "panicFrom" /\ handled[t] < op[2]
        \/ op[1] = "receive" /\ handled[op[2]] >= op[3]
        \/ op[1] = "afterOf" /\ op[2] \in afterRan
        \/ op[1] = "join" /\ pc[op[2]] = "dropped"
        \/ op[1] = "sleep" /\ \A l \in Listeners : AtRest(l)
        \/ op[1] \in {"yield", "assertHandled", "assertCounter"}
     /\ UNCHANGED vars

(* ... calls that are awaited, and the drop of a Bus, which takes two ... *)
Begins(t) ==
  LET op == Op(t) IN
  \/ op[1] = "emit" /\ EmitCall(op[2])
  \/ op[1] = "drop" /\ DropBus(op[2])
  \/ op[1] = "drain" /\ Drain(op[2])
  \/ op[1] = "close" /\ Close(op[2])

(* ... and their return. *)
Returns(t) ==
  LET op == Op(t) IN
  IF op[1] = "emit" THEN call[op[2]] = "idle" ELSE bus[op[2]] \in {"gone", "drained"}

Awaits == {"emit", "drain", "close", "receive", "afterOf", "join", "sleep", "yield"}

MainAwaits ==
  ~Done("main") =>
    /\ Op("main")[1] \in Awaits
    /\ Op("main")[1] \in {"emit", "drain", "close"} => "main" \in begun

DropGoesOn == \E s \in Buses : bus[s] \in {"dropping", "releasing"}

(* A task other than t may be the one that runs.                            *)
MayRun(t) ==
  ~program.multi => ~DropGoesOn /\ (t # "main" => MainAwaits)

Advance(t) == at' = [at EXCEPT ![t] = @ + 1] /\ UNCHANGED program

CodeTurn(t) ==
  /\ MayRun(t) /\ ~Done(t)
  /\ t \in Listeners => pc[t] = "handle"
  /\ \/ t \notin begun /\ AtOnce(t) /\ Advance(t) /\ UNCHANGED <<begun, counter>>
     \/ Op(t) = fetchAdd /\ FetchAdd(t) /\ Advance(t) /\ UNCHANGED begun
     \/ /\ t \notin begun /\ Begins(t)
        /\ begun' = begun \cup {t}
        /\ UNCHANGED <<program, at, counter>>
     \/ /\ t \in begun /\ Returns(t) /\ Advance(t)
        /\ begun' = begun \ {t}
        /\ UNCHANGED <<vars, counter>>

(* A handler may drop its event at any point of its code, returns at the    *)
(* end of it, and starts it again with the next event.                      *)
ListenerTurn(l) ==
  /\ MayRun(l)
  /\ pc[l] = "handle" => l \in held \/ Done(l)
  /\ TaskStep(l)
  /\ at' = IF pc'[l] = "handle" THEN at ELSE [at EXCEPT ![l] = 1]
  /\ UNCHANGED <<program, begun, counter>>

EmitTurn(c) == MayRun("call") /\ EmitStep(c) /\ UNCHANGED pvars

DrainTurn(s) ==
  /\ bus[s] \in {"dropping", "releasing"} \/ MayRun("drain")
  /\ DrainStep(s)
  /\ UNCHANGED pvars

NextPrograms ==
  \/ \E t \in Tasks : CodeTurn(t)
  \/ \E l \in Listeners : ListenerTurn(l)
  \/ \E c \in Calls : EmitTurn(c)
  \/ \E s \in Buses : DrainTurn(s)

(* The runtime goes on as long as some task can.  The runs of a program are *)
(* finite, so that no task can be passed over for ever.                     *)
SpecPrograms ==
  InitPrograms /\ [][NextPrograms]_allVars /\ WF_allVars(NextPrograms)

-----------------------------------------------------------------------------
(* The counts the programs assert are exact, and the handlers have returned, *)
(* after a join, a drain or a rest, under every schedule their runtime has, *)
(* though nothing but the bus orders the tasks (the assert_eq! of bus.rs    *)
(* and listener/mod.rs).                                                    *)
AssertionsHold ==
  \A t \in Tasks :
    ~Done(t) /\ Op(t)[1] = "assertHandled" =>
      LET l == Op(t)[2] IN handled[l] = Op(t)[3] /\ pc[l] # "handle"

(* README.md:138 expects the counter of once() and many(3) to be 4 when     *)
(* many() has ended: "assert_eq!(counter.load(Ordering::SeqCst), 4); // 1   *)
(* (once) + 3 (many)".                                                      *)
CounterIsExact ==
  \A t \in Tasks : ~Done(t) /\ Op(t)[1] = "assertCounter" => counter = Op(t)[2]

(* Every program ends: each emit, drain, close and join returns, also when  *)
(* rings are full, when listeners emit, bind, own a clone or panic, and     *)
(* when a listener is cancelled while others wait for it (bus.rs, emit.rs). *)
ProgramsEnd == <>Done("main")
===============================================================================
