----------------------------- MODULE ListenerTask ----------------------------
(***************************************************************************)
(* The task Bus::bind spawns: Launcher::launch (launcher.rs), the loop of   *)
(* ListenerActor::run (listener/mod.rs), the WithTimes wrapper that once()  *)
(* and many() add (listener/with_times.rs), and the CancellationToken and   *)
(* JoinHandle of its SubscribeHandle (handle.rs).                           *)
(*                                                                          *)
(* What the event stream offers is left to the environment here: an event,  *)
(* or the end of the stream, may come whenever the task asks.               *)
(***************************************************************************)
EXTENDS Integers, FiniteSets

CONSTANTS Listeners,
          Tokens,       \* CancellationTokens
          TokenOf,      \* the token of each listener; bind_cancel may share one
          Times,        \* the limit given to many() (1 for once()); 0 for on()
          Faulty,       \* listeners whose code may panic, or whose task may be
                        \* aborted through the JoinHandle that cancel() returns
          Closures,     \* those from_fn or from_fn_with_cancel made
          MaxHandled    \* bound: events the environment offers to a listener

ASSUME ListenerConstants ==
  /\ TokenOf \in [Listeners -> Tokens]
  /\ Times \in [Listeners -> Nat]
  /\ Faulty \subseteq Listeners
  /\ Closures \subseteq Listeners

VARIABLES pc,           \* the point each task has reached
          cancelled,    \* the tokens that have been cancelled
          count,        \* events given to the listener (WithTimes.count)
          late,         \* history: those given after its token was cancelled
          afterRan      \* history: the listeners whose after() has returned

vars == <<pc, cancelled, count, late, afterRan>>

Init ==
  /\ pc = [l \in Listeners |-> "unbound"]
  /\ cancelled = {}
  /\ count = [l \in Listeners |-> 0]
  /\ late = [l \in Listeners |-> 0]
  /\ afterRan = {}

Cancelled(l) == TokenOf[l] \in cancelled

At(l, from, to) ==
  /\ pc[l] = from
  /\ pc' = [pc EXCEPT ![l] = to]

Goto(l, from, to) ==
  /\ At(l, from, to)
  /\ UNCHANGED <<cancelled, count, late, afterRan>>

-----------------------------------------------------------------------------
(* Launcher::launch *)

Spawn(l) == Goto(l, "unbound", "starting")

Subscribe(l) == Goto(l, "starting", "subscribed")

DropLauncher(l) == Goto(l, "subscribed", "begin")

(* ListenerActor::run *)

Begin(l) == Goto(l, "begin", "loop")

\* Mutant: the loop is `loop { select! ... }`, without the test of the token.
CheckNothing(l) == Goto(l, "loop", "select")

CheckCancel(l) == Goto(l, "loop", IF Cancelled(l) THEN "after" ELSE "select")

\* Mutant: the counter of events goes down from zero.
TakeCountsDown(l) ==
  /\ At(l, "select", "handle")
  /\ count' = [count EXCEPT ![l] = @ - 1]
  /\ UNCHANGED <<cancelled, late, afterRan>>

\* select! is not `biased`: when an event is ready and the token cancelled,
\* either branch may be taken.
TakeEvent(l) ==
  /\ At(l, "select", "handle")
  /\ count' = [count EXCEPT ![l] = @ + 1]
  /\ late' = [late EXCEPT ![l] = IF Cancelled(l) THEN @ + 1 ELSE @]
  /\ UNCHANGED <<cancelled, afterRan>>

StreamEnd(l) == Goto(l, "select", "after")

\* Mutant: select! has no branch for the token.
SelectDeaf(l) == FALSE /\ Goto(l, "select", "after")

SelectCancelled(l) == Cancelled(l) /\ Goto(l, "select", "after")

\* Mutant: WithTimes compares with > instead of >=.
TimesExceeded(l) == Times[l] # 0 /\ count[l] > Times[l]

TimesReached(l) == Times[l] # 0 /\ count[l] >= Times[l]

HandleDone(l) ==
  /\ At(l, "handle", "loop")
  /\ cancelled' = IF TimesReached(l) THEN cancelled \cup {TokenOf[l]} ELSE cancelled
  /\ UNCHANGED <<count, late, afterRan>>

AfterDone(l) ==
  /\ At(l, "after", "exiting")
  /\ afterRan' = afterRan \cup {l}
  /\ UNCHANGED <<cancelled, count, late>>

\* The stream and the GroupGuard are dropped, in this order; then, at last,
\* the listener: it was declared before _guard.
Exit(l) == Goto(l, "exiting", "ended")

DropListener(l) == Goto(l, "ended", "dropped")

-----------------------------------------------------------------------------
(* SubscribeHandle::cancel, a listener that cancels its own token, or the   *)
(* owner of a token given to bind_cancel.                                   *)
Cancel(k) ==
  /\ k \notin cancelled
  /\ cancelled' = cancelled \cup {k}
  /\ UNCHANGED <<pc, count, late, afterRan>>

\* Where the listener's own code runs; a closure has an empty begin() and
\* an empty after().
Hooks(l) == IF l \in Closures THEN {"handle"} ELSE {"begin", "handle", "after"}

(* Unwinding, and JoinHandle::abort at an await, both drop the future of    *)
(* the task where it stands.                                                *)
Panic(l) ==
  /\ l \in Faulty
  /\ \E at \in Hooks(l) : Goto(l, at, "exiting")

Abort(l) ==
  /\ l \in Faulty /\ Cancelled(l)
  /\ \E at \in {"starting", "select"} \cup Hooks(l) : Goto(l, at, "exiting")

-----------------------------------------------------------------------------
TaskStep(l) ==
  \/ Subscribe(l) \/ DropLauncher(l) \/ Begin(l)
  \/ CheckCancel(l) \/ SelectCancelled(l) \/ HandleDone(l)
  \/ AfterDone(l) \/ Exit(l) \/ DropListener(l)

Next ==
  \/ \E l \in Listeners :
       \/ Spawn(l) \/ TaskStep(l) \/ Panic(l) \/ Abort(l)
       \/ count[l] < MaxHandled /\ TakeEvent(l)
       \/ StreamEnd(l)
  \/ \E k \in Tokens : Cancel(k)

(* The executor polls a task that can make progress, and the code of a      *)
(* listener returns from begin(), handle() and after().                     *)
Spec == Init /\ [][Next]_vars /\ \A l \in Listeners : WF_vars(TaskStep(l))

-----------------------------------------------------------------------------
TypeOK ==
  /\ pc \in [Listeners -> {"unbound", "starting", "subscribed", "begin", "loop",
                           "select", "handle", "after", "exiting", "ended",
                           "dropped"}]
  /\ cancelled \subseteq Tokens
  /\ count \in [Listeners -> Nat]
  /\ late \in [Listeners -> Nat]
  /\ afterRan \subseteq Listeners

(* many(n) hands over at most n events, although the token it cancels is    *)
(* read only at the head of the loop and select! may prefer an event to a   *)
(* cancelled token (with_times.rs:39-45, listener/mod.rs:65-78).            *)
AtMostTimes == \A l \in Listeners : Times[l] # 0 => count[l] <= Times[l]

(* Cancellation is not instantaneous, but bounded: once the token is        *)
(* cancelled, by anyone and at any point, at most one more event is handed  *)
(* to the listener (listener/mod.rs:65-78).                                 *)
AtMostOneLate == \A l \in Listeners : late[l] <= 1

(* Why both hold: a task waits in select! only if, when it entered, no      *)
(* event had come late and its limit was not reached; past its limit it     *)
(* goes round the loop only to find the token cancelled.                    *)
SelectsInTime ==
  \A l \in Listeners :
    /\ late[l] # 0 => Cancelled(l) /\ pc[l] # "select"
    /\ Times[l] # 0 /\ pc[l] \in {"unbound", "starting", "subscribed", "begin",
                                 "loop", "select"} =>
         count[l] < Times[l] \/ (pc[l] = "loop" /\ Cancelled(l))

(* A task whose token is cancelled leaves its loop and runs after(), even   *)
(* if no event ever comes (listener/mod.rs:65-81).                          *)
CancelRunsAfter ==
  \A l \in Listeners \ Faulty :
    pc[l] # "unbound" /\ Cancelled(l) ~> pc[l] = "dropped" /\ l \in afterRan

(* "The Listener task automatically cancels and exits" after its last event *)
(* (bus.rs:138, with_times.rs:39-45): no further event is needed for that.  *)
LimitEndsTask ==
  \A l \in Listeners :
    Times[l] # 0 /\ count[l] = Times[l] ~> pc[l] = "dropped"
===============================================================================
