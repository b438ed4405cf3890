------------------------------- MODULE BusHandle ------------------------------
(***************************************************************************)
(* The clones of a Bus and the end of their lives (bus.rs): Clone, Drop,    *)
(* Drain and Close, over the strong count of Arc<Inner> and the Notify that *)
(* a drain waits on.  Dropping a Bus takes two steps: Drop::drop looks at   *)
(* the count, and only then are the fields dropped and the count lowered.   *)
(***************************************************************************)
EXTENDS Integers, FiniteSets

CONSTANTS Buses,        \* the clones a program may make
          First,        \* the one Bus::new returns
          Parallel      \* TRUE on tokio's multi-thread runtime.  On the current-
                        \* thread runtime tasks switch only at an await, and
                        \* there is none between the two steps of a drop.

ASSUME BusConstants ==
  /\ IsFiniteSet(Buses)
  /\ First \in Buses
  /\ Parallel \in BOOLEAN

VARIABLES bus,          \* the point each clone has reached
          refs,         \* strong count of Arc<Inner>
          future,       \* drop_notifier: the Notified future of each drain
          closers       \* history: the clones released through close()

vars == <<bus, refs, future, closers>>

N == INSTANCE Notify WITH Waiters <- Buses

Init ==
  /\ bus = [b \in Buses |-> IF b = First THEN "live" ELSE "unborn"]
  /\ refs = 1
  /\ N!Init
  /\ closers = {}

\* No other clone is between the two steps of its drop.
Turn(b) ==
  Parallel \/ \A c \in Buses \ {b} : bus[c] \notin {"dropping", "releasing"}

At(b, from, to) ==
  /\ Turn(b)
  /\ bus[b] = from
  /\ bus' = [bus EXCEPT ![b] = to]

\* Mutants: a second Arc<Inner> is kept somewhere; one too many is tolerated.
SoleRefNever == refs = 0
SoleRefOrTwo == refs <= 2

\* Arc::get_mut(&mut self.inner).is_some()
SoleRef == refs = 1

-----------------------------------------------------------------------------
Clone(b, c) ==
  /\ Turn(b)
  /\ bus[b] = "live" /\ bus[c] = "unborn"
  /\ bus' = [bus EXCEPT ![c] = "live"]
  /\ refs' = refs + 1
  /\ UNCHANGED <<future, closers>>

DropBus(b) ==
  /\ At(b, "live", "dropping")
  /\ UNCHANGED <<refs, future, closers>>

(* The future is created before self is dropped, so that no notification    *)
(* can be missed.                                                           *)
Drain(b) ==
  /\ At(b, "live", "dropping")
  /\ N!Notified(b)
  /\ UNCHANGED <<refs, closers>>

Close(b) ==
  /\ At(b, "live", "dropping")
  /\ IF SoleRef THEN N!Notified(b) ELSE UNCHANGED future
  /\ closers' = closers \cup {b}
  /\ UNCHANGED refs

DropCheck(b) ==
  /\ At(b, "dropping", "releasing")
  /\ IF SoleRef THEN N!NotifyWaiters ELSE UNCHANGED future
  /\ UNCHANGED <<refs, closers>>

Draining(b) == future[b] # "none"

\* Mutant: close() lowers the count and so does the drop that follows.
ReleaseTwice(b) ==
  /\ At(b, "releasing", IF Draining(b) THEN "waiting" ELSE "gone")
  /\ refs' = refs - (IF b \in closers THEN 2 ELSE 1)
  /\ UNCHANGED <<future, closers>>

Release(b) ==
  /\ At(b, "releasing", IF Draining(b) THEN "waiting" ELSE "gone")
  /\ refs' = refs - 1
  /\ UNCHANGED <<future, closers>>

(* latch.wait() returns; here, whenever it likes. *)
WaitReturns(b) ==
  /\ At(b, "waiting", "awaiting")
  /\ UNCHANGED <<refs, future, closers>>

\* Mutant: drain() does not await the notification.
DrainUnawaited(b) ==
  /\ At(b, "awaiting", "drained")
  /\ N!Forget(b)
  /\ UNCHANGED <<refs, closers>>

DrainReturns(b) ==
  /\ At(b, "awaiting", "drained")
  /\ N!Ready(b)
  /\ N!Forget(b)
  /\ UNCHANGED <<refs, closers>>

(* The future of drain() is dropped at one of its two awaits.               *)
Abandon(b) ==
  /\ At(b, "waiting", "abandoned") \/ At(b, "awaiting", "abandoned")
  /\ N!Forget(b)
  /\ UNCHANGED <<refs, closers>>

-----------------------------------------------------------------------------
Discard(b) == DropBus(b) \/ Drain(b) \/ Close(b)

BusStep(b) == DropCheck(b) \/ Release(b) \/ WaitReturns(b) \/ DrainReturns(b)

Next ==
  \E b \in Buses :
    BusStep(b) \/ Discard(b) \/ Abandon(b) \/ \E c \in Buses : Clone(b, c)

(* A drop and a drain that have begun are carried on, unless the drain is   *)
(* given up.  Nobody has to clone or to discard a Bus.                      *)
Spec == Init /\ [][Next]_vars /\ \A b \in Buses : WF_vars(BusStep(b))

(* A program that keeps no Bus for ever. *)
TidySpec == Spec /\ \A b \in Buses : WF_vars(Discard(b))

-----------------------------------------------------------------------------
Holders == {b \in Buses : bus[b] \in {"live", "dropping", "releasing"}}

TypeOK ==
  /\ bus \in [Buses -> {"unborn", "live", "dropping", "releasing",
                        "waiting", "awaiting", "drained", "abandoned", "gone"}]
  /\ refs \in Nat
  /\ N!TypeOK
  /\ closers \subseteq Buses

(* A drain returns only when nobody can use the bus any more: every clone   *)
(* there has ever been is past the check in its Drop, although the check    *)
(* and the lowering of the count are apart (bus.rs:158-174, 222-231).       *)
DrainAfterLastDrop ==
  \A b \in Buses :
    bus[b] = "drained" => \A c \in Buses : bus[c] \notin {"live", "dropping"}

(* Why it holds: the strong count is the number of clones that have not     *)
(* lowered it yet, so the notification comes from the last of them, and     *)
(* from then on there is no clone left to make another (bus.rs:226-229).    *)
RefsAreHolders == refs = Cardinality(Holders)

NotifiedLast ==
  (\E b \in Buses : future[b] = "fired" \/ bus[b] = "drained") =>
    \A c \in Buses : bus[c] \notin {"live", "dropping"}

(* A drain that awaits the notification is never left alone with it: some   *)
(* clone has still to go.  On several threads two drops at once may break   *)
(* that (bus.rs:222-231).                                                   *)
NoLostNotify == \A b \in Buses : future[b] = "armed" => Holders # {}

\* No two clones are at the same time between the check and the release.
DropsApart ==
  \A b, c \in Buses :
    bus[b] \in {"dropping", "releasing"} /\ bus[c] \in {"dropping", "releasing"} => b = c

(* "The system will automatically trigger a global drain only when the very *)
(* last reference is released" (README.md:44): if every clone was released  *)
(* through close(), one of them drains (bus.rs:181-189).                    *)
CloseTriggersDrain ==
  (\A b \in Buses : bus[b] \in {"unborn", "gone"}) =>
    \E b \in Buses : bus[b] = "gone" /\ b \notin closers

(* drain() "Blocks until all Bus clones have been dropped" (README.md:41)   *)
(* and no longer: once they are, and wait() has returned, it returns, even  *)
(* if other drains were given up.                                           *)
DrainTerminates ==
  \A b \in Buses : bus[b] = "waiting" ~> bus[b] \in {"drained", "abandoned"}
===============================================================================
