# A TLA+ model of evno

evno is an in-process event bus for tokio. A program binds *listeners* to event
types on a `Bus`, emits events through the bus, through typed emitters or through
chains of processing steps, and ends with `drain()` or `close()`, which wait for the
listeners to finish. This directory holds TLA+ modules that model the bus, TLC
configurations that check them on small instances, and TLAPS proofs of what matters
most, for any number of listeners, calls, clones, tokens and event types.

Paths below such as `bus.rs:226` are relative to `src/` of the crate. `PROJECT.json`
maps every definition to the lines it models.

Contents: [the system](#the-system) · [the modules](#the-modules) ·
[the runs](#the-runs) · [divergences](#where-code-and-documentation-disagree) ·
[fairness](#fairness) · [bounds](#bounds) · [proofs](#proofs) ·
[what is left out](#what-is-not-modelled) · [plan](#plan)

## The system

| Component | State it keeps | Operations | What makes it correct |
|---|---|---|---|
| `WaitGroup` (`wait_group.rs`) | an atomic count of live `GroupGuard`s, a tokio `Notify` | `add`, drop of a guard (`fetch_sub`, then `notify_waiters` by the last), `wait` (load, create the `Notified`, load again, await, repeat) | the count is the number of guards; no wake-up is lost; `wait` returns only at a moment when no guard lives, and then does return |
| `BindLatch` (`bind_latch.rs`) | an atomic count of live `BindGuard`s | `lock`, drop of a guard, `wait_for_binds` (spin with `yield_now`) | a wait that ends has outlived every guard that was alive when it began; a wait ends once there are no guards |
| `Publisher` (`publisher.rs`) | a gyre ring of one event type, the latch | `emit` (wait for the latch, then publish), `subscribe`, clone, drop | an event is published only after the listeners bound before the call have subscribed |
| `Launcher` and the listener's task (`launcher.rs`, `listener/mod.rs`) | the task's program point, its `CancellationToken`, its `Consumer` | subscribe, drop of the launcher, `begin`, the loop with `select!`, `after`, the drops at the end, the listener's own last | every event after the subscription is handed over once and in order; cancellation and the end of the stream lead to `after`; guards go whatever the way out |
| `WithTimes` (`listener/with_times.rs`) | a count of events | `handle`, cancelling the token at the limit | `once` and `many(n)` hand over at most n events, and end without a further one |
| `SubscribeHandle` (`handle.rs`) | the token and the `JoinHandle` | `cancel`, polling, abort | cancelling, at any moment of the task's life, leads to its end |
| `Bus` handles (`bus.rs`) | the strong count of `Arc<Inner>`, `drop_notifier` | clone, drop (look at the count; then lower it), `drain`, `close` | a drain returns when the tasks and the clones are gone, neither earlier nor never; the last `close` drains |
| `Bus` front (`bus.rs`) | the wait group, the latch, the typed emitters | `bind` and its forms `on`, `once`, `many`, `bind_cancel`; `emit`, `to_emitter` | zero-loss startup; complete streams |
| Emitter map (`bus.rs`, `emitter.rs`) | one `Publisher` per `TypeId`, in a lock-free `papaya::HashMap` | get or create, downcast, clone, the end of `Inner` | one ring per type, of that type; no `Publisher` left over |
| `Chain`, `Step`, `WithStep` (`chain/`) | a chain of cloneable steps | `prepend`, clone, `to_emitter`, `emit`, `drain`, `close` | each event goes through each step of its sender once, latest first |
| Closure listeners (`listener/from_fn.rs`, `from_fn_with_cancel.rs`) | what the closure captured | forward `handle` | captured clones and emitters live as long as the listener |
| Traits, crate root (`emit.rs`, `event.rs`, `lib.rs`) | none | - | what `Emit`, `TypedEmit`, `Drain` and `Close` promise |

How they interact: `bind_cancel` adds to the wait group, locks the latch and spawns
the task. The task subscribes to the ring, drops its launcher (a `Publisher` clone and
the `BindGuard`), and then consumes the ring. Every `emit` spins on the latch, which is
shared by *all* types of the bus. The stream of a type ends when the last `Publisher`
of the type is dropped: those in the map die with the last `Bus`, others are owned by
typed emitters and by launchers. A drain drops its own `Bus`, waits for the wait group,
and then for the notification that the last clone's `Drop` sends. Listeners may own
clones and typed emitters, and then take part in keeping streams open.

What is hard here: lock-free protocols (two counters, the double check around
`Notified`, `Arc::get_mut` used as a test before a drop, the lookup and insertion in
the map) run concurrently; the random choice of `select!`; panics, aborts and dropped
futures with guards and events in hand; a bounded ring whose slowest consumer blocks
every sender; a shutdown that depends on the order in which the owners of one stream
disappear. `hazards` in `PROJECT.json` lists them at their lines, each with the properties that
would catch it, or with the reason why none does.

## The modules

| Module | Models | State ↔ code |
|---|---|---|
| `Notify` | tokio's `Notify`, as `wait_group.rs` and `bus.rs` use it (external) | `future[w]`: no `Notified`, one that has been created, one that was notified. `notify_waiters` reaches the futures that exist already, polled or not |
| `WaitGroup` | `wait_group.rs`, one action per access to shared memory | `count` the atomic, `guard` the guards (`"notifying"` is between `fetch_sub` and `notify_waiters`), `waiter` the position in `wait` |
| `WaitGroupPromise` | what a drain relies on: a set of guards, and waits that return when it is empty | implemented by `WaitGroup` (`KeepsPromise`) |
| `BindLatch` | `bind_latch.rs` and the emits waiting on it | `counter` the atomic, `locked` the guards, `call` the emits; `owed` is history |
| `ListenerTask` | `launcher.rs`, `listener/mod.rs`, `with_times.rs`, `handle.rs`, `from_fn*.rs` | `pc` the point a task has reached, `cancelled` the tokens, `count` that of `WithTimes`; `late` and `afterRan` are history |
| `Channel` | the gyre ring, as `publisher.rs` and `listener/mod.rs` use it (external) | `tail` events published, `pos` events released by a consumer, `consumers` those subscribed, `held` those whose last event has still a guard; `publish` waits while the slowest consumer is a ring behind |
| `BusHandle` | `Clone`, `Drop`, `drain` and `close` of `bus.rs` | `bus` per clone, `refs` the strong count, `future` the `Notified` of each drain; `closers` is history |
| `EmitterMap` | `Inner.emitters` and the downcasts of `emitter.rs` | `emitters` the map, `kind` the `E` of each ring, `publishers` how many `Publisher`s of it exist, `at`, `want`, `ring` the position of each user |
| `EmitterRegistry` | what `bind`, `emit` and `to_emitter` rely on: a table that gives each type one ring, on first use, in one step | implemented by `EmitterMap` (`KeepsPromise`) |
| `Evno` | `bus.rs` over the parts above, the map excepted | the variables of `WaitGroup`, `BindLatch`, `Channel`, `ListenerTask` and `BusHandle`, plus `emitter` for typed emitters; `before` and `known` are history |
| `EventBus` | what the bus promises a program: who gets which event, when a drain may return | implemented by `Evno` (`KeepsPromise`) |
| `Programs` | the examples, the documented programs and the tests, run on `Evno` | `program` the calls of each task, `at` and `begun` how far it is, `counter` the atomic its handlers share |
| `Chain` | `chain/` | `steps` of each chain and typed emitter, `next` the counter a step's clones share, and for each emitting task its `sender`, its remaining `todo` and the `marks` on its event; `asked` and `lost` are history |
| `…Proofs` | theorems, see [proofs](#proofs) | |
| `MC…` | values of the constants for TLC | |

`Evno` instantiates five parts with shared constants (the owners of a
`BindGuard`, the tasks of the wait group and the consumers of the ring are all the
listeners; the waiters of the wait group are the clones), and each of its actions is
the conjunction of the actions of the parts it touches, so that one call of `bus.rs` is
one action: `Bind` adds to the wait group, locks the latch and spawns; `Exit` drops the
consumer and the guard; `Release` lowers the count and, in a drain, starts the wait.
An action ends where the code gives up control (an `.await`) or where another thread
may observe an intermediate state (between two accesses to a shared counter).
`Parallel` tells the two runtimes apart: on the current-thread runtime nothing else
runs between the two halves of the drop of a `Bus`, since there is no await there.

`Owned` gives each listener the clone and the typed emitters its closure captured. They
must be alive and not in use when the listener is bound, only its own code uses them from
then on, and they go with the listener: after its `GroupGuard` (`DropListener`), or before
it if the task is aborted before it has subscribed (`Abort`). Futures may be dropped at
every await: `EmitAbandon` while an emit spins or waits for room, `AbandonDrain` in
`wait()` or before the notification.

A listener owns at most one clone (`EvnoConstants`): of several, each drop would be a drop of its
own, one after the other, and `DropOwned` is a single one.

The guard of an event is moved into the handler, and its drop is a step of its own
(`ReleaseEvent`), at any time until the handler ends or unwinds. A closure may have dropped it
before the future it returns has run (`from_fn.rs:28`): the slot is free, and the handler still
at work.

`BindLatch` has no run of its own: its actions, and its property `PassedOwesNothing`, are those of
`Evno`. `EmitterMap` is checked on its own. `Evno` relies on it, and gives each type its one
ring from the start.

`EmitterRegistry` knows no lookup, insertion or `Publisher`. In the mapping, its table is the
map, which keeps its entries when `Inner` is gone, and a user uses a ring from the
step that found or filed it, `Lookup` or `Insert`, to its `Release`.

`EventBus` knows no latch, ring, task or count. Its listeners are `unbound`, `bound`,
`listening` or `over`, its calls remember whom they must reach, its drains whom they must
wait for. In the mapping, clones are the clones that are live, a listener is `listening`
while it has a `Consumer`, and a drain is `draining` from its call to its return.

`Programs` gives every task of a program a list of calls. A wait in the code is a call that
returns when what it waits for has come: an event, `after()`, the end of a task, or, for
the `sleep`s of the tests, that nobody has any work left. The programs are those of
`examples/`, `lib.rs`, `README.md` and the tests of `bus.rs`, `listener/mod.rs` and
`chain/mod.rs`, and five more: two tasks that fill a ring of two, a handler that emits to the
next listener, one that panics with an event in hand while the ring fills, a listener that owns
the last clone and is cancelled during a drain, and one that binds another listener during a
drain and emits to it.

`Chain` models only what a chain adds. Its steps number the events they see with
a counter shared by their clones, which is what the steps in the crate's
documentation, tests and examples do; that makes lost, duplicated and swapped
processing visible on the event itself. Its `Publish` stands for the whole of
`Bus::emit`; `Abandon` is the end of a future of `emit` dropped while a step is at work or
the bus is, which takes the numbers its event bears out of use (`lost`). `drain` and `close` of a chain call those of its bus; `Programs` has them.

Definitions marked `Mutant:` are small mistakes a maintainer could make (a dropped
test, `>` for `>=`, a guard released too early). They take no part in any
specification; `PROJECT.json` says which property each of them breaks, and so shows
that the property depends on the code.

## The runs

Eight runs pass. The third column gives the distinct states.

| Run (configuration) | Instance | States | Shows |
|---|---|---|---|
| `waitgroup` (`WaitGroup.cfg`) | 3 tasks, 2 waiters that may be given up | 1 713 | the count is exact (`CountIsHeld`), no wake-up is lost (`NoLostWakeup`); `WaitGroup` implements `WaitGroupPromise`, liveness included |
| `listener_task` (`ListenerTask.cfg`) | 2 listeners on one token: one limited to two events, one that may panic or be aborted | 3 224 | limits are exact (`AtMostTimes`, `LimitEndsTask`); after cancellation at most one more event is handed over (`AtMostOneLate`), and `after` runs even if no event ever follows (`CancelRunsAfter`) |
| `bus_threads` (`BusHandleThreads.cfg`) | 3 clones, multi-thread | 3 348 | a drain is never notified, and never returns, before the last clone has passed the check in its `Drop` (`NotifiedLast`, `DrainAfterLastDrop`) |
| `emitter_map` (`EmitterMap.cfg`) | 3 users, 2 types, 5 rings, with symmetry | 1 944 | first uses of a type end up on one ring, of that type, however they overlap (`OneRing`, `DowncastSucceeds`), and no `Publisher` is left over to keep it open (`NoStrayPublisher`); `EmitterMap` implements `EmitterRegistry` (`KeepsPromise`) |
| `evno_delivery` (`EvnoDelivery.cfg`) | 2 clones and a typed emitter, current-thread; an `on` listener, and a `once` listener on the same token that may fail and owns the second clone and the emitter; 2 emit calls, 2 events, a ring of 2 | 620 984 | an emit leaves the latch only when every guard that was alive at its call is gone (`PassedOwesNothing`), no event is lost at start-up (`ZeroLossStartup`) or at the end of a stream (`StreamEndsComplete`), a drain waits for every listener bound before it was called (`DrainWaitsForKnown`) and never sleeps with nobody left to wake it (`DrainOwed`), and `Evno` implements `EventBus` (`KeepsPromise`) |
| `evno_drain_ends` (`EvnoDrainEnds.cfg`) | 2 clones, a typed emitter, a closure that may fail, current-thread, a tidy program | 153 770 | every drain returns (`DrainTerminates`), and if all clones go through `close`, one drains (`CloseTriggersDrain`) |
| `programs` (`Programs.cfg`) | 23 programs | 25 854 | the counts that the programs assert are exact, and the handlers have returned, under every schedule their runtime has (`AssertionsHold`); an emit that is held back is so by a listener that can still let it go on (`EmitOwed`), and every emit returns though rings fill up (`EmitReturns`), every event is handled or its listener ends (`EventsHandled`), and every program ends (`ProgramsEnd`) |
| `chain` (`Chain.cfg`) | 2 chains, a typed emitter, 2 steps, 2 tasks, 3 events, depth 2; emits may be given up | 1 047 970 | every event passes each step of its sender once, latest first (`LatestStepFirst`); numbers are not reused, nor lost unless an emit is given up (`NumbersUsedOnce`); one task's events stay in order (`TaskOrder`) |

Four runs end in a counterexample; see the next section.

`CHECK_DEADLOCK FALSE` is set where the program really may stop: tasks have ended, clones
are gone, a program is over, or a bound is reached. `WaitGroup` can always go on, and is
checked for deadlock.

## Where code and documentation disagree

1. **`bus_lost_notify`: a drain may never return** (multi-thread runtime). `Drop`
   tests `Arc::get_mut` *before* its own `Arc` is dropped (`bus.rs:226`). Two clones
   dropped at once both see a count of two; neither notifies, and a drain waits for
   ever. One of the two may be the drain's own clone. This is the only way it can happen:
   `LostOnlyByOverlap` and `OwedUnlessOverlap` prove that as long as no two drops overlap
   between the test and the release, every drain that waits has somebody to wait for. The README has `drain` block only
   until "all `Bus` clones have been dropped"; the comments at `bus.rs:166` and
   `bus.rs:187` rely on the notification. TLC finds it under `TidySpec`, in which
   every clone is given up.
2. **`bus_nobody_drains`: the last `close` may not drain** (multi-thread runtime).
   The same stale count in `close` (`bus.rs:183`): two clones closed at once each leave
   the drain to the other. The README promises that it is triggered "when the very last
   reference is released".
3. **`evno_late_listener`: a listener may outlive a drain** (either runtime). `drain`
   waits for the wait group first and the clones second (`bus.rs:170-173`). A clone
   still alive after the first wait may bind a listener and be dropped; the drain
   returns while that task runs. `bus.rs:154` speaks of "waiting for all active tasks to
   complete and waiting for all Bus replicas to be dropped". What does hold is
   `DrainWaitsForKnown`: all listeners bound before the call are waited for.
4. **`programs_readme`: the counter of the README's second example may be 3** (multi-thread
   runtime). The example joins the `many` listener only, and then asserts that `once` has
   counted its event too (`README.md:138`). The fifth emit does wait for a slot of the ring of
   four, hence until the `once` listener has let go of its event; but its closure takes `_event`
   and returns an `async move` block without it, so the event goes when the closure returns,
   before the block has run (`from_fn.rs:28`). With the `once` task stopped there, the fifth
   emit passes, `many` ends, and the counter is 3. `AssertionsHold` has what does hold: `many`
   has handled three events when it is joined, and `once` one when the bus is closed.

Smaller observations, modelled as the code has them and not given a run:

- `select!` in `listener/mod.rs` is not `biased`, although the comment at line 67 speaks of
  "prioritizing" the next event: when an event is ready and the token cancelled, either
  branch may be taken. Hence the rest of the ring may go unread, and one late event may be
  handed over (`AtMostOneLate`).
- `after` is not called when the listener panics, nor when it is aborted; `CancelRunsAfter`
  is stated for listeners that do neither.
- The latch is tested and the event published in two steps, so a listener bound in
  between may miss the event (if it subscribes after the publication) or receive it.
  `ZeroLossStartup` is about listeners bound before the call of `emit`.
- `emit.rs:36` has `drain` block "until all underlying tasks and resources have been cleaned
  up". The listener of a task, and what it owns, is dropped after the `GroupGuard`
  (`listener/mod.rs:58`): a drain may return while that `Drop` is still to run.
- In the example at `lib.rs:133` every event is asserted to have `request_id` 1000; the
  second one has 1001, and its listener panics. The program ends all the same
  (`ContextInjection` in `Programs`).
- The test `test_subscribe_handle_cancel` (`bus.rs:397`) expects no event after `cancel`. On a
  current-thread runtime this is right; on threads the listener might be handed one.
- `OwnsBus` and `BindsDuringDrain` of `Programs` are checked on the current-thread runtime. On
  threads the first divergence applies to them too: the `Drop` of a listener's clone may race
  with that of the drain.

## Fairness

- `WF` of every step of a listener's task, of an emit in flight and of a drop or drain
  in progress: tokio polls each task that was woken or has yielded, a synchronous `Drop`
  runs to its end, and the listener's own `begin`, `handle` and `after` are assumed to
  return. In `ListenerTask` alone, `TakeEvent` and `StreamEnd` are choices of the
  environment and are not fair. In `Evno` they are decided by the ring: a task that
  finds an event takes it or the cancellation, and one weak fairness condition covers
  the choice, since `select!` guarantees neither branch.
- Nothing obliges a program to bind, emit, cancel, clone, panic, or drop anything, nor to give
  up a call.
- `TidySpec` adds a program that keeps no `Bus` and no typed emitter for ever. In `Evno`
  it is `SF`, because an emit in flight borrows its sender and so disables the drop again and
  again; one condition for all the drops is enough, since none can be dropped twice.
  `DrainTerminates` is claimed only for such programs: a typed emitter kept for ever holds
  its stream open, and every drain with it.
- `Programs` has `WF` of its whole next-state relation: the runtime does not stop while a task
  can go on. The runs of a program are finite, so no task can be passed over for ever.
- `Chain` and `BindLatch` state no liveness. Listeners bound without pause may starve an emit, and
  the code has nothing against that: `EmitReturns` is about programs that bind finitely many.

## Bounds

`MaxEvents` (`Evno`, `Chain`), `MaxHandled` (`ListenerTask`), `MaxDepth` (`Chain`) and `Rings`
(`EmitterMap`) are the only bounds that stand in the modules; everything else is bounded by
the sizes of the sets of constants. They are enough for what the properties tell apart:

- Two clones are what the races of `Drop` and `close` need; three, in
  `BusHandle` alone, add a clone made while another is being dropped.
- Three guards and two waiters exercise a guard added between a notification and the
  wake-up while a second waiter is still arming.
- In `evno_delivery` two events with two listeners at different positions are enough for
  delivery; the rings fill up in `programs`, where up to six events go through a ring of two,
  four or eight slots (`Capacities`, powers of two as gyre demands).
- A limit of two makes "one less", "at" and "one more" differ; the environment
  offers three events.
- Three users and two types let two of them race for one type while the third goes first, comes
  late, or races for the other. A ring is never used twice, so five rings are enough for three
  users to lose, and to try again.
- Two steps and two tasks show order and sharing; a third event lets one task emit
  twice while the other overtakes it. An emit that was given up counts twice for each number
  its event bore, which leaves room for one more event after it.

The numbers `2^w` of a wrapping counter are not modelled: `LatchInv`, `RefsAreHolders` and
`CountIsHeld`, which hold for all instances, show that the counters never go below zero.

## Proofs

Proved with TLAPS, for any constants that satisfy the named assumptions:

| Module | Assumption | Theorems |
|---|---|---|
| `WaitGroupProofs` | `TasksFinite` | `TypeCorrect`, `CountCorrect`, `NoWakeupLost`, `KeepsPromiseSafely` |
| `BindLatchProofs` | `OwnersFinite`, as a hypothesis | `TypeCorrect`, `CounterCountsGuards`, `LatchKeepsPromise` |
| `ListenerTaskProofs` | `ListenerConstants` | `TypeCorrect`, `AlwaysSelectsInTime`, `LimitKept`, `OneLateEvent` |
| `BusHandleProofs` | `BusConstants` | `TypeCorrect`, `NotifiedByLast`, `DrainIsLast`, `LostOnlyByOverlap`; with `~Parallel`: `NotifyNotLost` |
| `EmitterMapProofs` | `EmitterMapConstants` | `TypeCorrect`, `MapKept`, `OneRingPerType`, `NoDowncastFails`, `NoPublisherLeft`, `MapKeepsPromise` |
| `ChainProofs` | `ChainConstants` | `TypeCorrect`, `StepsInOrder`, `NumbersOnce`, `OrderWithinTask` |
| `EvnoProofs` | `EvnoConstants` | `NoEarlyPublish`, `DrainsWait`; with `~Parallel`: `CloseDrains` |
| `EvnoPromiseProofs` | `EvnoConstants` | `TypeCorrect`, `StreamsEndComplete`, `BusKeepsPromise`, `PartsKept`, `PartsHold`, `WaitKeepsPromise`, `EmitsAreOwed`, `OwedUnlessOverlap`; with `~Parallel`: `DrainsAreOwed` |

Every safety invariant and action property of a passing run is stated by one of these
theorems, except `AssertionsHold` of `Programs`, which is about twenty-three concrete programs.
`CloseDrains`, `NotifyNotLost` and `DrainsAreOwed` have the hypothesis that the runtime is
current-thread because on threads they are false: `bus_nobody_drains` and `bus_lost_notify`
show it.

Each rests on an inductive invariant, with one lemma per action or group of actions.

- **WaitGroup**: `NoLostWakeup` is not inductive alone. `FutureOwned` is added (a caller
  owns a `Notified` exactly from its creation to its wake-up) and `CountIsHeld`: the drop
  that brings the count to zero is then the one of the last guard, and leaves its task
  `"notifying"`; a reload of zero does not park. `KeepsPromiseSafely` maps each step to
  a step of `WaitGroupPromise` or a stutter; the step that matters is a load of
  zero, which by `CountIsHeld` happens when no guard is held.
- **BindLatch**: `PassedOwesNothing` needs that the counter is the cardinality of the
  set of guards (zero means the set is empty) and that a call is owed only live
  guards. Both form `LatchInv`.
- **ListenerTask**: `AtMostTimes` and `AtMostOneLate` are not inductive: nothing in them
  says that a task at its limit cannot select again. `SelectsInTime` says it: a task in
  `select!` is below its limit and has had no late event, because either would have
  been followed by the test of the token at the head of the loop.
- **BusHandle**: `DrainAfterLastDrop` needs `RefsAreHolders` (the strong count is the
  number of clones that have not lowered it) and `NotifiedLast` (whoever sees a
  count of one in `Drop` is alone, and no clone can be made any more). It holds for
  both values of `Parallel`: what fails on threads is only that the notification comes.
- **BusHandle, the notification** (`LostOnlyByOverlap`, `NotifyNotLost`): `NoLostNotify` says that
  a drain which waits has a clone left to wait for. With it goes `LastHasNotified`: a clone
  about to release the last reference leaves no future armed. Both are inductive as long as
  no two clones are between check and release at once (`DropsApart`): then the count a `Drop`
  tests is still the count when it releases. On threads `DropsApart` is a hypothesis about the
  run; on a current-thread runtime `TurnsStep` proves it.
- **EmitterMap**: `MapInv` says what the map is good for: an entry is never replaced, so
  every user of a type has the entry of the type, and it was made for that type. For
  `NoPublisherLeft` the users are counted: a ring has as many `Publisher`s as users that made
  it or hold a clone, and one more while it is in the map of a live `Inner` (`CountInv`). The one a
  user made in vain is counted with the user, and goes when `Insert` finds the entry taken.
- **EmitterMap implements EmitterRegistry** (`MapKeepsPromise`): a lookup takes effect when it
  finds an entry, or when its insertion finds the place free or taken; whichever it is, the
  user leaves that step with the entry of its type. A ring that is filed serves no other type:
  entries are of their type (`MapInv`), and so is what a user made. `Inner` outlives every
  lookup in it (`MapBorrowed`).
- **Chain, steps** (`StepsInOrder`): the steps still to come are the innermost ones of the
  sender, and the marks on the event the others, in reverse (`Underway`); a task that does not
  emit has nothing left over (`Resting`).
- **Chain, numbers** (`NumbersOnce`, `OrderWithinTask`): a counter is above every number on any
  event (`Below`), so the next number is new; marks only move from a task to the ring or to
  `lost`, so that no two events share one (`Apart`) and none vanishes (`AllUsed`). What a task
  has in hand is behind all it has published (`OwnOrder`), which keeps the order in the ring
  (`RingOrder`).
- **Evno, start-up** (`NoEarlyPublish`): the latch counts its guards (`GuardsCounted`); they
  are those of the tasks that have not dropped their launcher (`GuardsLaunch`); and a call is
  owed at least the listeners that were starting when it was made and still are
  (`StartingIsOwed`). A call that has passed saw the counter at zero, when there were none.
- **Evno, drains** (`DrainsWait`): a task holds its guard of the wait group exactly while it
  works (`GuardsWork`), the count is the number of these guards, and a drain whose `wait` has
  returned since has no listener left of those it knew (`ClearedAreOver`): a listener that is
  over is never bound again.
- **Evno, streams** (`StreamsEndComplete`): what is in flight borrows a sender that is alive
  (`SendersAlive`), and what a listener owns is used by its own code alone (`OwnedIdle`), so it is
  not in use when the listener is dropped. Hence once the count of clones is zero and no typed
  emitter or launcher of the type is left, none can come back (`ClosedStays`) and nobody
  publishes (`ClosedTailStays`): a stream found empty and closed stays so
  (`FinishedAreOver`).
- **Evno, close** (`CloseDrains`): on a current-thread runtime a clone is dropped without
  interruption (`Turn`), so the count a `close` saw is still right when its reference goes. Either
  some clone is left, or somebody is draining, or was dropped otherwise (`SomeoneDrains`).
- **Evno, the parts** (`PartsKept`, `PartsHold`): each action of `Evno` is, for each part, one
  action of it or none. Hence the inductive invariants proved of the parts alone are cited for
  their instances in `Evno`, instead of being proved again. `ListenerTask` leaves the
  offer of events to its environment, up to a bound; that the ring is such an environment
  is `GivenOnce` (a listener was given the events it has let go of and the one it has in hand,
  at most) with `InBounds`. An event in hand is one of the ring, in the hand of a consumer that
  handles it or was stopped while it did (`InHand`). `WaitKeepsPromise` carries the refinement of the wait group over
  in the same way.
- **Evno, who is owed** (`EmitsAreOwed`, `OwedUnlessOverlap`, `DrainsAreOwed`): what liveness
  rests on, said without fairness: whoever waits has somebody to wait for. A latch that is
  not open has a guard, and the guard a launcher (`GuardsCounted`, `GuardsLaunch`); a ring
  that is full has a consumer that is behind, since its capacity is at least two, and a
  consumer has a task (`ConsumersListen`). A drain asleep in `wait` has a guard left, and
  the guard a task, by the invariants of `DrainsWait` and `NoLostWakeup`; one asleep on
  the notification has a clone left, by `LostOnlyByOverlap`, cited for the clones of the
  bus. It remains that this clone is not one that went with its listener: no clone comes back
  (`NoneComesBack`), a listener holds one clone at most, and drops it as it goes
  (`OwnedGone`).
- **Evno implements EventBus** (`BusKeepsPromise`): the mapping of the `INSTANCE` in `Evno`,
  with the invariants above. Two steps need them: `Publish`, which may happen because no
  listener the call must reach is still starting; and `DrainReturns`, because a fired
  notification means that no clone is live, and a finished wait that the known listeners are
  over. `ReleaseEvent` maps to `Handle`: a listener is past an event when it has let go of it
  (`InHand`). All others map to the step of their name or change nothing of the abstract state.

The strengthenings of `WaitGroup` and `ListenerTask`, and those of `BusHandle` for `DrainIsLast`,
are also invariants of runs, or parts of properties that are, so TLC has checked
them on the small instances; the others rest on their proofs.

Only model-checked, and why:

- All liveness: `KeepsPromise` of `WaitGroup` as far as it is about fairness, `CancelRunsAfter`,
  `LimitEndsTask`, `DrainTerminates`, `EmitReturns`, `EventsHandled`, `ProgramsEnd`. Fairness and `ENABLED` are outside the provers' reach.
- `AssertionsHold`: it ranges over concrete programs, which leave nothing to generalise.

## What is not modelled

- **Weak memory**: atomics are sequentially consistent in the models. The `Relaxed` load of
  `wait_for_binds` is the place where this matters.
- **The insides of gyre, papaya and tokio**: only their promises, as evno uses them.
- **Event guards that a handler keeps** after `handle` has returned: they would hold
  their slot of the ring. Guards dropped before it returns are modelled.
- **Listeners that own several clones** of the bus; see `DropOwned`.
- **Handlers that wait for themselves**: one that emits on its own full ring, or that awaits a
  drain of its own bus. The code promises nothing for them; `hazards` lists both.
- **What types guarantee**: that steps compose, that a step's output is what the bus carries,
  that a `Chain` is used with the events it accepts.

## Plan

Done, in order: `WaitGroup` and its promise, `BindLatch`, `ListenerTask`, `BusHandle`,
`Channel`, `Evno`, `Chain`; `EmitterMap`, abandoned calls and owned clones in `Evno`,
`EventBus`, `Programs`; the proofs of the parts; the theorems about `Evno`, `EmitterMap` and
`Chain`; `EmitterRegistry`, and who is owed what in `Evno`.

Next:

1. An abstract specification of `Chain`, refined by the module, as `EventBus` is by `Evno`.
2. Event guards kept after `handle`: when does a full ring wait for its own reader.
