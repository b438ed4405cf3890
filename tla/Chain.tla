--------------------------------- MODULE Chain --------------------------------
(***************************************************************************)
(* src/chain: steps put in front of a Bus, and typed emitters made from     *)
(* such chains.  Tasks emit through them at the same time; each emit is     *)
(* carried through the steps one await at a time and then published.        *)
(*                                                                          *)
(* A step numbers the events it processes, with a counter that all its      *)
(* clones share, as the steps of lib.rs, of the tests and of the examples   *)
(* do.  An event is known by the marks the steps have left on it.           *)
(***************************************************************************)
EXTENDS Integers, SequencesExt

CONSTANTS Chains,       \* chains a program may hold
          First,        \* the one Chain::from(bus) returns
          Emitters,     \* typed emitters to_emitter() may return
          Steps,        \* steps a program may prepend
          Tasks,        \* tasks that emit, one event at a time each
          MaxDepth,     \* bound: steps of a chain
          MaxEvents     \* bound: events ever emitted; of those given up each
                        \* number counts as two

Senders == Chains \cup Emitters

None == "none"

ASSUME ChainConstants ==
  /\ First \in Chains /\ Chains \cap Emitters = {} /\ None \notin Senders
  /\ MaxDepth \in Nat /\ MaxEvents \in Nat

VARIABLES live,         \* the chains and typed emitters that exist
          steps,        \* the steps of each, innermost first
          next,         \* the counter of each step
          sender,       \* what each task emits through, or None
          todo,         \* the steps its event has still to go through
          marks,        \* the marks its event bears, latest last
          ring,         \* what has been published, in order
          asked,        \* history: the steps of the sender, when emit was called
          lost          \* history: the marks of the events whose emit was given up

vars == <<live, steps, next, sender, todo, marks, ring, asked, lost>>

Init ==
  /\ live = {First}
  /\ steps = [s \in Senders |-> << >>]
  /\ next = [st \in Steps |-> 0]
  /\ sender = [t \in Tasks |-> None]
  /\ todo = [t \in Tasks |-> << >>]
  /\ marks = [t \in Tasks |-> << >>]
  /\ ring = << >>
  /\ asked = [t \in Tasks |-> << >>]
  /\ lost = {}

Emitting == {t \in Tasks : sender[t] # None}

\* An emit borrows the chain or typed emitter it goes through.
InUse(s) == \E t \in Emitting : sender[t] = s

-----------------------------------------------------------------------------
(* Chain::prepend takes the chain and returns one with a new outermost step. *)
Prepend(c, st) ==
  /\ c \in live /\ ~InUse(c) /\ Len(steps[c]) < MaxDepth
  /\ steps' = [steps EXCEPT ![c] = Append(@, st)]
  /\ UNCHANGED <<live, next, sender, todo, marks, ring, asked, lost>>

Clone(c, d) ==
  /\ c \in live /\ d \notin live
  /\ live' = live \cup {d}
  /\ steps' = [steps EXCEPT ![d] = steps[c]]
  /\ UNCHANGED <<next, sender, todo, marks, ring, asked, lost>>

(* A WithStep for every step of the chain, around the Publisher.            *)
ToEmitter(c, p) ==
  /\ c \in live /\ p \notin live
  /\ live' = live \cup {p}
  /\ steps' = [steps EXCEPT ![p] = steps[c]]
  /\ UNCHANGED <<next, sender, todo, marks, ring, asked, lost>>

-----------------------------------------------------------------------------
(* emit, of a Chain or of a WithStep *)

Emit(t, s) ==
  /\ t \notin Emitting /\ s \in live
  /\ Len(ring) + Cardinality(Emitting) + 2 * Cardinality(lost) < MaxEvents
  /\ sender' = [sender EXCEPT ![t] = s]
  /\ todo' = [todo EXCEPT ![t] = steps[s]]
  /\ asked' = [asked EXCEPT ![t] = steps[s]]
  /\ UNCHANGED <<live, steps, next, marks, ring, lost>>

\* Mutant: the steps are applied from the bus outwards.
ProcessInnermost(t) ==
  /\ t \in Emitting /\ todo[t] # << >>
  /\ LET st == Head(todo[t]) IN
       /\ marks' = [marks EXCEPT ![t] = Append(@, [step |-> st, id |-> next[st]])]
       /\ next' = [next EXCEPT ![st] = @ + 1]
  /\ todo' = [todo EXCEPT ![t] = Tail(@)]
  /\ UNCHANGED <<live, steps, sender, ring, asked, lost>>

\* Mutant: the clone of a step takes the counter with it by value.
ProcessAlone(t) ==
  /\ t \in Emitting /\ todo[t] # << >>
  /\ LET st == Last(todo[t]) IN
       marks' = [marks EXCEPT ![t] = Append(@, [step |-> st, id |-> next[st]])]
  /\ todo' = [todo EXCEPT ![t] = Front(@)]
  /\ UNCHANGED <<live, steps, next, sender, ring, asked, lost>>

\* Mutant: the step counts down.
ProcessDown(t) ==
  /\ t \in Emitting /\ todo[t] # << >>
  /\ LET st == Last(todo[t]) IN
       /\ marks' = [marks EXCEPT ![t] = Append(@, [step |-> st, id |-> next[st]])]
       /\ next' = [next EXCEPT ![st] = @ - 1]
  /\ todo' = [todo EXCEPT ![t] = Front(@)]
  /\ UNCHANGED <<live, steps, sender, ring, asked, lost>>

Process(t) ==
  /\ t \in Emitting /\ todo[t] # << >>
  /\ LET st == Last(todo[t]) IN
       /\ marks' = [marks EXCEPT ![t] = Append(@, [step |-> st, id |-> next[st]])]
       /\ next' = [next EXCEPT ![st] = @ + 1]
  /\ todo' = [todo EXCEPT ![t] = Front(@)]
  /\ UNCHANGED <<live, steps, sender, ring, asked, lost>>

(* Bus::emit, or Publisher::emit for a typed emitter.                       *)
Publish(t) ==
  /\ t \in Emitting /\ todo[t] = << >>
  /\ ring' = Append(ring, [task |-> t, marks |-> marks[t], asked |-> asked[t]])
  /\ sender' = [sender EXCEPT ![t] = None]
  /\ marks' = [marks EXCEPT ![t] = << >>]
  /\ asked' = [asked EXCEPT ![t] = << >>]
  /\ UNCHANGED <<live, steps, next, todo, lost>>

(* The future of emit() is dropped while a step is at work, or the bus.     *)
Abandon(t) ==
  /\ t \in Emitting
  /\ lost' = lost \cup ToSet(marks[t])
  /\ sender' = [sender EXCEPT ![t] = None]
  /\ todo' = [todo EXCEPT ![t] = << >>]
  /\ marks' = [marks EXCEPT ![t] = << >>]
  /\ asked' = [asked EXCEPT ![t] = << >>]
  /\ UNCHANGED <<live, steps, next, ring>>

Next ==
  \/ \E c \in Chains : \/ \E st \in Steps : Prepend(c, st)
                       \/ \E d \in Chains : Clone(c, d)
                       \/ \E p \in Emitters : ToEmitter(c, p)
  \/ \E t \in Tasks : Process(t) \/ Publish(t) \/ Abandon(t) \/ \E s \in Senders : Emit(t, s)

Spec == Init /\ [][Next]_vars

-----------------------------------------------------------------------------
Mark == [step : Steps, id : Nat]

TypeOK ==
  /\ live \subseteq Senders
  /\ steps \in [Senders -> Seq(Steps)]
  /\ next \in [Steps -> Nat]
  /\ sender \in [Tasks -> Senders \cup {None}]
  /\ todo \in [Tasks -> Seq(Steps)]
  /\ marks \in [Tasks -> Seq(Mark)]
  /\ ring \in Seq([task : Tasks, marks : Seq(Mark), asked : Seq(Steps)])
  /\ asked \in [Tasks -> Seq(Steps)]
  /\ lost \subseteq Mark

StepsOf(ms) == [i \in 1..Len(ms) |-> ms[i].step]

(* Whatever was prepended, cloned or turned into a typed emitter meanwhile, *)
(* an event reaches the bus through each step its sender had, once, "the    *)
(* new step executed before the current chain's" (chain/mod.rs:28, 66-70,   *)
(* with_step.rs:36-39).                                                     *)
LatestStepFirst ==
  \A i \in 1..Len(ring) : StepsOf(ring[i].marks) = Reverse(ring[i].asked)

\* The marks of the events published and of those on their way.
RingMarks == UNION {{<<i, m>> : m \in ToSet(ring[i].marks)} : i \in 1..Len(ring)}
TaskMarks == UNION {{<<t, m>> : m \in ToSet(marks[t])} : t \in Tasks}

(* Each number a step has given out is on one event, published, on its way  *)
(* or given up by its caller, although the step is cloned for every emit:   *)
(* the clones share the counter, and no event is dropped between two steps  *)
(* (chain/mod.rs:68).                                                       *)
NumbersUsedOnce ==
  LET all == RingMarks \cup TaskMarks IN
    /\ \A e, f \in all : e[2] = f[2] => e[1] = f[1]
    /\ \A e \in all : e[2] \notin lost
    /\ \A st \in Steps : \A n \in 0..next[st] - 1 :
         [step |-> st, id |-> n] \in lost \cup {e[2] : e \in all}

(* The events of one task keep their order: a step numbers them in the      *)
(* order in which they are published, whatever chains they went through.    *)
(* Events of different tasks may overtake each other between a step and the *)
(* bus.                                                                     *)
TaskOrder ==
  \A i, j \in 1..Len(ring) :
    i < j /\ ring[i].task = ring[j].task =>
      \A m \in ToSet(ring[i].marks), n \in ToSet(ring[j].marks) :
        m.step = n.step => m.id < n.id
===============================================================================
