-------------------------------- MODULE Channel -------------------------------
(***************************************************************************)
(* The multicast ring buffer of the gyre crate, one per event type, as      *)
(* publisher.rs and launcher.rs use it (external).  Every consumer sees     *)
(* what is published after it subscribed, in order.  Events are known by    *)
(* their place in the stream.                                               *)
(***************************************************************************)
EXTENDS Integers

CONSTANTS Types,        \* event types
          Consumers,    \* whoever may subscribe: the listeners
          TypeOf,       \* the type of each of them
          Capacities    \* the arguments Bus::new may be given

VARIABLES capacity,     \* slots of a ring
          tail,         \* events published on each ring
          pos,          \* events each consumer has let go of: their guards
                        \* have been dropped
          consumers,    \* the consumers that exist
          held          \* those whose last event has still a guard

Init ==
  /\ capacity \in Capacities
  /\ tail = [t \in Types |-> 0]
  /\ pos = [l \in Consumers |-> 0]
  /\ consumers = {}
  /\ held = {}

Subscribe(l) ==
  /\ consumers' = consumers \cup {l}
  /\ pos' = [pos EXCEPT ![l] = tail[TypeOf[l]]]
  /\ UNCHANGED <<capacity, tail, held>>

Subscribers(t) == {l \in consumers : TypeOf[l] = t}

(* A slot is reused once every consumer has released the event in it.       *)
HasRoom(t) == \A l \in Subscribers(t) : tail[t] - pos[l] < capacity

(* Without consumers publish() fails and the event is dropped; emit()       *)
(* ignores the error.                                                       *)
Publish(t) ==
  /\ HasRoom(t)
  /\ tail' = IF Subscribers(t) = {} THEN tail ELSE [tail EXCEPT ![t] = @ + 1]
  /\ UNCHANGED <<capacity, pos, consumers, held>>

HasEvent(l) == pos[l] < tail[TypeOf[l]]

(* The stream yields the next event, in a guard that its taker may drop at  *)
(* any time.                                                                *)
TakeEvent(l) ==
  /\ HasEvent(l)
  /\ held' = held \cup {l}
  /\ UNCHANGED <<capacity, tail, pos, consumers>>

ReleaseEvent(l) ==
  /\ l \in held
  /\ held' = held \ {l}
  /\ pos' = [pos EXCEPT ![l] = @ + 1]
  /\ UNCHANGED <<capacity, tail, consumers>>

DropConsumer(l) ==
  /\ consumers' = consumers \ {l}
  /\ UNCHANGED <<capacity, tail, pos, held>>

TypeOK ==
  /\ capacity \in Capacities
  /\ tail \in [Types -> Nat]
  /\ pos \in [Consumers -> Nat]
  /\ consumers \subseteq Consumers
  /\ held \subseteq Consumers
===============================================================================
