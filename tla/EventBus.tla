------------------------------- MODULE EventBus -------------------------------
(***************************************************************************)
(* What the traits of emit.rs and Listener promise to a program: who gets   *)
(* which event, and when a drain may return.  No latch, no ring, no task,   *)
(* no reference count.  Safety only.                                        *)
(***************************************************************************)
EXTENDS Integers

CONSTANTS Buses, First, Listeners, Calls, Types,
          TypeOf        \* the event type of listeners and calls

VARIABLES
  clones,       \* the clones of the bus that a program holds
  phase,        \* per listener: "unbound", "bound", "listening", "over"
  log, at,      \* events published per type, events each listener has let go of
  call, reach,  \* per call of emit: "idle" or "called", and the listeners that
                \* were starting up when it was called
  drain, wait   \* per call of drain: "idle", "draining", "returned" or
                \* "abandoned", and the listeners bound when it was called

vars == <<clones, phase, log, at, call, reach, drain, wait>>

Init ==
  /\ clones = {First}
  /\ phase = [l \in Listeners |-> "unbound"]
  /\ log = [t \in Types |-> 0]
  /\ at = [l \in Listeners |-> 0]
  /\ call = [c \in Calls |-> "idle"]
  /\ reach = [c \in Calls |-> {}]
  /\ drain = [b \in Buses |-> "idle"]
  /\ wait = [b \in Buses |-> {}]

Goto(l, from, to) == phase[l] = from /\ phase' = [phase EXCEPT ![l] = to]

(* A listener is bound through a clone, and listens from some later point   *)
(* on, until it is over.  What it held goes with it.                        *)
Bind(l) ==
  /\ clones # {} /\ Goto(l, "unbound", "bound")
  /\ UNCHANGED <<clones, log, at, call, reach, drain, wait>>

Listen(l) ==
  /\ Goto(l, "bound", "listening")
  /\ at' = [at EXCEPT ![l] = log[TypeOf[l]]]
  /\ UNCHANGED <<clones, log, call, reach, drain, wait>>

Handle(l) ==
  /\ phase[l] = "listening" /\ at[l] < log[TypeOf[l]]
  /\ at' = [at EXCEPT ![l] = @ + 1]
  /\ UNCHANGED <<clones, phase, log, call, reach, drain, wait>>

Leave(l) ==
  /\ Goto(l, "bound", "over") \/ Goto(l, "listening", "over")
  /\ clones' \subseteq clones
  /\ UNCHANGED <<log, at, call, reach, drain, wait>>

(* An event reaches every listener of its type bound before emit() was      *)
(* called: it is not published while one of them has still to listen.       *)
Call(c) ==
  /\ call[c] = "idle"
  /\ call' = [call EXCEPT ![c] = "called"]
  /\ reach' = [reach EXCEPT ![c] = {l \in Listeners : phase[l] = "bound"}]
  /\ UNCHANGED <<clones, phase, log, at, drain, wait>>

Return(c) ==
  /\ call[c] = "called"
  /\ call' = [call EXCEPT ![c] = "idle"]
  /\ reach' = [reach EXCEPT ![c] = {}]
  /\ UNCHANGED <<clones, phase, at, drain, wait>>

Audience(t) == {l \in Listeners : phase[l] = "listening" /\ TypeOf[l] = t}

Publish(c) ==
  /\ \A l \in reach[c] : phase[l] # "bound"
  /\ Return(c)
  /\ log' = IF Audience(TypeOf[c]) = {} THEN log ELSE [log EXCEPT ![TypeOf[c]] = @ + 1]

Abandon(c) == Return(c) /\ UNCHANGED log

(* Clones come from clones; a drain gives its own up and returns when there *)
(* is none left and every listener bound before it is over.                 *)
Clone(c) ==
  /\ clones # {} /\ c \notin clones
  /\ clones' = clones \cup {c}
  /\ UNCHANGED <<phase, log, at, call, reach, drain, wait>>

Drop(b) ==
  /\ b \in clones
  /\ clones' = clones \ {b}
  /\ UNCHANGED <<phase, log, at, call, reach, drain, wait>>

Drain(b) ==
  /\ b \in clones /\ drain[b] = "idle"
  /\ clones' = clones \ {b}
  /\ drain' = [drain EXCEPT ![b] = "draining"]
  /\ wait' = [wait EXCEPT ![b] = {l \in Listeners : phase[l] # "unbound"}]
  /\ UNCHANGED <<phase, log, at, call, reach>>

DrainReturns(b) ==
  /\ drain[b] = "draining"
  /\ clones = {} /\ \A l \in wait[b] : phase[l] = "over"
  /\ drain' = [drain EXCEPT ![b] = "returned"]
  /\ UNCHANGED <<clones, phase, log, at, call, reach, wait>>

AbandonDrain(b) ==
  /\ drain[b] = "draining"
  /\ drain' = [drain EXCEPT ![b] = "abandoned"]
  /\ UNCHANGED <<clones, phase, log, at, call, reach, wait>>

Next ==
  \/ \E l \in Listeners : Bind(l) \/ Listen(l) \/ Handle(l) \/ Leave(l)
  \/ \E c \in Calls : Call(c) \/ Publish(c) \/ Abandon(c)
  \/ \E b \in Buses : Clone(b) \/ Drop(b) \/ Drain(b) \/ DrainReturns(b) \/ AbandonDrain(b)

Spec == Init /\ [][Next]_vars
===============================================================================
