---------------------------- MODULE EmitterRegistry ----------------------------
(***************************************************************************)
(* What get_emitter_proxy promises to bind, emit and to_emitter: a table    *)
(* that gives every event type one ring, on first use, in one step; no      *)
(* lookup, no race, no Publisher that came too late.  Safety only.          *)
(***************************************************************************)
CONSTANTS Users, Types, Rings, None

VARIABLES ringOf,   \* the ring of each type; None before its first use
          open,     \* whether the bus is there to be asked
          type,     \* per user: the type it uses, or None
          uses      \* per user: the ring it uses, or None

vars == <<ringOf, open, type, uses>>

Init ==
  /\ ringOf = [t \in Types |-> None]
  /\ open = TRUE
  /\ type = [u \in Users |-> None]
  /\ uses = [u \in Users |-> None]

Give(u, t, r) ==
  /\ open /\ uses[u] = None
  /\ type' = [type EXCEPT ![u] = t]
  /\ uses' = [uses EXCEPT ![u] = r]
  /\ UNCHANGED open

Get(u, t) ==
  /\ ringOf[t] # None
  /\ Give(u, t, ringOf[t])
  /\ UNCHANGED ringOf

(* A first use takes a ring that serves no other type. *)
GetFirst(u, t, r) ==
  /\ ringOf[t] = None /\ \A s \in Types : ringOf[s] # r
  /\ Give(u, t, r)
  /\ ringOf' = [ringOf EXCEPT ![t] = r]

Done(u) ==
  /\ uses[u] # None
  /\ type' = [type EXCEPT ![u] = None]
  /\ uses' = [uses EXCEPT ![u] = None]
  /\ UNCHANGED <<ringOf, open>>

(* The bus goes; typed emitters and listeners keep the rings they use.      *)
Close ==
  /\ open /\ open' = FALSE
  /\ UNCHANGED <<ringOf, type, uses>>

Next ==
  \/ Close
  \/ \E u \in Users :
       \/ Done(u)
       \/ \E t \in Types : Get(u, t) \/ \E r \in Rings : GetFirst(u, t, r)

Spec == Init /\ [][Next]_vars
===============================================================================
