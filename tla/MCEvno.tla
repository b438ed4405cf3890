-------------------------------- MODULE MCEvno --------------------------------
(* Values of the constants of Evno for TLC. *)
EXTENDS Evno

CONSTANTS b1, b2, b3,   \* Bus clones
          p,            \* a typed emitter
          l1, l2,       \* listeners
          c1, c2,       \* emit calls: c1 through the clone b1, c2 through p
          k1, k2,       \* tokens
          A             \* an event type

MCOneToken == [l \in Listeners |-> k2]
MCTokenOf == [l \in Listeners |-> IF l = l1 THEN k1 ELSE k2]
\* l1 is bound by on(), l2 by once().
MCTimes == [l \in Listeners |-> IF l = l2 THEN 1 ELSE 0]
MCOwnsNothing == [l \in Listeners |-> {}]
\* l2 owns the second clone and the typed emitter.
MCOwnsClone == [l \in Listeners |-> IF l = l2 THEN {b2, p} ELSE {}]
MCNoTimes == [l \in Listeners |-> 0]
MCVia == [c \in Calls |-> IF c = c1 THEN b1 ELSE p]
MCTypeOf == [x \in Listeners \cup Emitters \cup Calls |-> A]
===============================================================================
