---------------------------- MODULE MCListenerTask ---------------------------
(* Values of the constants of ListenerTask for TLC. *)
EXTENDS ListenerTask

CONSTANTS a, b, k1

MCListeners == {a, b}
\* Both were given the same token, with bind_cancel.
MCTokenOf == [l \in MCListeners |-> k1]
\* a is a WithTimes::new(2, ..), b has no limit.
MCTimes == [l \in MCListeners |-> IF l = a THEN 2 ELSE 0]
===============================================================================
