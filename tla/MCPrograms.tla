------------------------------ MODULE MCPrograms ------------------------------
(* Values of the constants of Programs for TLC. *)
EXTENDS Programs

CONSTANTS A, B          \* event types

MCListeners == {a1, a2, b, o, m, k, f, w, h}
MCTokenOf == [l \in MCListeners |-> l]
MCTimes == [l \in MCListeners |-> CASE l = o -> 1 [] l = m -> 3 [] OTHER -> 0]
MCClosures == MCListeners \ {k}
MCOwned == [l \in MCListeners |-> CASE l = w -> {cb} [] l = h -> {em} [] OTHER -> {}]
MCCalls == {viaBus, viaClone, viaEmitter, alsoB}
MCVia == [c \in MCCalls |->
  CASE c = viaClone -> cb [] c = viaEmitter -> em [] OTHER -> mb]
MCTypeOf == [x \in MCListeners \cup MCCalls \cup {em} |->
  IF x \in {b, em, viaEmitter, alsoB} THEN B ELSE A]
===============================================================================
