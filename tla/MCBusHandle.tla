------------------------------ MODULE MCBusHandle -----------------------------
(* Values of the constants of BusHandle for TLC. *)
EXTENDS BusHandle

CONSTANTS b1, b2, b3

MCBuses == {b1, b2, b3}
MCTwoBuses == {b1, b2}
===============================================================================
