-------------------------------- MODULE MCChain -------------------------------
(* Values of the constants of Chain for TLC. *)
EXTENDS Chain

CONSTANTS c1, c2, p, s1, s2, t1, t2
===============================================================================
