----------------------------- MODULE MCEmitterMap -----------------------------
(* Users are interchangeable, and so are rings. *)
EXTENDS EmitterMap, TLC

MCSymmetry == Permutations(Users) \cup Permutations(Rings)
===============================================================================
