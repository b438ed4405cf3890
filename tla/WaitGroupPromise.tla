--------------------------- MODULE WaitGroupPromise ---------------------------
(***************************************************************************)
(* What a WaitGroup promises to Bus::drain: a set of guards that are held,  *)
(* and waits that return at a moment when no guard is held, and do return   *)
(* once no guard is ever held again, unless they are given up.              *)
(***************************************************************************)
CONSTANTS Tasks, Waiters

VARIABLES held,     \* the tasks whose GroupGuard is alive
          waiter    \* "idle", "waiting" or "done"

vars == <<held, waiter>>

Init ==
  /\ held = {}
  /\ waiter = [w \in Waiters |-> "idle"]

Add(t) ==
  /\ t \notin held
  /\ held' = held \cup {t}
  /\ UNCHANGED waiter

Drop(t) ==
  /\ t \in held
  /\ held' = held \ {t}
  /\ UNCHANGED waiter

Move(w, from, to) ==
  /\ waiter[w] = from
  /\ waiter' = [waiter EXCEPT ![w] = to]
  /\ UNCHANGED held

Wait(w) == Move(w, "idle", "waiting")

Finish(w) == held = {} /\ Move(w, "waiting", "done")

Return(w) == Move(w, "done", "idle")

Abandon(w) == Move(w, "waiting", "idle")

Next ==
  \/ \E t \in Tasks : Add(t) \/ Drop(t)
  \/ \E w \in Waiters : Wait(w) \/ Finish(w) \/ Return(w) \/ Abandon(w)

Spec == Init /\ [][Next]_vars /\ \A w \in Waiters : WF_vars(Finish(w))
===============================================================================
