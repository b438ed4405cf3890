-------------------------------- MODULE Notify --------------------------------
(***************************************************************************)
(* tokio::sync::Notify, as wait_group.rs and bus.rs use it (external).      *)
(* Only `notified()` and `notify_waiters()` are used.  A future completes   *)
(* with the first `notify_waiters()` that follows its creation, polled or   *)
(* not; `notify_waiters()` leaves no permit behind for later futures.       *)
(***************************************************************************)
CONSTANT Waiters    \* whoever may own a Notified future, one at a time

VARIABLE future     \* the Notified future each of them owns

Init == future = [w \in Waiters |-> "none"]

Notified(w) == future' = [future EXCEPT ![w] = "armed"]

NotifyWaiters ==
  future' = [w \in Waiters |-> IF future[w] = "armed" THEN "fired" ELSE future[w]]

Ready(w) == future[w] = "fired"

Forget(w) == future' = [future EXCEPT ![w] = "none"]

TypeOK == future \in [Waiters -> {"none", "armed", "fired"}]
===============================================================================
