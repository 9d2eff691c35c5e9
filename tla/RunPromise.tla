------------------------------ MODULE RunPromise ------------------------------
(***************************************************************************)
(* What the recoverable agent service promises the owner of a run, whatever*)
(* crashes, restarts, retries and shutdowns happen in between: the input   *)
(* of an accepted run is handed to the agent at most once, and the final   *)
(* verdict tells the truth about it.  "refused" means it was never handed  *)
(* over, "succeeded" and "failed" that the agent answered it, "unknown"    *)
(* that nobody can tell.                                                   *)
(***************************************************************************)
CONSTANT Run

VARIABLE phase

Init == phase = [r \in Run |-> "absent"]

Move(r, from, to) == phase[r] = from /\ phase' = [phase EXCEPT ![r] = to]

Accept(r)  == Move(r, "absent", "accepted")
Begin(r)   == Move(r, "accepted", "begun")
Deliver(r) == Move(r, "begun", "delivered")
Refuse(r)  == Move(r, "begun", "refused")
Succeed(r) == Move(r, "delivered", "succeeded")
Fail(r)    == Move(r, "delivered", "failed")
Lose(r)    == Move(r, "begun", "unknown") \/ Move(r, "delivered", "unknown")

Next == \E r \in Run : \/ Accept(r) \/ Begin(r) \/ Deliver(r) \/ Refuse(r)
                       \/ Succeed(r) \/ Fail(r) \/ Lose(r)

Spec == Init /\ [][Next]_phase
===============================================================================
