----------------------------- MODULE AgentRuntime -----------------------------
(***************************************************************************)
(* What the runtime adapter of the recoverable agent service promises its  *)
(* coordinator (the RuntimeAdapter protocol of runtime.py), without        *)
(* harness, executor or lock: one run at a time, a failure is reported as  *)
(* "unavailable" only if Session.run was never invoked, a failed cleanup   *)
(* makes the adapter refuse everything but close, and close is final.      *)
(* RuntimeAdapter implements it; RunCoordinator is built on it.            *)
(***************************************************************************)
CONSTANT Caller  \* tasks that may call run

VARIABLES
  mode,   \* whether the adapter can be used: "usable", "broken" or "closed"
  call    \* how far the last run call of each caller got

runtimeVars == <<mode, call>>

Active  == {"before", "session"}      \* inside run: before Session.run, or in it
Settled == {"result", "unavailable", "uncertain"}

Busy == \E x \in Caller : call[x] \in Active

TypeOK ==
  /\ mode \in {"usable", "broken", "closed"}
  /\ call \in [Caller -> {"idle"} \cup Active \cup Settled]

Init ==
  /\ mode = "usable"
  /\ call = [x \in Caller |-> "idle"]

\* The outcome was reported; the caller may call again.
Report(x) ==
  /\ call[x] \in Settled
  /\ call' = [call EXCEPT ![x] = "idle"]
  /\ UNCHANGED mode

Enter(x) ==
  /\ mode = "usable"
  /\ ~ Busy
  /\ call' = [call EXCEPT ![x] = "before"]
  /\ UNCHANGED mode

\* run raises RuntimeUnavailableError on entry: broken, closed or closing.
Refuse(x) ==
  /\ call[x] \notin Active
  /\ call' = [call EXCEPT ![x] = "unavailable"]
  /\ UNCHANGED mode

\* Session.run(runtime_input) is invoked: from here on the input may take effect.
Invoke(x) ==
  /\ call[x] = "before"
  /\ call' = [call EXCEPT ![x] = "session"]
  /\ UNCHANGED mode

Return(x) ==
  /\ call[x] = "session"
  /\ call' = [call EXCEPT ![x] = "result"]
  /\ UNCHANGED mode

\* A failure closes the harness first; if that fails too the adapter is broken.
FailBefore(x) ==
  /\ call[x] = "before"
  /\ call' = [call EXCEPT ![x] = "unavailable"]
  /\ mode' \in {"usable", "broken"}

FailAfter(x) ==
  /\ call[x] = "session"
  /\ call' = [call EXCEPT ![x] = "uncertain"]
  /\ mode' \in {"usable", "broken"}

Close ==
  /\ ~ Busy
  /\ mode' = "closed"
  /\ UNCHANGED call

CloseFails ==
  /\ ~ Busy
  /\ mode # "closed"
  /\ mode' = "broken"
  /\ UNCHANGED call

Next ==
  \/ \E x \in Caller : \/ Report(x) \/ Enter(x) \/ Refuse(x) \/ Invoke(x)
                       \/ Return(x) \/ FailBefore(x) \/ FailAfter(x)
  \/ Close
  \/ CloseFails

Spec == Init /\ [][Next]_runtimeVars
===============================================================================
