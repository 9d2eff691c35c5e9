---------------------------- MODULE RuntimeAdapter ----------------------------
(***************************************************************************)
(* DSHRuntimeAdapter of runtime.py: one lazily created DeepSeekHarness     *)
(* behind an asyncio lock and a one-thread executor.                       *)
(*                                                                         *)
(* _run_owned never leaves a submitted SDK call: a cancelled waiter stays  *)
(* until the thread is done and then raises the call's own error, or       *)
(* CancelledError if the call succeeded.  An SDK call therefore ends in one*)
(* of three ways, "returned", "raised" and "returned, but cancelled", and  *)
(* each is an action here.  The SDK itself is modelled by these outcomes.  *)
(***************************************************************************)
CONSTANTS
  Caller,   \* tasks that call run
  Closer,   \* tasks that call close
  Harness,  \* DeepSeekHarness objects
  None      \* no harness, or nobody holding the lock

ASSUME AdapterConstants ==
  /\ None \notin Harness \cup Caller \cup Closer
  /\ Caller \cap Closer = {}  \* a task is in one call, and named for it

VARIABLES
  state,           \* _state
  harness,         \* _harness
  open,            \* the harness objects constructed and not yet closed
  closeRequested,  \* _close_requested
  lock,            \* the task that holds _lifecycle_lock
  pc               \* where each task is

vars == <<state, harness, open, closeRequested, lock, pc>>

Outcome == {"result", "unavailable", "uncertain"}
RunPc   == {"idle", "wait", "prepare", "construct", "start", "session", "running",
            "resetBefore", "resetAfter"} \cup Outcome
ClosePc == {"idle", "wait", "closing", "shutdown"}

Goto(t, l) == pc' = [pc EXCEPT ![t] = l]

\* Leave the lifecycle lock with an outcome.
Leave(t, l) == lock' = None /\ Goto(t, l)

------------------------------------------------------------------------------
(***************************************************************************)
(* run                                                                     *)
(***************************************************************************)

\* _require_runnable
Runnable == state \notin {"closed", "broken"} /\ ~ closeRequested

RunCall(x) ==
  /\ pc[x] \in {"idle"} \cup Outcome
  /\ Goto(x, "wait")
  /\ UNCHANGED <<state, harness, open, closeRequested, lock>>

\* A waiter cancelled before it has the lock has done nothing.
WaitCancelled(t) ==
  /\ pc[t] = "wait"
  /\ Goto(t, "idle")
  /\ UNCHANGED <<state, harness, open, closeRequested, lock>>

\* Mutant: a run waits for an adapter that cannot be used any more.
RunEnters_WaitsForCleanup(x) ==
  /\ pc[x] = "wait"
  /\ lock = None
  /\ Runnable
  /\ lock' = x
  /\ Goto(x, "prepare")
  /\ UNCHANGED <<state, harness, open, closeRequested>>

RunEnters(x) ==
  /\ pc[x] = "wait"
  /\ lock = None
  /\ IF Runnable THEN lock' = x /\ Goto(x, "prepare")
                 ELSE Goto(x, "unavailable") /\ UNCHANGED lock
  /\ UNCHANGED <<state, harness, open, closeRequested>>

\* The step after a successful one; a retained harness is neither built nor started.
Prepared(x) ==
  /\ pc[x] = "prepare"
  /\ Goto(x, IF harness = None THEN "construct"
             ELSE IF state = "new" THEN "start" ELSE "session")
  /\ UNCHANGED <<state, harness, open, closeRequested, lock>>

Constructed(x) ==
  /\ pc[x] = "construct"
  /\ \E h \in Harness \ open : harness' = h /\ open' = open \cup {h}
  /\ Goto(x, "start")
  /\ UNCHANGED <<state, closeRequested, lock>>

Started(x) ==
  /\ pc[x] = "start"
  /\ state' = "ready"
  /\ Goto(x, "session")
  /\ UNCHANGED <<harness, open, closeRequested, lock>>

\* Paths or the constructor failed and there is no harness: nothing to reset.
FailsWithoutHarness(x) ==
  /\ pc[x] \in {"prepare", "construct"}
  /\ harness = None
  /\ Leave(x, "unavailable")
  /\ UNCHANGED <<state, harness, open, closeRequested>>

\* The constructor succeeded for a cancelled waiter: its harness must be closed.
ConstructCancelled(x) ==
  /\ pc[x] = "construct"
  /\ \E h \in Harness \ open : harness' = h /\ open' = open \cup {h}
  /\ state' = "broken"
  /\ Goto(x, "resetBefore")
  /\ UNCHANGED <<closeRequested, lock>>

\* Paths, start or start_session failed or were cancelled with a harness at hand.
FailsBeforePrompt(x) ==
  /\ pc[x] \in {"prepare", "start", "session"}
  /\ harness # None
  /\ state' = "broken"
  /\ Goto(x, "resetBefore")
  /\ UNCHANGED <<harness, open, closeRequested, lock>>

\* start_session returned, session.run is entered in the same thread.
SessionInvoked(x) ==
  /\ pc[x] = "session"
  /\ Goto(x, "running")
  /\ UNCHANGED <<state, harness, open, closeRequested, lock>>

SessionReturned(x) ==
  /\ pc[x] = "running"
  /\ Leave(x, "result")
  /\ UNCHANGED <<state, harness, open, closeRequested>>

\* session.run raised, or returned to a cancelled waiter.
SessionLost(x) ==
  /\ pc[x] = "running"
  /\ state' = "broken"
  /\ Goto(x, "resetAfter")
  /\ UNCHANGED <<harness, open, closeRequested, lock>>

AfterReset(x) == IF pc[x] = "resetBefore" THEN "unavailable" ELSE "uncertain"

\* _reset_after_failure: the harness was closed, whether or not the waiter was cancelled.
ResetDone(x) ==
  /\ pc[x] \in {"resetBefore", "resetAfter"}
  /\ open' = open \ {harness}
  /\ harness' = None
  /\ state' = "new"
  /\ Leave(x, AfterReset(x))
  /\ UNCHANGED closeRequested

\* Mutant: the harness is forgotten although it could not be closed.
ResetFails_Forgets(x) ==
  /\ pc[x] \in {"resetBefore", "resetAfter"}
  /\ harness' = None
  /\ state' = "new"
  /\ Leave(x, AfterReset(x))
  /\ UNCHANGED <<open, closeRequested>>

\* The original failure stays the outcome; the harness is kept for close.
ResetFails(x) ==
  /\ pc[x] \in {"resetBefore", "resetAfter"}
  /\ Leave(x, AfterReset(x))
  /\ UNCHANGED <<state, harness, open, closeRequested>>

------------------------------------------------------------------------------
(***************************************************************************)
(* close                                                                   *)
(***************************************************************************)

CloseCall(y) ==
  /\ pc[y] = "idle"
  /\ closeRequested' = TRUE
  /\ Goto(y, "wait")
  /\ UNCHANGED <<state, harness, open, lock>>

CloseEnters(y) ==
  /\ pc[y] = "wait"
  /\ lock = None
  /\ IF state = "closed"
     THEN Goto(y, "idle") /\ UNCHANGED <<state, lock>>
     ELSE /\ lock' = y
          /\ IF harness = None THEN state' = "closed" /\ Goto(y, "shutdown")
                               ELSE state' = "broken" /\ Goto(y, "closing")
  /\ UNCHANGED <<harness, open, closeRequested>>

HarnessClosed(y) ==
  /\ pc[y] = "closing"
  /\ open' = open \ {harness}
  /\ harness' = None
  /\ state' = "closed"
  /\ Goto(y, "shutdown")
  /\ UNCHANGED <<closeRequested, lock>>

\* close raises; the harness is kept so that close can be called again.
HarnessCloseFails(y) ==
  /\ pc[y] = "closing"
  /\ Leave(y, "idle")
  /\ UNCHANGED <<state, harness, open, closeRequested>>

\* CancelledError is no Exception: the harness is closed, yet still held.
HarnessCloseCancelled(y) ==
  /\ pc[y] = "closing"
  /\ open' = open \ {harness}
  /\ Leave(y, "idle")
  /\ UNCHANGED <<state, harness, closeRequested>>

ExecutorShutDown(y) ==
  /\ pc[y] = "shutdown"
  /\ Leave(y, "idle")
  /\ UNCHANGED <<state, harness, open, closeRequested>>

------------------------------------------------------------------------------
Init ==
  /\ state = "new"
  /\ harness = None
  /\ open = {}
  /\ closeRequested = FALSE
  /\ lock = None
  /\ pc = [t \in Caller \cup Closer |-> "idle"]

\* The SDK call a run is in ends, in one way or another.
RunSdkStep(x) ==
  \/ Prepared(x) \/ Constructed(x) \/ Started(x) \/ SessionInvoked(x) \/ SessionReturned(x)
  \/ FailsWithoutHarness(x) \/ ConstructCancelled(x) \/ FailsBeforePrompt(x) \/ SessionLost(x)
  \/ ResetDone(x) \/ ResetFails(x)

CloseSdkStep(y) ==
  \/ HarnessClosed(y) \/ HarnessCloseFails(y) \/ HarnessCloseCancelled(y) \/ ExecutorShutDown(y)

Next ==
  \/ \E x \in Caller : RunCall(x) \/ RunEnters(x) \/ RunSdkStep(x)
  \/ \E y \in Closer : CloseCall(y) \/ CloseEnters(y) \/ CloseSdkStep(y)
  \/ \E t \in Caller \cup Closer : WaitCancelled(t)

\* The lock is handed over first come, first served, and the SDK answers.
Fairness ==
  /\ \A x \in Caller : SF_vars(RunEnters(x)) /\ WF_vars(RunSdkStep(x))
  /\ \A y \in Closer : SF_vars(CloseEnters(y)) /\ WF_vars(CloseSdkStep(y))

Spec     == Init /\ [][Next]_vars
FairSpec == Spec /\ Fairness

------------------------------------------------------------------------------
(***************************************************************************)
(* Properties                                                              *)
(***************************************************************************)

\* Every variable has its type, and exactly the lock's holder is inside.
TypeOK ==
  /\ state \in {"new", "ready", "broken", "closed"}
  /\ harness \in Harness \cup {None}
  /\ open \subseteq Harness
  /\ closeRequested \in BOOLEAN
  /\ lock \in Caller \cup Closer \cup {None}
  /\ pc \in [Caller \cup Closer -> RunPc \cup ClosePc]
  /\ \A t \in Caller \cup Closer :
       lock = t <=> pc[t] \notin {"idle", "wait"} \cup Outcome

\* No harness process is orphaned by a failure, a failed cleanup or a cancelled
\* waiter: whatever is open is held, so a later close still reaches it.
NoHarnessLeaks == open \subseteq {harness}

\* A prompt only ever reaches a harness that is open, started and was never part of a
\* failure; in particular a harness whose cleanup failed is never reused.
SessionOnSoundHarness ==
  \A x \in Caller : pc[x] \in {"session", "running"} => state = "ready" /\ harness \in open

\* Every run call is answered and every close call returns, however the two overlap
\* and whatever fails, as long as the SDK calls return.
CallsReturn ==
  /\ \A x \in Caller : pc[x] = "wait" ~> pc[x] \in {"idle"} \cup Outcome
  /\ \A y \in Closer : pc[y] = "wait" ~> pc[y] = "idle"

ContractMode ==
  IF state = "broken" /\ \E x \in Caller : pc[x] \in {"resetBefore", "resetAfter"} THEN "usable"
  ELSE IF state = "new" \/ state = "ready" THEN "usable"
  ELSE state

ContractCall(x) ==
  IF pc[x] \in Outcome THEN pc[x]
  ELSE IF pc[x] \in {"idle", "wait"} THEN "idle"
  ELSE IF pc[x] \in {"running", "resetAfter"} THEN "session"
  ELSE "before"

Contract == INSTANCE AgentRuntime WITH mode <- ContractMode,
                                       call <- [x \in Caller |-> ContractCall(x)]

\* The adapter keeps the contract the coordinator relies on; above all, it says
\* "unavailable" only of an input that was never handed to the agent.
KeepsContract == Contract!Spec
===============================================================================
