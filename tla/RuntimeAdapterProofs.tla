------------------------- MODULE RuntimeAdapterProofs -------------------------
(***************************************************************************)
(* Theorems about the SDK runtime adapter for every set of callers, of     *)
(* closers and of harness objects: no harness leaks, a session runs only   *)
(* on a sound one, and the adapter implements the contract AgentRuntime    *)
(* its coordinator relies on.                                              *)
(***************************************************************************)
EXTENDS RuntimeAdapter, TLAPS

Task   == Caller \cup Closer
Inside == {"prepare", "construct", "start", "session", "running", "resetBefore", "resetAfter",
           "closing", "shutdown"}

\* What the task at l finds: the state, the harness and the open ones.  It is the place of
\* the lock's holder that tells how much of a failure has been cleaned up.
Finds(l, s, h, o) ==
  /\ l \in {"prepare"} => s \in {"new", "ready"}
  /\ l = "construct" => s = "new" /\ h = None
  /\ l = "start" => s = "new" /\ h # None
  /\ l \in {"session", "running"} => s = "ready"
  /\ l \in {"resetBefore", "resetAfter", "closing"} => s = "broken" /\ h # None
  /\ l = "shutdown" => s = "closed"

\* A harness that is used again is open and was started, unless its start is just running;
\* one that failed is held only by a broken adapter, and a closed one holds none.
Held(s, h, o) ==
  /\ o \subseteq {h}
  /\ s = "ready" => h # None
  /\ s \in {"new", "ready"} /\ h # None => h \in o
  /\ s = "closed" => h = None

AdapterInv ==
  /\ TypeOK
  /\ Held(state, harness, open)
  /\ \A t \in Task : Finds(pc[t], state, harness, open)
  /\ \A x \in Caller : pc[x] \in RunPc
  /\ \A y \in Closer : pc[y] \in ClosePc

\* A new adapter holds no harness and nobody is in a call.
LEMMA InitInv == Init => AdapterInv
  BY AdapterConstants DEF Init, AdapterInv, TypeOK, Held, Finds, Task, RunPc, ClosePc, Outcome

\* The call of one task moves and nothing else does but what it finds: the others are outside.
LEMMA OthersStay ==
  ASSUME AdapterInv, NEW t \in Task, NEW l,
         t \in Caller => l \in RunPc, t \in Closer => l \in ClosePc,
         lock \in {t, None}, Goto(t, l),
         lock' = IF l \in Inside THEN t ELSE None,
         state' \in {"new", "ready", "broken", "closed"}, closeRequested' \in BOOLEAN,
         harness' \in Harness \cup {None}, open' \subseteq Harness,
         Held(state', harness', open'), Finds(l, state', harness', open')
  PROVE  AdapterInv'
<1> USE AdapterConstants
<1>1. /\ pc \in [Task -> RunPc \cup ClosePc]
      /\ \A u \in Task : lock = u <=> pc[u] \in Inside
  BY DEF AdapterInv, TypeOK, Task, Inside, RunPc, ClosePc, Outcome
<1>2. pc' = [pc EXCEPT ![t] = l] /\ l \in RunPc \cup ClosePc
  BY DEF Goto, Task
<1>3. pc' \in [Task -> RunPc \cup ClosePc] /\ pc'[t] = l /\ \A u \in Task \ {t} : pc'[u] = pc[u]
  BY <1>1, <1>2
<1>4. ASSUME NEW u \in Task
      PROVE  /\ lock' = u <=> pc'[u] \in Inside
             /\ Finds(pc'[u], state', harness', open')
             /\ u \in Caller => pc'[u] \in RunPc
             /\ u \in Closer => pc'[u] \in ClosePc
  <2>1. CASE u = t
    BY <1>3, <2>1 DEF Task
  <2>2. CASE u # t
    <3>1. pc'[u] = pc[u] /\ pc[u] \notin Inside
      BY <1>1, <1>3, <2>2 DEF Task
    <3> QED
      BY <1>3, <2>2, <3>1 DEF Inside, Finds, AdapterInv, Task
  <2> QED
    BY <2>1, <2>2
<1>5. TypeOK'
  <2>1. \A u \in Task : lock' = u <=> pc'[u] \notin {"idle", "wait"} \cup Outcome
    BY <1>3, <1>4 DEF Inside, RunPc, ClosePc, Outcome
  <2> QED
    BY <1>3, <2>1 DEF TypeOK, Task
<1> QED
  BY <1>4, <1>5 DEF AdapterInv, Task
\* A task that moves outside of the lock disturbs nobody.
LEMMA OutsideMoves ==
  ASSUME AdapterInv, NEW t \in Task, pc[t] \notin Inside,
         NEW l, l \notin Inside,
         t \in Caller => l \in RunPc, t \in Closer => l \in ClosePc, Goto(t, l),
         UNCHANGED <<state, harness, open, lock>>, closeRequested' \in BOOLEAN
  PROVE  AdapterInv'
<1> USE AdapterConstants
<1>1. /\ pc \in [Task -> RunPc \cup ClosePc]
      /\ \A u \in Task : lock = u <=> pc[u] \in Inside
  BY DEF AdapterInv, TypeOK, Task, Inside, RunPc, ClosePc, Outcome
<1>2. pc' = [pc EXCEPT ![t] = l] /\ l \in RunPc \cup ClosePc
  BY DEF Goto, Task
<1>3. pc' \in [Task -> RunPc \cup ClosePc] /\ pc'[t] = l /\ \A u \in Task \ {t} : pc'[u] = pc[u]
  BY <1>1, <1>2
<1>4. ASSUME NEW u \in Task
      PROVE  /\ lock' = u <=> pc'[u] \in Inside
             /\ Finds(pc'[u], state', harness', open')
             /\ u \in Caller => pc'[u] \in RunPc
             /\ u \in Closer => pc'[u] \in ClosePc
  <2>1. Finds(pc[u], state, harness, open)
    BY DEF AdapterInv
  <2> QED
    BY <1>1, <1>3, <2>1 DEF Inside, Finds, AdapterInv, Task
<1>5. TypeOK'
  <2>1. \A u \in Task : lock' = u <=> pc'[u] \notin {"idle", "wait"} \cup Outcome
    BY <1>3, <1>4 DEF Inside, RunPc, ClosePc, Outcome
  <2> QED
    BY <1>3, <2>1 DEF TypeOK, Task, AdapterInv
<1> QED
  BY <1>4, <1>5 DEF AdapterInv, Task

\* What the steps below use of the invariant.
LEMMA TypesOfInv ==
  AdapterInv =>
    /\ state \in {"new", "ready", "broken", "closed"} /\ closeRequested \in BOOLEAN
    /\ harness \in Harness \cup {None} /\ open \subseteq Harness
    /\ Held(state, harness, open)
    /\ \A t \in Task : /\ lock = t <=> pc[t] \in Inside
                       /\ Finds(pc[t], state, harness, open)
    /\ \A x \in Caller : pc[x] \in RunPc
    /\ \A y \in Closer : pc[y] \in ClosePc
  BY DEF AdapterInv, TypeOK, Task, Inside, RunPc, ClosePc, Outcome

\* The steps of run keep it,
LEMMA RunKeepsInv ==
  ASSUME AdapterInv, NEW x \in Caller, RunCall(x) \/ RunEnters(x) \/ RunSdkStep(x)
  PROVE  AdapterInv'
<1> USE TypesOfInv, AdapterConstants DEF Task
<1>1. CASE RunCall(x)
  BY <1>1, OutsideMoves DEF RunCall, Inside, RunPc, Outcome
<1>2. CASE RunEnters(x)
  <2>1. CASE Runnable
    <3>1. state \in {"new", "ready"}
      BY <2>1 DEF Runnable
    <3> QED
      BY <1>2, <2>1, <3>1, OthersStay DEF RunEnters, Inside, RunPc, Finds
  <2>2. CASE ~ Runnable
    BY <1>2, <2>2, OutsideMoves DEF RunEnters, Inside, RunPc, Outcome
  <2> QED
    BY <2>1, <2>2
<1>3. ASSUME RunSdkStep(x), pc[x] \in Inside
      PROVE  AdapterInv'
  <2> USE <1>3 DEF Finds, Held, Inside, RunPc, Outcome
  <2>1. lock = x /\ Finds(pc[x], state, harness, open)
    OBVIOUS
  <2>2. CASE Prepared(x)
    <3>1. CASE harness = None
      BY <2>1, <2>2, <3>1, OthersStay DEF Prepared
    <3>2. CASE harness # None /\ state = "new"
      BY <2>1, <2>2, <3>2, OthersStay DEF Prepared
    <3>3. CASE harness # None /\ state = "ready"
      BY <2>1, <2>2, <3>3, OthersStay DEF Prepared
    <3> QED
      BY <2>1, <2>2, <3>1, <3>2, <3>3 DEF Prepared
  <2>3. CASE Constructed(x)
    BY <2>1, <2>3, OthersStay DEF Constructed
  <2>4. CASE Started(x)
    BY <2>1, <2>4, OthersStay DEF Started
  <2>5. CASE SessionInvoked(x)
    BY <2>1, <2>5, OthersStay DEF SessionInvoked
  <2>6. CASE SessionReturned(x)
    BY <2>1, <2>6, OthersStay DEF SessionReturned, Leave
  <2>7. CASE FailsWithoutHarness(x)
    BY <2>1, <2>7, OthersStay DEF FailsWithoutHarness, Leave
  <2>8. CASE ConstructCancelled(x)
    BY <2>1, <2>8, OthersStay DEF ConstructCancelled
  <2>9. CASE FailsBeforePrompt(x)
    BY <2>1, <2>9, OthersStay DEF FailsBeforePrompt
  <2>10. CASE SessionLost(x)
    BY <2>1, <2>10, OthersStay DEF SessionLost
  <2>11. CASE ResetDone(x)
    BY <2>1, <2>11, OthersStay DEF ResetDone, Leave, AfterReset
  <2>12. CASE ResetFails(x)
    BY <2>1, <2>12, OthersStay DEF ResetFails, Leave, AfterReset
  <2> QED
    BY <2>2, <2>3, <2>4, <2>5, <2>6, <2>7, <2>8, <2>9, <2>10, <2>11, <2>12 DEF RunSdkStep
<1>4. RunSdkStep(x) => pc[x] \in Inside
  BY DEF RunSdkStep, Prepared, Constructed, Started, SessionInvoked, SessionReturned,
     FailsWithoutHarness, ConstructCancelled, FailsBeforePrompt, SessionLost, ResetDone,
     ResetFails, Inside
<1> QED
  BY <1>1, <1>2, <1>3, <1>4

\* and so do those of close.
LEMMA CloseKeepsInv ==
  ASSUME AdapterInv, NEW y \in Closer, CloseCall(y) \/ CloseEnters(y) \/ CloseSdkStep(y)
  PROVE  AdapterInv'
<1> USE TypesOfInv, AdapterConstants DEF Task, Finds, Held, Inside, ClosePc
<1>1. CASE CloseCall(y)
  BY <1>1, OutsideMoves DEF CloseCall
<1>2. CASE CloseEnters(y)
  <2>1. CASE state = "closed"
    BY <1>2, <2>1, OutsideMoves DEF CloseEnters
  <2>2. CASE state # "closed" /\ harness = None
    BY <1>2, <2>2, OthersStay DEF CloseEnters
  <2>3. CASE state # "closed" /\ harness # None
    BY <1>2, <2>3, OthersStay DEF CloseEnters
  <2> QED
    BY <2>1, <2>2, <2>3
<1>3. ASSUME CloseSdkStep(y), pc[y] \in Inside
      PROVE  AdapterInv'
  <2> USE <1>3
  <2>1. lock = y /\ Finds(pc[y], state, harness, open)
    OBVIOUS
  <2>2. CASE HarnessClosed(y)
    BY <2>1, <2>2, OthersStay DEF HarnessClosed
  <2>3. CASE HarnessCloseFails(y)
    BY <2>1, <2>3, OthersStay DEF HarnessCloseFails, Leave
  <2>4. CASE HarnessCloseCancelled(y)
    BY <2>1, <2>4, OthersStay DEF HarnessCloseCancelled, Leave
  <2>5. CASE ExecutorShutDown(y)
    BY <2>1, <2>5, OthersStay DEF ExecutorShutDown, Leave
  <2> QED
    BY <2>2, <2>3, <2>4, <2>5 DEF CloseSdkStep
<1>4. CloseSdkStep(y) => pc[y] \in Inside
  BY DEF CloseSdkStep, HarnessClosed, HarnessCloseFails, HarnessCloseCancelled, ExecutorShutDown
<1> QED
  BY <1>1, <1>2, <1>3, <1>4

\* Every step keeps the invariant.
LEMMA NextKeepsInv ==
  ASSUME AdapterInv, [Next]_vars
  PROVE  AdapterInv'
<1>1. CASE UNCHANGED vars
  BY <1>1 DEF vars, AdapterInv, TypeOK
<1>2. ASSUME NEW t \in Task, WaitCancelled(t)
      PROVE  AdapterInv'
  BY <1>2, OutsideMoves, AdapterConstants, TypesOfInv
     DEF WaitCancelled, Task, Inside, RunPc, ClosePc
<1> QED
  BY <1>1, <1>2, RunKeepsInv, CloseKeepsInv DEF Next, Task

------------------------------------------------------------------------------

\* The adapter and its harness agree at every await of run and close, whatever the SDK's
\* calls do and whoever is cancelled.
THEOREM AdapterInvariance == Spec => []AdapterInv
<1>1. AdapterInv /\ [Next]_vars => AdapterInv'
  BY NextKeepsInv
<1> QED
  BY <1>1, InitInv, PTL DEF Spec

\* The invariant contains what the properties say.
LEMMA InvIsSound == AdapterInv => TypeOK /\ NoHarnessLeaks /\ SessionOnSoundHarness
  BY DEF AdapterInv, Held, Finds, Task, NoHarnessLeaks, SessionOnSoundHarness
\* Whatever is open is held, however starts, sessions, resets and closes fail or are cancelled.
THEOREM NoLeak == Spec => []NoHarnessLeaks
  BY AdapterInvariance, InvIsSound, PTL

\* A prompt only ever reaches a harness that is open, started and not part of a failure.
THEOREM SoundSessions == Spec => []SessionOnSoundHarness
  BY AdapterInvariance, InvIsSound, PTL

------------------------------------------------------------------------------
(***************************************************************************)
(* The adapter implements AgentRuntime                                     *)
(***************************************************************************)

Resets == {"resetBefore", "resetAfter"}

\* ContractCall of a task at l.
CallAt(l) ==
  IF l \in Outcome THEN l
  ELSE IF l \in {"idle", "wait"} THEN "idle"
  ELSE IF l \in {"running", "resetAfter"} THEN "session"
  ELSE "before"

calls == [x \in Caller |-> ContractCall(x)]

\* What the contract sees of a state of the adapter.
LEMMA Seen ==
  AdapterInv =>
    /\ \A x \in Caller : calls[x] = CallAt(pc[x])
    /\ state \in {"new", "ready"} => ContractMode = "usable"
    /\ state = "closed" => ContractMode = "closed"
    /\ state = "broken" /\ lock \in Caller /\ pc[lock] \in Resets => ContractMode = "usable"
    /\ state = "broken" /\ ~ (lock \in Caller /\ pc[lock] \in Resets) => ContractMode = "broken"
    /\ lock \notin Caller => ~ Contract!Busy
    /\ \A x \in Caller : lock # x => calls[x] \notin Contract!Active
<1> SUFFICES ASSUME AdapterInv
             PROVE  /\ \A x \in Caller : calls[x] = CallAt(pc[x])
                    /\ state \in {"new", "ready"} => ContractMode = "usable"
                    /\ state = "closed" => ContractMode = "closed"
                    /\ state = "broken" /\ lock \in Caller /\ pc[lock] \in Resets
                         => ContractMode = "usable"
                    /\ state = "broken" /\ ~ (lock \in Caller /\ pc[lock] \in Resets)
                         => ContractMode = "broken"
                    /\ lock \notin Caller => ~ Contract!Busy
                    /\ \A x \in Caller : lock # x => calls[x] \notin Contract!Active
  OBVIOUS
<1>1. \A x \in Caller : calls[x] = CallAt(pc[x])
  BY DEF calls, ContractCall, CallAt
<1>2. \A x \in Caller : lock = x <=> pc[x] \in Inside
  BY TypesOfInv DEF Task
<1>3. \A x \in Caller : pc[x] \in Resets => lock = x
  BY <1>2 DEF Resets, Inside
<1>4. \A x \in Caller : pc[x] \in RunPc
  BY TypesOfInv
<1>5. ASSUME NEW x \in Caller, lock # x
      PROVE  calls[x] \notin Contract!Active
  <2>1. pc[x] \in {"idle", "wait"} \cup Outcome
    BY <1>2, <1>4, <1>5 DEF Inside, RunPc
  <2> QED
    BY <1>1, <2>1 DEF CallAt, Outcome, Contract!Active
<1>6. lock \notin Caller => ~ Contract!Busy
  <2>1. \A x \in Caller : Contract!Active = {"before", "session"}
    BY DEF Contract!Active
  <2> QED
    BY <1>5 DEF Contract!Busy, calls
<1> QED
  BY <1>1, <1>3, <1>5, <1>6 DEF ContractMode, Resets

\* A caller that moves changes its own call of the contract.
LEMMA CallMoves ==
  ASSUME AdapterInv, NEW x \in Caller, NEW l, Goto(x, l)
  PROVE  calls' = [calls EXCEPT ![x] = CallAt(l)]
<1>1. \A y \in Caller : pc'[y] = IF y = x THEN l ELSE pc[y]
  BY DEF Goto, AdapterInv, TypeOK
<1>2. \A y \in Caller : calls'[y] = IF y = x THEN CallAt(l) ELSE calls[y]
  BY <1>1 DEF calls, ContractCall, CallAt
<1> QED
  BY <1>2 DEF calls

\* close is not a call of the contract's run.
LEMMA CallsStay ==
  ASSUME AdapterInv, NEW y \in Closer, NEW l, Goto(y, l)
  PROVE  calls' = calls
<1>1. \A x \in Caller : pc'[x] = pc[x]
  BY AdapterConstants DEF Goto, AdapterInv, TypeOK
<1> QED
  BY <1>1 DEF calls, ContractCall

\* What the contract sees of the adapter after a step.
LEMMA SeenNext ==
  AdapterInv' =>
    /\ state' \in {"new", "ready"} => ContractMode' = "usable"
    /\ state' = "closed" => ContractMode' = "closed"
    /\ state' = "broken" /\ lock' \in Caller /\ pc'[lock'] \in Resets => ContractMode' = "usable"
    /\ state' = "broken" /\ ~ (lock' \in Caller /\ pc'[lock'] \in Resets) => ContractMode' = "broken"
<1>1. AdapterInv' => \A x \in Caller : pc'[x] \in Resets => lock' = x
  BY DEF AdapterInv, TypeOK, Resets, Outcome
<1> QED
  BY <1>1 DEF ContractMode, Resets

\* While a run is inside, the contract sees a usable adapter, whatever has failed already.
LEMMA UsableInside ==
  ASSUME AdapterInv, lock \in Caller
  PROVE  ContractMode = "usable"
<1>1. /\ pc[lock] \in RunPc /\ pc[lock] \in Inside
      /\ Finds(pc[lock], state, harness, open)
  BY TypesOfInv DEF Task
<1> QED
  BY <1>1, Seen DEF Finds, Inside, RunPc, Resets, Outcome

\* While a caller is inside, the contract sees a usable runtime.
LEMMA UsableInsideNext ==
  ASSUME AdapterInv', lock' \in Caller
  PROVE  ContractMode' = "usable"
<1>1. /\ pc'[lock'] \in RunPc /\ pc'[lock'] \in Inside
      /\ Finds(pc'[lock'], state', harness', open')
  BY DEF AdapterInv, TypeOK, Task, Inside, RunPc, ClosePc, Outcome
<1> QED
  BY <1>1, SeenNext DEF Finds, Inside, RunPc, Resets, Outcome

\* A task outside of the lock moves: the mode stays.
LEMMA ModeStays ==
  ASSUME AdapterInv, AdapterInv', NEW t \in Task, NEW l, Goto(t, l), lock # t,
         UNCHANGED <<state, lock>>
  PROVE  ContractMode' = ContractMode
<1>1. lock \in Task => pc'[lock] = pc[lock]
  BY DEF Goto, AdapterInv, TypeOK, Task
<1>2. state \in {"new", "ready", "broken", "closed"}
  BY TypesOfInv
<1>3. CASE lock \in Caller /\ pc[lock] \in Resets /\ state = "broken"
  <2>1. lock' \in Caller /\ pc'[lock'] \in Resets /\ state' = "broken"
    BY <1>1, <1>3 DEF Task
  <2> QED
    BY <1>3, <2>1, Seen, SeenNext
<1>4. CASE state = "broken" /\ ~ (lock \in Caller /\ pc[lock] \in Resets)
  <2>1. state' = "broken" /\ ~ (lock' \in Caller /\ pc'[lock'] \in Resets)
    BY <1>1, <1>4 DEF Task
  <2> QED
    BY <1>4, <2>1, Seen, SeenNext
<1>5. CASE state \in {"new", "ready"}
  <2>1. state' \in {"new", "ready"}
    BY <1>5
  <2> QED
    BY <1>5, <2>1, Seen, SeenNext
<1>6. CASE state = "closed"
  <2>1. state' = "closed"
    BY <1>6
  <2> QED
    BY <1>6, <2>1, Seen, SeenNext
<1> QED
  BY <1>2, <1>3, <1>4, <1>5, <1>6

\* run: entry is Enter or Refuse, the session's start is Invoke; a failure reaches the
\* contract when it is reported, by which time the adapter is usable again or broken.
LEMMA RunRefines ==
  ASSUME AdapterInv, AdapterInv', NEW x \in Caller,
         RunCall(x) \/ RunEnters(x) \/ RunSdkStep(x) \/ WaitCancelled(x)
  PROVE  Contract!Next \/ (ContractMode' = ContractMode /\ calls' = calls)
<1> USE DEF Outcome, Task
<1>1. /\ calls[x] = CallAt(pc[x])
      /\ pc[x] \in RunPc /\ (lock = x <=> pc[x] \in Inside)
      /\ Finds(pc[x], state, harness, open) /\ Held(state, harness, open)
      /\ calls \in [Caller -> {CallAt(pc[y]) : y \in Caller}]
      /\ state \in {"new", "ready", "broken", "closed"}
      /\ x # None
  BY Seen, TypesOfInv, AdapterConstants DEF calls
<1>2. ASSUME NEW l, Goto(x, l), CallAt(l) = calls[x]
      PROVE  calls' = calls
  BY <1>1, <1>2, CallMoves
<1>3. CASE RunCall(x)
  <2>1. ContractMode' = ContractMode
    BY <1>1, <1>3, ModeStays DEF RunCall, Inside
  <2>2. CASE pc[x] = "idle"
    BY <1>1, <1>2, <1>3, <2>1, <2>2 DEF RunCall, CallAt
  <2>3. CASE pc[x] # "idle"
    <3>1. calls[x] \in Contract!Settled /\ CallAt("wait") = "idle"
      BY <1>1, <1>3, <2>3 DEF RunCall, CallAt, Contract!Settled
    <3>2. calls' = [calls EXCEPT ![x] = "idle"]
      BY <1>3, <3>1, CallMoves DEF RunCall
    <3>3. Contract!Report(x)
      BY <2>1, <3>1, <3>2 DEF Contract!Report, calls
    <3> QED
      BY <3>3 DEF Contract!Next
  <2> QED
    BY <2>2, <2>3
<1>4. CASE WaitCancelled(x)
  <2>1. ContractMode' = ContractMode
    BY <1>1, <1>4, ModeStays DEF WaitCancelled, Inside
  <2> QED
    BY <1>1, <1>2, <1>4, <2>1 DEF WaitCancelled, CallAt
<1>5. CASE RunEnters(x) /\ Runnable
  <2>1. state \in {"new", "ready"} /\ state' = state
    BY <1>1, <1>5 DEF RunEnters, Runnable
  <2>2. ContractMode = "usable" /\ ContractMode' = "usable" /\ ~ Contract!Busy
    BY <1>5, <2>1, Seen, SeenNext, AdapterConstants DEF RunEnters
  <2>3. calls' = [calls EXCEPT ![x] = "before"]
    BY <1>5, CallMoves DEF RunEnters, CallAt
  <2>4. Contract!Enter(x)
    BY <2>2, <2>3 DEF Contract!Enter, calls
  <2> QED
    BY <2>4 DEF Contract!Next
<1>6. CASE RunEnters(x) /\ ~ Runnable
  <2>1. ContractMode' = ContractMode
    BY <1>1, <1>6, ModeStays DEF RunEnters, Inside
  <2>2. calls' = [calls EXCEPT ![x] = "unavailable"]
    BY <1>6, CallMoves DEF RunEnters, CallAt
  <2>3. calls[x] \notin Contract!Active
    BY <1>1, <1>6 DEF RunEnters, CallAt, Contract!Active
  <2>4. Contract!Refuse(x)
    BY <2>1, <2>2, <2>3 DEF Contract!Refuse, calls
  <2> QED
    BY <2>4 DEF Contract!Next
<1>7. ASSUME RunSdkStep(x)
      PROVE  lock = x /\ pc[x] \in Inside /\ ContractMode = "usable"
  <2>1. pc[x] \in Inside
    BY <1>7 DEF RunSdkStep, Prepared, Constructed, Started, SessionInvoked, SessionReturned,
       FailsWithoutHarness, ConstructCancelled, FailsBeforePrompt, SessionLost, ResetDone,
       ResetFails, Inside
  <2> QED
    BY <1>1, <2>1, UsableInside
<1>8. CASE \/ Prepared(x) \/ Constructed(x) \/ Started(x)
           \/ ConstructCancelled(x) \/ FailsBeforePrompt(x) \/ SessionLost(x)
  <2>1. lock = x /\ lock' = x /\ ContractMode = "usable"
    BY <1>7, <1>8 DEF RunSdkStep, Prepared, Constructed, Started, ConstructCancelled,
       FailsBeforePrompt, SessionLost
  <2>2. ContractMode' = ContractMode
    BY <2>1, UsableInsideNext
  <2>3. CASE SessionLost(x)
    BY <1>1, <1>2, <2>2, <2>3 DEF SessionLost, CallAt
  <2>4. CASE ~ SessionLost(x)
    <3>1. PICK l \in {"construct", "start", "session", "resetBefore"} : Goto(x, l)
      BY <1>8, <2>4 DEF Prepared, Constructed, Started, ConstructCancelled, FailsBeforePrompt
    <3>2. pc[x] \in {"prepare", "construct", "start", "session"}
      BY <1>8, <2>4 DEF Prepared, Constructed, Started, ConstructCancelled, FailsBeforePrompt
    <3> QED
      BY <1>1, <1>2, <2>2, <3>1, <3>2 DEF CallAt
  <2> QED
    BY <2>3, <2>4
<1>9. CASE SessionInvoked(x)
  <2>1. ContractMode' = ContractMode
    BY <1>7, <1>9, UsableInsideNext DEF RunSdkStep, SessionInvoked
  <2>2. calls[x] = "before" /\ calls' = [calls EXCEPT ![x] = "session"]
    BY <1>1, <1>9, CallMoves DEF SessionInvoked, CallAt
  <2>3. Contract!Invoke(x)
    BY <2>1, <2>2 DEF Contract!Invoke, calls
  <2> QED
    BY <2>3 DEF Contract!Next
<1>10. CASE SessionReturned(x)
  <2>1. state = "ready" /\ state' = "ready"
    BY <1>1, <1>10 DEF SessionReturned, Finds
  <2>2. ContractMode' = ContractMode
    BY <2>1, Seen, SeenNext
  <2>3. calls[x] = "session" /\ calls' = [calls EXCEPT ![x] = "result"]
    BY <1>1, <1>10, CallMoves DEF SessionReturned, Leave, CallAt
  <2>4. Contract!Return(x)
    BY <2>2, <2>3 DEF Contract!Return, calls
  <2> QED
    BY <2>4 DEF Contract!Next
<1>11. CASE FailsWithoutHarness(x) \/ ResetDone(x) \/ ResetFails(x)
  <2>1. state' \in {"new", "ready", "broken"}
    BY <1>1, <1>11 DEF FailsWithoutHarness, ResetDone, ResetFails, Finds
  <2>2. ContractMode' \in {"usable", "broken"}
    BY <2>1, SeenNext
  <2>3. PICK l \in {"unavailable", "uncertain"} : Goto(x, l) /\ (l = "uncertain" <=> pc[x] = "resetAfter")
    BY <1>11 DEF FailsWithoutHarness, ResetDone, ResetFails, Leave, AfterReset
  <2>4. pc[x] \in {"prepare", "construct", "resetBefore", "resetAfter"}
    BY <1>11 DEF FailsWithoutHarness, ResetDone, ResetFails
  <2>5. calls' = [calls EXCEPT ![x] = l]
    BY <2>3, CallMoves DEF CallAt
  <2>6. Contract!FailBefore(x) \/ Contract!FailAfter(x)
    BY <1>1, <2>2, <2>3, <2>4, <2>5 DEF CallAt, Contract!FailBefore, Contract!FailAfter, calls
  <2> QED
    BY <2>6 DEF Contract!Next
<1> QED
  BY <1>3, <1>4, <1>5, <1>6, <1>8, <1>9, <1>10, <1>11 DEF RunSdkStep

\* close: an adapter without a harness closes at once, another is broken until its harness
\* is closed; a close that fails leaves it so.
LEMMA CloseRefines ==
  ASSUME AdapterInv, AdapterInv', NEW y \in Closer,
         CloseCall(y) \/ CloseEnters(y) \/ CloseSdkStep(y) \/ WaitCancelled(y)
  PROVE  Contract!Next \/ (ContractMode' = ContractMode /\ calls' = calls)
<1> USE DEF Task
<1>1. /\ pc[y] \in ClosePc /\ (lock = y <=> pc[y] \in Inside)
      /\ Finds(pc[y], state, harness, open) /\ Held(state, harness, open)
      /\ state \in {"new", "ready", "broken", "closed"}
      /\ y # None /\ y \notin Caller /\ None \notin Caller
  BY TypesOfInv, AdapterConstants
<1>2. calls' = calls
  <2>1. PICK l : Goto(y, l)
    BY DEF CloseCall, CloseEnters, CloseSdkStep, WaitCancelled, HarnessClosed,
       HarnessCloseFails, HarnessCloseCancelled, ExecutorShutDown, Leave
  <2> QED
    BY <2>1, CallsStay
<1>3. CASE CloseCall(y) \/ WaitCancelled(y) \/ (CloseEnters(y) /\ state = "closed")
  <2>1. ContractMode' = ContractMode
    BY <1>1, <1>3, ModeStays DEF CloseCall, WaitCancelled, CloseEnters, Inside
  <2> QED
    BY <1>2, <2>1
<1>4. CASE CloseEnters(y) /\ state # "closed"
  <2>1. ~ Contract!Busy /\ ContractMode # "closed" /\ lock' = y
    BY <1>1, <1>4, Seen DEF CloseEnters
  <2>2. CASE harness = None
    <3>1. ContractMode' = "closed"
      BY <1>4, <2>2, SeenNext DEF CloseEnters
    <3>2. Contract!Close
      BY <1>2, <2>1, <3>1 DEF Contract!Close, calls
    <3> QED
      BY <3>2 DEF Contract!Next
  <2>3. CASE harness # None
    <3>1. ContractMode' = "broken"
      BY <1>1, <1>4, <2>1, <2>3, SeenNext DEF CloseEnters
    <3>2. Contract!CloseFails
      BY <1>2, <2>1, <3>1 DEF Contract!CloseFails, calls
    <3> QED
      BY <3>2 DEF Contract!Next
  <2> QED
    BY <2>2, <2>3
<1>5. CASE HarnessClosed(y)
  <2>1. ~ Contract!Busy /\ ContractMode' = "closed"
    BY <1>1, <1>5, Seen, SeenNext DEF HarnessClosed, Inside
  <2>2. Contract!Close
    BY <1>2, <2>1 DEF Contract!Close, calls
  <2> QED
    BY <2>2 DEF Contract!Next
<1>6. CASE HarnessCloseFails(y) \/ HarnessCloseCancelled(y) \/ ExecutorShutDown(y)
  <2>1. lock = y /\ lock' = None /\ state' = state /\ state \in {"broken", "closed"}
    BY <1>1, <1>6 DEF HarnessCloseFails, HarnessCloseCancelled, ExecutorShutDown, Leave,
       Inside, Finds
  <2>2. ContractMode' = ContractMode
    BY <1>1, <2>1, Seen, SeenNext
  <2> QED
    BY <1>2, <2>2
<1> QED
  BY <1>3, <1>4, <1>5, <1>6 DEF CloseSdkStep

\* The adapter keeps the contract of AgentRuntime; above all, it says "unavailable" only of
\* an input that was never handed to the agent.
THEOREM ContractKept == Spec => KeepsContract
<1>1. Init => Contract!Init
  BY DEF Init, Contract!Init, ContractMode, ContractCall, Outcome
<1>2. ASSUME AdapterInv, AdapterInv', [Next]_vars
      PROVE  [Contract!Next]_(Contract!runtimeVars)
  <2>1. CASE UNCHANGED vars
    BY <2>1 DEF vars, Contract!runtimeVars, ContractMode, ContractCall
  <2>2. CASE Next
    <3>1. Contract!Next \/ (ContractMode' = ContractMode /\ calls' = calls)
      BY <1>2, <2>2, RunRefines, CloseRefines DEF Next
    <3>2. ContractMode' = ContractMode /\ calls' = calls => UNCHANGED Contract!runtimeVars
      BY DEF Contract!runtimeVars, calls
    <3> QED
      BY <3>1, <3>2
  <2> QED
    BY <1>2, <2>1, <2>2
<1> QED
  BY <1>1, <1>2, AdapterInvariance, PTL DEF Spec, KeepsContract, Contract!Spec
===============================================================================
