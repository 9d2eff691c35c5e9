---------------------------- MODULE AguiCoordinator ----------------------------
(***************************************************************************)
(* One process of the AG-UI runtime over its store: RunCoordinator of      *)
(* server/coordinator.ts, and of the runtime behind DshRuntimePort what it *)
(* answers to the coordinator.                                             *)
(*                                                                         *)
(* The process is single threaded and the store synchronous: code between  *)
(* two awaits is one step, and pump, which launches queued runs, is part   *)
(* of every step that calls it.  The awaits of execute are the calls to    *)
(* the runtime and to the file system; notifications, API calls, restart   *)
(* and shutdown come in between.                                           *)
(***************************************************************************)
EXTENDS AguiStore

CONSTANTS
  Concurrency,  \* executions at a time; 2 in the code
  ToolOutcome,  \* what a tool call may leave: "none" verifiable, "exact", "foreign"
  MaxFaults,    \* bound on store writes that raise
  MaxReboots    \* bound on process deaths

ASSUME CoordinatorConstants ==
  /\ Concurrency \in Nat \ {0} /\ MaxFaults \in Nat /\ MaxReboots \in Nat
  /\ ToolOutcome \subseteq {"none", "exact", "foreign"}

VARIABLES
  task,                 \* the execution of each run row
  pending,              \* admitted runs that wait for a slot
  admissionStopped, closed, runtimeUnavailable,
  fatal,                \* fatalError is defined
  transition,           \* of the runtime: idle, restarting (or failed to), shut
  lost,                 \* the runtime's transport is lost
  restarting,           \* a call of restartRuntime awaits the runtime
  closer,               \* how far shutdown got
  proof,                \* what the agent's tool left in the run's proof partition
  faults, reboots

flagVars    == <<admissionStopped, closed, runtimeUnavailable, fatal>>
runtimeVars == <<transition, lost, restarting>>
bounds      == <<faults, reboots>>
vars == <<storeVars, task, pending, flagVars, runtimeVars, closer, proof, bounds>>

\* pc: where execute is; latch: callbackFailure is unset, set, or set by a raw record that
\* could not be written (rawAuthorityFailure); rejected: execute is going to throw.
NoTask == [pc |-> "none", latch |-> "none", rejected |-> FALSE]

Active       == {r \in 1 .. MaxRuns : task[r].pc # "none"}
At(r, pc)    == task[r].pc = pc
Running(r)   == r \in Rows /\ runs[r].status = "running"
StepTo(r, t) == task' = [task EXCEPT ![r] = t]

Works  == UNCHANGED bounds
Raises == faults < MaxFaults /\ faults' = faults + 1 /\ UNCHANGED reboots

------------------------------------------------------------------------------
(***************************************************************************)
(* pump                                                                    *)
(***************************************************************************)

\* runtime.run, called in the same turn: it is rejected at once or goes to the agent.
LaunchedAt == IF transition' = "shut" THEN "uncertain"
              ELSE IF transition' = "restarting" THEN "refused"
              ELSE IF lost' THEN "uncertain"
              ELSE "prompt"

CanPump == ~ (admissionStopped' \/ closed' \/ runtimeUnavailable' \/ fatal')

Free(tasks) == Concurrency - Cardinality({r \in 1 .. MaxRuns : tasks[r].pc # "none"})

\* pump over a queue, tasks and rows as the step leaves them: runs move from the queue
\* into free slots, each started in the store and handed to the runtime.  A start that
\* raises leaves its row queued, and its execution ends.
Pump(queue, tasks, rows) ==
  LET free    == Free(tasks)
      n       == IF CanPump THEN IF Len(queue) < free THEN Len(queue) ELSE free ELSE 0
      started == {queue[i] : i \in 1 .. n}
  IN \E broken \in SUBSET started :
       /\ faults + Cardinality(broken) <= MaxFaults
       /\ faults' = faults + Cardinality(broken)
       /\ pending' = SubSeq(queue, n + 1, Len(queue))
       /\ task' = [r \in 1 .. MaxRuns |->
                     IF r \in broken THEN [NoTask EXCEPT !.pc = "leaving"]
                     ELSE IF r \in started THEN [NoTask EXCEPT !.pc = LaunchedAt]
                     ELSE tasks[r]]
       /\ runs' = [r \in DOMAIN rows |->
                     IF r \in started \ broken THEN StartedRow(rows[r]) ELSE rows[r]]

------------------------------------------------------------------------------
(***************************************************************************)
(* HTTP                                                                    *)
(***************************************************************************)

Create(c) ==
  /\ ~ closed
  /\ CreateConversation(c)
  /\ UNCHANGED <<task, pending, flagVars, runtimeVars, closer, proof, bounds>>

Acknowledge(c) ==
  /\ ~ closed
  /\ AcknowledgeUnknown(c)
  /\ UNCHANGED <<task, pending, flagVars, runtimeVars, closer, proof, bounds>>

\* admit, up to the answer: a new row is queued and pumped.
Admit(c) ==
  /\ ~ (closed \/ admissionStopped \/ fatal \/ runtimeUnavailable)
  /\ CanAdmit(c)
  /\ Len(runs) < MaxRuns
  /\ UNCHANGED <<conversations, flagVars, runtimeVars, closer, proof, reboots>>
  /\ Pump(Append(pending, Len(runs) + 1), task, Append(runs, QueuedRow(c)))

------------------------------------------------------------------------------
(***************************************************************************)
(* The agent, while runtime.run is pending                                 *)
(***************************************************************************)

\* Mutant: events are projected although the run has been settled meanwhile.
Projects_Always(r) == task[r].latch = "none"

Projects(r) == Running(r) /\ task[r].latch = "none"

\* onNotification: the raw record first, then, for a run that is still running, its
\* projection; either may fail, and neither throws into the runtime.
Notification(r) ==
  /\ At(r, "prompt")
  /\ \/ /\ Raises
        /\ StepTo(r, [task[r] EXCEPT !.latch = "raw"])
        /\ UNCHANGED runs
     \/ /\ Works
        /\ Projects(r)
        /\ \/ /\ Cardinality({i \in DOMAIN runs[r].agui : runs[r].agui[i] = "projected"}) < MaxNotes
              /\ runs' = [runs EXCEPT ![r] = Logged(@, "projected")]
              /\ UNCHANGED task
           \/ StepTo(r, [task[r] EXCEPT !.latch = "callback"]) /\ UNCHANGED runs
  /\ UNCHANGED <<conversations, pending, flagVars, runtimeVars, closer, proof>>

\* What the agent did with its one tool is looked at only after runtime.run: whether a
\* tool/call was seen, and what the tool left then: the exact bytes of the prompt, alone
\* or beside a foreign entry, or nothing that can be verified.
Left(r, called, kind) ==
  /\ called \/ kind = "none"
  /\ proof' = [proof EXCEPT ![r] = kind]

------------------------------------------------------------------------------
(***************************************************************************)
(* execute after runtime.run                                               *)
(***************************************************************************)

\* Into the finally block, which does nothing unless a tool/call was seen.
Final(t, called) == [t EXCEPT !.pc = IF called THEN "finalSnapshot" ELSE "leaving"]

Rejected(t) == [t EXCEPT !.rejected = TRUE]

\* The catch block for an ordinary error: fail the run if it is still running; then t.
Fails(r, t) ==
  \/ Works /\ StepTo(r, t) /\ runs' = [runs EXCEPT ![r] = FinishedRow(@, "failed")]
  \/ Running(r) /\ Raises /\ StepTo(r, Rejected(t)) /\ UNCHANGED runs

\* runtime.run fails with an ordinary error, or past its deadline.
RunFails(r, called, kind) ==
  /\ At(r, "prompt") \/ (At(r, "refused") /\ ~ called /\ kind = "none")
  /\ Fails(r, Final(task[r], called))
  /\ Left(r, called, kind)
  /\ UNCHANGED <<conversations, pending, flagVars, runtimeVars, closer>>

\* runtime.run returns: a run settled meanwhile is left alone, a gap in the raw record
\* makes it unknown, and anything short of a closed, completed turn with one proof
\* call fails it.
RunReturns(r, called, kind) ==
  /\ At(r, "prompt")
  /\ Left(r, called, kind)
  /\ LET t == task[r] IN
     \/ /\ ~ Running(r)
        /\ Works /\ StepTo(r, Final(t, called)) /\ UNCHANGED storeVars
     \/ /\ Running(r) /\ t.latch = "raw"
        /\ \/ /\ Works /\ StepTo(r, Final(t, called))
              /\ runs' = Unknown(runs, {r}) /\ conversations' = Blocked({r})
           \/ /\ Raises /\ StepTo(r, Rejected(Final(t, called)))
              /\ UNCHANGED storeVars
     \/ /\ Running(r) /\ t.latch # "raw"
        /\ Fails(r, Final(t, called)) /\ UNCHANGED conversations
     \/ /\ Running(r) /\ t.latch = "none" /\ called
        /\ Works /\ StepTo(r, [t EXCEPT !.pc = "snapshot"]) /\ UNCHANGED storeVars
  /\ UNCHANGED <<pending, flagVars, runtimeVars, closer>>

\* The transport is gone: settleSharedRuntimeLoss makes every running execution
\* unknown, or as many as it reaches before a write raises.
RunUncertain(r, called, kind) ==
  /\ At(r, "prompt") \/ (At(r, "uncertain") /\ ~ called /\ kind = "none")
  /\ Left(r, called, kind)
  /\ lost' = TRUE
  /\ runtimeUnavailable' = TRUE
  /\ LET U == {q \in Active : Running(q)} IN
     \/ /\ Works /\ StepTo(r, Final(task[r], called))
        /\ runs' = Unknown(runs, U) /\ conversations' = Blocked(U)
     \/ /\ Raises /\ StepTo(r, Rejected(Final(task[r], called)))
        /\ \E reached \in SUBSET U :
             /\ reached # U
             /\ runs' = Unknown(runs, reached) /\ conversations' = Blocked(reached)
  /\ UNCHANGED <<pending, admissionStopped, closed, fatal, transition, restarting, closer>>

Verifiable(r) == proof[r] \in {"exact", "foreign"}
Saved(r) == runs' = [runs EXCEPT ![r].artifacts = @ + 1]

\* snapshotProofArtifact before success.
Snapshot(r) ==
  /\ At(r, "snapshot")
  /\ IF Verifiable(r)
     THEN \/ Works /\ Saved(r) /\ StepTo(r, [task[r] EXCEPT !.pc = "cleanup"])
          \/ Raises /\ StepTo(r, Rejected(Final(task[r], TRUE))) /\ UNCHANGED runs
     ELSE Fails(r, Final(task[r], TRUE))
  /\ UNCHANGED <<conversations, pending, flagVars, runtimeVars, closer, proof>>

Cleaned(r) == proof' = [proof EXCEPT ![r] = IF @ = "none" THEN "none" ELSE "gone"]

\* cleanupProofPartition and finishRun; a partition with a foreign entry is refused, and
\* a success that cannot be written is a failure (that the failure cannot be written
\* either is beyond the bound).
Succeeds(r) ==
  /\ At(r, "cleanup")
  /\ LET t == [task[r] EXCEPT !.pc = "finalCleanup"] IN
     IF proof[r] = "foreign"
     THEN Fails(r, t) /\ UNCHANGED proof
     ELSE /\ Cleaned(r)
          /\ StepTo(r, t)
          /\ \/ Works /\ runs' = [runs EXCEPT ![r] = FinishedRow(@, "succeeded")]
             \/ Running(r) /\ Raises /\ runs' = [runs EXCEPT ![r] = FinishedRow(@, "failed")]
  /\ UNCHANGED <<conversations, pending, flagVars, runtimeVars, closer>>

\* Mutant: the partition is cleaned up whether or not the artifact was stored.
FinalSnapshot_CleansUp(r) ==
  /\ At(r, "finalSnapshot")
  /\ \/ Verifiable(r) /\ Works /\ Saved(r)
     \/ Verifiable(r) /\ Raises /\ UNCHANGED runs
     \/ ~ Verifiable(r) /\ Works /\ UNCHANGED runs
  /\ StepTo(r, [task[r] EXCEPT !.pc = "finalCleanup"])
  /\ UNCHANGED <<conversations, pending, flagVars, runtimeVars, closer, proof>>

\* snapshotProofArtifact in the finally block: if the artifact cannot be stored, the
\* partition is kept and the coordinator is latched.
FinalSnapshot(r) ==
  /\ At(r, "finalSnapshot")
  /\ \/ /\ Verifiable(r) /\ Works /\ Saved(r)
        /\ StepTo(r, [task[r] EXCEPT !.pc = "finalCleanup"])
        /\ UNCHANGED fatal
     \/ /\ Verifiable(r) /\ Raises /\ UNCHANGED runs
        /\ fatal' = TRUE
        /\ StepTo(r, [task[r] EXCEPT !.pc = "leaving"])
     \/ /\ ~ Verifiable(r) /\ Works /\ UNCHANGED runs
        /\ StepTo(r, [task[r] EXCEPT !.pc = "finalCleanup"])
        /\ UNCHANGED fatal
  /\ UNCHANGED <<conversations, pending, admissionStopped, closed, runtimeUnavailable,
                 runtimeVars, closer, proof>>

FinalCleanup(r) ==
  /\ At(r, "finalCleanup")
  /\ IF proof[r] = "foreign"
     THEN fatal' = TRUE /\ UNCHANGED proof
     ELSE Cleaned(r) /\ UNCHANGED fatal
  /\ StepTo(r, [task[r] EXCEPT !.pc = "leaving"])
  /\ UNCHANGED <<storeVars, pending, admissionStopped, closed, runtimeUnavailable,
                 runtimeVars, closer, bounds>>

\* Mutant: a rejected execution is only logged.
Leave_NoLatch(r) ==
  /\ At(r, "leaving")
  /\ UNCHANGED <<conversations, flagVars>>
  /\ UNCHANGED <<runtimeVars, closer, proof, reboots>>
  /\ Pump(pending, [task EXCEPT ![r] = NoTask], runs)

\* pump's catch and finally: latchFatal for a rejected execution, then the slot is free.
\* latchFatal closes the queue, so its own write may raise without a pump after it.
Leave(r) ==
  /\ At(r, "leaving")
  /\ UNCHANGED <<admissionStopped, closed, runtimeVars, closer, proof, reboots>>
  /\ IF ~ task[r].rejected
     THEN /\ UNCHANGED <<conversations, runtimeUnavailable, fatal>>
          /\ Pump(pending, [task EXCEPT ![r] = NoTask], runs)
     ELSE /\ runtimeUnavailable' = TRUE /\ fatal' = TRUE
          /\ StepTo(r, NoTask)
          /\ UNCHANGED pending
          /\ \/ /\ UNCHANGED faults
                /\ LET U == {q \in {r} : Running(q)} IN
                     runs' = Unknown(runs, U) /\ conversations' = Blocked(U)
             \/ Running(r) /\ Raises /\ UNCHANGED storeVars

------------------------------------------------------------------------------
(***************************************************************************)
(* restartRuntime                                                          *)
(***************************************************************************)

\* Mutant: neither the coordinator nor the runtime looks at active runs.
RestartCall_Busy ==
  /\ ~ (closed \/ admissionStopped \/ fatal \/ restarting)
  /\ transition # "shut"
  /\ restarting' = TRUE
  /\ transition' = "restarting"
  /\ UNCHANGED <<storeVars, task, pending, flagVars, lost, closer, proof, bounds>>

\* A restart asked for twice is one restart.
RestartCall ==
  /\ ~ (closed \/ admissionStopped \/ fatal \/ restarting)
  /\ Active = {}
  /\ transition # "shut"
  /\ restarting' = TRUE
  /\ transition' = "restarting"
  /\ UNCHANGED <<storeVars, task, pending, flagVars, lost, closer, proof, bounds>>

\* Mutant: the queue is not pumped after a restart.
RestartDone_NoPump ==
  /\ restarting
  /\ restarting' = FALSE
  /\ lost' = FALSE
  /\ transition' = IF transition = "shut" THEN "shut" ELSE "idle"
  /\ runtimeUnavailable' = FALSE
  /\ UNCHANGED <<storeVars, task, pending, admissionStopped, closed, fatal, closer, proof, bounds>>

RestartDone ==
  /\ restarting
  /\ restarting' = FALSE
  /\ lost' = FALSE
  /\ transition' = IF transition = "shut" THEN "shut" ELSE "idle"
  /\ runtimeUnavailable' = FALSE
  /\ UNCHANGED <<conversations, admissionStopped, closed, fatal, closer, proof, reboots>>
  /\ Pump(pending, task, runs)

\* The runtime stays in its transition until another restart succeeds.
RestartFails ==
  /\ restarting
  /\ restarting' = FALSE
  /\ lost' \in {lost, TRUE}
  /\ UNCHANGED <<storeVars, task, pending, flagVars, transition, closer, proof, bounds>>

------------------------------------------------------------------------------
(***************************************************************************)
(* shutdown, and close                                                     *)
(***************************************************************************)

ShutdownCall ==
  /\ closer = "idle"
  /\ ~ closed
  /\ admissionStopped' = TRUE
  /\ closer' = "grace"
  /\ UNCHANGED <<storeVars, task, pending, closed, runtimeUnavailable, fatal, runtimeVars,
                 proof, bounds>>

\* close stops admission before it finds out that runs prevent it.
CloseCall ==
  /\ closer = "idle"
  /\ ~ closed
  /\ admissionStopped' = TRUE
  /\ IF Active = {} /\ pending = << >>
     THEN closer' = "closing" /\ transition' = "shut"
     ELSE UNCHANGED <<closer, transition>>
  /\ UNCHANGED <<storeVars, task, pending, closed, runtimeUnavailable, fatal, lost, restarting,
                 proof, bounds>>

\* waitForActiveGrace and runtime.close, which waits for a restart in flight; if it
\* fails, shutdown may be called again.
ShutdownIdle ==
  /\ closer = "grace"
  /\ Active = {}
  /\ closer' = "closing"
  /\ transition' = "shut"
  /\ UNCHANGED <<storeVars, task, pending, flagVars, lost, restarting, proof, bounds>>

ShutdownClosed ==
  /\ closer = "closing"
  /\ ~ restarting
  /\ closer' = "idle"
  /\ closed' \in BOOLEAN
  /\ UNCHANGED <<storeVars, task, pending, admissionStopped, runtimeUnavailable, fatal,
                 runtimeVars, proof, bounds>>

\* Mutant: shutdown waits for the active runs however long they take.
GraceExpires_Never == FALSE /\ UNCHANGED vars

\* The grace is over: what runs becomes unknown, and runtime.shutdown is called.
GraceExpires ==
  /\ closer = "grace"
  /\ Active # {}
  /\ runtimeUnavailable' = TRUE
  /\ transition' = "shut"
  /\ LET U == {q \in Active : Running(q)} IN
     \/ /\ Works /\ closer' = "forcing"
        /\ runs' = Unknown(runs, U) /\ conversations' = Blocked(U)
     \/ /\ U # {} /\ Raises /\ closer' = "forcingFatal"
        /\ \E q \in U :
             runs' = Unknown(runs, U \ {q}) /\ conversations' = Blocked(U \ {q})
  /\ UNCHANGED <<task, pending, admissionStopped, closed, fatal, lost, restarting, proof>>

\* runtime.shutdown answers, and the active runs get a second grace; if they outlive it
\* or a write raised, the coordinator is latched.
ShutdownForced ==
  /\ closer \in {"forcing", "forcingFatal"}
  /\ ~ restarting
  /\ closer' = "idle"
  /\ \/ UNCHANGED <<closed, fatal>>
     \/ closed' = TRUE /\ fatal' = TRUE /\ closer = "forcingFatal"
     \/ closed' = TRUE /\ fatal' = TRUE /\ Active # {}
     \/ closed' = TRUE /\ UNCHANGED fatal /\ closer = "forcing" /\ Active = {}
  /\ UNCHANGED <<storeVars, task, pending, admissionStopped, runtimeUnavailable,
                 runtimeVars, proof, bounds>>

------------------------------------------------------------------------------

\* recoverStartup: the runs a dead process left running, and those it left queued.
Recovered == RowsIn("running")
Requeued  == {r \in RowsIn("queued") : conversations'[runs[r].conversation].recovery = "active"}

OldestFirst(S) ==
  {queue \in [1 .. Cardinality(S) -> S] :
     /\ \A i, j \in DOMAIN queue : i < j => queue[i] < queue[j]
     /\ \A r \in S : \E i \in DOMAIN queue : queue[i] = r}

\* The process dies at any step; another one recovers the store and pumps what is
\* queued, oldest first.
Reboot ==
  /\ reboots < MaxReboots
  /\ reboots' = reboots + 1
  /\ admissionStopped' = FALSE /\ closed' = FALSE
  /\ runtimeUnavailable' = FALSE /\ fatal' = FALSE
  /\ transition' = "idle" /\ lost' = FALSE /\ restarting' = FALSE
  /\ closer' = "idle"
  /\ conversations' = Blocked(Recovered)
  /\ UNCHANGED proof
  /\ \E queue \in OldestFirst(Requeued) :
       Pump(queue, [r \in 1 .. MaxRuns |-> NoTask], Unknown(runs, Recovered))

Init ==
  /\ StoreInit
  /\ task = [r \in 1 .. MaxRuns |-> NoTask]
  /\ pending = << >>
  /\ admissionStopped = FALSE /\ closed = FALSE /\ runtimeUnavailable = FALSE /\ fatal = FALSE
  /\ transition = "idle" /\ lost = FALSE /\ restarting = FALSE
  /\ closer = "idle"
  /\ proof = [r \in 1 .. MaxRuns |-> "none"]
  /\ faults = 0 /\ reboots = 0

Agent(r) ==
  \/ Notification(r)
  \/ \E called \in BOOLEAN, kind \in ToolOutcome \cup {"none"} :
       RunFails(r, called, kind) \/ RunReturns(r, called, kind) \/ RunUncertain(r, called, kind)

Settle(r) == Snapshot(r) \/ Succeeds(r) \/ FinalSnapshot(r) \/ FinalCleanup(r) \/ Leave(r)

Next ==
  \/ \E c \in Conversation : Create(c) \/ Acknowledge(c) \/ Admit(c)
  \/ \E r \in 1 .. MaxRuns : Agent(r) \/ Settle(r)
  \/ RestartCall \/ RestartDone \/ RestartFails
  \/ ShutdownCall \/ CloseCall \/ ShutdownIdle \/ ShutdownClosed \/ GraceExpires \/ ShutdownForced
  \/ Reboot

\* File system, timers and the runtime's restart and shutdown answer; the agent need
\* not.  A promise that is already rejected is seen.
Fairness ==
  /\ \A r \in 1 .. MaxRuns :
       /\ WF_vars(Settle(r))
       /\ WF_vars(task[r].pc # "prompt" /\ (RunFails(r, FALSE, "none") \/ RunUncertain(r, FALSE, "none")))
  /\ WF_vars(RestartDone \/ RestartFails)
  /\ WF_vars(ShutdownIdle \/ ShutdownClosed \/ GraceExpires \/ ShutdownForced)

Spec     == Init /\ [][Next]_vars
FairSpec == Spec /\ Fairness

------------------------------------------------------------------------------
(***************************************************************************)
(* Properties                                                              *)
(***************************************************************************)

Pc == {"none", "prompt", "refused", "uncertain", "snapshot", "cleanup", "finalSnapshot",
       "finalCleanup", "leaving"}

\* Every variable has its type, and never more than Concurrency executions are active.
TypeOK ==
  /\ StoreTypeOK
  /\ task \in [1 .. MaxRuns -> [pc : Pc, latch : {"none", "callback", "raw"},
                                rejected : BOOLEAN]]
  /\ pending \in Seq(Rows)
  /\ {admissionStopped, closed, runtimeUnavailable, fatal, lost, restarting} \subseteq BOOLEAN
  /\ transition \in {"idle", "restarting", "shut"}
  /\ closer \in {"idle", "grace", "closing", "forcing", "forcingFatal"}
  /\ proof \in [1 .. MaxRuns -> {"none", "exact", "foreign", "gone"}]
  /\ Cardinality(Active) <= Concurrency
  /\ faults \in 0 .. MaxFaults /\ reboots \in 0 .. MaxReboots

\* The agent never works on two prompts of one conversation at a time: not even after
\* one was settled as unknown and acknowledged while the runtime still had it.
ConversationExclusive ==
  \A r, s \in Rows :
    At(r, "prompt") /\ At(s, "prompt") /\ r # s => runs[r].conversation # runs[s].conversation

\* The ag-ui channel is a well-formed AG-UI run that agrees with the row: it starts once
\* the run does, ends with exactly one terminal event when the run ends, and nothing
\* follows, however late notifications arrive.
TranscriptTellsRun ==
  \A r \in Rows :
    LET run  == runs[r]
        last == run.agui[Len(run.agui)]
    IN IF run.status = "queued"
       THEN run.agui = << >>
       ELSE /\ run.agui # << >> /\ run.agui[1] = "RUN_STARTED"
            /\ \A i \in 2 .. Len(run.agui) - 1 : run.agui[i] = "projected"
            /\ (run.status = "succeeded") = (last = "RUN_FINISHED")
            /\ (run.status \in {"failed", "execution_unknown"}) = (last = "RUN_ERROR")

\* A proof that can be verified is deleted only when its bytes are in the database, at
\* most one artifact is stored, and a run that succeeded has one.
ProofSurvives ==
  \A r \in Rows :
    /\ proof[r] = "gone" \/ runs[r].status = "succeeded" => runs[r].artifacts = 1
    /\ runs[r].artifacts <= 1

\* A row says "running" only while its execution is active, unless the coordinator has
\* latched a fatal error: no run is left without anybody to settle it.
RunningRowHasExecution ==
  \A r \in Rows : Running(r) /\ ~ fatal => task[r].pc # "none"

\* A session whose outcome is unknown never gets another prompt: later runs of its
\* conversation use a later session, and until one exists the conversation is blocked.
UnknownSessionRetired ==
  \A r \in RowsIn("execution_unknown") :
    LET c == runs[r].conversation IN
    /\ conversations[c].recovery = "blocked" \/ conversations[c].generation > runs[r].generation
    /\ \A s \in Rows : s > r /\ runs[s].conversation = c => runs[s].generation > runs[r].generation

\* No admitted run is forgotten: a queued row waits in the queue, unless its start
\* raised, and the queue waits for a slot, or for a restart, or is closed.
QueueMoves ==
  /\ faults = 0 => \A r \in RowsIn("queued") : \E i \in DOMAIN pending : pending[i] = r
  /\ pending # << >> =>
       Cardinality(Active) = Concurrency \/ runtimeUnavailable \/ admissionStopped \/ fatal

\* Every row that has not ended has somebody who will settle it, its execution or the queue;
\* and every variable has its type.
NoRunIsForgotten == TypeOK /\ RunningRowHasExecution /\ QueueMoves

\* Once the runtime has answered, the run is settled, whatever fails on the way.
ExecutionsSettle ==
  \A r \in 1 .. MaxRuns :
    Running(r) /\ task[r].pc # "prompt" ~> ~ Running(r) \/ fatal

\* Shutdown ends although the agent never answers, and whenever it is asked for.
ShutdownIsBounded == closer # "idle" ~> closer = "idle"
===============================================================================
