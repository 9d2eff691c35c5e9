---------------------------- MODULE RunCoordinator ----------------------------
(***************************************************************************)
(* One process of the recoverable agent service over its durable store:    *)
(* RunCoordinator of coordinator.py, with the store of RunStore and the    *)
(* runtime adapter of AgentRuntime.                                        *)
(*                                                                         *)
(* The coordinator is asyncio code: between two awaits it is atomic.  The  *)
(* awaits are the interleaving points: each asyncio.to_thread(store...)    *)
(* is one step that commits the transaction and resumes its coroutine, and *)
(* a cancelled waiter leaves its transaction behind in the thread.  The    *)
(* process may die at any step and be started again over the same rows.    *)
(***************************************************************************)
EXTENDS RunStore

CONSTANTS
  MaxRestarts,   \* bound on process deaths
  MaxFaults,     \* bound on store calls that raise in the worker (disk, lock timeout)
  MaxCancels     \* bound on API calls whose waiter is cancelled mid-transaction

ASSUME CoordinatorConstants == {MaxRestarts, MaxFaults, MaxCancels} \subseteq Nat

VARIABLES
  mode, call,                     \* the adapter (AgentRuntime), called by the worker
  lifecycle,       \* _lifecycle_state
  accepting, stopping, closeRequested, wake,
  starter,         \* how far start got, under the lifecycle lock
  closer,          \* how far the shutdown task got
  worker,          \* [pc, run, code] of _worker_loop
  api,             \* the API call inside the gate: its transaction is running
  orphans,         \* transactions whose waiter was cancelled, still in a thread
  delivered,       \* history: how often Session.run was invoked for each run
  restarts, faults, cancels

runtimeVars   == <<mode, call>>
gateVars      == <<api, orphans, cancels>>
lifecycleVars == <<lifecycle, accepting, stopping, closeRequested, starter, closer>>
vars == <<storeVars, runtimeVars, lifecycleVars, gateVars, wake, worker, delivered,
          restarts, faults>>

Runtime == INSTANCE AgentRuntime WITH Caller <- {"worker"}

NoRun  == 0
NoCall == [op |-> "none"]
Calls  == [op : {"submit"}, conversation : Conversation, key : Key, request : Request]
          \cup [op : {"acknowledge"}, conversation : Conversation]

At(pc) == worker.pc = pc

\* The worker moves on with the run it holds.
Goto(pc) == worker' = [worker EXCEPT !.pc = pc]
Idle(pc) == worker' = [pc |-> pc, run |-> NoRun, code |-> "none"]
FailWith(code) == worker' = [worker EXCEPT !.pc = "failing", !.code = code]

\* _gate is held across an await only by an API call and by the claim.
GateFree == api = NoCall /\ ~ At("claiming")

\* _lifecycle_lock: held by start, or by the shutdown task once past it.
LifecycleFree == starter = "idle" /\ closer \in {"idle", "lock"}

Accepts == accepting /\ ~ closeRequested

------------------------------------------------------------------------------
(***************************************************************************)
(* start                                                                   *)
(***************************************************************************)

StartCall ==
  /\ LifecycleFree
  /\ lifecycle = "new"
  /\ ~ closeRequested
  /\ lifecycle' = "starting"
  /\ starter' = "migrating"
  /\ UNCHANGED <<storeVars, runtimeVars, gateVars, accepting, stopping, closeRequested,
                 closer, wake, worker, delivered, restarts, faults>>

\* _reject_requested_close after an await: start raises and is "new" again.  A
\* recovery that is already in its thread commits first.
StartRejected ==
  /\ starter \in {"migrating", "listing", "gate"}
  /\ closeRequested
  /\ lifecycle' = "new"
  /\ starter' = "idle"
  /\ UNCHANGED <<storeVars, runtimeVars, gateVars, accepting, stopping, closeRequested,
                 closer, wake, worker, delivered, restarts, faults>>

\* A store call of start raises.
StartFails ==
  /\ starter \in {"migrating", "listing", "recovering"}
  /\ faults < MaxFaults
  /\ faults' = faults + 1
  /\ lifecycle' = "new"
  /\ starter' = "idle"
  /\ UNCHANGED <<storeVars, runtimeVars, gateVars, accepting, stopping, closeRequested,
                 closer, wake, worker, delivered, restarts>>

\* migrate, then list_running_runs: neither changes a row.
StartReads ==
  /\ starter \in {"migrating", "listing"}
  /\ ~ closeRequested
  /\ starter' = IF starter = "migrating" THEN "listing" ELSE "recovering"
  /\ UNCHANGED <<storeVars, runtimeVars, gateVars, lifecycle, accepting, stopping,
                 closeRequested, closer, wake, worker, delivered, restarts, faults>>

\* The transaction commits even if close was requested meanwhile.
StartRecovers ==
  /\ starter = "recovering"
  /\ RecoverRunningRuns
  /\ starter' = "gate"
  /\ UNCHANGED <<runtimeVars, gateVars, lifecycle, accepting, stopping, closeRequested,
                 closer, wake, worker, delivered, restarts, faults>>

StartOpens ==
  /\ starter = "gate"
  /\ GateFree
  /\ ~ closeRequested
  /\ lifecycle' = "started"
  /\ starter' = "idle"
  /\ stopping' = FALSE
  /\ accepting' = TRUE
  /\ wake' = TRUE
  /\ Idle("claim")
  /\ UNCHANGED <<storeVars, runtimeVars, gateVars, closeRequested, closer, delivered,
                 restarts, faults>>

------------------------------------------------------------------------------
(***************************************************************************)
(* submit_run and acknowledge_recovery, and the conversations they need    *)
(***************************************************************************)

\* POST /conversations goes to the store directly, while the application serves.
CreatesConversation(c) ==
  /\ lifecycle = "started"
  /\ CreateConversation(c)
  /\ UNCHANGED <<runtimeVars, gateVars, lifecycleVars, wake, worker, delivered,
                 restarts, faults>>

\* async with _gate, _require_accepting, asyncio.to_thread.
ApiEnter(request) ==
  /\ GateFree
  /\ Accepts
  /\ api' = request
  /\ UNCHANGED <<storeVars, runtimeVars, lifecycleVars, wake, worker, orphans, cancels,
                 delivered, restarts, faults>>

\* The transaction of an API call: TRUE for created iff it inserted a run.
Submits(request) ==
  SubmitRun(request.conversation, request.key, request.request)

SubmitReads(request) ==
  /\ ~ CanAdmit(request.conversation, request.key) \/ Len(runs) = MaxRuns
  /\ UNCHANGED storeVars

Acknowledges(request) ==
  IF conversations[request.conversation].state = "attention_required"
  THEN AcknowledgeRecovery(request.conversation)
  ELSE UNCHANGED storeVars

\* Mutant: the worker is not woken for a created run.
SubmitCommits_NoWake ==
  /\ api.op = "submit"
  /\ Submits(api) \/ SubmitReads(api)
  /\ api' = NoCall
  /\ UNCHANGED <<runtimeVars, lifecycleVars, wake, worker, orphans, cancels, delivered,
                 restarts, faults>>

\* Only a created run wakes the worker; a replay or a conflict does not.
SubmitCommits ==
  /\ api.op = "submit"
  /\ \/ Submits(api) /\ wake' = TRUE
     \/ SubmitReads(api) /\ UNCHANGED wake
  /\ api' = NoCall
  /\ UNCHANGED <<runtimeVars, lifecycleVars, worker, orphans, cancels, delivered,
                 restarts, faults>>

AcknowledgeCommits ==
  /\ api.op = "acknowledge"
  /\ Acknowledges(api)
  /\ wake' = TRUE
  /\ api' = NoCall
  /\ UNCHANGED <<runtimeVars, lifecycleVars, worker, orphans, cancels, delivered,
                 restarts, faults>>

\* The waiter is cancelled: the gate opens, the thread keeps its transaction.
ApiCancelled ==
  /\ api # NoCall
  /\ cancels < MaxCancels
  /\ cancels' = cancels + 1
  /\ orphans' = orphans \cup {api}
  /\ api' = NoCall
  /\ UNCHANGED <<storeVars, runtimeVars, lifecycleVars, wake, worker, delivered,
                 restarts, faults>>

\* A transaction left behind commits, and nobody publishes or wakes for it.
OrphanCommits(request) ==
  /\ orphans' = orphans \ {request}
  /\ \/ request.op = "submit" /\ (Submits(request) \/ SubmitReads(request))
     \/ request.op = "acknowledge" /\ Acknowledges(request)
  /\ UNCHANGED <<runtimeVars, lifecycleVars, wake, worker, api, cancels, delivered,
                 restarts, faults>>

------------------------------------------------------------------------------
(***************************************************************************)
(* The worker                                                              *)
(***************************************************************************)

\* Mutant: _claim_next does not look at _stopping.
WorkerEnters_IgnoresStop ==
  /\ At("claim")
  /\ GateFree
  /\ Goto("claiming")
  /\ UNCHANGED <<storeVars, runtimeVars, lifecycleVars, gateVars, wake, delivered,
                 restarts, faults>>

\* _claim_next: take the gate, look at _stopping.
WorkerEnters ==
  /\ At("claim")
  /\ GateFree
  /\ IF stopping THEN Idle("stopped") ELSE Goto("claiming")
  /\ UNCHANGED <<storeVars, runtimeVars, lifecycleVars, gateVars, wake, delivered,
                 restarts, faults>>

WorkerClaims(r) ==
  /\ At("claiming")
  /\ ClaimOldestRun(r)
  /\ worker' = [pc |-> "preparing", run |-> r, code |-> "none"]
  /\ UNCHANGED <<runtimeVars, lifecycleVars, gateVars, wake, delivered, restarts, faults>>

\* Nothing to claim: clear the event and wait, with no await between the two.
WorkerFindsNothing ==
  /\ At("claiming")
  /\ ~ \E r \in Runs : Claimable(r)
  /\ Goto("waiting")
  /\ wake' = FALSE
  /\ UNCHANGED <<storeVars, runtimeVars, lifecycleVars, gateVars, delivered,
                 restarts, faults>>

WorkerWakes ==
  /\ At("waiting")
  /\ wake
  /\ Goto("claim")
  /\ UNCHANGED <<storeVars, runtimeVars, lifecycleVars, gateVars, wake, delivered,
                 restarts, faults>>

\* Mutant: the wait has no timeout.
WorkerPolls_Never == FALSE /\ UNCHANGED vars

\* wait_for gives up after the poll interval.
WorkerPolls ==
  /\ At("waiting")
  /\ ~ wake
  /\ Goto("claim")
  /\ UNCHANGED <<storeVars, runtimeVars, lifecycleVars, gateVars, wake, delivered,
                 restarts, faults>>

\* list_artifacts and the retained directory; then adapter.run.
WorkerPrepares ==
  /\ At("preparing")
  /\ \/ mode = "usable" /\ Runtime!Enter("worker") /\ Goto("running")
     \/ mode # "usable" /\ Runtime!Refuse("worker") /\ FailWith("runtime_unavailable")
  /\ UNCHANGED <<storeVars, lifecycleVars, gateVars, wake, delivered, restarts, faults>>

WorkerHasNoDirectory ==
  /\ At("preparing")
  /\ FailWith("runtime_unavailable")
  /\ UNCHANGED <<storeVars, runtimeVars, lifecycleVars, gateVars, wake, delivered,
                 restarts, faults>>

SessionInvoked ==
  /\ At("running")
  /\ Runtime!Invoke("worker")
  /\ delivered' = [delivered EXCEPT ![worker.run] = @ + 1]
  /\ UNCHANGED <<storeVars, lifecycleVars, gateVars, wake, worker, restarts, faults>>

\* on_notification blocks the SDK thread until emit has appended the event.
SessionEmits ==
  /\ At("running")
  /\ call["worker"] = "session"
  /\ AppendEvent(worker.run)
  /\ UNCHANGED <<runtimeVars, lifecycleVars, gateVars, wake, worker, delivered,
                 restarts, faults>>

SessionReturns ==
  /\ At("running")
  /\ Runtime!Return("worker")
  /\ Goto("snapshot") \/ FailWith("agent_outcome")
  /\ UNCHANGED <<storeVars, lifecycleVars, gateVars, wake, delivered, restarts, faults>>

RuntimeUnavailable ==
  /\ At("running")
  /\ Runtime!FailBefore("worker")
  /\ FailWith("runtime_unavailable")
  /\ UNCHANGED <<storeVars, lifecycleVars, gateVars, wake, delivered, restarts, faults>>

\* Mutant: an exception of Session.run is taken for a failed start.
ExecutionUncertain_Refused ==
  /\ At("running")
  /\ Runtime!FailAfter("worker")
  /\ FailWith("runtime_unavailable")
  /\ UNCHANGED <<storeVars, lifecycleVars, gateVars, wake, delivered, restarts, faults>>

\* Session.run raised, perhaps because emit did.
ExecutionUncertain ==
  /\ At("running")
  /\ Runtime!FailAfter("worker")
  /\ FailWith("execution_uncertain")
  /\ UNCHANGED <<storeVars, lifecycleVars, gateVars, wake, delivered, restarts, faults>>

SnapshotFails ==
  /\ At("snapshot")
  /\ FailWith("artifact_snapshot_failed")
  /\ UNCHANGED <<storeVars, runtimeVars, lifecycleVars, gateVars, wake, delivered,
                 restarts, faults>>

\* The snapshot is read, then stored with the success of its run.
WorkerCompletes ==
  /\ At("snapshot")
  /\ \E outcome \in Outcomes(worker.run) :
       CompleteRunSuccess(worker.run, outcome)
  /\ Idle("claim")
  /\ UNCHANGED <<runtimeVars, lifecycleVars, gateVars, wake, delivered, restarts, faults>>

WorkerFails ==
  /\ At("failing")
  /\ FailRun(worker.run, worker.code)
  /\ Idle("claim")
  /\ UNCHANGED <<runtimeVars, lifecycleVars, gateVars, wake, delivered, restarts, faults>>

\* A store call raises in the worker task, which ends; nobody restarts it.
WorkerDies ==
  /\ worker.pc \in {"claiming", "preparing", "snapshot", "failing"}
  /\ faults < MaxFaults
  /\ faults' = faults + 1
  /\ Goto("died")
  /\ UNCHANGED <<storeVars, runtimeVars, lifecycleVars, gateVars, wake, delivered, restarts>>

------------------------------------------------------------------------------
(***************************************************************************)
(* close and its shutdown task                                             *)
(***************************************************************************)

CloseCall ==
  /\ closer = "idle"
  /\ lifecycle # "closed"
  /\ closeRequested' = TRUE
  /\ closer' = "lock"
  /\ UNCHANGED <<storeVars, runtimeVars, gateVars, lifecycle, accepting, stopping, starter,
                 wake, worker, delivered, restarts, faults>>

\* The shutdown task gets the lifecycle lock, and keeps it to its end.
CloserLocks ==
  /\ closer = "lock"
  /\ starter = "idle"
  /\ closer' = "gate"
  /\ UNCHANGED <<storeVars, runtimeVars, gateVars, lifecycle, accepting, stopping,
                 closeRequested, starter, wake, worker, delivered, restarts, faults>>

\* Under that lock it takes the gate: stop admission and wake the worker.
CloserStops ==
  /\ closer = "gate"
  /\ GateFree
  /\ accepting' = FALSE
  /\ stopping' = TRUE
  /\ wake' = TRUE
  /\ lifecycle' = "stopping"
  /\ closer' = "worker"
  /\ UNCHANGED <<storeVars, runtimeVars, gateVars, closeRequested, starter, worker,
                 delivered, restarts, faults>>

WorkerEnded == worker.pc \in {"none", "stopped", "died"}

\* Mutant: the shutdown task goes on to the adapter without awaiting the worker.
CloserJoins_NotAwaited ==
  /\ closer = "worker"
  /\ closer' = "adapter"
  /\ UNCHANGED <<storeVars, runtimeVars, gateVars, lifecycle, accepting, stopping,
                 closeRequested, starter, wake, worker, delivered, restarts, faults>>

\* await worker; its error is raised only after the adapter's cleanup.
CloserJoins ==
  /\ closer = "worker"
  /\ WorkerEnded
  /\ Idle("none")
  /\ closer' = "adapter"
  /\ UNCHANGED <<storeVars, runtimeVars, gateVars, lifecycle, accepting, stopping,
                 closeRequested, starter, wake, delivered, restarts, faults>>

\* adapter.close: only its success closes the coordinator, so close can be retried.
CloserClosesAdapter ==
  /\ closer = "adapter"
  /\ \/ Runtime!Close /\ lifecycle' = "closed"
     \/ Runtime!CloseFails /\ UNCHANGED lifecycle
  /\ closer' = "idle"
  /\ UNCHANGED <<storeVars, gateVars, accepting, stopping, closeRequested, starter, wake,
                 worker, delivered, restarts, faults>>

------------------------------------------------------------------------------
\* The process ends, cleanly or not, and another one opens the database.
Restart ==
  /\ restarts < MaxRestarts
  /\ restarts' = restarts + 1
  /\ lifecycle' = "new"
  /\ accepting' = FALSE /\ stopping' = FALSE /\ closeRequested' = FALSE /\ wake' = FALSE
  /\ starter' = "idle" /\ closer' = "idle"
  /\ Idle("none")
  /\ mode' = "usable"
  /\ call' = [x \in {"worker"} |-> "idle"]
  /\ api' = NoCall /\ orphans' = {}
  /\ UNCHANGED <<storeVars, delivered, cancels, faults>>

ServiceInit ==
  /\ Init
  /\ Runtime!Init
  /\ lifecycle = "new"
  /\ accepting = FALSE /\ stopping = FALSE /\ closeRequested = FALSE /\ wake = FALSE
  /\ starter = "idle" /\ closer = "idle"
  /\ worker = [pc |-> "none", run |-> NoRun, code |-> "none"]
  /\ api = NoCall /\ orphans = {}
  /\ delivered = [r \in 1 .. MaxRuns |-> 0]
  /\ restarts = 0 /\ faults = 0 /\ cancels = 0

StarterNext ==
  \/ StartCall \/ StartRejected \/ StartFails
  \/ StartReads \/ StartRecovers \/ StartOpens

ApiNext ==
  \/ \E c \in Conversation : CreatesConversation(c)
  \/ \E request \in Calls : ApiEnter(request)
  \/ SubmitCommits \/ AcknowledgeCommits \/ ApiCancelled
  \/ \E request \in orphans : OrphanCommits(request)

SessionNext ==
  \/ SessionInvoked \/ SessionEmits \/ SessionReturns
  \/ RuntimeUnavailable \/ ExecutionUncertain

WorkerNext ==
  \/ WorkerEnters \/ WorkerFindsNothing \/ WorkerWakes \/ WorkerPolls
  \/ \E r \in Runs : WorkerClaims(r)
  \/ WorkerPrepares \/ WorkerHasNoDirectory
  \/ SnapshotFails \/ WorkerCompletes \/ WorkerFails \/ WorkerDies

CloserNext == CloseCall \/ CloserLocks \/ CloserStops \/ CloserJoins \/ CloserClosesAdapter

ServiceNext == StarterNext \/ ApiNext \/ WorkerNext \/ SessionNext \/ CloserNext \/ Restart

\* asyncio.Lock is first come, first served, so whoever asks for a lock gets it
\* although others keep asking: strong fairness.  Threads run, timers fire and the
\* lifespan starts the service: weak fairness.  The agent is assumed to answer,
\* one way or the other; faults, cancellations, API calls, restarts and close are
\* never assumed to happen.
Fairness ==
  /\ WF_vars(StartCall \/ StartRejected \/ StartReads \/ StartRecovers \/ StartOpens)
  /\ WF_vars(SubmitCommits \/ AcknowledgeCommits)
  /\ WF_vars(\E request \in orphans : OrphanCommits(request))
  /\ SF_vars(WorkerEnters)
  /\ WF_vars(\/ WorkerFindsNothing \/ WorkerWakes \/ WorkerPolls \/ WorkerPrepares
             \/ \E r \in Runs : WorkerClaims(r)
             \/ WorkerCompletes \/ WorkerFails)
  /\ WF_vars(SessionInvoked \/ RuntimeUnavailable)
  /\ WF_vars(SessionReturns \/ ExecutionUncertain)
  /\ SF_vars(CloserLocks)
  /\ SF_vars(CloserStops)
  /\ WF_vars(CloserJoins \/ CloserClosesAdapter)

ServiceSpec == ServiceInit /\ [][ServiceNext]_vars
FairSpec    == ServiceSpec /\ Fairness

------------------------------------------------------------------------------
(***************************************************************************)
(* Properties                                                              *)
(***************************************************************************)

WorkerPc == {"none", "claim", "claiming", "waiting", "preparing", "running", "snapshot",
             "failing", "stopped", "died"}

\* Every variable has its type, and the worker holds a run exactly from its claim on.
ServiceTypeOK ==
  /\ TypeOK
  /\ Runtime!TypeOK
  /\ lifecycle \in {"new", "starting", "started", "stopping", "closed"}
  /\ {accepting, stopping, closeRequested, wake} \subseteq BOOLEAN
  /\ starter \in {"idle", "migrating", "listing", "recovering", "gate"}
  /\ closer \in {"idle", "lock", "gate", "worker", "adapter"}
  /\ worker \in [pc : WorkerPc, run : 0 .. Len(runs), code : ErrorCode \cup {"none"}]
  /\ worker.pc \in {"preparing", "running", "snapshot", "failing"} => worker.run # NoRun
  /\ api \in Calls \cup {NoCall}
  /\ orphans \subseteq Calls
  /\ delivered \in [1 .. MaxRuns -> Nat]
  /\ restarts \in 0 .. MaxRestarts /\ faults \in 0 .. MaxFaults /\ cancels \in 0 .. MaxCancels

\* The verdict a client reads never lies about the side effects of its run: a
\* refused run was never handed to the agent, an answered one exactly once, and no
\* crash, restart, retry or shutdown hands a run over twice.
VerdictIsTruthful ==
  \A r \in Runs :
    LET run == runs[r] IN
    /\ run.state = "queued" \/ run.error = "runtime_unavailable" => delivered[r] = 0
    /\ run.state = "succeeded" \/ run.error \in {"agent_outcome", "artifact_snapshot_failed"}
         => delivered[r] = 1
    /\ delivered[r] <= 1

\* While the service is started no row is a zombie: the only row that says "running"
\* is the one the worker holds, or held when a store error killed it.
RunningRowHasWorker ==
  lifecycle = "started" =>
    \A r \in Runs : runs[r].state = "running" =>
      worker.run = r /\ worker.pc \in {"preparing", "running", "snapshot", "failing", "died"}

\* The adapter is closed only under a worker that is gone, so no run is ever
\* refused just because the service shuts down.
ClosingSparesTheWorker ==
  closer = "adapter" \/ mode = "closed" => worker.pc = "none" /\ ~ Accepts

\* No wake-up is lost between claim_oldest_run and _wake.clear(): unless a waiter was
\* cancelled, a worker asleep with the event clear has nothing to do.
SleepsOnlyWhenIdle ==
  At("waiting") /\ ~ wake /\ cancels = 0 => ~ \E r \in Runs : Claimable(r)

\* The worker and the rows agree, whatever it awaits when something fails, is cancelled or
\* closes; and every variable has its type.
WorkerTracksRows == ServiceTypeOK /\ RunningRowHasWorker /\ SleepsOnlyWhenIdle

\* Every queued run is eventually settled, even one whose wake-up was lost to a
\* cancelled waiter, unless the service is closing or its worker died.
QueuedRunsSettle ==
  \A r \in 1 .. MaxRuns :
    r \in Runs /\ runs[r].state = "queued"
      ~> closeRequested \/ At("died") \/ (r \in Runs /\ ~ Nonterminal(r))

\* Shutdown is never stuck behind queued work, a sleeping worker, a start in progress
\* or an API call: once requested, its task ends.
ShutdownEnds == closer # "idle" ~> closer = "idle"

\* RunPromise, as this service keeps it.
Phase(r) ==
  LET run == runs[r] IN
  IF r \notin Runs THEN "absent"
  ELSE CASE run.state = "queued" /\ delivered[r] = 0  -> "accepted"
         [] run.state = "running" /\ delivered[r] = 0 -> "begun"
         [] run.state = "running" /\ delivered[r] = 1 -> "delivered"
         [] run.state = "succeeded" /\ delivered[r] = 1 -> "succeeded"
         [] run.error = "runtime_unavailable" /\ delivered[r] = 0 -> "refused"
         [] run.error \in {"agent_outcome", "artifact_snapshot_failed"}
            /\ delivered[r] = 1 -> "failed"
         [] run.error = "execution_uncertain" /\ delivered[r] <= 1 -> "unknown"
         [] OTHER -> "broken"

Promise == INSTANCE RunPromise WITH Run   <- 1 .. MaxRuns,
                                    phase <- [r \in 1 .. MaxRuns |-> Phase(r)]

\* Every behaviour of the service keeps the promise of RunPromise: each run moves
\* along its life once, and is handed to the agent at most once on the way.
KeepsPromise == Promise!Spec

------------------------------------------------------------------------------
(***************************************************************************)
(* The inductive invariant: what the tables, the worker, the adapter and   *)
(* the two lifecycle tasks know of each other between any two steps.       *)
(***************************************************************************)

Running(r) == runs[r].state = "running"

\* A row has an error exactly if it failed, and a row that does not exist was never
\* handed over.
RowsTellErrors ==
  /\ \A r \in Runs : runs[r].error # "none" <=> runs[r].state = "failed"
  /\ \A r \in (1 .. MaxRuns) \ Runs : delivered[r] = 0
  /\ Len(runs) <= MaxRuns

\* While the worker holds a run its row says "running", and how far the worker got
\* tells whether the run was handed over.
WorkerHoldsRow ==
  /\ worker.pc \in {"preparing", "running", "snapshot", "failing"} =>
       worker.run \in Runs /\ Running(worker.run)
  /\ At("preparing") => delivered[worker.run] = 0
  /\ At("running") => /\ call["worker"] \in {"before", "session"}
                      /\ call["worker"] = "before"  => delivered[worker.run] = 0
                      /\ call["worker"] = "session" => delivered[worker.run] = 1
  /\ At("snapshot") => delivered[worker.run] = 1
  /\ At("failing") =>
       /\ worker.code \in ErrorCode
       /\ worker.code = "runtime_unavailable" => delivered[worker.run] = 0
       /\ worker.code \in {"agent_outcome", "artifact_snapshot_failed"}
            => delivered[worker.run] = 1

\* There is never more than one running row, and none once startup has recovered.
RunningRowIsUnique ==
  /\ \A q, r \in Runs : Running(q) /\ Running(r) => q = r
  /\ starter = "gate" => \A r \in Runs : ~ Running(r)

\* The lifecycle lock keeps start and shutdown apart; a worker lives only from a
\* successful start to the join of the shutdown task.
LifecycleIsLocked ==
  /\ starter # "idle" <=> lifecycle = "starting"
  /\ closer = "gate" => starter = "idle"
  /\ closer \in {"worker", "adapter"} => lifecycle = "stopping"
  /\ lifecycle \in {"stopping", "closed"} => ~ accepting /\ stopping
  /\ lifecycle \in {"new", "starting", "closed"} => At("none")
  /\ lifecycle = "stopping" /\ closer # "worker" => At("none")
  /\ lifecycle = "closed" => closer = "idle"
  /\ mode = "closed" => lifecycle = "closed"
  /\ At("claiming") => lifecycle = "started"

\* Only a cancelled waiter leaves a transaction behind.
OrphansWereCancelled == cancels = 0 => orphans = {}

ServiceInv ==
  /\ IInv
  /\ ServiceTypeOK
  /\ VerdictIsTruthful
  /\ RowsTellErrors
  /\ WorkerHoldsRow
  /\ RunningRowHasWorker
  /\ RunningRowIsUnique
  /\ LifecycleIsLocked
  /\ OrphansWereCancelled
  /\ SleepsOnlyWhenIdle
===============================================================================
