------------------------- MODULE RunCoordinatorProofs -------------------------
(***************************************************************************)
(* Theorems about RunCoordinator for every set of conversations, keys,     *)
(* requests and names and every bound: the verdict of a run is truthful    *)
(* whatever crashes, faults, cancellations and shutdowns happen, and the   *)
(* service keeps the promise of RunPromise.                                *)
(*                                                                         *)
(* The coordinator calls the transactions of the store, so what one does   *)
(* to the tables is taken from RunStoreProofs as it stands.  The last      *)
(* section states the results for MCRunService, where the store may also   *)
(* be on its own.                                                          *)
(***************************************************************************)
EXTENDS MCRunService, RunStoreProofs

------------------------------------------------------------------------------
(***************************************************************************)
(* The rows                                                                *)
(***************************************************************************)

\* What the proofs below use of the rows.
LEMMA RowsHaveStates ==
  ASSUME IInv
  PROVE  /\ Len(runs) \in Nat
         /\ Runs = 1 .. Len(runs)
         /\ \A r \in Runs :
              /\ runs[r].state \in {"queued", "running", "succeeded", "failed"}
              /\ runs[r].error \in ErrorCode \cup {"none"}
  BY RowsAreRecords DEF Runs, RunState

------------------------------------------------------------------------------
(***************************************************************************)
(* The steps of the coordinator as steps of its parts                      *)
(***************************************************************************)

\* The calls of the routes are of the conversations, keys and requests of the store.
LEMMA CallsAreRequests ==
  ASSUME NEW request \in Calls
  PROVE  /\ request.conversation \in Conversation
         /\ request.op = "submit" => request.key \in Key /\ request.request \in Request
  BY DEF Calls

\* Whatever the coordinator does, the tables move by a transaction or not at all.
LEMMA StepsAreTransactions ==
  ASSUME ServiceInv, [ServiceNext]_vars
  PROVE  [Next]_storeVars
<1> USE DEF ServiceInv
<1>1. ASSUME NEW request \in Calls, request.op = "submit",
             Submits(request) \/ SubmitReads(request)
      PROVE  [Next]_storeVars
  BY <1>1, CallsAreRequests DEF Submits, SubmitReads, Next
<1>2. ASSUME NEW request \in Calls, Acknowledges(request)
      PROVE  [Next]_storeVars
  BY <1>2, CallsAreRequests DEF Acknowledges, Next
<1>3. api \in Calls \cup {NoCall} /\ orphans \subseteq Calls
  BY DEF ServiceTypeOK
<1>4. CASE StarterNext
  BY <1>4 DEF StarterNext, StartCall, StartRejected, StartFails, StartReads, StartRecovers,
     StartOpens, Next
<1>5. CASE ApiNext
  <2>1. ASSUME NEW c \in Conversation, CreatesConversation(c) PROVE [Next]_storeVars
    BY <2>1 DEF CreatesConversation, Next
  <2>2. CASE SubmitCommits
    BY <1>1, <1>3, <2>2 DEF SubmitCommits, NoCall
  <2>3. CASE AcknowledgeCommits
    BY <1>2, <1>3, <2>3 DEF AcknowledgeCommits, NoCall
  <2>4. ASSUME NEW request \in orphans, OrphanCommits(request) PROVE [Next]_storeVars
    BY <1>1, <1>2, <1>3, <2>4 DEF OrphanCommits
  <2>5. CASE ApiCancelled \/ \E request \in Calls : ApiEnter(request)
    BY <2>5 DEF ApiCancelled, ApiEnter
  <2> QED
    BY <1>5, <2>1, <2>2, <2>3, <2>4, <2>5 DEF ApiNext
<1>6. CASE WorkerNext
  <2>1. ASSUME NEW r \in Runs, WorkerClaims(r) PROVE [Next]_storeVars
    BY <2>1 DEF WorkerClaims, Next
  <2>2. CASE WorkerCompletes
    BY <2>2 DEF WorkerCompletes, Next, WorkerHoldsRow, At
  <2>3. CASE WorkerFails
    BY <2>3 DEF WorkerFails, Next, WorkerHoldsRow, At
  <2>4. CASE \/ WorkerEnters \/ WorkerFindsNothing \/ WorkerWakes \/ WorkerPolls
             \/ WorkerPrepares \/ WorkerHasNoDirectory \/ SnapshotFails \/ WorkerDies
    BY <2>4 DEF WorkerEnters, WorkerFindsNothing, WorkerWakes, WorkerPolls,
       WorkerPrepares, WorkerHasNoDirectory, SnapshotFails, WorkerDies
  <2> QED
    BY <1>6, <2>1, <2>2, <2>3, <2>4 DEF WorkerNext
<1>7. CASE SessionNext
  BY <1>7 DEF SessionNext, SessionInvoked, SessionEmits, SessionReturns, RuntimeUnavailable,
     ExecutionUncertain, Next, WorkerHoldsRow, At
<1>8. CASE CloserNext \/ Restart
  BY <1>8
  DEF CloserNext, CloseCall, CloserLocks, CloserStops, CloserJoins, CloserClosesAdapter, Restart
<1>9. CASE UNCHANGED vars
  BY <1>9 DEF vars
<1> QED
  BY <1>4, <1>5, <1>6, <1>7, <1>8, <1>9 DEF ServiceNext

\* Where the worker goes.
LEMMA WorkerMoves ==
  ASSUME ServiceTypeOK
  PROVE  /\ \A pc : Goto(pc) => /\ worker'.pc = pc
                                /\ worker'.run = worker.run
                                /\ worker'.code = worker.code
         /\ \A code : FailWith(code) => /\ worker'.pc = "failing"
                                        /\ worker'.run = worker.run
                                        /\ worker'.code = code
         /\ \A pc : Idle(pc) => /\ worker'.pc = pc
                                /\ worker'.run = 0
                                /\ worker'.code = "none"
<1>1. worker \in [pc : WorkerPc, run : 0 .. Len(runs), code : ErrorCode \cup {"none"}]
  BY DEF ServiceTypeOK
<1>2. ASSUME NEW pc, Goto(pc)
      PROVE  worker'.pc = pc /\ worker'.run = worker.run /\ worker'.code = worker.code
  BY <1>1, <1>2 DEF Goto
<1>3. ASSUME NEW code, FailWith(code)
      PROVE  worker'.pc = "failing" /\ worker'.run = worker.run /\ worker'.code = code
  BY <1>1, <1>3 DEF FailWith
<1>4. ASSUME NEW pc, Idle(pc)
      PROVE  worker'.pc = pc /\ worker'.run = 0 /\ worker'.code = "none"
  BY <1>4 DEF Idle, NoRun
<1> QED
  BY <1>2, <1>3, <1>4

\* Rows never go away.
LEMMA RowsRemain ==
  ASSUME IInv, [Next]_storeVars
  PROVE  /\ Len(runs) \in Nat /\ Len(runs') \in Nat /\ Len(runs') >= Len(runs)
         /\ Runs = 1 .. Len(runs) /\ Runs' = 1 .. Len(runs')
<1>1. EachRowStays
  BY StoreConstants, NextRowsStay
<1>2. IInv'
  BY StoreConstants, NextKeepsInvariant
<1>3. Len(runs') \in Nat
  BY <1>2, LenProperties DEF IInv, TypeOK
<1> QED
  BY <1>1, <1>2, <1>3, RowsHaveStates DEF EachRowStays, Runs

------------------------------------------------------------------------------
(***************************************************************************)
(* The invariant, conjunct by conjunct                                     *)
(***************************************************************************)

\* The lifecycle lock keeps start and shutdown apart.
LEMMA LifecycleStaysLocked ==
  ASSUME ServiceInv, [ServiceNext]_vars
  PROVE  LifecycleIsLocked'
<1> USE DEF ServiceInv, LifecycleIsLocked, LifecycleFree, GateFree, At,
        storeVars, runtimeVars, gateVars, lifecycleVars
<1>3. /\ \A pc : Goto(pc) => worker'.pc = pc
      /\ \A code : FailWith(code) => worker'.pc = "failing"
      /\ \A pc : Idle(pc) => worker'.pc = pc
  BY WorkerMoves
<1>4. lifecycle \in {"new", "starting", "started", "stopping", "closed"}
  BY DEF ServiceTypeOK
<1>1. CASE StarterNext
  BY <1>1, <1>3 DEF StarterNext, StartCall, StartRejected, StartFails, StartReads, StartRecovers,
     StartOpens
<1>2. CASE ApiNext
  BY <1>2 DEF ApiNext, CreatesConversation, ApiEnter, SubmitCommits, AcknowledgeCommits,
     ApiCancelled, OrphanCommits
<1>5. CASE WorkerNext
  BY <1>3, <1>4, <1>5 DEF WorkerNext, WorkerEnters, WorkerFindsNothing, WorkerWakes, WorkerPolls,
     WorkerClaims, WorkerPrepares, WorkerHasNoDirectory, SnapshotFails, WorkerCompletes,
     WorkerFails, WorkerDies, Runtime!Enter, Runtime!Refuse
<1>6. CASE SessionNext
  BY <1>3, <1>6 DEF SessionNext, SessionInvoked, SessionEmits, SessionReturns,
     RuntimeUnavailable, ExecutionUncertain, Runtime!Invoke, Runtime!Return,
     Runtime!FailBefore, Runtime!FailAfter
<1>7. CASE CloserNext
  BY <1>3, <1>4, <1>7 DEF CloserNext, CloseCall, CloserLocks, CloserStops, CloserJoins,
     CloserClosesAdapter, Runtime!Close, Runtime!CloseFails
<1>8. CASE Restart
  BY <1>3, <1>8 DEF Restart
<1>9. CASE UNCHANGED vars
  BY <1>9 DEF vars
<1> QED
  BY <1>1, <1>2, <1>5, <1>6, <1>7, <1>8, <1>9 DEF ServiceNext

\* Only a cancelled waiter leaves a transaction behind.
LEMMA OrphansStayCancelled ==
  ASSUME ServiceInv, [ServiceNext]_vars
  PROVE  OrphansWereCancelled'
<1>1. cancels \in Nat /\ OrphansWereCancelled
  BY StoreConstants, CoordinatorConstants DEF ServiceInv, ServiceTypeOK
<1> QED
  BY <1>1
  DEF OrphansWereCancelled, ServiceNext, vars, storeVars, runtimeVars, gateVars, lifecycleVars,
     StarterNext, StartCall, StartRejected, StartFails, StartReads, StartRecovers, StartOpens,
     ApiNext, CreatesConversation, ApiEnter, SubmitCommits, AcknowledgeCommits,
     ApiCancelled, OrphanCommits,
     WorkerNext, WorkerEnters, WorkerFindsNothing, WorkerWakes, WorkerPolls,
     WorkerClaims, WorkerPrepares, WorkerHasNoDirectory, SnapshotFails, WorkerCompletes,
     WorkerFails, WorkerDies,
     SessionNext, SessionInvoked, SessionEmits, SessionReturns,
     RuntimeUnavailable, ExecutionUncertain,
     CloserNext, CloseCall, CloserLocks, CloserStops, CloserJoins, CloserClosesAdapter, Restart

\* Every variable keeps its type.
LEMMA TypesStayCorrect ==
  ASSUME ServiceInv, [ServiceNext]_vars
  PROVE  ServiceTypeOK'
<1> USE DEF ServiceNext, vars, storeVars, runtimeVars, gateVars, lifecycleVars,
        StarterNext, StartCall, StartRejected, StartFails, StartReads, StartRecovers, StartOpens,
        ApiNext, CreatesConversation, ApiEnter, SubmitCommits, AcknowledgeCommits,
        ApiCancelled, OrphanCommits,
        WorkerNext, WorkerEnters, WorkerFindsNothing, WorkerWakes, WorkerPolls,
        WorkerClaims, WorkerPrepares, WorkerHasNoDirectory, SnapshotFails, WorkerCompletes,
        WorkerFails, WorkerDies,
        SessionNext, SessionInvoked, SessionEmits, SessionReturns,
        RuntimeUnavailable, ExecutionUncertain,
        CloserNext, CloseCall, CloserLocks, CloserStops, CloserJoins, CloserClosesAdapter, Restart
<1>1. /\ IInv /\ [Next]_storeVars
      /\ IInv' /\ TypeOK'
  BY StepsAreTransactions, StoreConstants, NextKeepsInvariant DEF ServiceInv, IInv
<1>2. /\ Len(runs) \in Nat /\ Len(runs') \in Nat /\ Len(runs') >= Len(runs)
      /\ Runs = 1 .. Len(runs) /\ Len(runs) <= MaxRuns
  BY <1>1, RowsRemain DEF ServiceInv, RowsTellErrors
<1>3. /\ lifecycle' \in {"new", "starting", "started", "stopping", "closed"}
      /\ starter' \in {"idle", "migrating", "listing", "recovering", "gate"}
      /\ closer' \in {"idle", "lock", "gate", "worker", "adapter"}
      /\ restarts' \in 0 .. MaxRestarts
      /\ faults' \in 0 .. MaxFaults
      /\ cancels' \in 0 .. MaxCancels
      /\ api' \in Calls \cup {NoCall}
      /\ orphans' \subseteq Calls
  BY SMTT(20), StoreConstants, CoordinatorConstants
  DEF ServiceInv, ServiceTypeOK
<1>4. {accepting, stopping, closeRequested, wake}' \subseteq BOOLEAN
  BY DEF ServiceInv, ServiceTypeOK
<1>5. delivered' \in [1 .. MaxRuns -> Nat]
  BY <1>2
  DEF ServiceInv, ServiceTypeOK, WorkerHoldsRow, At
<1>6. Runtime!TypeOK'
  BY DEF ServiceInv, ServiceTypeOK, Runtime!TypeOK, Runtime!Active, Runtime!Settled,
     Runtime!Enter, Runtime!Refuse, Runtime!Invoke, Runtime!Return,
     Runtime!FailBefore, Runtime!FailAfter, Runtime!Close, Runtime!CloseFails
<1>7. /\ worker' \in [pc : WorkerPc, run : 0 .. Len(runs'), code : ErrorCode \cup {"none"}]
      /\ worker'.pc \in {"preparing", "running", "snapshot", "failing"} => worker'.run # NoRun
  <2> DEFINE good(w) ==
        /\ w \in [pc : WorkerPc, run : 0 .. Len(runs'), code : ErrorCode \cup {"none"}]
        /\ w.pc \in {"preparing", "running", "snapshot", "failing"} => w.run # NoRun
  <2>1. good(worker)
    BY <1>2 DEF ServiceInv, ServiceTypeOK
  <2>2. \A pc \in WorkerPc \ {"preparing"} :
          \/ At("preparing") \/ At("running")
          \/ pc \notin {"running", "snapshot", "failing"}
          => good([worker EXCEPT !.pc = pc])
    BY <2>1 DEF WorkerPc, At
  <2>3. \A code \in ErrorCode :
          At("preparing") \/ At("running") \/ At("snapshot")
          => good([worker EXCEPT !.pc = "failing", !.code = code])
    BY <2>1 DEF WorkerPc, At
  <2>4. \A pc \in {"none", "claim", "stopped"} :
          good([pc |-> pc, run |-> NoRun, code |-> "none"])
    BY <1>2 DEF WorkerPc, NoRun
  <2>5. \A r \in Runs : good([pc |-> "preparing", run |-> r, code |-> "none"])
    BY <1>2 DEF WorkerPc, NoRun
  <2>6. {"runtime_unavailable", "agent_outcome", "artifact_snapshot_failed",
         "execution_uncertain"} \subseteq ErrorCode
    BY DEF ErrorCode
  <2> HIDE DEF good
  <2>7. good(worker')
    BY <2>1, <2>2, <2>3, <2>4, <2>5, <2>6 DEF Goto, Idle, FailWith, WorkerPc
  <2> QED
    BY <2>7 DEF good
<1> QED
  BY <1>1, <1>3, <1>4, <1>5, <1>6, <1>7 DEF ServiceTypeOK

\* A submission added a queued row, and nobody but the submission moved.
RowAdded ==
  /\ Len(runs) < MaxRuns
  /\ Len(runs') = Len(runs) + 1
  /\ \A j \in Runs : runs'[j] = runs[j]
  /\ runs'[Len(runs) + 1].state = "queued"
  /\ runs'[Len(runs) + 1].error = "none"
  /\ UNCHANGED <<runtimeVars, lifecycleVars, worker, delivered>>
  /\ wake' = TRUE \/ orphans # {}
  /\ cancels' = cancels

Recovered ==
  /\ Len(runs') = Len(runs)
  /\ \A r \in Runs :
       IF Running(r)
       THEN runs'[r].state = "failed" /\ runs'[r].error = "execution_uncertain"
       ELSE runs'[r] = runs[r]

\* The steps that move a row the table already has.
MovesRow ==
  \/ StartRecovers \/ \E r \in Runs : WorkerClaims(r)
  \/ SessionEmits \/ WorkerCompletes \/ WorkerFails

\* All that can happen to the rows, and by whom.
LEMMA RowsMove ==
  ASSUME ServiceInv, [ServiceNext]_vars
  PROVE  /\ StartRecovers => Recovered
         /\ \A r \in Runs : WorkerClaims(r) => /\ runs[r].state = "queued"
                                                     /\ Settles(r, "running", "none")
         /\ SessionEmits => Settles(worker.run, "running", "none")
         /\ WorkerCompletes => Settles(worker.run, "succeeded", "none")
         /\ WorkerFails => Settles(worker.run, "failed", worker.code)
         /\ MovesRow \/ RowAdded \/ UNCHANGED runs
<1> USE DEF ServiceInv
<1>1. ASSUME NEW request \in Calls, request.op = "submit",
             Submits(request) \/ SubmitReads(request)
      PROVE  \/ UNCHANGED runs
             \/ /\ Len(runs) < MaxRuns
                /\ Len(runs') = Len(runs) + 1
                /\ \A j \in Runs : runs'[j] = runs[j]
                /\ runs'[Len(runs) + 1].state = "queued"
                /\ runs'[Len(runs) + 1].error = "none"
  BY <1>1, CallsAreRequests, StoreConstants, SubmitAddsRow DEF Submits, SubmitReads, storeVars
<1>2. ASSUME NEW request, Acknowledges(request)
      PROVE  UNCHANGED runs
  BY <1>2 DEF Acknowledges, AcknowledgeRecovery, storeVars
<1>3. api \in Calls \cup {NoCall} /\ orphans \subseteq Calls
  BY DEF ServiceTypeOK
<1>4. StartRecovers => Recovered
  BY RecoverySettles DEF StartRecovers, Recovered, Running
<1>5. ASSUME NEW r \in Runs, WorkerClaims(r)
      PROVE  runs[r].state = "queued" /\ Settles(r, "running", "none")
  BY <1>5, StoreConstants, OneRowSettles DEF WorkerClaims, RowsTellErrors
<1>6. SessionEmits => Settles(worker.run, "running", "none")
  BY StoreConstants, OneRowSettles DEF SessionEmits, RowsTellErrors, WorkerHoldsRow, At, Running
<1>7. WorkerCompletes => Settles(worker.run, "succeeded", "none")
  BY StoreConstants, OneRowSettles DEF WorkerCompletes, RowsTellErrors, WorkerHoldsRow, At, Running
<1>8. WorkerFails => Settles(worker.run, "failed", worker.code)
  BY StoreConstants, OneRowSettles DEF WorkerFails, WorkerHoldsRow, At
<1>9. ApiNext => RowAdded \/ UNCHANGED runs
  <2>1. CASE SubmitCommits
    <3>1. api \in Calls /\ api.op = "submit" /\ (Submits(api) \/ SubmitReads(api))
      BY <1>3, <2>1 DEF SubmitCommits, NoCall
    <3>2. CASE Submits(api) /\ wake' = TRUE
      BY <1>1, <2>1, <3>1, <3>2 DEF SubmitCommits, RowAdded
    <3>3. CASE SubmitReads(api)
      BY <3>3 DEF SubmitReads, storeVars
    <3> QED
      BY <2>1, <3>2, <3>3 DEF SubmitCommits
  <2>2. CASE AcknowledgeCommits
    BY <1>2, <2>2 DEF AcknowledgeCommits
  <2>3. ASSUME NEW request \in orphans, OrphanCommits(request)
        PROVE  UNCHANGED runs \/ RowAdded
    BY <1>1, <1>2, <1>3, <2>3 DEF OrphanCommits, RowAdded
  <2> QED
    BY <2>1, <2>2, <2>3 DEF ApiNext, CreatesConversation, CreateConversation,
       ApiCancelled, ApiEnter, storeVars
<1>10. StarterNext \/ WorkerNext \/ SessionNext \/ CloserNext \/ Restart \/ UNCHANGED vars
         => MovesRow \/ UNCHANGED runs
  BY DEF MovesRow, vars, storeVars,
     StarterNext, StartCall, StartRejected, StartFails, StartReads, StartOpens,
     WorkerNext, WorkerEnters, WorkerFindsNothing, WorkerWakes, WorkerPolls, WorkerPrepares,
     WorkerHasNoDirectory, SnapshotFails, WorkerDies,
     SessionNext, SessionInvoked, SessionReturns, RuntimeUnavailable, ExecutionUncertain,
     CloserNext, CloseCall, CloserLocks, CloserStops, CloserJoins, CloserClosesAdapter, Restart
<1> QED
  BY <1>4, <1>5, <1>6, <1>7, <1>8, <1>9, <1>10 DEF ServiceNext

\* Only Session.run hands a run over, and only the run the worker holds.
LEMMA DeliveriesMove ==
  ASSUME ServiceInv, [ServiceNext]_vars
  PROVE  \/ UNCHANGED delivered
         \/ /\ SessionInvoked
            /\ delivered[worker.run] = 0
            /\ delivered' = [delivered EXCEPT ![worker.run] = 1]
<1>1. SessionInvoked => /\ delivered[worker.run] = 0
                        /\ delivered' = [delivered EXCEPT ![worker.run] = 1]
  <2> SUFFICES ASSUME SessionInvoked
               PROVE  /\ delivered[worker.run] = 0
                      /\ delivered' = [delivered EXCEPT ![worker.run] = 1]
    OBVIOUS
  <2>1. At("running") /\ call["worker"] = "before"
    BY DEF SessionInvoked, Runtime!Invoke
  <2>2. delivered[worker.run] = 0
    BY <2>1 DEF ServiceInv, WorkerHoldsRow
  <2> QED
    BY <2>2 DEF SessionInvoked
<1> QED
  BY <1>1
  DEF ServiceNext, vars, StarterNext, StartCall, StartRejected, StartFails, StartReads,
      StartRecovers,
      StartOpens, ApiNext, CreatesConversation, ApiEnter, SubmitCommits, AcknowledgeCommits,
      ApiCancelled, OrphanCommits,
      WorkerNext, WorkerEnters, WorkerFindsNothing, WorkerWakes, WorkerPolls,
      WorkerClaims, WorkerPrepares, WorkerHasNoDirectory, SnapshotFails, WorkerCompletes,
      WorkerFails, WorkerDies,
      SessionNext, SessionEmits, SessionReturns, RuntimeUnavailable, ExecutionUncertain,
      CloserNext, CloseCall, CloserLocks, CloserStops, CloserJoins, CloserClosesAdapter, Restart

\* What the invariant says of a row and of its deliveries.
Truthful(state, error, times) ==
  /\ state = "queued" \/ error = "runtime_unavailable" => times = 0
  /\ state = "succeeded" \/ error \in {"agent_outcome", "artifact_snapshot_failed"} => times = 1
  /\ times <= 1
  /\ error # "none" <=> state = "failed"

\* What a row says fits what was delivered, at every step that ends one.
LEMMA VerdictsStayTruthful ==
  ASSUME ServiceInv, [ServiceNext]_vars
  PROVE  VerdictIsTruthful' /\ RowsTellErrors'
<1>1. /\ Runs = 1 .. Len(runs) /\ Runs' = 1 .. Len(runs')
      /\ Len(runs) \in Nat /\ Len(runs) <= MaxRuns /\ MaxRuns \in Nat
      /\ delivered \in [1 .. MaxRuns -> Nat]
  BY StoreConstants, CoordinatorConstants, StepsAreTransactions, RowsRemain
  DEF ServiceInv, ServiceTypeOK, RowsTellErrors
<1>2. \A r \in Runs : Truthful(runs[r].state, runs[r].error, delivered[r])
  BY DEF ServiceInv, VerdictIsTruthful, RowsTellErrors, Truthful
<1>3. \A r \in (1 .. MaxRuns) \ Runs : delivered[r] = 0
  BY DEF ServiceInv, RowsTellErrors
<1> SUFFICES /\ \A r \in Runs' : Truthful(runs'[r].state, runs'[r].error, delivered'[r])
             /\ \A r \in (1 .. MaxRuns) \ Runs' : delivered'[r] = 0
             /\ Len(runs') <= MaxRuns
  BY DEF VerdictIsTruthful, RowsTellErrors, Truthful
<1>4. CASE UNCHANGED <<runs, delivered>>
  BY <1>1, <1>2, <1>3, <1>4
<1>5. CASE SessionInvoked /\ delivered' = [delivered EXCEPT ![worker.run] = 1]
  <2>1. /\ worker.run \in Runs
        /\ runs[worker.run].state = "running"
        /\ UNCHANGED runs
    BY <1>5 DEF SessionInvoked, ServiceInv, WorkerHoldsRow, At, Running, storeVars
  <2>2. Truthful("running", runs[worker.run].error, 1)
    BY <1>2, <2>1 DEF Truthful
  <2> QED
    BY <1>1, <1>2, <1>3, <1>5, <2>1, <2>2
<1>6. CASE RowAdded
  <2>1. /\ Len(runs') = Len(runs) + 1 /\ Len(runs') <= MaxRuns /\ delivered' = delivered
        /\ delivered[Len(runs) + 1] = 0
    BY <1>1, <1>3, <1>6 DEF RowAdded
  <2>2. Truthful("queued", "none", 0)
    BY DEF Truthful
  <2> QED
    BY <1>1, <1>2, <1>3, <1>6, <2>1, <2>2 DEF RowAdded
<1>7. CASE Recovered /\ UNCHANGED delivered
  <2>1. \A r \in Runs : Running(r) => Truthful("failed", "execution_uncertain", delivered[r])
    BY <1>1, <1>2 DEF Truthful
  <2> QED
    BY <1>1, <1>2, <1>3, <1>7, <2>1 DEF Recovered
<1>8. ASSUME NEW r \in Runs, NEW state, NEW error,
             Settles(r, state, error), UNCHANGED delivered,
             Truthful(state, error, delivered[r])
      PROVE  /\ \A q \in Runs' :
                  Truthful(runs'[q].state, runs'[q].error, delivered'[q])
             /\ \A q \in (1 .. MaxRuns) \ Runs' : delivered'[q] = 0
             /\ Len(runs') <= MaxRuns
  BY <1>1, <1>2, <1>3, <1>8 DEF Settles
<1>9. ASSUME NEW r \in Runs, WorkerClaims(r), runs[r].state = "queued"
      PROVE  Truthful("running", "none", delivered[r]) /\ UNCHANGED delivered
  BY <1>1, <1>2, <1>9 DEF Truthful, WorkerClaims
<1>10. ASSUME SessionEmits \/ WorkerCompletes \/ WorkerFails
       PROVE  worker.run \in Runs /\ Running(worker.run) /\ UNCHANGED delivered
  BY <1>10 DEF SessionEmits, WorkerCompletes, WorkerFails, ServiceInv, WorkerHoldsRow, At
<1>11. /\ SessionEmits    => Truthful("running", "none", delivered[worker.run])
       /\ WorkerCompletes => Truthful("succeeded", "none", delivered[worker.run])
       /\ WorkerFails     => Truthful("failed", worker.code, delivered[worker.run])
  <2>1. SessionEmits \/ WorkerCompletes \/ WorkerFails => delivered[worker.run] <= 1
    BY <1>2, <1>10 DEF Truthful
  <2>2. WorkerCompletes => delivered[worker.run] = 1
    BY DEF WorkerCompletes, ServiceInv, WorkerHoldsRow
  <2>3. WorkerFails =>
          /\ worker.code \in ErrorCode
          /\ worker.code = "runtime_unavailable" => delivered[worker.run] = 0
          /\ worker.code \in {"agent_outcome", "artifact_snapshot_failed"}
               => delivered[worker.run] = 1
    BY DEF WorkerFails, ServiceInv, WorkerHoldsRow
  <2> QED
    BY <2>1, <2>2, <2>3 DEF Truthful, ErrorCode
<1>12. SessionInvoked => UNCHANGED runs
  BY DEF SessionInvoked, storeVars
<1>13. StartRecovers \/ RowAdded => UNCHANGED delivered
  BY DEF StartRecovers, RowAdded
<1> QED
  BY <1>4, <1>5, <1>6, <1>7, <1>8, <1>9, <1>10, <1>11, <1>12, <1>13, RowsMove, DeliveriesMove
  DEF MovesRow

\* The program counters at which the worker holds a run.
Holding == {"preparing", "running", "snapshot", "failing"}

\* What the worker w and the adapter's call tell of how often the run of w was handed over.
Handed(w, progress, times) ==
  /\ w.pc = "preparing" => times = 0
  /\ w.pc = "running" => \/ progress = "before" /\ times = 0
                         \/ progress = "session" /\ times = 1
  /\ w.pc = "snapshot" => times = 1
  /\ w.pc = "failing" =>
       /\ w.code \in ErrorCode
       /\ w.code = "runtime_unavailable" => times = 0
       /\ w.code \in {"agent_outcome", "artifact_snapshot_failed"} => times = 1

\* The worker changes the run it holds only by claiming one or by finishing it.
LEMMA WorkerKeepsRun ==
  ASSUME ServiceInv, [ServiceNext]_vars
  PROVE  /\ worker'.pc \in Holding =>
              \/ \E r \in Runs : WorkerClaims(r)
              \/ /\ worker.pc \in Holding /\ worker'.run = worker.run
                 /\ ~ WorkerCompletes /\ ~ WorkerFails /\ ~ StartRecovers
         /\ worker.pc \in Holding \cup {"died"} /\ lifecycle' = "started" =>
              \/ worker'.pc \in Holding \cup {"died"} /\ worker'.run = worker.run
              \/ WorkerCompletes \/ WorkerFails
<1> USE DEF Holding, At, vars, storeVars, lifecycleVars
<1>1. /\ \A pc : Goto(pc) => worker'.pc = pc /\ worker'.run = worker.run
      /\ \A code : FailWith(code) => worker'.pc = "failing" /\ worker'.run = worker.run
      /\ \A pc : Idle(pc) => worker'.pc = pc
  BY WorkerMoves DEF ServiceInv
<1>2. LifecycleIsLocked
  BY DEF ServiceInv
<1>3. CASE StarterNext
  BY <1>1, <1>2, <1>3 DEF LifecycleIsLocked, StarterNext, StartCall, StartRejected, StartFails,
     StartReads, StartRecovers, StartOpens, WorkerCompletes, WorkerFails
<1>4. CASE ApiNext \/ UNCHANGED vars
  BY <1>2, <1>4 DEF LifecycleIsLocked, ApiNext, CreatesConversation, ApiEnter, SubmitCommits,
     AcknowledgeCommits, ApiCancelled, OrphanCommits, StartRecovers, WorkerCompletes, WorkerFails,
     Idle
<1>5. CASE WorkerNext
  BY <1>1, <1>2, <1>5 DEF LifecycleIsLocked, WorkerNext, WorkerEnters, WorkerFindsNothing,
     WorkerWakes, WorkerPolls, WorkerPrepares, WorkerHasNoDirectory, SnapshotFails,
     WorkerCompletes, WorkerFails, WorkerDies, StartRecovers, WorkerClaims
<1>6. CASE SessionNext
  BY <1>1, <1>2, <1>6 DEF LifecycleIsLocked, SessionNext, SessionInvoked, SessionEmits,
     SessionReturns, RuntimeUnavailable, ExecutionUncertain, StartRecovers, WorkerCompletes,
     WorkerFails
<1>7. CASE CloserNext \/ Restart
  BY <1>1, <1>2, <1>7
  DEF LifecycleIsLocked, CloserNext, CloseCall, CloserLocks, CloserStops, CloserJoins,
     CloserClosesAdapter, Restart, StartRecovers, WorkerCompletes, WorkerFails
<1> QED
  BY <1>3, <1>4, <1>5, <1>6, <1>7 DEF ServiceNext

\* Where the worker stands keeps telling whether its run was handed over.
LEMMA HandingOverIsTracked ==
  ASSUME ServiceInv, [ServiceNext]_vars, worker.pc \in Holding, worker'.pc \in Holding,
         worker'.run = worker.run
  PROVE  Handed(worker', call'["worker"], delivered'[worker'.run])
<1> DEFINE before == delivered[worker.run]
           after  == delivered'[worker'.run]
<1>1. Handed(worker, call["worker"], before)
  BY DEF Handed, ServiceInv, WorkerHoldsRow, At
<1>2. /\ worker.run \in 1 .. MaxRuns
      /\ delivered \in [1 .. MaxRuns -> Nat]
      /\ call \in [{"worker"} -> {"idle"} \cup Runtime!Active \cup Runtime!Settled]
  <2>1. /\ Len(runs) \in Nat
        /\ Runs = 1 .. Len(runs)
        /\ Len(runs) <= MaxRuns
    BY RowsHaveStates DEF ServiceInv, RowsTellErrors
  <2>2. worker.run \in 1 .. Len(runs)
    BY <2>1 DEF ServiceInv, WorkerHoldsRow, Holding
  <2>3. /\ delivered \in [1 .. MaxRuns -> Nat]
        /\ Runtime!TypeOK
    BY DEF ServiceInv, ServiceTypeOK
  <2> QED
    BY <2>1, <2>2, <2>3, StoreConstants DEF StoreConstants, Runtime!TypeOK
<1>3. /\ SessionInvoked => after = 1
      /\ ~ SessionInvoked => after = before
  <2>1. ~ SessionInvoked => delivered' = delivered
    BY DeliveriesMove
  <2>2. ASSUME SessionInvoked PROVE delivered'[worker.run] = 1
    <3>1. delivered[worker.run] = 0
      BY <2>2 DEF SessionInvoked, Runtime!Invoke, ServiceInv, WorkerHoldsRow, At
    <3>2. delivered' = [delivered EXCEPT ![worker.run] = 1]
      BY <2>2, <3>1 DEF SessionInvoked
    <3> QED
      BY <1>2, <3>2
  <2> QED
    BY <2>1, <2>2
<1>4. /\ \A pc : Goto(pc) => worker'.pc = pc /\ worker'.code = worker.code
      /\ \A code : FailWith(code) => worker'.pc = "failing" /\ worker'.code = code
      /\ \A pc : Idle(pc) => worker'.pc = pc
  BY WorkerMoves DEF ServiceInv
<1>5. {"runtime_unavailable", "agent_outcome", "artifact_snapshot_failed",
       "execution_uncertain"} \subseteq ErrorCode
  BY DEF ErrorCode
<1> SUFFICES Handed(worker', call'["worker"], after)
  OBVIOUS
<1> HIDE DEF before, after
<1> USE DEF Handed, At, Holding, runtimeVars, lifecycleVars, vars
<1>6. CASE UNCHANGED <<call, worker, delivered>>
  BY <1>1, <1>6 DEF before, after
<1>7. CASE StarterNext \/ ApiNext \/ CloserNext \/ Restart \/ UNCHANGED vars
  BY <1>4, <1>6, <1>7
  DEF StarterNext, StartCall, StartRejected, StartFails, StartReads, StartRecovers, StartOpens,
      ApiNext, CreatesConversation, ApiEnter, SubmitCommits, AcknowledgeCommits,
      ApiCancelled, OrphanCommits,
      CloserNext, CloseCall, CloserLocks, CloserStops, CloserJoins, CloserClosesAdapter, Restart,
      Runtime!Close, Runtime!CloseFails
<1>8. CASE WorkerNext
  BY <1>1, <1>2, <1>3, <1>4, <1>5, <1>8
  DEF WorkerNext, WorkerEnters, WorkerFindsNothing, WorkerWakes, WorkerPolls, WorkerPrepares,
      WorkerHasNoDirectory, SnapshotFails, WorkerCompletes, WorkerFails, WorkerDies, WorkerClaims,
      SessionInvoked, Runtime!Enter, Runtime!Refuse
<1>9. CASE SessionNext
  BY <1>1, <1>2, <1>3, <1>4, <1>5, <1>6, <1>9
  DEF SessionNext, SessionInvoked, SessionEmits, SessionReturns, RuntimeUnavailable,
      ExecutionUncertain, Runtime!Invoke, Runtime!Return, Runtime!FailBefore, Runtime!FailAfter
<1> QED
  BY <1>7, <1>8, <1>9 DEF ServiceNext

\* The worker holds the row that runs, at every place of its loop.
LEMMA WorkerStaysOnRow ==
  ASSUME ServiceInv, [ServiceNext]_vars
  PROVE  WorkerHoldsRow'
<1>1. /\ Runs = 1 .. Len(runs) /\ Runs' = 1 .. Len(runs')
      /\ Len(runs) \in Nat /\ Len(runs') \in Nat /\ Len(runs') >= Len(runs)
  BY StepsAreTransactions, RowsRemain DEF ServiceInv
<1>2. ASSUME NEW r \in Runs, WorkerClaims(r)
      PROVE  WorkerHoldsRow'
  <2>1. /\ worker' = [pc |-> "preparing", run |-> r, code |-> "none"]
        /\ delivered' = delivered
        /\ runs[r].state = "queued" /\ runs'[r].state = "running"
    BY <1>2, RowsMove DEF WorkerClaims, Settles
  <2>2. delivered[r] = 0
    BY <2>1 DEF ServiceInv, VerdictIsTruthful
  <2> QED
    BY <1>1, <2>1, <2>2 DEF WorkerHoldsRow, At, Running
<1>3. ASSUME ~ \E r \in Runs : WorkerClaims(r)
      PROVE  WorkerHoldsRow'
  <2> SUFFICES ASSUME worker'.pc \in Holding
               PROVE  /\ worker'.run \in Runs'
                      /\ runs'[worker'.run].state = "running"
                      /\ Handed(worker', call'["worker"], delivered'[worker'.run])
    BY DEF WorkerHoldsRow, Running, Handed, Holding, At
  <2>1. /\ worker.pc \in Holding /\ worker'.run = worker.run
        /\ ~ WorkerCompletes /\ ~ WorkerFails /\ ~ StartRecovers
    BY <1>3, WorkerKeepsRun
  <2>2. worker.run \in Runs /\ runs[worker.run].state = "running"
    BY <2>1 DEF ServiceInv, WorkerHoldsRow, Holding, Running
  <2>3. \/ SessionEmits /\ Settles(worker.run, "running", "none")
        \/ RowAdded
        \/ UNCHANGED runs
    BY <1>3, <2>1, RowsMove DEF MovesRow
  <2>4. runs'[worker.run].state = "running"
    BY <2>2, <2>3 DEF Settles, RowAdded
  <2> QED
    BY <1>1, <2>1, <2>2, <2>4, HandingOverIsTracked
<1> QED
  BY <1>2, <1>3

\* A run that is claimed is the first running row, and only the worker settles it.
LEMMA RunningRowStaysUnique ==
  ASSUME ServiceInv, [ServiceNext]_vars
  PROVE  RunningRowIsUnique' /\ RunningRowHasWorker'
<1>1. /\ Runs = 1 .. Len(runs) /\ Runs' = 1 .. Len(runs')
      /\ Len(runs) \in Nat /\ Len(runs') \in Nat /\ Len(runs') >= Len(runs)
  BY StepsAreTransactions, RowsRemain DEF ServiceInv
<1>2. /\ \A q, r \in Runs : Running(q) /\ Running(r) => q = r
      /\ starter = "gate" => \A r \in Runs : ~ Running(r)
      /\ lifecycle = "started" => \A r \in Runs : Running(r) =>
           worker.run = r /\ worker.pc \in Holding \cup {"died"}
  BY DEF ServiceInv, RunningRowIsUnique, RunningRowHasWorker, Running, Holding
<1>3. LifecycleIsLocked
  BY DEF ServiceInv
<1> SUFFICES /\ \A q, r \in Runs' :
                  runs'[q].state = "running" /\ runs'[r].state = "running" => q = r
             /\ starter' = "gate" => \A r \in Runs' : runs'[r].state # "running"
             /\ lifecycle' = "started" => \A r \in Runs' : runs'[r].state = "running" =>
                  worker'.run = r /\ worker'.pc \in Holding \cup {"died"}
  BY DEF RunningRowIsUnique, RunningRowHasWorker, Running, Holding
<1>4. CASE \E r \in Runs : WorkerClaims(r)
  <2> PICK r \in Runs : WorkerClaims(r)
    BY <1>4
  <2>1. /\ At("claiming") /\ worker'.run = r /\ worker'.pc = "preparing"
        /\ UNCHANGED lifecycleVars
        /\ Settles(r, "running", "none")
    BY RowsMove DEF WorkerClaims
  <2>2. lifecycle = "started" /\ starter # "gate"
    BY <1>3, <2>1 DEF LifecycleIsLocked
  <2>3. \A q \in Runs : ~ Running(q)
    BY <1>2, <2>1, <2>2 DEF At, Holding
  <2> QED
    BY <1>1, <2>1, <2>2, <2>3 DEF Settles, Running, Holding, lifecycleVars
<1>5. CASE StartRecovers
  <2>1. Recovered /\ lifecycle' = lifecycle /\ lifecycle = "starting"
    BY <1>3, <1>5, RowsMove DEF StartRecovers, LifecycleIsLocked
  <2> QED
    BY <1>1, <2>1 DEF Recovered, Running
<1>6. ASSUME ~ StartRecovers, ~ \E r \in Runs : WorkerClaims(r)
      PROVE  /\ \A r \in Runs' : runs'[r].state = "running" =>
                  r \in Runs /\ Running(r)
             /\ WorkerCompletes \/ WorkerFails =>
                  \A r \in Runs' : runs'[r].state = "running" => r # worker.run
  <2>1. CASE SessionEmits
    <3>1. Settles(worker.run, "running", "none") /\ Running(worker.run)
      BY <2>1, RowsMove DEF SessionEmits, ServiceInv, WorkerHoldsRow, At
    <3>2. ~ WorkerCompletes /\ ~ WorkerFails
      BY <2>1 DEF SessionEmits, WorkerCompletes, WorkerFails, At
    <3> QED
      BY <1>1, <3>1, <3>2 DEF Settles, Running
  <2>2. CASE WorkerCompletes \/ WorkerFails
    <3>1. worker.run \in Runs
      BY <2>2 DEF WorkerCompletes, WorkerFails, ServiceInv, WorkerHoldsRow, At
    <3>2. \/ Settles(worker.run, "succeeded", "none")
          \/ Settles(worker.run, "failed", worker.code)
      BY <2>2, RowsMove
    <3> QED
      BY <1>1, <3>1, <3>2 DEF Settles, Running
  <2>3. CASE RowAdded
    <3>1. ~ WorkerCompletes /\ ~ WorkerFails
      BY <2>3 DEF RowAdded, WorkerCompletes, WorkerFails, Idle, At
    <3> QED
      BY <1>1, <2>3, <3>1 DEF RowAdded, Running
  <2>4. CASE UNCHANGED runs /\ ~ WorkerCompletes /\ ~ WorkerFails
    BY <1>1, <2>4 DEF Running
  <2> QED
    BY <1>6, <2>1, <2>2, <2>3, <2>4, RowsMove DEF MovesRow
<1>7. ASSUME ~ StartRecovers, ~ \E r \in Runs : WorkerClaims(r)
      PROVE  /\ starter' = "gate" => starter = "gate"
             /\ lifecycle' = "started" => starter = "gate" \/ lifecycle = "started"
  BY <1>7
  DEF ServiceNext, vars, lifecycleVars, StarterNext, StartCall, StartRejected, StartFails,
      StartReads,
      StartOpens, ApiNext, CreatesConversation, ApiEnter, SubmitCommits, AcknowledgeCommits,
      ApiCancelled, OrphanCommits,
      WorkerNext, WorkerEnters, WorkerFindsNothing, WorkerWakes, WorkerPolls,
      WorkerPrepares, WorkerHasNoDirectory, SnapshotFails, WorkerCompletes,
      WorkerFails, WorkerDies,
      SessionNext, SessionInvoked, SessionEmits, SessionReturns, RuntimeUnavailable,
      ExecutionUncertain,
      CloserNext, CloseCall, CloserLocks, CloserStops, CloserJoins, CloserClosesAdapter, Restart
<1>8. CASE ~ StartRecovers /\ ~ \E r \in Runs : WorkerClaims(r)
  BY <1>1, <1>2, <1>6, <1>7, <1>8, WorkerKeepsRun
<1> QED
  BY <1>4, <1>5, <1>8

\* A worker goes to sleep only over an empty queue, and whoever fills the queue wakes it
\* unless its waiter was cancelled.
LEMMA NoWakeUpIsMissed ==
  ASSUME ServiceInv, [ServiceNext]_vars
  PROVE  SleepsOnlyWhenIdle'
<1>1. ASSUME IInv, NEW r \in Runs, runs[r].state = "queued"
      PROVE  Claimable(r)
  BY <1>1 DEF IInv, InFlightRunIsClaimable, Nonterminal, Claimable
<1> SUFFICES ASSUME worker'.pc = "waiting", ~ wake', cancels' = 0
             PROVE  \A r \in Runs' : runs'[r].state # "queued"
  BY DEF SleepsOnlyWhenIdle, Claimable, At
<1>2. CASE WorkerFindsNothing
  BY <1>1, <1>2 DEF WorkerFindsNothing, storeVars, ServiceInv, Runs
<1>3. CASE ~ WorkerFindsNothing
  <2>1. /\ worker.pc = "waiting"
        /\ ~ wake
        /\ cancels = 0
        /\ ~ MovesRow
    <3>1. /\ \A pc : Goto(pc) => worker'.pc = pc
          /\ \A code : FailWith(code) => worker'.pc = "failing"
          /\ \A pc : Idle(pc) => worker'.pc = pc
      BY WorkerMoves DEF ServiceInv
    <3>2. worker.pc = "waiting" /\ ~ wake /\ ~ \E r \in Runs : WorkerClaims(r)
      BY <1>3, <3>1
      DEF At, ServiceNext, vars, StarterNext, StartCall, StartRejected, StartFails, StartReads,
          StartRecovers, StartOpens, ApiNext, CreatesConversation, ApiEnter, SubmitCommits,
          AcknowledgeCommits, ApiCancelled, OrphanCommits,
          WorkerNext, WorkerEnters, WorkerWakes, WorkerPolls, WorkerClaims, WorkerPrepares,
          WorkerHasNoDirectory, SnapshotFails, WorkerCompletes, WorkerFails, WorkerDies,
          SessionNext, SessionInvoked, SessionEmits, SessionReturns, RuntimeUnavailable,
          ExecutionUncertain,
          CloserNext, CloseCall, CloserLocks, CloserStops, CloserJoins, CloserClosesAdapter, Restart
    <3>3. cancels = 0
      BY StoreConstants, CoordinatorConstants
      DEF ServiceInv, ServiceTypeOK, ServiceNext, vars, gateVars, StarterNext, StartCall,
          StartRejected,
          StartFails, StartReads,
          StartRecovers, StartOpens, ApiNext, CreatesConversation, ApiEnter, SubmitCommits,
          AcknowledgeCommits, ApiCancelled, OrphanCommits,
          WorkerNext, WorkerEnters, WorkerFindsNothing, WorkerWakes, WorkerPolls, WorkerClaims,
          WorkerPrepares, WorkerHasNoDirectory, SnapshotFails, WorkerCompletes, WorkerFails,
          WorkerDies,
          SessionNext, SessionInvoked, SessionEmits, SessionReturns, RuntimeUnavailable,
          ExecutionUncertain,
          CloserNext, CloseCall, CloserLocks, CloserStops, CloserJoins, CloserClosesAdapter, Restart
    <3>4. ~ MovesRow
      BY <3>2
      DEF MovesRow, StartRecovers, SessionEmits, WorkerCompletes, WorkerFails, At, ServiceInv,
         LifecycleIsLocked
    <3> QED
      BY <3>2, <3>3, <3>4
  <2>2. UNCHANGED runs
    BY <2>1, RowsMove DEF RowAdded, ServiceInv, OrphansWereCancelled
  <2> QED
    BY <1>1, <2>1, <2>2 DEF ServiceInv, SleepsOnlyWhenIdle, At, Runs
<1> QED
  BY <1>2, <1>3

------------------------------------------------------------------------------
(***************************************************************************)
(* Theorems                                                                *)
(***************************************************************************)

\* A new service has no rows and no worker.
LEMMA ServiceStartsSound == ServiceInit => ServiceInv
<1> SUFFICES ASSUME ServiceInit PROVE ServiceInv
  OBVIOUS
<1>1. IInv
  BY InitEstablishesInvariant
  DEF ServiceInit
<1>2. runs = << >> /\ Runs = {} /\ Len(runs) = 0
  BY DEF ServiceInit, Init, Runs
<1>3. ServiceTypeOK
  <2>1. TypeOK /\ Runtime!TypeOK
    BY <1>1 DEF ServiceInit, IInv, Runtime!Init, Runtime!TypeOK
  <2>2. worker \in [pc : WorkerPc, run : 0 .. Len(runs), code : ErrorCode \cup {"none"}]
    BY <1>2 DEF ServiceInit, WorkerPc, NoRun
  <2>3. delivered \in [1 .. MaxRuns -> Nat]
    BY DEF ServiceInit
  <2>4. restarts \in 0 .. MaxRestarts /\ faults \in 0 .. MaxFaults /\ cancels \in 0 .. MaxCancels
    BY StoreConstants, CoordinatorConstants DEF ServiceInit
  <2>5. {accepting, stopping, closeRequested, wake} \subseteq BOOLEAN
    BY DEF ServiceInit
  <2> QED
    BY <2>1, <2>2, <2>3, <2>4, <2>5 DEF ServiceInit, ServiceTypeOK
<1> QED
  BY <1>1, <1>2, <1>3, StoreConstants, CoordinatorConstants
  DEF ServiceInv, ServiceInit, VerdictIsTruthful, RowsTellErrors, WorkerHoldsRow,
      RunningRowHasWorker,
      RunningRowIsUnique, LifecycleIsLocked, OrphansWereCancelled, SleepsOnlyWhenIdle, At,
      Runtime!Init

\* Every step of the service keeps its invariant.
LEMMA ServiceStepKeeps == ServiceInv /\ [ServiceNext]_vars => ServiceInv'
<1> SUFFICES ASSUME ServiceInv, [ServiceNext]_vars PROVE ServiceInv'
  OBVIOUS
<1>1. IInv'
  BY StepsAreTransactions, StoreConstants, NextKeepsInvariant DEF ServiceInv
<1> QED
  BY <1>1, TypesStayCorrect, VerdictsStayTruthful, WorkerStaysOnRow, RunningRowStaysUnique,
     LifecycleStaysLocked, OrphansStayCancelled, NoWakeUpIsMissed
  DEF ServiceInv

\* The inductive invariant holds of every behaviour of the service.
THEOREM ServiceInvariance == ServiceSpec => []ServiceInv
  BY ServiceStartsSound, ServiceStepKeeps, PTL DEF ServiceSpec

\* A started service has no zombie row, and no worker sleeps over queued work.
LEMMA ServiceTracksRows == ServiceInv => WorkerTracksRows
  BY DEF ServiceInv, WorkerTracksRows

\* The adapter is closed only after the worker ended and admission stopped.
LEMMA ServiceSparesWorker == ServiceInv => ClosingSparesTheWorker
  BY DEF ServiceInv, ClosingSparesTheWorker, LifecycleIsLocked, Accepts, At

------------------------------------------------------------------------------
(***************************************************************************)
(* The promise of RunPromise, step by step                                 *)
(***************************************************************************)

\* The phase of a row in the table.
PhaseOf(state, error, times) ==
  CASE state = "queued" /\ times = 0  -> "accepted"
    [] state = "running" /\ times = 0 -> "begun"
    [] state = "running" /\ times = 1 -> "delivered"
    [] state = "succeeded" /\ times = 1 -> "succeeded"
    [] error = "runtime_unavailable" /\ times = 0 -> "refused"
    [] error \in {"agent_outcome", "artifact_snapshot_failed"} /\ times = 1 -> "failed"
    [] error = "execution_uncertain" /\ times <= 1 -> "unknown"
    [] OTHER -> "broken"

\* The phase of a run is computed from its row and its deliveries.
LEMMA PhaseIsOfRow ==
  ASSUME NEW r
  PROVE  /\ Phase(r) = IF r \notin Runs THEN "absent"
                       ELSE PhaseOf(runs[r].state, runs[r].error, delivered[r])
         /\ Phase(r)' = IF r \notin Runs' THEN "absent"
                        ELSE PhaseOf(runs'[r].state, runs'[r].error, delivered'[r])
  BY DEF Phase, PhaseOf

\* The phases a truthful row can be in.
LEMMA Phases ==
  /\ PhaseOf("queued", "none", 0) = "accepted"
  /\ PhaseOf("running", "none", 0) = "begun"
  /\ PhaseOf("running", "none", 1) = "delivered"
  /\ PhaseOf("succeeded", "none", 1) = "succeeded"
  /\ PhaseOf("failed", "runtime_unavailable", 0) = "refused"
  /\ PhaseOf("failed", "agent_outcome", 1) = "failed"
  /\ PhaseOf("failed", "artifact_snapshot_failed", 1) = "failed"
  /\ PhaseOf("failed", "execution_uncertain", 0) = "unknown"
  /\ PhaseOf("failed", "execution_uncertain", 1) = "unknown"
  BY DEF PhaseOf

\* A step that changes the phase of one run is a move of the promise.
LEMMA OnePhaseMoves ==
  ASSUME NEW r \in 1 .. MaxRuns, NEW from, NEW to,
         Phase(r) = from, Phase(r)' = to,
         \A q \in 1 .. MaxRuns : q # r => Phase(q)' = Phase(q)
  PROVE  Promise!Move(r, from, to)
  BY DEF Promise!Move

\* The service starts with every run absent.
LEMMA InitKeepsPromise == ServiceInit => Promise!Init
<1> SUFFICES ASSUME ServiceInit PROVE Promise!Init
  OBVIOUS
<1>1. Runs = {}
  BY DEF ServiceInit, Init, Runs
<1> QED
  BY <1>1 DEF Promise!Init, Phase

\* Every step of the service moves at most one run along its life.
LEMMA StepKeepsPromise ==
  ASSUME ServiceInv, [ServiceNext]_vars
  PROVE  [Promise!Next]_([r \in 1 .. MaxRuns |-> Phase(r)])
<1> DEFINE map  == [r \in 1 .. MaxRuns |-> Phase(r)]
           Stays(q) == Phase(q)' = Phase(q)
<1>1. /\ Runs = 1 .. Len(runs) /\ Runs' = 1 .. Len(runs')
      /\ Len(runs) \in Nat /\ Len(runs) <= MaxRuns /\ MaxRuns \in Nat
      /\ delivered \in [1 .. MaxRuns -> Nat]
  BY StoreConstants, CoordinatorConstants, StepsAreTransactions, RowsRemain
  DEF ServiceInv, ServiceTypeOK, RowsTellErrors
<1>2. \A r \in Runs :
        /\ runs[r].state \in {"queued", "running", "succeeded", "failed"}
        /\ Truthful(runs[r].state, runs[r].error, delivered[r])
        /\ delivered[r] \in {0, 1}
  BY <1>1, RowsHaveStates DEF ServiceInv, VerdictIsTruthful, RowsTellErrors, Truthful
<1>3. ASSUME NEW r \in 1 .. MaxRuns, \A q \in (1 .. MaxRuns) \ {r} : Stays(q),
             <<Phase(r), Phase(r)'>> \in
               {<<"absent", "accepted">>, <<"accepted", "begun">>, <<"begun", "delivered">>,
                <<"begun", "refused">>, <<"delivered", "succeeded">>, <<"delivered", "failed">>,
                <<"begun", "unknown">>, <<"delivered", "unknown">>}
      PROVE  Promise!Next
  <2>1. Promise!Move(r, Phase(r), Phase(r)')
    BY <1>3, OnePhaseMoves
  <2> QED
    BY <1>3, <2>1 DEF Promise!Next, Promise!Accept, Promise!Begin, Promise!Deliver,
       Promise!Refuse, Promise!Succeed, Promise!Fail, Promise!Lose
<1>4. ASSUME \A q \in 1 .. MaxRuns : Stays(q)
      PROVE  map' = map
  BY <1>4
<1>5. ASSUME NEW q \in 1 .. MaxRuns, UNCHANGED delivered,
             \/ q \in Runs /\ q \in Runs' /\ runs'[q] = runs[q]
             \/ q \notin Runs /\ q \notin Runs'
      PROVE  Stays(q)
  BY <1>5, PhaseIsOfRow
<1> HIDE DEF Stays
<1>6. CASE UNCHANGED <<runs, delivered>>
  BY <1>1, <1>4, <1>5, <1>6
<1>7. CASE SessionInvoked
  <2>1. At("running") /\ call["worker"] = "before" /\ UNCHANGED runs
    BY <1>7 DEF SessionInvoked, Runtime!Invoke, storeVars
  <2> PICK r \in Runs : r = worker.run
    BY <2>1 DEF ServiceInv, WorkerHoldsRow, At
  <2>2. runs[r].state = "running" /\ delivered[r] = 0
    BY <2>1 DEF ServiceInv, WorkerHoldsRow, At, Running
  <2>3. delivered' = [delivered EXCEPT ![r] = 1]
    BY <1>7, <2>2 DEF SessionInvoked
  <2>4. \A q \in (1 .. MaxRuns) \ {r} : Stays(q)
    BY <1>1, <2>1, <2>3, PhaseIsOfRow DEF Stays
  <2>5. runs[r].error = "none" /\ delivered'[r] = 1
    BY <1>1, <1>2, <2>2, <2>3 DEF Truthful
  <2>6. Phase(r) = "begun" /\ Phase(r)' = "delivered"
    BY <1>1, <2>1, <2>2, <2>5, PhaseIsOfRow, Phases
  <2>7. r \in 1 .. MaxRuns
    BY <1>1
  <2> QED
    BY <1>3, <2>4, <2>6, <2>7
<1>8. CASE RowAdded
  <2> PICK r \in Nat : r = Len(runs) + 1
    BY <1>1
  <2>1. /\ r \in 1 .. MaxRuns /\ r \notin Runs /\ Runs' = Runs \cup {r}
        /\ delivered' = delivered /\ delivered[r] = 0
    BY <1>1, <1>8 DEF RowAdded, ServiceInv, RowsTellErrors
  <2>2. \A q \in (1 .. MaxRuns) \ {r} : Stays(q)
    BY <1>5, <1>8, <2>1 DEF RowAdded
  <2>3. Phase(r) = "absent" /\ Phase(r)' = "accepted"
    BY <1>8, <2>1, PhaseIsOfRow, Phases DEF RowAdded
  <2> QED
    BY <1>3, <2>1, <2>2, <2>3
<1>9. ASSUME NEW r \in Runs, NEW state, NEW error, Settles(r, state, error),
             UNCHANGED delivered
      PROVE  /\ r \in 1 .. MaxRuns
             /\ \A q \in (1 .. MaxRuns) \ {r} : Stays(q)
             /\ Phase(r) = PhaseOf(runs[r].state, runs[r].error, delivered[r])
             /\ Phase(r)' = PhaseOf(state, error, delivered[r])
  <2>1. Runs' = Runs /\ r \in 1 .. MaxRuns
    BY <1>1, <1>9 DEF Settles
  <2>2. \A q \in (1 .. MaxRuns) \ {r} : Stays(q)
    BY <1>5, <1>9, <2>1 DEF Settles
  <2> QED
    BY <1>9, <2>1, <2>2, PhaseIsOfRow DEF Settles
<1>10. CASE StartRecovers
  <2>1. Recovered /\ delivered' = delivered
    BY <1>10, RowsMove DEF StartRecovers
  <2>2. CASE \E r \in Runs : Running(r)
    <3> PICK r \in Runs : Running(r)
      BY <2>2
    <3>1. Settles(r, "failed", "execution_uncertain")
      BY <2>1 DEF Recovered, Settles, ServiceInv, RunningRowIsUnique
    <3>2. runs[r].state = "running" /\ runs[r].error = "none"
      BY <1>2 DEF Running, Truthful
    <3>3. /\ r \in 1 .. MaxRuns
          /\ \A q \in (1 .. MaxRuns) \ {r} : Stays(q)
          /\ Phase(r) = PhaseOf("running", "none", delivered[r])
          /\ Phase(r)' = PhaseOf("failed", "execution_uncertain", delivered[r])
      BY <1>9, <2>1, <3>1, <3>2
    <3> QED
      BY <1>2, <1>3, <3>3, Phases
  <2>3. CASE \A r \in Runs : ~ Running(r)
    <3>1. \A q \in 1 .. MaxRuns : Stays(q)
      BY <1>1, <1>5, <2>1, <2>3 DEF Recovered
    <3> QED
      BY <1>4, <3>1
  <2> QED
    BY <2>2, <2>3
<1>11. ASSUME NEW r \in Runs, WorkerClaims(r)
       PROVE  Promise!Next
  <2>1. runs[r].state = "queued" /\ Settles(r, "running", "none") /\ delivered' = delivered
    BY <1>11, RowsMove DEF WorkerClaims
  <2>2. runs[r].error = "none" /\ delivered[r] = 0
    BY <1>2, <2>1 DEF Truthful
  <2> QED
    BY <1>3, <1>9, <2>1, <2>2, Phases
<1>12. ASSUME SessionEmits \/ WorkerCompletes \/ WorkerFails
       PROVE  \E r \in Runs : /\ r = worker.run
                                    /\ runs[r].state = "running"
                                    /\ runs[r].error = "none"
                                    /\ UNCHANGED delivered
  <2>1. worker.run \in Runs /\ runs[worker.run].state = "running" /\ UNCHANGED delivered
    BY <1>12 DEF SessionEmits, WorkerCompletes, WorkerFails, ServiceInv, WorkerHoldsRow, At, Running
  <2> QED
    BY <1>2, <2>1 DEF Truthful
<1>13. CASE SessionEmits \/ WorkerCompletes \/ WorkerFails
  <2> PICK r \in Runs : /\ r = worker.run
                              /\ runs[r].state = "running"
                              /\ runs[r].error = "none"
                              /\ UNCHANGED delivered
    BY <1>12, <1>13
  <2>1. CASE SessionEmits
    <3>1. Settles(r, "running", "none")
      BY <2>1, RowsMove
    <3>2. (\A q \in (1 .. MaxRuns) \ {r} : Stays(q)) /\ Phase(r)' = Phase(r)
      BY <1>9, <3>1
    <3> QED
      BY <1>4, <3>2 DEF Stays
  <2>2. CASE WorkerCompletes
    <3>1. Settles(r, "succeeded", "none") /\ delivered[r] = 1
      BY <2>2, RowsMove DEF WorkerCompletes, ServiceInv, WorkerHoldsRow
    <3> QED
      BY <1>3, <1>9, <3>1, Phases
  <2>3. CASE WorkerFails
    <3>1. /\ Settles(r, "failed", worker.code)
          /\ worker.code \in ErrorCode
          /\ worker.code = "runtime_unavailable" => delivered[r] = 0
          /\ worker.code \in {"agent_outcome", "artifact_snapshot_failed"} => delivered[r] = 1
          /\ delivered[r] \in {0, 1}
      BY <1>2, <2>3, RowsMove DEF WorkerFails, ServiceInv, WorkerHoldsRow
    <3>2. /\ r \in 1 .. MaxRuns
          /\ \A q \in (1 .. MaxRuns) \ {r} : Stays(q)
          /\ Phase(r) = PhaseOf("running", "none", delivered[r])
          /\ Phase(r)' = PhaseOf("failed", worker.code, delivered[r])
      BY <1>9, <3>1
    <3>3. <<Phase(r), Phase(r)'>> \in
            {<<"begun", "refused">>, <<"delivered", "failed">>,
             <<"begun", "unknown">>, <<"delivered", "unknown">>}
      BY <3>1, <3>2, Phases DEF ErrorCode
    <3> QED
      BY <1>3, <3>2, <3>3
  <2> QED
    BY <1>13, <2>1, <2>2, <2>3
<1> QED
  BY <1>6, <1>7, <1>8, <1>10, <1>11, <1>13, RowsMove, DeliveriesMove DEF MovesRow

\* Every behaviour of the service is one the promise allows.
THEOREM PromiseKept == ServiceSpec => KeepsPromise
<1>1. ServiceSpec => Promise!Init
  BY InitKeepsPromise DEF ServiceSpec
<1>2. ServiceInv /\ [ServiceNext]_vars => [Promise!Next]_([r \in 1 .. MaxRuns |-> Phase(r)])
  BY StepKeepsPromise
<1> QED
  BY <1>1, <1>2, ServiceInvariance, PTL DEF ServiceSpec, KeepsPromise, Promise!Spec

------------------------------------------------------------------------------
(***************************************************************************)
(* The same for MCRunService, whose behaviours are those of the service    *)
(* and those of the store on its own                                       *)
(***************************************************************************)

\* A service that is gone for good: every task of it has ended.
Gone == /\ StoreAlone /\ restarts \in Nat
        /\ lifecycle = "closed" /\ starter = "idle" /\ closer = "idle"
        /\ worker.pc = "none" /\ closeRequested = TRUE
        /\ api = NoCall /\ orphans = {}

\* Either the service is sound, or only its store is left.
SoundService == ServiceInv \/ Gone

\* A service with an invariant is not past its last restart.
LEMMA SoundIsServing == ServiceInv => ~ StoreAlone
  BY CoordinatorConstants DEF ServiceInv, ServiceTypeOK, StoreAlone

\* Nothing of a service that is gone moves by itself.
LEMMA GoneIsGone == Gone => ~ ServiceNext
<1> SUFFICES ASSUME Gone, ServiceNext PROVE FALSE
  OBVIOUS
<1> USE DEF Gone, At, LifecycleFree
<1>1. CASE StarterNext
  BY <1>1 DEF StarterNext, StartCall, StartRejected, StartFails, StartReads, StartRecovers,
     StartOpens
<1>2. CASE ApiNext
  <2>1. lifecycle = "closed" /\ orphans = {} /\ api = NoCall /\ NoCall.op = "none"
    BY DEF NoCall
  <2>2. ~ \E request \in Calls : ApiEnter(request)
    BY DEF ApiEnter, Accepts
  <2> QED
    BY <1>2, <2>1, <2>2
    DEF ApiNext, CreatesConversation, SubmitCommits, AcknowledgeCommits, ApiCancelled
<1>3. CASE WorkerNext \/ SessionNext
  BY <1>3 DEF WorkerNext, WorkerEnters, WorkerFindsNothing, WorkerWakes, WorkerPolls,
     WorkerClaims, WorkerPrepares, WorkerHasNoDirectory, SnapshotFails, WorkerCompletes,
     WorkerFails, WorkerDies, SessionNext, SessionInvoked, SessionEmits, SessionReturns,
     RuntimeUnavailable, ExecutionUncertain
<1>4. CASE CloserNext
  BY <1>4 DEF CloserNext, CloseCall, CloserLocks, CloserStops, CloserJoins,
     CloserClosesAdapter
<1>5. CASE Restart
  BY <1>5, CoordinatorConstants DEF Restart, StoreAlone
<1> QED
  BY <1>1, <1>2, <1>3, <1>4, <1>5 DEF ServiceNext

\* A step of the service starts in a sound one, a step of the store alone does not.
LEMMA CheckedSteps ==
  ASSUME SoundService, [MCNext]_vars
  PROVE  \/ ServiceInv /\ [ServiceNext]_vars
         \/ Gone /\ Gone'
<1>1. CASE Gone
  <2>1. AloneNext \/ UNCHANGED vars
    BY <1>1, GoneIsGone DEF MCNext
  <2> QED
    BY <1>1, <2>1 DEF AloneNext, Gone, StoreAlone, vars, serviceVars, lifecycleVars, gateVars
<1>2. CASE ServiceInv
  BY <1>2, SoundIsServing DEF MCNext, AloneNext
<1> QED
  BY <1>1, <1>2 DEF SoundService

\* What MCRunService checks is sound, whichever of the two it runs.
LEMMA SoundServiceInvariance == MCSpec => []SoundService
<1>1. MCInit => SoundService
  <2>1. AloneInit => Gone
    BY CoordinatorConstants DEF AloneInit, Gone, StoreAlone
  <2> QED
    BY <2>1, ServiceStartsSound DEF MCInit, SoundService
<1>2. SoundService /\ [MCNext]_vars => SoundService'
  <2> SUFFICES ASSUME SoundService, [MCNext]_vars
               PROVE  SoundService'
    OBVIOUS
  <2> QED
    BY CheckedSteps, ServiceStepKeeps DEF SoundService
<1> QED
  BY <1>1, <1>2, PTL DEF MCSpec

\* No verdict a client reads lies about the side effects of its run, whatever crashes,
\* faults, cancelled waiters and shutdowns preceded it.
THEOREM CheckedVerdictsAreTruthful == MCSpec => []VerdictsAreTruthful
<1>1. SoundService => VerdictsAreTruthful
  BY DEF SoundService, Gone, ServiceInv, VerdictsAreTruthful, InService
<1> QED
  BY <1>1, SoundServiceInvariance, PTL

\* A started service has no zombie row, and no worker sleeps over queued work.
THEOREM CheckedRowsAreTracked == MCSpec => []RowsAreTracked
<1>1. SoundService => RowsAreTracked
  BY ServiceTracksRows DEF SoundService, Gone, RowsAreTracked, InService
<1> QED
  BY <1>1, SoundServiceInvariance, PTL

\* The adapter is closed only after the worker ended and admission stopped.
THEOREM CheckedWorkerIsSpared == MCSpec => []WorkerIsSpared
<1>1. SoundService => WorkerIsSpared
  BY ServiceSparesWorker DEF SoundService, Gone, WorkerIsSpared, InService
<1> QED
  BY <1>1, SoundServiceInvariance, PTL

\* Every behaviour keeps the promise of RunPromise: the service by its steps, the store
\* on its own because it hands nothing over.
THEOREM CheckedPromiseIsKept == MCSpec => PromiseIsKept
<1> DEFINE kept == [r \in 1 .. MaxRuns |-> IF StoreAlone THEN "absent" ELSE Phase(r)]
           map  == [r \in 1 .. MaxRuns |-> Phase(r)]
<1>1. MCInit => Kept!Init
  <2>1. ASSUME ServiceInit PROVE Kept!Init
    <3>1. kept = map
      BY <2>1, ServiceStartsSound, SoundIsServing
    <3> QED
      BY <2>1, <3>1, InitKeepsPromise DEF Promise!Init, Kept!Init
  <2>2. ASSUME AloneInit PROVE Kept!Init
    <3>1. StoreAlone
      BY <2>2, CoordinatorConstants DEF AloneInit, StoreAlone
    <3> QED
      BY <3>1 DEF Kept!Init
  <2> QED
    BY <2>1, <2>2 DEF MCInit
<1>2. SoundService /\ [MCNext]_vars => [Kept!Next]_kept
  <2> SUFFICES ASSUME SoundService, [MCNext]_vars
               PROVE  [Kept!Next]_kept
    OBVIOUS
  <2>1. CASE Gone /\ Gone'
    BY <2>1 DEF Gone
  <2>2. CASE ServiceInv /\ [ServiceNext]_vars
    <3>1. [Promise!Next]_map
      BY <2>2, StepKeepsPromise
    <3>2. ~ StoreAlone /\ ~ StoreAlone'
      <4>1. ServiceInv'
        BY <2>2, ServiceStepKeeps
      <4> QED
        BY <2>2, <4>1, SoundIsServing, CoordinatorConstants
        DEF ServiceInv, ServiceTypeOK, StoreAlone
    <3>3. kept = map /\ kept' = map'
      BY <3>2
    <3> QED
      BY <3>1, <3>3
      DEF Promise!Next, Promise!Move, Promise!Accept, Promise!Begin, Promise!Deliver,
          Promise!Refuse, Promise!Succeed, Promise!Fail, Promise!Lose,
          Kept!Next, Kept!Move, Kept!Accept, Kept!Begin, Kept!Deliver,
          Kept!Refuse, Kept!Succeed, Kept!Fail, Kept!Lose
  <2> QED
    BY <2>1, <2>2, CheckedSteps
<1> QED
  BY <1>1, <1>2, SoundServiceInvariance, PTL DEF MCSpec, PromiseIsKept, Kept!Spec
===============================================================================
