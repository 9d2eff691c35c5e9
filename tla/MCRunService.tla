----------------------------- MODULE MCRunService -----------------------------
(***************************************************************************)
(* The recoverable agent service for TLC: its coordinator over the store,  *)
(* and the store on its own, every transaction in every order.  On its own *)
(* means that the last process of the service is gone: the coordinator is  *)
(* closed, the bound on restarts is passed, and none of its actions is     *)
(* enabled any more.                                                       *)
(***************************************************************************)
EXTENDS RunCoordinator, TLC

CONSTANTS c1, c2, k1, k2, plain, withFile, file

serviceVars == <<runtimeVars, lifecycleVars, gateVars, wake, worker, delivered, restarts,
                 faults>>

MCDeclared == (plain :> {}) @@ (withFile :> {file})

\* Conversations and keys are only compared for equality.
Symmetry == Permutations({c1, c2}) \cup Permutations({k1, k2})

\* Bounds: under the coordinator there is one conversation, with two runs of one request.
ServiceRuns == 2

Asked == (orphans \cup {api}) \ {NoCall}

StoreAlone == restarts > MaxRestarts

ServiceBounds ==
  ~ StoreAlone =>
    /\ Len(runs) <= ServiceRuns
    /\ Cardinality({c \in Conversation : \/ conversations[c].state # "absent"
                                         \/ \E x \in Asked : x.conversation = c}) <= 1
    /\ \A r \in Runs : runs[r].request = withFile
    /\ \A x \in Asked : x.op = "submit" => x.request = withFile

AloneInit ==
  /\ Init
  /\ mode = "closed" /\ call = [x \in {"worker"} |-> "idle"]
  /\ lifecycle = "closed" /\ starter = "idle" /\ closer = "idle"
  /\ accepting = FALSE /\ stopping = TRUE /\ closeRequested = TRUE /\ wake = TRUE
  /\ worker = [pc |-> "none", run |-> NoRun, code |-> "none"]
  /\ api = NoCall /\ orphans = {}
  /\ delivered = [r \in 1 .. MaxRuns |-> 0]
  /\ restarts = MaxRestarts + 1 /\ faults = 0 /\ cancels = 0

AloneNext == StoreAlone /\ Next /\ UNCHANGED serviceVars

MCInit == ServiceInit \/ AloneInit

MCNext == AloneNext \/ ServiceNext

MCSpec == MCInit /\ [][MCNext]_vars

------------------------------------------------------------------------------
InService(property) == ~ StoreAlone => property

\* The verdict a client reads never lies about the side effects of its run: a refused run
\* was never handed to the agent, an answered one exactly once.
VerdictsAreTruthful == InService(VerdictIsTruthful)

\* The worker and the rows agree, whatever it awaits when something fails, is cancelled or
\* closes; and every variable has its type.
RowsAreTracked == InService(WorkerTracksRows)

\* The adapter is closed only under a worker that is gone, so no run is ever refused just
\* because the service shuts down.
WorkerIsSpared == InService(ClosingSparesTheWorker)

\* RunPromise, kept by the service; the store on its own hands nothing to an agent.
Kept == INSTANCE RunPromise
  WITH Run   <- 1 .. MaxRuns,
       phase <- [r \in 1 .. MaxRuns |-> IF StoreAlone THEN "absent" ELSE Phase(r)]

\* Every behaviour of the service keeps the promise of RunPromise: each run moves along its
\* life once, and is handed to the agent at most once on the way.
PromiseIsKept == Kept!Spec
===============================================================================
