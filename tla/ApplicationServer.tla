--------------------------- MODULE ApplicationServer ---------------------------
(***************************************************************************)
(* createApplicationServer of the AG-UI runtime (server/entry.ts): the     *)
(* order in which the process opens the runtime manager, the store, the    *)
(* coordinator and the HTTP server, and the close that takes apart what    *)
(* was opened, over RuntimeManager.  Of the coordinator it has admission,  *)
(* executions and shutdown; AguiCoordinator has the rest.                  *)
(***************************************************************************)
EXTENDS RuntimeManager

VARIABLES
  stage,      \* how far createApplicationServer and then close are
  opened,     \* of "runtime", "store", "coordinator", "app", what was opened
  storeOpen,
  faulty,     \* close has collected an error
  drain,      \* how far the call of coordinator.shutdown is, or its answer
  admitting, drained, fatal, \* ~ admissionStopped, closed, fatalError of the coordinator
  executing   \* active of the coordinator

drainVars  == <<drain, admitting, drained, fatal>>
stageVars  == <<stage, opened, storeOpen, faulty>>
serverVars == <<managerVars, stageVars, drainVars, executing>>

Startup   == {"runtime", "store", "coordinator", "app", "listen"}
Draining  == {"grace", "runtimeClose", "runtimeShutdown", "secondGrace"}
Following == [runtime |-> "store", store |-> "coordinator", coordinator |-> "app", app |-> "listen"]

------------------------------------------------------------------------------
(***************************************************************************)
(* Startup                                                                 *)
(***************************************************************************)

Opens ==
  /\ stage \in DOMAIN Following
  /\ opened' = opened \cup {stage}
  /\ storeOpen' = (storeOpen \/ stage = "store")
  /\ stage' = Following[stage]
  /\ UNCHANGED <<managerVars, faulty, drainVars, executing>>

Listens ==
  /\ stage = "listen"
  /\ stage' = "up"
  /\ UNCHANGED <<managerVars, opened, storeOpen, faulty, drainVars, executing>>

\* What was opened is closed again; the constructor of the coordinator does not throw.
OpenFails ==
  /\ stage \in Startup \ {"coordinator"}
  /\ stage' = "close"
  /\ UNCHANGED <<managerVars, opened, storeOpen, faulty, drainVars, executing>>

------------------------------------------------------------------------------
(***************************************************************************)
(* The coordinator                                                         *)
(***************************************************************************)

Admit(r) ==
  /\ stage = "up" /\ admitting /\ ~ fatal
  /\ r \notin executing
  /\ Run(r)
  /\ executing' = executing \cup {r}
  /\ UNCHANGED <<stageVars, drainVars>>

\* The execution handles the answer of the runtime, with the writes it makes.
Finish(r) ==
  /\ r \in executing
  /\ r \notin activeRuns
  /\ executing' = executing \ {r}
  /\ UNCHANGED <<managerVars, stageVars, drainVars>>

RestartRequest ==
  /\ stage = "up" /\ admitting /\ ~ fatal
  /\ executing = {}
  /\ Restart
  /\ UNCHANGED <<stageVars, drainVars, executing>>

\* The executions end within graceMs and the runtime is closed, or it is shut down under
\* them; marking them unknown may fail.
GraceEnds ==
  /\ drain = "grace"
  /\ \/ executing = {} /\ drain' = "runtimeClose" /\ UNCHANGED fatal
     \/ executing # {} /\ drain' = "runtimeShutdown" /\ fatal' \in {fatal, TRUE}
  /\ Shutdown
  /\ UNCHANGED <<stageVars, admitting, drained, executing>>

\* A runtime that could not be closed leaves the coordinator as it was, to be closed again.
RuntimeAnswers ==
  /\ drain \in {"runtimeClose", "runtimeShutdown"} /\ shutdown = "none"
  /\ IF ~ closed THEN drain' = "error" /\ UNCHANGED drained
     ELSE IF drain = "runtimeClose" THEN drain' = "ok" /\ drained' = TRUE
     ELSE drain' = "secondGrace" /\ UNCHANGED drained
  /\ UNCHANGED <<managerVars, stageVars, admitting, fatal, executing>>

SecondGraceEnds ==
  /\ drain = "secondGrace"
  /\ fatal' = (fatal \/ executing # {})
  /\ drain' = IF fatal' THEN "error" ELSE "ok"
  /\ drained' = TRUE
  /\ UNCHANGED <<managerVars, stageVars, admitting, executing>>

------------------------------------------------------------------------------
(***************************************************************************)
(* close                                                                   *)
(***************************************************************************)

\* coordinator.shutdown, up to its first await.
DrainCalled ==
  /\ drain' = IF drained THEN "ok" ELSE "grace"
  /\ admitting' = (admitting /\ drained)
  /\ UNCHANGED <<drained, fatal>>

\* A signal, or the failed startup.  close is shared: whoever calls it again joins.
CloseCalled ==
  /\ stage \in {"up", "close"}
  /\ IF "app" \in opened
     THEN stage' = "closingApp" /\ DrainCalled
     ELSE /\ stage' = IF "runtime" \in opened THEN "closingRuntime" ELSE "closingStore"
          /\ UNCHANGED drainVars
  /\ UNCHANGED <<managerVars, opened, storeOpen, faulty, executing>>

\* app.close has run the preClose hook and closed its sockets.  What Fastify does with an
\* error of the hook is not in this repository.  The coordinator is then shut down again.
AppCloses ==
  /\ stage = "closingApp"
  /\ drain \in {"ok", "error"}
  /\ faulty' \in {faulty} \cup (IF drain = "error" THEN {TRUE} ELSE {})
  /\ stage' = "closingCoordinator"
  /\ DrainCalled
  /\ UNCHANGED <<managerVars, opened, storeOpen, executing>>

\* Mutant: errors of the coordinator are not collected.
CoordinatorCloses_Swallows ==
  /\ stage = "closingCoordinator"
  /\ drain \in {"ok", "error"}
  /\ stage' = "closingStore"
  /\ UNCHANGED <<managerVars, opened, storeOpen, faulty, drainVars, executing>>

CoordinatorCloses ==
  /\ stage = "closingCoordinator"
  /\ drain \in {"ok", "error"}
  /\ faulty' = (faulty \/ drain = "error")
  /\ stage' = "closingStore"
  /\ UNCHANGED <<managerVars, opened, storeOpen, drainVars, executing>>

\* There is no coordinator yet: runtime.shutdown is called and awaited.
RuntimeCalled ==
  /\ stage = "closingRuntime"
  /\ Shutdown
  /\ stage' = "awaitingRuntime"
  /\ UNCHANGED <<opened, storeOpen, faulty, drainVars, executing>>

RuntimeClosed ==
  /\ stage = "awaitingRuntime" /\ shutdown = "none"
  /\ faulty' = (faulty \/ ~ closed)
  /\ stage' = "closingStore"
  /\ UNCHANGED <<managerVars, opened, storeOpen, drainVars, executing>>

StoreCloses ==
  /\ stage = "closingStore"
  /\ storeOpen' = FALSE
  /\ stage' = "closed"
  /\ UNCHANGED <<managerVars, opened, faulty, drainVars, executing>>

------------------------------------------------------------------------------
ServerInit ==
  /\ ManagerInit
  /\ stage = "runtime" /\ opened = {} /\ storeOpen = FALSE /\ faulty = FALSE
  /\ drain = "none" /\ admitting = TRUE /\ drained = FALSE /\ fatal = FALSE
  /\ executing = {}

StartStep == Opens \/ Listens \/ OpenFails
DrainStep == GraceEnds \/ RuntimeAnswers \/ SecondGraceEnds
CloseStep == AppCloses \/ CoordinatorCloses \/ RuntimeCalled \/ RuntimeClosed \/ StoreCloses

ServerNext ==
  \/ StartStep \/ CloseCalled \/ CloseStep \/ DrainStep
  \/ \E r \in Call : Admit(r) \/ Finish(r)
  \/ RestartRequest
  \/ ManagerStep /\ UNCHANGED <<stageVars, drainVars, executing>>

\* Timers fire and what is awaited is seen; of the runtime, ManagerFairness.
ServerFairness ==
  /\ ManagerFairness
  /\ WF_serverVars(stage = "close" /\ CloseCalled)
  /\ WF_serverVars(CloseStep) /\ WF_serverVars(DrainStep)

ServerSpec == ServerInit /\ [][ServerNext]_serverVars

------------------------------------------------------------------------------
\* A close that reports no error has closed the store, the runtime with its process and
\* directory, and has left no execution behind that still writes, unless the coordinator
\* said so.  That also holds when the first shutdown failed and the second repaired it,
\* and when only a part had been opened.
CleanCloseLeavesNothing ==
  stage = "closed" /\ ~ faulty =>
    /\ ~ storeOpen
    /\ alive = {}
    /\ "runtime" \in opened => closed /\ ~ root
    /\ executing = {} \/ fatal

\* The store outlives the executions that write to it, except those whose shutdown failed.
StoreOutlivesExecutions == executing # {} => storeOpen \/ fatal \/ faulty

\* close ends, whatever was opened and whatever fails, and although the agent may never answer.
CloseEnds == stage \in {"close", "closingApp"} ~> stage = "closed"
================================================================================
