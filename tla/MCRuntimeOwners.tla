--------------------------- MODULE MCRuntimeOwners ---------------------------
(***************************************************************************)
(* The four owners of an SDK process for TLC: the adapter of the Python    *)
(* service, the supervisor on its own and in its pool, the manager of the  *)
(* AG-UI runtime on its own and in its server.  They share nothing, so a   *)
(* behaviour is one of one of them, and the others stay where they start.  *)
(***************************************************************************)
EXTENDS RuntimeAdapter, RuntimePool, TLC

CONSTANTS a, b, z, h1, h2, Call, Process

\* The code's undefined is 0 here, and no process is.
ASSUME OwnersConstants == 0 \notin Process

VARIABLES
  which,
  owner, attempted, alive, root, home, startupFatal, transition, lost, closed,
  startup, restart, shutdown, call,
  stage, opened, storeOpen, faulty, drain, admitting, drained, fatal, executing

Server == INSTANCE ApplicationServer

appVars    == <<stage, opened, storeOpen, faulty, drain, admitting, drained, fatal, executing>>
serverVars == <<owner, attempted, alive, root, home, startupFatal, transition, lost, closed,
                startup, restart, shutdown, call, appVars>>

MCInit ==
  /\ which \in {"adapter", "supervisor", "pool", "manager", "server"}
  /\ Init /\ PoolInit /\ Server!ServerInit

MCNext ==
  /\ UNCHANGED which
  /\ \/ which = "adapter" /\ Next /\ UNCHANGED <<slotVars, serverVars>>
     \/ which = "supervisor" /\ SupNext /\ UNCHANGED <<vars, poolVars, serverVars>>
     \/ which = "pool" /\ PoolNext /\ UNCHANGED <<vars, serverVars>>
     \/ which = "manager" /\ Server!ManagerNext
        /\ UNCHANGED <<vars, slotVars, appVars>>
     \/ which = "server" /\ Server!ServerNext /\ UNCHANGED <<vars, slotVars>>

MCSpec ==
  /\ MCInit /\ [][MCNext]_<<which, vars, slotVars, serverVars>>
  /\ Fairness /\ PoolFairness /\ Server!ServerFairness

------------------------------------------------------------------------------
OwnersTypeOK == TypeOK /\ PoolTypeOK /\ Server!ManagerTypeOK

\* SdkRuntimeAdapter: whatever fails or is cancelled, at most one harness is open, and a
\* session runs only on one that no reset or cleanup has given up; and every variable of the
\* four owners has its type.
HarnessesAreSound == OwnersTypeOK /\ NoHarnessLeaks /\ SessionOnSoundHarness

\* package-runtime.ts: no process is forgotten that may still be alive, and a restart never
\* takes it from under a run.
ProcessesAreRemembered == Server!NoProcessForgotten /\ Server!RestartSparesRuns

\* RuntimePool: no hand-over is missed and nobody is overtaken; close waits for the leases
\* and says it is done only of slots without an owner.
QueueIsServed == QueueDiscipline /\ ClosesIdleSlots

\* entry.ts: a close without an error has left nothing behind, and the store is closed after
\* the executions that write to it.
CloseIsHonest == Server!CleanCloseLeavesNothing /\ Server!StoreOutlivesExecutions

\* Both runtimes keep what their coordinators rely on: "unavailable" is said only of an input
\* that never reached the agent, and a prompt reaches only a process that is sound.
ContractsAreKept == KeepsContract /\ Server!PromptsReachSoundProcess

\* Every call of the owners is answered, and every close ends, as long as the SDK calls do.
OwnersAnswer == CallsReturn /\ PoolSettles /\ Server!ManagerAnswers /\ Server!CloseEnds
==============================================================================
