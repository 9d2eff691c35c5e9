-------------------------- MODULE RuntimeOwnersProofs --------------------------
(***************************************************************************)
(* The theorems about the owners of an SDK process, for every number of    *)
(* them and of their callers: no process is forgotten, none is taken from  *)
(* under a run, and a close without an error has left nothing behind.      *)
(*                                                                         *)
(* The first section is about PackageRuntimeManager, the second about the  *)
(* server around it, the last about MCSpec, where the adapter and the      *)
(* supervisor come in with the theorems of their own modules.              *)
(***************************************************************************)
EXTENDS MCRuntimeOwners, RuntimeAdapterProofs, RuntimePoolProofs

------------------------------------------------------------------------------
(***************************************************************************)
(* RuntimeManager                                                          *)
(***************************************************************************)

\* The one startup is that of the calls that wait for it, and it is alone with them: no
\* owner, no restart, no error since it began, and a shutdown waits for it.
StartupIsAlone ==
  /\ startup # "none" <=> \E r \in Call : call[r] = "startup"
  /\ startup # "none" =>
       /\ owner = 0 /\ root /\ startupFatal = "none" /\ ~ lost /\ ~ closed
       /\ transition # "restarting" /\ shutdown \in {"none", "waiting"}
  /\ IF startup \in {"starting", "closing"} THEN attempted \in alive
     ELSE attempted # 0 => startupFatal = "uncertain"

\* restart and shutdown follow each other, remove a directory only after the process that
\* ran from it, and leave the transition that keeps calls out until they are through.
CleanupIsOrdered ==
  /\ restart # "none" => transition # "idle" /\ shutdown \in {"none", "waiting"} /\ ~ closed
  /\ restart = "removing" => alive = {}
  /\ restart = "preparing" => ~ root
  /\ ~ root => owner = 0 /\ attempted = 0
  /\ shutdown # "none" \/ closed => transition = "shutting-down"
  /\ shutdown # "none" => ~ closed
  /\ shutdown = "removing" => alive = {}

\* A call that is with the agent has an owner, and one that may come in finds it alive.
PromptsHaveOwners ==
  /\ \A r \in Call : call[r] = "prompt" => owner # 0 \/ closed
  /\ transition = "idle" => owner \in alive \cup {0}

ManagerInv ==
  /\ Server!ManagerTypeOK /\ Server!NoProcessForgotten /\ Server!RestartSparesRuns
  /\ StartupIsAlone /\ CleanupIsOrdered /\ PromptsHaveOwners

\* A new manager has no owner.
LEMMA ManagerInitInv == Server!ManagerInit => ManagerInv
  BY DEF Server!ManagerInit, ManagerInv, Server!ManagerTypeOK, Server!NoProcessForgotten,
     Server!RestartSparesRuns, StartupIsAlone, CleanupIsOrdered, PromptsHaveOwners,
     Server!activeRuns, Server!Pending

\* The continuations of the manager keep its invariant,
LEMMA ManagerStepKeepsInv ==
  ASSUME ManagerInv, Server!ManagerStep
  PROVE  ManagerInv'
<1> USE OwnersConstants
    DEF ManagerInv, Server!ManagerTypeOK, Server!NoProcessForgotten, Server!RestartSparesRuns,
        StartupIsAlone, CleanupIsOrdered, PromptsHaveOwners, Server!activeRuns, Server!Pending,
        Server!ownerVars, Server!diskVars, Server!flagVars, Server!shutdownRequested,
        Server!Closable, Server!Resumed
<1>1. ASSUME NEW r \in Call, Server!Answer(r) PROVE ManagerInv'
  BY <1>1 DEF Server!Answer
<1>2. CASE Server!VerificationFails
  BY <1>2 DEF Server!VerificationFails
<1>3. CASE Server!HarnessMade
  BY <1>3 DEF Server!HarnessMade
<1>4. CASE Server!HarnessStarted
  BY <1>4 DEF Server!HarnessStarted
<1>5. CASE Server!StartFails
  BY <1>5 DEF Server!StartFails
<1>6. CASE Server!AttemptClosed
  BY <1>6 DEF Server!AttemptClosed
<1>7. CASE Server!RestartClosed
  BY <1>7 DEF Server!RestartClosed, Server!OwnerCloses
<1>8. CASE Server!RestartRemoved
  <2>1. owner' = 0 /\ attempted' = 0 /\ alive = {} /\ startup = "none" /\ Server!activeRuns = {}
    BY <1>8 DEF Server!RestartRemoved
  <2>2. CASE root' = FALSE /\ home' = FALSE
    BY <1>8, <2>1, <2>2 DEF Server!RestartRemoved
  <2>3. CASE UNCHANGED <<root, home>>
    BY <1>8, <2>1, <2>3 DEF Server!RestartRemoved
  <2> QED
    BY <1>8, <2>2, <2>3 DEF Server!RestartRemoved
<1>9. CASE Server!RestartPrepared
  BY <1>9 DEF Server!RestartPrepared
<1>10. CASE Server!ShutdownWaited
  BY <1>10 DEF Server!ShutdownWaited
<1>11. CASE Server!ShutdownClosed
  BY <1>11 DEF Server!ShutdownClosed, Server!OwnerCloses
<1>12. CASE Server!ShutdownRemoved
  <2>1. alive = {} /\ startup = "none" /\ restart = "none" /\ transition = "shutting-down"
    BY <1>12 DEF Server!ShutdownRemoved
  <2>2. CASE root' = FALSE /\ home' = FALSE /\ owner' = 0 /\ attempted' = 0 /\ closed' = TRUE
    BY <1>12, <2>1, <2>2 DEF Server!ShutdownRemoved
  <2>3. CASE UNCHANGED <<root, home, owner, attempted, startupFatal, closed>>
    BY <1>12, <2>1, <2>3 DEF Server!ShutdownRemoved
  <2> QED
    BY <1>12, <2>2, <2>3 DEF Server!ShutdownRemoved
<1> QED
  BY <1>1, <1>2, <1>3, <1>4, <1>5, <1>6, <1>7, <1>8, <1>9, <1>10, <1>11, <1>12
     DEF Server!ManagerStep, Server!StartupStep, Server!RestartStep, Server!ShutdownStep

\* and so do its calls.
LEMMA ManagerCallKeepsInv ==
  ASSUME ManagerInv, (\E r \in Call : Server!Run(r)) \/ Server!Restart \/ Server!Shutdown
  PROVE  ManagerInv'
<1> USE OwnersConstants
    DEF ManagerInv, Server!ManagerTypeOK, Server!NoProcessForgotten, Server!RestartSparesRuns,
        StartupIsAlone, CleanupIsOrdered, PromptsHaveOwners, Server!activeRuns, Server!Pending,
        Server!ownerVars, Server!diskVars, Server!flagVars, Server!shutdownRequested,
        Server!Closable
<1>1. ASSUME NEW r \in Call, Server!Run(r) PROVE ManagerInv'
  BY <1>1 DEF Server!Run, Server!Refusal
<1>2. CASE Server!Restart
  BY <1>2 DEF Server!Restart
<1>3. CASE Server!Shutdown
  BY <1>3 DEF Server!Shutdown
<1> QED
  BY <1>1, <1>2, <1>3

\* Every step of the manager keeps the invariant.
LEMMA ManagerNextKeepsInv ==
  ASSUME ManagerInv, Server!ManagerNext \/ UNCHANGED Server!managerVars
  PROVE  ManagerInv'
<1>1. CASE UNCHANGED Server!managerVars
  BY <1>1 DEF Server!managerVars, Server!ownerVars, Server!diskVars, Server!flagVars,
     ManagerInv, Server!ManagerTypeOK, Server!NoProcessForgotten, Server!RestartSparesRuns,
     StartupIsAlone, CleanupIsOrdered, PromptsHaveOwners, Server!activeRuns
<1> QED
  BY <1>1, ManagerStepKeepsInv, ManagerCallKeepsInv DEF Server!ManagerNext

\* The two places where calls are handed to the agent: run, which finds an owner, and the end
\* of the startup that the call has waited for.
LEMMA PromptsAreSound ==
  ASSUME ManagerInv, Server!ManagerNext, NEW r \in Call,
         call[r] # "prompt", call'[r] = "prompt"
  PROVE  /\ owner' \in alive'
         /\ transition = "idle" /\ ~ lost /\ startupFatal = "none"
<1>1. /\ call \in [Call -> {"idle", "refused", "failed", "done", "uncertain"} \cup Server!Pending]
      /\ StartupIsAlone /\ PromptsHaveOwners
      /\ transition \in {"idle", "restarting", "shutting-down"}
      /\ startupFatal \in {"none", "cleanup", "uncertain"}
  BY DEF ManagerInv, Server!ManagerTypeOK
<1>2. CASE \E x \in Call : Server!Run(x)
  <2>1. PICK x \in Call : Server!Run(x)
    BY <1>2
  <2>2. x = r
    BY <1>1, <2>1 DEF Server!Run
  <2>3. Server!Refusal = "none" /\ owner # 0
    BY <1>1, <2>1, <2>2 DEF Server!Run, Server!Refusal
  <2>4. transition = "idle" /\ ~ lost /\ startupFatal = "none"
    BY <1>1, <2>3 DEF Server!Refusal
  <2>5. UNCHANGED <<owner, alive>>
    BY <2>1 DEF Server!Run, Server!ownerVars
  <2> QED
    BY <1>1, <2>3, <2>4, <2>5 DEF PromptsHaveOwners
<1>3. CASE Server!HarnessStarted
  BY <1>1, <1>3 DEF Server!HarnessStarted, Server!Resumed, Server!shutdownRequested, StartupIsAlone
<1>4. CASE \E x \in Call : Server!Answer(x)
  BY <1>1, <1>4 DEF Server!Answer
<1>5. ASSUME \/ Server!VerificationFails \/ Server!HarnessMade \/ Server!StartFails
             \/ Server!AttemptClosed \/ Server!RestartStep \/ Server!ShutdownStep
             \/ Server!Restart \/ Server!Shutdown
      PROVE  call'[r] = call[r] \/ call'[r] \in {"failed", "uncertain"}
  BY <1>5 DEF Server!VerificationFails, Server!HarnessMade, Server!StartFails,
     Server!AttemptClosed, Server!RestartStep, Server!ShutdownStep, Server!RestartClosed,
     Server!RestartRemoved, Server!RestartPrepared, Server!ShutdownWaited,
     Server!ShutdownClosed, Server!ShutdownRemoved, Server!Restart, Server!Shutdown,
     Server!Resumed
<1> QED
  BY <1>2, <1>3, <1>4, <1>5 DEF Server!ManagerNext, Server!ManagerStep, Server!StartupStep

------------------------------------------------------------------------------
(***************************************************************************)
(* ApplicationServer                                                       *)
(***************************************************************************)

\* What was opened at each stage: a prefix of the order of Opens, of which close takes the
\* part with the coordinator's shutdown only if the app is there.
OpenedInOrder ==
  /\ "app" \in opened => "runtime" \in opened /\ "store" \in opened /\ "coordinator" \in opened
  /\ stage \in {"store", "coordinator", "app", "listen", "up", "closingRuntime",
                "awaitingRuntime"} => "runtime" \in opened
  /\ stage \in {"coordinator", "app"} => "store" \in opened
  /\ stage = "app" => "coordinator" \in opened
  /\ stage \in {"listen", "up", "closingApp", "closingCoordinator"} => "app" \in opened
  /\ stage \in {"runtime", "closingRuntime", "awaitingRuntime"} => "app" \notin opened
  /\ IF stage = "closed" THEN ~ storeOpen ELSE "store" \in opened <=> storeOpen

\* Without an app nothing has called the runtime yet.
QuietBeforeApp ==
  "app" \notin opened =>
    /\ owner = 0 /\ attempted = 0 /\ alive = {} /\ startup = "none" /\ restart = "none"
    /\ executing = {}

\* How far coordinator.shutdown is tells what is left: it says "ok" only of a closed runtime,
\* and of executions that have ended or that it has failed over.
DrainIsOrdered ==
  /\ drain # "none" => ~ admitting
  /\ drained => closed /\ ~ admitting /\ (executing = {} \/ fatal)
  /\ drain = "runtimeClose" => executing = {}
  /\ drain = "secondGrace" => closed
  /\ drain = "ok" => drained

\* A close that has come to the store without an error has closed what it took apart.
ClosedSoFar ==
  stage \in {"closingStore", "closed"} /\ ~ faulty =>
    /\ "runtime" \in opened => closed
    /\ "app" \in opened => drained

ServerTypeOK ==
  /\ storeOpen \in BOOLEAN /\ faulty \in BOOLEAN
  /\ admitting \in BOOLEAN /\ drained \in BOOLEAN /\ fatal \in BOOLEAN
  /\ executing \subseteq Call

ServerInv == ServerTypeOK /\ OpenedInOrder /\ QuietBeforeApp /\ DrainIsOrdered /\ ClosedSoFar

\* A server that was not opened has nothing.
LEMMA ServerInitInv == Server!ServerInit => ManagerInv /\ ServerInv
<1>1. Server!ServerInit => ServerInv
  BY DEF Server!ServerInit, Server!ManagerInit, ServerInv, ServerTypeOK, OpenedInOrder,
     QuietBeforeApp, DrainIsOrdered, ClosedSoFar
<1> QED
  BY <1>1, ManagerInitInv DEF Server!ServerInit

\* Every step of the server is one of the manager, or leaves it alone.
LEMMA ServerStepsManager ==
  Server!ServerNext => Server!ManagerNext \/ UNCHANGED Server!managerVars
  BY DEF Server!ServerNext, Server!ManagerNext, Server!StartStep, Server!DrainStep,
     Server!CloseStep, Server!Opens, Server!Listens, Server!OpenFails, Server!CloseCalled,
     Server!AppCloses, Server!CoordinatorCloses, Server!RuntimeCalled, Server!RuntimeClosed,
     Server!StoreCloses, Server!GraceEnds, Server!RuntimeAnswers, Server!SecondGraceEnds,
     Server!Admit, Server!Finish, Server!RestartRequest

\* closed is for good, as long as the manager's invariant holds.
LEMMA ClosedStays ==
  ASSUME Server!ManagerNext
  PROVE  closed => closed'
  BY DEF Server!ManagerNext, Server!ManagerStep, Server!Run, Server!Restart, Server!Shutdown,
     Server!Answer, Server!StartupStep, Server!RestartStep, Server!ShutdownStep,
     Server!VerificationFails, Server!HarnessMade, Server!HarnessStarted, Server!StartFails,
     Server!AttemptClosed, Server!RestartClosed, Server!RestartRemoved,
     Server!RestartPrepared, Server!ShutdownWaited, Server!ShutdownClosed,
     Server!ShutdownRemoved, Server!flagVars

\* A quiet manager that nobody calls stays so.
LEMMA QuietStays ==
  ASSUME Server!ManagerStep \/ Server!Shutdown,
         owner = 0, attempted = 0, alive = {}, startup = "none", restart = "none"
  PROVE  owner' = 0 /\ attempted' = 0 /\ alive' = {} /\ startup' = "none" /\ restart' = "none"
  BY DEF Server!ManagerStep, Server!Shutdown, Server!Answer, Server!StartupStep,
     Server!RestartStep, Server!ShutdownStep, Server!VerificationFails, Server!HarnessMade,
     Server!HarnessStarted, Server!StartFails, Server!AttemptClosed, Server!RestartClosed,
     Server!RestartRemoved, Server!RestartPrepared, Server!ShutdownWaited,
     Server!ShutdownClosed, Server!ShutdownRemoved, Server!OwnerCloses, Server!ownerVars

\* Every step of the server keeps what it says of its parts.
LEMMA ServerKeepsInv ==
  ASSUME ManagerInv, ServerInv, Server!ServerNext
  PROVE  ServerInv'
<1> USE DEF ServerInv, Server!managerVars, Server!stageVars, Server!drainVars, Server!ownerVars,
            Server!flagVars
<1>1. CASE Server!Opens
  <2>1. PICK part \in {"runtime", "store", "coordinator", "app"} :
          /\ stage = part /\ opened' = opened \cup {part}
          /\ storeOpen' = (storeOpen \/ part = "store")
          /\ stage' = IF part = "runtime" THEN "store" ELSE IF part = "store" THEN "coordinator"
                      ELSE IF part = "coordinator" THEN "app" ELSE "listen"
    BY <1>1 DEF Server!Opens, Server!Following
  <2>2. UNCHANGED <<Server!managerVars, faulty, Server!drainVars, executing>>
    BY <1>1 DEF Server!Opens
  <2> QED
    BY <2>1, <2>2 DEF ServerTypeOK, OpenedInOrder, QuietBeforeApp,
       DrainIsOrdered, ClosedSoFar
<1>2. CASE Server!Listens \/ Server!OpenFails \/ Server!CloseCalled
  BY <1>2 DEF ServerTypeOK, OpenedInOrder, QuietBeforeApp, DrainIsOrdered,
     ClosedSoFar, Server!Listens, Server!OpenFails, Server!CloseCalled, Server!DrainCalled,
     Server!Startup
<1>3. CASE Server!AppCloses
  <2>1. /\ admitting' = FALSE /\ drained' = drained /\ fatal' = fatal
        /\ drain' = IF drained THEN "ok" ELSE "grace"
        /\ stage' = "closingCoordinator" /\ stage = "closingApp" /\ faulty' \in BOOLEAN
    BY <1>3 DEF Server!AppCloses, Server!DrainCalled, ServerTypeOK, DrainIsOrdered
  <2>2. UNCHANGED <<Server!managerVars, opened, storeOpen, executing>>
    BY <1>3 DEF Server!AppCloses
  <2>3. ServerTypeOK' /\ OpenedInOrder' /\ QuietBeforeApp'
    BY <2>1, <2>2 DEF ServerTypeOK, OpenedInOrder, QuietBeforeApp
  <2>4. DrainIsOrdered'
    BY <2>1, <2>2 DEF ServerTypeOK, DrainIsOrdered
  <2>5. ClosedSoFar'
    BY <2>1, <2>2 DEF ServerTypeOK, OpenedInOrder, DrainIsOrdered, ClosedSoFar
  <2> QED
    BY <2>3, <2>4, <2>5 DEF ServerInv
<1>4. CASE Server!CoordinatorCloses
  <2>1. /\ stage = "closingCoordinator" /\ stage' = "closingStore" /\ faulty' \in BOOLEAN
        /\ ~ faulty' => drain = "ok"
    BY <1>4 DEF Server!CoordinatorCloses, ServerTypeOK
  <2>2. UNCHANGED <<Server!managerVars, opened, storeOpen, Server!drainVars, executing>>
    BY <1>4 DEF Server!CoordinatorCloses
  <2> QED
    BY <2>1, <2>2 DEF ServerTypeOK, OpenedInOrder, QuietBeforeApp,
       DrainIsOrdered, ClosedSoFar
<1>11. CASE Server!RuntimeCalled \/ Server!StoreCloses
  <2>1. UNCHANGED <<opened, faulty, Server!drainVars, executing>>
    BY <1>11 DEF Server!RuntimeCalled, Server!StoreCloses
  <2>2. CASE Server!RuntimeCalled
    BY <2>1, <2>2, QuietStays DEF ServerTypeOK, OpenedInOrder, QuietBeforeApp, DrainIsOrdered,
       ClosedSoFar, Server!RuntimeCalled, Server!Shutdown
  <2>3. CASE Server!StoreCloses
    <3>1. stage = "closingStore" /\ stage' = "closed" /\ storeOpen' = FALSE
      BY <2>3 DEF Server!StoreCloses
    <3>2. UNCHANGED Server!managerVars
      BY <2>3 DEF Server!StoreCloses
    <3>3. ServerTypeOK' /\ OpenedInOrder' /\ QuietBeforeApp'
      BY <2>1, <3>1, <3>2 DEF ServerTypeOK, OpenedInOrder, QuietBeforeApp
    <3>4. DrainIsOrdered' /\ ClosedSoFar'
      BY <2>1, <3>1, <3>2 DEF ServerTypeOK, DrainIsOrdered, ClosedSoFar
    <3> QED
      BY <3>3, <3>4
  <2> QED
    BY <1>11, <2>2, <2>3
<1>12. CASE Server!RuntimeClosed
  <2>1. /\ stage = "awaitingRuntime" /\ stage' = "closingStore" /\ faulty' \in BOOLEAN
        /\ ~ faulty' => closed
    BY <1>12 DEF Server!RuntimeClosed, ServerTypeOK
  <2>2. UNCHANGED <<Server!managerVars, opened, storeOpen, Server!drainVars, executing>>
    BY <1>12 DEF Server!RuntimeClosed
  <2>3. ServerTypeOK' /\ OpenedInOrder' /\ QuietBeforeApp'
    BY <2>1, <2>2 DEF ServerTypeOK, OpenedInOrder, QuietBeforeApp
  <2>4. DrainIsOrdered'
    BY <2>1, <2>2 DEF ServerTypeOK, DrainIsOrdered
  <2>5. ClosedSoFar'
    BY <2>1, <2>2 DEF ServerTypeOK, OpenedInOrder, DrainIsOrdered, ClosedSoFar
  <2> QED
    BY <2>3, <2>4, <2>5 DEF ServerInv
<1>5. CASE Server!GraceEnds
  <2>1. /\ UNCHANGED <<closed, admitting, drained, executing, Server!stageVars>>
        /\ drain = "grace" /\ fatal' \in BOOLEAN /\ (fatal => fatal')
        /\ \/ drain' = "runtimeClose" /\ executing = {}
           \/ drain' = "runtimeShutdown"
    BY <1>5 DEF Server!GraceEnds, Server!Shutdown, ServerTypeOK
  <2>2. QuietBeforeApp'
    BY <1>5, <2>1, QuietStays DEF Server!GraceEnds, QuietBeforeApp
  <2>3. ServerTypeOK' /\ OpenedInOrder' /\ QuietBeforeApp'
    BY <2>1, <2>2 DEF ServerTypeOK, OpenedInOrder, QuietBeforeApp
  <2>4. DrainIsOrdered'
    BY <2>1, <2>2 DEF ServerTypeOK, DrainIsOrdered
  <2>5. ClosedSoFar'
    BY <2>1, <2>2 DEF ServerTypeOK, OpenedInOrder, DrainIsOrdered, ClosedSoFar
  <2> QED
    BY <2>3, <2>4, <2>5 DEF ServerInv
<1>6. CASE Server!RuntimeAnswers
  <2>1. UNCHANGED <<Server!managerVars, Server!stageVars, admitting, fatal, executing>>
    BY <1>6 DEF Server!RuntimeAnswers
  <2>2. /\ drain \in {"runtimeClose", "runtimeShutdown"}
        /\ \/ drain' = "error" /\ drained' = drained
           \/ closed /\ drain = "runtimeClose" /\ drain' = "ok" /\ drained' = TRUE
           \/ closed /\ drain' = "secondGrace" /\ drained' = drained
    BY <1>6 DEF Server!RuntimeAnswers
  <2>3. ServerTypeOK' /\ OpenedInOrder' /\ QuietBeforeApp'
    BY <2>1, <2>2 DEF ServerTypeOK, OpenedInOrder, QuietBeforeApp
  <2>4. DrainIsOrdered'
    BY <2>1, <2>2 DEF ServerTypeOK, DrainIsOrdered
  <2>5. ClosedSoFar'
    BY <2>1, <2>2 DEF ServerTypeOK, OpenedInOrder, DrainIsOrdered, ClosedSoFar
  <2> QED
    BY <2>3, <2>4, <2>5 DEF ServerInv
<1>13. CASE Server!SecondGraceEnds
  <2>1. UNCHANGED <<Server!managerVars, Server!stageVars, admitting, executing>>
    BY <1>13 DEF Server!SecondGraceEnds
  <2>2. /\ drain = "secondGrace" /\ drain' \in {"error", "ok"} /\ drained' = TRUE
        /\ fatal' \in BOOLEAN /\ (fatal \/ executing # {} => fatal')
    BY <1>13 DEF Server!SecondGraceEnds, ServerTypeOK
  <2>3. ServerTypeOK' /\ OpenedInOrder' /\ QuietBeforeApp'
    BY <2>1, <2>2 DEF ServerTypeOK, OpenedInOrder, QuietBeforeApp
  <2>4. DrainIsOrdered'
    BY <2>1, <2>2 DEF ServerTypeOK, DrainIsOrdered
  <2>5. ClosedSoFar'
    BY <2>1, <2>2 DEF ServerTypeOK, OpenedInOrder, DrainIsOrdered, ClosedSoFar
  <2> QED
    BY <2>3, <2>4, <2>5 DEF ServerInv
<1>7. ASSUME NEW r \in Call, Server!Admit(r)
      PROVE  ServerInv'
  BY <1>7 DEF ServerTypeOK, OpenedInOrder, QuietBeforeApp, DrainIsOrdered,
     ClosedSoFar, Server!Admit, Server!Run, Server!flagVars
<1>8. ASSUME NEW r \in Call, Server!Finish(r)
      PROVE  ServerInv'
  BY <1>8 DEF ServerTypeOK, OpenedInOrder, QuietBeforeApp, DrainIsOrdered,
     ClosedSoFar, Server!Finish
<1>9. CASE Server!RestartRequest
  BY <1>9 DEF ServerTypeOK, OpenedInOrder, QuietBeforeApp, DrainIsOrdered,
     ClosedSoFar, Server!RestartRequest, Server!Restart
<1>10. CASE Server!ManagerStep /\ UNCHANGED <<Server!stageVars, Server!drainVars, executing>>
  <2>1. closed => closed'
    BY <1>10, ClosedStays DEF Server!ManagerNext
  <2> QED
    BY <1>10, <2>1, QuietStays DEF ServerTypeOK, OpenedInOrder, QuietBeforeApp, DrainIsOrdered,
     ClosedSoFar
<1> QED
  BY <1>1, <1>2, <1>3, <1>4, <1>5, <1>6, <1>7, <1>8, <1>9, <1>10, <1>11, <1>12, <1>13
     DEF Server!ServerNext, Server!StartStep, Server!CloseStep, Server!DrainStep

\* The invariants contain what the properties say.
LEMMA ServerIsHonest ==
  ManagerInv /\ ServerInv => Server!CleanCloseLeavesNothing /\ Server!StoreOutlivesExecutions
<1> SUFFICES ASSUME ManagerInv, ServerInv
             PROVE  Server!CleanCloseLeavesNothing /\ Server!StoreOutlivesExecutions
  OBVIOUS
<1> USE DEF ServerInv, ServerTypeOK, OpenedInOrder, QuietBeforeApp, DrainIsOrdered, ClosedSoFar
<1>1. Server!NoProcessForgotten
  BY DEF ManagerInv
<1>2. ASSUME stage = "closed", ~ faulty
      PROVE  alive = {} /\ (executing = {} \/ fatal)
  <2>1. CASE "app" \in opened
    BY <1>1, <1>2, <2>1 DEF Server!NoProcessForgotten
  <2>2. CASE "app" \notin opened
    BY <1>2, <2>2
  <2> QED
    BY <2>1, <2>2
<1>3. Server!CleanCloseLeavesNothing
  BY <1>1, <1>2 DEF Server!CleanCloseLeavesNothing, Server!NoProcessForgotten
<1>4. ASSUME executing # {}
      PROVE  storeOpen \/ fatal \/ faulty
  <2>1. "app" \in opened
    BY <1>4
  <2>2. CASE stage = "closed"
    BY <1>2, <1>4, <2>2
  <2>3. CASE stage # "closed"
    BY <2>1, <2>3
  <2> QED
    BY <2>2, <2>3
<1> QED
  BY <1>3, <1>4 DEF Server!StoreOutlivesExecutions

------------------------------------------------------------------------------
(***************************************************************************)
(* MCSpec                                                                  *)
(***************************************************************************)

\* The pool of a supervisor that is called directly.
PoolAtRest ==
  /\ pool = "open" /\ queue = << >> /\ blocked = {}
  /\ lease = [s \in Slot |-> 0]
  /\ request = [r \in Request |-> "new"]

\* The server of a manager that is called directly.
ServerAtRest == stage # "closed" /\ executing = {}

OwnersInv ==
  /\ AdapterInv /\ ManagerInv
  /\ IF which = "supervisor" THEN IInv /\ PoolAtRest ELSE PoolInv
  /\ IF which = "manager" THEN ServerAtRest ELSE ServerInv

\* Every component starts in its invariant.
LEMMA OwnersInitInv == MCInit => OwnersInv
<1> SUFFICES ASSUME MCInit PROVE OwnersInv
  OBVIOUS
<1>1. AdapterInv /\ PoolInv /\ IInv /\ ManagerInv /\ ServerInv
  BY InitInv, PoolInitInv, InitOwned, ServerInitInv DEF MCInit, PoolInit
<1>2. PoolAtRest /\ ServerAtRest
  BY DEF MCInit, PoolInit, PoolAtRest, Server!ServerInit, ServerAtRest
<1> QED
  BY <1>1, <1>2 DEF OwnersInv

\* What does not move keeps its invariant.
LEMMA OthersKeep ==
  /\ AdapterInv /\ UNCHANGED vars => AdapterInv'
  /\ PoolInv /\ UNCHANGED slotVars => PoolInv'
  /\ IInv /\ UNCHANGED slotVars => IInv'
  /\ PoolAtRest /\ UNCHANGED poolVars => PoolAtRest'
  /\ ManagerInv /\ UNCHANGED serverVars => ManagerInv'
  /\ ServerInv /\ UNCHANGED serverVars => ServerInv'
  /\ ServerAtRest /\ UNCHANGED appVars => ServerAtRest'
<1>1. UNCHANGED slotVars => UNCHANGED supVars
  BY DEF slotVars
<1>2. UNCHANGED serverVars => UNCHANGED Server!managerVars
  BY DEF serverVars, Server!managerVars, Server!ownerVars, Server!diskVars, Server!flagVars
<1>3. ServerInv /\ UNCHANGED serverVars => ServerInv'
  BY DEF serverVars, appVars, ServerInv, ServerTypeOK, OpenedInOrder, QuietBeforeApp,
     DrainIsOrdered, ClosedSoFar
<1>4. PoolAtRest /\ UNCHANGED poolVars => PoolAtRest'
  BY DEF poolVars, PoolAtRest
<1>5. ServerAtRest /\ UNCHANGED appVars => ServerAtRest'
  BY DEF appVars, ServerAtRest
<1> QED
  BY <1>1, <1>2, <1>3, <1>4, <1>5, NextKeepsInv, PoolNextKeepsInv, NextOwned,
     ManagerNextKeepsInv

\* A step is one of one component, and the others stand still.
LEMMA OwnersKeepInv ==
  ASSUME OwnersInv, [MCNext]_<<which, vars, slotVars, serverVars>>
  PROVE  OwnersInv'
<1>1. CASE UNCHANGED <<which, vars, slotVars, serverVars>>
  BY <1>1, OthersKeep DEF OwnersInv, slotVars, serverVars
<1>2. CASE which = "adapter" /\ Next /\ UNCHANGED <<which, slotVars, serverVars>>
  BY <1>2, OthersKeep, NextKeepsInv DEF OwnersInv
<1>3. CASE which = "supervisor" /\ SupNext /\ UNCHANGED <<which, vars, poolVars, serverVars>>
  BY <1>3, OthersKeep, NextOwned DEF OwnersInv
<1>4. CASE which = "pool" /\ PoolNext /\ UNCHANGED <<which, vars, serverVars>>
  BY <1>4, OthersKeep, PoolNextKeepsInv DEF OwnersInv
<1>5. CASE which = "manager" /\ Server!ManagerNext /\ UNCHANGED <<which, vars, slotVars, appVars>>
  BY <1>5, OthersKeep, ManagerNextKeepsInv DEF OwnersInv
<1>6. CASE which = "server" /\ Server!ServerNext /\ UNCHANGED <<which, vars, slotVars>>
  BY <1>6, OthersKeep, ManagerNextKeepsInv, ServerStepsManager, ServerKeepsInv DEF OwnersInv
<1> QED
  BY <1>1, <1>2, <1>3, <1>4, <1>5, <1>6 DEF MCNext

\* The invariant of the four owners together.
THEOREM OwnersInvariance == MCSpec => []OwnersInv
<1>1. OwnersInv /\ [MCNext]_<<which, vars, slotVars, serverVars>> => OwnersInv'
  BY OwnersKeepInv
<1> QED
  BY <1>1, OwnersInitInv, PTL DEF MCSpec

\* What holds of a supervisor that is called directly and of one in a pool.
LEMMA PoolIsServed ==
  OwnersInv => PoolTypeOK /\ QueueIsServed /\ OneOwner
<1> SUFFICES ASSUME OwnersInv PROVE PoolTypeOK /\ QueueIsServed /\ OneOwner
  OBVIOUS
<1>1. IInv
  BY PoolInvIsEnough DEF OwnersInv
<1>2. OneOwner
  BY <1>1, OwnedIsOne
<1>3. CASE which # "supervisor"
  BY <1>2, <1>3, PoolInvIsEnough DEF OwnersInv, QueueIsServed
<1>4. CASE which = "supervisor"
  <2>1. PoolAtRest
    BY <1>4 DEF OwnersInv
  <2>2. queue \in Seq(Request) /\ DOMAIN queue = {}
    BY <2>1, EmptySeq, LenProperties DEF PoolAtRest
  <2>3. PoolTypeOK
    BY <1>1, <2>1, <2>2, PoolConstants DEF PoolAtRest, PoolTypeOK, SupTypeOK, IInv, Supervisor
  <2>4. QueueIsServed
    BY <2>1, <2>2 DEF PoolAtRest, QueueIsServed, QueueDiscipline, ClosesIdleSlots, Waiting
  <2> QED
    BY <1>2, <2>3, <2>4
<1> QED
  BY <1>3, <1>4

\* However starts, sessions, resets and closes of the adapter fail, overlap or are cancelled,
\* at most one harness is open, the adapter holds it, and sessions run on a sound one.
THEOREM SoundHarnesses == MCSpec => []HarnessesAreSound
<1>1. OwnersInv => HarnessesAreSound
  BY PoolIsServed, InvIsSound DEF OwnersInv, ManagerInv, HarnessesAreSound, OwnersTypeOK
<1> QED
  BY <1>1, OwnersInvariance, PTL

\* In every order of leases, deadlines, aborts and failures a request waits only while no
\* slot could serve it, in its turn, and the pool's close waits for the leases.
THEOREM QueueServed == MCSpec => []QueueIsServed
<1>1. OwnersInv => QueueIsServed
  BY PoolIsServed
<1> QED
  BY <1>1, OwnersInvariance, PTL

\* No slot has two owners that are not closed, leased by a pool or called by itself.
THEOREM OwnersAreSingle == MCSpec => []OneOwner
<1>1. OwnersInv => OneOwner
  BY PoolIsServed
<1> QED
  BY <1>1, OwnersInvariance, PTL

\* PackageRuntimeManager forgets no process that may be alive, whatever of its start, its
\* restarts and its shutdown fails, and no restart takes the process from under a run.
THEOREM ProcessesRemembered == MCSpec => []ProcessesAreRemembered
<1>1. OwnersInv => ProcessesAreRemembered
  BY DEF OwnersInv, ManagerInv, ProcessesAreRemembered
<1> QED
  BY <1>1, OwnersInvariance, PTL

\* A server that closes without an error has left no process, no directory and no execution
\* that could write to a closed store.
THEOREM HonestClose == MCSpec => []CloseIsHonest
<1>1. ServerAtRest => CloseIsHonest
  BY DEF ServerAtRest, CloseIsHonest, Server!CleanCloseLeavesNothing,
     Server!StoreOutlivesExecutions
<1>2. OwnersInv => CloseIsHonest
  BY <1>1, ServerIsHonest DEF OwnersInv, CloseIsHonest
<1> QED
  BY <1>2, OwnersInvariance, PTL

\* "unavailable" is said only of an input that never reached the agent, and a prompt goes
\* only to a process that is alive, not being shut down, and has lost nothing.
THEOREM ContractsKept == MCSpec => ContractsAreKept
<1>1. MCInit => Init
  BY DEF MCInit
<1>2. [MCNext]_<<which, vars, slotVars, serverVars>> => [Next]_vars
  BY DEF MCNext
<1>3. MCSpec => Spec
  BY <1>1, <1>2, PTL DEF MCSpec, Spec
<1>4. ASSUME OwnersInv, [MCNext]_<<which, vars, slotVars, serverVars>>
      PROVE  [\A r \in Call : call[r] # "prompt" /\ call'[r] = "prompt" =>
                /\ owner' \in alive'
                /\ transition = "idle" /\ ~ lost /\ startupFatal = "none"]_(Server!managerVars)
  <2>1. Server!ManagerNext \/ UNCHANGED Server!managerVars
    BY <1>4, ServerStepsManager DEF MCNext, serverVars, Server!managerVars, Server!ownerVars,
       Server!diskVars, Server!flagVars
  <2> QED
    BY <1>4, <2>1, PromptsAreSound DEF OwnersInv
<1>5. MCSpec => Server!PromptsReachSoundProcess
  BY <1>4, OwnersInvariance, PTL DEF MCSpec, Server!PromptsReachSoundProcess
<1> QED
  BY <1>3, <1>5, ContractKept, PTL DEF ContractsAreKept
===============================================================================
