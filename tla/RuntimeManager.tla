----------------------------- MODULE RuntimeManager -----------------------------
(***************************************************************************)
(* PackageRuntimeManager of the AG-UI runtime (server/package-runtime.ts): *)
(* the owner of one harness process and of the directory it runs from (a   *)
(* generation), behind the DshRuntimePort the coordinator calls.           *)
(*                                                                         *)
(* A step is what runs between two awaits.  The calls of run that wait for *)
(* one startup resume together.                                            *)
(***************************************************************************)
EXTENDS Naturals, FiniteSets

CONSTANTS
  Call,     \* concurrent calls of run; the coordinator has two at most
  Process   \* identities of harness processes

VARIABLES
  owner, attempted,    \* harness, the process in use, and attemptedHarness; 0 is undefined
  alive,               \* processes that were made and whose close did not succeed
  root,                \* generationRootValue is defined
  home,                \* its home directory exists
  startupFatal,        \* "none", "cleanup" failed, or the exit is "uncertain"
  transition,          \* "idle", "restarting", "shutting-down"
  lost, closed,
  startup, restart, shutdown,  \* how far startHarness, restartOwned, shutdownOwned are
  call                 \* how far each call of run is, or its last answer

ownerVars == <<owner, attempted, alive>>
diskVars  == <<root, home>>
flagVars  == <<startupFatal, transition, lost, closed>>
managerVars == <<ownerVars, diskVars, flagVars, startup, restart, shutdown, call>>

shutdownRequested == transition = "shutting-down"
Pending           == {"startup", "prompt"}
activeRuns        == {r \in Call : call[r] \in Pending}
Closable          == IF owner # 0 THEN owner ELSE attempted

------------------------------------------------------------------------------
(***************************************************************************)
(* run and ensureHarness                                                   *)
(***************************************************************************)

\* The answer to a call that never reaches a process.
Refusal ==
  IF closed \/ shutdownRequested THEN "uncertain"
  ELSE IF transition # "idle" THEN "refused"
  ELSE IF startupFatal = "uncertain" THEN "uncertain"
  ELSE IF startupFatal = "cleanup" THEN "refused"
  ELSE IF lost THEN "uncertain"
  ELSE IF ~ root THEN "refused"
  ELSE "none"

Run(r) ==
  /\ r \notin activeRuns
  /\ call' = [call EXCEPT ![r] = IF Refusal # "none" THEN Refusal
                                 ELSE IF owner # 0 THEN "prompt" ELSE "startup"]
  /\ startup' = IF call'[r] = "startup" /\ startup = "none" THEN "verifying" ELSE startup
  /\ UNCHANGED <<ownerVars, diskVars, flagVars, restart, shutdown>>

\* Every call that waits for the startup resumes with this.
Resumed(answer) == [r \in Call |-> IF call[r] = "startup" THEN answer ELSE call[r]]

\* Verification, or mkdir of a home that is still there, fails; or the factory throws after
\* home was made.
VerificationFails ==
  /\ startup = "verifying"
  /\ home' \in {home, TRUE}
  /\ startup' = "none"
  /\ call' = Resumed("failed")
  /\ UNCHANGED <<ownerVars, root, flagVars, restart, shutdown>>

HarnessMade ==
  /\ startup = "verifying"
  /\ ~ home
  /\ \E p \in Process \ alive : attempted' = p /\ alive' = alive \cup {p}
  /\ home' = TRUE
  /\ startup' = "starting"
  /\ UNCHANGED <<owner, root, flagVars, restart, shutdown, call>>

\* Mutant: shutdown is not looked at again after the startup.
HarnessStarted_NoRecheck ==
  /\ startup = "starting"
  /\ owner' = attempted /\ attempted' = 0
  /\ startup' = "none"
  /\ call' = Resumed("prompt")
  /\ UNCHANGED <<alive, diskVars, flagVars, restart, shutdown>>

\* start and the probe of the visible tools succeed.
HarnessStarted ==
  /\ startup = "starting"
  /\ owner' = attempted /\ attempted' = 0
  /\ startup' = "none"
  /\ call' = Resumed(IF shutdownRequested THEN "uncertain" ELSE "prompt")
  /\ lost' = (lost \/ shutdownRequested)
  /\ UNCHANGED <<alive, diskVars, startupFatal, transition, closed, restart, shutdown>>

StartFails ==
  /\ startup = "starting"
  /\ startup' = "closing"
  /\ UNCHANGED <<ownerVars, diskVars, flagVars, restart, shutdown, call>>

\* Mutant: the attempted harness is forgotten whether or not it was closed.
AttemptClosed_Forgets ==
  /\ startup = "closing"
  /\ startup' = "none"
  /\ attempted' = 0
  /\ home' = FALSE
  /\ \/ alive' = alive \ {attempted}
     \/ UNCHANGED alive
  /\ call' = Resumed("failed")
  /\ UNCHANGED <<owner, root, flagVars, restart, shutdown>>

\* The attempted harness is closed and what it left is removed; the startup's error is passed
\* on, and run takes a closed transport for a lost one.  If the close or the removal fails,
\* nothing is started until a restart, and if its exit is not confirmed, the outcome is
\* uncertain.
AttemptClosed ==
  /\ startup = "closing"
  /\ startup' = "none"
  /\ \/ /\ alive' = alive \ {attempted} /\ attempted' = 0
        /\ \/ home' = FALSE /\ call' = Resumed("failed") /\ UNCHANGED <<startupFatal, lost>>
           \/ home' = FALSE /\ call' = Resumed("uncertain") /\ lost' = TRUE
              /\ UNCHANGED startupFatal
           \/ home' \in BOOLEAN /\ call' = Resumed("failed")
              /\ startupFatal' = "cleanup" /\ lost' = TRUE
     \/ /\ startupFatal' = "uncertain" /\ lost' = TRUE
        /\ call' = Resumed("uncertain")
        /\ UNCHANGED <<alive, attempted, home>>
  /\ UNCHANGED <<owner, root, transition, closed, restart, shutdown>>

\* harness.run settles; once the process is gone it can only be a closed transport.
Answer(r) ==
  /\ call[r] = "prompt"
  /\ \E answer \in {"done", "failed", "uncertain"} :
       /\ owner \notin alive => answer = "uncertain"
       /\ call' = [call EXCEPT ![r] = answer]
       /\ lost' = (lost \/ answer = "uncertain")
  /\ UNCHANGED <<ownerVars, diskVars, startupFatal, transition, closed, startup, restart, shutdown>>

------------------------------------------------------------------------------
(***************************************************************************)
(* restart                                                                 *)
(***************************************************************************)

\* A second call joins the first.  A restart that failed leaves the transition, so that only
\* another restart, or shutdown, comes out of it.
Restart ==
  /\ ~ (closed \/ shutdownRequested) /\ restart = "none"
  /\ activeRuns = {}
  /\ transition' = "restarting"
  /\ restart' = IF ~ root THEN "preparing" ELSE IF Closable # 0 THEN "closing" ELSE "removing"
  /\ UNCHANGED <<ownerVars, diskVars, startupFatal, lost, closed, startup, shutdown, call>>

\* closeOwner: a process that cannot be closed forbids a replacement.
OwnerCloses(next) ==
  \/ /\ alive' = alive \ {Closable}
     /\ next
     /\ UNCHANGED <<startupFatal, lost>>
  \/ /\ startupFatal' = "uncertain" /\ lost' = TRUE
     /\ restart' = "none" /\ shutdown' = IF shutdown = "closing" THEN "none" ELSE shutdown
     /\ UNCHANGED alive

RestartClosed ==
  /\ restart = "closing"
  /\ OwnerCloses(restart' = "removing" /\ UNCHANGED shutdown)
  /\ UNCHANGED <<owner, attempted, diskVars, transition, closed, startup, call>>

\* The owner is forgotten and its directory removed, or the removal fails.
RestartRemoved ==
  /\ restart = "removing"
  /\ owner' = 0 /\ attempted' = 0 /\ startupFatal' = "none"
  /\ \/ root' = FALSE /\ home' = FALSE
        /\ restart' = IF shutdownRequested THEN "none" ELSE "preparing"
     \/ restart' = "none" /\ UNCHANGED diskVars
  /\ UNCHANGED <<alive, transition, lost, closed, startup, shutdown, call>>

\* prepareGeneration: the next directory, or an error and none.
RestartPrepared ==
  /\ restart = "preparing"
  /\ restart' = "none"
  /\ \/ root' = TRUE /\ lost' = FALSE
        /\ transition' = IF shutdownRequested THEN transition ELSE "idle"
     \/ UNCHANGED <<root, lost, transition>>
  /\ UNCHANGED <<ownerVars, home, startupFatal, closed, startup, shutdown, call>>

------------------------------------------------------------------------------
(***************************************************************************)
(* shutdown and close                                                      *)
(***************************************************************************)

\* close refuses while runs are active, and is otherwise a shutdown.
Shutdown ==
  /\ transition' = "shutting-down"
  /\ shutdown' = IF ~ closed /\ shutdown = "none" THEN "waiting" ELSE shutdown
  /\ UNCHANGED <<ownerVars, diskVars, startupFatal, lost, closed, startup, restart, call>>

\* shutdownOwned, after the restart and the startup it found in progress.
ShutdownWaited ==
  /\ shutdown = "waiting"
  /\ restart = "none" /\ startup = "none"
  /\ shutdown' = IF Closable # 0 THEN "closing" ELSE "removing"
  /\ UNCHANGED <<ownerVars, diskVars, flagVars, startup, restart, call>>

ShutdownClosed ==
  /\ shutdown = "closing"
  /\ OwnerCloses(shutdown' = "removing" /\ UNCHANGED restart)
  /\ UNCHANGED <<owner, attempted, diskVars, transition, closed, startup, call>>

ShutdownRemoved ==
  /\ shutdown = "removing"
  /\ shutdown' = "none"
  /\ \/ /\ root' = FALSE /\ home' = FALSE
        /\ owner' = 0 /\ attempted' = 0 /\ startupFatal' = "none"
        /\ closed' = TRUE
     \/ UNCHANGED <<owner, attempted, diskVars, startupFatal, closed>>
  /\ UNCHANGED <<alive, transition, lost, startup, restart, call>>

\* create prepared the first generation.
ManagerInit ==
  /\ owner = 0 /\ attempted = 0 /\ alive = {}
  /\ root = TRUE /\ home = FALSE
  /\ startupFatal = "none" /\ transition = "idle" /\ lost = FALSE /\ closed = FALSE
  /\ startup = "none" /\ restart = "none" /\ shutdown = "none"
  /\ call = [r \in Call |-> "idle"]

StartupStep  == VerificationFails \/ HarnessMade \/ HarnessStarted \/ StartFails \/ AttemptClosed
RestartStep  == RestartClosed \/ RestartRemoved \/ RestartPrepared
ShutdownStep == ShutdownWaited \/ ShutdownClosed \/ ShutdownRemoved

ManagerStep == (\E r \in Call : Answer(r)) \/ StartupStep \/ RestartStep \/ ShutdownStep

ManagerNext == (\E r \in Call : Run(r)) \/ Restart \/ Shutdown \/ ManagerStep

\* The file system answers, and so do start and close of the SDK, which have timeouts.  The
\* agent need not, except that the SDK rejects what was pending on a closed transport.
ManagerFairness ==
  /\ WF_managerVars(StartupStep)
  /\ WF_managerVars(RestartStep)
  /\ WF_managerVars(ShutdownStep)
  /\ \A r \in Call : WF_managerVars(owner \notin alive /\ Answer(r))

ManagerSpec == ManagerInit /\ [][ManagerNext]_managerVars

------------------------------------------------------------------------------
ManagerTypeOK ==
  /\ {owner, attempted} \subseteq Process \cup {0} /\ alive \subseteq Process
  /\ {root, home, lost, closed} \subseteq BOOLEAN
  /\ startupFatal \in {"none", "cleanup", "uncertain"}
  /\ transition \in {"idle", "restarting", "shutting-down"}
  /\ startup \in {"none", "verifying", "starting", "closing"}
  /\ restart \in {"none", "closing", "removing", "preparing"}
  /\ shutdown \in {"none", "waiting", "closing", "removing"}
  /\ call \in [Call -> {"idle", "refused", "failed", "done", "uncertain"} \cup Pending]

\* Whatever fails in which order, there is never a second process, none is forgotten, none
\* runs without its directory, and a manager that says it is closed has left nothing.
NoProcessForgotten ==
  /\ alive \subseteq {owner, attempted} \ {0}
  /\ owner = 0 \/ attempted = 0
  /\ alive # {} => root
  /\ closed => alive = {} /\ ~ root
  /\ root \/ ~ home

\* A restart never takes the process from under a run: no call waits for a startup or for
\* the agent while one is in progress.
RestartSparesRuns == restart # "none" => activeRuns = {}

\* A prompt goes to a live process that nobody is shutting down and whose transport was
\* not lost before; after a loss only a restart lets prompts through again.
PromptsReachSoundProcess ==
  [][\A r \in Call : call[r] # "prompt" /\ call'[r] = "prompt" =>
       /\ owner' \in alive'
       /\ transition = "idle" /\ ~ lost /\ startupFatal = "none"]_managerVars

\* Restart, shutdown and the startup of a run answer.  A shutdown that closed the process
\* settles the runs, even if the agent never answers.
ManagerAnswers ==
  /\ restart # "none" ~> restart = "none"
  /\ shutdown # "none" ~> shutdown = "none"
  /\ \A r \in Call : call[r] = "startup" ~> call[r] # "startup"
  /\ closed ~> activeRuns = {}
================================================================================
