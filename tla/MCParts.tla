------------------------------- MODULE MCParts -------------------------------
(***************************************************************************)
(* The parts of the repository that run on their own, for TLC: the ledger, *)
(* the upload proxy, the audit, the tool and the resource of the plugin    *)
(* lab, the command runner, the workflow lesson, the trials of the labs,   *)
(* and, of the AG-UI runtime, its projector, its fake runtime and the three*)
(* pieces of its web client.  They share nothing, so a behaviour is one of *)
(* one of them, and the others stay where they start.                      *)
(***************************************************************************)
EXTENDS ObservationLedger, Sequences, TLC

CONSTANTS
  a, b, p, q, r1, r2, s1, s2, x, y,
  Upload,                                                            \* proxy
  Audited, Call, MaxRows,                                            \* audit
  Attempt, MaxIoFaults, MaxPolls, MaxHostFaults,                     \* tool, probe, lesson
  Conversation, Existing, MaxRun, MaxLog, Page, MaxClicks, MaxFaults,\* web client
  MaxMessages, MaxMounts, Step,                                      \* chat, projector
  MaxImageFaults, MaxTrialFaults, MaxResourceFaults, MaxFrames,      \* trials, resource, frames
  FakeRun, FakeSession, MaxGeneration, MaxFakeFaults                 \* fake runtime

VARIABLES
  which,
  remote, upload, owned, open, deletion, writes, recoveryFile, running,
  audit, health, slots, completed, loaded,
  mode, place, directory, file, attempt, aborted, ioFaults,
  probe, descendant, pipe, killed, failure, stage, polls, answer,
  phase, task, signal, parent, workflow, helper, child, outcome, listeners, failed, report, disposal, hostFaults,
  row, run, list, loading, selected, due, inspects, watchers, shown, asks, clicks, faults,
  messages, pane, fetches, mounts,
  steps, events, ended, past,
  asked, enforced, held, trial, performed, effects, claimed, verified, refused,
  launcher, host, exit, ready, record, stopping, startTimer, bootstrap, status,
  image, imageOwner, proxy, files, flags, kept, told, imageFailed, imageFaults,
  at, round, processes, reported, released, confirmed, directoryKept, trialFailed, trialFaults,
  of, fake, delayed, failNext, generation, shutDown, memory, partitions, fakeFaults,
  resource, taken, leaked, disposals, complained, resourceFaults,
  wire, arrived, handled, delivered, frames

Proxied   == INSTANCE UploadProxy
Audit     == INSTANCE ProofAudit
Tool      == INSTANCE ProofTool
Probe     == INSTANCE ProbeCommand
Child     == INSTANCE ChildLifecycle
Web       == INSTANCE WebClient
Chat      == INSTANCE ChatHydration
Projector == INSTANCE Projection
Sandbox   == INSTANCE SandboxTrial
Launcher  == INSTANCE HostLauncher
Images    == INSTANCE ImageTrial
Rounds    == INSTANCE WorkflowTrial
Fake      == INSTANCE FakeRuntime
Resource  == INSTANCE ProofResource
Frames    == INSTANCE SseFrames

\* What is called none, and whoever is called nobody, is not one of them; who
\* uploads and who deletes are not named alike.
ASSUME NothingIsNothing ==
  /\ None \notin Session \cup Call /\ Tool!Nobody \notin Attempt
  /\ Proxied!Deleter \cap Upload = {}

\* The sets that are counted are finite; tokens, rows and pages are numbers.
ASSUME PartsAreCounted ==
  /\ IsFiniteSet(Upload) /\ IsFiniteSet(FakeRun) /\ Tokens \subseteq Nat
  /\ MaxRun \in Nat /\ MaxLog \in Nat /\ Page \in Nat

\* So are the bounds.
ASSUME BoundsAreNumbers ==
  /\ MaxPolls \in Nat /\ MaxMessages \in Nat /\ MaxMounts \in Nat
  /\ MaxGeneration \in Nat \ {0}
  /\ MaxIoFaults \in Nat /\ MaxHostFaults \in Nat /\ MaxImageFaults \in Nat
  /\ MaxTrialFaults \in Nat /\ MaxResourceFaults \in Nat /\ MaxFakeFaults \in Nat

uploadVars == <<remote, upload, owned, open, deletion, writes, recoveryFile, running>>
auditVars == <<audit, health, slots, completed, loaded>>
toolVars == <<mode, place, directory, file, attempt, aborted, ioFaults>>
probeVars == <<probe, descendant, pipe, killed, failure, stage, polls, answer>>
childVars == <<phase, task, signal, parent, workflow, helper, child, outcome, listeners,
      failed, report, disposal, hostFaults>>
webVars == <<row, run, list, loading, selected, due, inspects, watchers, shown, asks,
      clicks, faults>>
chatVars == <<messages, pane, fetches, mounts>>
projectorVars == <<steps, events, ended, past>>
sandboxVars == <<asked, enforced, held, trial, performed, effects, claimed, verified,
      refused>>
launcherVars == <<launcher, host, exit, ready, record, stopping, startTimer, bootstrap,
      status>>
imagesVars == <<image, imageOwner, proxy, files, flags, kept, told, imageFailed,
      imageFaults>>
roundsVars == <<at, round, processes, reported, released, confirmed, directoryKept,
      trialFailed, trialFaults>>
fakeVars == <<of, fake, delayed, failNext, generation, shutDown, memory, partitions,
      fakeFaults>>
resourceVars == <<resource, taken, leaked, disposals, complained, resourceFaults>>
framesVars == <<wire, arrived, handled, delivered, frames>>

\* One part moves; of the others one initial state is enough.
MCInit ==
  /\ which \in {"ledger", "upload", "audit", "tool", "probe", "child", "web", "chat",
               "projector", "sandbox", "launcher", "images", "rounds", "fake", "resource", "frames"}
  /\ LedgerInit /\ Proxied!ProxyInit /\ Audit!AuditInit /\ Tool!ToolInit
  /\ Probe!ProbeInit /\ Child!LifeInit /\ Web!ClientInit /\ Chat!ChatInit
  /\ Projector!ProjectorInit /\ Sandbox!SandboxInit /\ Launcher!LaunchInit /\ Images!ImageInit
  /\ Rounds!TrialInit /\ Fake!FakeInit /\ Resource!ResourceInit /\ Frames!FramesInit
  /\ which # "tool" => mode = "single"
  /\ which # "child" => phase = "seed"
  /\ which # "sandbox" => asked = "read-only" /\ enforced = {}
  /\ which # "launcher" => bootstrap = "none"
  /\ which # "fake" => ~ delayed /\ of = [i \in FakeRun |-> CHOOSE f \in FakeSession : TRUE]
  /\ which # "frames" => wire = << >>

MCNext ==
  /\ UNCHANGED which
  /\ IF which = "ledger" THEN LedgerNext ELSE UNCHANGED ledgerVars
  /\ IF which = "upload" THEN Proxied!ProxyNext ELSE UNCHANGED uploadVars
  /\ IF which = "audit" THEN Audit!AuditNext ELSE UNCHANGED auditVars
  /\ IF which = "tool" THEN Tool!ToolNext ELSE UNCHANGED toolVars
  /\ IF which = "probe" THEN Probe!ProbeNext ELSE UNCHANGED probeVars
  /\ IF which = "child" THEN Child!LifeNext ELSE UNCHANGED childVars
  /\ IF which = "web" THEN Web!ClientNext ELSE UNCHANGED webVars
  /\ IF which = "chat" THEN Chat!ChatNext ELSE UNCHANGED chatVars
  /\ IF which = "projector" THEN Projector!ProjectorNext ELSE UNCHANGED projectorVars
  /\ IF which = "sandbox" THEN Sandbox!SandboxNext ELSE UNCHANGED sandboxVars
  /\ IF which = "launcher" THEN Launcher!LaunchNext ELSE UNCHANGED launcherVars
  /\ IF which = "images" THEN Images!ImageNext ELSE UNCHANGED imagesVars
  /\ IF which = "rounds" THEN Rounds!TrialNext ELSE UNCHANGED roundsVars
  /\ IF which = "fake" THEN Fake!FakeNext ELSE UNCHANGED fakeVars
  /\ IF which = "resource" THEN Resource!ResourceNext ELSE UNCHANGED resourceVars
  /\ IF which = "frames" THEN Frames!FramesNext ELSE UNCHANGED framesVars

\* The fairness of each.  What is enabled in the initial state of a part is fair only if that
\* part moves: the others have no fair step to take.
MCFairness ==
  /\ Probe!ProbeFairness /\ Launcher!LaunchFairness /\ Rounds!TrialFairness
  /\ Web!PageFairness /\ WF_webVars(which = "web" /\ (Web!ListRead \/ Web!ListLoaded))
  /\ WF_childVars(which = "child" /\ Child!Execute)
  /\ WF_childVars(which = "child" /\ Child!TimerAborts) /\ WF_childVars(Child!DisposeEnds)

allVars == <<which, ledgerVars, uploadVars, auditVars, toolVars, probeVars,
             childVars, webVars, chatVars, projectorVars, sandboxVars,
             launcherVars, imagesVars, roundsVars, fakeVars, resourceVars,
             framesVars>>

MCSpec == MCInit /\ [][MCNext]_allVars /\ MCFairness

------------------------------------------------------------------------------
\* Every variable of every part has its type.
PartsTypeOK ==
  /\ LedgerTypeOK /\ Proxied!ProxyTypeOK /\ Audit!AuditTypeOK /\ Tool!ToolTypeOK
  /\ Probe!ProbeTypeOK /\ Child!LifeTypeOK /\ Web!ClientTypeOK /\ Chat!ChatTypeOK
  /\ Projector!ProjectorTypeOK /\ Sandbox!SandboxTypeOK /\ Launcher!LaunchTypeOK
  /\ Images!ImageTypeOK /\ Rounds!TrialTypeOK /\ Fake!FakeTypeOK
  /\ Resource!ResourceTypeOK /\ Frames!FramesTypeOK

\* transport.ts: whenever the process dies, the recovery file accounts for every file that
\* the service still has.
RecoveryFileCovers == Proxied!RecoveryFileCovers

\* transport.ts, live.ts of the attachment lab: a cleanup that succeeds has left nothing, and
\* the directory that records what there is to clean up is removed only then.
CleanupIsHonest == Proxied!CleanupIsHonest

\* listener.ts: every live tool result of the audit becomes durable once or is reported.
AuditTellsCalls == Audit!AuditTellsCalls

\* app.tsx, run-monitor.ts, conversation-hydrator.ts, api-client.ts: whatever answer comes
\* late, the page shows the run and the chat it is about, and every frame once.
PageTellsTruth == Web!InspectorTellsTruth /\ Chat!ChatIsFresh /\ Frames!FramesAreExact

\* projector.ts, app.ts: the transcript answers each call once, after it was made.
TranscriptAnswersCalls == Projector!TranscriptAnswersCalls

\* tool.ts, proof-journal.ts, runtime.ts: what an attempt takes it gives back, keeps because
\* it succeeded, or reports; two attempts never take each other's proof.
AttemptsAreExact ==
  Tool!AttemptsAreExact /\ Resource!NothingLeaksSilently /\ Fake!FakeFailsOnlyIfAsked

\* command.ts, lesson-plugin.ts, provider.ts, start.ts and the two live.ts: no script claims
\* success over a process, a file or a listener it has left behind.
VerdictsAreHonest ==
  /\ Probe!AnswerMeansGone /\ Child!ReportIsTruthful /\ Sandbox!VerdictMeansConfined
  /\ Launcher!LauncherTellsTruth /\ Images!RemovalIsEarned /\ Rounds!TrialIsCold

\* The waits of these parts end: the inspector shows the outcome of a run, a probe is
\* answered, a lesson and its disposal end, a host gets ready or is stopped, a report is
\* waited for no longer than its deadline.
WaitsEnd ==
  /\ Web!InspectorSettles /\ Probe!ProbeIsAnswered /\ Launcher!LaunchIsBounded
  /\ Rounds!WaitIsBounded
  /\ which = "child" => Child!DisposalEnds
===============================================================================
