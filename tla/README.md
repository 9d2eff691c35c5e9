# Formal verification of hands-on-dsh

TLA+ models of the programs of this repository, TLC runs that check them on small
instances, and proofs of the most important invariants for instances of every size.
`PROJECT.json` lists the components, the runs, the lines each definition models, the hazards
the properties are aimed at, the mutants that show that each property can fail, the
findings and the theorems.

- **Recoverable agent service** (Python, `projects/recoverable-agent-service`): accepts
  prompts over HTTP, queues them in SQLite, runs them one at a time through the DSH SDK
  and publishes their events by SSE.
- **AG-UI runtime** (TypeScript, `projects/ag-ui-dsh-runtime`): the same task for several
  concurrent runs of a browser client, with artifacts, a replaceable runtime generation,
  and replay of AG-UI events; with its web page.
- **Labs** (`labs/*`): programs of a few hundred lines about one concern of an agent host
  each: supervised processes, observation, uploads, plugins, sandboxes, child agents, a
  JSON-RPC peer, a Web host.

All of them hand input with side effects to a process that may crash, answer late or never,
and all promise to tell the truth about what happened and to leave nothing behind.  That
promise, and the concurrency and the failures it has to survive, is what this project is about.

## 1. Inventory

| Part | State | Operations | Hard behaviour | What makes it correct |
|---|---|---|---|---|
| Run repository (`store.py`) | tables conversations, runs, run_events, artifacts | one transaction per method: create, submit, append, claim, complete, fail, recover, acknowledge | any order of calls, retries with the same key, recovery after a crash | one run in flight and one per key, uncertain sessions retired, gap-free logs, artifacts settle with their run |
| Run coordinator (`coordinator.py`) | lifecycle, gate and lifecycle lock, wake event, worker, shutdown task | start, submit, acknowledge, worker loop, close | interleaving at every await, cancelled waiters whose transaction goes on, store errors, process death | the verdict is truthful, at most one delivery, no zombie rows, no lost wake-up, shutdown ends |
| SDK adapter (`runtime.py`) | lock, harness, state | run, close, reset after failure | SDK calls in threads outlive their cancelled waiter; cleanup fails | no orphaned harness, never a session on a broken one, failures before and after `Session.run` never confused |
| Notifier and SSE (`notifier.py`, `sse.py`) | topics with versions, subscribers, cursors | publish, subscribe, read loop, heartbeat, resume | commit and publish between query and wait; disconnect anywhere | no lost event, exact replay, the stream ends, topics do not leak |
| HTTP application, artifact snapshots, normalisation, tenancy, evaluation (Python) | none of their own | routes, lifespan, validation | - | they call the above |
| AG-UI store and coordinator (`store.ts`, `coordinator.ts`) | conversations, runs, run_events, artifacts; active set, queue, flags, fatal latch | admit, pump, execute, restart, shutdown, close, recovery | settlement of other runs' executions, failing writes inside error handling, proofs on disk that must be stored before they are deleted | a transcript that tells the run, exclusive conversations, proofs survive, bounded shutdown |
| AG-UI runtime manager and server (`package-runtime.ts`, `entry.ts`) | generation, transition, lost, owner, home; what was opened | start, run, restart, shutdown, close | a harness that cannot be closed, a start that is overtaken by a shutdown, a closing step that fails | no process is forgotten, a restart spares runs, a close without an error has left nothing |
| AG-UI fake runtime (`runtime.ts`) | sessions, partitions, generation | run, restart, shutdown, close | delays, injected failures | fails only when asked to |
| AG-UI subscriptions and POST reply (`subscriptions.ts`, `app.ts`) | revision, waiters, readers; socket and listeners | notify, stream, shutdown, write with back pressure | notification between page and wait, slow and broken sockets | no lost event, exact replay, every reader released |
| AG-UI projector (`projector.ts`) | steps, calls, results | accept, transcript | any order of notifications | a transcript that answers each call once, after it |
| AG-UI web client (`app.tsx`, `run-monitor.ts`, `run-inspector.tsx`, `conversation-hydrator.ts`, `api-client.ts`) | list, selection, shown run, cursor, chat, frames | select, create, acknowledge, poll, watch, hydrate | answers that come after the user moved on, reconnection, chunks cut anywhere | the page shows what it is about, each frame once |
| Runtime supervision lab (`pool.ts`, `supervisor.ts`) | slots, owners, leases, queue | run, close, acquire, release | timeouts against hand-over, owners that do not close | one owner per slot, first come first served, close waits for leases |
| Run observability lab (`core.ts`, `snapshot.ts`) | records, run bindings, checkpoint | add, save, load | records in any order and number, a crash while saving | runs of a session stay disjoint, checkpoints load, accounts do not shrink |
| Attachment lab (`transport.ts`, `live.ts`) | uploads, deletions, recovery file | upload, delete, clean up, the trial's nested finally | lost answers, failing deletions, crash | the recovery file covers what is out there; success means nothing is left |
| Plugin lab (`listener.ts`, `tool.ts`, `proof-journal.ts`) | audit and health file, proofs, resources | live and durable rows, attempts, acquire, roll back, dispose | rows in any order, failing writes, concurrent attempts, reload | every result durable once or reported; attempts take back exactly what they made |
| Sandbox lab (`command.ts`, `worker.ts`, `fixture.ts`, `verification.ts`, `provider.ts`) | process group, operations, claims | run a probe, attempt the operations, verify | deadlines, output limit, descendants, a sandbox that lets something through | an answer means that nobody is left; a verdict means confined |
| Workflow lab (`lesson-plugin.ts`, `lifecycle.ts`, `live.ts`) | sessions, listeners, report, two processes | lesson, abort, disposal, two rounds | disposal anywhere, failing host | the report is truthful, disposal ends, the second process really starts cold |
| Web host lab (`start.ts`) | host, bootstrap and record file | start, deadline, interrupt, exit | the three race | what the launcher says of its host is true, and it is bounded |
| Protocol lab (`jsonl_peer.py`) | pending requests, reader, handler, write lock, close | request, read, handle, close | timeouts, cancellation, end of file, late answers, a child that does not read or exit | whoever waits is registered, the end rejects whoever waits, close leaves nothing and is bounded |
| Compaction lab, session format lab, other protocol drivers, tutorials | - | - | scripts around external engines | not modelled (section 7) |

Interactions.  In the service the HTTP routes call the coordinator, which calls the store
(in threads), the adapter and the notifier; SSE streams read the store and sleep on the
notifier.  In the AG-UI runtime the server opens manager, store, coordinator and routes in
this order and closes them in reverse; `execute` awaits the manager and the file system
and writes the store synchronously; notifications write the store from a callback, through
the projector; subscriptions read the store and sleep on `notify`; the page talks to the routes.
The labs share nothing with each other or with the projects.

## 2. Plan and what is left

1. *(done)* `RunStore` with its proofs, `RunCoordinator` over it, `RunPromise` refined.
2. *(done)* `RuntimeAdapter` implementing `AgentRuntime`; `EventStream`.
3. *(done)* `AguiStore`, `AguiCoordinator`, `AguiStream`, then the rest of that program:
   `RuntimeManager`, `ApplicationServer`, `FakeRuntime`, `Projection`, `LiveReply`,
   `WebClient`, `ChatHydration`, `SseFrames`.
4. *(done)* The labs with state of their own: `RuntimeSupervisor` and `RuntimePool`,
   `ObservationLedger`, `UploadProxy`, `ImageTrial`, `ProofAudit`, `ProofTool`,
   `ProofResource`, `ProbeCommand`, `SandboxTrial`, `ChildLifecycle`, `WorkflowTrial`,
   `HostLauncher`, `JsonlPeer`.
5. *(done)* Proofs of every safety property that a run checks: `RunStore`, `RunCoordinator`
   with its refinement, `RuntimeAdapter` with its refinement, supervisor and pool, manager and server,
   `AguiCoordinator`, and the four streams of `MCStreams`.
6. *(done)* The same for the sixteen parts of `MCParts` that stand alone.
7. *(left)* One abstract log that a reader follows, for `EventStream`, `AguiStream` and `LiveReply`; what it
   would promise is stated of each by `ClientsGetEveryRow`.

## 3. Modules

The state of every module is the state the code keeps, an action is what runs between two
awaits (or one transaction, or one callback), and what the code calls but does not contain (SDK,
engine, processes, sockets, files) is modelled by its outcomes and marked external in `PROJECT.json`.

### The Python service

**RunStore.**  The tables are `conversations` (state and current session), `runs` (a sequence
of run records, each with its events and artifact rows) and `sessions` (how many session ids
were handed out).  Every repository method opens one `BEGIN IMMEDIATE` transaction, so
each is one action; its guard is the method's checks and its early returns are the states
in which it is disabled.  Rows are never deleted, and `ORDER BY created_at, rowid` is
taken to be insertion order (a clock that does not run backwards); the position of a run
is its id.  A request stands for a fingerprint: a prompt with its artifact names.

**RunCoordinator**, over **AgentRuntime**, extends RunStore.  `asyncio.to_thread(store...)` commits
and resumes in one step; if the waiter was cancelled, the call moves to `orphans` and
commits later without publishing or waking anybody.  `starter`, `worker` and `closer` say how far
the three tasks got, the gate is held by `api` or by the claim, the lifecycle lock by start or by
the shutdown task, which takes the two locks one after the other (`CloserLocks`, `CloserStops`).
`delivered` counts, as a history variable, how often `Session.run` was invoked for a run. A store
error ends the worker (`died`) or start; `Restart` is a death of the process at any step: the tables
stay, everything else is reset. **RunPromise** is the contract with the owner of a run: accepted,
begun, delivered at most once, then a verdict that fits. `KeepsPromise` is the refinement, with the
phase of a run computed from its row and `delivered`.

**RuntimeAdapter** implements AgentRuntime.  Callers of `run` and one of `close` share an
`asyncio.Lock` with its queue.  Each SDK call (construct, start, create session, `Session.run`,
close) runs in the executor; it returns, raises, or loses its waiter, in which case `_run_owned`
still waits for it before the lock is released.  `open` is the set of harness objects that
were constructed and not closed.

**EventStream.**  One run, its log (`last`, `terminal`), the topics of the notifier, and a reader
per client with the steps of `iter_sse_events`: observe the version, query, yield, compare, wait or
heartbeat.  A client may go away at any step and resumes at the last id it received.

### The AG-UI runtime

**AguiStore, AguiCoordinator.**  `DatabaseSync` is synchronous: a transaction is an operator on
the tables, and a step of the coordinator composes several.  Of the events the channel `ag-ui` is
kept.  A run id that exists changes nothing, so ids are positions.  The process is single
threaded, so the steps are the stretches between two awaits of `execute`, `restartRuntime`, `shutdown`
and `close`, and `pump` is part of every step that calls it.  `task[r]` is the execution of run r:
where it is, whether a notification could not be recorded (`latch`), and whether `execute` is
going to throw.  `LaunchedAt` is the runtime's answer to `run`: uncertain if it is shut or its
transport is lost, refused while a restart is in progress or has failed, otherwise the agent's to
answer.  What the agent's tool left on disk is chosen when `runtime.run` settles and then followed
through snapshot, storing and deletion.  A deadline is an ordinary failure of `runtime.run`; the
microtasks of `catch` and `finally` are one step.  `Reboot` is a death of the process and its
successor's `recoverStartup`, which queues the rows it finds queued in conversations that are not
blocked, oldest first.  shutdown and close are called one at a time.

**RuntimeManager, ApplicationServer.**  The manager has one owner (a harness and its home
directory), the transition, and the start, restart and shutdown in flight; calls of `run` that wait for
one startup resume together, and a startup that ends with a closed transport counts as a lost one
(`AttemptClosed`).  `alive` says which processes may still run, which the code does not
know but must not forget.  The server opens manager, store, coordinator and HTTP in order, and its
close goes back through all four, whichever of them fails.

**FakeRuntime, Projection.**  The port without a process, and the state machine that turns the
engine's notifications into AG-UI events, with the transcripts that `app.ts` rebuilds from them:
`Transcripts(log)[n]` is the one of the first n events, since the page may ask at any time.

**AguiStream, LiveReply.**  `PersistedSubscriptions.stream` runs alone except at its yields, while
its consumer writes to a socket, and in `wait`.  Both are actions of their own; pages have `Page` rows
(100 in the code).  A notification follows every commit, some awaits later for `finishRun`.
AguiStream is the replay route and leaves the channel filter out; LiveReply is the reply of
`POST /api/ag-ui`, with the filter, the back pressure of its socket and the listeners it adds.

**WebClient, ChatHydration, SseFrames.**  The page: its list, the selected conversation, the inspector
that polls it, the monitor that follows a run and reconnects; the chat with its snapshot; the reader
of SSE frames, whose chunks end anywhere, with a turn of its inner loop per frame.  A click re-renders at once; a state update after an
await is drawn by a later turn (`due`).

### The labs

| Module | Source | State and steps |
|---|---|---|
| `RuntimeSupervisor`, `RuntimePool` | `runtime-supervision` | the fields of each supervisor, the race in `run`, the shared cleanup; leases and a FIFO queue with deadlines; `Pump`, the loop that hands free slots to the head of the queue, is inside every call that queues or frees |
| `ObservationLedger` | `run-observability` | the records accepted, the run bindings, a temporary and a saved checkpoint; `Add` is a record that fits, others throw and change nothing |
| `UploadProxy`, `ImageTrial` | `attachment-input` | uploads and deletions against a service that keeps what it got, snapshots written one after the other; the trial with a deadline per run and its nested finally blocks |
| `ProofAudit`, `ProofTool`, `ProofResource` | `cordis-plugin-lifecycle` | rows of live and durable results with reloads and crashes; concurrent attempts with their undo; six acquisitions with a rollback |
| `ProbeCommand`, `SandboxTrial` | `sandbox-isolation` | a process group with deadline, output limit and polling; fixture, eight operations, report and check |
| `ChildLifecycle`, `WorkflowTrial` | `workflow-child-lifecycle` | the lesson over its host, with abort and disposal; two processes one after the other |
| `HostLauncher` | `web-host-lifecycle` | host, record files, startup deadline, interrupt |
| `JsonlPeer` | `protocol-semantics` | where each request is, its future, `_pending`, the write lock, the transport's buffer, the reader, one handler, and how far close got |

In `JsonlPeer` a call that is cancelled or times out ends in two steps, as in asyncio: `Cancelled` or
`TimesOut` marks the task, and cancels the future if the task awaits it directly (the timed wait shields it);
`Unwinds` is the task's next turn, in which the call leaves `_pending` and the write lock.  An answer that
is read in between finds a cancelled future, and the reader dies of it (`ReadsAnswer`).  The buffer of the pipe
transport has three levels, as `drain` waits only above its limit; the frame of close is too short to lift
it there (`Buffered`), but like any other may stay in it.

Seven MC modules instantiate these for TLC.  `MCRuntimeOwners`, `MCStreams` and `MCParts` take several
components that share nothing: `which` names the one that moves, the others stay where they start, so
that a run explores each component completely and no product of two.  `MCRunService` takes the
coordinator over its store and, in behaviours of their own, the store alone: a service that was closed
and passed the bound on restarts (`StoreAlone`), of which no action but a transaction is left.  Its
properties of the coordinator are stated of the other behaviours.

## 4. Runs

| Run | Bounds | What it shows |
|---|---|---|
| `service` | store: 2 conversations, 2 keys, 2 requests (with and without a file), 3 runs, 1 projected event each; coordinator (`ServiceBounds`): 1 conversation, 2 keys, 1 request, 2 runs, 1 restart, 1 store error, 1 cancelled waiter; symmetric | every transaction, in every order, keeps the tables consistent; verdicts are truthful, no zombies, no lost wake-up, shutdown spares the worker; `RunPromise` is implemented |
| `coordinator_liveness` | 2 conversations, 1 key, 2 runs, 1 cancelled waiter | queued runs settle, shutdown ends |
| `owners` | adapter: 2 callers, 1 closer, 2 harnesses; supervisor and pool: 2 slots, 2 owners each, 4 requests, 2 queued; manager and server: 2 calls, 2 processes | no owner is leaked, forgotten, reused after a failure or doubled; the queue is served; close is honest; every call is answered; `AgentRuntime` is implemented |
| `streams` | 2 clients, 4 events, 2 topics; replay and reply: pages of 2, 5 rows; peer: 1 caller and the shutdown request | no lost wake-up, exact replay and reply, streams let go; whoever waits for the peer is registered, and is left behind only by a reader that died |
| `agui` | 2 conversations, 2 executions at a time; 3 runs and 1 reboot (no callback fails after it once there are three), or 2 runs with 1 failing write and a projected event or a foreign entry beside the proof | exclusive conversations, retired sessions, no run without somebody to settle it, well-formed transcripts, proofs stored before they are deleted |
| `agui_liveness` | 2 conversations, 2 runs, 1 failing write | executions settle once answered; shutdown is bounded |
| `parts` | 2 of each: runs, uploads, calls, attempts, conversations, fake runs; 1 to 3 faults per part; 4 audit rows, 3 mounts of the chat, 3 frames | each part that stands alone keeps its promise and ends its waits |
| `agui_replay`, `agui_end`, `web_acknowledge` | as above, 1 client | findings 1 to 3 |
| `peer_close`, `peer_cancel` | 1 caller and close; 2 callers, without close (`StaysOpen`) | findings 4 and 5 |

Why the bounds are enough.  The store's conflicts are between two runs of one conversation, and
between conversations only through the order of claims; a third run lets one follow an uncertain
predecessor while another waits.  The coordinator has one worker, so a second run exercises every
hand-over from one run to the next; one restart, error and cancellation each fall at every step.
The AG-UI coordinator needs two executions to share one lost runtime and a third run that waits
for a slot; writes that raise are checked with two runs, because only one row and its neighbour
take part in any of them, and a second failing write while the first is handled is left out.
A pool with two slots and four requests has a lease, a free slot, a queue with a head that may
expire and a request behind it.  Five rows make a full page, a short page and late notifications
for pages of two.  Of the parts that stand alone, two things of a kind are what one can be mixed up
with; their faults are bounded because each ends the attempt it hits, and one more only repeats it.

Deadlock is not checked in runs where the bounds let the system stop: after the last
admissible run, restart and shutdown nothing is left to do.

### Fairness
- Threads and tasks run, timers fire, the SDK's own calls (start, close) answer, as they have
  timeouts, and promises that are settled are seen: weak fairness of the steps that follow.
- `asyncio.Lock` is first come, first served: whoever asks gets it although others keep asking,
  hence strong fairness of `WorkerEnters`, `CloserLocks`, `CloserStops` and of the calls of `JsonlPeer`,
  whose write and whose turn after a cancellation are steps of one task (`RequestStep`).
- SIGKILL takes effect (`ProbeCommand`, `JsonlPeer`).
- In the Python service `Session.run` is assumed to answer, one way or the other: an agent that never
  does holds up shutdown, which its README (line 188) states as a limit.  In the AG-UI runtime nothing
  is assumed of the agent: `ShutdownIsBounded` holds because the grace expires, `ExecutionsSettle`
  starts from the answer, and `ManagerFairness` only uses that the SDK rejects what was pending on a
  closed transport.
- Of the page's requests each is answered or fails; of a socket nothing is assumed, nor of a child
  process, its descendants or a user.
- Requests, cancellations, failing writes, deaths, restarts and shutdowns are never
  assumed to happen.
- In `MCParts` and `MCStreams` a fair step that the initial state enables is fair only if its part is
  the one that moves.

### Findings
1. `agui_end`: `PersistedSubscriptions.stream` reads the status of the run after the page was
   yielded.  If the run finishes while the generator hangs at a yield, the stream ends without the
   events committed in between, the terminal one included, although the client was connected all along.
2. `agui_replay`: after a full page the reader waits for a notification although more rows
   are stored.  A replay of a run with a hundred events or more stalls after the first page
   until some other run notifies.
3. `web_acknowledge`: the page takes the recovery state of a conversation from a list it loaded
   once.  A run whose outcome is unknown is shown as acknowledged, without the button, in a
   conversation that became blocked while the page was open.
4. `peer_close`: `JsonlPeer.close` waits for stdin to be closed before its bounded phases begin,
   without a bound of its own.  If the child does not read and the pipe is full, the shutdown request
   itself stays in the buffer: it times out, as it should, then close waits for ever (line 347),
   and neither SIGTERM nor SIGKILL is sent.
5. `peer_cancel`: a call without a timeout that is cancelled stays in `_pending` until its task has its
   turn.  If its answer is read first, `set_result` raises on the cancelled future (line 503) and the reader
   ends: no answer is read any more, and the end of stdout, which by the README of the lab rejects the pending
   requests at once, leaves every other call without a timeout waiting.

In 1 and 2 the rows are safe in the store; `ShortPageSleepsCaughtUp` is what does hold: on a page
with room no notification is lost.  In 5, `ReaderLeavesNobody` is what does hold: a reader that came to its
end has left nobody, and one dies only of the answer to a cancelled call.

Behaviours that no document excludes, met while modelling:
- A run of the AG-UI runtime whose `startRun` raises stays queued without being in the queue until
  the process is started again (`QueueMoves` says so for runs without failing writes only).
- `PackageRuntimeManager`: after a restart that failed the runtime stays in its transition and
  refuses runs until another restart succeeds; a factory that throws after the home directory was
  made leaves it there, and later starts fail on it.
- `conversationMessages` (`app.ts:80-88`): a call id used in two steps gets its arguments in both;
  `AguiProjector` does not notice a step number that is used again after its end.  Both are
  assumed not to happen.
- `ChildLifecycle`: `parent.whenIdle()` cannot be aborted, and a drain that fails leaves the parent
  undisposed; the report is then "error".  `createProofResource`: a disposer that throws keeps the
  later ones from running; the error is reported.
- `FakeDshRuntime`: after a failed write the next run of its session and generation meets the same
  partition name; shutdown returns while a run past its delay is active.
- The run monitor may publish a terminal phase whose events are still missing, when the run ends
  between its two requests (`run-monitor.ts:113-130`); the initial load of the list may overwrite
  a conversation created meanwhile (`app.tsx:72`); creating one takes the selection from whatever
  was selected during the request.
- `JsonlPeer`: a request made after the child closed its stdout is answered only by the exit; a
  caller that uses an explicit id again after a timeout can be given the late answer.
- The trial of the attachment lab: if closing the owner fails, the harness may upload after the
  proxy cleaned up; the directory is then kept.

## 5. Proofs

Each theorem holds for every value of the constants that satisfies the named assumption; the module
in parentheses contains it.  Together they state every safety property, and every action property and
refinement, that a run checks; what the runs check alone is liveness (section 6).

**RunStore** (`RunStoreProofs`), from `StoreConstants` (what requests declare are sets of
names, the bounds are naturals): `Containment`, a session whose outcome is unknown is never given
to another run, and its conversation asks for attention exactly as long as it holds it; `Exclusiveness`, a
conversation has at most one run in flight, which the claim can see, and at most one per key;
`ArtifactSettlement`; `LogFidelity`, the log of a run has its numbers without a gap and tells its
state; `AppendOnlyHistory`, what a run is, its log and its end are never rewritten.

All follow from one inductive invariant `IInv` (theorem `Invariance`), since none is
inductive alone.  That an uncertain session stays retired needs `SessionsAreOwned`: session
numbers belong to one conversation, are not above the counter, and are never reused, or
an acknowledgement could hand out an old one.  That one run is in flight needs
`OnlyNewestInFlight`: `submit_run` looks for any run in flight, and the others are older.
`UncertainMeansFailed` links error code and state, and `InFlightRunIsClaimable` gives recovery what
it needs to keep "attention exactly if uncertain".  The lemmas follow the code: four transactions
move one row (`ClaimMoves`, `AppendMoves`, `CompleteMoves`, `FailMoves`) and share one preservation
argument, `MoveKeepsInvariant`; creating, submitting, acknowledging and recovering have their own.
The log is a property of each row by itself (`LogsTell`), the history one of each step.

**RunCoordinator** (`RunCoordinatorProofs`), from `StoreConstants` and `CoordinatorConstants` (the
bounds are naturals): what a row says of its run fits whether `Session.run` was invoked for it; no row
is left running by a service that started, and a worker that sleeps has nothing to do; the adapter
is closed only under a worker that is gone; and `PromiseKept`: every step is a step of `RunPromise` or
none, with the phase of a run computed from its row.  `CheckedVerdictsAreTruthful`,
`CheckedRowsAreTracked`, `CheckedWorkerIsSpared` and `CheckedPromiseIsKept` say so of `MCRunService`,
whose behaviours are those of the service and those of the store on its own.  The store's invariant is
part of `ServiceInv`: the coordinator extends `RunStore`, each of its steps is a transaction of the store
or leaves the tables alone (`StepsAreTransactions`), and the store's theorems are used as they stand.
A verdict is true because of where the worker is: `WorkerHoldsRow` says, at each of its awaits, which
row it holds and whether that run was handed over, and `RowsTellErrors` that rows nobody created were
not.  `RunningRowIsUnique` is what recovery and the claim need of each other, `LifecycleIsLocked` places
the worker between start and the shutdown task, and `OrphansWereCancelled` explains the exception in
`SleepsOnlyWhenIdle`.

**RuntimeAdapter** (`RuntimeAdapterProofs`), from `AdapterConstants` (a task is a caller or a closer, and
no harness is called `None`): `NoLeak`, `SoundSessions`, and `ContractKept`, the adapter implements
`AgentRuntime`.  `AdapterInv` says what the holder of the lock finds at each SDK call it waits for
(`Finds`) and what is held outside of one (`Held`): after a failure it is the place of the holder that
tells how much has been cleaned up, so an adapter is broken for the contract only once its holder
is past the reset.

**RuntimeSupervisor and RuntimePool** (`RuntimePoolProofs`), from `SupervisorConstants` and `PoolConstants`:
`SingleOwner`, a slot has at most one owner that was made and not closed; `NobodyWaitsInVain`, a request waits
only while no slot could serve it, nobody is overtaken, and closing the slots waits for the
leases.  The invariant of a supervisor ties its fields to the set of its unclosed owners: that set
is empty or holds exactly the generation it owns, a cleanup is in progress only over an owner,
and a failed one quarantines the slot.  That of the pool (`PoolInv`) adds that leases and running
requests are one to one, that the queue is the waiting requests by age and younger than all that
run, and that a queue is not empty only under a lease (`NoneMissed`): the release of that lease will
pump.  `Kept` is what every step keeps up to its call of `Pump`, and one lemma about `Pump` does the rest.

**Owners** (`RuntimeOwnersProofs`), from the above and `OwnersConstants` (0 is no process): the properties
of the run `owners` for the specification it checks: `SoundHarnesses`, `QueueServed`, `OwnersAreSingle`,
`ProcessesRemembered`, `HonestClose`, `ContractsKept`.  New here are manager and server.  `ManagerInv` says what
a startup, a restart and a shutdown may assume of each other at their awaits: a startup runs
alone (`StartupIsAlone`), directories go after processes (`CleanupIsOrdered`), and a call that is with the
agent has an owner, which a call that may come in finds alive (`PromptsHaveOwners`).  The server's invariant says what is open at each stage.

**AguiCoordinator** (`AguiCoordinatorProofs`), from `AguiConstants` and `CoordinatorConstants`: `OnePromptEach`,
`SessionsRetired`, `NobodyForgotten`, `TranscriptsTell`, `ProofsSurvive`, for any number of runs, slots, failing
writes and deaths in one behaviour, where the runs of TLC combine few of them.  The conjuncts of
`IInv` depend on each other:
- `AllSound` relates each row to its execution and to its proof on disk (`Sound`): whether the artifact is
  stored follows from where `execute` is, and a row is left running only by an execution that
  rejected or a latched coordinator;
- `Sessions`: a run in flight is the newest of its conversation, so that a run admitted later cannot
  meet an unknown session;
- `Lined` and `QueueMoves`: what waits is queued, once, and waits only for a slot or a coordinator that stopped;
- `Prompted` and `FlagsAgree`: a prompt is of a running row unless the runtime was given up, and a
  restart finds none; the executions do not exceed `Concurrency`.

Steps that settle rows share `SettlingKeepsInv`, those that only raise flags `FlagStep`.  `pump` runs in the
middle of a step, so `Found` is the invariant of the values it is given, and `PumpKeepsInv` leads from
there to the next state for admission, departure, restart and the start after a death.

**Streams** (`StreamsProofs`), from `StreamConstants`, `PageConstants` (finitely many clients, pages are not empty, a
run has room for its first and its last two rows) and nothing of the peer's callers: `NobodySleepsThrough` and
`EveryRowInOrder`.
- `StreamInv`: a reader's cursor is what its client has, and while the version of the topic is the one it
  observed before its query, the query covers what was published (`NothingMissed`); a topic counts the
  readers that live;
- `AguiInv`: a page with room covers what was noticed as long as the revision is the same (`PageFits`);
- `ReplyInv`: the rows given are exactly those of the channel up to the cursor (`Given`), and the listeners
  on the socket follow from where the reply waits (`ListenersFit`);
- `PeerInv`: `_pending` holds who waits for an open future, and besides only calls that were cancelled and have
  not had their turn (`CallFits`, of each call by itself); a reader that is done has seen the group gone and
  stdin broken, so that nobody can come to wait after it, and one that is dead has read the answer to a
  cancelled call (`ReaderFollows`).  Nothing is claimed of the calls such a reader leaves.

**The parts that stand alone** (`PartsProofs`): one section and one invariant for each of the sixteen, and
at the end `PartsInvariance` for `MCSpec`, from which each property of the run `parts` is read: `PartsTyped`,
`LedgerSoundness`, `AccountsOnlyGrow`, `RecoveryIsPossible`, `HonestCleanup`, `AuditTells`, `PagesTell`,
`TranscriptsAnswer`, `ExactAttempts` and `HonestVerdicts`.  A part starts in any of its initial states when it
is the one that moves; the lemmas `...Starts` and `...Steps` are about each part by itself.  The assumptions
are `NothingIsNothing` (what stands for nobody is not somebody), `BoundsAreNumbers`, and `PartsAreCounted`:
uploads and fake runs are finitely many, because the code counts them, and tokens are naturals,
because `core.ts:160` rejects others.
- *Ledger* (`LedgerInv`): the records in memory, in the checkpoint and in the temporary file are each `Consistent`
  (each bound to one session, intervals that do not overlap), and each of the three contains what was
  saved before it (`Saved`).  `ConsistentLoads` leads from there to loading, whatever the order of the file.  An
  account is a sum over a set; that it only grows with the set is `KnownGrows`.
- *Upload proxy* (`UploadInv`): the proxy knows every file there may be (`ProxyKnows`), and not only the recovery
  file but every snapshot in the queue accounts for all the files there may be once it is written
  (`QueueAccounts`): an upload is sent only when a snapshot that counts it is in place, and a file is struck
  off only when the service has deleted it.  `CleanupEndsClean` needs no more.
- *Audit* (`AuditInv`): the row of a call is durable, reported, or the latest of its session and still in its
  slot, or still to be read (`LiveRows`); a durable row has a live one before it (`DurableRows`).
- *Proof tool* (`ToolInv`): what an attempt believes to own, at each of its awaits, is its own (`Holds`), whatever
  the other attempts did since.  *Resource* (`ResourceInv`): at each place of the rollback and of the
  disposer, what is still taken.  *Fake runtime* (`FakeInv`): of a session one run is busy, and as long as
  nothing failed no partition has the name of the next (`NamesAreOld`).
- *Scripts* (`ProbeInv`, `LifeInv`, `SandboxInv`, `LaunchInv`, `ImageInv`, `RoundsInv`): each place of the nested
  `try` and `finally` blocks has behind it what the code did on the way, unless something has failed.
- *Page* (`WebInv`, `ChatInv`): one inspection is active (`OnePoll`), only a watch of the run it monitors is wanted,
  and neither a watch nor the page is ahead of the service (`WatchIsBehind`, `ShownIsTrue`); of the fetches
  of the chat one is wanted, and it read the chat that is mounted, not before it was (`WantedIsMounted`).  *Frames* (`FramesInv`): delivered is, in order, what
  was taken from the buffer.
- *Projector* (`ProjectorInv`): every transcript so far can be continued (`Coherent`), and the last one `Matches` the
  steps: a message has been said by its step, a call is made and answered as the state of the call says.
  The transcript is a recursive function of the log.  That it exists (`TranscriptExists`) and that a log that
  grows keeps the transcripts it had (`TranscriptGrows`) are shown by a least counterexample, since the
  theorems of induction cannot be used; so is the sum of the ledger.

## 6. Only model-checked

- *Liveness*: `QueuedRunsSettle`, `ShutdownEnds`, `OwnersAnswer`, `StreamsLetGo`, `ExecutionsSettle`, `ShutdownIsBounded`,
  `WaitsEnd`.  Liveness under fairness and ENABLED are out of the prover's reach.
- *The findings*, which are counterexamples.  Of `JsonlPeer` the safety part is proved; its fairness is
  stated for `peer_close` and `peer_cancel`.
- *Locks and transactions*: that two statements of one store transaction are seen together is taken from
  SQLite's `BEGIN IMMEDIATE`, not checked.

Some definitions were put into the form in which they can be reasoned about: `Pump` of the pool
is the choice of the requests it serves and of their slots, where the code has a loop, `LiveReplyIsExact` and
`FramesAreExact` compare sequences by their members and their order, since a lemma about `SelectSeq` needs
induction over data, and `Transcripts` is a recursive function where the code is a loop over the log.
Minima of sets are obtained from the well-foundedness theorems (`LeastIsThere`, `LeastSet`).

## 7. Not modelled

- Validation, fingerprints, formatting and encoding; read-only routes, whose answers may mix two
  transactions (listed as a hazard); the content of artifacts and proofs; the SDK, DSH and the
  engines the labs drive, which are not in the repository.
- *Normalisation, tenancy proxy, evaluation* of the Python service: pure functions, a stateless filter,
  and a driver from outside.
- *Compaction lab*: scripted experiments that call an external engine and compare what it recorded;
  the state and the control that matter are the engine's.  *Session format lab*: fixed files and an
  external migration.
- *Protocol lab* beside the peer: one-shot drivers of external programs that normalise and compare
  their output.  Of the peer: notifications, frame limits and stderr, which nothing waits for except
  the reader at its end.
- *Web host lab* beside the launcher: scripts that read logs and compare them with expectations.
- Rendering of the page and the chat library; tutorials and documentation.

The reason for each part is its note in `PROJECT.json`.
