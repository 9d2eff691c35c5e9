------------------------------- MODULE MCStreams -------------------------------
(***************************************************************************)
(* The ways in which a client is answered, for TLC: the rows of a run over *)
(* the stream of the Python service (EventStream), the replay route of the *)
(* AG-UI runtime (AguiStream) and the reply of its POST route (LiveReply), *)
(* and the answers of a child process over its pipes (JsonlPeer).  They    *)
(* share nothing, so a behaviour is one of one of them, and the others     *)
(* stay where they start.                                                  *)
(***************************************************************************)
EXTENDS EventStream, LiveReply, TLC

CONSTANTS a, b, Page, MaxRows, PeerCaller

\* A run has its queued row, and its last two are committed at once.
ASSUME PageConstants ==
  Page \in Nat \ {0} /\ LivePage \in Nat \ {0} /\ MaxRows \in Nat /\ MaxRows >= 3

\* The names of the calls and tasks that are not callers of the peer.
ASSUME PeerNames == PeerCaller \cap {"shutdown", "handler", "nobody"} = {}

VARIABLES
  which,
  newest, end, noticed, revision, shut, generator, received, \* of AguiStream
  asked, waiter, pending, frame, writer, stdin, closing, handler,
  child, descendants, stdout, answers, listener, close                \* of JsonlPeer

Agui == INSTANCE AguiStream
          WITH last <- newest, reader <- generator, got <- received, MaxEvents <- MaxRows
Peer == INSTANCE JsonlPeer WITH Caller <- PeerCaller, reader <- listener

aguiVars == <<newest, end, noticed, revision, shut, generator, received>>
peerVars == <<asked, waiter, pending, frame, writer, stdin, closing, handler,
              child, descendants, stdout, answers, listener, close>>

MCInit ==
  /\ which \in {"service", "agui", "reply", "peer"}
  /\ Init /\ Agui!Init /\ LiveInit /\ Peer!PeerInit
  /\ which # "service" => got = [c \in Client |-> 0]

MCNext ==
  /\ UNCHANGED which
  /\ \/ which = "service" /\ Next /\ UNCHANGED <<aguiVars, liveVars, peerVars>>
     \/ which = "agui" /\ Agui!Next /\ UNCHANGED <<vars, liveVars, peerVars>>
     \/ which = "reply" /\ LiveNext /\ UNCHANGED <<vars, aguiVars, peerVars>>
     \/ which = "peer" /\ Peer!PeerNext /\ UNCHANGED <<vars, aguiVars, liveVars>>

\* The fairness of each; a run that nobody follows need not end.
MCFairness ==
  /\ WF_vars(Publish)
  /\ WF_vars(which = "service" /\ \E isTerminal \in BOOLEAN : Commit(isTerminal))
  /\ \A c \in Client : WF_vars(ReaderStep(c))
  /\ Agui!Fairness /\ LiveFairness

MCSpec == MCInit /\ [][MCNext]_<<which, vars, aguiVars, liveVars, peerVars>> /\ MCFairness

\* Whoever sleeps has what it could have been woken for: no notification falls between
\* the query and the wait (notifier.py, subscriptions.ts), a stream of the service ends
\* only with the whole log, and a wake-up finds the topic every reader listens to.  A caller
\* of the peer that waits has a future that is registered or done; a reader that ends, or a
\* close that returns, leaves no caller behind, unless the reader died of the answer to a
\* call that was cancelled before.  And every variable has its type.
NoWakeUpIsLost ==
  /\ TypeOK /\ Agui!TypeOK /\ LiveTypeOK /\ Peer!PeerTypeOK
  /\ SleepsOnlyWhenCaughtUp /\ EndsAtTerminalEvent /\ TopicsMatchSubscriptions
  /\ Agui!ShortPageSleepsCaughtUp /\ Peer!PendingIsAwaited
  /\ Peer!ReaderLeavesNobody /\ Peer!ClosedIsClean

\* What a client receives next is the row after the last one it had, however often it
\* comes back (sse.py, GET /api/runs/:id/stream), and the reply of POST /api/ag-ui gives
\* the ag-ui rows of its run in order, each one once, and cleans up after itself (app.ts).
ClientsGetEveryRow ==
  [][InOrder /\ Agui!InOrder /\ LiveReplyIsExact']_<<which, vars, aguiVars, liveVars, peerVars>>

\* Every stream lets go of its client: at the end of the run in the service, at the
\* shutdown of the AG-UI runtime, and when the socket of a reply is gone.
StreamsLetGo == StreamsEnd /\ Agui!ShutdownReleasesReaders /\ LiveReplyEnds
===============================================================================
