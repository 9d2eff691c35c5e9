------------------------------ MODULE LiveReply ------------------------------
(* POST /api/ag-ui (server/app.ts): a run is admitted and its ag-ui rows are *)
(* written to the socket as they come.  The loop of the reply, writeSseChunk *)
(* with its back pressure, and the listeners on the socket.  That no wake-up *)
(* is lost and when the generator returns is the subject of AguiStream.      *)
EXTENDS Naturals, Sequences, FiniteSetsExt

CONSTANTS LivePage, MaxLive  \* rows per query; bound on the rows of the run

VARIABLES
  log,        \* the channels of the rows of the run
  settled,    \* the run is terminal
  down,       \* the subscriptions are shut down
  socket,     \* "open", "closed" (by the peer or an error), "ended" (by the server)
  reply,      \* [at, cursor, upto, full, seen]: the page, was it full, rows there were
  live,       \* the rows that were given to the socket
  listeners   \* on the socket: "detach" (detachSignal), "drain" (writeSseChunk)

liveVars == <<log, settled, down, socket, reply, live, listeners>>

Channel == {"ag-ui", "other"}
Aborted == down \/ socket = "closed"
ReplyAt(what) == reply' = [reply EXCEPT !.at = what]
Outside == UNCHANGED <<log, settled, down>>

\* The finally block of the route: the listeners go, and a socket that is there ends.
Finishes(left) ==
  /\ ReplyAt("over") /\ listeners' = left \ {"detach"}
  /\ socket' = IF socket = "open" THEN "ended" ELSE socket

\* Rows are committed while the reply is suspended; the last two settle the run.
LiveCommit(channel) ==
  /\ reply.at # "none" /\ ~ settled /\ Len(log) < MaxLive - 1
  /\ log' = Append(log, channel)
  /\ UNCHANGED <<settled, down, socket, reply, live, listeners>>

LiveFinish ==
  /\ reply.at # "none" /\ ~ settled /\ settled' = TRUE
  /\ log' = log \o <<"other", "ag-ui">>
  /\ UNCHANGED <<down, socket, reply, live, listeners>>

\* The request is refused, by its type, its body or the coordinator; or the run exists.
Rejects ==
  /\ reply.at = "none" /\ ReplyAt("refused")
  /\ socket' \in {"ended", "closed"}
  /\ Outside /\ UNCHANGED <<live, listeners>>

\* The run is admitted, with its first row, and the reply is taken from the framework.
Admits ==
  /\ reply.at = "none" /\ ~ down
  /\ log' = <<"other">> /\ ReplyAt("page") /\ listeners' = {"detach"}
  /\ UNCHANGED <<settled, down, socket, live>>

\* The generator: a page of rows, or nothing after an abort.
PageRead ==
  /\ reply.at = "page"
  /\ IF Aborted THEN Finishes(listeners)
     ELSE /\ reply' = [at |-> "row", cursor |-> reply.cursor, seen |-> Len(log),
                       upto |-> Min({Len(log), reply.cursor + LivePage}),
                       full |-> Len(log) >= reply.cursor + LivePage]
          /\ UNCHANGED <<socket, listeners>>
  /\ Outside /\ UNCHANGED live

Later == {s \in reply.cursor + 1 .. reply.upto : log[s] = "ag-ui"}

\* Mutant: a row that found the socket full is written again.
Drained_Again ==
  /\ reply.at = "drain" /\ socket = "open" /\ ~ down
  /\ ReplyAt("row") /\ listeners' = listeners \ {"drain"}
  /\ live' = Append(live, reply.cursor)
  /\ Outside /\ UNCHANGED socket

\* The next row of the channel: writeSseChunk throws if the signal is aborted or the
\* socket is gone, else it writes, and waits if the socket is full.
RowWritten(full) ==
  /\ reply.at = "row" /\ Later # {}
  /\ IF Aborted
     THEN Finishes(listeners) /\ UNCHANGED live
     ELSE /\ live' = Append(live, Min(Later))
          /\ reply' = [reply EXCEPT !.cursor = Min(Later), !.at = IF full THEN "drain" ELSE "row"]
          /\ listeners' = IF full THEN listeners \cup {"drain"} ELSE listeners
          /\ UNCHANGED socket
  /\ Outside

Drained ==
  /\ reply.at = "drain" /\ socket = "open" /\ ~ down
  /\ ReplyAt("row") /\ listeners' = listeners \ {"drain"}
  /\ Outside /\ UNCHANGED <<socket, live>>

\* Close, error or abort before the drain.
DrainAborted ==
  /\ reply.at = "drain" /\ Aborted /\ Finishes(listeners \ {"drain"})
  /\ Outside /\ UNCHANGED live

\* The page is done: a settled run whose page was not full ends the reply; a wait ends
\* with an abort or with a commit after the page was read.
RowsDone ==
  /\ reply.at = "row" /\ Later = {}
  /\ IF settled /\ ~ reply.full
     THEN Finishes(listeners)
     ELSE /\ reply' = [reply EXCEPT !.at = "wait", !.cursor = reply.upto]
          /\ UNCHANGED <<socket, listeners>>
  /\ Outside /\ UNCHANGED live

WaitOver ==
  /\ reply.at = "wait"
  /\ \/ Aborted /\ Finishes(listeners)
     \/ ~ Aborted /\ Len(log) > reply.seen /\ ReplyAt("page") /\ UNCHANGED <<socket, listeners>>
  /\ Outside /\ UNCHANGED live

\* The client goes away or its socket breaks: detachSignal and writeSseChunk hear of it.
SocketCloses ==
  /\ socket = "open" /\ reply.at \notin {"none", "refused"} /\ socket' = "closed"
  /\ UNCHANGED <<log, settled, down, reply, live, listeners>>

LiveShutdown ==
  /\ ~ down /\ down' = TRUE
  /\ UNCHANGED <<log, settled, socket, reply, live, listeners>>

LiveInit ==
  /\ log = << >> /\ settled = FALSE /\ down = FALSE /\ socket = "open"
  /\ reply = [at |-> "none", cursor |-> 0, upto |-> 0, full |-> FALSE, seen |-> 0] /\ live = << >> /\ listeners = {}

LoopStep == PageRead \/ (\E full \in BOOLEAN : RowWritten(full)) \/ DrainAborted \/ RowsDone \/ WaitOver

LiveNext ==
  \/ (\E channel \in Channel : LiveCommit(channel)) \/ LiveFinish
  \/ Rejects \/ Admits \/ LoopStep \/ Drained \/ SocketCloses \/ LiveShutdown

\* The loop of the reply goes on; whether a socket drains is up to its peer.
LiveFairness == WF_liveVars(LoopStep)

LiveSpec == LiveInit /\ [][LiveNext]_liveVars /\ LiveFairness

LiveTypeOK ==
  /\ log \in Seq(Channel) /\ socket \in {"open", "closed", "ended"}
  /\ reply.at \in {"none", "refused", "page", "row", "drain", "wait", "over"}
  /\ listeners \subseteq {"detach", "drain"} /\ {settled, down} \subseteq BOOLEAN

\* The newest row that was given to the client.
Newest == IF live = << >> THEN 0 ELSE live[Len(live)]

\* The client is given the ag-ui rows of its run in order, each one once, whatever the
\* back pressure; a reply that is over has no listener on the socket and leaves it closed.
LiveReplyIsExact ==
  /\ \A i, j \in DOMAIN live : i < j => live[i] < live[j]
  /\ {live[i] : i \in DOMAIN live} = {s \in 1 .. Newest : log[s] = "ag-ui"}
  /\ reply.at = "over" => listeners = {} /\ socket # "open"

\* A reply ends when its client is gone or the server shuts down, even if it waits for a
\* socket that never drains.
LiveReplyEnds == (socket = "closed" \/ down) ~> reply.at \in {"none", "refused", "over"}
===============================================================================
