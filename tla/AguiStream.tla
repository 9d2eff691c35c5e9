------------------------------ MODULE AguiStream ------------------------------
(***************************************************************************)
(* The event stream of one run of the AG-UI runtime: PersistedSubscriptions*)
(* of server/subscriptions.ts, read by the SSE routes of server/app.ts.    *)
(*                                                                         *)
(* The generator runs alone between two suspensions: at a yield, while its *)
(* consumer writes to the socket, and in wait.  Events are committed and   *)
(* waiters notified in between.                                            *)
(***************************************************************************)
EXTENDS Naturals, FiniteSets

CONSTANTS
  Client,
  Page,        \* rows per query; 100 in the code
  MaxEvents    \* bound on the rows of the run

VARIABLES
  last,      \* the seq of the newest event of the run
  end,       \* the seq of its ag-ui terminal event, 0 while the run is not terminal
  noticed,   \* the newest event when the waiters were last notified
  revision,  \* of the subscriptions
  shut,      \* the subscriptions are shut down
  reader,    \* the generator behind each client's stream
  got        \* the newest event each client received: where it resumes

logVars == <<last, end, noticed, revision, shut>>
vars    == <<logVars, reader, got>>

Off == [pc |-> "off", cursor |-> 0, upto |-> 0, seen |-> 0, full |-> FALSE]

Subscribed(c) == reader[c].pc \in {"read", "yield", "wait"}
Terminal      == end # 0

------------------------------------------------------------------------------
(***************************************************************************)
(* The writer                                                              *)
(***************************************************************************)

\* appendEvent: one row.  Notifications of a run that was settled early still come.
Commit ==
  /\ last < MaxEvents - (IF Terminal THEN 0 ELSE 2)
  /\ last' = last + 1
  /\ UNCHANGED <<end, noticed, revision, shut, reader, got>>

\* finishRun, markExecutionUnknown: the status, a business and an ag-ui row at once.
Finish ==
  /\ ~ Terminal
  /\ last' = last + 2
  /\ end' = last + 2
  /\ UNCHANGED <<noticed, revision, shut, reader, got>>

Woken == [c \in Client |-> IF reader[c].pc = "wait" THEN [reader[c] EXCEPT !.pc = "read"]
                           ELSE reader[c]]

\* notify: in the same turn as most commits, some awaits after finishRun.
Notify ==
  /\ noticed < last
  /\ noticed' = last
  /\ revision' = revision + 1
  /\ reader' = Woken
  /\ UNCHANGED <<last, end, shut, got>>

------------------------------------------------------------------------------
(***************************************************************************)
(* stream                                                                  *)
(***************************************************************************)

\* GET /api/runs/:id/stream, from the cursor of the query or of Last-Event-ID.
Connect(c) ==
  /\ reader[c].pc = "off"
  /\ ~ shut
  /\ reader' = [reader EXCEPT ![c] = [Off EXCEPT !.pc = "read", !.cursor = got[c]]]
  /\ UNCHANGED <<logVars, got>>

PageEnd(cursor) == IF last < cursor THEN cursor
                   ELSE IF last - cursor < Page THEN last ELSE cursor + Page

\* After a page: a finished run ends the stream unless the page was full; otherwise
\* wait, if nothing was notified since the page was read.
AfterPage(r) ==
  IF Terminal /\ ~ r.full THEN [Off EXCEPT !.pc = "ended"]
  ELSE IF r.seen # revision THEN [r EXCEPT !.pc = "read"]
  ELSE [r EXCEPT !.pc = "wait"]

\* The top of the loop: the revision, then a page of rows after the cursor.
Read(c) ==
  /\ reader[c].pc = "read"
  /\ ~ shut
  /\ LET r == [reader[c] EXCEPT !.pc   = "yield",
                                !.seen = revision,
                                !.upto = PageEnd(reader[c].cursor),
                                !.full = PageEnd(reader[c].cursor) = reader[c].cursor + Page]
     IN reader' = [reader EXCEPT ![c] = IF r.cursor = r.upto THEN AfterPage(r) ELSE r]
  /\ UNCHANGED <<logVars, got>>

\* The consumer asks for the next row and writes it; the generator is suspended at its
\* yield until the socket took it.
Yield(c) ==
  /\ reader[c].pc = "yield"
  /\ ~ shut
  /\ reader[c].cursor < reader[c].upto
  /\ reader' = [reader EXCEPT ![c].cursor = @ + 1]
  /\ got' = [got EXCEPT ![c] = reader[c].cursor + 1]
  /\ UNCHANGED logVars

\* The generator resumes after the last row of its page.
PageDone(c) ==
  /\ reader[c].pc = "yield"
  /\ ~ shut
  /\ reader[c].cursor = reader[c].upto
  /\ reader' = [reader EXCEPT ![c] = AfterPage(reader[c])]
  /\ UNCHANGED <<logVars, got>>

\* The client goes away, wherever its stream is, and may come back.
Disconnect(c) ==
  /\ Subscribed(c)
  /\ reader' = [reader EXCEPT ![c] = Off]
  /\ UNCHANGED <<logVars, got>>

\* Mutant: shutdown wakes the waiters only, and a stream looks at the signal in wait.
Released_WaitersOnly(c) ==
  /\ shut
  /\ reader[c].pc = "wait"
  /\ reader' = [reader EXCEPT ![c] = Off]
  /\ UNCHANGED <<logVars, got>>

\* After shutdown the signal is aborted: a wait returns, a write to the socket throws,
\* and the loop ends at its top.
Released(c) ==
  /\ shut
  /\ Subscribed(c)
  /\ reader' = [reader EXCEPT ![c] = Off]
  /\ UNCHANGED <<logVars, got>>

Shutdown ==
  /\ ~ shut
  /\ shut' = TRUE
  /\ UNCHANGED <<last, end, noticed, revision, reader, got>>

\* An admitted run has its queued event.
Init ==
  /\ last = 1 /\ end = 0 /\ noticed = 1 /\ revision = 0 /\ shut = FALSE
  /\ reader = [c \in Client |-> Off]
  /\ got = [c \in Client |-> 0]

ReaderStep(c) == Read(c) \/ Yield(c) \/ PageDone(c) \/ Released(c)

Next ==
  \/ Commit \/ Finish \/ Notify \/ Shutdown
  \/ \E c \in Client : Connect(c) \/ ReaderStep(c) \/ Disconnect(c)

\* Generators resume and sockets take what is written, or the client is gone; a commit
\* is followed by its notification.
Fairness == WF_vars(Notify) /\ \A c \in Client : WF_vars(ReaderStep(c))

Spec     == Init /\ [][Next]_vars
FairSpec == Spec /\ Fairness

------------------------------------------------------------------------------
(***************************************************************************)
(* Properties                                                              *)
(***************************************************************************)

\* Every variable has its type, and no cursor is ahead of the log.
TypeOK ==
  /\ last \in 1 .. MaxEvents /\ end \in 0 .. last /\ noticed \in 1 .. last
  /\ revision \in Nat /\ shut \in BOOLEAN
  /\ reader \in [Client -> [pc : {"off", "read", "yield", "wait", "ended"}, cursor : 0 .. last,
                            upto : 0 .. last, seen : 0 .. revision, full : BOOLEAN]]
  /\ got \in [Client -> 0 .. last]

\* However often a client comes back, it receives the rows in order, each one once.
InOrder == \A c \in Client : got'[c] # got[c] => got'[c] = got[c] + 1

ReplayIsExact == [][InOrder]_vars

\* A reader whose last page had room sleeps only when it has every row that was
\* notified: no notification falls between the page and the wait.
ShortPageSleepsCaughtUp ==
  \A c \in Client : reader[c].pc = "wait" /\ ~ reader[c].full => reader[c].cursor >= noticed

\* Shutdown releases every reader, whether it waits, reads or hangs on a slow socket.
ShutdownReleasesReaders == shut ~> \A c \in Client : ~ Subscribed(c)

\* A replay of a run delivers its rows: a reader never sleeps on rows that were there,
\* and notified, before it went to sleep.
SleepsOnlyWhenCaughtUp ==
  \A c \in Client : reader[c].pc = "wait" => reader[c].cursor >= noticed

\* A client that stayed to the end of the stream has the terminal event of its run.
EndsWithTerminalEvent ==
  \A c \in Client : reader[c].pc = "ended" => got[c] >= end
===============================================================================
