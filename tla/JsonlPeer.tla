------------------------------ MODULE JsonlPeer ------------------------------
(***************************************************************************)
(* JsonlPeer of labs/protocol-semantics: the owner of a child process that *)
(* speaks JSON-RPC over its pipes.  Callers, the reader of stdout, a       *)
(* handler of the child's requests and close are tasks of one event loop,  *)
(* so an action is what happens from one await to the next.  A task that   *)
(* is cancelled, or whose timer has fired, learns of it in its next turn.  *)
(*                                                                         *)
(* The peer numbers its requests, so a request stands for its id.          *)
(* External: the child, the descendants that share its pipes, and the      *)
(* buffer before stdin, as asyncio's pipe transport keeps it: above its    *)
(* limit ("full") drain waits, and as long as something is in it close     *)
(* does not take effect.  "some" leaves room for the short frame of close. *)
(* The child need not read, answer or exit.                                *)
(***************************************************************************)
CONSTANT Caller    \* requests of the users of the peer

Shutdown == "shutdown"              \* the request of close itself
Request  == Caller \cup {Shutdown}
Handler  == "handler"               \* the task that answers a request of the child
Nobody   == "nobody"

VARIABLES
  asked,        \* where each call of request is: "idle", "lock", "drain", "wait", "timed" (it
                \* waits with a timeout), "cancelled" (its turn has not come), or how it ended
  waiter,       \* its future: "none", "pending", "answered", "exited", "cancelled"
  pending,      \* _pending: who is to be answered
  frame,        \* its frame: "none", "buffered", "received" by the child, "answered"
  writer,       \* who holds _write_lock
  stdin,        \* the buffer: "empty", "some", "full", or "lost": the pipe is closed
  closing,      \* stdin.close was called
  handler,      \* "none", "busy" in its callback, "lock", "drain"
  child,        \* "alive", "exited"
  descendants,  \* whether processes of its group outlive it
  stdout,       \* whether the child has its stdout open
  answers,      \* what is in that pipe: answers, and a request as Handler
  reader,       \* _read_stdout: "reading", "eof", "exit" (waits for it), "done", "dead" (raised)
  close         \* "none", "shutdown", "stdin", "grace", "term", "group", "gather", "closed"

callVars  == <<asked, waiter, pending>>
pipeVars  == <<frame, writer, stdin>>
childVars == <<child, descendants, stdout>>
peerVars  == <<callVars, pipeVars, childVars, closing, handler, answers, reader, close>>

Over    == {"answered", "failed", "exited"}
Gone    == child = "exited" /\ ~ descendants
\* A write fails: the pipe is closed, or is found to be when the frame goes to it at once.
Lost    == stdin = "lost" \/ (Gone /\ stdin = "empty")
\* The child's end of stdout is closed everywhere.
Eof     == ~ descendants /\ (child = "exited" \/ ~ stdout)
Waits(r)   == asked[r] \in {"wait", "timed"}
Waiting(r) == asked[r] \in {"lock", "drain"} \/ Waits(r)

PeerInit ==
  /\ asked = [r \in Request |-> "idle"] /\ waiter = [r \in Request |-> "none"]
  /\ pending = {} /\ frame = [r \in Request |-> "none"]
  /\ writer = Nobody /\ stdin = "empty" /\ closing = FALSE /\ handler = "none"
  /\ child = "alive" /\ descendants = FALSE /\ stdout = TRUE /\ answers = {}
  /\ reader = "reading" /\ close = "none"

------------------------------------------------------------------------------
(* request                                                                 *)

\* It ends: nobody is to answer it any more, and its future is cancelled unless it is done.
Ends(r, how) ==
  /\ asked' = [asked EXCEPT ![r] = how]
  /\ pending' = pending \ {r}
  /\ waiter' = [waiter EXCEPT ![r] = IF @ \in {"answered", "exited"} THEN @ ELSE "cancelled"]

\* It is registered, and _write looks at stdin before it asks for the lock.
Registered(r) ==
  IF stdin = "lost" \/ closing
  THEN Ends(r, "exited")
  ELSE /\ asked' = [asked EXCEPT ![r] = "lock"]
       /\ waiter' = [waiter EXCEPT ![r] = "pending"]
       /\ pending' = pending \cup {r}

Ask(r) ==
  /\ asked[r] = "idle" /\ close \in {"none", "shutdown"}
  /\ Registered(r)
  /\ UNCHANGED <<pipeVars, childVars, closing, handler, answers, reader, close>>

\* How full the buffer is after stdin.write: that depends on the frame, which is short if
\* it is the one of close, and a closed stdin drops it.
Buffered(sender) ==
  LET large == IF sender = Shutdown THEN {} ELSE {"full"} IN
  CASE closing \/ stdin = "full" -> {stdin}
    [] ~ closing /\ stdin = "some"  -> {"some"} \cup large
    [] ~ closing /\ stdin = "empty" -> {"empty", "some"} \cup large

Sent(level) ==
  IF closing THEN "none" ELSE IF level = "empty" THEN "received" ELSE "buffered"

\* Where a call waits for its answer: only the caller of request sets no timeout.
Place(r) == IF r = Shutdown THEN {"timed"} ELSE {"wait", "timed"}

\* The lock is free: write, and drain if the buffer is full.
Writes(r) ==
  /\ asked[r] = "lock" /\ writer = Nobody
  /\ \/ /\ Lost
        /\ Ends(r, "exited") /\ UNCHANGED pipeVars
     \/ /\ ~ Lost
        /\ \E level \in Buffered(r), place \in Place(r) :
             /\ stdin' = level
             /\ frame' = [frame EXCEPT ![r] = Sent(level)]
             /\ asked' = [asked EXCEPT ![r] = IF level = "full" THEN "drain" ELSE place]
             /\ writer' = IF level = "full" THEN r ELSE Nobody
        /\ UNCHANGED <<waiter, pending>>
  /\ UNCHANGED <<childVars, closing, handler, answers, reader, close>>

Drained(r) ==
  /\ asked[r] = "drain" /\ stdin # "full" /\ writer' = Nobody
  /\ IF stdin = "lost" THEN Ends(r, "exited")
     ELSE /\ \E place \in Place(r) : asked' = [asked EXCEPT ![r] = place]
          /\ UNCHANGED <<waiter, pending>>
  /\ UNCHANGED <<frame, stdin, childVars, closing, handler, answers, reader, close>>

Returns(r) ==
  /\ Waits(r) /\ waiter[r] \in {"answered", "exited"}
  /\ Ends(r, waiter[r])
  /\ UNCHANGED <<pipeVars, childVars, closing, handler, answers, reader, close>>

\* The timer of a call fires.  Its future is shielded, and stays as it is.
TimesOut(r) ==
  /\ asked[r] = "timed" /\ asked' = [asked EXCEPT ![r] = "cancelled"]
  /\ UNCHANGED <<waiter, pending, pipeVars, childVars, closing, handler, answers, reader, close>>

\* The task of the caller is cancelled, wherever it waits, and with it the future it waits
\* for: without a timeout that is the one the reader answers.
Cancelled(r) ==
  /\ Waiting(r) /\ asked' = [asked EXCEPT ![r] = "cancelled"]
  /\ waiter' = [waiter EXCEPT
                  ![r] = IF asked[r] = "wait" /\ @ = "pending" THEN "cancelled" ELSE @]
  /\ UNCHANGED <<pending, pipeVars, childVars, closing, handler, answers, reader, close>>

\* The turn of that task: only now the call leaves the table, and the lock if it had it.
Unwinds(r) ==
  /\ asked[r] = "cancelled" /\ Ends(r, "failed")
  /\ writer' = IF writer = r THEN Nobody ELSE writer
  /\ UNCHANGED <<frame, stdin, childVars, closing, handler, answers, reader, close>>

------------------------------------------------------------------------------
(* _read_stdout and the handlers it starts                                 *)

\* An answer that nobody is registered for is dropped.  A future that is cancelled cannot be
\* answered: InvalidStateError ends the reader, and nothing rejects the other calls any more.
ReadsAnswer(r) ==
  /\ reader = "reading" /\ r \in answers
  /\ answers' = answers \ {r} /\ pending' = pending \ {r}
  /\ LET raises == r \in pending /\ waiter[r] = "cancelled" IN
     /\ reader' = IF raises THEN "dead" ELSE reader
     /\ waiter' = IF r \in pending /\ ~ raises THEN [waiter EXCEPT ![r] = "answered"] ELSE waiter
  /\ UNCHANGED <<asked, pipeVars, childVars, closing, handler, close>>

ReadsRequest ==
  /\ reader = "reading" /\ Handler \in answers
  /\ answers' = answers \ {Handler} /\ handler' = "busy"
  /\ UNCHANGED <<callVars, pipeVars, childVars, closing, reader, close>>

SeesEof ==
  /\ reader = "reading" /\ Eof /\ answers = {} /\ reader' = "eof"
  /\ UNCHANGED <<callVars, pipeVars, childVars, closing, handler, answers, close>>

\* _reject_pending, once after the end of file and once after the exit: the futures that
\* are not done.
RejectPending ==
  /\ waiter' = [r \in Request |->
                  IF r \in pending /\ waiter[r] = "pending" THEN "exited" ELSE waiter[r]]
  /\ pending' = {} /\ UNCHANGED asked

RejectsAtEof ==
  /\ reader = "eof" /\ RejectPending /\ reader' = "exit"
  /\ UNCHANGED <<pipeVars, childVars, closing, handler, answers, close>>

\* Its pipes end in the order of their numbers: stdin is seen broken before stderr ends.
RejectsAtExit ==
  /\ reader = "exit" /\ Gone /\ stdin = "lost" /\ RejectPending /\ reader' = "done"
  /\ UNCHANGED <<pipeVars, childVars, closing, handler, answers, close>>

\* The callback has a result or an error; both are written, if stdin is open.
HandlerAnswers ==
  /\ handler = "busy"
  /\ handler' = IF stdin = "lost" \/ closing THEN "none" ELSE "lock"
  /\ UNCHANGED <<callVars, pipeVars, childVars, closing, answers, reader, close>>

HandlerWrites ==
  /\ handler = "lock" /\ writer = Nobody /\ UNCHANGED frame
  /\ \/ Lost /\ handler' = "none" /\ UNCHANGED <<writer, stdin>>
     \/ /\ ~ Lost
        /\ \E level \in Buffered(Handler) :
             /\ stdin' = level
             /\ handler' = IF level = "full" THEN "drain" ELSE "none"
             /\ writer' = IF level = "full" THEN Handler ELSE Nobody
  /\ UNCHANGED <<callVars, childVars, closing, answers, reader, close>>

HandlerDrained ==
  /\ handler = "drain" /\ stdin # "full" /\ handler' = "none" /\ writer' = Nobody
  /\ UNCHANGED <<callVars, frame, stdin, childVars, closing, answers, reader, close>>

------------------------------------------------------------------------------
(* The child                                                               *)

ChildReads ==
  /\ child = "alive" /\ stdin \in {"some", "full"}
  /\ stdin' = IF closing THEN "lost" ELSE "empty"
  /\ frame' = [r \in Request |-> IF frame[r] = "buffered" THEN "received" ELSE frame[r]]
  /\ UNCHANGED <<callVars, writer, childVars, closing, handler, answers, reader, close>>

ChildAnswers(r) ==
  /\ child = "alive" /\ stdout /\ frame[r] = "received"
  /\ frame' = [frame EXCEPT ![r] = "answered"] /\ answers' = answers \cup {r}
  /\ UNCHANGED <<callVars, writer, stdin, childVars, closing, handler, reader, close>>

\* One request of its own at a time.
ChildAsks ==
  /\ child = "alive" /\ stdout /\ handler = "none" /\ Handler \notin answers
  /\ answers' = answers \cup {Handler}
  /\ UNCHANGED <<callVars, pipeVars, childVars, closing, handler, reader, close>>

ChildForks ==
  /\ child = "alive" /\ ~ descendants /\ descendants' = TRUE
  /\ UNCHANGED <<callVars, pipeVars, child, stdout, closing, handler, answers, reader, close>>

DescendantsExit ==
  /\ descendants /\ descendants' = FALSE
  /\ UNCHANGED <<callVars, pipeVars, child, stdout, closing, handler, answers, reader, close>>

ChildClosesStdout ==
  /\ child = "alive" /\ stdout /\ stdout' = FALSE
  /\ UNCHANGED <<callVars, pipeVars, child, descendants, closing, handler, answers, reader, close>>

ChildExits ==
  /\ child = "alive" /\ child' = "exited"
  /\ UNCHANGED <<callVars, pipeVars, descendants, stdout, closing, handler, answers, reader, close>>

\* The transport sees that nobody has the other end of the pipe.
StdinBreaks ==
  /\ Gone /\ stdin # "lost" /\ stdin' = "lost"
  /\ UNCHANGED <<callVars, frame, writer, childVars, closing, handler, answers, reader, close>>

------------------------------------------------------------------------------
(* close                                                                   *)

\* _closed is set and stdin closed, which takes effect once its buffer is written.
StdinClosed ==
  /\ closing' = TRUE /\ close' = "stdin"
  /\ stdin' = IF stdin = "empty" THEN "lost" ELSE stdin

CloseCall ==
  /\ close = "none"
  /\ \/ StdinClosed /\ UNCHANGED <<callVars, frame, writer>>
     \/ child = "alive" /\ Registered(Shutdown) /\ close' = "shutdown"
        /\ UNCHANGED <<pipeVars, closing>>
  /\ UNCHANGED <<childVars, handler, answers, reader>>

ShutdownAnswered ==
  /\ close = "shutdown" /\ asked[Shutdown] \in Over
  /\ StdinClosed
  /\ UNCHANGED <<callVars, frame, writer, childVars, handler, answers, reader>>

StdinWaited ==
  /\ close = "stdin" /\ stdin = "lost" /\ close' = "grace"
  /\ UNCHANGED <<callVars, pipeVars, childVars, closing, handler, answers, reader>>

\* _reap_process_group: the child exits, or its group gets SIGTERM and then SIGKILL.
Reaped ==
  /\ close \in {"grace", "term"} /\ child = "exited" /\ close' = "group"
  /\ UNCHANGED <<callVars, pipeVars, childVars, closing, handler, answers, reader>>

GraceOver ==
  /\ close = "grace" /\ child = "alive" /\ close' = "term"
  /\ UNCHANGED <<callVars, pipeVars, childVars, closing, handler, answers, reader>>

Killed ==
  /\ \/ close = "term" /\ child = "alive"
     \/ close = "group" /\ descendants
  /\ child' = "exited" /\ descendants' = FALSE /\ close' = "group"
  /\ UNCHANGED <<callVars, pipeVars, stdout, closing, handler, answers, reader>>

HandlersCancelled ==
  /\ close = "group" /\ ~ descendants /\ close' = "gather"
  /\ handler' = "none" /\ writer' = IF writer = Handler THEN Nobody ELSE writer
  /\ UNCHANGED <<callVars, frame, stdin, childVars, closing, answers, reader>>

\* The reader is gathered however it ended; the one of stderr ends when everybody is gone.
CloseReturns ==
  /\ close = "gather" /\ close' = "closed"
  /\ reader = "done" \/ (reader = "dead" /\ Gone)
  /\ UNCHANGED <<callVars, pipeVars, childVars, closing, handler, answers, reader>>

------------------------------------------------------------------------------
RequestStep(r) == Writes(r) \/ Drained(r) \/ Returns(r) \/ Unwinds(r)
ReaderStep     ==
  (\E r \in Request : ReadsAnswer(r)) \/ ReadsRequest \/ SeesEof \/ RejectsAtEof \/ RejectsAtExit
HandlerStep    == HandlerWrites \/ HandlerDrained
CloseStep      ==
  ShutdownAnswered \/ StdinWaited \/ Reaped \/ GraceOver \/ Killed \/ HandlersCancelled \/ CloseReturns

ChildStep ==
  \/ \E r \in Request : ChildAnswers(r)
  \/ ChildAsks \/ ChildReads \/ ChildForks \/ DescendantsExit \/ ChildClosesStdout \/ ChildExits

PeerNext ==
  \/ \E r \in Request : RequestStep(r) \/ TimesOut(r)
  \/ \E r \in Caller : Ask(r) \/ Cancelled(r)
  \/ ReaderStep \/ HandlerAnswers \/ HandlerStep \/ CloseCall \/ CloseStep \/ StdinBreaks \/ ChildStep

\* The event loop runs its tasks and timers, its lock is first come, first served, and
\* SIGKILL works.  Nothing is assumed of the child, of the handler's callback or of callers
\* that set no timeout.
PeerFairness ==
  /\ \A r \in Request : SF_peerVars(RequestStep(r))
  /\ SF_peerVars(HandlerStep) /\ WF_peerVars(ReaderStep) /\ WF_peerVars(CloseStep)
  /\ WF_peerVars(TimesOut(Shutdown)) /\ WF_peerVars(StdinBreaks)

PeerSpec == PeerInit /\ [][PeerNext]_peerVars /\ PeerFairness

------------------------------------------------------------------------------
PeerTypeOK ==
  /\ asked \in [Request -> {"idle", "lock", "drain", "wait", "timed", "cancelled"} \cup Over]
  /\ waiter \in [Request -> {"none", "pending", "answered", "exited", "cancelled"}]
  /\ pending \subseteq Request /\ answers \subseteq Request \cup {Handler}
  /\ frame \in [Request -> {"none", "buffered", "received", "answered"}]
  /\ writer \in Request \cup {Handler, Nobody}
  /\ stdin \in {"empty", "some", "full", "lost"}
  /\ closing \in BOOLEAN /\ descendants \in BOOLEAN /\ stdout \in BOOLEAN
  /\ handler \in {"none", "busy", "lock", "drain"}
  /\ child \in {"alive", "exited"} /\ reader \in {"reading", "eof", "exit", "done", "dead"}
  /\ close \in {"none", "shutdown", "stdin", "grace", "term", "group", "gather", "closed"}

\* _pending holds exactly the calls whose future is open, whatever was written, dropped,
\* timed out or rejected meanwhile, and beside them only calls that were cancelled and have
\* not had their turn; nobody waits for a cancelled future.
PendingIsAwaited ==
  /\ {r \in Request : waiter[r] = "pending"} = {r \in pending : waiter[r] # "cancelled"}
  /\ \A r \in pending : Waiting(r) \/ asked[r] = "cancelled"
  /\ \A r \in Request : Waiting(r) => waiter[r] \in {"pending", "answered", "exited"}

\* When the reader is done, which would be the last to reject them, no call is left to wait.
\* It dies only of the answer to a call that had been cancelled; then nobody is rejected.
ReaderLeavesNobody ==
  /\ reader = "done" => \A r \in pending : ~ Waits(r)
  /\ reader = "dead" => \E r \in Caller : /\ frame[r] = "answered" /\ r \notin answers \cup pending
                                          /\ asked[r] \in {"cancelled", "failed"}

\* close returns its evidence when no process of the group is left and no reader, and, if
\* the reader did not die, no answer that could still be read and no call that waits for one.
ClosedIsClean ==
  close = "closed" =>
    /\ Gone /\ reader \in {"done", "dead"}
    /\ reader = "done" => answers = {} /\ \A r \in pending : ~ Waits(r)

\* What the docstring of close says of grace_period: every phase of close is bounded.  So a
\* close whose shutdown request has used up its time ends, whatever the child does.
CloseIsBounded == asked[Shutdown] = "failed" ~> close = "closed"

\* What the README says of the end of stdout: it rejects the pending requests at once.  When
\* the child and all that shared its pipes are gone, no call waits for ever.
EofRejectsPending == \A r \in Caller : Gone /\ asked[r] = "wait" ~> asked[r] # "wait"

\* Bound of the run that checks it: the peer is not closed meanwhile.
StaysOpen == close = "none"
==============================================================================
