----------------------------- MODULE EventStream -----------------------------
(***************************************************************************)
(* The event stream of one run: the notifier (notifier.py), the SSE reader *)
(* that replays the rows of run_events and follows them (sse.py), and      *)
(* clients that disconnect anywhere and come back with Last-Event-ID.      *)
(*                                                                         *)
(* The log is the store's: the worker commits an event in a thread and     *)
(* publishes when its coroutine resumes.  The notifier carries no data, it *)
(* only wakes readers to query again.                                      *)
(***************************************************************************)
EXTENDS Integers, Sequences, FiniteSets

CONSTANTS
  Client,
  MaxEvents,    \* bound on the length of the log
  MaxTopics     \* bound on the topics one process creates for the run

ASSUME StreamConstants ==
  /\ IsFiniteSet(Client)
  /\ MaxEvents \in Nat \ {0} /\ MaxTopics \in Nat \ {0}

VARIABLES
  last,        \* last_event_seq of the run: the events are 1 .. last
  terminal,    \* whether the event last is run.succeeded or run.failed
  published,   \* the last event whose publish has happened
  topics,      \* the _Topic objects created so far: [version, subscribers]
  current,     \* the one in _topics, or 0
  reader,      \* the server's side of each client's stream
  got          \* the last event each client received: its next Last-Event-ID

logVars == <<last, terminal, published>>
vars    == <<logVars, topics, current, reader, got>>

\* Where a reader is, its topic, its cursor, the version it observed, the events its
\* query returned and has yet to yield, and whether the changed event it holds is set.
Reader == [ pc : {"off", "validate", "observe", "query", "yield", "wait", "ended"},
            topic : 0 .. MaxTopics, cursor : Nat, observed : Nat, upto : Nat, ends : BOOLEAN,
            woken : BOOLEAN ]

Off == [ pc |-> "off", topic |-> 0, cursor |-> 0, observed |-> 0, upto |-> 0,
         ends |-> FALSE, woken |-> FALSE ]

\* The loop starts over: version, query, rows.
Again(c) == [reader[c] EXCEPT !.pc = "observe", !.observed = 0, !.upto = 0, !.ends = FALSE,
                              !.woken = FALSE]

Subscribed(c) == reader[c].pc \notin {"off", "ended"}
Version(c)    == topics[reader[c].topic].version

------------------------------------------------------------------------------
(***************************************************************************)
(* The worker: commit, then publish                                        *)
(***************************************************************************)

Commit(isTerminal) ==
  /\ ~ terminal
  /\ last = published
  /\ last < MaxEvents
  /\ isTerminal \/ last + 1 < MaxEvents
  /\ last' = last + 1
  /\ terminal' = isTerminal
  /\ UNCHANGED <<published, topics, current, reader, got>>

\* The topic's changed event is replaced by a new one and set: its waiters wake.
Woken(readers, topic) ==
  [c \in Client |-> IF readers[c].pc = "wait" /\ readers[c].topic = topic
                    THEN [readers[c] EXCEPT !.woken = TRUE]
                    ELSE readers[c]]

\* Without a topic nobody listens.
Publish ==
  /\ published < last
  /\ published' = last
  /\ IF current = 0
     THEN UNCHANGED <<topics, reader>>
     ELSE /\ topics' = [topics EXCEPT ![current].version = @ + 1]
          /\ reader' = Woken(reader, current)
  /\ UNCHANGED <<last, terminal, current, got>>

------------------------------------------------------------------------------
(***************************************************************************)
(* create_sse_response                                                     *)
(***************************************************************************)

\* subscribe: setdefault a topic, then count this subscription.
Connect(c) ==
  /\ reader[c].pc = "off"
  /\ IF current # 0
     THEN /\ topics' = [topics EXCEPT ![current].subscribers = @ + 1]
          /\ UNCHANGED current
     ELSE /\ Len(topics) < MaxTopics
          /\ topics' = Append(topics, [version |-> 0, subscribers |-> 1])
          /\ current' = Len(topics) + 1
  /\ reader' = [reader EXCEPT ![c] =
                  [Off EXCEPT !.pc = "validate", !.topic = current', !.cursor = got[c]]]
  /\ UNCHANGED <<logVars, got>>

\* RunSubscription.close, once per subscription: the reader is left behind as given,
\* the other waiters wake, and an empty topic is dropped.
Unsubscribed(c, left) ==
  /\ topics' = [topics EXCEPT ![reader[c].topic].subscribers = @ - 1]
  /\ reader' = Woken([reader EXCEPT ![c] = left], reader[c].topic)
  /\ current' = IF topics'[current].subscribers = 0 THEN 0 ELSE current

Ended == [Off EXCEPT !.pc = "ended"]

\* get_run: the cursor must not be ahead; a finished log that was read to its end is
\* an empty stream.
Validate(c) ==
  /\ reader[c].pc = "validate"
  /\ IF reader[c].cursor > last
     THEN Unsubscribed(c, Off)
     ELSE IF terminal /\ reader[c].cursor = last
     THEN Unsubscribed(c, Ended)
     ELSE reader' = [reader EXCEPT ![c].pc = "observe"] /\ UNCHANGED <<topics, current>>
  /\ UNCHANGED <<logVars, got>>

------------------------------------------------------------------------------
(***************************************************************************)
(* iter_sse_events                                                         *)
(***************************************************************************)

\* The version is read before the query goes to its thread.
Observe(c) ==
  /\ reader[c].pc = "observe"
  /\ reader' = [reader EXCEPT ![c].pc = "query", ![c].observed = Version(c)]
  /\ UNCHANGED <<logVars, topics, current, got>>

\* list_events(run_id, cursor): the rows after the cursor, as committed now.
Query(c) ==
  /\ reader[c].pc = "query"
  /\ reader' = [reader EXCEPT ![c].upto = last, ![c].ends = terminal, ![c].pc = "yield"]
  /\ UNCHANGED <<logVars, topics, current, got>>

\* One frame: the generator moves its cursor and suspends; after the terminal event it
\* returns.
Yield(c) ==
  /\ reader[c].pc = "yield"
  /\ reader[c].cursor < reader[c].upto
  /\ got' = [got EXCEPT ![c] = reader[c].cursor + 1]
  /\ IF reader[c].ends /\ reader[c].cursor + 1 = reader[c].upto
     THEN Unsubscribed(c, Ended)
     ELSE /\ reader' = [reader EXCEPT ![c].cursor = @ + 1]
          /\ UNCHANGED <<topics, current>>
  /\ UNCHANGED logVars

\* Mutant: the reader waits for the next version, not for one after the query.
Compare_WaitsForNext(c) ==
  /\ reader[c].pc = "yield"
  /\ reader[c].cursor = reader[c].upto
  /\ reader' = [reader EXCEPT ![c].pc = "wait", ![c].observed = Version(c)]
  /\ UNCHANGED <<logVars, topics, current, got>>

\* No row left: query again if the version moved meanwhile, wait otherwise.
Compare(c) ==
  /\ reader[c].pc = "yield"
  /\ reader[c].cursor = reader[c].upto
  /\ reader' = IF Version(c) # reader[c].observed
               THEN [reader EXCEPT ![c] = Again(c)]
               ELSE [reader EXCEPT ![c].pc = "wait"]
  /\ UNCHANGED <<logVars, topics, current, got>>

\* wait_for_greater_than: woken without a new version, it waits for the next event.
Wake(c) ==
  /\ reader[c].pc = "wait"
  /\ reader[c].woken
  /\ reader' = IF Version(c) > reader[c].observed
               THEN [reader EXCEPT ![c] = Again(c)]
               ELSE [reader EXCEPT ![c].woken = FALSE]
  /\ UNCHANGED <<logVars, topics, current, got>>

\* The wait timed out: a heartbeat is sent and the log queried again.
Heartbeat(c) ==
  /\ reader[c].pc = "wait"
  /\ ~ reader[c].woken
  /\ reader' = [reader EXCEPT ![c] = Again(c)]
  /\ UNCHANGED <<logVars, topics, current, got>>

\* The client goes away; the generator's finally closes the subscription.
Disconnect(c) ==
  /\ Subscribed(c)
  /\ Unsubscribed(c, Off)
  /\ UNCHANGED <<logVars, got>>

------------------------------------------------------------------------------
\* The run is queued, and each client starts at a Last-Event-ID of its own.
Init ==
  /\ last = 1 /\ terminal = FALSE /\ published = 1
  /\ topics = << >> /\ current = 0
  /\ reader = [c \in Client |-> Off]
  /\ got \in [Client -> 0 .. 2]

ReaderStep(c) ==
  Validate(c) \/ Observe(c) \/ Query(c) \/ Yield(c) \/ Compare(c) \/ Wake(c) \/ Heartbeat(c)

Next ==
  \/ \E isTerminal \in BOOLEAN : Commit(isTerminal)
  \/ Publish
  \/ \E c \in Client : Connect(c) \/ ReaderStep(c) \/ Disconnect(c)

\* The worker's coroutine resumes after its commit, threads and timers run, and the
\* run ends; a client need neither come nor stay.
Fairness ==
  /\ WF_vars(Publish)
  /\ WF_vars(\E isTerminal \in BOOLEAN : Commit(isTerminal))
  /\ \A c \in Client : WF_vars(ReaderStep(c))

Spec     == Init /\ [][Next]_vars
FairSpec == Spec /\ Fairness

------------------------------------------------------------------------------
(***************************************************************************)
(* Properties                                                              *)
(***************************************************************************)

\* Every variable has its type.
TypeOK ==
  /\ last \in 1 .. MaxEvents /\ published \in 1 .. last
  /\ terminal \in BOOLEAN
  /\ topics \in Seq([version : Nat, subscribers : Nat])
  /\ current \in 0 .. Len(topics)
  /\ reader \in [Client -> Reader]
  /\ got \in [Client -> Nat]

\* Replay is gap-free and free of repetition, across any number of disconnections:
\* what a client receives next is always the event after the last one it had.
InOrder == \A c \in Client : got'[c] # got[c] => got'[c] = got[c] + 1 /\ got'[c] <= last

ReplayIsExact == [][InOrder]_vars

\* The server ends a stream only when the client has the whole log of a finished run.
EndsAtTerminalEvent ==
  \A c \in Client : reader[c].pc = "ended" => terminal /\ got[c] = last

\* A reader asleep on an event nobody has set has everything that was published: no
\* wake-up falls between the query and the wait.
SleepsOnlyWhenCaughtUp ==
  \A c \in Client :
    reader[c].pc = "wait" /\ ~ reader[c].woken => reader[c].cursor >= published

\* Every live subscription is on the topic that publish will find, which counts
\* exactly the live ones and is dropped with the last.
TopicsMatchSubscriptions ==
  /\ \A c \in Client : Subscribed(c) => reader[c].topic = current
  /\ current = 0 \/ topics[current].subscribers = Cardinality({c \in Client : Subscribed(c)})
  /\ current = 0 <=> \A c \in Client : ~ Subscribed(c)

\* A client that stays receives the whole log, terminal event included, even if every
\* wake-up were late.
StreamsEnd ==
  \A c \in Client : Subscribed(c) ~> ~ Subscribed(c)
===============================================================================
