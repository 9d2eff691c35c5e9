------------------------------- MODULE RunStore -------------------------------
(***************************************************************************)
(* The durable half of the recoverable agent service: the SQLite           *)
(* repository of projects/recoverable-agent-service (store.py).            *)
(*                                                                         *)
(* Every repository method is one BEGIN IMMEDIATE transaction on its own   *)
(* connection, so every method is one atomic action here.  The tables      *)
(* runs, run_events and artifacts are folded into one append-only sequence *)
(* of run records (rows are never deleted; the index of a run is its       *)
(* position in ORDER BY created_at, rowid).  Fresh UUIDs are fresh numbers.*)
(***************************************************************************)
EXTENDS Naturals, Sequences, FiniteSets

CONSTANTS
  Conversation,  \* ids POST /conversations may hand out
  Key,           \* normalised Idempotency-Key values
  Request,       \* request fingerprints: an exact prompt and its artifact names
  Name,          \* artifact file names
  Declared,      \* Declared[q]: the artifact names request q declares
  MaxRuns,       \* bound on the rows of the runs table
  MaxEvents      \* bound on the sequence number of a projected event

ASSUME StoreConstants ==
  /\ Declared \in [Request -> SUBSET Name]
  /\ MaxRuns \in Nat
  /\ MaxEvents \in Nat

VARIABLES
  conversations,  \* [state, session] of every conversation id
  runs,           \* the run records, oldest first
  sessions        \* number of DSH session ids handed out so far

storeVars == <<conversations, runs, sessions>>

ConversationState == {"absent", "active", "attention_required"}
RunState          == {"queued", "running", "succeeded", "failed"}
ArtifactState     == {"undeclared", "pending", "available", "missing", "invalid"}
ErrorCode         == {"runtime_unavailable", "agent_outcome",
                      "artifact_snapshot_failed", "execution_uncertain"}
EventType         == {"run.queued", "run.started", "projected",
                      "run.succeeded", "run.failed"}

RunRecord ==
  [ conversation   : Conversation,
    session        : Nat,
    key            : Key,
    request        : Request,
    state          : RunState,
    error          : ErrorCode \cup {"none"},
    last_event_seq : Nat,
    events         : Seq([seq : Nat, type : EventType]),
    artifacts      : [Name -> ArtifactState] ]

Runs           == 1 .. Len(runs)
Nonterminal(r) == runs[r].state \in {"queued", "running"}
Uncertain(r)   == runs[r].error = "execution_uncertain"

------------------------------------------------------------------------------
(***************************************************************************)
(* Rows                                                                    *)
(***************************************************************************)

\* Mutant: the compare-and-set of last_event_seq is lost, the event is inserted.
Logged_KeepsSequence(run, type) ==
  [run EXCEPT !.events = Append(run.events,
                                [seq |-> run.last_event_seq + 1, type |-> type])]

\* _append_event: number the event after last_event_seq, in the same transaction.
Logged(run, type) ==
  [run EXCEPT !.last_event_seq = run.last_event_seq + 1,
              !.events = Append(run.events,
                                [seq |-> run.last_event_seq + 1, type |-> type])]

QueuedRun(c, k, q) ==
  Logged([ conversation |-> c, session |-> conversations[c].session,
           key |-> k, request |-> q, state |-> "queued", error |-> "none",
           last_event_seq |-> 0, events |-> << >>,
           artifacts |-> [n \in Name |-> IF n \in Declared[q] THEN "pending"
                                                              ELSE "undeclared"] ],
         "run.queued")

\* Mutant: failing a run forgets its pending artifact rows.
FailedRun_KeepsPending(run, code) ==
  Logged([run EXCEPT !.state = "failed", !.error = code], "run.failed")

FailedRun(run, code) ==
  Logged([run EXCEPT !.state = "failed", !.error = code,
                     !.artifacts = [n \in Name |-> IF run.artifacts[n] = "pending"
                                                   THEN "invalid"
                                                   ELSE run.artifacts[n]]],
         "run.failed")

\* Mutant: any existing run may be finished.
RequireRunning_AnyState(r) == r \in Runs

\* _require_running_run, and the same check inside append_event.
RequireRunning(r) == r \in Runs /\ runs[r].state = "running"

------------------------------------------------------------------------------
(***************************************************************************)
(* Transactions                                                            *)
(***************************************************************************)

CreateConversation(c) ==
  /\ conversations[c].state = "absent"
  /\ sessions' = sessions + 1
  /\ conversations' = [conversations EXCEPT
                         ![c] = [state |-> "active", session |-> sessions + 1]]
  /\ UNCHANGED runs

\* submit_run's first SELECT: the run that already holds this key.
HoldsKey(r, c, k) == runs[r].conversation = c /\ runs[r].key = k

HasNonterminalRun(c) == \E r \in Runs : runs[r].conversation = c /\ Nonterminal(r)

\* Mutant: the single-flight lookup is dropped.
CanAdmit_IgnoresNonterminal(c, k) ==
  /\ ~ \E r \in Runs : HoldsKey(r, c, k)
  /\ conversations[c].state = "active"

\* The three checks under one BEGIN IMMEDIATE.  The two unique indexes of the
\* schema state the first and the last again, so no insert that passes fails.
CanAdmit(c, k) ==
  /\ ~ \E r \in Runs : HoldsKey(r, c, k)
  /\ conversations[c].state = "active"
  /\ ~ HasNonterminalRun(c)

\* The branch of submit_run that inserts a row.  Every other branch (an exact
\* replay, a reused key, an unknown, blocked or busy conversation) rolls back or
\* only reads.
SubmitRun(c, k, q) ==
  /\ CanAdmit(c, k)
  /\ Len(runs) < MaxRuns
  /\ runs' = Append(runs, QueuedRun(c, k, q))
  /\ UNCHANGED <<conversations, sessions>>

Claimable(r) ==
  /\ runs[r].state = "queued"
  /\ conversations[runs[r].conversation].state = "active"

IsOldestClaimable(r) ==
  /\ Claimable(r)
  /\ \A q \in Runs : q < r => ~ Claimable(q)

ClaimOldestRun(r) ==
  /\ IsOldestClaimable(r)
  /\ runs' = [runs EXCEPT ![r] = Logged([runs[r] EXCEPT !.state = "running"],
                                        "run.started")]
  /\ UNCHANGED <<conversations, sessions>>

AppendEvent(r) ==
  /\ RequireRunning(r)
  /\ runs[r].last_event_seq < MaxEvents
  /\ runs' = [runs EXCEPT ![r] = Logged(runs[r], "projected")]
  /\ UNCHANGED <<conversations, sessions>>

\* The outcomes a snapshot may report for the declared names of run r.
Outcomes(r) == [Declared[runs[r].request] -> {"available", "missing", "invalid"}]

\* Mutant: the artifact rows are replaced by the reported outcomes.
CompleteRunSuccess_ReplacesRows(r, outcome) ==
  /\ RequireRunning(r)
  /\ runs' = [runs EXCEPT
                ![r] = Logged([runs[r] EXCEPT !.state = "succeeded", !.artifacts = outcome],
                              "run.succeeded")]
  /\ UNCHANGED <<conversations, sessions>>

CompleteRunSuccess(r, outcome) ==
  /\ RequireRunning(r)
  /\ LET stored == [n \in Name |-> IF runs[r].artifacts[n] = "pending"
                                   THEN outcome[n]
                                   ELSE runs[r].artifacts[n]]
     IN runs' = [runs EXCEPT
                   ![r] = Logged([runs[r] EXCEPT !.state = "succeeded",
                                                 !.artifacts = stored],
                                 "run.succeeded")]
  /\ UNCHANGED <<conversations, sessions>>

\* Every caller passes uncertain = (code = "execution_uncertain").
FailRun(r, code) ==
  /\ RequireRunning(r)
  /\ runs' = [runs EXCEPT ![r] = FailedRun(runs[r], code)]
  /\ conversations' =
       IF code = "execution_uncertain"
       THEN [conversations EXCEPT ![runs[r].conversation].state = "attention_required"]
       ELSE conversations
  /\ UNCHANGED sessions

\* Startup recovery fails every legacy running run and blocks its conversation.
RecoverRunningRuns ==
  LET legacy == {r \in Runs : runs[r].state = "running"} IN
  /\ runs' = [r \in Runs |-> IF r \in legacy
                             THEN FailedRun(runs[r], "execution_uncertain")
                             ELSE runs[r]]
  /\ conversations' = [c \in Conversation |->
       IF \E r \in legacy : runs[r].conversation = c
       THEN [conversations[c] EXCEPT !.state = "attention_required"]
       ELSE conversations[c]]
  /\ UNCHANGED sessions

\* Mutant: acknowledgement reopens the conversation on its old session.
AcknowledgeRecovery_KeepsSession(c) ==
  /\ conversations[c].state = "attention_required"
  /\ conversations' = [conversations EXCEPT ![c].state = "active"]
  /\ UNCHANGED <<runs, sessions>>

\* An active conversation is returned unchanged.
AcknowledgeRecovery(c) ==
  /\ conversations[c].state = "attention_required"
  /\ sessions' = sessions + 1
  /\ conversations' = [conversations EXCEPT
                         ![c] = [state |-> "active", session |-> sessions + 1]]
  /\ UNCHANGED runs

------------------------------------------------------------------------------
Init ==
  /\ conversations = [c \in Conversation |-> [state |-> "absent", session |-> 0]]
  /\ runs = << >>
  /\ sessions = 0

Next ==
  \/ \E c \in Conversation : CreateConversation(c) \/ AcknowledgeRecovery(c)
  \/ \E c \in Conversation, k \in Key, q \in Request : SubmitRun(c, k, q)
  \/ \E r \in Runs : ClaimOldestRun(r) \/ AppendEvent(r)
  \/ \E r \in Runs : \E outcome \in Outcomes(r) : CompleteRunSuccess(r, outcome)
  \/ \E r \in Runs, code \in ErrorCode : FailRun(r, code)
  \/ RecoverRunningRuns

Spec == Init /\ [][Next]_storeVars

------------------------------------------------------------------------------
(***************************************************************************)
(* Properties                                                              *)
(***************************************************************************)

\* The tables hold rows of their schema, and sessions are numbered as handed out.
TypeOK ==
  /\ conversations \in [Conversation -> [state : ConversationState, session : 0 .. sessions]]
  /\ runs \in Seq(RunRecord)
  /\ sessions \in Nat

\* However keys are retried, before or after the first run ended and whatever
\* request they carry, a conversation holds one run per idempotency key.
OneRunPerKey ==
  \A q, r \in Runs :
    runs[q].conversation = runs[r].conversation /\ runs[q].key = runs[r].key => q = r

\* No conversation ever has two runs in flight: its DSH session sees one at a time.
OneNonterminalRun ==
  \A q, r \in Runs :
    /\ runs[q].conversation = runs[r].conversation
    /\ Nonterminal(q)
    /\ Nonterminal(r)
    => q = r

\* Work is never left behind on a blocked conversation, where claim_oldest_run
\* would skip it: a queued or running run has an active conversation, and was
\* admitted to the session that conversation still has.
InFlightRunIsClaimable ==
  \A r \in Runs : Nonterminal(r) =>
    LET c == conversations[runs[r].conversation] IN
    c.state = "active" /\ c.session = runs[r].session

\* A conversation asks for attention exactly while the session it holds is the
\* session of a run whose outcome is unknown.
AttentionIffUncertainSession ==
  \A c \in Conversation :
    conversations[c].state = "attention_required"
      <=> \E r \in Runs : Uncertain(r) /\ runs[r].session = conversations[c].session

\* Once an outcome was uncertain, no later run is given that DSH session.
UncertainSessionRetired ==
  \A q, r \in Runs : q < r /\ Uncertain(q) => runs[r].session # runs[q].session

\* Whatever retries, restarts and acknowledgements interleave: a conversation has one run per
\* idempotency key and at most one in flight.
RunsAreExclusive == OneRunPerKey /\ OneNonterminalRun

\* An uncertain outcome blocks exactly the conversation whose session it happened in, until
\* that session is retired for good.
UncertaintyIsContained == AttentionIffUncertainSession /\ UncertainSessionRetired

ExpectedEventType(run, i) ==
  CASE i = 1 -> "run.queued"
    [] i = 2 -> "run.started"
    [] i > 2 /\ i = run.last_event_seq /\ run.state = "succeeded" -> "run.succeeded"
    [] i > 2 /\ i = run.last_event_seq /\ run.state = "failed"    -> "run.failed"
    [] OTHER -> "projected"

\* The event log a client reads tells the life of the row: gap-free numbers up to
\* last_event_seq, one queued and one started event first, and a terminal event
\* last exactly when the run is terminal (GET .../events stops there).
EventLogTellsRun ==
  \A r \in Runs :
    LET run == runs[r] IN
    /\ Len(run.events) = run.last_event_seq
    /\ \A i \in 1 .. Len(run.events) :
         run.events[i] = [seq |-> i, type |-> ExpectedEventType(run, i)]
    /\ run.state = "queued" <=> run.last_event_seq = 1
    /\ run.last_event_seq >= IF Nonterminal(r) THEN 1 ELSE 3

\* Artifact rows settle with their run, all in its last transaction: all pending
\* before, none pending after success, all invalid after failure.
ArtifactsSettleWithRun ==
  \A r \in Runs, n \in Name :
    LET artifact == runs[r].artifacts[n] IN
    IF n \notin Declared[runs[r].request]
    THEN artifact = "undeclared"
    ELSE /\ Nonterminal(r)                => artifact = "pending"
         /\ runs[r].state = "succeeded"   => artifact \in {"available", "missing", "invalid"}
         /\ runs[r].state = "failed"      => artifact = "invalid"

\* What a client has read of a run stays true: the events are only ever extended, the
\* run keeps the session, key and request it was admitted with, and once it has ended
\* nothing of it changes any more.
RunHistoryIsAppendOnly ==
  [][\A r \in Runs :
       /\ r \in Runs'
       /\ \A f \in {"conversation", "session", "key", "request"} : runs'[r][f] = runs[r][f]
       /\ SubSeq(runs'[r].events, 1, Len(runs[r].events)) = runs[r].events
       /\ ~ Nonterminal(r) => runs'[r] = runs[r]]_storeVars

------------------------------------------------------------------------------
(***************************************************************************)
(* The inductive invariant behind the properties below TypeOK: which       *)
(* session belongs to whom, and that only the newest run of a conversation *)
(* is in flight.                                                           *)
(***************************************************************************)

\* A session number names one conversation's session, now and in its old runs.
SessionsAreOwned ==
  /\ \A c \in Conversation :
       conversations[c].state = "absent" <=> conversations[c].session = 0
  /\ \A c, d \in Conversation :
       conversations[c].session = conversations[d].session
       /\ conversations[c].session # 0 => c = d
  /\ \A r \in Runs : runs[r].session \in 1 .. sessions
  /\ \A r \in Runs, c \in Conversation :
       runs[r].session = conversations[c].session => runs[r].conversation = c
  /\ \A q, r \in Runs :
       runs[q].session = runs[r].session => runs[q].conversation = runs[r].conversation

OnlyNewestInFlight ==
  \A q, r \in Runs :
    q < r /\ runs[q].conversation = runs[r].conversation => ~ Nonterminal(q)

UncertainMeansFailed == \A r \in Runs : Uncertain(r) => runs[r].state = "failed"

IInv ==
  /\ TypeOK
  /\ SessionsAreOwned
  /\ OnlyNewestInFlight
  /\ UncertainMeansFailed
  /\ InFlightRunIsClaimable
  /\ AttentionIffUncertainSession
  /\ UncertainSessionRetired
  /\ OneRunPerKey
  /\ ArtifactsSettleWithRun
===============================================================================
