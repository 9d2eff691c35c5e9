---------------------------- MODULE RunStoreProofs ----------------------------
(***************************************************************************)
(* Theorems about RunStore for every set of conversations, keys, requests  *)
(* and names and every bound on runs and events.                           *)
(***************************************************************************)
EXTENDS RunStore, SequenceTheorems, TLAPS

------------------------------------------------------------------------------
(***************************************************************************)
(* Rows                                                                    *)
(***************************************************************************)

\* The fields of a row that no event touches.
SameBody(a, b) ==
  /\ a.conversation = b.conversation
  /\ a.session = b.session
  /\ a.key = b.key
  /\ a.request = b.request
  /\ a.state = b.state
  /\ a.error = b.error
  /\ a.artifacts = b.artifacts

\* _append_event keeps a row a row and touches nothing but its log.
LEMMA LoggedRow ==
  ASSUME NEW run \in RunRecord, NEW type \in EventType
  PROVE  /\ Logged(run, type) \in RunRecord
         /\ SameBody(Logged(run, type), run)
         /\ Logged(run, type).last_event_seq = run.last_event_seq + 1
         /\ Logged(run, type).events =
              Append(run.events, [seq |-> run.last_event_seq + 1, type |-> type])
<1> DEFINE n == run.last_event_seq + 1
           log == Append(run.events, [seq |-> n, type |-> type])
<1>1. n \in Nat /\ [seq |-> n, type |-> type] \in [seq : Nat, type : EventType]
  BY DEF RunRecord
<1>2. log \in Seq([seq : Nat, type : EventType])
  BY <1>1, AppendProperties DEF RunRecord
<1> HIDE DEF log, n
<1>3. Logged(run, type) = [run EXCEPT !.last_event_seq = n, !.events = log]
  BY DEF Logged, n, log
<1>4. /\ [run EXCEPT !.last_event_seq = n, !.events = log] \in RunRecord
      /\ SameBody([run EXCEPT !.last_event_seq = n, !.events = log], run)
      /\ [run EXCEPT !.last_event_seq = n, !.events = log].last_event_seq = n
      /\ [run EXCEPT !.last_event_seq = n, !.events = log].events = log
  BY <1>1, <1>2 DEF RunRecord, SameBody
<1> QED
  BY <1>3, <1>4 DEF n, log

\* The artifact states of a failed row.
Invalidated(artifacts) ==
  [n \in Name |-> IF artifacts[n] = "pending" THEN "invalid" ELSE artifacts[n]]

\* Failing a row settles its state, error and artifacts and nothing else.
LEMMA FailedRow ==
  ASSUME NEW run \in RunRecord, NEW code \in ErrorCode
  PROVE  /\ FailedRun(run, code) \in RunRecord
         /\ FailedRun(run, code).conversation = run.conversation
         /\ FailedRun(run, code).session = run.session
         /\ FailedRun(run, code).key = run.key
         /\ FailedRun(run, code).request = run.request
         /\ FailedRun(run, code).state = "failed"
         /\ FailedRun(run, code).error = code
         /\ FailedRun(run, code).artifacts = Invalidated(run.artifacts)
<1> DEFINE settled == Invalidated(run.artifacts)
           row == [run EXCEPT !.state = "failed", !.error = code, !.artifacts = settled]
<1>1. settled \in [Name -> ArtifactState]
  BY DEF RunRecord, ArtifactState, Invalidated
<1>2. row \in RunRecord
  BY <1>1 DEF RunRecord, RunState
<1>3. FailedRun(run, code) = Logged(row, "run.failed")
  BY DEF FailedRun, Invalidated
<1>4. /\ row.conversation = run.conversation
      /\ row.session = run.session
      /\ row.key = run.key
      /\ row.request = run.request
      /\ row.state = "failed"
      /\ row.error = code
      /\ row.artifacts = settled
  BY DEF RunRecord
<1> HIDE DEF row
<1>5. "run.failed" \in EventType
  BY DEF EventType
<1>6. Logged(row, "run.failed") \in RunRecord /\ SameBody(Logged(row, "run.failed"), row)
  BY <1>2, <1>5, LoggedRow
<1> QED
  BY <1>3, <1>4, <1>6 DEF SameBody

------------------------------------------------------------------------------
(***************************************************************************)
(* What a transaction does to the runs table, without the rows' details    *)
(***************************************************************************)

\* Row r moves to a state, an error and artifact states; no other row changes, and
\* what r was admitted with stays.
RowMoves(r, state, error, artifacts) ==
  /\ runs' \in Seq(RunRecord)
  /\ Len(runs') = Len(runs)
  /\ \A j \in Runs : j # r => runs'[j] = runs[j]
  /\ runs'[r].conversation = runs[r].conversation
  /\ runs'[r].session = runs[r].session
  /\ runs'[r].key = runs[r].key
  /\ runs'[r].request = runs[r].request
  /\ runs'[r].state = state
  /\ runs'[r].error = error
  /\ runs'[r].artifacts = artifacts

\* One row replaced by another of the same conversation, session, key and request
\* is a move of that row.
LEMMA RowReplaced ==
  ASSUME runs \in Seq(RunRecord), NEW r \in Runs, NEW row \in RunRecord,
         row.conversation = runs[r].conversation,
         row.session = runs[r].session,
         row.key = runs[r].key,
         row.request = runs[r].request,
         runs' = [runs EXCEPT ![r] = row]
  PROVE  RowMoves(r, row.state, row.error, row.artifacts)
<1>1. /\ runs' \in Seq(RunRecord)
      /\ Len(runs') = Len(runs)
      /\ \A j \in 1 .. Len(runs) : runs'[j] = IF j = r THEN row ELSE runs[j]
  BY ExceptSeq DEF Runs
<1> QED
  BY <1>1 DEF RowMoves, Runs

\* Claiming, claim_oldest_run, moves one row of its conversation.
LEMMA ClaimMoves ==
  ASSUME runs \in Seq(RunRecord), NEW r \in Runs, ClaimOldestRun(r)
  PROVE  RowMoves(r, "running", runs[r].error, runs[r].artifacts)
<1> DEFINE row == [runs[r] EXCEPT !.state = "running"]
<1>1. runs[r] \in RunRecord
  BY ElementOfSeq DEF Runs
<1>2. /\ row \in RunRecord
      /\ row.conversation = runs[r].conversation
      /\ row.session = runs[r].session
      /\ row.key = runs[r].key
      /\ row.request = runs[r].request
      /\ row.state = "running"
      /\ row.error = runs[r].error
      /\ row.artifacts = runs[r].artifacts
  BY <1>1 DEF RunRecord, RunState
<1>3. runs' = [runs EXCEPT ![r] = Logged(row, "run.started")]
  BY DEF ClaimOldestRun
<1> HIDE DEF row
<1>4. "run.started" \in EventType
  BY DEF EventType
<1>5. /\ Logged(row, "run.started") \in RunRecord
      /\ SameBody(Logged(row, "run.started"), row)
  BY <1>2, <1>4, LoggedRow
<1>6. RowMoves(r, Logged(row, "run.started").state, Logged(row, "run.started").error,
                   Logged(row, "run.started").artifacts)
  BY <1>2, <1>3, <1>5, RowReplaced DEF SameBody
<1> QED
  BY <1>2, <1>5, <1>6 DEF SameBody

\* append_event moves one row.
LEMMA AppendMoves ==
  ASSUME runs \in Seq(RunRecord), NEW r \in Runs, AppendEvent(r)
  PROVE  RowMoves(r, runs[r].state, runs[r].error, runs[r].artifacts)
<1>1. runs[r] \in RunRecord
  BY ElementOfSeq DEF Runs
<1>2. runs' = [runs EXCEPT ![r] = Logged(runs[r], "projected")]
  BY DEF AppendEvent
<1>3. "projected" \in EventType
  BY DEF EventType
<1>4. /\ Logged(runs[r], "projected") \in RunRecord
      /\ SameBody(Logged(runs[r], "projected"), runs[r])
  BY <1>1, <1>3, LoggedRow
<1>5. RowMoves(r, Logged(runs[r], "projected").state, Logged(runs[r], "projected").error,
                   Logged(runs[r], "projected").artifacts)
  BY <1>2, <1>4, RowReplaced DEF SameBody
<1> QED
  BY <1>4, <1>5 DEF SameBody

\* The artifact rows of run r once the outcomes are stored.
Stored(r, outcome) ==
  [n \in Name |-> IF runs[r].artifacts[n] = "pending" THEN outcome[n]
                                                     ELSE runs[r].artifacts[n]]

\* complete_run_success moves one row.
LEMMA CompleteMoves ==
  ASSUME runs \in Seq(RunRecord), NEW r \in Runs,
         Declared \in [Request -> SUBSET Name],
         NEW outcome \in Outcomes(r), CompleteRunSuccess(r, outcome),
         \A n \in Name : runs[r].artifacts[n] = "pending" => n \in Declared[runs[r].request]
  PROVE  RowMoves(r, "succeeded", runs[r].error, Stored(r, outcome))
<1> DEFINE row == [runs[r] EXCEPT !.state = "succeeded", !.artifacts = Stored(r, outcome)]
<1>1. runs[r] \in RunRecord
  BY ElementOfSeq DEF Runs
<1>2. \A n \in Declared[runs[r].request] : outcome[n] \in ArtifactState
  BY DEF Outcomes, ArtifactState
<1>3. runs[r].artifacts \in [Name -> ArtifactState]
  BY <1>1 DEF RunRecord
<1>4. Stored(r, outcome) \in [Name -> ArtifactState]
  BY <1>2, <1>3 DEF Stored
<1>5. runs' = [runs EXCEPT ![r] = Logged(row, "run.succeeded")]
  BY DEF CompleteRunSuccess, Stored
<1>6. /\ row \in RunRecord
      /\ row.conversation = runs[r].conversation
      /\ row.session = runs[r].session
      /\ row.key = runs[r].key
      /\ row.request = runs[r].request
      /\ row.state = "succeeded"
      /\ row.error = runs[r].error
      /\ row.artifacts = Stored(r, outcome)
  BY <1>1, <1>4 DEF RunRecord, RunState
<1> HIDE DEF row
<1>7. "run.succeeded" \in EventType
  BY DEF EventType
<1>8. /\ Logged(row, "run.succeeded") \in RunRecord
      /\ SameBody(Logged(row, "run.succeeded"), row)
  BY <1>6, <1>7, LoggedRow
<1>9. RowMoves(r, Logged(row, "run.succeeded").state, Logged(row, "run.succeeded").error,
                   Logged(row, "run.succeeded").artifacts)
  BY <1>5, <1>6, <1>8, RowReplaced DEF SameBody
<1> QED
  BY <1>6, <1>8, <1>9 DEF SameBody

\* fail_run moves one row, and blocks its conversation if the outcome is unknown.
LEMMA FailMoves ==
  ASSUME runs \in Seq(RunRecord), NEW r \in Runs, NEW code \in ErrorCode, FailRun(r, code)
  PROVE  RowMoves(r, "failed", code, Invalidated(runs[r].artifacts))
<1>1. runs[r] \in RunRecord
  BY ElementOfSeq DEF Runs
<1>2. runs' = [runs EXCEPT ![r] = FailedRun(runs[r], code)]
  BY DEF FailRun
<1>3. RowMoves(r, FailedRun(runs[r], code).state, FailedRun(runs[r], code).error,
                   FailedRun(runs[r], code).artifacts)
  BY <1>1, <1>2, FailedRow, RowReplaced
<1> QED
  BY <1>1, <1>3, FailedRow

------------------------------------------------------------------------------
(***************************************************************************)
(* The invariant: one lemma for the transactions that move one run, one    *)
(* for each of the others                                                  *)
(***************************************************************************)

\* The artifact states a row may hold in a state.
SettledFor(r, state, artifacts) ==
  \A n \in Name :
    IF n \notin Declared[runs[r].request]
    THEN artifacts[n] = "undeclared"
    ELSE /\ state \in {"queued", "running"} => artifacts[n] = "pending"
         /\ state = "succeeded" => artifacts[n] \in {"available", "missing", "invalid"}
         /\ state = "failed" => artifacts[n] = "invalid"

Blocked(c) == [conversations EXCEPT ![c].state = "attention_required"]

\* A move of one row that keeps what identifies it keeps the invariant.
LEMMA MoveKeepsInvariant ==
  ASSUME IInv, NEW r \in Runs, Nonterminal(r),
         NEW state \in RunState, NEW error, NEW artifacts,
         RowMoves(r, state, error, artifacts),
         SettledFor(r, state, artifacts),
         error = "execution_uncertain" => state = "failed",
         conversations' = IF error = "execution_uncertain"
                          THEN Blocked(runs[r].conversation) ELSE conversations,
         sessions' = sessions
  PROVE  IInv'
<1> USE DEF Runs
<1> DEFINE c0 == runs[r].conversation
<1>1. /\ runs \in Seq(RunRecord) /\ runs' \in Seq(RunRecord)
      /\ Len(runs) \in Nat /\ Len(runs') = Len(runs)
      /\ Runs' = Runs
  BY LenProperties DEF IInv, TypeOK, RowMoves
<1>2. \A j \in Runs : runs[j] \in RunRecord /\ runs'[j] \in RunRecord
  BY <1>1, ElementOfSeq
<1>3. c0 \in Conversation
  BY <1>2 DEF RunRecord
<1>4. \A j \in Runs : /\ runs'[j].conversation = runs[j].conversation
                      /\ runs'[j].session = runs[j].session
                      /\ runs'[j].key = runs[j].key
                      /\ runs'[j].request = runs[j].request
  BY DEF RowMoves
<1>5. \A j \in Runs : j # r => /\ runs'[j].state = runs[j].state
                               /\ runs'[j].error = runs[j].error
                               /\ runs'[j].artifacts = runs[j].artifacts
  BY DEF RowMoves
<1>6. /\ runs'[r].state = state
      /\ runs'[r].error = error
      /\ runs'[r].artifacts = artifacts
  BY DEF RowMoves
<1>7. /\ conversations' \in [Conversation -> [state : ConversationState, session : 0 .. sessions]]
      /\ \A c \in Conversation : conversations'[c].session = conversations[c].session
      /\ \A c \in Conversation : conversations'[c].state =
           IF error = "execution_uncertain" /\ c = c0 THEN "attention_required"
                                                      ELSE conversations[c].state
  BY <1>3 DEF IInv, TypeOK, Blocked, ConversationState
<1>8. /\ conversations[c0].state = "active"
      /\ conversations[c0].session = runs[r].session
      /\ runs[r].error # "execution_uncertain"
  BY DEF IInv, InFlightRunIsClaimable, UncertainMeansFailed, Nonterminal, Uncertain
<1>9. \A q \in Runs : Nonterminal(q)' => Nonterminal(q)
  BY <1>5 DEF Nonterminal
<1>10. TypeOK'
  BY <1>1, <1>7 DEF IInv, TypeOK
<1>11. SessionsAreOwned'
  <2> USE <1>3, <1>8 DEF IInv, SessionsAreOwned
  <2>1. \A c \in Conversation :
          conversations'[c].state = "absent" <=> conversations'[c].session = 0
    BY <1>7
  <2> QED
    BY SMTT(20), <1>1, <1>4, <1>7, <2>1 DEF SessionsAreOwned
<1>12. OnlyNewestInFlight'
  BY <1>1, <1>4, <1>9 DEF IInv, OnlyNewestInFlight
<1>13. UncertainMeansFailed'
  BY <1>1, <1>5, <1>6 DEF IInv, UncertainMeansFailed, Uncertain
<1>14. InFlightRunIsClaimable'
  <2> SUFFICES ASSUME NEW q \in Runs, Nonterminal(q)'
               PROVE  /\ conversations'[runs[q].conversation].state = "active"
                      /\ conversations'[runs[q].conversation].session = runs[q].session
    BY <1>1, <1>4 DEF InFlightRunIsClaimable
  <2>1. runs[q].conversation \in Conversation
    BY <1>2 DEF RunRecord
  <2>2. /\ conversations[runs[q].conversation].state = "active"
        /\ conversations[runs[q].conversation].session = runs[q].session
    BY <1>9 DEF IInv, InFlightRunIsClaimable
  <2>3. error = "execution_uncertain" => runs[q].conversation # c0
    <3> SUFFICES ASSUME error = "execution_uncertain", runs[q].conversation = c0
                 PROVE  FALSE
      OBVIOUS
    <3>1. q # r
      BY <1>6 DEF Nonterminal
    <3>2. Nonterminal(q)
      BY <1>9
    <3>3. q < r \/ r < q
      BY <3>1, <1>1
    <3> QED
      BY <3>2, <3>3 DEF IInv, OnlyNewestInFlight
  <2> QED
    BY <1>7, <2>1, <2>2, <2>3
<1>15. AttentionIffUncertainSession'
  <2> SUFFICES ASSUME NEW c \in Conversation
               PROVE  conversations'[c].state = "attention_required" <=>
                        \E q \in Runs : Uncertain(q)' /\ runs[q].session = conversations[c].session
    BY <1>1, <1>4, <1>7 DEF AttentionIffUncertainSession
  <2>1. conversations[c].state = "attention_required" <=>
          \E q \in Runs : Uncertain(q) /\ runs[q].session = conversations[c].session
    BY DEF IInv, AttentionIffUncertainSession
  <2>2. \A q \in Runs : q # r => (Uncertain(q)' <=> Uncertain(q))
    BY <1>5 DEF Uncertain
  <2>3. Uncertain(r)' <=> error = "execution_uncertain"
    BY <1>6 DEF Uncertain
  <2>4. ~ Uncertain(r)
    BY <1>8 DEF Uncertain
  <2>5. runs[r].session = conversations[c].session <=> c = c0
    BY <1>3, <1>8 DEF IInv, SessionsAreOwned
  <2> QED
    BY <1>7, <2>1, <2>2, <2>3, <2>4, <2>5
<1>16. UncertainSessionRetired'
  <2> SUFFICES ASSUME NEW p \in Runs, NEW q \in Runs, p < q, Uncertain(p)'
               PROVE  runs[q].session # runs[p].session
    BY <1>1, <1>4 DEF UncertainSessionRetired
  <2>1. CASE p = r
    BY <2>1 DEF IInv, SessionsAreOwned, OnlyNewestInFlight
  <2>2. CASE p # r
    BY <1>5, <2>2 DEF IInv, UncertainSessionRetired, Uncertain
  <2> QED
    BY <2>1, <2>2
<1>17. OneRunPerKey'
  BY <1>1, <1>4 DEF IInv, OneRunPerKey
<1>18. ArtifactsSettleWithRun'
  <2> SUFFICES ASSUME NEW q \in Runs, NEW n \in Name
               PROVE  LET artifact == runs'[q].artifacts[n] IN
                      IF n \notin Declared[runs[q].request]
                      THEN artifact = "undeclared"
                      ELSE /\ Nonterminal(q)' => artifact = "pending"
                           /\ runs'[q].state = "succeeded"
                                => artifact \in {"available", "missing", "invalid"}
                           /\ runs'[q].state = "failed" => artifact = "invalid"
    BY <1>1, <1>4 DEF ArtifactsSettleWithRun
  <2>1. CASE q = r
    BY <1>6, <2>1 DEF SettledFor, Nonterminal
  <2>2. CASE q # r
    BY <1>5, <2>2 DEF IInv, ArtifactsSettleWithRun, Nonterminal
  <2> QED
    BY <2>1, <2>2
<1> QED
  BY <1>10, <1>11, <1>12, <1>13, <1>14, <1>15, <1>16, <1>17, <1>18 DEF IInv

\* create_conversation keeps the invariant.
LEMMA CreateKeepsInvariant ==
  ASSUME IInv, NEW c \in Conversation,
         CreateConversation(c) \/ AcknowledgeRecovery(c)
  PROVE  IInv'
<1> USE DEF Runs
<1>1. /\ runs' = runs
      /\ runs \in Seq(RunRecord) /\ Len(runs) \in Nat
      /\ sessions \in Nat /\ sessions' = sessions + 1
  BY LenProperties DEF IInv, TypeOK, CreateConversation, AcknowledgeRecovery
<1>2. /\ conversations' \in [Conversation -> [state : ConversationState, session : 0 .. sessions']]
      /\ conversations'[c].state = "active" /\ conversations'[c].session = sessions + 1
      /\ \A d \in Conversation : d # c => conversations'[d] = conversations[d]
  BY <1>1 DEF IInv, TypeOK, ConversationState, CreateConversation, AcknowledgeRecovery
<1>3. conversations[c].state # "active"
  BY DEF CreateConversation, AcknowledgeRecovery
<1>4. /\ \A d \in Conversation : conversations[d].session \in 0 .. sessions
      /\ \A r \in Runs : runs[r].session \in 1 .. sessions
  BY DEF IInv, TypeOK, SessionsAreOwned
<1>5. TypeOK'
  BY <1>1, <1>2 DEF TypeOK
<1>6. SessionsAreOwned'
  <2>1. \A d \in Conversation :
          conversations'[d].state = "absent" <=> conversations'[d].session = 0
    BY <1>1, <1>2 DEF IInv, SessionsAreOwned
  <2>2. \A d, e \in Conversation :
          conversations'[d].session = conversations'[e].session
          /\ conversations'[d].session # 0 => d = e
    BY <1>1, <1>2, <1>4 DEF IInv, SessionsAreOwned
  <2>3. \A r \in Runs, d \in Conversation :
          runs[r].session = conversations'[d].session => runs[r].conversation = d
    BY SMTT(20), <1>1, <1>2, <1>4 DEF IInv, SessionsAreOwned
  <2> QED
    BY <1>1, <1>4, <2>1, <2>2, <2>3 DEF IInv, SessionsAreOwned
<1>7. InFlightRunIsClaimable'
  <2> SUFFICES ASSUME NEW r \in Runs, Nonterminal(r)
               PROVE  /\ conversations'[runs[r].conversation].state = "active"
                      /\ conversations'[runs[r].conversation].session = runs[r].session
    BY <1>1 DEF InFlightRunIsClaimable, Nonterminal
  <2>1. runs[r].conversation \in Conversation
    <3>1. runs[r] \in RunRecord
      BY <1>1, ElementOfSeq
    <3> QED
      BY <3>1 DEF RunRecord
  <2>2. /\ conversations[runs[r].conversation].state = "active"
        /\ conversations[runs[r].conversation].session = runs[r].session
    BY DEF IInv, InFlightRunIsClaimable
  <2> QED
    BY <1>2, <1>3, <2>1, <2>2
<1>8. AttentionIffUncertainSession'
  BY <1>1, <1>2, <1>4 DEF IInv, AttentionIffUncertainSession, Uncertain
<1> QED
  BY <1>1, <1>5, <1>6, <1>7, <1>8
  DEF IInv, OnlyNewestInFlight, UncertainMeansFailed, UncertainSessionRetired, OneRunPerKey,
      ArtifactsSettleWithRun, Nonterminal, Uncertain

\* What submit_run inserts is a queued row of its conversation, key and request, with
\* its declared artifacts pending.
LEMMA QueuedRow ==
  ASSUME IInv, StoreConstants, NEW c \in Conversation, NEW k \in Key, NEW q \in Request
  PROVE  /\ QueuedRun(c, k, q) \in RunRecord
         /\ QueuedRun(c, k, q).conversation = c
         /\ QueuedRun(c, k, q).session = conversations[c].session
         /\ QueuedRun(c, k, q).key = k
         /\ QueuedRun(c, k, q).request = q
         /\ QueuedRun(c, k, q).state = "queued"
         /\ QueuedRun(c, k, q).error = "none"
         /\ QueuedRun(c, k, q).artifacts =
              [n \in Name |-> IF n \in Declared[q] THEN "pending" ELSE "undeclared"]
         /\ QueuedRun(c, k, q).last_event_seq = 1
         /\ QueuedRun(c, k, q).events = << [seq |-> 1, type |-> "run.queued"] >>
<1> DEFINE pending == [n \in Name |-> IF n \in Declared[q] THEN "pending" ELSE "undeclared"]
           session == conversations[c].session
           row == [ conversation |-> c, session |-> session, key |-> k, request |-> q,
                    state |-> "queued", error |-> "none", last_event_seq |-> 0,
                    events |-> << >>, artifacts |-> pending ]
<1>1. session \in Nat
  BY DEF IInv, TypeOK
<1>2. pending \in [Name -> ArtifactState]
  BY DEF ArtifactState
<1>3. QueuedRun(c, k, q) = Logged(row, "run.queued")
  BY DEF QueuedRun
<1>4. << >> \in Seq([seq : Nat, type : EventType])
  BY EmptySeq
<1> HIDE DEF pending, session
<1>5. row \in RunRecord
  BY <1>1, <1>2, <1>4 DEF RunRecord, RunState
<1>6. "run.queued" \in EventType
  BY DEF EventType
<1>7. /\ Logged(row, "run.queued") \in RunRecord
      /\ SameBody(Logged(row, "run.queued"), row)
      /\ Logged(row, "run.queued").last_event_seq = 1
      /\ Logged(row, "run.queued").events = << [seq |-> 1, type |-> "run.queued"] >>
  BY <1>5, <1>6, LoggedRow
<1> QED
  BY <1>3, <1>7 DEF SameBody, pending, session

\* submit_run keeps the invariant: its guard is why a conversation has one run in flight
\* and one run per key.
LEMMA SubmitKeepsInvariant ==
  ASSUME IInv, StoreConstants, NEW c \in Conversation, NEW k \in Key, NEW q \in Request,
         SubmitRun(c, k, q)
  PROVE  IInv'
<1> USE DEF Runs
<1> DEFINE row == QueuedRun(c, k, q)
           new == Len(runs) + 1
<1>1. /\ row \in RunRecord
      /\ row.conversation = c
      /\ row.session = conversations[c].session
      /\ row.key = k
      /\ row.request = q
      /\ row.state = "queued"
      /\ row.error = "none"
      /\ row.artifacts = [n \in Name |-> IF n \in Declared[q] THEN "pending" ELSE "undeclared"]
  BY QueuedRow
<1>2. /\ UNCHANGED <<conversations, sessions>>
      /\ runs' = Append(runs, row)
      /\ conversations[c].state = "active"
      /\ \A r \in Runs : runs[r].conversation = c => ~ Nonterminal(r) /\ runs[r].key # k
  BY DEF SubmitRun, CanAdmit, HasNonterminalRun, HoldsKey
<1> HIDE DEF row
<1>3. /\ runs \in Seq(RunRecord) /\ Len(runs) \in Nat
      /\ runs' \in Seq(RunRecord)
      /\ Len(runs') = new
      /\ \A r \in Runs : runs'[r] = runs[r]
      /\ runs'[new] = row
  BY <1>1, <1>2, LenProperties, AppendProperties DEF IInv, TypeOK
<1>4. Runs' = Runs \cup {new} /\ \A r \in Runs : r < new
  BY <1>3
<1>5. TypeOK'
  BY <1>2, <1>3 DEF IInv, TypeOK
<1>6. \A r \in Runs : /\ Nonterminal(r)' <=> Nonterminal(r)
                      /\ Uncertain(r)' <=> Uncertain(r)
  BY <1>3 DEF Nonterminal, Uncertain
<1>7. runs'[new].state = "queued" /\ runs'[new].error = "none"
  BY <1>1, <1>3
<1>8. conversations[c].session \in 1 .. sessions
  BY <1>2 DEF IInv, TypeOK, SessionsAreOwned
<1>9. SessionsAreOwned'
  <2>1. \A d \in Conversation :
          conversations[c].session = conversations[d].session => c = d
    BY <1>8 DEF IInv, SessionsAreOwned
  <2>2. \A r \in Runs : runs[r].session = conversations[c].session => runs[r].conversation = c
    BY DEF IInv, SessionsAreOwned
  <2> QED
    BY <1>1, <1>2, <1>3, <1>4, <1>8, <2>1, <2>2 DEF IInv, SessionsAreOwned
<1>10. OnlyNewestInFlight'
  BY <1>1, <1>2, <1>3, <1>4, <1>6 DEF IInv, OnlyNewestInFlight
<1>11. UncertainMeansFailed'
  BY <1>3, <1>4, <1>6, <1>7 DEF IInv, UncertainMeansFailed, Uncertain
<1>12. InFlightRunIsClaimable'
  BY <1>1, <1>2, <1>3, <1>4, <1>6 DEF IInv, InFlightRunIsClaimable
<1>13. AttentionIffUncertainSession'
  BY <1>2, <1>3, <1>4, <1>6, <1>7 DEF IInv, AttentionIffUncertainSession, Uncertain
<1>14. UncertainSessionRetired'
  BY <1>1, <1>2, <1>3, <1>4, <1>6, <1>7
  DEF IInv, UncertainSessionRetired, AttentionIffUncertainSession, Uncertain
<1>15. OneRunPerKey'
  BY SMTT(20), <1>1, <1>2, <1>3, <1>4 DEF IInv, OneRunPerKey
<1>16. ArtifactsSettleWithRun'
  BY <1>1, <1>3, <1>4, <1>6 DEF IInv, ArtifactsSettleWithRun
<1> QED
  BY <1>5, <1>9, <1>10, <1>11, <1>12, <1>13, <1>14, <1>15, <1>16 DEF IInv

\* recover_running_runs keeps the invariant: it fails every running row at once.
LEMMA RecoverKeepsInvariant ==
  ASSUME IInv, RecoverRunningRuns
  PROVE  IInv'
<1> USE DEF Runs
<1> DEFINE legacy(r) == runs[r].state = "running"
           reached(c) == \E r \in Runs : legacy(r) /\ runs[r].conversation = c
<1>1. /\ runs \in Seq(RunRecord) /\ Len(runs) \in Nat
      /\ \A r \in Runs : runs[r] \in RunRecord
  BY LenProperties, ElementOfSeq DEF IInv, TypeOK
<1>2. "execution_uncertain" \in ErrorCode
  BY DEF ErrorCode
<1>3. \A r \in Runs :
        /\ FailedRun(runs[r], "execution_uncertain") \in RunRecord
        /\ FailedRun(runs[r], "execution_uncertain").conversation = runs[r].conversation
        /\ FailedRun(runs[r], "execution_uncertain").session = runs[r].session
        /\ FailedRun(runs[r], "execution_uncertain").key = runs[r].key
        /\ FailedRun(runs[r], "execution_uncertain").request = runs[r].request
        /\ FailedRun(runs[r], "execution_uncertain").state = "failed"
        /\ FailedRun(runs[r], "execution_uncertain").error = "execution_uncertain"
        /\ FailedRun(runs[r], "execution_uncertain").artifacts = Invalidated(runs[r].artifacts)
  BY <1>1, <1>2, FailedRow
<1>4. runs' = [r \in Runs |-> IF legacy(r) THEN FailedRun(runs[r], "execution_uncertain")
                                           ELSE runs[r]]
  BY DEF RecoverRunningRuns
<1>5. runs' \in [1 .. Len(runs) -> RunRecord]
  BY <1>1, <1>3, <1>4
<1>6. /\ runs' \in Seq(RunRecord) /\ Len(runs') = Len(runs)
      /\ Runs' = Runs
  BY <1>1, <1>5
<1>7. \A r \in Runs : /\ runs'[r].conversation = runs[r].conversation
                      /\ runs'[r].session = runs[r].session
                      /\ runs'[r].key = runs[r].key
                      /\ runs'[r].request = runs[r].request
  BY <1>3, <1>4
<1>8. \A r \in Runs : legacy(r) => /\ runs'[r].state = "failed"
                                   /\ runs'[r].error = "execution_uncertain"
                                   /\ runs'[r].artifacts = Invalidated(runs[r].artifacts)
  BY <1>3, <1>4
<1>9. \A r \in Runs : ~ legacy(r) => runs'[r] = runs[r]
  BY <1>4
<1>10. /\ sessions' = sessions
       /\ conversations' \in [Conversation -> [state : ConversationState, session : 0 .. sessions]]
       /\ \A c \in Conversation :
            /\ conversations'[c].session = conversations[c].session
            /\ conversations'[c].state = IF reached(c) THEN "attention_required"
                                                       ELSE conversations[c].state
  <2>1. /\ sessions' = sessions
        /\ conversations' = [c \in Conversation |->
             IF reached(c) THEN [conversations[c] EXCEPT !.state = "attention_required"]
                           ELSE conversations[c]]
    BY DEF RecoverRunningRuns
  <2> HIDE DEF reached
  <2> QED
    BY <2>1 DEF IInv, TypeOK, ConversationState
<1>11. \A r \in Runs : /\ Nonterminal(r)' <=> Nonterminal(r) /\ ~ legacy(r)
                       /\ Uncertain(r)' <=> Uncertain(r) \/ legacy(r)
  BY <1>8, <1>9 DEF Nonterminal, Uncertain
<1>12. \A r \in Runs : legacy(r) =>
         /\ runs[r].conversation \in Conversation
         /\ conversations[runs[r].conversation].state = "active"
         /\ conversations[runs[r].conversation].session = runs[r].session
  BY <1>1 DEF IInv, InFlightRunIsClaimable, Nonterminal, RunRecord
<1>13. TypeOK'
  BY <1>6, <1>10 DEF IInv, TypeOK
<1>14. SessionsAreOwned'
  <2>1. \A c \in Conversation :
          conversations'[c].state = "absent" <=> conversations'[c].session = 0
    BY <1>10, <1>12 DEF IInv, SessionsAreOwned
  <2> HIDE DEF reached, legacy
  <2> QED
    BY <1>6, <1>7, <1>10, <2>1 DEF IInv, SessionsAreOwned
<1>15. OnlyNewestInFlight'
  BY <1>6, <1>7, <1>11 DEF IInv, OnlyNewestInFlight
<1>16. UncertainMeansFailed'
  BY <1>6, <1>8, <1>9, <1>11 DEF IInv, UncertainMeansFailed, Uncertain
<1>17. InFlightRunIsClaimable'
  <2> SUFFICES ASSUME NEW q \in Runs, Nonterminal(q), ~ legacy(q)
               PROVE  /\ conversations'[runs[q].conversation].state = "active"
                      /\ conversations'[runs[q].conversation].session = runs[q].session
    BY <1>6, <1>7, <1>11 DEF InFlightRunIsClaimable
  <2>1. runs[q].conversation \in Conversation
    BY <1>1 DEF RunRecord
  <2>2. /\ conversations[runs[q].conversation].state = "active"
        /\ conversations[runs[q].conversation].session = runs[q].session
    BY DEF IInv, InFlightRunIsClaimable
  <2>3. ~ reached(runs[q].conversation)
    <3> SUFFICES ASSUME NEW r \in Runs, legacy(r), runs[r].conversation = runs[q].conversation
                 PROVE  FALSE
      OBVIOUS
    <3>1. q # r /\ Nonterminal(r)
      BY DEF Nonterminal
    <3>2. q < r \/ r < q
      BY <1>1, <3>1
    <3> QED
      BY <3>1, <3>2 DEF IInv, OnlyNewestInFlight
  <2> HIDE DEF reached
  <2> QED
    BY <1>10, <2>1, <2>2, <2>3
<1>18. AttentionIffUncertainSession'
  <2> SUFFICES ASSUME NEW c \in Conversation
               PROVE  conversations'[c].state = "attention_required" <=>
                        \E r \in Runs : /\ Uncertain(r) \/ legacy(r)
                                        /\ runs[r].session = conversations[c].session
    BY <1>6, <1>7, <1>10, <1>11 DEF AttentionIffUncertainSession
  <2>1. conversations[c].state = "attention_required" <=>
          \E r \in Runs : Uncertain(r) /\ runs[r].session = conversations[c].session
    BY DEF IInv, AttentionIffUncertainSession
  <2>2. \A r \in Runs : legacy(r) =>
          (runs[r].session = conversations[c].session <=> runs[r].conversation = c)
    BY <1>12 DEF IInv, SessionsAreOwned
  <2> QED
    BY <1>10, <2>1, <2>2
<1>19. UncertainSessionRetired'
  <2> SUFFICES ASSUME NEW p \in Runs, NEW q \in Runs, p < q, Uncertain(p) \/ legacy(p)
               PROVE  runs[q].session # runs[p].session
    BY <1>6, <1>7, <1>11 DEF UncertainSessionRetired
  <2>1. CASE Uncertain(p)
    BY <2>1 DEF IInv, UncertainSessionRetired
  <2>2. CASE legacy(p)
    <3>1. Nonterminal(p)
      BY <2>2 DEF Nonterminal
    <3>2. runs[p].conversation # runs[q].conversation
      BY <3>1 DEF IInv, OnlyNewestInFlight
    <3>3. runs[p].session = runs[q].session => runs[p].conversation = runs[q].conversation
      BY DEF IInv, SessionsAreOwned
    <3> QED
      BY <3>2, <3>3
  <2> QED
    BY <2>1, <2>2
<1>20. OneRunPerKey'
  BY <1>6, <1>7 DEF IInv, OneRunPerKey
<1>21. ArtifactsSettleWithRun'
  <2> SUFFICES ASSUME NEW q \in Runs, NEW n \in Name
               PROVE  LET artifact == runs'[q].artifacts[n] IN
                      IF n \notin Declared[runs[q].request]
                      THEN artifact = "undeclared"
                      ELSE /\ Nonterminal(q)' => artifact = "pending"
                           /\ runs'[q].state = "succeeded"
                                => artifact \in {"available", "missing", "invalid"}
                           /\ runs'[q].state = "failed" => artifact = "invalid"
    BY <1>6, <1>7 DEF ArtifactsSettleWithRun
  <2>1. CASE legacy(q)
    <3>1. IF n \notin Declared[runs[q].request] THEN runs[q].artifacts[n] = "undeclared"
                                               ELSE runs[q].artifacts[n] = "pending"
      BY <2>1 DEF IInv, ArtifactsSettleWithRun, Nonterminal
    <3>2. runs'[q].artifacts = Invalidated(runs[q].artifacts) /\ runs'[q].state = "failed"
      BY <1>8, <2>1
    <3>3. runs'[q].artifacts[n] = IF runs[q].artifacts[n] = "pending"
                                  THEN "invalid" ELSE runs[q].artifacts[n]
      BY <3>2 DEF Invalidated
    <3> QED
      BY <3>1, <3>2, <3>3 DEF Nonterminal
  <2>2. CASE ~ legacy(q)
    BY <1>9, <2>2 DEF IInv, ArtifactsSettleWithRun, Nonterminal
  <2> QED
    BY <2>1, <2>2
<1> QED
  BY <1>13, <1>14, <1>15, <1>16, <1>17, <1>18, <1>19, <1>20, <1>21 DEF IInv

\* The invariant is about the tables only.
LEMMA StutterKeepsInvariant ==
  ASSUME IInv, UNCHANGED storeVars
  PROVE  IInv'
  BY DEF IInv, TypeOK, SessionsAreOwned, OnlyNewestInFlight, UncertainMeansFailed,
         InFlightRunIsClaimable, AttentionIffUncertainSession, UncertainSessionRetired,
         OneRunPerKey, ArtifactsSettleWithRun, Runs, Nonterminal, Uncertain, storeVars

\* The empty database satisfies the invariant.
LEMMA InitEstablishesInvariant ==
  ASSUME Init
  PROVE  IInv
<1>1. runs = << >> /\ runs \in Seq(RunRecord) /\ Runs = {}
  BY EmptySeq DEF Init, Runs
<1>2. TypeOK
  BY <1>1 DEF Init, TypeOK, ConversationState
<1> QED
  BY <1>1, <1>2
  DEF Init, IInv, SessionsAreOwned, OnlyNewestInFlight, UncertainMeansFailed,
      InFlightRunIsClaimable, AttentionIffUncertainSession, UncertainSessionRetired,
      OneRunPerKey, ArtifactsSettleWithRun

\* Every transaction keeps the invariant.
LEMMA NextKeepsInvariant ==
  ASSUME IInv, StoreConstants, [Next]_storeVars
  PROVE  IInv'
<1>1. runs \in Seq(RunRecord) /\ \A r \in Runs : runs[r] \in RunRecord
  BY ElementOfSeq DEF IInv, TypeOK, Runs
<1>2. CASE \E c \in Conversation : CreateConversation(c) \/ AcknowledgeRecovery(c)
  BY <1>2, CreateKeepsInvariant
<1>3. CASE \E c \in Conversation, k \in Key, q \in Request : SubmitRun(c, k, q)
  BY <1>3, SubmitKeepsInvariant
<1>4. CASE \E r \in Runs : ClaimOldestRun(r)
  <2> PICK r \in Runs : ClaimOldestRun(r)
    BY <1>4
  <2>1. RowMoves(r, "running", runs[r].error, runs[r].artifacts)
    BY <1>1, ClaimMoves
  <2>2. Nonterminal(r) /\ UNCHANGED <<conversations, sessions>>
    BY DEF ClaimOldestRun, IsOldestClaimable, Claimable, Nonterminal
  <2>3. SettledFor(r, "running", runs[r].artifacts)
    BY <2>2 DEF IInv, ArtifactsSettleWithRun, SettledFor
  <2>4. runs[r].error # "execution_uncertain"
    BY <2>2 DEF IInv, UncertainMeansFailed, Uncertain, Nonterminal
  <2>5. "running" \in RunState
    BY DEF RunState
  <2> QED
    BY <2>1, <2>2, <2>3, <2>4, <2>5, MoveKeepsInvariant
<1>5. CASE \E r \in Runs : AppendEvent(r)
  <2> PICK r \in Runs : AppendEvent(r)
    BY <1>5
  <2>1. RowMoves(r, runs[r].state, runs[r].error, runs[r].artifacts)
    BY <1>1, AppendMoves
  <2>2. Nonterminal(r) /\ UNCHANGED <<conversations, sessions>>
    BY DEF AppendEvent, RequireRunning, Nonterminal
  <2>3. SettledFor(r, runs[r].state, runs[r].artifacts)
    BY <2>2 DEF IInv, ArtifactsSettleWithRun, SettledFor, Nonterminal
  <2>4. runs[r].error # "execution_uncertain"
    BY <2>2 DEF IInv, UncertainMeansFailed, Uncertain, Nonterminal
  <2>5. runs[r].state \in RunState
    BY <1>1 DEF RunRecord
  <2> QED
    BY <2>1, <2>2, <2>3, <2>4, <2>5, MoveKeepsInvariant
<1>6. CASE \E r \in Runs : \E outcome \in Outcomes(r) : CompleteRunSuccess(r, outcome)
  <2> PICK r \in Runs : \E outcome \in Outcomes(r) : CompleteRunSuccess(r, outcome)
    BY <1>6
  <2> PICK outcome \in Outcomes(r) : CompleteRunSuccess(r, outcome)
    OBVIOUS
  <2>1. Nonterminal(r) /\ runs[r].state = "running" /\ UNCHANGED <<conversations, sessions>>
    BY DEF CompleteRunSuccess, RequireRunning, Nonterminal
  <2>2. \A n \in Name : IF n \in Declared[runs[r].request]
                        THEN runs[r].artifacts[n] = "pending"
                        ELSE runs[r].artifacts[n] = "undeclared"
    BY <2>1 DEF IInv, ArtifactsSettleWithRun
  <2>3. RowMoves(r, "succeeded", runs[r].error, Stored(r, outcome))
    BY <1>1, <2>2, CompleteMoves DEF StoreConstants
  <2>4. SettledFor(r, "succeeded", Stored(r, outcome))
    BY <2>2 DEF SettledFor, Stored, Outcomes
  <2>5. runs[r].error # "execution_uncertain"
    BY <2>1 DEF IInv, UncertainMeansFailed, Uncertain
  <2>6. "succeeded" \in RunState
    BY DEF RunState
  <2> QED
    BY <2>1, <2>3, <2>4, <2>5, <2>6, MoveKeepsInvariant
<1>7. CASE \E r \in Runs, code \in ErrorCode : FailRun(r, code)
  <2> PICK r \in Runs, code \in ErrorCode : FailRun(r, code)
    BY <1>7
  <2>1. RowMoves(r, "failed", code, Invalidated(runs[r].artifacts))
    BY <1>1, FailMoves
  <2>2. /\ Nonterminal(r)
        /\ sessions' = sessions
        /\ conversations' = IF code = "execution_uncertain"
                            THEN Blocked(runs[r].conversation) ELSE conversations
    BY DEF FailRun, RequireRunning, Nonterminal, Blocked
  <2>3. SettledFor(r, "failed", Invalidated(runs[r].artifacts))
    BY <2>2 DEF IInv, ArtifactsSettleWithRun, SettledFor, Invalidated
  <2>4. "failed" \in RunState
    BY DEF RunState
  <2> QED
    BY <2>1, <2>2, <2>3, <2>4, MoveKeepsInvariant
<1>8. CASE RecoverRunningRuns
  BY <1>8, RecoverKeepsInvariant
<1>9. CASE UNCHANGED storeVars
  BY <1>9, StutterKeepsInvariant
<1> QED
  BY <1>2, <1>3, <1>4, <1>5, <1>6, <1>7, <1>8, <1>9 DEF Next

------------------------------------------------------------------------------
(***************************************************************************)
(* Theorems                                                                *)
(***************************************************************************)

\* The invariant holds of every behaviour of the store.
THEOREM Invariance == Spec => []IInv
<1>1. Init => IInv
  BY InitEstablishesInvariant
<1>2. IInv /\ [Next]_storeVars => IInv'
  BY NextKeepsInvariant, StoreConstants
<1> QED
  BY <1>1, <1>2, PTL DEF Spec

\* The tables always hold rows of their schema.
THEOREM TypeCorrectness == Spec => []TypeOK
<1>1. IInv => TypeOK
  BY DEF IInv
<1> QED
  BY <1>1, Invariance, PTL

\* A session whose run may or may not have had its effect is never used again, and
\* its conversation is blocked exactly until it is given another.
THEOREM UncertainSessionsStayRetired ==
  Spec => [](UncertainSessionRetired /\ AttentionIffUncertainSession)
<1>1. IInv => UncertainSessionRetired /\ AttentionIffUncertainSession
  BY DEF IInv
<1> QED
  BY <1>1, Invariance, PTL

\* At most one run of a conversation is in flight, and the worker can claim it.
THEOREM SingleFlight == Spec => [](OneNonterminalRun /\ InFlightRunIsClaimable)
<1>1. IInv => OneNonterminalRun /\ InFlightRunIsClaimable
  <2> SUFFICES ASSUME IInv PROVE OneNonterminalRun
    BY DEF IInv
  <2>1. Len(runs) \in Nat
    BY LenProperties DEF IInv, TypeOK
  <2>2. \A q, r \in Runs : q < r \/ r < q \/ q = r
    BY <2>1 DEF Runs
  <2> QED
    BY <2>2 DEF IInv, OnlyNewestInFlight, OneNonterminalRun
<1> QED
  BY <1>1, Invariance, PTL

\* An idempotency key names at most one run of its conversation.
THEOREM Idempotency == Spec => []OneRunPerKey
<1>1. IInv => OneRunPerKey
  BY DEF IInv
<1> QED
  BY <1>1, Invariance, PTL

\* Neither retries nor restarts give a conversation two runs for one key, or two at a time.
THEOREM Exclusiveness == Spec => []RunsAreExclusive
<1>1. OneRunPerKey /\ OneNonterminalRun => RunsAreExclusive
  BY DEF RunsAreExclusive
<1> QED
  BY <1>1, SingleFlight, Idempotency, PTL

\* What an uncertain outcome may have touched is blocked, and then retired.
THEOREM Containment == Spec => []UncertaintyIsContained
<1>1. UncertainSessionRetired /\ AttentionIffUncertainSession => UncertaintyIsContained
  BY DEF UncertaintyIsContained
<1> QED
  BY <1>1, UncertainSessionsStayRetired, PTL

\* Artifact rows settle in the transaction that ends their run.
THEOREM ArtifactSettlement == Spec => []ArtifactsSettleWithRun
<1>1. IInv => ArtifactsSettleWithRun
  BY DEF IInv
<1> QED
  BY <1>1, Invariance, PTL

------------------------------------------------------------------------------
(***************************************************************************)
(* The event log: what a transaction may do to a row, and what follows for *)
(* the log a client reads                                                  *)
(***************************************************************************)

\* The events that may be appended to a row in a state, and the state they leave it in.
Life == { <<"queued",  "run.started",   "running">>,
          <<"running", "projected",     "running">>,
          <<"running", "run.succeeded", "succeeded">>,
          <<"running", "run.failed",    "failed">> }

SameAdmission(a, b) ==
  /\ b.conversation = a.conversation
  /\ b.session = a.session
  /\ b.key = a.key
  /\ b.request = a.request

\* One event is numbered and appended, together with the state it announces.
Advances(a, b) ==
  /\ SameAdmission(a, b)
  /\ b.last_event_seq = a.last_event_seq + 1
  /\ \E type \in EventType :
       /\ <<a.state, type, b.state>> \in Life
       /\ b.events = Append(a.events, [seq |-> a.last_event_seq + 1, type |-> type])

\* A row that was changed in its body only and then logged has advanced.
LEMMA LoggedAdvances ==
  ASSUME NEW run \in RunRecord, NEW row \in RunRecord, NEW type \in EventType,
         SameAdmission(run, row),
         row.last_event_seq = run.last_event_seq,
         row.events = run.events,
         <<run.state, type, row.state>> \in Life
  PROVE  Advances(run, Logged(row, type))
<1>1. /\ Logged(row, type) \in RunRecord
      /\ SameBody(Logged(row, type), row)
      /\ Logged(row, type).last_event_seq = row.last_event_seq + 1
      /\ Logged(row, type).events =
           Append(row.events, [seq |-> row.last_event_seq + 1, type |-> type])
  BY LoggedRow
<1>2. SameAdmission(run, Logged(row, type))
  BY <1>1 DEF SameAdmission, SameBody
<1>3. <<run.state, type, Logged(row, type).state>> \in Life
  BY <1>1 DEF SameBody
<1> QED
  BY <1>1, <1>2, <1>3 DEF Advances

\* A running row that fails has advanced.
LEMMA FailedAdvances ==
  ASSUME NEW run \in RunRecord, NEW code \in ErrorCode, run.state = "running"
  PROVE  Advances(run, FailedRun(run, code))
<1> DEFINE settled == Invalidated(run.artifacts)
           row == [run EXCEPT !.state = "failed", !.error = code, !.artifacts = settled]
<1>1. settled \in [Name -> ArtifactState]
  BY DEF RunRecord, ArtifactState, Invalidated
<1>2. row \in RunRecord
  BY <1>1 DEF RunRecord, RunState
<1>3. FailedRun(run, code) = Logged(row, "run.failed")
  BY DEF FailedRun, Invalidated
<1>4. /\ SameAdmission(run, row)
      /\ row.last_event_seq = run.last_event_seq
      /\ row.events = run.events
      /\ row.state = "failed"
  BY DEF RunRecord, SameAdmission
<1> HIDE DEF row
<1>5. "run.failed" \in EventType /\ <<run.state, "run.failed", row.state>> \in Life
  BY <1>4 DEF EventType, Life
<1> QED
  BY <1>2, <1>3, <1>4, <1>5, LoggedAdvances

\* A row never goes away, is what it was or has advanced, and joins the table as a
\* queued one with its first event.
EachRowStays ==
  /\ Len(runs') >= Len(runs)
  /\ \A r \in Runs : runs'[r] = runs[r] \/ Advances(runs[r], runs'[r])
  /\ \A r \in Runs' \ Runs :
       /\ runs'[r].state = "queued"
       /\ runs'[r].last_event_seq = 1
       /\ runs'[r].events = << [seq |-> 1, type |-> "run.queued"] >>

\* One row replaced by one that has advanced is all a transaction does to the table.
LEMMA ReplacedStays ==
  ASSUME runs \in Seq(RunRecord), NEW r \in Runs, NEW row \in RunRecord,
         Advances(runs[r], row),
         runs' = [runs EXCEPT ![r] = row]
  PROVE  EachRowStays
<1>1. /\ Len(runs) \in Nat /\ Len(runs') = Len(runs)
      /\ \A j \in 1 .. Len(runs) : runs'[j] = IF j = r THEN row ELSE runs[j]
  BY ExceptSeq, LenProperties DEF Runs
<1> QED
  BY <1>1 DEF EachRowStays, Runs

\* Every transaction of the repository treats the rows like that.
LEMMA NextRowsStay ==
  ASSUME IInv, StoreConstants, [Next]_storeVars
  PROVE  EachRowStays
<1>1. /\ runs \in Seq(RunRecord) /\ Len(runs) \in Nat
      /\ \A r \in Runs : runs[r] \in RunRecord
  BY ElementOfSeq, LenProperties DEF IInv, TypeOK, Runs
<1>2. CASE UNCHANGED runs
  BY <1>1, <1>2 DEF EachRowStays, Runs
<1>3. ASSUME NEW c \in Conversation, NEW k \in Key, NEW q \in Request, SubmitRun(c, k, q)
      PROVE  EachRowStays
  <2> DEFINE row == QueuedRun(c, k, q)
             new == Len(runs) + 1
  <2>1. /\ row \in RunRecord
        /\ row.conversation = c
        /\ row.session = conversations[c].session
        /\ row.key = k
        /\ row.request = q
        /\ row.state = "queued"
        /\ row.error = "none"
        /\ row.artifacts = [n \in Name |-> IF n \in Declared[q] THEN "pending" ELSE "undeclared"]
        /\ row.last_event_seq = 1
        /\ row.events = << [seq |-> 1, type |-> "run.queued"] >>
    BY QueuedRow
  <2>2. runs' = Append(runs, row)
    BY <1>3 DEF SubmitRun
  <2> HIDE DEF row
  <2>3. /\ Len(runs') = new
        /\ \A r \in Runs : runs'[r] = runs[r]
        /\ runs'[new] = row
    BY <1>1, <2>1, <2>2, AppendProperties DEF Runs
  <2>4. Runs' \ Runs = {new}
    BY <1>1, <2>3 DEF Runs
  <2> QED
    BY <1>1, <2>1, <2>3, <2>4 DEF EachRowStays
<1>4. ASSUME NEW r \in Runs, ClaimOldestRun(r)
      PROVE  EachRowStays
  <2> DEFINE row == [runs[r] EXCEPT !.state = "running"]
  <2>1. runs[r] \in RunRecord /\ runs[r].state = "queued"
    BY <1>1, <1>4 DEF ClaimOldestRun, IsOldestClaimable, Claimable
  <2>2. /\ row \in RunRecord /\ row.state = "running"
        /\ SameAdmission(runs[r], row)
        /\ row.last_event_seq = runs[r].last_event_seq
        /\ row.events = runs[r].events
    BY <2>1 DEF RunRecord, RunState, SameAdmission
  <2>3. runs' = [runs EXCEPT ![r] = Logged(row, "run.started")]
    BY <1>4 DEF ClaimOldestRun
  <2> HIDE DEF row
  <2>4. /\ "run.started" \in EventType
        /\ <<runs[r].state, "run.started", row.state>> \in Life
    BY <2>1, <2>2 DEF EventType, Life
  <2>5. /\ Logged(row, "run.started") \in RunRecord
        /\ Advances(runs[r], Logged(row, "run.started"))
    BY <2>1, <2>2, <2>4, LoggedRow, LoggedAdvances
  <2> QED
    BY <1>1, <2>3, <2>5, ReplacedStays
<1>5. ASSUME NEW r \in Runs, AppendEvent(r)
      PROVE  EachRowStays
  <2>1. runs[r] \in RunRecord /\ runs[r].state = "running"
    BY <1>1, <1>5 DEF AppendEvent, RequireRunning
  <2>2. runs' = [runs EXCEPT ![r] = Logged(runs[r], "projected")]
    BY <1>5 DEF AppendEvent
  <2>3. /\ "projected" \in EventType
        /\ <<runs[r].state, "projected", runs[r].state>> \in Life
        /\ SameAdmission(runs[r], runs[r])
    BY <2>1 DEF EventType, Life, SameAdmission
  <2>4. /\ Logged(runs[r], "projected") \in RunRecord
        /\ Advances(runs[r], Logged(runs[r], "projected"))
    BY <2>1, <2>3, LoggedRow, LoggedAdvances
  <2> QED
    BY <1>1, <2>2, <2>4, ReplacedStays
<1>6. ASSUME NEW r \in Runs, NEW outcome \in Outcomes(r), CompleteRunSuccess(r, outcome)
      PROVE  EachRowStays
  <2> DEFINE row == [runs[r] EXCEPT !.state = "succeeded", !.artifacts = Stored(r, outcome)]
  <2>1. runs[r] \in RunRecord /\ runs[r].state = "running"
    BY <1>1, <1>6 DEF CompleteRunSuccess, RequireRunning
  <2>2. \A n \in Name : runs[r].artifacts[n] = "pending" => n \in Declared[runs[r].request]
    BY <2>1 DEF IInv, ArtifactsSettleWithRun
  <2>3. Stored(r, outcome) \in [Name -> ArtifactState]
    BY <2>1, <2>2 DEF Stored, Outcomes, RunRecord, ArtifactState, StoreConstants
  <2>4. /\ row \in RunRecord /\ row.state = "succeeded"
        /\ SameAdmission(runs[r], row)
        /\ row.last_event_seq = runs[r].last_event_seq
        /\ row.events = runs[r].events
    BY <2>1, <2>3 DEF RunRecord, RunState, SameAdmission
  <2>5. runs' = [runs EXCEPT ![r] = Logged(row, "run.succeeded")]
    BY <1>6 DEF CompleteRunSuccess, Stored
  <2> HIDE DEF row
  <2>6. /\ "run.succeeded" \in EventType
        /\ <<runs[r].state, "run.succeeded", row.state>> \in Life
    BY <2>1, <2>4 DEF EventType, Life
  <2>7. /\ Logged(row, "run.succeeded") \in RunRecord
        /\ Advances(runs[r], Logged(row, "run.succeeded"))
    BY <2>1, <2>4, <2>6, LoggedRow, LoggedAdvances
  <2> QED
    BY <1>1, <2>5, <2>7, ReplacedStays
<1>7. ASSUME NEW r \in Runs, NEW code \in ErrorCode, FailRun(r, code)
      PROVE  EachRowStays
  <2>1. runs[r] \in RunRecord /\ runs[r].state = "running"
    BY <1>1, <1>7 DEF FailRun, RequireRunning
  <2>2. runs' = [runs EXCEPT ![r] = FailedRun(runs[r], code)]
    BY <1>7 DEF FailRun
  <2> QED
    BY <1>1, <2>1, <2>2, FailedRow, FailedAdvances, ReplacedStays
<1>8. CASE RecoverRunningRuns
  <2> DEFINE legacy(r) == runs[r].state = "running"
  <2>1. "execution_uncertain" \in ErrorCode
    BY DEF ErrorCode
  <2>2. \A r \in Runs : legacy(r) =>
          Advances(runs[r], FailedRun(runs[r], "execution_uncertain"))
    BY <1>1, <2>1, FailedAdvances
  <2>3. runs' = [r \in Runs |-> IF legacy(r) THEN FailedRun(runs[r], "execution_uncertain")
                                             ELSE runs[r]]
    BY <1>8 DEF RecoverRunningRuns
  <2>4. \A r \in Runs : runs'[r] = runs[r] \/ Advances(runs[r], runs'[r])
    BY <2>2, <2>3
  <2>5. Len(runs') = Len(runs)
    BY <1>1, <2>3 DEF Runs
  <2> QED
    BY <1>1, <2>4, <2>5 DEF EachRowStays, Runs
<1> QED
  BY <1>2, <1>3, <1>4, <1>5, <1>6, <1>7, <1>8
  DEF Next, storeVars, CreateConversation, AcknowledgeRecovery

\* The log of one row tells its life (EventLogTellsRun for one row).
LogTells(run) ==
  /\ Len(run.events) = run.last_event_seq
  /\ \A i \in 1 .. Len(run.events) :
       run.events[i] = [seq |-> i, type |-> ExpectedEventType(run, i)]
  /\ run.state = "queued" <=> run.last_event_seq = 1
  /\ run.last_event_seq >= IF run.state \in {"queued", "running"} THEN 1 ELSE 3

\* A row that advances keeps a log that tells its life.
LEMMA AdvanceTells ==
  ASSUME NEW a \in RunRecord, NEW b \in RunRecord, LogTells(a), Advances(a, b)
  PROVE  LogTells(b)
<1> DEFINE n == a.last_event_seq
<1>1. PICK type \in EventType :
        /\ <<a.state, type, b.state>> \in Life
        /\ b.events = Append(a.events, [seq |-> n + 1, type |-> type])
  BY DEF Advances
<1>2. /\ n \in Nat /\ b.last_event_seq = n + 1
      /\ a.events \in Seq([seq : Nat, type : EventType]) /\ Len(a.events) = n
  BY DEF RunRecord, Advances, LogTells
<1>3. /\ Len(b.events) = n + 1
      /\ \A i \in 1 .. n : b.events[i] = a.events[i]
      /\ b.events[n + 1] = [seq |-> n + 1, type |-> type]
  BY <1>1, <1>2, AppendProperties
<1>4. a.state \in {"queued", "running"} /\ b.state \in {"running", "succeeded", "failed"}
  BY <1>1 DEF Life
<1>5. a.state = "queued" <=> n = 1
  BY DEF LogTells
<1>6. n >= 1
  BY <1>2, <1>4 DEF LogTells
<1>7. ExpectedEventType(b, n + 1) = type
  BY <1>1, <1>2, <1>5, <1>6 DEF Life, ExpectedEventType
<1>8. \A i \in 1 .. n : ExpectedEventType(b, i) = ExpectedEventType(a, i)
  BY <1>2, <1>4 DEF ExpectedEventType
<1>9. \A i \in 1 .. Len(b.events) : b.events[i] = [seq |-> i, type |-> ExpectedEventType(b, i)]
  <2> SUFFICES ASSUME NEW i \in 1 .. n + 1
               PROVE  b.events[i] = [seq |-> i, type |-> ExpectedEventType(b, i)]
    BY <1>3
  <2>1. CASE i = n + 1
    BY <1>3, <1>7, <2>1
  <2>2. CASE i # n + 1
    <3>1. i \in 1 .. n
      BY <1>2, <2>2
    <3>2. a.events[i] = [seq |-> i, type |-> ExpectedEventType(a, i)]
      BY <1>2, <3>1 DEF LogTells
    <3> QED
      BY <1>3, <1>8, <3>1, <3>2
  <2> QED
    BY <2>1, <2>2
<1>10. /\ b.state # "queued" /\ n + 1 # 1
       /\ n + 1 >= IF b.state \in {"queued", "running"} THEN 1 ELSE 3
  BY <1>1, <1>2, <1>5, <1>6 DEF Life
<1> QED
  BY <1>2, <1>3, <1>9, <1>10 DEF LogTells

\* The property is about each row by itself.
LEMMA LogsTell == EventLogTellsRun <=> \A r \in Runs : LogTells(runs[r])
  BY DEF EventLogTellsRun, LogTells, Nonterminal

\* The log a client reads tells the life of its run.
THEOREM LogFidelity == Spec => []EventLogTellsRun
<1>1. Init => EventLogTellsRun
  BY EmptySeq DEF Init, EventLogTellsRun, Runs
<1>2. IInv /\ IInv' /\ EventLogTellsRun /\ [Next]_storeVars => EventLogTellsRun'
  <2> SUFFICES ASSUME IInv, IInv', EventLogTellsRun, [Next]_storeVars,
                      NEW r \in Runs'
               PROVE  LogTells(runs'[r])
    BY DEF EventLogTellsRun, LogTells, Nonterminal
  <2>1. /\ EachRowStays
        /\ runs'[r] \in RunRecord
        /\ r \in Runs => runs[r] \in RunRecord /\ LogTells(runs[r])
    BY NextRowsStay, StoreConstants, LogsTell, ElementOfSeq DEF IInv, TypeOK, Runs
  <2>2. CASE r \in Runs
    BY <2>1, <2>2, AdvanceTells DEF EachRowStays
  <2>3. CASE r \notin Runs
    <3>1. /\ runs'[r].state = "queued"
          /\ runs'[r].last_event_seq = 1
          /\ runs'[r].events = << [seq |-> 1, type |-> "run.queued"] >>
      BY <2>1, <2>3 DEF EachRowStays
    <3>2. ExpectedEventType(runs'[r], 1) = "run.queued"
      BY DEF ExpectedEventType
    <3> QED
      BY <3>1, <3>2 DEF LogTells
  <2> QED
    BY <2>2, <2>3
<1> QED
  BY <1>1, <1>2, Invariance, PTL DEF Spec

\* The log of a row that advances begins with the log it had.
LEMMA AdvanceExtends ==
  ASSUME NEW a \in RunRecord, NEW b, Advances(a, b)
  PROVE  /\ SubSeq(b.events, 1, Len(a.events)) = a.events
         /\ a.state \in {"queued", "running"}
<1>1. PICK type \in EventType :
        /\ <<a.state, type, b.state>> \in Life
        /\ b.events = Append(a.events, [seq |-> a.last_event_seq + 1, type |-> type])
  BY DEF Advances
<1> DEFINE item  == [seq : Nat, type : EventType]
           event == [seq |-> a.last_event_seq + 1, type |-> type]
           n     == Len(a.events)
<1>2. a.events \in Seq(item) /\ event \in item
  BY DEF RunRecord
<1> HIDE DEF item, event
<1>3. /\ n \in Nat
      /\ a.events \in [1 .. n -> item]
      /\ b.events \in Seq(item) /\ Len(b.events) = n + 1
      /\ \A i \in 1 .. n : b.events[i] = a.events[i]
  BY <1>1, <1>2, AppendProperties, LenProperties DEF event
<1>4. SubSeq(b.events, 1, n) = [i \in 1 .. n |-> b.events[i]]
  BY <1>3, SubSeqProperties
<1>5. SubSeq(b.events, 1, n) = a.events
  BY <1>3, <1>4
<1> QED
  BY <1>1, <1>5 DEF Life

\* What a client has read of a run stays true.
THEOREM AppendOnlyHistory == Spec => RunHistoryIsAppendOnly
<1> DEFINE Kept(r) ==
      /\ r \in Runs'
      /\ \A f \in {"conversation", "session", "key", "request"} : runs'[r][f] = runs[r][f]
      /\ SubSeq(runs'[r].events, 1, Len(runs[r].events)) = runs[r].events
      /\ ~ Nonterminal(r) => runs'[r] = runs[r]
<1>1. IInv /\ IInv' /\ [Next]_storeVars => \A r \in Runs : Kept(r)
  <2> SUFFICES ASSUME IInv, IInv', [Next]_storeVars, NEW r \in Runs
               PROVE  Kept(r)
    OBVIOUS
  <2>1. EachRowStays
    BY NextRowsStay, StoreConstants
  <2>2. /\ Len(runs) \in Nat /\ Len(runs') \in Nat
        /\ runs[r] \in RunRecord
    BY LenProperties, ElementOfSeq DEF IInv, TypeOK, Runs
  <2>3. r \in Runs'
    BY <2>1, <2>2 DEF EachRowStays, Runs
  <2>4. CASE runs'[r] = runs[r]
    <3>1. SubSeq(runs[r].events, 1, Len(runs[r].events)) = runs[r].events
      BY <2>2, SubSeqFull DEF RunRecord
    <3> QED
      BY <2>3, <2>4, <3>1
  <2>5. CASE Advances(runs[r], runs'[r])
    <3>1. /\ SubSeq(runs'[r].events, 1, Len(runs[r].events)) = runs[r].events
          /\ Nonterminal(r)
      BY <2>2, <2>5, AdvanceExtends DEF Nonterminal
    <3>2. \A f \in {"conversation", "session", "key", "request"} : runs'[r][f] = runs[r][f]
      BY <2>5 DEF Advances, SameAdmission
    <3> QED
      BY <2>3, <3>1, <3>2
  <2> QED
    BY <2>1, <2>4, <2>5 DEF EachRowStays
<1>2. Spec => [][\A r \in Runs : Kept(r)]_storeVars
  BY <1>1, Invariance, PTL DEF Spec
<1> QED
  BY <1>2 DEF RunHistoryIsAppendOnly

------------------------------------------------------------------------------
(***************************************************************************)
(* What each transaction does to the states and errors of the rows: all    *)
(* that the coordinator needs to know of the tables                        *)
(***************************************************************************)

\* Row r gets a state and an error, and no other row changes.
Settles(r, state, error) ==
  /\ Len(runs') = Len(runs)
  /\ \A j \in Runs : j # r => runs'[j] = runs[j]
  /\ runs'[r].state = state
  /\ runs'[r].error = error

\* The tables have a length, and a row has a state and an error of the schema.
LEMMA RowsAreRecords ==
  ASSUME IInv
  PROVE  /\ runs \in Seq(RunRecord)
         /\ Len(runs) \in Nat
         /\ \A r \in Runs : /\ runs[r] \in RunRecord
                            /\ runs[r].state \in RunState
                            /\ runs[r].error \in ErrorCode \cup {"none"}
<1>1. runs \in Seq(RunRecord) /\ \A r \in Runs : runs[r] \in RunRecord
  BY ElementOfSeq DEF IInv, TypeOK, Runs
<1> QED
  BY <1>1, LenProperties DEF RunRecord

\* claim_oldest_run, append_event, complete_run_success and fail_run settle one row.
LEMMA OneRowSettles ==
  ASSUME IInv, StoreConstants
  PROVE  /\ \A r \in Runs : ClaimOldestRun(r) => /\ runs[r].state = "queued"
                                                 /\ Settles(r, "running", runs[r].error)
         /\ \A r \in Runs : AppendEvent(r) => Settles(r, runs[r].state, runs[r].error)
         /\ \A r \in Runs : \A outcome \in Outcomes(r) :
              CompleteRunSuccess(r, outcome) => Settles(r, "succeeded", runs[r].error)
         /\ \A r \in Runs, code \in ErrorCode : FailRun(r, code) => Settles(r, "failed", code)
<1>1. runs \in Seq(RunRecord)
  BY DEF IInv, TypeOK
<1>2. ASSUME NEW r \in Runs, ClaimOldestRun(r)
      PROVE  runs[r].state = "queued" /\ Settles(r, "running", runs[r].error)
  <2>1. RowMoves(r, "running", runs[r].error, runs[r].artifacts)
    BY <1>1, <1>2, ClaimMoves
  <2> QED
    BY <1>2, <2>1 DEF RowMoves, Settles, ClaimOldestRun, IsOldestClaimable, Claimable
<1>3. ASSUME NEW r \in Runs, AppendEvent(r)
      PROVE  Settles(r, runs[r].state, runs[r].error)
  <2>1. RowMoves(r, runs[r].state, runs[r].error, runs[r].artifacts)
    BY <1>1, <1>3, AppendMoves
  <2> QED
    BY <2>1 DEF RowMoves, Settles
<1>4. ASSUME NEW r \in Runs, NEW outcome \in Outcomes(r), CompleteRunSuccess(r, outcome)
      PROVE  Settles(r, "succeeded", runs[r].error)
  <2>1. \A n \in Name : runs[r].artifacts[n] = "pending" => n \in Declared[runs[r].request]
    BY DEF IInv, ArtifactsSettleWithRun
  <2>2. RowMoves(r, "succeeded", runs[r].error, Stored(r, outcome))
    BY <1>1, <1>4, <2>1, CompleteMoves DEF StoreConstants
  <2> QED
    BY <2>2 DEF RowMoves, Settles
<1>5. ASSUME NEW r \in Runs, NEW code \in ErrorCode, FailRun(r, code)
      PROVE  Settles(r, "failed", code)
  <2>1. RowMoves(r, "failed", code, Invalidated(runs[r].artifacts))
    BY <1>1, <1>5, FailMoves
  <2> QED
    BY <2>1 DEF RowMoves, Settles
<1> QED
  BY <1>2, <1>3, <1>4, <1>5

\* submit_run adds one queued row at the end.
LEMMA SubmitAddsRow ==
  ASSUME IInv, StoreConstants
  PROVE  \A c \in Conversation, k \in Key, q \in Request :
           SubmitRun(c, k, q) => /\ Len(runs) < MaxRuns
                                 /\ Len(runs') = Len(runs) + 1
                                 /\ \A j \in Runs : runs'[j] = runs[j]
                                 /\ runs'[Len(runs) + 1].state = "queued"
                                 /\ runs'[Len(runs) + 1].error = "none"
<1> SUFFICES ASSUME NEW c \in Conversation, NEW k \in Key, NEW q \in Request,
                    SubmitRun(c, k, q)
             PROVE  /\ Len(runs) < MaxRuns
                    /\ Len(runs') = Len(runs) + 1
                    /\ \A j \in Runs : runs'[j] = runs[j]
                    /\ runs'[Len(runs) + 1].state = "queued"
                    /\ runs'[Len(runs) + 1].error = "none"
  OBVIOUS
<1> DEFINE row == QueuedRun(c, k, q)
<1>1. /\ row \in RunRecord
      /\ row.conversation = c
      /\ row.session = conversations[c].session
      /\ row.key = k
      /\ row.request = q
      /\ row.state = "queued"
      /\ row.error = "none"
      /\ row.artifacts = [n \in Name |-> IF n \in Declared[q] THEN "pending" ELSE "undeclared"]
      /\ row.last_event_seq = 1
      /\ row.events = << [seq |-> 1, type |-> "run.queued"] >>
  BY QueuedRow
<1>2. runs' = Append(runs, row) /\ Len(runs) < MaxRuns
  BY DEF SubmitRun
<1> HIDE DEF row
<1> QED
  BY <1>1, <1>2, RowsAreRecords, AppendProperties DEF Runs

\* Startup recovery fails every running row as uncertain and touches no other.
LEMMA RecoverySettles ==
  ASSUME IInv, RecoverRunningRuns
  PROVE  /\ Len(runs') = Len(runs)
         /\ \A r \in Runs :
              IF runs[r].state = "running"
              THEN runs'[r].state = "failed" /\ runs'[r].error = "execution_uncertain"
              ELSE runs'[r] = runs[r]
<1> DEFINE row(r) == IF runs[r].state = "running"
                     THEN FailedRun(runs[r], "execution_uncertain") ELSE runs[r]
<1>1. runs' = [r \in 1 .. Len(runs) |-> row(r)]
  BY DEF RecoverRunningRuns, Runs
<1>2. Len(runs') = Len(runs) /\ \A r \in Runs : runs'[r] = row(r)
  BY <1>1, RowsAreRecords DEF Runs
<1>3. "execution_uncertain" \in ErrorCode
  BY DEF ErrorCode
<1>4. ASSUME NEW r \in Runs
      PROVE  /\ FailedRun(runs[r], "execution_uncertain").state = "failed"
             /\ FailedRun(runs[r], "execution_uncertain").error = "execution_uncertain"
  BY <1>3, RowsAreRecords, FailedRow
<1> QED
  BY <1>2, <1>4
===============================================================================
