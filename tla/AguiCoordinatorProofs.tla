------------------------- MODULE AguiCoordinatorProofs -------------------------
(***************************************************************************)
(* Theorems about the AG-UI coordinator over its store, for every number   *)
(* of conversations, runs, slots, failing writes and process deaths: the   *)
(* agent has one prompt of a conversation at a time, a session whose       *)
(* outcome is unknown is never used again, every row that has not ended    *)
(* has somebody to settle it, the AG-UI channel tells the run, and no      *)
(* proof is deleted before it is stored.                                   *)
(***************************************************************************)
EXTENDS AguiCoordinator, SequenceTheorems, FiniteSetTheorems, FunctionTheorems, TLAPS

------------------------------------------------------------------------------
(***************************************************************************)
(* The inductive invariant                                                 *)
(***************************************************************************)

\* The ag-ui channel of a row, by its status.
Told(row) ==
  IF row.status = "queued" THEN row.agui = << >>
  ELSE LET n == Len(row.agui) IN
       /\ n >= (IF row.status = "running" THEN 1 ELSE 2)
       /\ row.agui[1] = "RUN_STARTED"
       /\ \A i \in 2 .. n :
            row.agui[i] = IF i < n \/ row.status = "running" THEN "projected"
                          ELSE IF row.status = "succeeded" THEN "RUN_FINISHED"
                          ELSE "RUN_ERROR"

\* A row, its execution t and its proof partition p.  Up to the prompt's answer there is
\* neither proof nor artifact; where execute is tells whether the artifact was stored; past
\* the catch block only a rejected execution leaves a row running, and without an
\* execution only a coordinator that latched.
Sound(row, t, p, latched) ==
  /\ Told(row)
  /\ row.artifacts \in {0, 1}
  /\ p = "gone" \/ row.status = "succeeded" => row.artifacts = 1
  /\ row.status = "queued" =>
       t.pc \in {"none", "leaving"} /\ ~ t.rejected /\ p = "none" /\ row.artifacts = 0
  /\ t.pc \in {"prompt", "refused", "uncertain"} => p = "none" /\ row.artifacts = 0
  /\ t.pc \in {"snapshot", "finalSnapshot"} => p # "gone" /\ row.artifacts = 0
  /\ t.pc = "cleanup" => row.artifacts = 1
  /\ t.pc = "finalCleanup" => row.artifacts = 1 \/ p = "none"
  /\ row.status = "running" /\ t.pc \in {"finalSnapshot", "finalCleanup", "leaving"} => t.rejected
  /\ row.status = "running" /\ t.pc = "none" => latched

\* Rows and conversations: a session is named by its generation, a run that is in flight is
\* the last of its conversation, which is not blocked, and a session whose outcome is
\* unknown is not used again.
Sessions(convs, rows) ==
  /\ \A r \in 1 .. Len(rows) :
       LET c == rows[r].conversation IN
       /\ convs[c].recovery # "absent" /\ rows[r].generation <= convs[c].generation
       /\ rows[r].status \in {"queued", "running"} =>
            /\ convs[c].recovery = "active"
            /\ \A s \in 1 .. Len(rows) : s > r => rows[s].conversation # c
       /\ rows[r].status = "execution_unknown" =>
            convs[c].recovery = "blocked" \/ convs[c].generation > rows[r].generation
  /\ \A r, s \in 1 .. Len(rows) :
       /\ rows[r].status = "execution_unknown"
       /\ s > r /\ rows[s].conversation = rows[r].conversation
       => rows[s].generation > rows[r].generation

\* What waits is queued, once, and has no execution.
Lined(queue, rows, tasks) ==
  /\ queue \in Seq(1 .. Len(rows))
  /\ \A i \in 1 .. Len(queue) : rows[queue[i]].status = "queued" /\ tasks[queue[i]].pc = "none"
  /\ \A i, j \in 1 .. Len(queue) : queue[i] = queue[j] => i = j

\* Prompts are those of running rows, each of a conversation of its own, unless the runtime
\* was lost or is being shut down; then none is added.
Prompted(rows, tasks, unavailable) ==
  /\ \A r \in 1 .. Len(rows) : tasks[r].pc = "prompt" => rows[r].status = "running" \/ unavailable
  /\ \A r, s \in 1 .. Len(rows) :
       tasks[r].pc = "prompt" /\ tasks[s].pc = "prompt" /\ r # s
         => rows[r].conversation # rows[s].conversation

FlagsAgree ==
  /\ closed \/ closer # "idle" => admissionStopped
  /\ restarting => /\ transition \in {"restarting", "shut"}
                   /\ \A r \in 1 .. MaxRuns : ~ At(r, "prompt")

Task == [pc : Pc, latch : {"none", "callback", "raw"}, rejected : BOOLEAN]

Types ==
  /\ StoreTypeOK
  /\ task \in [1 .. MaxRuns -> Task]
  /\ admissionStopped \in BOOLEAN /\ closed \in BOOLEAN /\ runtimeUnavailable \in BOOLEAN
  /\ fatal \in BOOLEAN /\ lost \in BOOLEAN /\ restarting \in BOOLEAN
  /\ transition \in {"idle", "restarting", "shut"}
  /\ closer \in {"idle", "grace", "closing", "forcing", "forcingFatal"}
  /\ proof \in [1 .. MaxRuns -> {"none", "exact", "foreign", "gone"}]
  /\ faults \in 0 .. MaxFaults /\ reboots \in 0 .. MaxReboots

\* Every row is sound, and what is no row yet has nothing.
AllSound(rows, tasks, proofs, latched) ==
  /\ \A r \in 1 .. Len(rows) : Sound(rows[r], tasks[r], proofs[r], latched)
  /\ \A r \in 1 .. MaxRuns : r > Len(rows) => /\ tasks[r].pc = "none" /\ ~ tasks[r].rejected
                                             /\ proofs[r] = "none"

IInv ==
  /\ Types
  /\ AllSound(runs, task, proof, fatal)
  /\ Sessions(conversations, runs)
  /\ Lined(pending, runs, task)
  /\ Prompted(runs, task, runtimeUnavailable)
  /\ FlagsAgree
  /\ Cardinality(Active) <= Concurrency
  /\ QueueMoves

\* The invariant contains what the properties say.
LEMMA InvIsEnough ==
  IInv => /\ TypeOK /\ ConversationExclusive /\ TranscriptTellsRun /\ ProofSurvives
          /\ UnknownSessionRetired /\ NoRunIsForgotten
<1> SUFFICES ASSUME IInv
             PROVE  /\ TypeOK /\ ConversationExclusive /\ TranscriptTellsRun /\ ProofSurvives
                    /\ UnknownSessionRetired /\ NoRunIsForgotten
  OBVIOUS
<1>1. TypeOK
  BY DEF IInv, Types, Lined, Rows, TypeOK, Task
<1>2. ConversationExclusive
  BY DEF IInv, Prompted, ConversationExclusive, At, Rows
<1>3. ASSUME NEW r \in Rows
      PROVE  Sound(runs[r], task[r], proof[r], fatal) /\ runs[r] \in Row
  BY ElementOfSeq DEF IInv, AllSound, Rows, Types, StoreTypeOK
<1>4. ASSUME NEW row \in Row, Told(row)
      PROVE  LET last == row.agui[Len(row.agui)]
             IN IF row.status = "queued"
                THEN row.agui = << >>
                ELSE /\ row.agui # << >> /\ row.agui[1] = "RUN_STARTED"
                     /\ \A i \in 2 .. Len(row.agui) - 1 : row.agui[i] = "projected"
                     /\ (row.status = "succeeded") = (last = "RUN_FINISHED")
                     /\ (row.status \in {"failed", "execution_unknown"}) = (last = "RUN_ERROR")
  <2>1. row.agui \in Seq({"RUN_STARTED", "projected", "RUN_FINISHED", "RUN_ERROR"})
        /\ row.status \in Status
    BY DEF Row
  <2>2. Len(row.agui) \in Nat /\ (row.agui # << >> <=> Len(row.agui) # 0)
    BY <2>1, LenProperties, EmptySeq
  <2> DEFINE n == Len(row.agui)
             last == row.agui[n]
  <2>3. CASE row.status = "queued"
    BY <1>4, <2>3 DEF Told
  <2>4. CASE row.status = "running"
    <3>1. n >= 1 /\ row.agui[1] = "RUN_STARTED" /\ \A i \in 2 .. n : row.agui[i] = "projected"
      BY <1>4, <2>4 DEF Told
    <3>2. last \in {"RUN_STARTED", "projected"}
      BY <2>2, <3>1
    <3>3. \A i \in 2 .. n - 1 : i \in 2 .. n
      BY <2>2
    <3> QED
      BY <2>2, <2>4, <3>1, <3>2, <3>3
  <2>5. CASE row.status \notin {"queued", "running"}
    <3>1. /\ n >= 2 /\ row.agui[1] = "RUN_STARTED"
          /\ \A i \in 2 .. n :
               row.agui[i] = IF i < n THEN "projected"
                             ELSE IF row.status = "succeeded" THEN "RUN_FINISHED"
                             ELSE "RUN_ERROR"
      BY <1>4, <2>5 DEF Told
    <3>2. last = IF row.status = "succeeded" THEN "RUN_FINISHED" ELSE "RUN_ERROR"
      BY <2>2, <3>1
    <3>3. \A i \in 2 .. n - 1 : i \in 2 .. n /\ i < n
      BY <2>2
    <3> QED
      BY <2>1, <2>2, <2>5, <3>1, <3>2, <3>3 DEF Status
  <2> QED
    BY <2>3, <2>4, <2>5
<1>5. TranscriptTellsRun
  BY <1>3, <1>4 DEF TranscriptTellsRun, Sound
<1>6. ProofSurvives
  BY <1>3 DEF ProofSurvives, Sound
<1>7. UnknownSessionRetired
  BY DEF IInv, Sessions, UnknownSessionRetired, RowsIn, Rows
<1>8. RunningRowHasExecution
  BY <1>3 DEF RunningRowHasExecution, Sound, Running
<1> QED
  BY <1>1, <1>2, <1>5, <1>6, <1>7, <1>8 DEF NoRunIsForgotten, IInv

\* A process starts with no rows, nothing in its queue and no execution.
LEMMA InitInv == Init => IInv
<1> SUFFICES ASSUME Init PROVE IInv
  OBVIOUS
<1>1. runs = << >> /\ runs \in Seq(Row) /\ Len(runs) = 0 /\ pending = << >>
      /\ pending \in Seq(1 .. 0) /\ Len(pending) = 0
  BY EmptySeq DEF Init, StoreInit
<1>2. NoTask \in Task /\ NoTask.pc = "none" /\ ~ NoTask.rejected
  BY DEF NoTask, Task, Pc
<1>3. Types
  <2>1. StoreTypeOK
    BY <1>1, AguiConstants DEF Init, StoreInit, StoreTypeOK
  <2>2. task \in [1 .. MaxRuns -> Task]
    BY <1>2 DEF Init
  <2>3. faults \in 0 .. MaxFaults /\ reboots \in 0 .. MaxReboots
    BY CoordinatorConstants DEF Init
  <2> QED
    BY <2>1, <2>2, <2>3 DEF Init, Types
<1>4. Active = {}
  BY <1>2 DEF Init, Active
<1>5. Cardinality(Active) <= Concurrency
  BY <1>4, FS_EmptySet, CoordinatorConstants
<1>6. AllSound(runs, task, proof, fatal)
  BY <1>1, <1>2 DEF Init, AllSound
<1> QED
  BY <1>1, <1>3, <1>5, <1>6 DEF Init, IInv, Sessions, Lined, Prompted, FlagsAgree,
     QueueMoves, RowsIn, Rows

------------------------------------------------------------------------------
(***************************************************************************)
(* Rows                                                                    *)
(***************************************************************************)

\* A function on the numbers of the rows is a table of as many rows.
LEMMA TableOf ==
  ASSUME NEW n \in Nat, NEW S, NEW f \in [1 .. n -> S]
  PROVE  f \in Seq(S) /\ Len(f) = n
<1>1. f \in Seq(S)
  BY SeqDef
<1>2. Len(f) \in Nat /\ 1 .. Len(f) = 1 .. n
  BY <1>1, LenProperties
<1> QED
  BY <1>1, <1>2

Type == {"RUN_STARTED", "projected", "RUN_FINISHED", "RUN_ERROR"}

\* A row keeps its conversation and its session, and its artifacts unless they are saved.
SameRun(row, new) ==
  /\ new.conversation = row.conversation /\ new.generation = row.generation
  /\ new.artifacts = row.artifacts

\* What insertEvent does together with a change of the status.
LEMMA LoggedRow ==
  ASSUME NEW row \in Row, NEW status \in Status, NEW type \in Type
  PROVE  LET new == Logged([row EXCEPT !.status = status], type) IN
         /\ new \in Row /\ SameRun(row, new) /\ new.status = status
         /\ Len(new.agui) = Len(row.agui) + 1 /\ Len(row.agui) \in Nat
         /\ \A i \in 1 .. Len(new.agui) :
              new.agui[i] = IF i = Len(new.agui) THEN type ELSE row.agui[i]
<1> DEFINE base == [row EXCEPT !.status = status]
           new == Logged(base, type)
<1>1. row.agui \in Seq(Type)
  BY DEF Row, Type
<1>2. base \in Row /\ base.agui = row.agui /\ base.status = status /\ SameRun(row, base)
  BY DEF Row, SameRun
<1> HIDE DEF base
<1>3. /\ Append(row.agui, type) \in Seq(Type)
      /\ Len(Append(row.agui, type)) = Len(row.agui) + 1 /\ Len(row.agui) \in Nat
      /\ \A i \in 1 .. Len(row.agui) + 1 :
           Append(row.agui, type)[i] = IF i = Len(row.agui) + 1 THEN type ELSE row.agui[i]
  BY <1>1, AppendProperties, LenProperties
<1>4. /\ new \in Row /\ new.agui = Append(row.agui, type) /\ new.status = base.status
      /\ SameRun(base, new)
  BY <1>2, <1>3 DEF Logged, Row, Type, SameRun
<1> HIDE DEF new
<1>5. /\ new \in Row /\ SameRun(row, new) /\ new.status = status
      /\ Len(new.agui) = Len(row.agui) + 1 /\ Len(row.agui) \in Nat
      /\ \A i \in 1 .. Len(new.agui) :
           new.agui[i] = IF i = Len(new.agui) THEN type ELSE row.agui[i]
  BY <1>2, <1>3, <1>4 DEF SameRun
<1> QED
  BY <1>5 DEF new, base

\* The channel keeps telling the run when it starts, when the agent says something, and when
\* it ends.
LEMMA ToldOn ==
  ASSUME NEW row \in Row, Told(row), NEW status \in Status, NEW type \in Type,
         \/ row.status = "queued" /\ status = "running" /\ type = "RUN_STARTED"
         \/ row.status = "running" /\ status = "running" /\ type = "projected"
         \/ row.status = "running" /\ status = "succeeded" /\ type = "RUN_FINISHED"
         \/ row.status = "running" /\ status \in {"failed", "execution_unknown"}
                                   /\ type = "RUN_ERROR"
  PROVE  Told(Logged([row EXCEPT !.status = status], type))
<1> DEFINE new == Logged([row EXCEPT !.status = status], type)
           n == Len(row.agui)
<1>1. /\ new.status = status /\ Len(new.agui) = n + 1 /\ n \in Nat
      /\ \A i \in 1 .. n + 1 : new.agui[i] = IF i = n + 1 THEN type ELSE row.agui[i]
  BY LoggedRow
<1> HIDE DEF new
<1>2. CASE row.status = "queued"
  <2>1. n = 0
    BY <1>2 DEF Told
  <2>2. Told(new)
    BY <1>1, <1>2, <2>1 DEF Told
  <2> QED
    BY <2>2 DEF new
<1>3. CASE row.status = "running"
  <2>1. n >= 1 /\ row.agui[1] = "RUN_STARTED" /\ \A i \in 2 .. n : row.agui[i] = "projected"
    BY <1>3 DEF Told
  <2>2. ASSUME NEW i \in 2 .. n + 1
        PROVE  new.agui[i] = IF i < n + 1 THEN "projected" ELSE type
    BY <1>1, <2>1
  <2>3. new.agui[1] = "RUN_STARTED" /\ n + 1 >= 2
    BY <1>1, <2>1
  <2>4. Told(new)
    BY <1>1, <1>3, <2>2, <2>3 DEF Told
  <2> QED
    BY <2>4 DEF new
<1> QED
  BY <1>2, <1>3

\* startRun begins the channel of a queued row.
LEMMA StartedTold ==
  ASSUME NEW row \in Row, Told(row), row.status = "queued"
  PROVE  LET new == StartedRow(row) IN
         new \in Row /\ Told(new) /\ SameRun(row, new) /\ new.status = "running"
BY ZenonT(40), LoggedRow, ToldOn DEF StartedRow, Status, Type

\* A notification adds to the channel of a running row.
LEMMA ProjectedTold ==
  ASSUME NEW row \in Row, Told(row), row.status = "running"
  PROVE  LET new == Logged(row, "projected") IN
         new \in Row /\ Told(new) /\ SameRun(row, new) /\ new.status = "running"
<1> DEFINE base == [row EXCEPT !.status = "running"]
<1>1. row = base
  BY DEF Row
<1>2. LET new == Logged(base, "projected") IN
      new \in Row /\ Told(new) /\ SameRun(row, new) /\ new.status = "running"
  BY LoggedRow, ToldOn DEF Status, Type
<1> HIDE DEF base
<1> QED
  BY <1>1, <1>2

\* finishRun leaves a run that has been settled meanwhile alone.
LEMMA FinishedTold ==
  ASSUME NEW row \in Row, Told(row), NEW status \in {"succeeded", "failed"}
  PROVE  LET new == FinishedRow(row, status) IN
         /\ new \in Row /\ Told(new) /\ SameRun(row, new)
         /\ new.status = IF row.status = "running" THEN status ELSE row.status
<1>1. CASE row.status = "running"
  <2> DEFINE type == IF status = "succeeded" THEN "RUN_FINISHED" ELSE "RUN_ERROR"
  <2>1. type \in Type /\ status \in Status
    BY DEF Type, Status
  <2>2. FinishedRow(row, status) = Logged([row EXCEPT !.status = status], type)
    BY <1>1 DEF FinishedRow
  <2>3. Told(Logged([row EXCEPT !.status = status], type))
    BY <1>1, <2>1, ToldOn
  <2> QED
    BY <1>1, <2>1, <2>2, <2>3, LoggedRow
<1>2. CASE row.status # "running"
  BY <1>2 DEF FinishedRow, SameRun
<1> QED
  BY <1>1, <1>2

\* markExecutionUnknown ends the channel of a running row with RUN_ERROR.
LEMMA UnknownTold ==
  ASSUME NEW row \in Row, Told(row), row.status = "running"
  PROVE  LET new == UnknownRow(row) IN
         new \in Row /\ Told(new) /\ SameRun(row, new) /\ new.status = "execution_unknown"
BY LoggedRow, ToldOn DEF UnknownRow, Status, Type

------------------------------------------------------------------------------
(***************************************************************************)
(* Steps that settle runs                                                  *)
(***************************************************************************)

InFlightStatus == {"queued", "running"}

\* A table in which the runs of U have become unknown, and other runs have ended or stay.
Settles(U, rows) ==
  /\ rows \in Seq(Row) /\ Len(rows) = Len(runs)
  /\ \A r \in Rows :
       /\ rows[r].conversation = runs[r].conversation
       /\ rows[r].generation = runs[r].generation
       /\ IF r \in U THEN runs[r].status = "running" /\ rows[r].status = "execution_unknown"
          ELSE \/ rows[r].status = runs[r].status
               \/ runs[r].status = "running" /\ rows[r].status \in {"succeeded", "failed"}

\* Blocking conversations changes their recovery and nothing else.
LEMMA BlockedTypes ==
  ASSUME StoreTypeOK, NEW U \in SUBSET Rows
  PROVE  /\ Blocked(U) \in [Conversation -> [recovery : {"absent", "active", "blocked"},
                                             generation : Nat]]
         /\ \A c \in Conversation :
              /\ Blocked(U)[c].generation = conversations[c].generation
              /\ Blocked(U)[c].recovery = IF \E r \in U : runs[r].conversation = c
                                          THEN "blocked" ELSE conversations[c].recovery
         /\ Blocked({}) = conversations
<1>1. ASSUME NEW V, NEW c \in Conversation
      PROVE  /\ Blocked(V)[c] \in [recovery : {"absent", "active", "blocked"}, generation : Nat]
             /\ Blocked(V)[c].generation = conversations[c].generation
             /\ Blocked(V)[c].recovery = IF \E r \in V : runs[r].conversation = c
                                         THEN "blocked" ELSE conversations[c].recovery
             /\ ~ (\E r \in V : runs[r].conversation = c) => Blocked(V)[c] = conversations[c]
  BY DEF StoreTypeOK, Blocked
<1>2. \A V : Blocked(V) = [c \in Conversation |-> Blocked(V)[c]]
  BY DEF Blocked
<1>3. Blocked({}) = conversations
  BY <1>1, <1>2 DEF StoreTypeOK
<1> QED
  BY <1>1, <1>2, <1>3

\* Rows that settle, with the conversations of the unknown ones blocked, leave every session whose outcome
\* is unknown retired.
LEMMA SessionsSettle ==
  ASSUME StoreTypeOK, Sessions(conversations, runs),
         NEW U \in SUBSET Rows, NEW rows, Settles(U, rows)
  PROVE  Sessions(Blocked(U), rows)
<1> DEFINE convs == Blocked(U)
<1>1. \A c \in Conversation :
        /\ convs[c].generation = conversations[c].generation
        /\ convs[c].recovery = IF \E r \in U : runs[r].conversation = c
                               THEN "blocked" ELSE conversations[c].recovery
  BY BlockedTypes
<1> HIDE DEF convs
<1>2. /\ Len(runs) \in Nat /\ Len(rows) = Len(runs)
      /\ \A r \in 1 .. Len(runs) :
           /\ runs[r].conversation \in Conversation /\ runs[r].status \in Status
           /\ rows[r].conversation = runs[r].conversation
           /\ rows[r].generation = runs[r].generation
           /\ r \in U => runs[r].status = "running" /\ rows[r].status = "execution_unknown"
           /\ rows[r].status \in InFlightStatus
                => r \notin U /\ runs[r].status \in InFlightStatus
           /\ rows[r].status = "execution_unknown"
                => r \in U \/ runs[r].status = "execution_unknown"
  <2>1. Len(runs) \in Nat /\ Len(rows) = Len(runs) /\ Rows = 1 .. Len(runs)
    BY LenProperties DEF StoreTypeOK, Settles, Rows
  <2>2. ASSUME NEW r \in 1 .. Len(runs)
        PROVE  runs[r].conversation \in Conversation /\ runs[r].status \in Status
    <3>1. runs[r] \in Row
      BY ElementOfSeq DEF StoreTypeOK
    <3> QED
      BY <3>1 DEF Row
  <2> QED
    BY <2>1, <2>2 DEF Settles, InFlightStatus
<1>3. \A r, s \in 1 .. Len(runs) :
        /\ runs[r].status \in InFlightStatus /\ runs[s].status \in InFlightStatus
        /\ runs[r].conversation = runs[s].conversation
        => r = s
  <2>1. ASSUME NEW r \in 1 .. Len(runs), NEW s \in 1 .. Len(runs), s > r,
               runs[r].status \in InFlightStatus
        PROVE  runs[s].conversation # runs[r].conversation
    BY <2>1 DEF Sessions, InFlightStatus
  <2>2. \A r, s \in 1 .. Len(runs) : r = s \/ s > r \/ r > s
    BY <1>2
  <2> QED
    BY <2>1, <2>2
<1>4. ASSUME NEW r \in 1 .. Len(rows)
      PROVE  LET c == rows[r].conversation IN
             /\ convs[c].recovery # "absent" /\ rows[r].generation <= convs[c].generation
             /\ rows[r].status \in {"queued", "running"} =>
                  /\ convs[c].recovery = "active"
                  /\ \A s \in 1 .. Len(rows) : s > r => rows[s].conversation # c
             /\ rows[r].status = "execution_unknown" =>
                  convs[c].recovery = "blocked" \/ convs[c].generation > rows[r].generation
  <2> DEFINE c == rows[r].conversation
  <2>1. c = runs[r].conversation /\ c \in Conversation /\ r \in 1 .. Len(runs)
    BY <1>2
  <2>2. convs[c].recovery # "absent" /\ rows[r].generation <= convs[c].generation
    BY <1>1, <1>2, <2>1 DEF Sessions
  <2>3. ASSUME rows[r].status \in {"queued", "running"}
        PROVE  /\ convs[c].recovery = "active"
               /\ \A s \in 1 .. Len(rows) : s > r => rows[s].conversation # c
    <3>1. r \notin U /\ runs[r].status \in InFlightStatus
      BY <1>2, <2>1, <2>3 DEF InFlightStatus
    <3>2. \A q \in U : runs[q].conversation # c
      BY <1>2, <1>3, <2>1, <3>1 DEF Rows, InFlightStatus
    <3> QED
      BY <1>1, <1>2, <2>1, <3>1, <3>2 DEF Sessions, InFlightStatus
  <2>4. ASSUME rows[r].status = "execution_unknown"
        PROVE  convs[c].recovery = "blocked" \/ convs[c].generation > rows[r].generation
    BY <1>1, <1>2, <2>1, <2>4 DEF Sessions
  <2> QED
    BY <2>2, <2>3, <2>4
<1>5. ASSUME NEW r \in 1 .. Len(rows), NEW s \in 1 .. Len(rows),
             rows[r].status = "execution_unknown",
             s > r, rows[s].conversation = rows[r].conversation
      PROVE  rows[s].generation > rows[r].generation
  <2>1. CASE r \in U
    BY <1>2, <1>5, <2>1 DEF Sessions
  <2>2. CASE r \notin U
    BY <1>2, <1>5, <2>2 DEF Sessions
  <2> QED
    BY <2>1, <2>2
<1>6. Sessions(convs, rows)
  BY <1>4, <1>5 DEF Sessions
<1> QED
  BY <1>6 DEF convs

\* Executions move on, and none of them begins or asks the agent anew; one may end if the
\* coordinator is latched.
MovesOn(tasks) ==
  /\ tasks \in [1 .. MaxRuns -> Task]
  /\ \A r \in 1 .. MaxRuns :
       /\ task[r].pc = "none" => tasks[r] = task[r]
       /\ tasks[r].pc = "none" => task[r].pc = "none" \/ runtimeUnavailable'
       /\ tasks[r].pc = "prompt" => task[r].pc = "prompt"

FlagTypes ==
  /\ admissionStopped \in BOOLEAN /\ closed \in BOOLEAN /\ runtimeUnavailable \in BOOLEAN
  /\ fatal \in BOOLEAN /\ lost \in BOOLEAN /\ restarting \in BOOLEAN
  /\ transition \in {"idle", "restarting", "shut"}
  /\ closer \in {"idle", "grace", "closing", "forcing", "forcingFatal"}

\* Latches stay, and those of the next state agree.
FlagsGrow ==
  /\ FlagTypes' /\ FlagsAgree'
  /\ runtimeUnavailable => runtimeUnavailable'
  /\ admissionStopped => admissionStopped'
  /\ fatal => fatal'

\* Executions can be counted.
LEMMA ActiveIsFinite ==
  IsFiniteSet(1 .. MaxRuns) /\ IsFiniteSet(Active) /\ IsFiniteSet(Active')
<1>1. 1 \in Int /\ MaxRuns \in Int
  BY AguiConstants
<1>2. IsFiniteSet(1 .. MaxRuns)
  BY <1>1, FS_Interval
<1>3. Active \subseteq 1 .. MaxRuns /\ Active' \subseteq 1 .. MaxRuns
  BY DEF Active
<1> QED
  BY <1>2, <1>3, FS_Subset

\* What the steps that settle rows have in common: some become unknown, others end or stay, as do their
\* executions; the queue stays, and no prompt is added.
LEMMA SettlingKeepsInv ==
  ASSUME IInv, NEW U \in SUBSET Rows,
         Settles(U, runs'), conversations' = Blocked(U), MovesOn(task'),
         proof' \in [1 .. MaxRuns -> {"none", "exact", "foreign", "gone"}],
         \A r \in Rows : Sound(runs'[r], task'[r], proof'[r], fatal'),
         \A r \in 1 .. MaxRuns : r \notin Rows => proof'[r] = proof[r],
         \A r \in Rows : /\ task'[r].pc = "prompt" /\ runs[r].status = "running"
                         /\ runs'[r].status # "running"
                         => runtimeUnavailable',
         FlagsGrow, UNCHANGED <<pending, reboots>>,
         faults' \in 0 .. MaxFaults, faults <= faults'
  PROVE  IInv'
<1>1. /\ StoreTypeOK /\ Sessions(conversations, runs) /\ Len(runs) \in Nat /\ Len(runs) <= MaxRuns
      /\ Len(runs') = Len(runs) /\ faults \in Nat /\ MaxRuns \in Nat
  BY LenProperties, AguiConstants DEF IInv, Types, StoreTypeOK, Settles
<1>2. Types'
  BY <1>1, BlockedTypes DEF IInv, Types, StoreTypeOK, Settles, MovesOn, FlagsGrow, FlagTypes
<1>3. AllSound(runs', task', proof', fatal')
  BY <1>1 DEF IInv, AllSound, Rows, MovesOn
<1>4. Sessions(conversations', runs')
  BY <1>1, SessionsSettle
<1>5. Lined(pending', runs', task')
  <2>1. /\ pending \in Seq(1 .. Len(runs)) /\ Len(pending) \in Nat
        /\ \A i \in 1 .. Len(pending) : /\ pending[i] \in Rows /\ pending[i] \in 1 .. MaxRuns
                                        /\ runs[pending[i]].status = "queued"
                                        /\ task[pending[i]].pc = "none"
    BY <1>1, ElementOfSeq, LenProperties DEF IInv, Lined, Rows
  <2>2. \A i \in 1 .. Len(pending) : runs'[pending[i]].status = "queued"
    BY <2>1 DEF Settles
  <2> QED
    BY SMTT(20), <1>1, <2>1, <2>2 DEF IInv, Lined, MovesOn
<1>6. Prompted(runs', task', runtimeUnavailable')
  <2>1. ASSUME NEW r \in 1 .. Len(runs), task'[r].pc = "prompt"
        PROVE  /\ task[r].pc = "prompt" /\ runs'[r].conversation = runs[r].conversation
               /\ runs'[r].status = "running" \/ runtimeUnavailable'
    <3>1. r \in Rows /\ r \in 1 .. MaxRuns
      BY <1>1 DEF Rows
    <3>2. task[r].pc = "prompt" /\ runs'[r].conversation = runs[r].conversation
      BY <2>1, <3>1 DEF MovesOn, Settles
    <3>3. runs[r].status = "running" \/ runtimeUnavailable
      BY <3>1, <3>2 DEF IInv, Prompted, Rows
    <3> QED
      BY <2>1, <3>1, <3>2, <3>3 DEF FlagsGrow
  <2> QED
    BY <1>1, <2>1 DEF IInv, Prompted
<1>7. Active' \subseteq Active /\ IsFiniteSet(Active) /\ (Active' = Active \/ runtimeUnavailable')
  <2>1. IsFiniteSet(Active)
    BY ActiveIsFinite
  <2> QED
    BY <2>1 DEF Active, MovesOn
<1>8. Cardinality(Active') <= Concurrency
  BY <1>7, FS_Subset, FS_CardinalityType, CoordinatorConstants DEF IInv
<1>9. QueueMoves'
  <2>1. ASSUME faults' = 0, NEW r \in RowsIn("queued")'
        PROVE  \E i \in DOMAIN pending' : pending'[i] = r
    <3>1. r \in Rows /\ runs'[r].status = "queued"
      BY <1>1, <2>1 DEF RowsIn, Rows
    <3>2. runs[r].status = "queued"
      BY <3>1 DEF Settles
    <3>3. faults = 0
      BY <1>1, <2>1
    <3> QED
      BY <3>1, <3>2, <3>3 DEF IInv, QueueMoves, RowsIn
  <2>2. pending' # << >> =>
          \/ Cardinality(Active') = Concurrency
          \/ runtimeUnavailable' \/ admissionStopped' \/ fatal'
    BY <1>7 DEF IInv, QueueMoves, FlagsGrow
  <2> QED
    BY <2>1, <2>2 DEF QueueMoves
<1> QED
  BY <1>2, <1>3, <1>4, <1>5, <1>6, <1>8, <1>9 DEF IInv, FlagsGrow

\* A latch only weakens what is asked of a row, and a running row that becomes unknown is
\* sound where it was.
LEMMA SoundLatched ==
  ASSUME NEW row, NEW t, NEW p, NEW latched \in BOOLEAN, NEW latched2 \in BOOLEAN,
         latched => latched2, Sound(row, t, p, latched)
  PROVE  Sound(row, t, p, latched2)
BY DEF Sound

\* A running row that becomes unknown stays sound where its execution is.
LEMMA SoundUnknown ==
  ASSUME NEW row \in Row, NEW t \in Task, NEW p, NEW latched, row.status = "running",
         Sound(row, t, p, latched)
  PROVE  Sound(UnknownRow(row), t, p, latched)
<1> DEFINE new == UnknownRow(row)
<1>1. Told(new) /\ new.status = "execution_unknown" /\ new.artifacts = row.artifacts
  BY UnknownTold DEF Sound, SameRun
<1> HIDE DEF new
<1>2. Sound(new, t, p, latched)
  BY <1>1 DEF Sound
<1> QED
  BY <1>2 DEF new

Partition == {"none", "exact", "foreign", "gone"}

\* What the invariant says of a run that is being executed, and of any row.
LEMMA RunFacts ==
  ASSUME IInv, NEW r \in 1 .. MaxRuns, r \in Rows \/ task[r].pc # "none"
  PROVE  /\ r \in Rows /\ runs[r] \in Row /\ task[r] \in Task /\ proof[r] \in Partition
         /\ Sound(runs[r], task[r], proof[r], fatal) /\ Told(runs[r])
         /\ task = [task EXCEPT ![r] = task[r]] /\ proof = [proof EXCEPT ![r] = proof[r]]
<1>1. /\ runs \in Seq(Row) /\ Len(runs) \in Nat /\ MaxRuns \in Nat
      /\ task \in [1 .. MaxRuns -> Task] /\ proof \in [1 .. MaxRuns -> Partition]
  BY LenProperties, AguiConstants DEF IInv, Types, StoreTypeOK, Partition
<1>2. r \in Rows
  BY <1>1 DEF IInv, AllSound, Rows
<1>3. runs[r] \in Row
  BY <1>1, <1>2, ElementOfSeq DEF Rows
<1>4. Sound(runs[r], task[r], proof[r], fatal)
  BY <1>2 DEF IInv, AllSound, Rows
<1> QED
  BY <1>1, <1>2, <1>3, <1>4 DEF Sound

\* Rows have the numbers of runs.
LEMMA RowsAreRuns ==
  ASSUME IInv
  PROVE  Rows \subseteq 1 .. MaxRuns
BY LenProperties, AguiConstants DEF IInv, Types, StoreTypeOK, Rows

\* The flags a step may raise while executions move on.
LEMMA FlagsKept ==
  ASSUME IInv, MovesOn(task'), UNCHANGED <<admissionStopped, closed, restarting>>,
         runtimeUnavailable' \in {runtimeUnavailable, TRUE}, fatal' \in {fatal, TRUE},
         lost' \in {lost, TRUE}, transition' \in {transition, "shut"},
         closer' = closer \/ (closer # "idle" /\ closer' \in {"forcing", "forcingFatal"})
  PROVE  FlagsGrow
<1>1. FlagTypes' /\ fatal \in BOOLEAN /\ runtimeUnavailable \in BOOLEAN
  BY ZenonT(40) DEF IInv, Types, FlagTypes
<1>2. FlagsAgree'
  <2>1. closed' \/ closer' # "idle" => admissionStopped'
    BY DEF IInv, FlagsAgree
  <2>2. restarting' => /\ transition' \in {"restarting", "shut"}
                       /\ \A r \in 1 .. MaxRuns : ~ At(r, "prompt")'
    BY DEF IInv, FlagsAgree, MovesOn, At
  <2> QED
    BY <2>1, <2>2 DEF FlagsAgree
<1> QED
  BY <1>1, <1>2 DEF FlagsGrow

\* The table after a statement on one row.
RowBecomes(r, w, rows) ==
  /\ rows \in Seq(Row) /\ Len(rows) = Len(runs)
  /\ rows[r] = w
  /\ \A q \in Rows \ {r} : rows[q] = runs[q]

\* A table in which one row is replaced differs in that row only.
LEMMA OneRow ==
  ASSUME StoreTypeOK, NEW r \in Rows, NEW w \in Row
  PROVE  RowBecomes(r, w, [runs EXCEPT ![r] = w]) /\ RowBecomes(r, runs[r], runs)
<1>1. runs \in Seq(Row) /\ r \in 1 .. Len(runs)
  BY DEF StoreTypeOK, Rows
<1>2. /\ [runs EXCEPT ![r] = w] \in Seq(Row) /\ Len([runs EXCEPT ![r] = w]) = Len(runs)
      /\ \A q \in 1 .. Len(runs) :
           [runs EXCEPT ![r] = w][q] = IF q = r THEN w ELSE runs[q]
  BY <1>1, ExceptSeq
<1> QED
  BY <1>1, <1>2 DEF RowBecomes, Rows

\* markExecutionUnknown for several running rows settles each of them.
LEMMA UnknownTable ==
  ASSUME IInv, NEW U \in SUBSET Rows, \A r \in U : runs[r].status = "running"
  PROVE  /\ Settles(U, Unknown(runs, U))
         /\ \A r \in Rows : Unknown(runs, U)[r] = IF r \in U THEN UnknownRow(runs[r]) ELSE runs[r]
<1> DEFINE rows == Unknown(runs, U)
<1>1. runs \in Seq(Row) /\ Len(runs) \in Nat /\ DOMAIN runs = Rows /\ Rows = 1 .. Len(runs)
  BY LenProperties DEF IInv, Types, StoreTypeOK, Rows
<1>2. rows = [r \in 1 .. Len(runs) |-> IF r \in U THEN UnknownRow(runs[r]) ELSE runs[r]]
  BY <1>1 DEF Unknown
<1>3. ASSUME NEW r \in Rows
      PROVE  /\ runs[r] \in Row
             /\ r \in U => /\ UnknownRow(runs[r]) \in Row /\ SameRun(runs[r], UnknownRow(runs[r]))
                           /\ UnknownRow(runs[r]).status = "execution_unknown"
  BY RowsAreRuns, RunFacts, UnknownTold
<1>4. rows \in [1 .. Len(runs) -> Row]
  BY <1>1, <1>2, <1>3
<1>5. rows \in Seq(Row) /\ Len(rows) = Len(runs)
  BY <1>1, <1>4, TableOf
<1>6. \A r \in Rows : rows[r] = IF r \in U THEN UnknownRow(runs[r]) ELSE runs[r]
  BY <1>1, <1>2
<1> HIDE DEF rows
<1>7. Settles(U, rows)
  BY <1>3, <1>5, <1>6 DEF Settles, SameRun
<1> QED
  BY <1>6, <1>7 DEF rows

\* Moving one execution leaves the others where they are.
LEMMA Moves ==
  ASSUME IInv, NEW r \in 1 .. MaxRuns, NEW t \in Task, task' = [task EXCEPT ![r] = t],
         task[r].pc # "none", t.pc = "none" => runtimeUnavailable',
         t.pc = "prompt" => task[r].pc = "prompt"
  PROVE  MovesOn(task')
BY DEF IInv, Types, MovesOn

\* A write succeeds or takes one of the faults that are left.
LEMMA Bounds ==
  ASSUME IInv, Works \/ Raises
  PROVE  faults' \in 0 .. MaxFaults /\ faults <= faults' /\ reboots' = reboots
BY CoordinatorConstants DEF IInv, Types, Works, Raises, bounds

\* One execution goes on; its row may change, and end, with it.
LEMMA OneSettles ==
  ASSUME IInv, NEW r \in 1 .. MaxRuns, task[r].pc # "none",
         NEW w, NEW t \in Task, NEW p \in Partition,
         RowBecomes(r, w, runs'), task' = [task EXCEPT ![r] = t],
         proof' = [proof EXCEPT ![r] = p], t.pc # "none",
         t.pc = "prompt" => task[r].pc = "prompt" /\ w.status = runs[r].status,
         w.conversation = runs[r].conversation, w.generation = runs[r].generation,
         \/ w.status = runs[r].status
         \/ runs[r].status = "running" /\ w.status \in {"succeeded", "failed"},
         Sound(w, t, p, fatal'), fatal' \in {fatal, TRUE}, Works \/ Raises,
         UNCHANGED <<conversations, pending, admissionStopped, closed, runtimeUnavailable,
                     transition, lost, restarting, closer>>
  PROVE  IInv'
<1>1. MovesOn(task')
  BY Moves
<1>2. FlagsGrow
  BY <1>1, FlagsKept
<1>3. r \in Rows /\ task \in [1 .. MaxRuns -> Task] /\ proof \in [1 .. MaxRuns -> Partition]
      /\ Rows \subseteq 1 .. MaxRuns /\ fatal \in BOOLEAN /\ fatal' \in BOOLEAN /\ StoreTypeOK
  BY RunFacts, RowsAreRuns DEF IInv, Types, Partition
<1>4. Settles({}, runs')
  BY <1>3 DEF Settles, RowBecomes
<1>5. conversations' = Blocked({})
  BY <1>3, BlockedTypes
<1>6. /\ proof' \in [1 .. MaxRuns -> Partition] /\ proof'[r] = p /\ task'[r] = t
      /\ \A q \in 1 .. MaxRuns : q # r => proof'[q] = proof[q]
      /\ \A q \in 1 .. MaxRuns : q # r => task'[q] = task[q]
  BY <1>3
<1>7. ASSUME NEW q \in Rows PROVE Sound(runs'[q], task'[q], proof'[q], fatal')
  <2>1. CASE q = r
    <3>1. runs'[q] = w /\ task'[q] = t /\ proof'[q] = p
      BY <1>3, <1>6, <2>1 DEF RowBecomes
    <3> QED
      BY <3>1
  <2>2. CASE q # r
    <3>1. Sound(runs[q], task[q], proof[q], fatal)
      BY <1>3, RunFacts
    <3>2. Sound(runs[q], task[q], proof[q], fatal')
      BY <1>3, <3>1, SoundLatched
    <3> QED
      BY <1>3, <1>6, <2>2, <3>2 DEF RowBecomes
  <2> QED
    BY <2>1, <2>2
<1>8. ASSUME NEW q \in Rows, task'[q].pc = "prompt", runs[q].status = "running",
             runs'[q].status # "running"
      PROVE  runtimeUnavailable'
  BY <1>3, <1>6, <1>8 DEF RowBecomes
<1>9. faults' \in 0 .. MaxFaults /\ faults <= faults' /\ reboots' = reboots
  BY Bounds
<1>10. \A q \in 1 .. MaxRuns : q \notin Rows => proof'[q] = proof[q]
  BY <1>3, <1>6
<1> QED
  BY <1>1, <1>2, <1>3, <1>4, <1>5, <1>6, <1>7, <1>8, <1>9, <1>10, SettlingKeepsInv DEF Partition

\* The runs of U become unknown while one execution goes on, or ends under the latch.
LEMMA UnknownSettles ==
  ASSUME IInv, NEW r \in 1 .. MaxRuns, task[r].pc # "none", NEW t \in Task, NEW p \in Partition,
         NEW U \in SUBSET Rows, \A q \in U : runs[q].status = "running",
         runs' = Unknown(runs, U), conversations' = Blocked(U),
         task' = [task EXCEPT ![r] = t], proof' = [proof EXCEPT ![r] = p],
         Sound(IF r \in U THEN UnknownRow(runs[r]) ELSE runs[r], t, p, fatal'),
         t.pc = "none" => runtimeUnavailable', t.pc = "prompt" => task[r].pc = "prompt",
         runtimeUnavailable' \/ (U = {r} /\ t.pc # "prompt"),
         fatal' \in {fatal, TRUE}, FlagsGrow, UNCHANGED <<pending, reboots>>,
         faults' \in 0 .. MaxFaults, faults <= faults'
  PROVE  IInv'
<1>1. MovesOn(task')
  BY Moves
<1>2. r \in Rows /\ task \in [1 .. MaxRuns -> Task] /\ proof \in [1 .. MaxRuns -> Partition]
      /\ Rows \subseteq 1 .. MaxRuns /\ fatal \in BOOLEAN /\ fatal' \in BOOLEAN
  BY RunFacts, RowsAreRuns DEF IInv, Types, Partition
<1>3. /\ Settles(U, runs')
      /\ \A q \in Rows : runs'[q] = IF q \in U THEN UnknownRow(runs[q]) ELSE runs[q]
  BY UnknownTable
<1>4. /\ proof' \in [1 .. MaxRuns -> Partition] /\ proof'[r] = p /\ task'[r] = t
      /\ \A q \in 1 .. MaxRuns : q # r => proof'[q] = proof[q]
      /\ \A q \in 1 .. MaxRuns : q # r => task'[q] = task[q]
  BY <1>2
<1>5. ASSUME NEW q \in Rows PROVE Sound(runs'[q], task'[q], proof'[q], fatal')
  <2>1. CASE q = r
    <3>1. /\ runs'[q] = IF r \in U THEN UnknownRow(runs[r]) ELSE runs[r]
          /\ task'[q] = t /\ proof'[q] = p
      BY <1>2, <1>3, <1>4, <2>1
    <3> QED
      BY <3>1
  <2>2. CASE q # r
    <3>1. Sound(runs[q], task[q], proof[q], fatal) /\ runs[q] \in Row /\ task[q] \in Task
      BY <1>2, RunFacts
    <3>2. Sound(runs[q], task[q], proof[q], fatal')
      BY <1>2, <3>1, SoundLatched
    <3>3. q \in U => Sound(UnknownRow(runs[q]), task[q], proof[q], fatal')
      BY <3>1, <3>2, SoundUnknown
    <3>4. task'[q] = task[q] /\ proof'[q] = proof[q]
      BY <1>2, <1>4, <2>2
    <3> QED
      BY <1>3, <3>2, <3>3, <3>4
  <2> QED
    BY <2>1, <2>2
<1>6. ASSUME NEW q \in Rows, task'[q].pc = "prompt", runs[q].status = "running",
             runs'[q].status # "running"
      PROVE  runtimeUnavailable'
  <2>1. q \in U /\ runtimeUnavailable' \in BOOLEAN
    BY <1>3, <1>6 DEF FlagsGrow, FlagTypes
  <2>2. U = {r} /\ t.pc # "prompt" => q = r /\ task'[q] = t
    BY <1>2, <1>4, <2>1
  <2> QED
    BY <1>6, <2>1, <2>2
<1>7. \A q \in 1 .. MaxRuns : q \notin Rows => proof'[q] = proof[q]
  BY <1>2, <1>4
<1> QED
  BY <1>1, <1>3, <1>4, <1>5, <1>6, <1>7, SettlingKeepsInv DEF Partition

------------------------------------------------------------------------------
(***************************************************************************)
(* The agent and execute                                                   *)
(***************************************************************************)

\* Where finally, a rejection or the next await take an execution.
LEMMA TaskMoves ==
  ASSUME NEW t \in Task, NEW called \in BOOLEAN
  PROVE  /\ Final(t, called) \in Task /\ Final(t, called).rejected = t.rejected
         /\ Final(t, called).pc = IF called THEN "finalSnapshot" ELSE "leaving"
         /\ Rejected(t) \in Task /\ Rejected(t).pc = t.pc /\ Rejected(t).rejected = TRUE
         /\ \A pc \in Pc :
              LET new == [t EXCEPT !.pc = pc] IN
              new \in Task /\ new.pc = pc /\ new.rejected = t.rejected
BY DEF Task, Final, Rejected, Pc

\* The catch block settles the run, or leaves it running with a rejected execution.
LEMMA FailsKeepsInv ==
  ASSUME IInv, NEW r \in 1 .. MaxRuns, task[r].pc # "none", NEW t \in Task, NEW p \in Partition,
         Fails(r, t), proof' = [proof EXCEPT ![r] = p],
         t.pc \in {"finalSnapshot", "finalCleanup", "leaving"},
         runs[r].status # "queued", p = "gone" => runs[r].artifacts = 1,
         t.pc = "finalSnapshot" => p # "gone" /\ runs[r].artifacts = 0,
         t.pc = "finalCleanup" => runs[r].artifacts = 1 \/ p = "none",
         UNCHANGED <<conversations, pending, flagVars, runtimeVars, closer>>
  PROVE  IInv'
<1> DEFINE failed == FinishedRow(runs[r], "failed")
<1>1. /\ r \in Rows /\ runs[r] \in Row /\ Told(runs[r])
      /\ Sound(runs[r], task[r], proof[r], fatal) /\ StoreTypeOK
  BY RunFacts DEF IInv, Types
<1>2. /\ failed \in Row /\ Told(failed) /\ SameRun(runs[r], failed)
      /\ failed.status = IF runs[r].status = "running" THEN "failed" ELSE runs[r].status
  BY <1>1, FinishedTold
<1> HIDE DEF failed
<1>3. UNCHANGED <<conversations, pending, admissionStopped, closed, runtimeUnavailable, fatal,
                  transition, lost, restarting, closer>>
  BY DEF flagVars, runtimeVars
<1>4. CASE Works /\ StepTo(r, t) /\ runs' = [runs EXCEPT ![r] = FinishedRow(@, "failed")]
  <2>1. RowBecomes(r, failed, runs') /\ task' = [task EXCEPT ![r] = t]
    <3>1. runs' = [runs EXCEPT ![r] = failed]
      BY <1>4 DEF failed
    <3> QED
      BY <1>1, <1>2, <1>4, <3>1, OneRow DEF StepTo
  <2>2. Sound(failed, t, p, fatal')
    BY <1>1, <1>2, <1>3 DEF Sound, SameRun
  <2> QED
    BY <1>2, <1>3, <1>4, <2>1, <2>2, OneSettles DEF SameRun
<1>5. CASE Running(r) /\ Raises /\ StepTo(r, Rejected(t)) /\ UNCHANGED runs
  <2> DEFINE u == Rejected(t)
  <2>1. u \in Task /\ u.pc = t.pc /\ u.rejected = TRUE
    BY TaskMoves
  <2>2. task' = [task EXCEPT ![r] = u] /\ RowBecomes(r, runs[r], runs')
    BY <1>1, <1>5, OneRow DEF StepTo
  <2> HIDE DEF u
  <2>3. Sound(runs[r], u, p, fatal')
    BY <1>1, <1>3, <2>1 DEF Sound
  <2> QED
    BY <1>3, <1>5, <2>1, <2>2, <2>3, OneSettles
<1> QED
  BY <1>4, <1>5 DEF Fails

\* A notification of the agent is recorded, or latches the execution.
LEMMA NotificationKeepsInv ==
  ASSUME IInv, NEW r \in 1 .. MaxRuns, Notification(r)
  PROVE  IInv'
<1>1. /\ r \in Rows /\ runs[r] \in Row /\ Told(runs[r]) /\ task[r] \in Task /\ proof[r] \in Partition
      /\ Sound(runs[r], task[r], proof[r], fatal) /\ StoreTypeOK
      /\ task = [task EXCEPT ![r] = task[r]] /\ proof = [proof EXCEPT ![r] = proof[r]]
      /\ task[r].pc = "prompt"
  BY RunFacts DEF IInv, Types, Notification, At
<1>2. UNCHANGED <<conversations, pending, admissionStopped, closed, runtimeUnavailable, fatal,
                  transition, lost, restarting, closer, proof>>
  BY DEF Notification, flagVars, runtimeVars
<1>3. ASSUME NEW latch \in {"callback", "raw"}, Works \/ Raises,
             StepTo(r, [task[r] EXCEPT !.latch = latch]), UNCHANGED runs
      PROVE  IInv'
  <2> DEFINE u == [task[r] EXCEPT !.latch = latch]
  <2>1. u \in Task /\ u.pc = task[r].pc /\ u.rejected = task[r].rejected
    BY <1>1 DEF Task
  <2>2. task' = [task EXCEPT ![r] = u] /\ RowBecomes(r, runs[r], runs')
    BY <1>1, <1>3, OneRow DEF StepTo
  <2> HIDE DEF u
  <2>3. Sound(runs[r], u, proof[r], fatal')
    BY <1>1, <1>2, <2>1 DEF Sound
  <2> QED
    BY <1>1, <1>2, <1>3, <2>1, <2>2, <2>3, OneSettles
<1>4. ASSUME Works, Projects(r), runs' = [runs EXCEPT ![r] = Logged(@, "projected")], UNCHANGED task
      PROVE  IInv'
  <2> DEFINE w == Logged(runs[r], "projected")
  <2>1. w \in Row /\ Told(w) /\ SameRun(runs[r], w) /\ w.status = "running"
        /\ runs[r].status = "running"
    BY <1>1, <1>4, ProjectedTold DEF Projects, Running
  <2>2. runs' = [runs EXCEPT ![r] = w]
    BY <1>4
  <2> HIDE DEF w
  <2>3. RowBecomes(r, w, runs')
    BY <1>1, <2>1, <2>2, OneRow
  <2>4. Sound(w, task[r], proof[r], fatal')
    BY <1>1, <1>2, <2>1 DEF Sound, SameRun
  <2>5. task' = [task EXCEPT ![r] = task[r]] /\ proof' = [proof EXCEPT ![r] = proof[r]]
    BY <1>1, <1>2, <1>4
  <2> QED
    BY <1>1, <1>2, <1>4, <2>1, <2>3, <2>4, <2>5, OneSettles DEF SameRun
<1> QED
  BY <1>3, <1>4 DEF Notification

\* runtime.run fails with an ordinary error, or past its deadline.
LEMMA RunFailsKeepsInv ==
  ASSUME IInv, NEW r \in 1 .. MaxRuns, NEW called \in BOOLEAN,
         NEW kind \in ToolOutcome \cup {"none"}, RunFails(r, called, kind)
  PROVE  IInv'
<1>1. task[r].pc \in {"prompt", "refused"} /\ task[r].pc # "none"
  BY DEF RunFails, At
<1>2. task[r] \in Task /\ Sound(runs[r], task[r], proof[r], fatal)
  BY <1>1, RunFacts
<1>3. kind \in Partition /\ kind # "gone"
  BY CoordinatorConstants DEF Partition
<1> DEFINE t == Final(task[r], called)
<1>4. t \in Task /\ t.pc = IF called THEN "finalSnapshot" ELSE "leaving"
  BY <1>2, TaskMoves
<1>5. Fails(r, t) /\ proof' = [proof EXCEPT ![r] = kind]
      /\ UNCHANGED <<conversations, pending, flagVars, runtimeVars, closer>>
  BY DEF RunFails, Left
<1> HIDE DEF t
<1>6. runs[r].status # "queued" /\ runs[r].artifacts = 0
  BY <1>1, <1>2 DEF Sound
<1> QED
  BY <1>1, <1>3, <1>4, <1>5, <1>6, FailsKeepsInv

\* runtime.run returns: a settled run is left alone, a gap makes it unknown, and so on.
LEMMA RunReturnsKeepsInv ==
  ASSUME IInv, NEW r \in 1 .. MaxRuns, NEW called \in BOOLEAN,
         NEW kind \in ToolOutcome \cup {"none"}, RunReturns(r, called, kind)
  PROVE  IInv'
<1> DEFINE t == Final(task[r], called)
<1>1. /\ task[r].pc = "prompt" /\ proof' = [proof EXCEPT ![r] = kind]
      /\ UNCHANGED <<pending, flagVars, runtimeVars, closer>>
  BY DEF RunReturns, Left, At
<1>2. /\ r \in Rows /\ runs[r] \in Row /\ Told(runs[r]) /\ task[r] \in Task
      /\ Sound(runs[r], task[r], proof[r], fatal) /\ StoreTypeOK
  BY <1>1, RunFacts DEF IInv, Types
<1>3. kind \in Partition /\ kind # "gone" /\ (kind = "none" \/ called)
  BY CoordinatorConstants DEF Partition, RunReturns, Left
<1>4. t \in Task /\ t.pc = (IF called THEN "finalSnapshot" ELSE "leaving")
      /\ t.rejected = task[r].rejected
  BY <1>2, TaskMoves
<1>5. runs[r].status # "queued" /\ runs[r].artifacts = 0 /\ runs[r].status # "succeeded"
  BY <1>1, <1>2 DEF Sound
<1>6. UNCHANGED <<pending, admissionStopped, closed, runtimeUnavailable, fatal,
                  transition, lost, restarting, closer>>
  BY <1>1 DEF flagVars, runtimeVars
<1> HIDE DEF t
<1>7. ASSUME ~ Running(r), Works, StepTo(r, t), UNCHANGED storeVars
      PROVE  IInv'
  <2>1. Sound(runs[r], t, kind, fatal')
    BY <1>2, <1>3, <1>4, <1>5, <1>6, <1>7 DEF Sound, Running
  <2>2. RowBecomes(r, runs[r], runs') /\ task' = [task EXCEPT ![r] = t] /\ UNCHANGED conversations
    BY <1>2, <1>7, OneRow DEF StepTo, storeVars
  <2> QED
    BY <1>1, <1>3, <1>4, <1>6, <1>7, <2>1, <2>2, OneSettles
<1>8. ASSUME Running(r), Works, StepTo(r, t),
             runs' = Unknown(runs, {r}), conversations' = Blocked({r})
      PROVE  IInv'
  <2>1. Sound(UnknownRow(runs[r]), t, kind, fatal')
    <3> DEFINE w == UnknownRow(runs[r])
    <3>1. Told(w) /\ SameRun(runs[r], w) /\ w.status = "execution_unknown"
      BY <1>2, <1>8, UnknownTold DEF Running
    <3> HIDE DEF w
    <3>2. Sound(w, t, kind, fatal')
      BY <1>3, <1>4, <1>5, <3>1 DEF Sound, SameRun
    <3> QED
      BY <3>2 DEF w
  <2>2. {r} \in SUBSET Rows /\ \A q \in {r} : runs[q].status = "running"
    BY <1>2, <1>8 DEF Running
  <2>3. task' = [task EXCEPT ![r] = t] /\ t.pc \notin {"none", "prompt"} /\ task[r].pc # "none"
    BY <1>1, <1>4, <1>8 DEF StepTo
  <2>4. MovesOn(task')
    BY <1>4, <2>3, Moves
  <2>5. FlagsGrow
    BY <1>6, <2>4, FlagsKept
  <2>6. faults' \in 0 .. MaxFaults /\ faults <= faults' /\ UNCHANGED <<pending, reboots>>
    BY <1>6, <1>8, Bounds
  <2> QED
    BY <1>1, <1>3, <1>4, <1>6, <1>8, <2>1, <2>2, <2>3, <2>5, <2>6, UnknownSettles
<1>9. ASSUME Running(r), Raises, StepTo(r, Rejected(t)), UNCHANGED storeVars
      PROVE  IInv'
  <2> DEFINE u == Rejected(t)
  <2>1. u \in Task /\ u.pc = t.pc /\ u.rejected = TRUE
    BY <1>4, TaskMoves
  <2>2. RowBecomes(r, runs[r], runs') /\ task' = [task EXCEPT ![r] = u] /\ UNCHANGED conversations
    BY <1>2, <1>9, OneRow DEF StepTo, storeVars
  <2> HIDE DEF u
  <2>3. Sound(runs[r], u, kind, fatal')
    BY <1>2, <1>3, <1>4, <1>5, <2>1 DEF Sound
  <2> QED
    BY <1>1, <1>3, <1>4, <1>6, <1>9, <2>1, <2>2, <2>3, OneSettles
<1>10. ASSUME Running(r), Fails(r, t), UNCHANGED conversations
       PROVE  IInv'
  BY <1>1, <1>3, <1>4, <1>5, <1>10, FailsKeepsInv
<1>11. ASSUME Running(r), called, Works, StepTo(r, [task[r] EXCEPT !.pc = "snapshot"]),
              UNCHANGED storeVars
       PROVE  IInv'
  <2> DEFINE u == [task[r] EXCEPT !.pc = "snapshot"]
  <2>1. u \in Task /\ u.pc = "snapshot" /\ u.rejected = task[r].rejected
    BY <1>2, TaskMoves DEF Pc
  <2>2. RowBecomes(r, runs[r], runs') /\ task' = [task EXCEPT ![r] = u] /\ UNCHANGED conversations
    BY <1>2, <1>11, OneRow DEF StepTo, storeVars
  <2> HIDE DEF u
  <2>3. Sound(runs[r], u, kind, fatal')
    BY <1>2, <1>3, <1>5, <2>1 DEF Sound
  <2> QED
    BY <1>1, <1>3, <1>6, <1>11, <2>1, <2>2, <2>3, OneSettles
<1> QED
  BY <1>7, <1>8, <1>9, <1>10, <1>11 DEF RunReturns, t

\* The transport is gone: running executions become unknown, or as many as the writes reach.
LEMMA RunUncertainKeepsInv ==
  ASSUME IInv, NEW r \in 1 .. MaxRuns, NEW called \in BOOLEAN,
         NEW kind \in ToolOutcome \cup {"none"}, RunUncertain(r, called, kind)
  PROVE  IInv'
<1> DEFINE U == {q \in Active : Running(q)}
           t == Final(task[r], called)
           u == Rejected(t)
<1>1. /\ task[r].pc \in {"prompt", "uncertain"} /\ task[r].pc # "none"
      /\ proof' = [proof EXCEPT ![r] = kind]
      /\ runtimeUnavailable' = TRUE /\ lost' = TRUE
      /\ UNCHANGED <<pending, admissionStopped, closed, fatal, transition, restarting, closer>>
  BY DEF RunUncertain, Left, At
<1>2. /\ r \in Rows /\ runs[r] \in Row /\ Told(runs[r]) /\ task[r] \in Task
      /\ Sound(runs[r], task[r], proof[r], fatal)
  BY <1>1, RunFacts
<1>3. kind \in Partition /\ kind # "gone"
  BY CoordinatorConstants DEF Partition
<1>4. /\ t \in Task /\ t.pc = (IF called THEN "finalSnapshot" ELSE "leaving")
      /\ u \in Task /\ u.pc = t.pc /\ u.rejected = TRUE
  BY <1>2, TaskMoves
<1>5. runs[r].status # "queued" /\ runs[r].artifacts = 0 /\ runs[r].status # "succeeded"
  BY <1>1, <1>2 DEF Sound
<1>6. U \in SUBSET Rows /\ (\A q \in U : runs[q].status = "running")
      /\ (runs[r].status = "running" => r \in U)
  BY <1>1, <1>2 DEF Running, Active
<1>7. \/ /\ Works /\ task' = [task EXCEPT ![r] = t]
         /\ runs' = Unknown(runs, U) /\ conversations' = Blocked(U)
      \/ /\ Raises /\ task' = [task EXCEPT ![r] = u]
         /\ \E reached \in SUBSET U :
              runs' = Unknown(runs, reached) /\ conversations' = Blocked(reached)
  BY DEF RunUncertain, StepTo
<1> HIDE DEF U, t, u
<1>8. ASSUME NEW V \in SUBSET U, NEW v \in {t, u}, task' = [task EXCEPT ![r] = v],
             Works \/ Raises, r \in V \/ runs[r].status # "running" \/ v = u,
             runs' = Unknown(runs, V), conversations' = Blocked(V)
      PROVE  IInv'
  <2> DEFINE w == IF r \in V THEN UnknownRow(runs[r]) ELSE runs[r]
  <2>1. V \in SUBSET Rows /\ \A q \in V : runs[q].status = "running"
    BY <1>6, <1>8
  <2>2. /\ Told(w) /\ w.artifacts = 0 /\ w.status \notin {"queued", "succeeded"}
        /\ w.status = "running" => r \notin V /\ runs[r].status = "running"
    <3>1. CASE r \in V
      BY <1>2, <1>5, <2>1, <3>1, UnknownTold DEF SameRun
    <3>2. CASE r \notin V
      BY <1>2, <1>5, <3>2
    <3> QED
      BY <3>1, <3>2
  <2> HIDE DEF w
  <2>3. v \in Task /\ v.pc \in {"finalSnapshot", "leaving"} /\ (v = u => v.rejected)
    BY <1>4, <1>8
  <2>4. Sound(w, v, kind, fatal')
    BY <1>3, <1>8, <2>2, <2>3 DEF Sound
  <2>5. MovesOn(task')
    BY <1>1, <1>8, <2>3, Moves
  <2>6. FlagsGrow
    BY <1>1, <2>5, FlagsKept
  <2>7. faults' \in 0 .. MaxFaults /\ faults <= faults' /\ UNCHANGED <<pending, reboots>>
    BY <1>1, <1>8, Bounds
  <2>8. Sound(IF r \in V THEN UnknownRow(runs[r]) ELSE runs[r], v, kind, fatal')
    BY <2>4 DEF w
  <2> QED
    BY <1>1, <1>3, <1>8, <2>1, <2>3, <2>6, <2>7, <2>8, UnknownSettles
<1> QED
  BY <1>6, <1>7, <1>8

\* The proof of a run that returned is stored before its success.
LEMMA SnapshotKeepsInv ==
  ASSUME IInv, NEW r \in 1 .. MaxRuns, Snapshot(r)
  PROVE  IInv'
<1>1. /\ task[r].pc = "snapshot"
      /\ UNCHANGED <<conversations, pending, flagVars, runtimeVars, closer, proof>>
  BY DEF Snapshot, At
<1>2. /\ r \in Rows /\ runs[r] \in Row /\ Told(runs[r]) /\ task[r] \in Task
      /\ Sound(runs[r], task[r], proof[r], fatal) /\ StoreTypeOK
      /\ proof' = [proof EXCEPT ![r] = proof[r]] /\ proof[r] \in Partition
  BY <1>1, RunFacts DEF IInv, Types
<1>3. UNCHANGED <<conversations, pending, admissionStopped, closed, runtimeUnavailable, fatal,
                  transition, lost, restarting, closer>>
  BY <1>1 DEF flagVars, runtimeVars
<1>4. runs[r].status \notin {"queued", "succeeded"} /\ runs[r].artifacts = 0 /\ proof[r] # "gone"
  BY <1>1, <1>2 DEF Sound
<1> DEFINE t == Final(task[r], TRUE)
           u == Rejected(t)
           v == [task[r] EXCEPT !.pc = "cleanup"]
           w == [runs[r] EXCEPT !.artifacts = @ + 1]
<1>5. /\ t \in Task /\ t.pc = "finalSnapshot"
      /\ u \in Task /\ u.pc = "finalSnapshot" /\ u.rejected = TRUE
      /\ v \in Task /\ v.pc = "cleanup" /\ v.rejected = task[r].rejected
  BY <1>2 DEF Task, Pc, Final, Rejected
<1>6. w \in Row /\ Told(w) /\ w.artifacts = 1 /\ w.status = runs[r].status
      /\ w.conversation = runs[r].conversation /\ w.generation = runs[r].generation
  BY <1>2, <1>4 DEF Row, Told
<1>7. \/ Works /\ runs' = [runs EXCEPT ![r] = w] /\ task' = [task EXCEPT ![r] = v]
      \/ Raises /\ task' = [task EXCEPT ![r] = u] /\ UNCHANGED runs
      \/ Fails(r, t)
  BY DEF Snapshot, Saved, StepTo
<1> HIDE DEF t, u, v, w
<1>8. ASSUME Works, runs' = [runs EXCEPT ![r] = w], task' = [task EXCEPT ![r] = v]
      PROVE  IInv'
  <2>1. RowBecomes(r, w, runs')
    BY <1>2, <1>6, <1>8, OneRow
  <2>2. Sound(w, v, proof[r], fatal')
    BY <1>2, <1>3, <1>4, <1>5, <1>6 DEF Sound
  <2> QED
    BY <1>1, <1>2, <1>3, <1>5, <1>6, <1>8, <2>1, <2>2, OneSettles
<1>9. ASSUME Raises, task' = [task EXCEPT ![r] = u], UNCHANGED runs
      PROVE  IInv'
  <2>1. RowBecomes(r, runs[r], runs')
    BY <1>2, <1>9, OneRow
  <2>2. Sound(runs[r], u, proof[r], fatal')
    BY <1>2, <1>3, <1>4, <1>5 DEF Sound
  <2> QED
    BY <1>1, <1>2, <1>3, <1>5, <1>9, <2>1, <2>2, OneSettles
<1>10. ASSUME Fails(r, t) PROVE IInv'
  BY <1>1, <1>2, <1>4, <1>5, <1>10, FailsKeepsInv
<1> QED
  BY <1>7, <1>8, <1>9, <1>10

\* The proof is deleted and the run succeeds.
LEMMA SucceedsKeepsInv ==
  ASSUME IInv, NEW r \in 1 .. MaxRuns, Succeeds(r)
  PROVE  IInv'
<1>1. /\ task[r].pc = "cleanup"
      /\ UNCHANGED <<conversations, pending, flagVars, runtimeVars, closer>>
  BY DEF Succeeds, At
<1>2. /\ r \in Rows /\ runs[r] \in Row /\ Told(runs[r]) /\ task[r] \in Task
      /\ Sound(runs[r], task[r], proof[r], fatal) /\ StoreTypeOK
      /\ proof = [proof EXCEPT ![r] = proof[r]] /\ proof[r] \in Partition
  BY <1>1, RunFacts DEF IInv, Types
<1>3. UNCHANGED <<conversations, pending, admissionStopped, closed, runtimeUnavailable, fatal,
                  transition, lost, restarting, closer>>
  BY <1>1 DEF flagVars, runtimeVars
<1>4. runs[r].status # "queued" /\ runs[r].artifacts = 1
  BY <1>1, <1>2 DEF Sound
<1> DEFINE t == [task[r] EXCEPT !.pc = "finalCleanup"]
           p == IF proof[r] = "none" THEN "none" ELSE "gone"
<1>5. t \in Task /\ t.pc = "finalCleanup" /\ t.rejected = task[r].rejected /\ p \in Partition
  BY <1>2, TaskMoves DEF Pc, Partition
<1>6. CASE proof[r] = "foreign"
  <2>1. Fails(r, t) /\ proof' = [proof EXCEPT ![r] = proof[r]]
    BY <1>2, <1>6 DEF Succeeds
  <2> QED
    BY <1>1, <1>2, <1>4, <1>5, <2>1, FailsKeepsInv
<1>7. CASE proof[r] # "foreign"
  <2>1. /\ proof' = [proof EXCEPT ![r] = p] /\ task' = [task EXCEPT ![r] = t]
        /\ \E status \in {"succeeded", "failed"} :
             (Works \/ Raises) /\ runs' = [runs EXCEPT ![r] = FinishedRow(runs[r], status)]
    BY <1>7 DEF Succeeds, Cleaned, StepTo
  <2>2. PICK status \in {"succeeded", "failed"} :
             (Works \/ Raises) /\ runs' = [runs EXCEPT ![r] = FinishedRow(runs[r], status)]
    BY <2>1
  <2> DEFINE w == FinishedRow(runs[r], status)
  <2>3. /\ w \in Row /\ Told(w) /\ SameRun(runs[r], w)
        /\ w.status = IF runs[r].status = "running" THEN status ELSE runs[r].status
    BY <1>2, FinishedTold
  <2> HIDE DEF w
  <2>4. RowBecomes(r, w, runs')
    <3>1. runs' = [runs EXCEPT ![r] = w]
      BY <2>2 DEF w
    <3> QED
      BY <1>2, <2>3, <3>1, OneRow
  <2>5. Sound(w, t, p, fatal')
    <3> HIDE DEF p, t
    <3> QED
      BY <1>2, <1>3, <1>4, <1>5, <2>3 DEF Sound, SameRun
  <2> HIDE DEF p, t
  <2> QED
    BY <1>1, <1>3, <1>5, <2>1, <2>2, <2>3, <2>4, <2>5, OneSettles DEF SameRun
<1> QED
  BY <1>6, <1>7

\* finally stores the proof of a run that did not succeed.
LEMMA FinalSnapshotKeepsInv ==
  ASSUME IInv, NEW r \in 1 .. MaxRuns, FinalSnapshot(r)
  PROVE  IInv'
<1>1. /\ task[r].pc = "finalSnapshot"
      /\ UNCHANGED <<conversations, pending, admissionStopped, closed, runtimeUnavailable,
                     transition, lost, restarting, closer, proof>>
  BY DEF FinalSnapshot, At, runtimeVars
<1>2. /\ r \in Rows /\ runs[r] \in Row /\ Told(runs[r]) /\ task[r] \in Task
      /\ Sound(runs[r], task[r], proof[r], fatal) /\ StoreTypeOK
      /\ proof' = [proof EXCEPT ![r] = proof[r]] /\ proof[r] \in Partition
  BY <1>1, RunFacts DEF IInv, Types
<1>4. /\ runs[r].status \notin {"queued", "succeeded"} /\ runs[r].artifacts = 0 /\ proof[r] # "gone"
      /\ runs[r].status = "running" => task[r].rejected
  BY <1>1, <1>2 DEF Sound
<1> DEFINE t(pc) == [task[r] EXCEPT !.pc = pc]
           w == [runs[r] EXCEPT !.artifacts = @ + 1]
<1>5. \A pc \in {"finalCleanup", "leaving"} :
        t(pc) \in Task /\ t(pc).pc = pc /\ t(pc).rejected = task[r].rejected
  BY <1>2 DEF Task, Pc
<1>6. w \in Row /\ Told(w) /\ w.artifacts = 1 /\ w.status = runs[r].status
      /\ w.conversation = runs[r].conversation /\ w.generation = runs[r].generation
  BY <1>2, <1>4 DEF Row, Told
<1>7. \/ /\ Works /\ runs' = [runs EXCEPT ![r] = w]
         /\ task' = [task EXCEPT ![r] = t("finalCleanup")] /\ UNCHANGED fatal
      \/ Raises /\ task' = [task EXCEPT ![r] = t("leaving")] /\ UNCHANGED runs /\ fatal' = TRUE
      \/ /\ proof[r] \notin {"exact", "foreign"} /\ Works /\ UNCHANGED runs
         /\ task' = [task EXCEPT ![r] = t("finalCleanup")] /\ UNCHANGED fatal
  BY DEF FinalSnapshot, Verifiable, Saved, StepTo
<1> HIDE DEF t, w
<1>8. ASSUME Works, runs' = [runs EXCEPT ![r] = w],
             task' = [task EXCEPT ![r] = t("finalCleanup")], UNCHANGED fatal
      PROVE  IInv'
  <2>1. RowBecomes(r, w, runs')
    BY <1>2, <1>6, <1>8, OneRow
  <2>2. Sound(w, t("finalCleanup"), proof[r], fatal')
    BY <1>2, <1>4, <1>5, <1>6, <1>8 DEF Sound
  <2> QED
    BY <1>1, <1>2, <1>5, <1>6, <1>8, <2>1, <2>2, OneSettles
<1>9. ASSUME NEW pc \in {"finalCleanup", "leaving"}, Works \/ Raises, UNCHANGED runs,
             task' = [task EXCEPT ![r] = t(pc)], fatal' \in {fatal, TRUE},
             pc = "finalCleanup" => proof[r] \notin {"exact", "foreign"}
      PROVE  IInv'
  <2>1. RowBecomes(r, runs[r], runs')
    BY <1>2, <1>9, OneRow
  <2>2. Sound(runs[r], t(pc), proof[r], fatal')
    BY <1>2, <1>4, <1>5, <1>9 DEF Sound, Partition
  <2> QED
    BY <1>1, <1>2, <1>5, <1>9, <2>1, <2>2, OneSettles
<1> QED
  BY <1>7, <1>8, <1>9

\* finally deletes a proof that is stored.
LEMMA FinalCleanupKeepsInv ==
  ASSUME IInv, NEW r \in 1 .. MaxRuns, FinalCleanup(r)
  PROVE  IInv'
<1>1. /\ task[r].pc = "finalCleanup"
      /\ UNCHANGED <<conversations, runs, pending, admissionStopped, closed, runtimeUnavailable,
                     transition, lost, restarting, closer>>
      /\ Works
  BY DEF FinalCleanup, At, runtimeVars, storeVars, Works
<1>2. /\ r \in Rows /\ runs[r] \in Row /\ Told(runs[r]) /\ task[r] \in Task
      /\ Sound(runs[r], task[r], proof[r], fatal) /\ StoreTypeOK
      /\ proof = [proof EXCEPT ![r] = proof[r]] /\ proof[r] \in Partition
  BY <1>1, RunFacts DEF IInv, Types
<1>3. /\ runs[r].status # "queued" /\ (runs[r].artifacts = 1 \/ proof[r] = "none")
      /\ runs[r].status = "running" => task[r].rejected
  BY <1>1, <1>2 DEF Sound
<1> DEFINE t == [task[r] EXCEPT !.pc = "leaving"]
<1>4. t \in Task /\ t.pc = "leaving" /\ t.rejected = task[r].rejected
  BY <1>2, TaskMoves DEF Pc
<1>5. PICK p \in Partition : /\ proof' = [proof EXCEPT ![r] = p]
                             /\ p = proof[r] \/ (p = "gone" /\ proof[r] # "none")
  <2>1. CASE proof[r] = "foreign"
    BY <1>2, <2>1 DEF FinalCleanup
  <2>2. CASE proof[r] # "foreign"
    BY <2>2 DEF FinalCleanup, Cleaned, Partition
  <2> QED
    BY <2>1, <2>2
<1>6. task' = [task EXCEPT ![r] = t] /\ fatal' \in {fatal, TRUE}
  BY DEF FinalCleanup, StepTo
<1> HIDE DEF t
<1>7. RowBecomes(r, runs[r], runs')
  BY <1>1, <1>2, OneRow
<1>8. Sound(runs[r], t, p, fatal')
  BY <1>2, <1>3, <1>4, <1>5 DEF Sound
<1> QED
  BY <1>1, <1>2, <1>4, <1>5, <1>6, <1>7, <1>8, OneSettles

------------------------------------------------------------------------------
(***************************************************************************)
(* Restart, shutdown, and the statements on conversations                  *)
(***************************************************************************)

\* A step that only raises flags keeps everything else.
LEMMA FlagStep ==
  ASSUME IInv, FlagsGrow,
         UNCHANGED <<conversations, runs, task, pending, proof, faults, reboots>>
  PROVE  IInv'
<1>1. StoreTypeOK /\ task \in [1 .. MaxRuns -> Task] /\ proof \in [1 .. MaxRuns -> Partition]
      /\ fatal \in BOOLEAN /\ fatal' \in BOOLEAN /\ (fatal => fatal') /\ faults \in 0 .. MaxFaults
  BY DEF IInv, Types, FlagsGrow, FlagTypes, Partition
<1>2. Settles({}, runs') /\ conversations' = Blocked({})
  BY <1>1, BlockedTypes DEF Settles, StoreTypeOK
<1>3. MovesOn(task')
  BY <1>1 DEF MovesOn
<1>4. ASSUME NEW r \in Rows PROVE Sound(runs'[r], task'[r], proof'[r], fatal')
  <2>1. Sound(runs[r], task[r], proof[r], fatal)
    BY RowsAreRuns, RunFacts
  <2>2. Sound(runs[r], task[r], proof[r], fatal')
    BY <1>1, <2>1, SoundLatched
  <2> QED
    BY <2>2
<1> QED
  BY <1>1, <1>2, <1>3, <1>4, SettlingKeepsInv DEF Partition

NoPrompt == \A r \in 1 .. MaxRuns : ~ At(r, "prompt")

\* The calls of restart, shutdown and close, and their steps that touch no row.
LEMMA FlagActions ==
  ASSUME IInv, \/ RestartCall \/ RestartFails \/ ShutdownCall \/ CloseCall \/ ShutdownIdle
               \/ ShutdownClosed \/ ShutdownForced
  PROVE  IInv'
<1> USE DEF flagVars, runtimeVars, bounds, storeVars
<1>1. /\ FlagTypes /\ (closed \/ closer # "idle" => admissionStopped)
      /\ restarting => transition \in {"restarting", "shut"} /\ NoPrompt
  BY DEF IInv, Types, FlagTypes, FlagsAgree, NoPrompt
<1>2. UNCHANGED <<conversations, runs, task, pending, proof, faults, reboots>>
  BY DEF RestartCall, RestartFails, ShutdownCall, CloseCall, ShutdownIdle, ShutdownClosed,
         ShutdownForced
<1>3. NoPrompt' = NoPrompt
  BY <1>2 DEF NoPrompt, At
<1>4. Active = {} => NoPrompt
  BY DEF Active, NoPrompt, At
<1>5. /\ FlagTypes' /\ (closed' \/ closer' # "idle" => admissionStopped')
      /\ runtimeUnavailable => runtimeUnavailable'
      /\ admissionStopped => admissionStopped'
      /\ fatal => fatal'
      /\ restarting' => transition' \in {"restarting", "shut"} /\ NoPrompt
  <2>1. CASE RestartCall
    BY <1>1, <1>4, <2>1 DEF RestartCall, FlagTypes
  <2>2. CASE RestartFails
    BY <1>1, <2>2 DEF RestartFails, FlagTypes
  <2>3. CASE ShutdownCall
    BY <1>1, <2>3 DEF ShutdownCall, FlagTypes
  <2>4. CASE CloseCall
    BY <1>1, <2>4 DEF CloseCall, FlagTypes
  <2>5. CASE ShutdownIdle
    BY <1>1, <2>5 DEF ShutdownIdle, FlagTypes
  <2>6. CASE ShutdownClosed
    BY <1>1, <2>6 DEF ShutdownClosed, FlagTypes
  <2>7. CASE ShutdownForced
    <3>1. (closed' = closed \/ closed' = TRUE) /\ (fatal' = fatal \/ fatal' = TRUE)
      BY <2>7 DEF ShutdownForced
    <3>2. /\ closer # "idle" /\ closer' = "idle"
          /\ UNCHANGED <<admissionStopped, runtimeUnavailable, transition, lost, restarting>>
      BY <2>7 DEF ShutdownForced
    <3>3. closed' \in BOOLEAN /\ fatal' \in BOOLEAN /\ (fatal => fatal')
      <4>1. closed \in BOOLEAN /\ fatal \in BOOLEAN
        BY <1>1 DEF FlagTypes
      <4> QED
        BY <3>1, <4>1
    <3>4. FlagTypes'
      BY <1>1, <3>2, <3>3 DEF FlagTypes
    <3>5. admissionStopped /\ admissionStopped'
      BY <1>1, <3>2 DEF FlagTypes
    <3> QED
      BY <1>1, <3>2, <3>3, <3>4, <3>5
  <2> QED
    BY <2>1, <2>2, <2>3, <2>4, <2>5, <2>6, <2>7
<1>6. FlagsAgree'
  BY <1>3, <1>5 DEF FlagsAgree, NoPrompt
<1> QED
  BY <1>2, <1>5, <1>6, FlagStep DEF FlagsGrow

\* The grace is over: what runs becomes unknown.
LEMMA GraceExpiresKeepsInv == IInv /\ GraceExpires => IInv'
<1> SUFFICES ASSUME IInv, GraceExpires PROVE IInv'
  OBVIOUS
<1> DEFINE U == {q \in Active : Running(q)}
<1>1. /\ runtimeUnavailable' = TRUE /\ transition' = "shut" /\ closer = "grace" /\ Active # {}
      /\ closer' \in {"forcing", "forcingFatal"} /\ (Works \/ Raises)
      /\ UNCHANGED <<task, pending, admissionStopped, closed, fatal, lost, restarting, proof>>
  BY DEF GraceExpires
<1>2. \E V \in SUBSET U : runs' = Unknown(runs, V) /\ conversations' = Blocked(V)
  BY DEF GraceExpires
<1>3. PICK V \in SUBSET U : runs' = Unknown(runs, V) /\ conversations' = Blocked(V)
  BY <1>2
<1>4. V \in SUBSET Rows /\ \A q \in V : runs[q].status = "running"
  BY DEF Running
<1>5. PICK r \in 1 .. MaxRuns : task[r].pc # "none"
  BY <1>1 DEF Active
<1>6. /\ r \in Rows /\ runs[r] \in Row /\ task[r] \in Task /\ proof[r] \in Partition
      /\ Sound(runs[r], task[r], proof[r], fatal)
      /\ task' = [task EXCEPT ![r] = task[r]] /\ proof' = [proof EXCEPT ![r] = proof[r]]
  BY <1>1, <1>5, RunFacts
<1> HIDE DEF U
<1>7. MovesOn(task')
  BY <1>5, <1>6, Moves
<1>8. FlagsGrow
  BY <1>1, <1>7, FlagsKept
<1>9. Sound(IF r \in V THEN UnknownRow(runs[r]) ELSE runs[r], task[r], proof[r], fatal')
  <2>1. r \in V => Sound(UnknownRow(runs[r]), task[r], proof[r], fatal)
    BY <1>4, <1>6, SoundUnknown
  <2> QED
    BY <1>1, <1>6, <2>1
<1>10. faults' \in 0 .. MaxFaults /\ faults <= faults' /\ UNCHANGED <<pending, reboots>>
  BY <1>1, Bounds
<1>11. fatal' \in {fatal, TRUE} /\ runtimeUnavailable'
  BY <1>1
<1>12. task[r].pc = "none" => runtimeUnavailable'
  BY <1>11
<1> QED
  BY <1>3, <1>4, <1>5, <1>6, <1>8, <1>9, <1>10, <1>11, <1>12, UnknownSettles

\* latchFatal after a rejected execution.
LEMMA RejectedLeaveKeepsInv ==
  ASSUME IInv, NEW r \in 1 .. MaxRuns, Leave(r), task[r].rejected
  PROVE  IInv'
<1>1. /\ task[r].pc = "leaving" /\ runtimeUnavailable' = TRUE /\ fatal' = TRUE
      /\ task' = [task EXCEPT ![r] = NoTask]
      /\ UNCHANGED <<pending, admissionStopped, closed, transition, lost, restarting, closer, proof,
                     reboots>>
  BY DEF Leave, At, StepTo, runtimeVars, Raises
<1>2. /\ r \in Rows /\ runs[r] \in Row /\ proof[r] \in Partition /\ StoreTypeOK
      /\ Sound(runs[r], task[r], proof[r], fatal) /\ Told(runs[r])
      /\ proof' = [proof EXCEPT ![r] = proof[r]]
  BY <1>1, RunFacts DEF IInv, Types
<1>3. NoTask \in Task /\ NoTask.pc = "none" /\ NoTask.rejected = FALSE
  BY DEF NoTask, Task, Pc
<1>4. \E V \in SUBSET {r} : /\ \A q \in V : Running(q)
                            /\ runs' = Unknown(runs, V) /\ conversations' = Blocked(V)
  <2>1. CASE \E U \in {{q \in {r} : Running(q)}} :
               runs' = Unknown(runs, U) /\ conversations' = Blocked(U)
    BY <2>1
  <2>2. CASE UNCHANGED <<runs, conversations>>
    <3>1. conversations' = Blocked({})
      BY <1>2, <2>2, BlockedTypes
    <3>2. runs' = Unknown(runs, {})
      BY <1>2, <2>2 DEF Unknown, StoreTypeOK
    <3> QED
      BY <3>1, <3>2
  <2> QED
    BY <2>1, <2>2 DEF Leave, storeVars
<1>5. PICK V \in SUBSET {r} : /\ \A q \in V : Running(q)
                              /\ runs' = Unknown(runs, V) /\ conversations' = Blocked(V)
  BY <1>4
<1>6. V \in SUBSET Rows /\ \A q \in V : runs[q].status = "running"
  BY <1>2, <1>5 DEF Running
<1>7. faults' \in 0 .. MaxFaults /\ faults <= faults'
  BY CoordinatorConstants DEF IInv, Types, Leave, Raises
<1>8. MovesOn(task')
  BY <1>1, <1>3, Moves
<1>9. FlagsGrow
  BY <1>1, <1>8, FlagsKept
<1>10. Sound(IF r \in V THEN UnknownRow(runs[r]) ELSE runs[r], NoTask, proof[r], fatal')
  <2> DEFINE w == IF r \in V THEN UnknownRow(runs[r]) ELSE runs[r]
  <2>1. /\ Told(w) /\ w.artifacts = runs[r].artifacts
        /\ w.status # "queued" /\ (w.status = "succeeded" => runs[r].status = "succeeded")
    <3>1. runs[r].status # "queued"
      BY <1>1, <1>2 DEF Sound
    <3>2. r \in V => /\ Told(UnknownRow(runs[r])) /\ SameRun(runs[r], UnknownRow(runs[r]))
                     /\ UnknownRow(runs[r]).status = "execution_unknown"
      BY <1>2, <1>6, UnknownTold
    <3> QED
      BY <1>2, <3>1, <3>2 DEF SameRun
  <2> HIDE DEF w
  <2>2. Sound(w, NoTask, proof[r], fatal')
    BY <1>1, <1>2, <1>3, <2>1 DEF Sound
  <2> QED
    BY <2>2 DEF w
<1> QED
  BY <1>1, <1>2, <1>3, <1>5, <1>6, <1>7, <1>9, <1>10, UnknownSettles

\* Statements on a conversation that is not there yet, or is blocked: no run of it is in
\* flight.
LEMMA ConversationKeepsInv ==
  ASSUME IInv, NEW c \in Conversation, Create(c) \/ Acknowledge(c)
  PROVE  IInv'
<1>1. /\ UNCHANGED <<runs, task, pending, admissionStopped, closed, runtimeUnavailable, fatal,
                     transition, lost, restarting, closer, proof, faults, reboots>>
  BY DEF Create, Acknowledge, CreateConversation, AcknowledgeUnknown, flagVars, runtimeVars, bounds
<1>2. PICK g \in Nat :
        /\ conversations' = [conversations EXCEPT ![c] = [recovery |-> "active", generation |-> g]]
        /\ \/ conversations[c].recovery = "absent"
           \/ conversations[c].recovery = "blocked" /\ g = conversations[c].generation + 1
  <2>1. conversations[c].generation \in Nat
    BY DEF IInv, Types, StoreTypeOK
  <2>2. CASE Create(c)
    BY <2>2 DEF Create, CreateConversation
  <2>3. CASE Acknowledge(c)
    <3>1. conversations[c].generation + 1 \in Nat
      BY <2>1
    <3> QED
      BY <2>3, <3>1 DEF Acknowledge, AcknowledgeUnknown
  <2> QED
    BY <2>2, <2>3
<1>3. StoreTypeOK /\ Sessions(conversations, runs)
  BY DEF IInv, Types
<1>4. /\ conversations' \in [Conversation -> [recovery : {"absent", "active", "blocked"},
                                             generation : Nat]]
      /\ conversations'[c].recovery = "active" /\ conversations'[c].generation = g
      /\ \A d \in Conversation : d # c => conversations'[d] = conversations[d]
  BY <1>2, <1>3 DEF StoreTypeOK
<1>5. StoreTypeOK'
  BY <1>1, <1>3, <1>4 DEF StoreTypeOK
<1>6. \A r \in 1 .. Len(runs) :
        /\ runs[r].conversation \in Conversation /\ runs[r].generation \in Nat
        /\ conversations[runs[r].conversation].generation \in Nat
  <2>1. \A r \in 1 .. Len(runs) : runs[r] \in Row
    BY <1>3, ElementOfSeq DEF StoreTypeOK
  <2> QED
    BY <1>3, <2>1 DEF StoreTypeOK, Row
<1>7. Sessions(conversations', runs)
  <2>1. ASSUME NEW r \in 1 .. Len(runs)
        PROVE  LET d == runs[r].conversation IN
               /\ conversations'[d].recovery # "absent"
               /\ runs[r].generation <= conversations'[d].generation
               /\ runs[r].status \in {"queued", "running"} =>
                    /\ conversations'[d].recovery = "active"
                    /\ \A s \in 1 .. Len(runs) : s > r => runs[s].conversation # d
               /\ runs[r].status = "execution_unknown" =>
                    \/ conversations'[d].recovery = "blocked"
                    \/ conversations'[d].generation > runs[r].generation
    <3>1. CASE runs[r].conversation = c
      <4>1. /\ conversations[c].recovery = "blocked" /\ g = conversations[c].generation + 1
            /\ runs[r].generation <= conversations[c].generation
            /\ runs[r].status \notin {"queued", "running"}
        BY <1>2, <1>3, <3>1 DEF Sessions
      <4> QED
        BY <1>4, <1>6, <3>1, <4>1
    <3>2. CASE runs[r].conversation # c
      <4>1. conversations'[runs[r].conversation] = conversations[runs[r].conversation]
        BY <1>4, <1>6, <3>2
      <4> QED
        BY <1>3, <4>1 DEF Sessions
    <3> QED
      BY <3>1, <3>2
  <2> QED
    BY <1>3, <2>1 DEF Sessions
<1> QED
  BY <1>1, <1>5, <1>7 DEF IInv, Types, AllSound, Lined, Prompted, FlagsAgree, QueueMoves, Active,
     At, RowsIn, Rows

------------------------------------------------------------------------------
(***************************************************************************)
(* pump                                                                    *)
(***************************************************************************)

Busy(tasks) == {r \in 1 .. MaxRuns : tasks[r].pc # "none"}

\* What pump finds: the rows, executions and queue as the step's own statements leave them,
\* next to the flags of the step.
Found(queue, tasks, rows) ==
  /\ rows \in Seq(Row) /\ Len(rows) <= MaxRuns
  /\ tasks \in [1 .. MaxRuns -> Task]
  /\ conversations' \in [Conversation -> [recovery : {"absent", "active", "blocked"},
                                          generation : Nat]]
  /\ proof' \in [1 .. MaxRuns -> Partition]
  /\ AllSound(rows, tasks, proof', fatal')
  /\ Sessions(conversations', rows)
  /\ Lined(queue, rows, tasks)
  /\ Prompted(rows, tasks, runtimeUnavailable')
  /\ Cardinality(Busy(tasks)) <= Concurrency
  /\ FlagTypes' /\ (closed' \/ closer' # "idle" => admissionStopped')
  /\ restarting' => /\ transition' \in {"restarting", "shut"}
                    /\ \A r \in 1 .. MaxRuns : tasks[r].pc # "prompt"
  /\ faults \in Nat /\ reboots' \in 0 .. MaxReboots
  /\ faults = 0 => \A r \in 1 .. Len(rows) : rows[r].status = "queued" =>
                     \E i \in 1 .. Len(queue) : queue[i] = r

\* The requests after the first n of a queue.
LEMMA RestOfQueue ==
  ASSUME NEW S, NEW queue \in Seq(S), NEW n \in 0 .. Len(queue)
  PROVE  LET rest == SubSeq(queue, n + 1, Len(queue)) IN
         /\ rest \in Seq(S)
         /\ Len(rest) = Len(queue) - n
         /\ \A i \in 1 .. Len(rest) : rest[i] = queue[n + i]
<1> DEFINE rest == SubSeq(queue, n + 1, Len(queue))
<1>1. Len(queue) \in Nat /\ n \in Nat /\ n <= Len(queue)
  BY LenProperties
<1>2. \A i \in n + 1 .. Len(queue) : queue[i] \in S
  <2>1. \A i \in n + 1 .. Len(queue) : i \in 1 .. Len(queue)
    BY <1>1
  <2> QED
    BY <2>1, ElementOfSeq
<1>3. n + 1 \in Int /\ Len(queue) \in Int
  BY <1>1
<1>4. /\ rest \in Seq(S) /\ Len(rest) = IF n + 1 <= Len(queue) THEN Len(queue) - (n + 1) + 1 ELSE 0
      /\ \A i \in 1 .. Len(queue) - (n + 1) + 1 : rest[i] = queue[n + 1 + i - 1]
  BY <1>2, <1>3, SubSeqProperties
<1> HIDE DEF rest
<1>5. /\ rest \in Seq(S) /\ Len(rest) = Len(queue) - n
      /\ \A i \in 1 .. Len(rest) : rest[i] = queue[n + i]
  BY <1>1, <1>4
<1> QED
  BY <1>5 DEF rest

\* Two runs that are in flight are of different conversations.
LEMMA InFlightApart ==
  ASSUME NEW convs, NEW rows, Len(rows) \in Nat, Sessions(convs, rows),
         NEW r \in 1 .. Len(rows), NEW s \in 1 .. Len(rows), r # s,
         rows[r].status \in {"queued", "running"}, rows[s].status \in {"queued", "running"}
  PROVE  rows[r].conversation # rows[s].conversation
<1>1. s > r \/ r > s
  OBVIOUS
<1>2. CASE s > r
  BY <1>2 DEF Sessions
<1>3. CASE r > s
  BY <1>3 DEF Sessions
<1> QED
  BY <1>1, <1>2, <1>3

First(queue, n) == {queue[i] : i \in 1 .. n}

\* A different queue entry is a different run, so the first n are n runs.
LEMMA FirstAre ==
  ASSUME NEW S, NEW queue \in Seq(S), NEW n \in 0 .. Len(queue),
         \A i, j \in 1 .. Len(queue) : queue[i] = queue[j] => i = j
  PROVE  IsFiniteSet(First(queue, n)) /\ Cardinality(First(queue, n)) = n
<1> DEFINE first == {queue[i] : i \in 1 .. n}
           f == [i \in 1 .. n |-> queue[i]]
<1>1. n \in Nat /\ \A i \in 1 .. n : i \in 1 .. Len(queue)
  BY LenProperties
<1>2. f \in Surjection(1 .. n, first)
  BY Fun_IsSurj
<1>3. f \in Injection(1 .. n, first)
  <2>1. \A i, j \in 1 .. n : f[i] = f[j] => i = j
    BY <1>1
  <2>2. f \in [1 .. n -> first]
    OBVIOUS
  <2> QED
    BY <2>1, <2>2, Fun_IsInj
<1>4. IsFiniteSet(1 .. n) /\ Cardinality(1 .. n) = n
  <2>1. 1 \in Int /\ n \in Int
    BY <1>1
  <2>2. IsFiniteSet(1 .. n) /\ Cardinality(1 .. n) = IF 1 > n THEN 0 ELSE n - 1 + 1
    BY <2>1, FS_Interval
  <2> QED
    BY <1>1, <2>2
<1> HIDE DEF f, first
<1>5. IsFiniteSet(first) /\ Cardinality(first) = n
  BY <1>2, <1>3, <1>4, FS_Surjection
<1> QED
  BY <1>5 DEF first, First

\* pump, whatever step calls it, leaves the invariant: it launches only while nothing is
\* latched, so every other prompt is of a run in flight, and it does not stop while a run
\* waits for which there is a slot.
LEMMA PumpKeepsInv ==
  ASSUME NEW queue, NEW tasks, NEW rows, Found(queue, tasks, rows), Pump(queue, tasks, rows)
  PROVE  IInv'
<1> DEFINE free    == Free(tasks)
           n       == IF CanPump THEN IF Len(queue) < free THEN Len(queue) ELSE free ELSE 0
           started == {queue[i] : i \in 1 .. n}
           N       == Len(rows)
<1>1. PICK broken \in SUBSET started :
        /\ faults + Cardinality(broken) <= MaxFaults
        /\ faults' = faults + Cardinality(broken)
        /\ pending' = SubSeq(queue, n + 1, Len(queue))
        /\ task' = [r \in 1 .. MaxRuns |->
                      IF r \in broken THEN [NoTask EXCEPT !.pc = "leaving"]
                      ELSE IF r \in started THEN [NoTask EXCEPT !.pc = LaunchedAt]
                      ELSE tasks[r]]
        /\ runs' = [r \in DOMAIN rows |->
                      IF r \in started \ broken THEN StartedRow(rows[r]) ELSE rows[r]]
  BY Zenon DEF Pump
<1>2. /\ rows \in Seq(Row) /\ N \in Nat /\ N <= MaxRuns /\ MaxRuns \in Nat
      /\ DOMAIN rows = 1 .. N /\ \A r \in 1 .. N : rows[r] \in Row /\ r \in 1 .. MaxRuns
      /\ tasks \in [1 .. MaxRuns -> Task] /\ proof' \in [1 .. MaxRuns -> Partition]
  BY LenProperties, ElementOfSeq, AguiConstants DEF Found
<1>3. /\ queue \in Seq(1 .. N) /\ Len(queue) \in Nat
      /\ \A i \in 1 .. Len(queue) : /\ queue[i] \in 1 .. N
                                    /\ rows[queue[i]].status = "queued"
                                    /\ tasks[queue[i]].pc = "none"
      /\ \A i, j \in 1 .. Len(queue) : queue[i] = queue[j] => i = j
  BY LenProperties, ElementOfSeq DEF Found, Lined
<1>4. /\ IsFiniteSet(Busy(tasks)) /\ Cardinality(Busy(tasks)) \in Nat
      /\ free = Concurrency - Cardinality(Busy(tasks)) /\ free \in Nat
  <2>1. Busy(tasks) \subseteq 1 .. MaxRuns
    BY DEF Busy
  <2>2. IsFiniteSet(Busy(tasks))
    BY <2>1, ActiveIsFinite, FS_Subset
  <2>3. Cardinality(Busy(tasks)) \in Nat /\ Cardinality(Busy(tasks)) <= Concurrency
    BY <2>2, FS_CardinalityType DEF Found
  <2>4. free = Concurrency - Cardinality(Busy(tasks))
    BY DEF Free, Busy
  <2> QED
    BY <2>2, <2>3, <2>4, CoordinatorConstants
<1> HIDE DEF free
<1>5. /\ n \in 0 .. Len(queue) /\ n <= free /\ n \in Nat /\ (n # 0 => CanPump)
      /\ CanPump /\ n # Len(queue) => n = free
  BY <1>3, <1>4
<1> HIDE DEF n
<1>6. /\ \A r \in started : /\ r \in 1 .. N /\ r \in 1 .. MaxRuns
                            /\ rows[r].status = "queued" /\ tasks[r].pc = "none"
      /\ started # {} => CanPump
  BY <1>2, <1>3, <1>5
<1>7. IsFiniteSet(started) /\ Cardinality(started) = n
  <2> HIDE DEF N
  <2>1. queue \in Seq(1 .. N)
    BY <1>3
  <2>2. n \in 0 .. Len(queue)
    BY <1>5
  <2>3. \A i, j \in 1 .. Len(queue) : queue[i] = queue[j] => i = j
    BY <1>3
  <2>4. IsFiniteSet(First(queue, n)) /\ Cardinality(First(queue, n)) = n
    BY <2>1, <2>2, <2>3, FirstAre
  <2> QED
    BY <2>4 DEF First
<1>8. \A i \in 1 .. Len(queue) : queue[i] \in started <=> i <= n
  BY <1>3, <1>5
<1> HIDE DEF started
<1>9. IsFiniteSet(broken) /\ Cardinality(broken) \in Nat
  BY <1>7, FS_Subset, FS_CardinalityType
<1>10. /\ LaunchedAt \in {"uncertain", "refused", "prompt"}
       /\ restarting' => LaunchedAt # "prompt"
  BY DEF LaunchedAt, Found
<1>11. /\ task' \in [1 .. MaxRuns -> Task]
       /\ \A r \in 1 .. MaxRuns :
            /\ r \in broken => task'[r].pc = "leaving" /\ ~ task'[r].rejected
            /\ r \in started /\ r \notin broken => task'[r].pc = LaunchedAt
            /\ r \notin started => task'[r] = tasks[r]
  <2>1. \A pc \in Pc : LET t == [NoTask EXCEPT !.pc = pc] IN
                       t \in Task /\ t.pc = pc /\ ~ t.rejected
    BY DEF NoTask, Task
  <2>2. "leaving" \in Pc /\ LaunchedAt \in Pc
    BY <1>10 DEF Pc
  <2>3. ASSUME NEW r \in 1 .. MaxRuns
        PROVE  /\ task'[r] \in Task
               /\ r \in broken => task'[r].pc = "leaving" /\ ~ task'[r].rejected
               /\ r \in started /\ r \notin broken => task'[r].pc = LaunchedAt
               /\ r \notin started => task'[r] = tasks[r]
    <3>1. CASE r \in broken
      <4>1. task'[r] = [NoTask EXCEPT !.pc = "leaving"]
        BY <1>1, <3>1
      <4> QED
        BY <2>1, <2>2, <3>1, <4>1
    <3>2. CASE r \in started /\ r \notin broken
      <4>1. task'[r] = [NoTask EXCEPT !.pc = LaunchedAt]
        BY <1>1, <3>2
      <4> QED
        BY <2>1, <2>2, <3>2, <4>1
    <3>3. CASE r \notin started
      BY <1>1, <1>2, <3>3
    <3> QED
      BY <3>1, <3>2, <3>3
  <2>4. task' = [r \in 1 .. MaxRuns |-> task'[r]]
    BY <1>1
  <2> QED
    BY <2>3, <2>4
<1>12. \A r \in 1 .. N : Sound(rows[r], tasks[r], proof'[r], fatal') /\ Told(rows[r])
  BY DEF Found, AllSound, Sound
<1>13. /\ runs' \in Seq(Row) /\ Len(runs') = N
       /\ \A r \in 1 .. N :
            /\ SameRun(rows[r], runs'[r]) /\ Told(runs'[r])
            /\ IF r \in started \ broken THEN runs'[r].status = "running"
               ELSE runs'[r] = rows[r]
  <2>1. ASSUME NEW r \in 1 .. N
        PROVE  /\ runs'[r] \in Row
               /\ SameRun(rows[r], runs'[r]) /\ Told(runs'[r])
               /\ IF r \in started \ broken THEN runs'[r].status = "running"
                  ELSE runs'[r] = rows[r]
    <3>1. CASE r \in started \ broken
      <4>1. runs'[r] = StartedRow(rows[r])
        BY <1>1, <1>2, <3>1
      <4>2. rows[r].status = "queued"
        BY <1>6, <3>1
      <4> QED
        BY <1>2, <1>12, <3>1, <4>1, <4>2, StartedTold
    <3>2. CASE r \notin started \ broken
      <4>1. runs'[r] = rows[r]
        BY <1>1, <1>2, <3>2
      <4> QED
        BY <1>2, <1>12, <3>2, <4>1 DEF SameRun
    <3> QED
      BY <3>1, <3>2
  <2>2. runs' = [r \in 1 .. N |-> runs'[r]]
    BY <1>1, <1>2
  <2>3. runs' \in [1 .. N -> Row]
    BY <2>1, <2>2
  <2>4. runs' \in Seq(Row) /\ Len(runs') = N
    BY <1>2, <2>3, TableOf
  <2> QED
    BY <2>1, <2>4
<1> HIDE DEF N
<1>14. Types'
  <2>1. StoreTypeOK'
    BY <1>2, <1>13 DEF StoreTypeOK, Found, N
  <2>2. faults' \in 0 .. MaxFaults
    BY <1>1, <1>9, CoordinatorConstants DEF Found
  <2>3. FlagTypes' /\ reboots' \in 0 .. MaxReboots
    BY DEF Found
  <2> QED
    BY <1>2, <1>11, <2>1, <2>2, <2>3 DEF Types, FlagTypes, Partition
<1>15. AllSound(runs', task', proof', fatal')
  <2>1. ASSUME NEW r \in 1 .. N PROVE Sound(runs'[r], task'[r], proof'[r], fatal')
    <3>1. r \in 1 .. MaxRuns /\ Sound(rows[r], tasks[r], proof'[r], fatal') /\ Told(runs'[r])
      BY <1>2, <1>12, <1>13
    <3>2. CASE r \notin started
      <4>1. runs'[r] = rows[r] /\ task'[r] = tasks[r]
        BY <1>11, <1>13, <3>1, <3>2
      <4> QED
        BY <3>1, <4>1
    <3>3. CASE r \in broken
      <4>1. runs'[r] = rows[r] /\ rows[r].status = "queued"
        BY <1>6, <1>13, <3>3
      <4>2. task'[r].pc = "leaving" /\ ~ task'[r].rejected
        BY <1>11, <3>1, <3>3
      <4> QED
        BY <3>1, <4>1, <4>2 DEF Sound
    <3>4. CASE r \in started /\ r \notin broken
      <4>1. /\ runs'[r].status = "running" /\ rows[r].status = "queued"
            /\ runs'[r].artifacts = rows[r].artifacts
        BY <1>6, <1>13, <3>4 DEF SameRun
      <4>2. task'[r].pc \in {"uncertain", "refused", "prompt"}
        BY <1>10, <1>11, <3>1, <3>4
      <4> QED
        BY <3>1, <4>1, <4>2 DEF Sound
    <3> QED
      BY <3>2, <3>3, <3>4
  <2>2. ASSUME NEW r \in 1 .. MaxRuns, r > N
        PROVE  task'[r].pc = "none" /\ ~ task'[r].rejected /\ proof'[r] = "none"
    <3>1. r \notin started
      BY <1>2, <1>6, <2>2
    <3> QED
      BY <1>11, <2>2, <3>1 DEF Found, AllSound, N
  <2> QED
    BY <1>13, <2>1, <2>2 DEF AllSound
<1>16. Sessions(conversations', runs')
  <2>1. \A r \in 1 .. N :
          /\ runs'[r].conversation = rows[r].conversation
          /\ runs'[r].generation = rows[r].generation
          /\ runs'[r].status \in {"queued", "running"} <=> rows[r].status \in {"queued", "running"}
          /\ runs'[r].status = "execution_unknown" <=> rows[r].status = "execution_unknown"
    BY <1>6, <1>13 DEF SameRun
  <2>2. Sessions(conversations', rows) /\ Len(runs') = N /\ Len(rows) = N
    BY <1>13 DEF Found, N
  <2> QED
    BY <2>1, <2>2 DEF Sessions
<1>17. /\ pending' \in Seq(1 .. N) /\ Len(pending') = Len(queue) - n /\ Len(pending') \in Nat
       /\ \A i \in 1 .. Len(pending') :
            /\ n + i \in 1 .. Len(queue) /\ pending'[i] = queue[n + i]
            /\ pending'[i] \in 1 .. N /\ pending'[i] \in 1 .. MaxRuns /\ pending'[i] \notin started
  <2>1. /\ pending' \in Seq(1 .. N) /\ Len(pending') = Len(queue) - n
        /\ \A i \in 1 .. Len(pending') : pending'[i] = queue[n + i]
    BY <1>1, <1>3, <1>5, RestOfQueue
  <2>2. Len(pending') \in Nat /\ \A i \in 1 .. Len(pending') : n + i \in 1 .. Len(queue) /\ ~ (n + i <= n)
    BY <1>3, <1>5, <2>1
  <2> QED
    BY <1>2, <1>3, <1>8, <2>1, <2>2
<1>18. Lined(pending', runs', task')
  <2>1. ASSUME NEW i \in 1 .. Len(pending')
        PROVE  runs'[pending'[i]].status = "queued" /\ task'[pending'[i]].pc = "none"
    <3>1. PICK q \in 1 .. N : /\ pending'[i] = q /\ q \in 1 .. MaxRuns /\ q \notin started
                             /\ rows[q].status = "queued" /\ tasks[q].pc = "none"
      BY <1>3, <1>17
    <3>2. runs'[q] = rows[q] /\ task'[q] = tasks[q]
      BY <1>11, <1>13, <3>1
    <3> QED
      BY <3>1, <3>2
  <2>2. \A i, j \in 1 .. Len(pending') : pending'[i] = pending'[j] => i = j
    <3>1. ASSUME NEW i \in 1 .. Len(pending'), NEW j \in 1 .. Len(pending'),
                 pending'[i] = pending'[j]
          PROVE  i = j
      <4>1. n + i = n + j
        BY <1>3, <1>17, <3>1
      <4> QED
        BY <1>5, <1>17, <4>1
    <3> QED
      BY <3>1
  <2> QED
    BY <1>13, <1>17, <2>1, <2>2 DEF Lined
<1>19. Prompted(runs', task', runtimeUnavailable')
  <2> USE DEF N
  <2>1. Prompted(rows, tasks, runtimeUnavailable') /\ runtimeUnavailable' \in BOOLEAN
    BY DEF Found, FlagTypes
  <2>2. ASSUME NEW r \in 1 .. N, task'[r].pc = "prompt"
        PROVE  /\ runs'[r].status = "running" \/ runtimeUnavailable'
               /\ r \notin started => /\ tasks[r].pc = "prompt"
                                      /\ runs'[r].conversation = rows[r].conversation
    <3>1. r \notin broken
      BY <1>2, <1>11, <2>2
    <3>2. CASE r \in started
      BY <1>13, <3>1, <3>2
    <3>3. CASE r \notin started
      <4>1. tasks[r].pc = "prompt" /\ runs'[r] = rows[r]
        BY <1>2, <1>11, <1>13, <2>2, <3>3
      <4> QED
        BY <2>1, <3>3, <4>1 DEF Prompted
    <3> QED
      BY <3>2, <3>3
  <2>3. ASSUME NEW r \in 1 .. N, NEW s \in 1 .. N, r # s,
               task'[r].pc = "prompt", task'[s].pc = "prompt"
        PROVE  runs'[r].conversation # runs'[s].conversation
    <3>1. CASE r \notin started /\ s \notin started
      BY <2>1, <2>2, <2>3, <3>1 DEF Prompted
    <3>2. CASE r \in started \/ s \in started
      <4>1. ~ runtimeUnavailable'
        BY <1>6, <3>2 DEF CanPump
      <4>2. runs'[r].status = "running" /\ runs'[s].status = "running"
        BY <2>1, <2>2, <2>3, <4>1
      <4> QED
        BY <1>2, <1>13, <1>16, <2>3, <4>2, InFlightApart
    <3> QED
      BY <3>1, <3>2
  <2> QED
    BY <1>13, <2>2, <2>3 DEF Prompted
<1>20. FlagsAgree'
  <2>1. closed' \/ closer' # "idle" => admissionStopped'
    BY DEF Found
  <2>2. ASSUME restarting'
        PROVE  /\ transition' \in {"restarting", "shut"}
               /\ \A r \in 1 .. MaxRuns : task'[r].pc # "prompt"
    <3>1. /\ transition' \in {"restarting", "shut"}
          /\ \A r \in 1 .. MaxRuns : tasks[r].pc # "prompt"
      BY <2>2 DEF Found
    <3> QED
      BY <1>10, <1>11, <2>2, <3>1
  <2> QED
    BY <2>1, <2>2 DEF FlagsAgree, At
<1>21. Active' = Busy(tasks) \cup started /\ Busy(tasks) \cap started = {}
  BY <1>6, <1>10, <1>11 DEF Active, Busy
<1>22. Cardinality(Active') = Cardinality(Busy(tasks)) + n
  <2>1. Cardinality(Busy(tasks) \cup started)
          = Cardinality(Busy(tasks)) + Cardinality(started) - Cardinality(Busy(tasks) \cap started)
    BY <1>4, <1>7, FS_Union
  <2>2. Cardinality(Active')
          = Cardinality(Busy(tasks)) + Cardinality(started) - Cardinality({})
    BY <1>21, <2>1
  <2> QED
    BY <1>4, <1>5, <1>7, <2>2, FS_EmptySet
<1>23. Cardinality(Active') <= Concurrency /\ (n = free => Cardinality(Active') = Concurrency)
  BY <1>4, <1>5, <1>22, CoordinatorConstants
<1>24. QueueMoves'
  <2>1. ASSUME faults' = 0, NEW r \in 1 .. N, runs'[r].status = "queued"
        PROVE  \E i \in 1 .. Len(pending') : pending'[i] = r
    <3>1. faults = 0 /\ Cardinality(broken) = 0
      BY <1>1, <1>9, <2>1 DEF Found
    <3>2. broken = {}
      BY <1>9, <3>1, FS_EmptySet
    <3>3. r \notin started /\ rows[r].status = "queued"
      BY <1>13, <2>1, <3>2
    <3>4. PICK i \in 1 .. Len(queue) : queue[i] = r
      BY <3>1, <3>3 DEF Found, N
    <3>5. i - n \in 1 .. Len(pending') /\ n + (i - n) = i
      BY <1>3, <1>5, <1>8, <1>17, <3>3, <3>4
    <3> QED
      BY <1>17, <3>4, <3>5
  <2>2. ASSUME pending' # << >>
        PROVE  \/ Cardinality(Active') = Concurrency
               \/ runtimeUnavailable' \/ admissionStopped' \/ fatal'
    <3>1. n # Len(queue)
      BY <1>17, <2>2, EmptySeq
    <3>2. CASE CanPump
      BY <1>5, <1>23, <3>1, <3>2
    <3>3. CASE ~ CanPump
      BY <3>3 DEF CanPump, Found
    <3> QED
      BY <3>2, <3>3
  <2>3. DOMAIN pending' = 1 .. Len(pending')
    BY <1>17
  <2> QED
    BY <1>13, <2>1, <2>2, <2>3 DEF QueueMoves, RowsIn, Rows
<1> QED
  BY <1>14, <1>15, <1>16, <1>18, <1>19, <1>20, <1>23, <1>24 DEF IInv

------------------------------------------------------------------------------
(***************************************************************************)
(* The steps that pump                                                     *)
(***************************************************************************)

\* An admitted run is the newest of its conversation, is queued, and the pump runs.
LEMMA AdmitKeepsInv ==
  ASSUME IInv, NEW c \in Conversation, Admit(c)
  PROVE  IInv'
<1> DEFINE N     == Len(runs)
           row   == QueuedRow(c)
           rows  == Append(runs, row)
           queue == Append(pending, N + 1)
<1>1. /\ UNCHANGED <<conversations, admissionStopped, closed, runtimeUnavailable, fatal,
                     transition, lost, restarting, closer, proof, reboots>>
      /\ CanAdmit(c) /\ N < MaxRuns /\ Pump(queue, task, rows)
  BY DEF Admit, flagVars, runtimeVars
<1>2. /\ StoreTypeOK /\ runs \in Seq(Row) /\ N \in Nat /\ MaxRuns \in Nat
      /\ Sessions(conversations, runs) /\ conversations[c].generation \in Nat
      /\ \A r \in 1 .. N : runs[r] \in Row
  BY LenProperties, ElementOfSeq, AguiConstants DEF IInv, Types, StoreTypeOK
<1>3. /\ row \in Row /\ row.conversation = c /\ row.generation = conversations[c].generation
      /\ row.status = "queued" /\ row.agui = << >> /\ row.artifacts = 0
  BY <1>2, EmptySeq DEF QueuedRow, Row, Status
<1> HIDE DEF row
<1>4. /\ rows \in Seq(Row) /\ Len(rows) = N + 1 /\ rows[N + 1] = row
      /\ \A r \in 1 .. N : rows[r] = runs[r]
  BY <1>2, <1>3, AppendProperties
<1> HIDE DEF rows
<1>5. /\ pending \in Seq(1 .. N) /\ Len(pending) \in Nat
      /\ \A i \in 1 .. Len(pending) : /\ pending[i] \in 1 .. N /\ runs[pending[i]].status = "queued"
                                      /\ task[pending[i]].pc = "none"
      /\ \A i, j \in 1 .. Len(pending) : pending[i] = pending[j] => i = j
  BY LenProperties, ElementOfSeq DEF IInv, Lined
<1>6. /\ queue \in Seq(1 .. N + 1) /\ Len(queue) = Len(pending) + 1
      /\ queue[Len(pending) + 1] = N + 1
      /\ \A i \in 1 .. Len(pending) : queue[i] = pending[i]
  <2>1. pending \in Seq(1 .. N + 1)
    <3>1. \A i \in 1 .. Len(pending) : pending[i] \in 1 .. N + 1
      BY <1>2, <1>5
    <3>2. pending = [i \in 1 .. Len(pending) |-> pending[i]]
      BY <1>5
    <3> QED
      BY <1>5, <3>1, <3>2, SeqDef
  <2>2. N + 1 \in 1 .. N + 1
    BY <1>2
  <2> QED
    BY <2>1, <2>2, AppendProperties
<1> HIDE DEF queue
<1>7. task[N + 1].pc = "none" /\ ~ task[N + 1].rejected /\ proof[N + 1] = "none"
      /\ N + 1 \in 1 .. MaxRuns
  BY <1>1, <1>2 DEF IInv, AllSound
<1>8. AllSound(rows, task, proof, fatal)
  <2>1. \A r \in 1 .. N : Sound(runs[r], task[r], proof[r], fatal)
    BY DEF IInv, AllSound
  <2>2. Sound(row, task[N + 1], proof[N + 1], fatal)
    BY <1>3, <1>7 DEF Sound, Told
  <2>3. ASSUME NEW r \in 1 .. N + 1 PROVE Sound(rows[r], task[r], proof[r], fatal)
    <3>1. CASE r = N + 1
      BY <1>4, <2>2, <3>1
    <3>2. CASE r \in 1 .. N
      BY <1>4, <2>1, <3>2
    <3> QED
      BY <1>2, <3>1, <3>2
  <2> QED
    BY <1>2, <1>4, <2>3 DEF IInv, AllSound
<1>9. Sessions(conversations, rows)
  <2>1. /\ conversations[c].recovery = "active"
        /\ \A r \in 1 .. N : runs[r].conversation = c => runs[r].status \notin {"queued", "running"}
    BY <1>1 DEF CanAdmit, InFlight, Rows
  <2>2. \A r \in 1 .. N + 1 : r \in 1 .. N \/ r = N + 1
    BY <1>2
  <2>3. ASSUME NEW r \in 1 .. N
        PROVE  LET d == rows[r].conversation IN
               /\ conversations[d].recovery # "absent"
               /\ rows[r].generation <= conversations[d].generation
               /\ rows[r].status \in {"queued", "running"} =>
                    /\ conversations[d].recovery = "active"
                    /\ \A s \in 1 .. N + 1 : s > r => rows[s].conversation # d
               /\ rows[r].status = "execution_unknown" =>
                    \/ conversations[d].recovery = "blocked"
                    \/ conversations[d].generation > rows[r].generation
    <3>1. rows[r] = runs[r]
      BY <1>4
    <3>2. ASSUME runs[r].status \in {"queued", "running"}, NEW s \in 1 .. N + 1, s > r
          PROVE  rows[s].conversation # runs[r].conversation
      <4>1. CASE s = N + 1
        BY <1>3, <1>4, <2>1, <3>2, <4>1
      <4>2. CASE s \in 1 .. N
        BY <1>2, <1>4, <3>2, <4>2 DEF Sessions
      <4> QED
        BY <2>2, <4>1, <4>2
    <3> QED
      BY <1>2, <3>1, <3>2 DEF Sessions
  <2>4. LET d == row.conversation IN
        /\ conversations[d].recovery = "active" /\ row.generation <= conversations[d].generation
        /\ row.status = "queued"
    BY <1>2, <1>3, <2>1
  <2>5. ASSUME NEW r \in 1 .. N + 1
        PROVE  LET d == rows[r].conversation IN
               /\ conversations[d].recovery # "absent"
               /\ rows[r].generation <= conversations[d].generation
               /\ rows[r].status \in {"queued", "running"} =>
                    /\ conversations[d].recovery = "active"
                    /\ \A s \in 1 .. N + 1 : s > r => rows[s].conversation # d
               /\ rows[r].status = "execution_unknown" =>
                    \/ conversations[d].recovery = "blocked"
                    \/ conversations[d].generation > rows[r].generation
    <3>1. CASE r = N + 1
      <4>1. rows[r] = row /\ \A s \in 1 .. N + 1 : ~ (s > r)
        BY <1>2, <1>4, <3>1
      <4> QED
        BY <2>4, <4>1
    <3>2. CASE r \in 1 .. N
      BY <2>3, <3>2
    <3> QED
      BY <2>2, <3>1, <3>2
  <2>6. ASSUME NEW r \in 1 .. N + 1, NEW s \in 1 .. N + 1, rows[r].status = "execution_unknown",
               s > r, rows[s].conversation = rows[r].conversation
        PROVE  rows[s].generation > rows[r].generation
    <3>1. r \in 1 .. N /\ rows[r] = runs[r]
      BY <1>2, <1>4, <2>6
    <3>2. CASE s = N + 1
      BY <1>2, <1>3, <1>4, <2>1, <2>6, <3>1, <3>2 DEF Sessions
    <3>3. CASE s \in 1 .. N
      BY <1>2, <1>4, <2>6, <3>1, <3>3 DEF Sessions
    <3> QED
      BY <2>2, <3>2, <3>3
  <2> QED
    BY <1>4, <2>5, <2>6 DEF Sessions
<1>10. Lined(queue, rows, task)
  <2>1. \A i \in 1 .. Len(queue) : i \in 1 .. Len(pending) \/ i = Len(pending) + 1
    BY <1>5, <1>6
  <2>2. ASSUME NEW i \in 1 .. Len(queue)
        PROVE  rows[queue[i]].status = "queued" /\ task[queue[i]].pc = "none"
    <3>1. CASE i = Len(pending) + 1
      BY <1>3, <1>4, <1>6, <1>7, <3>1
    <3>2. CASE i \in 1 .. Len(pending)
      BY <1>4, <1>5, <1>6, <3>2
    <3> QED
      BY <2>1, <3>1, <3>2
  <2>3. ASSUME NEW i \in 1 .. Len(queue), NEW j \in 1 .. Len(queue), queue[i] = queue[j]
        PROVE  i = j
    <3>1. \A k \in 1 .. Len(pending) : queue[k] # N + 1
      <4>1. \A k \in 1 .. Len(pending) : queue[k] \in 1 .. N
        BY <1>5, <1>6
      <4> QED
        BY <1>2, <4>1
    <3> QED
      BY <1>5, <1>6, <2>1, <2>3, <3>1
  <2> QED
    BY <1>4, <1>6, <2>2, <2>3 DEF Lined
<1>11. Prompted(rows, task, runtimeUnavailable)
  <2>1. \A r \in 1 .. N + 1 : task[r].pc = "prompt" => r \in 1 .. N
    BY <1>2, <1>7
  <2> QED
    BY <1>4, <2>1 DEF IInv, Prompted
<1>12. Found(queue, task, rows)
  <2>1. Len(rows) <= MaxRuns /\ task \in [1 .. MaxRuns -> Task]
    BY <1>1, <1>2, <1>4 DEF IInv, Types
  <2>2. /\ conversations' \in [Conversation -> [recovery : {"absent", "active", "blocked"},
                                                generation : Nat]]
        /\ proof' \in [1 .. MaxRuns -> Partition]
    BY <1>1, <1>2 DEF StoreTypeOK, IInv, Types, Partition
  <2>3. Cardinality(Busy(task)) <= Concurrency
    BY DEF IInv, Active, Busy
  <2>4. FlagTypes' /\ (closed' \/ closer' # "idle" => admissionStopped')
    BY <1>1 DEF IInv, Types, FlagTypes, FlagsAgree
  <2>5. restarting' => /\ transition' \in {"restarting", "shut"}
                       /\ \A r \in 1 .. MaxRuns : task[r].pc # "prompt"
    BY <1>1 DEF IInv, FlagsAgree, At
  <2>6. faults \in Nat /\ reboots' \in 0 .. MaxReboots
    BY <1>1, CoordinatorConstants DEF IInv, Types
  <2>7. ASSUME faults = 0, NEW r \in 1 .. Len(rows), rows[r].status = "queued"
        PROVE  \E i \in 1 .. Len(queue) : queue[i] = r
    <3>1. CASE r = N + 1
      BY <1>5, <1>6, <3>1
    <3>2. CASE r \in 1 .. N
      <4>1. \E i \in 1 .. Len(pending) : pending[i] = r
        BY <1>4, <1>5, <2>7, <3>2 DEF IInv, QueueMoves, RowsIn, Rows
      <4> QED
        BY <1>5, <1>6, <4>1
    <3> QED
      BY <1>2, <1>4, <3>1, <3>2
  <2> QED
    BY <1>1, <1>4, <1>8, <1>9, <1>10, <1>11, <2>1, <2>2, <2>3, <2>4, <2>5, <2>6, <2>7 DEF Found
<1> QED
  BY <1>1, <1>12, PumpKeepsInv

\* What is common to the steps that pump the rows and the queue they find.
LEMMA PumpAgain ==
  ASSUME IInv, NEW tasks \in [1 .. MaxRuns -> Task],
         \A r \in 1 .. MaxRuns : \/ tasks[r] = task[r]
                                 \/ tasks[r] = NoTask /\ task[r].pc # "none"
                                    /\ runs[r].status # "running",
         UNCHANGED <<conversations, admissionStopped, closed, fatal, closer, proof, reboots>>,
         runtimeUnavailable' = runtimeUnavailable \/ \A r \in 1 .. MaxRuns : ~ At(r, "prompt"),
         runtimeUnavailable' \in BOOLEAN, lost' \in BOOLEAN, restarting' \in BOOLEAN,
         transition' \in {"idle", "restarting", "shut"},
         restarting' => restarting /\ transition' = transition,
         Pump(pending, tasks, runs)
  PROVE  IInv'
<1>1. /\ StoreTypeOK /\ Len(runs) \in Nat /\ Len(runs) <= MaxRuns /\ MaxRuns \in Nat
      /\ \A r \in 1 .. Len(runs) : r \in 1 .. MaxRuns
      /\ task \in [1 .. MaxRuns -> Task]
  BY LenProperties, AguiConstants DEF IInv, Types, StoreTypeOK
<1>2. NoTask.pc = "none" /\ ~ NoTask.rejected
  BY DEF NoTask
<1>3. AllSound(runs, tasks, proof, fatal)
  <2>1. ASSUME NEW r \in 1 .. Len(runs) PROVE Sound(runs[r], tasks[r], proof[r], fatal)
    <3>1. Sound(runs[r], task[r], proof[r], fatal)
      BY DEF IInv, AllSound
    <3>2. CASE tasks[r] = task[r]
      BY <3>1, <3>2
    <3>3. CASE tasks[r] = NoTask /\ runs[r].status # "running"
      BY <1>2, <3>1, <3>3 DEF Sound
    <3> QED
      BY <1>1, <3>2, <3>3
  <2>2. \A r \in 1 .. MaxRuns : r > Len(runs) => /\ tasks[r].pc = "none" /\ ~ tasks[r].rejected
                                                 /\ proof[r] = "none"
    BY <1>2 DEF IInv, AllSound
  <2> QED
    BY <2>1, <2>2 DEF AllSound
<1>4. Lined(pending, runs, tasks)
  <2>1. /\ pending \in Seq(1 .. Len(runs))
        /\ \A i \in 1 .. Len(pending) : pending[i] \in 1 .. MaxRuns /\ task[pending[i]].pc = "none"
    BY <1>1, ElementOfSeq DEF IInv, Lined
  <2>2. \A i \in 1 .. Len(pending) : tasks[pending[i]].pc = "none"
    BY <2>1
  <2> QED
    BY <2>2 DEF IInv, Lined
<1>5. \A r \in 1 .. MaxRuns : tasks[r].pc = "prompt" => task[r].pc = "prompt"
  BY <1>2
<1>6. Prompted(runs, tasks, runtimeUnavailable')
  BY <1>1, <1>5 DEF IInv, Prompted, At
<1>7. Cardinality(Busy(tasks)) <= Concurrency
  <2>1. Busy(tasks) \subseteq Active
    BY <1>2 DEF Busy, Active
  <2>2. /\ Cardinality(Busy(tasks)) <= Cardinality(Active)
        /\ Cardinality(Busy(tasks)) \in Nat /\ Cardinality(Active) \in Nat
    BY <2>1, ActiveIsFinite, FS_Subset, FS_CardinalityType
  <2> QED
    BY <2>2, CoordinatorConstants DEF IInv
<1>8. /\ conversations' \in [Conversation -> [recovery : {"absent", "active", "blocked"},
                                              generation : Nat]]
      /\ proof' \in [1 .. MaxRuns -> Partition]
  BY <1>1 DEF StoreTypeOK, IInv, Types, Partition
<1>9. FlagTypes' /\ (closed' \/ closer' # "idle" => admissionStopped')
  BY DEF IInv, Types, FlagTypes, FlagsAgree
<1>10. restarting' => /\ transition' \in {"restarting", "shut"}
                      /\ \A r \in 1 .. MaxRuns : tasks[r].pc # "prompt"
  BY <1>5 DEF IInv, FlagsAgree, At
<1>11. faults \in Nat /\ reboots' \in 0 .. MaxReboots
  BY CoordinatorConstants DEF IInv, Types
<1>12. faults = 0 => \A r \in 1 .. Len(runs) : runs[r].status = "queued" =>
                       \E i \in 1 .. Len(pending) : pending[i] = r
  <2>1. DOMAIN pending = 1 .. Len(pending)
    BY DEF IInv, Lined
  <2> QED
    BY <2>1 DEF IInv, QueueMoves, RowsIn, Rows
<1>13. runs \in Seq(Row) /\ Sessions(conversations', runs)
  BY <1>1 DEF IInv, StoreTypeOK
<1>14. Found(pending, tasks, runs)
  BY <1>1, <1>3, <1>4, <1>6, <1>7, <1>8, <1>9, <1>10, <1>11, <1>12, <1>13 DEF Found
<1> QED
  BY <1>14, PumpKeepsInv

\* An execution leaves its slot, and the pump runs.
LEMMA LeaveKeepsInv ==
  ASSUME IInv, NEW r \in 1 .. MaxRuns, Leave(r)
  PROVE  IInv'
<1>1. CASE task[r].rejected
  BY <1>1, RejectedLeaveKeepsInv
<1>2. CASE ~ task[r].rejected
  <2> DEFINE tasks == [task EXCEPT ![r] = NoTask]
  <2>1. /\ task[r].pc = "leaving" /\ Pump(pending, tasks, runs)
        /\ UNCHANGED <<conversations, admissionStopped, closed, runtimeUnavailable, fatal,
                       transition, lost, restarting, closer, proof, reboots>>
    BY <1>2 DEF Leave, At, runtimeVars
  <2>2. Sound(runs[r], task[r], proof[r], fatal)
    BY <2>1, RunFacts
  <2>3. runs[r].status # "running"
    BY <1>2, <2>1, <2>2 DEF Sound
  <2>4. /\ tasks \in [1 .. MaxRuns -> Task] /\ tasks[r] = NoTask
        /\ \A q \in 1 .. MaxRuns : q # r => tasks[q] = task[q]
    BY DEF NoTask, Task, Pc, IInv, Types
  <2> HIDE DEF tasks
  <2>5. /\ runtimeUnavailable' \in BOOLEAN /\ lost' \in BOOLEAN /\ restarting' \in BOOLEAN
        /\ transition' \in {"idle", "restarting", "shut"}
    BY <2>1 DEF IInv, Types
  <2>6. \A q \in 1 .. MaxRuns : \/ tasks[q] = task[q]
                                \/ tasks[q] = NoTask /\ task[q].pc # "none"
                                   /\ runs[q].status # "running"
    BY <2>1, <2>3, <2>4
  <2> QED
    BY <2>1, <2>4, <2>5, <2>6, PumpAgain
<1> QED
  BY <1>1, <1>2

\* After a restart the pump runs for what waited.
LEMMA RestartDoneKeepsInv == IInv /\ RestartDone => IInv'
<1> SUFFICES ASSUME IInv, RestartDone PROVE IInv'
  OBVIOUS
<1>1. /\ restarting' = FALSE /\ lost' = FALSE /\ runtimeUnavailable' = FALSE
      /\ transition' \in {"shut", "idle"} /\ Pump(pending, task, runs)
      /\ UNCHANGED <<conversations, admissionStopped, closed, fatal, closer, proof, reboots>>
  BY DEF RestartDone
<1>2. \A r \in 1 .. MaxRuns : ~ At(r, "prompt")
  BY DEF RestartDone, IInv, FlagsAgree
<1>3. task \in [1 .. MaxRuns -> Task]
  BY DEF IInv, Types
<1> QED
  BY <1>1, <1>2, <1>3, PumpAgain

\* The process that comes up finds every run that was running unknown, and queues every run
\* that was queued.
LEMMA RebootKeepsInv == IInv /\ Reboot => IInv'
<1> SUFFICES ASSUME IInv, Reboot PROVE IInv'
  OBVIOUS
<1> DEFINE rows  == Unknown(runs, Recovered)
           tasks == [r \in 1 .. MaxRuns |-> NoTask]
           S     == Requeued
           N     == Len(runs)
<1>1. /\ admissionStopped' = FALSE /\ closed' = FALSE
      /\ runtimeUnavailable' = FALSE /\ fatal' = FALSE
      /\ transition' = "idle" /\ lost' = FALSE /\ restarting' = FALSE /\ closer' = "idle"
      /\ conversations' = Blocked(Recovered) /\ UNCHANGED proof
      /\ reboots < MaxReboots /\ reboots' = reboots + 1
  BY DEF Reboot
<1>2. PICK queue \in OldestFirst(S) : Pump(queue, tasks, rows)
  BY DEF Reboot
<1>3. /\ StoreTypeOK /\ Sessions(conversations, runs) /\ N \in Nat /\ N <= MaxRuns /\ MaxRuns \in Nat
      /\ Rows = 1 .. N /\ \A r \in 1 .. N : r \in 1 .. MaxRuns
  BY LenProperties, AguiConstants DEF IInv, Types, StoreTypeOK, Rows
<1>4. Recovered \in SUBSET Rows /\ \A r \in Recovered : runs[r].status = "running"
  BY DEF Recovered, RowsIn
<1>5. /\ Settles(Recovered, rows)
      /\ \A r \in Rows : rows[r] = IF r \in Recovered THEN UnknownRow(runs[r]) ELSE runs[r]
  BY <1>4, UnknownTable
<1>6. Sessions(conversations', rows)
  BY <1>1, <1>3, <1>4, <1>5, SessionsSettle
<1>7. NoTask \in Task /\ NoTask.pc = "none" /\ ~ NoTask.rejected
  BY DEF NoTask, Task, Pc
<1>8. tasks \in [1 .. MaxRuns -> Task] /\ \A r \in 1 .. MaxRuns : tasks[r] = NoTask
  BY <1>7
<1> HIDE DEF rows, tasks
<1>9. rows \in Seq(Row) /\ Len(rows) = N
  BY <1>5 DEF Settles
<1>10. AllSound(rows, tasks, proof, FALSE)
  <2>1. ASSUME NEW r \in 1 .. N PROVE Sound(rows[r], tasks[r], proof[r], FALSE)
    <3>1. /\ runs[r] \in Row /\ Told(runs[r]) /\ Sound(runs[r], task[r], proof[r], fatal)
          /\ r \in 1 .. MaxRuns /\ r \in Rows
      BY <1>3, RunFacts
    <3>2. CASE r \in Recovered
      <4>1. /\ rows[r].status = "execution_unknown" /\ Told(rows[r])
            /\ rows[r].artifacts = runs[r].artifacts
        BY <1>4, <1>5, <3>1, <3>2, UnknownTold DEF SameRun
      <4> QED
        BY <1>7, <1>8, <3>1, <4>1 DEF Sound
    <3>3. CASE r \notin Recovered
      <4>1. rows[r] = runs[r] /\ runs[r].status # "running"
        BY <1>5, <3>1, <3>3 DEF Recovered, RowsIn
      <4> QED
        BY <1>7, <1>8, <3>1, <4>1 DEF Sound
    <3> QED
      BY <3>2, <3>3
  <2>2. \A r \in 1 .. MaxRuns : r > N => proof[r] = "none"
    BY DEF IInv, AllSound
  <2> QED
    BY <1>7, <1>8, <1>9, <2>1, <2>2 DEF AllSound
<1>11. /\ S \subseteq 1 .. N /\ \A r \in 1 .. N : r \in S <=> rows[r].status = "queued"
  <2>1. ASSUME NEW r \in 1 .. N PROVE rows[r].status = "queued" <=> runs[r].status = "queued"
    BY <1>3, <1>5, <2>1 DEF Settles
  <2>2. ASSUME NEW r \in 1 .. N, runs[r].status = "queued"
        PROVE  conversations'[runs[r].conversation].recovery = "active"
    <3>1. rows[r].conversation = runs[r].conversation /\ rows[r].status = "queued"
      BY <1>3, <1>5, <2>1, <2>2 DEF Settles
    <3> QED
      BY <1>6, <1>9, <3>1 DEF Sessions
  <2> QED
    BY <1>3, <2>1, <2>2 DEF Requeued, RowsIn
<1>12. Cardinality(S) \in Nat
  <2>1. S \subseteq 1 .. MaxRuns
    BY <1>3, <1>11
  <2> QED
    BY <2>1, ActiveIsFinite, FS_Subset, FS_CardinalityType
<1> HIDE DEF S
<1>13. /\ queue \in [1 .. Cardinality(S) -> S]
       /\ \A i, j \in 1 .. Cardinality(S) : i < j => queue[i] < queue[j]
       /\ \A r \in S : \E i \in 1 .. Cardinality(S) : queue[i] = r
  BY <1>2 DEF OldestFirst
<1>14. queue \in Seq(1 .. N) /\ Len(queue) = Cardinality(S)
  <2>1. queue \in [1 .. Cardinality(S) -> 1 .. N]
    BY <1>11, <1>13
  <2> QED
    BY <1>12, <2>1, TableOf
<1>15. Lined(queue, rows, tasks)
  <2>1. ASSUME NEW i \in 1 .. Len(queue)
        PROVE  rows[queue[i]].status = "queued" /\ tasks[queue[i]].pc = "none" /\ queue[i] \in Nat
    <3>1. queue[i] \in S /\ queue[i] \in 1 .. N
      BY <1>11, <1>13, <1>14
    <3> QED
      BY <1>3, <1>7, <1>8, <1>11, <3>1
  <2>2. ASSUME NEW i \in 1 .. Len(queue), NEW j \in 1 .. Len(queue), queue[i] = queue[j]
        PROVE  i = j
    <3>1. ~ (i < j) /\ ~ (j < i)
      BY <1>13, <1>14, <2>1, <2>2
    <3> QED
      BY <1>12, <1>14, <3>1
  <2> QED
    BY <1>9, <1>14, <2>1, <2>2 DEF Lined
<1>16. Prompted(rows, tasks, runtimeUnavailable')
  BY <1>3, <1>7, <1>8, <1>9 DEF Prompted
<1>17. Cardinality(Busy(tasks)) <= Concurrency
  <2>1. Busy(tasks) = {}
    BY <1>7, <1>8 DEF Busy
  <2> QED
    BY <2>1, FS_EmptySet, CoordinatorConstants
<1>18. /\ conversations' \in [Conversation -> [recovery : {"absent", "active", "blocked"},
                                               generation : Nat]]
       /\ proof' \in [1 .. MaxRuns -> Partition]
  BY <1>1, <1>3, <1>4, BlockedTypes DEF IInv, Types, Partition
<1>19. FlagTypes' /\ faults \in Nat /\ reboots' \in 0 .. MaxReboots
  <2>1. FlagTypes'
    BY <1>1 DEF FlagTypes
  <2>2. faults \in 0 .. MaxFaults /\ reboots \in 0 .. MaxReboots
    BY DEF IInv, Types
  <2> QED
    BY <1>1, <2>1, <2>2, CoordinatorConstants
<1>20. \A r \in 1 .. Len(rows) : rows[r].status = "queued" =>
         \E i \in 1 .. Len(queue) : queue[i] = r
  BY <1>9, <1>11, <1>13, <1>14
<1>21. Found(queue, tasks, rows)
  BY <1>1, <1>3, <1>6, <1>8, <1>9, <1>10, <1>15, <1>16, <1>17, <1>18, <1>19, <1>20 DEF Found
<1> QED
  BY <1>2, <1>21, PumpKeepsInv

------------------------------------------------------------------------------
(***************************************************************************)
(* The theorems                                                            *)
(***************************************************************************)

\* Every step keeps the invariant.
LEMMA NextKeepsInv == IInv /\ [Next]_vars => IInv'
<1> SUFFICES ASSUME IInv, [Next]_vars PROVE IInv'
  OBVIOUS
<1>1. CASE UNCHANGED vars
  <2>1. UNCHANGED <<conversations, runs, task, pending, proof, faults, reboots, admissionStopped,
                    closed, runtimeUnavailable, fatal, transition, lost, restarting, closer>>
    BY <1>1 DEF vars, storeVars, flagVars, runtimeVars, bounds
  <2>2. FlagsGrow
    BY <2>1 DEF FlagsGrow, FlagTypes, FlagsAgree, At, IInv, Types
  <2> QED
    BY <2>1, <2>2, FlagStep
<1>2. ASSUME NEW c \in Conversation, Create(c) \/ Acknowledge(c) \/ Admit(c)
      PROVE  IInv'
  BY <1>2, ConversationKeepsInv, AdmitKeepsInv
<1>3. ASSUME NEW r \in 1 .. MaxRuns, Agent(r)
      PROVE  IInv'
  BY <1>3, NotificationKeepsInv, RunFailsKeepsInv, RunReturnsKeepsInv, RunUncertainKeepsInv DEF Agent
<1>4. ASSUME NEW r \in 1 .. MaxRuns, Settle(r)
      PROVE  IInv'
  BY <1>4, SnapshotKeepsInv, SucceedsKeepsInv, FinalSnapshotKeepsInv, FinalCleanupKeepsInv,
     LeaveKeepsInv DEF Settle
<1>5. CASE RestartCall \/ RestartFails \/ ShutdownCall \/ CloseCall \/ ShutdownIdle
           \/ ShutdownClosed \/ ShutdownForced
  BY <1>5, FlagActions
<1>6. CASE RestartDone \/ GraceExpires \/ Reboot
  BY <1>6, RestartDoneKeepsInv, GraceExpiresKeepsInv, RebootKeepsInv
<1> QED
  BY <1>1, <1>2, <1>3, <1>4, <1>5, <1>6 DEF Next

\* Rows, executions, queue and flags of the coordinator always agree: the invariant every
\* theorem below is read from.
THEOREM AguiInvariance == Spec => []IInv
<1>1. IInv /\ [Next]_vars => IInv'
  BY NextKeepsInv
<1> QED
  BY <1>1, InitInv, PTL DEF Spec

\* The agent never has two prompts of one conversation, whatever is settled, acknowledged,
\* restarted or shut down meanwhile.
THEOREM OnePromptEach == Spec => []ConversationExclusive
<1>1. IInv => ConversationExclusive
  BY InvIsEnough
<1> QED
  BY <1>1, AguiInvariance, PTL

\* A session whose outcome is unknown is never used again.
THEOREM SessionsRetired == Spec => []UnknownSessionRetired
<1>1. IInv => UnknownSessionRetired
  BY InvIsEnough
<1> QED
  BY <1>1, AguiInvariance, PTL

\* Never more executions than slots, and every row that has not ended has its execution or
\* its place in a queue that moves, or the coordinator has latched an error.
THEOREM NobodyForgotten == Spec => []NoRunIsForgotten
<1>1. IInv => NoRunIsForgotten
  BY InvIsEnough
<1> QED
  BY <1>1, AguiInvariance, PTL

\* The AG-UI channel tells the run: it starts and ends with the row, once.
THEOREM TranscriptsTell == Spec => []TranscriptTellsRun
<1>1. IInv => TranscriptTellsRun
  BY InvIsEnough
<1> QED
  BY <1>1, AguiInvariance, PTL

\* A proof is deleted only when it is stored, and a run that succeeded has stored one.
THEOREM ProofsSurvive == Spec => []ProofSurvives
<1>1. IInv => ProofSurvives
  BY InvIsEnough
<1> QED
  BY <1>1, AguiInvariance, PTL
=============================================================================
