------------------------------- MODULE AguiStore -------------------------------
(***************************************************************************)
(* The SQLite tables of the AG-UI runtime (projects/ag-ui-dsh-runtime,     *)
(* server/store.ts).  DatabaseSync is synchronous and every method is one  *)
(* transaction, so what a method does to the tables is an operator on      *)
(* their values; the coordinator composes several within one step.         *)
(*                                                                         *)
(* runs is in insertion order, which is also admission_seq within a        *)
(* conversation and created_at across them.  A run id that exists already  *)
(* changes nothing, so the ids are the positions.                          *)
(***************************************************************************)
EXTENDS Naturals, Sequences, FiniteSets

CONSTANTS
  Conversation,  \* ids POST /api/conversations may be given
  MaxRuns,       \* bound on the rows of runs
  MaxNotes       \* bound on the events projected for a run

ASSUME AguiConstants == MaxRuns \in Nat /\ MaxNotes \in Nat

VARIABLES
  conversations,  \* [recovery, generation]; the session ref is dsh-<id>-g<generation>
  runs            \* the run rows with the events and artifacts that refer to them

storeVars == <<conversations, runs>>

Status   == {"queued", "running", "succeeded", "failed", "execution_unknown"}
Terminal == {"succeeded", "failed", "execution_unknown"}

\* Of run_events the channel ag-ui is kept: the channel business repeats the status, and
\* nothing here reads the channel raw-dsh.
Row == [ conversation : Conversation, generation : Nat, status : Status,
         agui : Seq({"RUN_STARTED", "projected", "RUN_FINISHED", "RUN_ERROR"}),
         artifacts : Nat ]

Rows       == 1 .. Len(runs)
RowsIn(s)  == {r \in Rows : runs[r].status = s}
InFlight(r) == runs[r].status \in {"queued", "running"}

------------------------------------------------------------------------------
(***************************************************************************)
(* Statements                                                              *)
(***************************************************************************)

\* insertEvent on the channel ag-ui.
Logged(row, type) == [row EXCEPT !.agui = Append(@, type)]

\* admitRun inserts: the conversation exists and is not blocked, and the index
\* one_active_run_per_conversation has room.
CanAdmit(c) ==
  /\ conversations[c].recovery = "active"
  /\ ~ \E r \in Rows : runs[r].conversation = c /\ InFlight(r)

QueuedRow(c) ==
  [ conversation |-> c, generation |-> conversations[c].generation, status |-> "queued",
    agui |-> << >>, artifacts |-> 0 ]

StartedRow(row) == Logged([row EXCEPT !.status = "running"], "RUN_STARTED")

\* finishRun raises unless the run is running.
FinishedRow(row, status) ==
  IF row.status = "running"
  THEN Logged([row EXCEPT !.status = status],
              IF status = "succeeded" THEN "RUN_FINISHED" ELSE "RUN_ERROR")
  ELSE row

UnknownRow(row) == Logged([row EXCEPT !.status = "execution_unknown"], "RUN_ERROR")

\* markExecutionUnknown for the runs in R: their rows, and their conversations.
Unknown(rows, R) ==
  [r \in DOMAIN rows |-> IF r \in R THEN UnknownRow(rows[r]) ELSE rows[r]]

Blocked(R) ==
  [c \in Conversation |->
     IF \E r \in R : runs[r].conversation = c
     THEN [conversations[c] EXCEPT !.recovery = "blocked"]
     ELSE conversations[c]]

------------------------------------------------------------------------------
(***************************************************************************)
(* Transactions that stand alone                                           *)
(***************************************************************************)

CreateConversation(c) ==
  /\ conversations[c].recovery = "absent"
  /\ conversations' = [conversations EXCEPT ![c] = [recovery |-> "active", generation |-> 1]]
  /\ UNCHANGED runs

\* Mutant: the acknowledgement keeps the session.
AcknowledgeUnknown_KeepsSession(c) ==
  /\ conversations[c].recovery = "blocked"
  /\ conversations' = [conversations EXCEPT ![c].recovery = "active"]
  /\ UNCHANGED runs

\* The route names the next session ref after the next generation.
AcknowledgeUnknown(c) ==
  /\ conversations[c].recovery = "blocked"
  /\ conversations' = [conversations EXCEPT
                         ![c] = [recovery |-> "active", generation |-> @.generation + 1]]
  /\ UNCHANGED runs

StoreInit ==
  /\ conversations = [c \in Conversation |-> [recovery |-> "absent", generation |-> 0]]
  /\ runs = << >>

StoreTypeOK ==
  /\ conversations \in [Conversation -> [recovery : {"absent", "active", "blocked"},
                                         generation : Nat]]
  /\ runs \in Seq(Row)
  /\ Len(runs) <= MaxRuns
===============================================================================
