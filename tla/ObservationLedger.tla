-------------------------- MODULE ObservationLedger --------------------------
(***************************************************************************)
(* ObservationLedger of labs/run-observability/src/core.ts, the records    *)
(* observed of several runs that share sessions, and its checkpoint file   *)
(* (snapshot.ts).  Records arrive in any order, more than once, and from   *)
(* logs that contradict each other; an event that does not project, and a  *)
(* record that does not fit, throws and changes nothing.                   *)
(***************************************************************************)
EXTENDS Integers, FiniteSets, FiniteSetsExt

CONSTANTS
  Run,
  Session,   \* pairs of a source and a session
  MaxSeq,    \* bound on the sequence numbers
  Tokens,    \* what a provider reports for an attempt
  None       \* usage that was not reported, no binding, no file

VARIABLES
  records,    \* the records; a key is a session and a sequence number
  runs,       \* the session each run is bound to
  disk,       \* the records in the checkpoint file
  temporary   \* those in the temporary file of the write in progress

ledgerVars == <<records, runs, disk, temporary>>

Usage == Tokens \cup {None}
Record == [session : Session, seq : 1 .. MaxSeq, run : Run,
           kind : {"message", "attempt", "other"}, usage : Usage]

SameKey(r, o) == o.session = r.session /\ o.seq = r.seq
Seqs(set, run) == {r.seq : r \in {o \in set : o.run = run}}

------------------------------------------------------------------------------
(***************************************************************************)
(* project: the usage of a settled attempt is the one at the top of a      *)
(* message or the last one in its stream; both must agree, and an          *)
(* uncommitted attempt has none at the top.                                *)
(***************************************************************************)
Projects(kind, top, embedded) ==
  /\ kind # "message" => top = None
  /\ kind = "other" => embedded = None
  /\ top = None \/ embedded = None \/ top = embedded

Projection(session, seq, run, kind, top, embedded) ==
  [session |-> session, seq |-> seq, run |-> run, kind |-> kind,
   usage |-> IF top # None THEN top ELSE embedded]

\* The intervals of sequence numbers of two runs overlap.
Overlap(S, T) == (\E a \in S, b \in T : a <= b) /\ (\E c \in T, d \in S : c <= d)

\* Mutant: only the new record itself is looked up in the intervals of the others.
Fits_RecordOnly(set, bound, r) ==
  /\ bound[r.run] \in {None, r.session}
  /\ \A q \in Run \ {r.run} :
       bound[q] = r.session => ~ Overlap({r.seq}, Seqs(set, q))

\* What add asks of a record with a new key: the binding of its run, and that the interval
\* of its run, with it, stays clear of every other run of the session.
Fits(set, bound, r) ==
  /\ bound[r.run] \in {None, r.session}
  /\ \A q \in Run \ {r.run} :
       bound[q] = r.session => ~ Overlap(Seqs(set, r.run) \cup {r.seq}, Seqs(set, q))

\* add, where it does not throw and is not shown a record it has.
Add(r) ==
  /\ \A o \in records : ~ SameKey(r, o)
  /\ Fits(records, runs, r)
  /\ records' = records \cup {r}
  /\ runs' = [runs EXCEPT ![r.run] = r.session]
  /\ UNCHANGED <<disk, temporary>>

Ingest ==
  \E session \in Session, seq \in 1 .. MaxSeq, run \in Run,
     kind \in {"message", "attempt", "other"}, top, embedded \in Usage :
    /\ Projects(kind, top, embedded)
    /\ Add(Projection(session, seq, run, kind, top, embedded))

------------------------------------------------------------------------------
(***************************************************************************)
(* Checkpoints                                                             *)
(***************************************************************************)

\* The binding that loading a set of records leaves.
Bound(set) == [run \in Run |-> IF \E r \in set : r.run = run
                               THEN (CHOOSE r \in set : r.run = run).session ELSE None]

\* fromRecords of the sorted records of a session accepts every one of them.
Loads(set) ==
  \A r \in set :
    LET before == {o \in set : o.session = r.session /\ o.seq < r.seq}
    IN Fits(before, Bound(before), r)

\* writeSnapshot exports and validates the records before it opens a file of its own.
Write ==
  /\ temporary = None
  /\ Loads(records)
  /\ temporary' = records
  /\ UNCHANGED <<records, runs, disk>>

\* Mutant: the checkpoint file is written in place, so that it may be left half written.
WriteEnds_InPlace ==
  /\ temporary # None
  /\ disk' \in {temporary, {}}
  /\ temporary' = None
  /\ UNCHANGED <<records, runs>>

\* The file is complete and renamed, or it is removed.
WriteEnds ==
  /\ temporary # None
  /\ disk' \in {temporary, disk}
  /\ temporary' = None
  /\ UNCHANGED <<records, runs>>

\* The process dies, and its successor starts from the checkpoint.
Restart ==
  /\ Loads(disk)
  /\ records' = disk
  /\ runs' = Bound(disk)
  /\ temporary' = None
  /\ UNCHANGED disk

LedgerInit ==
  /\ records = {}
  /\ runs = [run \in Run |-> None]
  /\ disk = {}
  /\ temporary = None

LedgerNext == Ingest \/ Write \/ WriteEnds \/ Restart

LedgerSpec == LedgerInit /\ [][LedgerNext]_ledgerVars

------------------------------------------------------------------------------
\* summary: the settled attempts of a run, how many have no usage, and what is known.
Summary(set, run) ==
  LET attempts == {r \in set : r.run = run /\ r.kind # "other"}
      missing  == {r \in attempts : r.usage = None}
  IN [attempts |-> Cardinality(attempts),
      missing  |-> Cardinality(missing),
      reported |-> MapThenSumSet(LAMBDA r : r.usage, attempts \ missing)]

LedgerTypeOK ==
  /\ records \in SUBSET Record /\ disk \in SUBSET Record
  /\ runs \in [Run -> Session \cup {None}]
  /\ temporary \in (SUBSET Record) \cup {None}

\* The runs of a session are intervals of its log that do not overlap, whatever order the
\* records arrived in, so that no attempt can be charged to two runs.
IntervalsDisjoint ==
  \A p, q \in Run :
    p # q /\ runs[p] = runs[q] => ~ Overlap(Seqs(records, p), Seqs(records, q))

\* A ledger can always be checkpointed and a checkpoint always be loaded, in the order of
\* the file and not in the one the records came in.
CheckpointLoads == Loads(records) /\ Loads(disk) /\ runs = Bound(records)

\* Of every ledger that is held or was written: no attempt belongs to two runs, and it is not
\* lost with the process.
LedgerIsSound == IntervalsDisjoint /\ CheckpointLoads

\* Of every run: neither the account a step leaves in the file nor the one it leaves in memory
\* is less than the one the file gave.
AccountsKept ==
  \A run \in Run :
    LET old == Summary(disk, run)
    IN \A account \in {Summary(disk', run), Summary(records', run)} :
         account.attempts >= old.attempts /\ account.reported >= old.reported

\* No account shrinks or is forgotten: not in the file, and a restart loses no attempt and no
\* usage that was checkpointed.
AccountsGrow == [][AccountsKept]_ledgerVars
================================================================================
