----------------------------- MODULE UploadProxy -----------------------------
(***************************************************************************)
(* The loopback proxy of labs/attachment-input/src/transport.ts: uploads   *)
(* to a remote Files service, deletions of this run's own uploads, and the *)
(* recovery file from which somebody can still delete them after a crash.  *)
(*                                                                         *)
(* The service keeps what it was sent although the answer is lost.         *)
(* Snapshots of the recovery file are taken at the call and written one    *)
(* after the other, each to a temporary file that is renamed.              *)
(***************************************************************************)
EXTENDS Naturals, Sequences, FiniteSets

CONSTANTS
  Upload,   \* uploads, each with the file the service makes of it
  None

VARIABLES
  remote,    \* the files of this run in the service
  upload,    \* how far each upload is
  owned,     \* the files the proxy knows to be its own
  open,      \* the entries of evidence.uploads that are not acknowledged
  deletion,  \* of a client and of cleanup: the file, and how far it is
  writes,    \* the snapshots that wait for writeFile, and whose they are
  recoveryFile,      \* the recovery file
  running

memoryVars == <<upload, owned, open, deletion, writes>>
proxyVars  == <<remote, memoryVars, recoveryFile, running>>

Deleter == {"client", "cleanup"}

\* cleanup rejects; a client gets its 502, and others come after it.
Failed(d) == IF d = "cleanup" THEN "failed" ELSE "idle"

\* Mutant: what is not acknowledged is not counted.
Snapshot_OwnedOnly(files, pending) == [files |-> files, unacknowledged |-> 0]

Snapshot(files, pending) == [files |-> files, unacknowledged |-> Cardinality(pending)]

\* persistOwnership, called in the turn that changed owned and open.
Persist(who) == writes' = Append(writes, [who |-> who, snapshot |-> Snapshot(owned', open')])

------------------------------------------------------------------------------
(***************************************************************************)
(* POST /v1/files                                                          *)
(***************************************************************************)

Receive(u) ==
  /\ running /\ upload[u] = "new"
  /\ upload' = [upload EXCEPT ![u] = "recording"]
  /\ open' = open \cup {u}
  /\ UNCHANGED owned /\ Persist(u)
  /\ UNCHANGED <<remote, deletion, recoveryFile, running>>

\* The service makes the file, perhaps after nobody waits for it any more.
Created(u) ==
  /\ upload[u] \in {"sent", "lost"} /\ u \notin remote
  /\ remote' = remote \cup {u}
  /\ upload' = [upload EXCEPT ![u] = IF @ = "lost" THEN "failed" ELSE @]
  /\ UNCHANGED <<owned, open, deletion, writes, recoveryFile, running>>

\* The answer names the file.
Acknowledged(u) ==
  /\ running /\ upload[u] = "sent" /\ u \in remote
  /\ upload' = [upload EXCEPT ![u] = "saving"]
  /\ owned' = owned \cup {u} /\ open' = open \ {u}
  /\ Persist(u)
  /\ UNCHANGED <<remote, deletion, recoveryFile, running>>

\* The answer names no file that can be read, or is an error.
NotAcknowledged(u) ==
  /\ running /\ upload[u] = "sent"
  /\ upload' = [upload EXCEPT ![u] = "saving"]
  /\ UNCHANGED <<owned, open>> /\ Persist(u)
  /\ UNCHANGED <<remote, deletion, recoveryFile, running>>

\* The client goes away, the deadline passes or the connection is lost.
AnswerLost(u) ==
  /\ running /\ upload[u] = "sent"
  /\ upload' = [upload EXCEPT ![u] = IF u \in remote THEN "failed" ELSE "lost"]
  /\ UNCHANGED <<remote, owned, open, deletion, writes, recoveryFile, running>>

------------------------------------------------------------------------------
(***************************************************************************)
(* remove and cleanup                                                      *)
(***************************************************************************)

\* A client deletes a file, or a policy of the experiment does.
Delete(u) ==
  /\ running /\ u \in owned
  /\ deletion["client"].at = "idle"
  /\ deletion' = [deletion EXCEPT !["client"] = [at |-> "sent", file |-> u]]
  /\ UNCHANGED <<remote, upload, owned, open, writes, recoveryFile, running>>

\* cleanup begins with a snapshot.
CleanUp ==
  /\ running /\ deletion["cleanup"].at = "idle"
  /\ deletion' = [deletion EXCEPT !["cleanup"].at = "saving"]
  /\ UNCHANGED <<owned, open>> /\ Persist("cleanup")
  /\ UNCHANGED <<remote, upload, recoveryFile, running>>

\* Mutant: uploads without an acknowledgement are overlooked.
CleanUpGoesOn_Overlooks ==
  /\ running /\ deletion["cleanup"].at = "next"
  /\ deletion' = [deletion EXCEPT !["cleanup"] =
       IF owned # {} THEN [at |-> "sent", file |-> CHOOSE u \in owned : TRUE]
       ELSE [at |-> "done", file |-> None]]
  /\ UNCHANGED <<remote, upload, owned, open, writes, recoveryFile, running>>

\* cleanup takes the next key of owned; after the last it looks for what is unconfirmed.
CleanUpGoesOn ==
  /\ running /\ deletion["cleanup"].at = "next"
  /\ \/ \E u \in owned : deletion' = [deletion EXCEPT !["cleanup"] = [at |-> "sent", file |-> u]]
     \/ /\ owned = {}
        /\ deletion' = [deletion EXCEPT !["cleanup"] =
             [at |-> IF open = {} THEN "done" ELSE "failed", file |-> None]]
  /\ UNCHANGED <<remote, upload, owned, open, writes, recoveryFile, running>>

\* The service deletes, or has no such file; then so does the proxy.
Deleted(d) ==
  /\ running /\ deletion[d].at = "sent"
  /\ remote' = remote \ {deletion[d].file}
  /\ owned' = owned \ {deletion[d].file}
  /\ deletion' = [deletion EXCEPT ![d] = [at |-> "saving", file |-> None]]
  /\ UNCHANGED open /\ Persist(d)
  /\ UNCHANGED <<upload, recoveryFile, running>>

\* Its answer is an error, or is lost.
DeletionFails(d) ==
  /\ running /\ deletion[d].at = "sent"
  /\ remote' \in {remote, remote \ {deletion[d].file}}
  /\ deletion' = [deletion EXCEPT ![d] = [at |-> Failed(d), file |-> None]]
  /\ UNCHANGED <<upload, owned, open, writes, recoveryFile, running>>

------------------------------------------------------------------------------
(***************************************************************************)
(* The recovery file                                                       *)
(***************************************************************************)

\* What a caller of persistOwnership goes on to.
Resumed(who, ok) ==
  /\ upload' = [u \in Upload |->
       IF u # who THEN upload[u]
       ELSE IF ~ ok THEN "failed" ELSE IF upload[u] = "recording" THEN "sent" ELSE "done"]
  /\ deletion' = [d \in Deleter |->
       IF d # who THEN deletion[d]
       ELSE [deletion[d] EXCEPT !.at = IF ~ ok THEN Failed(d)
                                       ELSE IF d = "cleanup" THEN "next" ELSE "idle"]]

\* The oldest snapshot is in place, or its write failed and the next one is tried.
Written ==
  /\ running /\ writes # << >>
  /\ \E ok \in BOOLEAN :
       /\ recoveryFile' = IF ok THEN Head(writes).snapshot ELSE recoveryFile
       /\ Resumed(Head(writes).who, ok)
  /\ writes' = Tail(writes)
  /\ UNCHANGED <<remote, owned, open, running>>

Crash ==
  /\ running
  /\ running' = FALSE
  /\ UNCHANGED <<remote, memoryVars, recoveryFile>>

ProxyInit ==
  /\ remote = {} /\ owned = {} /\ open = {}
  /\ upload = [u \in Upload |-> "new"]
  /\ deletion = [d \in Deleter |-> [at |-> "idle", file |-> None]]
  /\ writes = << >>
  /\ recoveryFile = [files |-> {}, unacknowledged |-> 0]
  /\ running = TRUE

ProxyNext ==
  \/ \E u \in Upload :
       Receive(u) \/ Created(u) \/ Acknowledged(u) \/ NotAcknowledged(u) \/ AnswerLost(u) \/ Delete(u)
  \/ CleanUp \/ CleanUpGoesOn \/ (\E d \in Deleter : Deleted(d) \/ DeletionFails(d))
  \/ Written \/ Crash

ProxySpec == ProxyInit /\ [][ProxyNext]_proxyVars

------------------------------------------------------------------------------
ProxyTypeOK ==
  /\ {remote, owned, open} \subseteq SUBSET Upload
  /\ upload \in [Upload -> {"new", "recording", "sent", "saving", "done", "lost", "failed"}]
  /\ deletion \in [Deleter -> [at : {"idle", "sent", "saving", "next", "done", "failed"},
                               file : Upload \cup {None}]]
  /\ recoveryFile \in [files : SUBSET Upload, unacknowledged : 0 .. Cardinality(Upload)]

\* Whenever the process dies and whichever writes failed, the recovery file accounts for
\* every file in the service: it names it, or counts it as unacknowledged.
RecoveryFileCovers == Cardinality(remote \ recoveryFile.files) <= recoveryFile.unacknowledged

\* A cleanup that says it succeeded has left nothing of the uploads it could know of.
CleanupIsHonest ==
  [][deletion["cleanup"].at # "done" /\ deletion'["cleanup"].at = "done" => remote' = {}]_proxyVars
================================================================================
