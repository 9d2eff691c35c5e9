----------------------------- MODULE ProofTool -----------------------------
(* The proof tool of labs/cordis-plugin-lifecycle: concurrent attempts to    *)
(* write one proof file each, in the workspace itself ("single") or in a     *)
(* directory of the call ("call"), and what a failed attempt takes back.     *)
EXTENDS FiniteSets, Naturals

CONSTANTS Attempt, MaxIoFaults

Nobody == "nobody"
Shared == "shared"

VARIABLES
  mode,       \* partitionMode
  place,      \* attempt -> the path its session and call id resolve to
  directory,  \* path -> the attempt that created the directory there
  file,       \* path -> the attempt that created the proof there
  attempt,    \* attempt -> [at, made (directory), owns (file), open, cleanup (reported)]
  aborted,    \* attempts whose signal is aborted
  ioFaults

toolVars == <<mode, place, directory, file, attempt, aborted, ioFaults>>

Path     == Attempt \cup {Shared}
IoFault  == ioFaults < MaxIoFaults /\ ioFaults' = ioFaults + 1
At(a, l) == attempt[a].at = l
Goes(a, l) == attempt' = [attempt EXCEPT ![a].at = l]
Same     == UNCHANGED <<mode, place, aborted>>

(* Abort of the call, at any time.                                           *)
AbortCall(a) ==
  /\ a \notin aborted /\ aborted' = aborted \cup {a}
  /\ UNCHANGED <<mode, place, directory, file, attempt, ioFaults>>

(* The signal and the workspace are checked before anything is created.      *)
Enters(a) ==
  /\ At(a, "idle")
  /\ Goes(a, IF a \in aborted THEN "failed" ELSE IF mode = "call" THEN "partition" ELSE "open")
  /\ Same /\ UNCHANGED <<directory, file, ioFaults>>

RootRefused(a) ==
  /\ At(a, "idle") /\ IoFault /\ Goes(a, "failed")
  /\ Same /\ UNCHANGED <<directory, file>>

(* mkdir, not recursive: a directory that is there is an error.              *)
CreatesPartition(a) ==
  /\ At(a, "partition")
  /\ IF directory[place[a]] = Nobody
     THEN /\ directory' = [directory EXCEPT ![place[a]] = a]
          /\ attempt' = [attempt EXCEPT ![a].at = "open", ![a].made = TRUE]
     ELSE Goes(a, "undo") /\ UNCHANGED directory
  /\ Same /\ UNCHANGED <<file, ioFaults>>

(* open "wx": a file that is there is an error.                              *)
OpensProof(a) == file[place[a]] = Nobody
Opens(a) ==
  /\ At(a, "open")
  /\ IF a \notin aborted /\ OpensProof(a)
     THEN /\ file' = [file EXCEPT ![place[a]] = a]
          /\ attempt' = [attempt EXCEPT ![a].at = "write", ![a].owns = TRUE, ![a].open = TRUE]
     ELSE Goes(a, "undo") /\ UNCHANGED file
  /\ Same /\ UNCHANGED <<directory, ioFaults>>

Writes(a) ==
  /\ At(a, "write") /\ Goes(a, IF a \in aborted THEN "undo" ELSE "close")
  /\ Same /\ UNCHANGED <<directory, file, ioFaults>>

Closes(a) ==
  /\ At(a, "close") /\ attempt' = [attempt EXCEPT ![a].at = "succeeded", ![a].open = FALSE]
  /\ Same /\ UNCHANGED <<directory, file, ioFaults>>

IoFails(a) ==
  /\ attempt[a].at \in {"partition", "open", "write", "close"} /\ IoFault /\ Goes(a, "undo")
  /\ Same /\ UNCHANGED <<directory, file>>

(* The catch block: close, then remove the file this attempt opened, then    *)
(* the directory it created; a step that fails is collected and the rest is  *)
(* still done.  A directory with a file in it cannot be removed.             *)
Owns_Always(a) == TRUE
Owns(a) == attempt[a].owns

Undo(a, closeFails, rmFails) ==
  /\ At(a, "undo")
  /\ closeFails => attempt[a].open /\ ioFaults < MaxIoFaults
  /\ rmFails    => Owns(a) /\ ioFaults < MaxIoFaults
  /\ ioFaults' = IF closeFails \/ rmFails THEN ioFaults + 1 ELSE ioFaults
  /\ file' = IF Owns(a) /\ ~rmFails THEN [file EXCEPT ![place[a]] = Nobody] ELSE file
  /\ attempt' = [attempt EXCEPT ![a].at = "undo directory", ![a].open = @ /\ closeFails,
                                ![a].cleanup = closeFails \/ rmFails]
  /\ Same /\ UNCHANGED directory

UndoDirectory(a, fails) ==
  /\ At(a, "undo directory")
  /\ fails => attempt[a].made /\ IoFault
  /\ ~fails => UNCHANGED ioFaults
  /\ LET stays == fails \/ file[place[a]] # Nobody IN
       /\ directory' = IF attempt[a].made /\ ~stays THEN [directory EXCEPT ![place[a]] = Nobody]
                       ELSE directory
       /\ attempt' = [attempt EXCEPT ![a].at = "failed", ![a].cleanup = @ \/ (attempt[a].made /\ stays)]
  /\ Same /\ UNCHANGED file

ToolInit ==
  /\ mode \in {"single", "call"}
  /\ place \in {[a \in Attempt |-> a], [a \in Attempt |-> Shared]}
  /\ mode = "single" => \A a \in Attempt : place[a] = Shared
  /\ directory = [p \in Path |-> Nobody] /\ file = [p \in Path |-> Nobody]
  /\ attempt = [a \in Attempt |->
                  [at |-> "idle", made |-> FALSE, owns |-> FALSE, open |-> FALSE, cleanup |-> FALSE]]
  /\ aborted = {} /\ ioFaults = 0

ToolNext ==
  \E a \in Attempt :
    \/ AbortCall(a) \/ Enters(a) \/ RootRefused(a) \/ CreatesPartition(a) \/ Opens(a)
    \/ Writes(a) \/ Closes(a) \/ IoFails(a)
    \/ \E closeFails, rmFails \in BOOLEAN : Undo(a, closeFails, rmFails)
    \/ \E fails \in BOOLEAN : UndoDirectory(a, fails)

ToolSpec == ToolInit /\ [][ToolNext]_toolVars

ToolTypeOK ==
  /\ mode \in {"single", "call"} /\ ioFaults \in 0 .. MaxIoFaults
  /\ directory \in [Path -> Attempt \cup {Nobody}] /\ file \in [Path -> Attempt \cup {Nobody}]

(* A proof whose call succeeded stays where it is, closed, whatever later    *)
(* attempts at the same path do; a failed attempt has left no file, handle   *)
(* or directory of its own behind unless it reports that cleaning up failed. *)
AttemptsAreExact ==
  \A a \in Attempt :
    /\ At(a, "succeeded") =>
         /\ file[place[a]] = a /\ ~attempt[a].open
         /\ mode = "call" => directory[place[a]] = a
    /\ At(a, "failed") /\ ~attempt[a].cleanup =>
         ~attempt[a].open /\ a \notin {file[place[a]], directory[place[a]]}
=============================================================================
