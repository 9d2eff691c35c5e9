--------------------------- MODULE RuntimeSupervisor ---------------------------
(***************************************************************************)
(* RuntimeSupervisor of labs/runtime-supervision/src/supervisor.ts, one in *)
(* each slot: it owns at most one SDK runtime, runs one activity at a time *)
(* and closes an owner whose activity failed before another one is made.   *)
(*                                                                         *)
(* A step is what runs between two awaits.  run and close may race: the    *)
(* cleanup of an owner is shared, and the continuation of the race in run  *)
(* comes any time after the race was decided.                              *)
(***************************************************************************)
EXTENDS Naturals, FiniteSets

CONSTANTS
  Size,      \* supervisors; a pool of the code has 1 to 32
  MaxOwners  \* bound on the owners a slot makes when its supervisor is called directly

ASSUME SupervisorConstants == Size \in Nat \ {0} /\ MaxOwners \in Nat

Slot == 1 .. Size

VARIABLES
  sup,      \* the fields of each supervisor, and how far its run got
  unclosed  \* the owners of each slot that were made and whose close did not succeed

supVars == <<sup, unclosed>>

\* owned is the generation of the owner, 0 for none.  run is "activity" while the race is
\* open, "fulfilled" or "rejected" until run resumes, "cleanup" while it awaits
\* disposeCurrent, and then its outcome, until the caller sees it.
Idle == [ state |-> "idle", generation |-> 0, owned |-> 0, cleanup |-> "none",
          stop |-> FALSE, run |-> "none" ]

Report  == {"result", "error", "reuse"}
Reported(s) == sup[s].run \in Report

\* run, up to the race.  An owner that is there is used again; the factory makes one,
\* throws, or is caught by the pool handing out an old one.
Begun(u, made) ==
  IF u.owned # 0 THEN [u EXCEPT !.state = "running", !.run = "activity"]
  ELSE IF made # "owner" THEN [u EXCEPT !.run = made]
  ELSE [u EXCEPT !.state = "running", !.run = "activity",
                 !.owned = u.generation + 1, !.generation = u.generation + 1]

Made(u, made) == IF u.owned = 0 /\ made = "owner" THEN {u.generation + 1} ELSE {}

\* disposeCurrent: joins the cleanup that is there, or starts one.
Disposed(u) ==
  IF u.cleanup # "none" THEN u
  ELSE IF u.owned = 0 THEN [u EXCEPT !.state = IF u.stop THEN "closed" ELSE "idle"]
  ELSE [u EXCEPT !.state = "stopping", !.cleanup = "called"]

\* close, up to its await: it interrupts an activity.
Stopped(u) ==
  Disposed([u EXCEPT !.stop = TRUE, !.run = IF @ = "activity" THEN "rejected" ELSE @])

\* The race is decided by the owner, or by the deadline.
Settle(s) ==
  /\ sup[s].run = "activity"
  /\ \E outcome \in {"fulfilled", "rejected"} : sup' = [sup EXCEPT ![s].run = outcome]
  /\ UNCHANGED unclosed

\* run resumes after the race: with the result unless close was called, or to dispose.
Resume(s) ==
  /\ sup[s].run \in {"fulfilled", "rejected"}
  /\ sup' = [sup EXCEPT ![s] = IF @.run = "fulfilled" /\ ~ @.stop
                               THEN [@ EXCEPT !.run = "result", !.state = "idle"]
                               ELSE Disposed([@ EXCEPT !.run = "cleanup"])]
  /\ UNCHANGED unclosed

\* Mutant: the owner is given up whether or not it could be closed.
OwnerCloses_Regardless(s) ==
  /\ sup[s].cleanup = "called"
  /\ \E closed \in BOOLEAN :
       /\ sup' = [sup EXCEPT ![s].owned = 0, ![s].cleanup = "none",
                             ![s].state = IF sup[s].stop THEN "closed" ELSE "stopping"]
       /\ unclosed' = [unclosed EXCEPT ![s] = IF closed THEN @ \ {sup[s].owned} ELSE @]

\* owned.close answers: the slot is free again, or quarantined for good.
OwnerCloses(s) ==
  /\ sup[s].cleanup = "called"
  /\ \/ /\ sup' = [sup EXCEPT ![s] = [@ EXCEPT !.owned = 0, !.cleanup = "none",
                                        !.state = IF sup[s].stop THEN "closed" ELSE "stopping"]]
        /\ unclosed' = [unclosed EXCEPT ![s] = @ \ {sup[s].owned}]
     \/ /\ sup' = [sup EXCEPT ![s] = [@ EXCEPT !.cleanup = "failed", !.state = "quarantined"]]
        /\ UNCHANGED unclosed

\* run resumes after disposeCurrent and rejects; finally reopens the slot if it is free.
Unwind(s) ==
  /\ sup[s].run = "cleanup"
  /\ sup[s].cleanup # "called"
  /\ LET u == sup[s]
         free == u.state = "running" \/ (u.state = "stopping" /\ u.owned = 0)
     IN sup' = [sup EXCEPT ![s] = [u EXCEPT !.run = "error",
                                            !.state = IF free THEN "idle" ELSE u.state]]
  /\ UNCHANGED unclosed

Supervise(s) == Settle(s) \/ Resume(s) \/ OwnerCloses(s) \/ Unwind(s)

------------------------------------------------------------------------------
(***************************************************************************)
(* A supervisor whose owner calls run and close itself                     *)
(***************************************************************************)

\* Refused unless idle and not closed.
CallRun(s) ==
  /\ sup[s].state = "idle"
  /\ ~ sup[s].stop
  /\ sup[s].run = "none"
  /\ sup[s].generation < MaxOwners
  /\ \E made \in {"owner", "error"} :
       /\ sup' = [sup EXCEPT ![s] = Begun(@, made)]
       /\ unclosed' = [unclosed EXCEPT ![s] = @ \cup Made(sup[s], made)]

CallClose(s) ==
  /\ sup' = [sup EXCEPT ![s] = Stopped(@)]
  /\ UNCHANGED unclosed

SeeOutcome(s) ==
  /\ Reported(s)
  /\ sup' = [sup EXCEPT ![s].run = "none"]
  /\ UNCHANGED unclosed

SupInit ==
  /\ sup = [s \in Slot |-> Idle]
  /\ unclosed = [s \in Slot |-> {}]

SupNext == \E s \in Slot : CallRun(s) \/ CallClose(s) \/ SeeOutcome(s) \/ Supervise(s)

SupSpec == SupInit /\ [][SupNext]_supVars

------------------------------------------------------------------------------
SupTypeOK ==
  /\ sup \in [Slot ->
       [ state : {"idle", "running", "stopping", "quarantined", "closed"},
         generation : Nat, owned : Nat, cleanup : {"none", "called", "failed"},
         stop : BOOLEAN,
         run : {"none", "activity", "fulfilled", "rejected", "cleanup"} \cup Report ]]
  /\ unclosed \in [Slot -> SUBSET Nat]

\* An owner is replaced only after it was closed: in no order of failures, deadlines,
\* close calls and failing closes does a slot have two owners that are not closed, an
\* activity on an owner that is being closed, or an open door on a quarantined one.
OneOwner ==
  \A s \in Slot :
    LET u == sup[s] IN
    /\ unclosed[s] \subseteq {u.owned}
    /\ u.state \in {"idle", "running"} => u.cleanup = "none"
    /\ u.run = "activity" => u.state = "running" /\ u.owned \in unclosed[s]
    /\ u.cleanup = "failed" => u.state = "quarantined" /\ u.owned \in unclosed[s]
================================================================================
