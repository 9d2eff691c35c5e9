---------------------------- MODULE WorkflowTrial ----------------------------
(* The trial of labs/workflow-child-lifecycle/examples/live.ts: two runtime  *)
(* processes one after the other over the same stored sessions, each of them *)
(* running the lesson plugin of ChildLifecycle until its report is there.    *)
(* External: the processes, their reports, the calls of the operating system.*)
EXTENDS Naturals, FiniteSets

CONSTANTS MaxTrialFaults

Round == {"seed", "resume"}

VARIABLES
  at,           \* where the trial is
  round,
  processes,    \* the rounds whose process is alive
  reported,     \* its report of each round: "none", "ok", "error"
  released,     \* the flag closed of the script
  confirmed,    \* the flag verified
  directoryKept,
  trialFailed,
  trialFaults

trialVars == <<at, round, processes, reported, released, confirmed, directoryKept, trialFailed, trialFaults>>

Proceeds(next) == at' = next /\ UNCHANGED <<trialFailed, trialFaults>>
TrialFails(next) == /\ trialFaults < MaxTrialFaults /\ trialFaults' = trialFaults + 1
                    /\ trialFailed' = TRUE /\ at' = next

Arranged(ok, got) ==
  /\ at = "setup" /\ (ok => got) /\ directoryKept' = got
  /\ IF ok THEN Proceeds("start") ELSE TrialFails(IF got THEN "finally" ELSE "over")
  /\ UNCHANGED <<round, processes, reported, released, confirmed>>

\* The patch of a round is written, then a harness is made and started.
RoundStarts(ok, made) ==
  /\ at = "start" /\ (ok => made)
  /\ processes' \in IF ok THEN {processes \cup {round}}
                    ELSE IF made THEN {processes, processes \cup {round}} ELSE {processes}
  /\ released' = (released /\ ~ made)
  /\ IF ok THEN Proceeds("wait") ELSE TrialFails("finally")
  /\ UNCHANGED <<round, reported, confirmed, directoryKept>>

\* The plugin renames its report into place, or the process ends without one.
ReportAppears(kind) ==
  /\ round \in processes /\ reported[round] = "none"
  /\ reported' = [reported EXCEPT ![round] = kind]
  /\ UNCHANGED <<at, round, processes, released, confirmed, directoryKept, trialFailed, trialFaults>>

ProcessDies ==
  /\ trialFaults < MaxTrialFaults /\ trialFaults' = trialFaults + 1
  /\ \E p \in processes : processes' = processes \ {p}
  /\ UNCHANGED <<at, round, reported, released, confirmed, directoryKept, trialFailed>>

\* waitReport: a missing file is polled for, any other trouble and an error report throw.
ReportRead ==
  /\ at = "wait" /\ reported[round] # "none"
  /\ IF reported[round] = "ok" THEN Proceeds("close")
     ELSE trialFailed' = TRUE /\ at' = "finally" /\ UNCHANGED trialFaults
  /\ UNCHANGED <<round, processes, reported, released, confirmed, directoryKept>>

WaitExpires ==
  /\ at = "wait" /\ reported[round] = "none"
  /\ trialFailed' = TRUE /\ at' = "finally"
  /\ UNCHANGED <<round, processes, reported, released, confirmed, directoryKept, trialFaults>>

Closing(now, ok, gone, next, otherwise) ==
  /\ at = now /\ (ok => gone)
  /\ processes' = IF gone THEN processes \ {round} ELSE processes
  /\ released' = (released \/ ok)
  /\ IF ok THEN Proceeds(next) ELSE TrialFails(otherwise)
  /\ UNCHANGED <<round, reported, confirmed, directoryKept>>

RoundCloses(ok, gone) == Closing("close", ok, gone, "check", "finally")

\* What the process stored is read and checked; then comes the other round.
SeedChecked(ok) ==
  /\ at = "check" /\ round = "seed" /\ round' = IF ok THEN "resume" ELSE round
  /\ IF ok THEN Proceeds("start") ELSE TrialFails("finally")
  /\ UNCHANGED <<processes, reported, released, confirmed, directoryKept>>

ResumeChecked(ok) ==
  /\ at = "check" /\ round = "resume" /\ confirmed' = ok
  /\ IF ok THEN Proceeds("finally") ELSE TrialFails("finally")
  /\ UNCHANGED <<round, processes, reported, released, directoryKept>>

\* finally: the last owner, if it is open, then the directory.
FinallyCloses(ok, gone) ==
  \/ /\ at = "finally" /\ released /\ Proceeds("remove")
     /\ UNCHANGED <<round, processes, reported, released, confirmed, directoryKept>>
  \/ ~ released /\ Closing("finally", ok, gone, "remove", "remove")

DirectoryRemoved(ok) ==
  /\ at = "remove"
  /\ directoryKept' = ~ (confirmed /\ released /\ ok)
  /\ IF ok \/ ~ (confirmed /\ released) THEN Proceeds("over") ELSE TrialFails("over")
  /\ UNCHANGED <<round, processes, reported, released, confirmed>>

TrialInit ==
  /\ at = "setup" /\ round = "seed" /\ processes = {}
  /\ reported = [p \in Round |-> "none"] /\ released = TRUE /\ confirmed = FALSE
  /\ directoryKept = FALSE /\ trialFailed = FALSE /\ trialFaults = 0

TrialNext ==
  \/ \E ok, more \in BOOLEAN :
       \/ Arranged(ok, more) \/ RoundStarts(ok, more) \/ RoundCloses(ok, more)
       \/ FinallyCloses(ok, more)
  \/ \E ok \in BOOLEAN : SeedChecked(ok) \/ ResumeChecked(ok) \/ DirectoryRemoved(ok)
  \/ \E kind \in {"ok", "error"} : ReportAppears(kind)
  \/ ProcessDies \/ ReportRead \/ WaitExpires

\* The deadline of waitReport passes if no report comes.
TrialFairness == WF_trialVars(ReportRead) /\ WF_trialVars(WaitExpires)

TrialSpec == TrialInit /\ [][TrialNext]_trialVars /\ TrialFairness

TrialTypeOK ==
  /\ at \in {"setup", "start", "wait", "close", "check", "finally", "remove", "over"}
  /\ round \in Round /\ processes \subseteq Round /\ reported \in [Round -> {"none", "ok", "error"}]
  /\ {released, confirmed, directoryKept, trialFailed} \subseteq BOOLEAN
  /\ trialFaults \in 0 .. MaxTrialFaults

\* The second process is a cold one: it is never started beside the first, whose report
\* was good; and the directory is removed only after a trial whose two reports were good
\* and whose processes are gone.
TrialIsCold ==
  /\ Cardinality(processes) <= 1
  /\ round = "resume" => reported["seed"] = "ok" /\ "seed" \notin processes
  /\ at = "over" /\ ~ trialFailed =>
       ~ directoryKept /\ processes = {} /\ \A p \in Round : reported[p] = "ok"

\* Waiting for a report ends.
WaitIsBounded == at = "wait" ~> at # "wait"
===============================================================================
