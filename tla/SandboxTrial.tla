----------------------------- MODULE SandboxTrial -----------------------------
(* One trial of labs/sandbox-isolation: the fixture (src/fixture.ts), the    *)
(* worker with its eight operations (src/worker.ts), the check of its report  *)
(* and of the disk (src/verification.ts), as examples/provider.ts runs them. *)
(* External: what the sandbox lets through, which may not be what was asked. *)
EXTENDS Naturals, Sequences

VARIABLES
  asked,       \* the sandbox mode the trial is about
  enforced,   \* the operations the sandbox lets through
  held,       \* what the fixture holds: "root", "temp", "server"
  trial,      \* where the trial is
  performed,  \* how many operations the worker has behind it
  effects,    \* the files that were written
  claimed,     \* the operations the worker reports as allowed
  verified,
  refused     \* the trial ends with an error

sandboxVars == <<asked, enforced, held, trial, performed, effects, claimed, verified, refused>>

Mode      == {"read-only", "workspace-write", "danger-full-access"}
Write     == {"inside", "outside", "symlink", "descendant", "temp"}
Operation == Write \cup {"read", "loopback", "parent"}
Order     == <<"inside", "read", "outside", "symlink", "descendant", "temp", "loopback", "parent">>

\* What the mode promises: reads, the network and the process table are not confined.
ExpectedWrites(m) ==
  CASE m = "read-only"          -> {}
    [] m = "workspace-write"    -> {"inside", "temp"}
    [] m = "danger-full-access" -> Write

Expected(m) == ExpectedWrites(m) \cup (Operation \ Write)

TrialFixed == UNCHANGED <<asked, enforced>>
Abandons   == refused' = TRUE /\ UNCHANGED verified

(* createFixture: two directories, then the server; what fails takes back    *)
(* what there is, unless that fails too.                                     *)
FixtureGrows(what, before) ==
  /\ trial = "fixture" /\ held = before
  /\ held' = held \cup {what}
  /\ trial' = IF what = "server" THEN "worker" ELSE trial
  /\ TrialFixed /\ UNCHANGED <<performed, effects, claimed, verified, refused>>

FixtureFails ==
  /\ trial = "fixture" /\ trial' = "over" /\ Abandons
  /\ held' \in {{}} \cup {held \ {"server"}, held}
  /\ TrialFixed /\ UNCHANGED <<performed, effects, claimed>>

(* runWorker: the operations one after the other.  An operation the sandbox  *)
(* lets through is allowed.                                                  *)
Allows ==
  /\ trial = "worker" /\ performed < Len(Order) /\ Order[performed + 1] \in enforced
  /\ effects' = effects \cup ({Order[performed + 1]} \cap Write)
  /\ claimed' = claimed \cup {Order[performed + 1]}
  /\ performed' = performed + 1
  /\ TrialFixed /\ UNCHANGED <<held, trial, verified, refused>>

Attempted(leaves) ==
  /\ trial = "worker" /\ performed < Len(Order)
  /\ leaves => Order[performed + 1] \in Write
  /\ effects' = IF leaves THEN effects \cup {Order[performed + 1]} ELSE effects
  /\ performed' = performed + 1
  /\ TrialFixed /\ UNCHANGED <<held, claimed>>

(* A permission error is a denial, whatever the operation left on the disk.  *)
Refuses(leaves) ==
  /\ Attempted(leaves) /\ Order[performed + 1] \notin enforced
  /\ UNCHANGED <<trial, refused, verified>>

(* Any other failure is none: it ends the worker before it reports.          *)
Aborts(leaves) == Attempted(leaves) /\ trial' = "dispose" /\ Abandons

InputRefused ==
  /\ trial = "worker" /\ performed = 0 /\ trial' = "dispose" /\ Abandons
  /\ TrialFixed /\ UNCHANGED <<held, performed, effects, claimed>>

(* The command that runs the worker fails: deadline, exit code, runner.      *)
CommandFails ==
  /\ trial = "worker" /\ trial' = "dispose" /\ Abandons
  /\ TrialFixed /\ UNCHANGED <<held, performed, effects, claimed>>

(* Every operation is reported on.                                           *)
Reported ==
  /\ trial = "worker" /\ performed = Len(Order) /\ trial' = "validate"
  /\ TrialFixed /\ UNCHANGED <<held, performed, effects, claimed, verified, refused>>

(* validateReport, then verifyFiles: both compare with the mode, one the      *)
(* report and one the disk.                                                   *)
Validated ==
  /\ trial = "validate"
  /\ IF claimed = Expected(asked) THEN trial' = "files" /\ UNCHANGED <<verified, refused>>
     ELSE trial' = "dispose" /\ Abandons
  /\ TrialFixed /\ UNCHANGED <<held, performed, effects, claimed>>

FilesMatch == effects = ExpectedWrites(asked)

FilesVerified ==
  /\ trial = "files" /\ trial' = "dispose"
  /\ IF FilesMatch THEN verified' = TRUE /\ UNCHANGED refused ELSE Abandons
  /\ TrialFixed /\ UNCHANGED <<held, performed, effects, claimed>>

(* dispose: the server, then the directories if the trial was verified.      *)
Disposes(left) ==
  /\ trial = "dispose" /\ trial' = "over"
  /\ left \in {held, held \ {"server"}} \cup (IF verified THEN {{}, {"temp"}} ELSE {})
  /\ held' = left
  /\ refused' = (refused \/ (verified /\ left # {}))
  /\ TrialFixed /\ UNCHANGED <<performed, effects, claimed, verified>>

SandboxInit ==
  /\ asked \in Mode
  /\ enforced \in {{}, Expected(asked), Operation}
  /\ held = {} /\ trial = "fixture" /\ performed = 0 /\ effects = {} /\ claimed = {}
  /\ verified = FALSE /\ refused = FALSE

SandboxNext ==
  \/ FixtureGrows("root", {}) \/ FixtureGrows("temp", {"root"})
  \/ FixtureGrows("server", {"root", "temp"}) \/ FixtureFails
  \/ Allows \/ (\E leaves \in BOOLEAN : Refuses(leaves) \/ Aborts(leaves)) \/ InputRefused
  \/ CommandFails \/ Reported \/ Validated \/ FilesVerified
  \/ \E left \in SUBSET {"root", "temp", "server"} : Disposes(left)

SandboxSpec == SandboxInit /\ [][SandboxNext]_sandboxVars

SandboxTypeOK ==
  /\ asked \in Mode /\ enforced \subseteq Operation /\ held \subseteq {"root", "temp", "server"}
  /\ trial \in {"fixture", "worker", "validate", "files", "dispose", "over"}
  /\ performed \in 0 .. Len(Order) /\ effects \subseteq Write /\ claimed \subseteq Operation
  /\ verified \in BOOLEAN /\ refused \in BOOLEAN

(* A verified trial is one in which the mode was enforced, as far as can be   *)
(* seen from outside, and a trial that ends without an error was verified    *)
(* and has left nothing behind.                                              *)
VerdictMeansConfined ==
  /\ verified => effects = ExpectedWrites(asked) /\ claimed = Expected(asked)
  /\ trial = "over" /\ ~refused => verified /\ held = {}
===============================================================================
