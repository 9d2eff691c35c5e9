----------------------------- MODULE HostLauncher -----------------------------
(* The launcher of the Web host (labs/web-host-lifecycle/examples/start.ts): *)
(* a host process that prints the URL it is ready at, two files that record  *)
(* it for the other scripts, a startup deadline and the interrupt that is    *)
(* passed on.  External: the host and who interrupts.                        *)
EXTENDS Naturals

VARIABLES
  launcher,   \* "preparing", "waiting", "closing" (the host is gone), "ended"
  host,       \* "none", "running", "gone"
  exit,       \* of the host: "none", "zero", "interrupted" (130), "other"
  ready,      \* the URL was seen
  record,     \* of the URL: "none", "url", "state" (the next file), "written", "failed"
  stopping,
  startTimer, \* of the startup deadline
  bootstrap,  \* bootstrap.url: "none", "stale" or "current"
  status      \* exit code of the launcher

launchVars == <<launcher, host, exit, ready, record, stopping, startTimer, bootstrap, status>>

Ends(code) == launcher' = "ended" /\ status' = code /\ startTimer' = FALSE

(* A new directory, or an existing one whose state.json is checked; the URL  *)
(* of an earlier launch is removed before the host is started.               *)
Removed == "none"

PrepareFails ==
  /\ launcher = "preparing" /\ Ends(1)
  /\ UNCHANGED <<host, exit, ready, record, stopping, bootstrap>>

Spawned ==
  /\ launcher = "preparing" /\ launcher' = "waiting"
  /\ host' = "running" /\ startTimer' = TRUE /\ bootstrap' = Removed
  /\ UNCHANGED <<exit, ready, record, stopping, status>>

SpawnFails ==
  /\ launcher = "preparing" /\ Ends(1) /\ bootstrap' = Removed
  /\ UNCHANGED <<host, exit, ready, record, stopping>>

(* The first URL in the output, which may be read after the host has ended:  *)
(* no deadline any more, and it is recorded.                                 *)
UrlSeen ==
  /\ launcher = "waiting" /\ ~ready
  /\ ready' = TRUE /\ startTimer' = FALSE /\ record' = "url"
  /\ UNCHANGED <<launcher, host, exit, stopping, bootstrap, status>>

Records ==
  /\ record \in {"url", "state"} /\ launcher # "ended"
  /\ record' = IF record = "url" THEN "state" ELSE "written"
  /\ bootstrap' = "current"
  /\ UNCHANGED <<launcher, host, exit, ready, stopping, startTimer, status>>

(* What cannot be recorded ends the host: SIGTERM, which it may survive.     *)
RecordFails ==
  /\ record \in {"url", "state"} /\ launcher # "ended" /\ record' = "failed"
  /\ UNCHANGED <<launcher, host, exit, ready, stopping, startTimer, bootstrap, status>>

Stop ==
  /\ launcher = "waiting" /\ ~stopping /\ stopping' = TRUE
  /\ UNCHANGED <<launcher, host, exit, ready, record, startTimer, bootstrap, status>>

(* SIGINT and SIGTERM of the launcher.                                       *)
Interrupt == Stop

StartDeadline == startTimer /\ Stop

(* The host ends, of itself or by a signal.  130 is how it answers SIGINT.   *)
HostExits(code) ==
  /\ host = "running" /\ host' = "gone" /\ exit' = code
  /\ UNCHANGED <<launcher, ready, record, stopping, startTimer, bootstrap, status>>

(* "close": the record is awaited, then the code of the launcher is set.     *)
HostClosed ==
  /\ launcher = "waiting" /\ host = "gone" /\ launcher' = "closing"
  /\ UNCHANGED <<host, exit, ready, record, stopping, startTimer, bootstrap, status>>

SuccessfulHostExit == ready /\ (exit = "zero" \/ (stopping /\ exit = "interrupted"))

Concludes ==
  /\ launcher = "closing" /\ record \notin {"url", "state"}
  /\ Ends(IF record # "failed" /\ SuccessfulHostExit THEN 0 ELSE 1)
  /\ UNCHANGED <<host, exit, ready, record, stopping, bootstrap>>

LaunchInit ==
  /\ launcher = "preparing" /\ host = "none" /\ exit = "none" /\ ready = FALSE
  /\ record = "none" /\ stopping = FALSE /\ startTimer = FALSE
  /\ bootstrap \in {"none", "stale"} /\ status = 0

LaunchNext ==
  \/ PrepareFails \/ Spawned \/ SpawnFails \/ UrlSeen \/ Records \/ RecordFails
  \/ Interrupt \/ StartDeadline \/ HostClosed \/ Concludes
  \/ \E code \in {"zero", "interrupted", "other"} : HostExits(code)

(* The timer fires, files are written or refused, events are delivered.      *)
LaunchFairness ==
  /\ WF_launchVars(StartDeadline) /\ WF_launchVars(Records)
  /\ WF_launchVars(HostClosed) /\ WF_launchVars(Concludes)

LaunchSpec == LaunchInit /\ [][LaunchNext]_launchVars /\ LaunchFairness

LaunchTypeOK ==
  /\ launcher \in {"preparing", "waiting", "closing", "ended"}
  /\ host \in {"none", "running", "gone"} /\ exit \in {"none", "zero", "interrupted", "other"}
  /\ record \in {"none", "url", "state", "written", "failed"}
  /\ bootstrap \in {"none", "stale", "current"} /\ status \in {0, 1}

(* The other scripts never find the URL of an earlier launch beside a host   *)
(* of this one; the launcher ends only after its host, and it says 0 only of *)
(* a host that was ready, was recorded and ended as it should.               *)
LauncherTellsTruth ==
  /\ host # "none" => bootstrap # "stale"
  /\ launcher = "ended" => host # "running"
  /\ launcher = "ended" /\ status = 0 => record = "written" /\ exit # "other"
  /\ launcher = "ended" /\ status = 0 /\ exit = "interrupted" => stopping

(* A host that does not get ready is told to stop.                           *)
LaunchIsBounded == launcher = "waiting" ~> (ready \/ stopping \/ launcher = "ended")
===============================================================================
