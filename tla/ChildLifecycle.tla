--------------------------- MODULE ChildLifecycle ---------------------------
(* labs/workflow-child-lifecycle: a plugin effect that runs one experiment   *)
(* over an agent host (a workflow, a continuable child, or the child's cold  *)
(* resume), reports it in a file, and owes its cleanup to whoever disposes   *)
(* of it.  External: the host (agents, subagents, workflow engine).          *)
EXTENDS FiniteSets, Naturals

CONSTANTS MaxHostFaults  \* host calls that fail

VARIABLES
  phase,      \* config.phase: "seed" or "resume"
  task,       \* where execute() and its report are
  signal,     \* the controller is aborted (the timer or the disposal)
  parent,     \* the parent agent: "none", "live", "disposed"
  workflow,   \* the workflow run: "none", "running", "over", "disposed"
  helper,     \* children of the workflow: "none", "live", "released"
  child,      \* the continuable child: "none", "live", "drained", "released"
  outcome,    \* what subagent/end said of it: "none", "completed", "stopped"
  listeners,  \* listeners of the plugin on the host
  failed,     \* execute() is unwinding with an error
  report,     \* the report file: "none", "temporary", "ok", "error"
  disposal,   \* of the effect: "no", "asked", "done", "threw"
  hostFaults

lifeVars == <<phase, task, signal, parent, workflow, helper, child, outcome, listeners, failed,
              report, disposal, hostFaults>>

HostFault == hostFaults < MaxHostFaults /\ hostFaults' = hostFaults + 1
Goes(l)   == task' = l
Rest      == UNCHANGED <<phase, signal, disposal>>

----------------------------------------------------------------------------
(* The host.                                                                 *)

WorkflowEnds ==
  /\ workflow = "running"
  /\ workflow' = "over" /\ helper' = "released"
  /\ UNCHANGED <<phase, task, signal, parent, child, outcome, listeners, failed, report, disposal,
                 hostFaults>>

(* A residency of the child ends: subagent/end, then its handle is released. *)
ChildEnds(how) ==
  /\ child = "live" /\ outcome = "none"
  /\ outcome' = how /\ child' = "drained"
  /\ UNCHANGED <<phase, task, signal, parent, workflow, helper, listeners, failed, report, disposal,
                 hostFaults>>

ChildReleased ==
  /\ child = "drained" /\ child' = "released"
  /\ UNCHANGED <<phase, task, signal, parent, workflow, helper, outcome, listeners, failed, report,
                 disposal, hostFaults>>

----------------------------------------------------------------------------
(* execute()                                                                 *)

(* A parent is created or resumed; nothing is owed when that fails.          *)
ParentMade ==
  /\ task = "parent" /\ Rest
  /\ parent' = "live" /\ Goes(IF phase = "seed" THEN "workflow" ELSE "child")
  /\ UNCHANGED <<workflow, helper, child, outcome, listeners, failed, report, hostFaults>>

ParentFails ==
  /\ task = "parent" /\ Rest /\ HostFault
  /\ failed' = TRUE /\ Goes("report")
  /\ UNCHANGED <<parent, workflow, helper, child, outcome, listeners, report>>

(* runWorkflow: listen, start, await the result, dispose of the run, check.  *)
WorkflowStarts ==
  /\ task = "workflow" /\ Rest
  /\ workflow' = "running" /\ helper' = "live" /\ listeners' = listeners \cup {"workflow"}
  /\ Goes("result")
  /\ UNCHANGED <<parent, child, outcome, failed, report, hostFaults>>

(* The run is disposed of whatever its result was; an abort stops it, and a  *)
(* script that did not complete, or a child that did not end, fails the task. *)
WorkflowResult ==
  /\ task = "result" /\ (workflow = "over" \/ signal) /\ Rest
  /\ workflow' = "over" /\ failed' \in {workflow # "over", TRUE}
  /\ Goes("dispose run")
  /\ UNCHANGED <<parent, helper, child, outcome, listeners, report, hostFaults>>

RunDisposed ==
  /\ task = "dispose run" /\ Rest
  /\ workflow' = "disposed" /\ helper' = "released" /\ listeners' = listeners \ {"workflow"}
  /\ Goes(IF failed THEN "drain" ELSE "child")
  /\ UNCHANGED <<parent, child, outcome, failed, report, hostFaults>>

RunDisposeFails ==
  /\ task = "dispose run" /\ Rest /\ HostFault
  /\ failed' = TRUE /\ listeners' = listeners \ {"workflow"} /\ Goes("drain")
  /\ UNCHANGED <<parent, workflow, helper, child, outcome, report>>

(* withChild: listen, admit the first prompt or a message after a cold start *)
(* and wait until the child's residency is released.                         *)
ChildAdmitted ==
  /\ task = "child" /\ ~signal /\ Rest
  /\ child' = "live" /\ outcome' = "none" /\ listeners' = listeners \cup {"child"}
  /\ Goes("absent")
  /\ UNCHANGED <<parent, workflow, helper, failed, report, hostFaults>>

ChildRefused ==
  /\ task = "child" /\ Rest
  /\ \/ signal /\ UNCHANGED hostFaults
     \/ HostFault
  /\ failed' = TRUE /\ Goes("drain")
  /\ UNCHANGED <<parent, workflow, helper, child, outcome, listeners, report>>

Absent == child = "released"

(* The wait polls for the handle and stops when the signal is aborted; then  *)
(* exactly one outcome is required, and it must be "completed".              *)
ChildGone ==
  /\ task = "absent" /\ Absent /\ Rest
  /\ failed' = (outcome # "completed") /\ listeners' = listeners \ {"child"} /\ Goes("drain")
  /\ UNCHANGED <<parent, workflow, helper, child, outcome, report, hostFaults>>

ChildAbandoned_Never == FALSE
ChildAbandoned ==
  /\ task = "absent" /\ signal /\ ~Absent /\ Rest
  /\ failed' = TRUE /\ listeners' = listeners \ {"child"} /\ Goes("drain")
  /\ UNCHANGED <<parent, workflow, helper, child, outcome, report, hostFaults>>

(* finally: drain what continues below the parent, then dispose of it.       *)
Drained ==
  /\ task = "drain" /\ Rest
  /\ child' = (IF child = "none" THEN child ELSE "released")
  /\ outcome' = IF child = "live" /\ outcome = "none" THEN "stopped" ELSE outcome
  /\ Goes("dispose parent")
  /\ UNCHANGED <<parent, workflow, helper, listeners, failed, report, hostFaults>>

(* A drain that fails leaves the parent as it is.                            *)
DrainFails ==
  /\ task = "drain" /\ Rest /\ HostFault
  /\ failed' = TRUE /\ Goes("report")
  /\ UNCHANGED <<parent, workflow, helper, child, outcome, listeners, report>>

ParentDisposed ==
  /\ task = "dispose parent" /\ Rest
  /\ parent' = "disposed" /\ Goes("report")
  /\ UNCHANGED <<workflow, helper, child, outcome, listeners, failed, report, hostFaults>>

ParentDisposeFails ==
  /\ task = "dispose parent" /\ Rest /\ HostFault
  /\ failed' = TRUE /\ Goes("report")
  /\ UNCHANGED <<parent, workflow, helper, child, outcome, listeners, report>>

----------------------------------------------------------------------------
(* apply(): the report and the disposal of the effect.                       *)

ReportWritten ==
  /\ task = "report" /\ report' = "temporary" /\ Goes("rename") /\ Rest
  /\ UNCHANGED <<parent, workflow, helper, child, outcome, listeners, failed, hostFaults>>

Verdict == IF failed THEN "error" ELSE "ok"

ReportRenamed ==
  /\ task = "rename" /\ report' = Verdict /\ Goes("done") /\ Rest
  /\ UNCHANGED <<parent, workflow, helper, child, outcome, listeners, failed, hostFaults>>

ReportFails ==
  /\ task \in {"report", "rename"} /\ HostFault /\ Goes("threw") /\ Rest
  /\ UNCHANGED <<parent, workflow, helper, child, outcome, listeners, failed, report>>

TimerAborts ==
  /\ ~signal /\ task \notin {"done", "threw"} /\ signal' = TRUE
  /\ UNCHANGED <<phase, task, parent, workflow, helper, child, outcome, listeners, failed, report,
                 disposal, hostFaults>>

Dispose ==
  /\ disposal = "no" /\ disposal' = "asked" /\ signal' = TRUE
  /\ UNCHANGED <<phase, task, parent, workflow, helper, child, outcome, listeners, failed, report,
                 hostFaults>>

Disposed == task \in {"done", "threw"}

DisposeEnds ==
  /\ disposal = "asked" /\ Disposed
  /\ disposal' = IF task = "threw" THEN "threw" ELSE "done"
  /\ UNCHANGED <<phase, task, signal, parent, workflow, helper, child, outcome, listeners, failed,
                 report, hostFaults>>

----------------------------------------------------------------------------

LifeInit ==
  /\ phase \in {"seed", "resume"} /\ task = "parent" /\ signal = FALSE
  /\ parent = "none" /\ workflow = "none" /\ helper = "none"
  /\ child = IF phase = "resume" THEN "released" ELSE "none"
  /\ outcome = "none" /\ listeners = {} /\ failed = FALSE
  /\ report = "none" /\ disposal = "no" /\ hostFaults = 0

Execute == \/ ParentMade \/ WorkflowStarts \/ WorkflowResult \/ RunDisposed
           \/ ChildAdmitted \/ ChildRefused \/ ChildGone \/ ChildAbandoned
           \/ Drained \/ ParentDisposed \/ ReportWritten \/ ReportRenamed
HostFails == ParentFails \/ RunDisposeFails \/ DrainFails \/ ParentDisposeFails \/ ReportFails

LifeNext ==
  \/ Execute \/ HostFails
  \/ WorkflowEnds \/ ChildReleased \/ \E how \in {"completed", "stopped"} : ChildEnds(how)
  \/ TimerAborts \/ Dispose \/ DisposeEnds

LifeFairness == WF_lifeVars(Execute) /\ WF_lifeVars(TimerAborts) /\ WF_lifeVars(DisposeEnds)

LifeSpec == LifeInit /\ [][LifeNext]_lifeVars /\ LifeFairness

LifeTypeOK ==
  /\ phase \in {"seed", "resume"} /\ signal \in BOOLEAN /\ failed \in BOOLEAN
  /\ listeners \subseteq {"workflow", "child"} /\ hostFaults \in 0 .. MaxHostFaults
  /\ report \in {"none", "temporary", "ok", "error"} /\ disposal \in {"no", "asked", "done", "threw"}

(* A report says "ok" only of an experiment that left nothing behind: the    *)
(* run disposed of, its children and the continuable child released with     *)
(* outcome "completed", the parent disposed of, no listener.  And an effect  *)
(* is not disposed of before its task has settled.                           *)
ReportIsTruthful ==
  /\ report = "ok" =>
       /\ parent = "disposed" /\ listeners = {}
       /\ child = "released" /\ outcome = "completed"
       /\ phase = "seed" => workflow = "disposed" /\ helper = "released"
  /\ disposal \in {"done", "threw"} => listeners = {} /\ task \in {"done", "threw"}

(* The experiment ends by itself or by its timer, and a disposal with it.    *)
DisposalEnds == <>(task \in {"done", "threw"}) /\ (disposal = "asked" ~> disposal \in {"done", "threw"})
=============================================================================
