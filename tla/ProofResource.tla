---------------------------- MODULE ProofResource ----------------------------
(* createProofResource (labs/cordis-plugin-lifecycle/src/proof-journal.ts):  *)
(* six acquisitions, a rollback in reverse order when one of them fails, and *)
(* the disposer that the context runs when the plugin goes.                  *)
EXTENDS Naturals, Sequences

CONSTANTS MaxResourceFaults

VARIABLES
  resource,     \* "acquiring", "rolling back", "active", "disposing", "gone", "failed"
  taken,        \* what was acquired, in order: the rollback stack
  leaked,       \* what could not be given back
  disposals,    \* how many steps of the disposer are done
  complained,   \* an error reached the context that is not the first one alone
  resourceFaults

resourceVars == <<resource, taken, leaked, disposals, complained, resourceFaults>>

\* "opened" is an append on the handle, with nothing to undo.
Acquisition == <<"proof", "file", "handle", "opened", "watcher", "timer">>
Undone      == {"proof", "file", "handle", "watcher", "timer"}

\* The disposer: timer, watcher, a last append, handle.  Both files stay.
Disposal == <<"timer", "watcher", "closed", "handle">>

Held == Undone \cap ({taken[i] : i \in DOMAIN taken} \ {Disposal[i] : i \in 1 .. disposals})
ResourceFault == resourceFaults < MaxResourceFaults /\ resourceFaults' = resourceFaults + 1

Acquires ==
  /\ resource = "acquiring"
  /\ taken' = Append(taken, Acquisition[Len(taken) + 1])
  /\ resource' = IF Len(taken') = Len(Acquisition) THEN "active" ELSE resource
  /\ UNCHANGED <<leaked, disposals, complained, resourceFaults>>

AcquisitionFails ==
  /\ resource = "acquiring" /\ ResourceFault /\ resource' = "rolling back"
  /\ UNCHANGED <<taken, leaked, disposals, complained>>

\* The last one first; an undoing that fails is kept for the error and the rest goes on.
RollsBack(ok) ==
  /\ resource = "rolling back" /\ taken # << >>
  /\ LET last == taken[Len(taken)] IN
       IF ok \/ last \notin Undone THEN UNCHANGED <<leaked, complained, resourceFaults>>
       ELSE ResourceFault /\ leaked' = leaked \cup {last} /\ complained' = TRUE
  /\ taken' = SubSeq(taken, 1, Len(taken) - 1)
  /\ UNCHANGED <<resource, disposals>>

RolledBack ==
  /\ resource = "rolling back" /\ taken = << >> /\ resource' = "failed"
  /\ UNCHANGED <<taken, leaked, disposals, complained, resourceFaults>>

Unloads ==
  /\ resource = "active" /\ resource' = "disposing"
  /\ UNCHANGED <<taken, leaked, disposals, complained, resourceFaults>>

\* One step of the disposer; one that throws leaves the rest undone.
Disposes(ok) ==
  /\ resource = "disposing"
  /\ IF ok
     THEN /\ disposals' = disposals + 1
          /\ resource' = IF disposals' = Len(Disposal) THEN "gone" ELSE resource
          /\ UNCHANGED <<leaked, complained, resourceFaults>>
     ELSE /\ ResourceFault /\ resource' = "gone" /\ complained' = TRUE
          /\ leaked' = leaked \cup (Held \ {"proof", "file"}) /\ UNCHANGED disposals
  /\ UNCHANGED taken

ResourceInit ==
  /\ resource = "acquiring" /\ taken = << >> /\ leaked = {} /\ disposals = 0
  /\ complained = FALSE /\ resourceFaults = 0

ResourceNext ==
  \/ Acquires \/ AcquisitionFails \/ RolledBack \/ Unloads
  \/ \E ok \in BOOLEAN : RollsBack(ok) \/ Disposes(ok)

ResourceSpec == ResourceInit /\ [][ResourceNext]_resourceVars

ResourceTypeOK ==
  /\ resource \in {"acquiring", "rolling back", "active", "disposing", "gone", "failed"}
  /\ leaked \subseteq Undone /\ disposals \in 0 .. Len(Disposal) /\ complained \in BOOLEAN
  /\ resourceFaults \in 0 .. MaxResourceFaults

\* What the plugin took and does not hold on to as a proof is given back, in reverse
\* order, or the context is told that it was not.
NothingLeaksSilently ==
  /\ resource = "failed" => Held \subseteq leaked
  /\ resource = "gone" => Held \ {"proof", "file"} \subseteq leaked
  /\ leaked # {} => complained
==============================================================================
