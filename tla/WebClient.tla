----------------------------- MODULE WebClient -----------------------------
(* The browser side of projects/ag-ui-dsh-runtime: App, its run monitor and  *)
(* its inspector (the chat is ChatHydration's).  Every answer of the service *)
(* arrives after an await, when the component that asked may be gone.        *)
(*                                                                           *)
(* A click re-renders and re-runs the effects before anything else runs; a   *)
(* state update made after an await is drawn by a later turn (`due`).        *)
(* External: the service (rows, runs, logs), modelled by AguiCoordinator.    *)
EXTENDS FiniteSetsExt, Naturals

CONSTANTS Conversation,  \* conversation ids
          Existing,      \* those created before the page was opened
          MaxRun,        \* runs the service may admit: 1..MaxRun, in order
          MaxLog,        \* events of one run, its terminal event included
          Page,          \* rows of one full page of events (500)
          MaxClicks,     \* selections, refreshes and creations of the user
          MaxFaults      \* requests and streams that fail

RunId   == 1 .. MaxRun
NoOne   == "none"
Nothing == [run |-> 0, phase |-> "idle", cursor |-> 0]
NoList  == [c \in Conversation |-> NoOne]

VARIABLES
  row,        \* the service's row of a conversation: "absent", "active", "blocked"
  run,        \* the service's runs: [of, status, logged]
  list,       \* App's conversations: the recovery state it believes, or NoOne
  loading,    \* the first load: [at, read], the list the service read
  selected,   \* selectedId
  due,        \* a selection or a refresh waits for its render
  inspects,   \* polls of App's effect: [of, monitored (none or one), at, active]
  watchers,   \* PersistedRunMonitor.watch: [run, at, cursor, wanted, heard]
  shown,      \* runState: [run, phase, cursor]
  asks,       \* requests of buttons in flight: <<"create" | "acknowledge", c>>
  clicks, faults

service == <<row, run>>
screen  == <<inspects, watchers, shown>>
clientVars == <<row, run, list, loading, selected, due, inspects, watchers, shown,
                asks, clicks, faults>>

RunsOf(c)   == {r \in RunId : run[r].of = c}
Latest(c)   == IF RunsOf(c) = {} THEN 0 ELSE Max(RunsOf(c))
Ended(r)    == run[r].status \in {"succeeded", "execution_unknown"}
Phase(r)    == IF run[r].status = "execution_unknown" THEN "execution-unknown"
               ELSE "persisted-terminal"
Fault       == faults < MaxFaults /\ faults' = faults + 1

----------------------------------------------------------------------------
(* The service.                                                              *)

Admit(c, r) ==
  /\ row[c] = "active" /\ run[r].status = "none" /\ \A q \in 1 .. r - 1 : run[q].status # "none"
  /\ run' = [run EXCEPT ![r] = [of |-> c, status |-> "running", logged |-> 0]]
  /\ UNCHANGED <<row, list, loading, selected, due, screen, asks, clicks, faults>>

(* An event is logged; the terminal one ends the run with it.                *)
Log(r, how) ==
  /\ run[r].status = "running" /\ run[r].logged < MaxLog
  /\ how = "running" => run[r].logged + 1 < MaxLog
  /\ run' = [run EXCEPT ![r].status = how, ![r].logged = @ + 1]
  /\ row' = IF how = "execution_unknown" THEN [row EXCEPT ![run[r].of] = "blocked"] ELSE row
  /\ UNCHANGED <<list, loading, selected, due, screen, asks, clicks, faults>>

----------------------------------------------------------------------------
(* PersistedRunMonitor                                                       *)

(* current(): no later watch and no stop.  The callback App hands over also  *)
(* asks whether its effect is still mounted.                                 *)
Current_Always(w) == TRUE
Current(w) == w.wanted
Publishes(w, phase) ==
  shown' = IF Current(w) /\ w.heard THEN [run |-> w.run, phase |-> phase, cursor |-> w.cursor]
           ELSE shown

Becomes(w, new) == watchers' = (watchers \ {w}) \cup {new}
Returns(w)      == watchers' = watchers \ {w}
Stopped(ws)     == {[w EXCEPT !.wanted = FALSE] : w \in ws}

Watcher(w) ==
  /\ UNCHANGED <<service, list, loading, selected, due, inspects, asks, clicks>>

(* A page of loadPersisted; a short one ends it.                             *)
LoadPage(w) ==
  /\ w.at \in {"load", "reload"} /\ Watcher(w) /\ UNCHANGED <<faults, shown>>
  /\ LET rows == Min({Page, run[w.run].logged - w.cursor}) IN
       IF ~Current(w) THEN Returns(w)
       ELSE Becomes(w, [w EXCEPT !.cursor = @ + rows,
                         !.at = IF rows = Page THEN @
                                ELSE IF @ = "load" THEN "detail" ELSE "redetail"])

(* getRun: a terminal run is published for good, another one is streamed     *)
(* before the stream and waited for after it.                                *)
Detail(w) ==
  /\ w.at \in {"detail", "redetail"} /\ Watcher(w) /\ UNCHANGED faults
  /\ IF ~Current(w) THEN Returns(w) /\ UNCHANGED shown
     ELSE IF Ended(w.run) THEN Returns(w) /\ Publishes(w, Phase(w.run))
     ELSE IF w.at = "detail"
          THEN Publishes(w, "attached-streaming") /\ Becomes(w, [w EXCEPT !.at = "stream"])
          ELSE Publishes(w, "client-detached") /\ Becomes(w, [w EXCEPT !.at = "wait"])

StreamRow(w) ==
  /\ w.at = "stream" /\ run[w.run].logged > w.cursor /\ Current(w)
  /\ Watcher(w) /\ UNCHANGED faults
  /\ LET next == [w EXCEPT !.cursor = @ + 1] IN Becomes(w, next) /\ Publishes(next, "attached-streaming")

(* The stream ends once the run is over and sent, or because it was aborted. *)
StreamEnds(w) ==
  /\ w.at = "stream" /\ Watcher(w) /\ UNCHANGED <<faults, shown>>
  /\ \/ ~Current(w) /\ Returns(w)
     \/ Ended(w.run) /\ w.cursor = run[w.run].logged /\ Current(w)
        /\ Becomes(w, [w EXCEPT !.at = "reload"])

(* A request or the stream fails.                                            *)
WatchFails(w) ==
  /\ w.at # "wait" /\ Current(w) /\ Fault /\ Watcher(w)
  /\ IF w.at = "stream" THEN Becomes(w, [w EXCEPT !.at = "reload"]) /\ UNCHANGED shown
     ELSE Becomes(w, [w EXCEPT !.at = "wait"]) /\ Publishes(w, "client-detached")

WaitEnds(w) ==
  /\ w.at = "wait" /\ Watcher(w) /\ UNCHANGED <<faults, shown>>
  /\ IF Current(w) THEN Becomes(w, [w EXCEPT !.at = "load"]) ELSE Returns(w)

----------------------------------------------------------------------------
(* App's effect, which a selection and a refresh run again.                  *)

Asking(c) == [of |-> c, monitored |-> {}, at |-> "asked", active |-> TRUE]

(* Unmounting clears the timer, deactivates the poll in flight and stops the *)
(* monitor; mounting asks anew for the conversation.                         *)
(* At most one superseded request of each kind is outstanding (Quiet).       *)
Quiet == (\A i \in inspects : i.active) /\ (\A w \in watchers : w.wanted)

Mount_KeepsPolling(c) ==
  /\ Quiet
  /\ watchers' = {[w EXCEPT !.heard = FALSE] : w \in Stopped(watchers)}
  /\ inspects' = inspects \cup IF c = NoOne THEN {} ELSE {Asking(c)}
  /\ due' = FALSE

Mount(c) ==
  /\ Quiet
  /\ watchers' = {[w EXCEPT !.heard = FALSE] : w \in Stopped(watchers)}
  /\ inspects' = {[i EXCEPT !.active = FALSE] : i \in {j \in inspects : j.at = "asked"}}
                   \cup IF c = NoOne THEN {} ELSE {Asking(c)}
  /\ due' = FALSE

Active(i) == i.active

(* inspect(): a conversation whose latest run is another one than the run    *)
(* monitored so far starts a new watch; the timer asks again.                *)
InspectAnswered(i) ==
  /\ i.at = "asked"
  /\ LET latest == Latest(i.of)
         watch  == [run |-> latest, at |-> "load", cursor |-> 0, wanted |-> TRUE, heard |-> i.active]
     IN IF ~Active(i)
        THEN inspects' = inspects \ {i} /\ UNCHANGED <<watchers, shown>>
        ELSE /\ inspects' = (inspects \ {i}) \cup
                              IF i.active THEN {[i EXCEPT !.at = "timer", !.monitored = {latest}]} ELSE {}
             /\ IF i.monitored = {latest} THEN UNCHANGED <<watchers, shown>>
                ELSE /\ \A w \in watchers : w.wanted
                     /\ watchers' = Stopped(watchers) \cup IF latest = 0 THEN {} ELSE {watch}
                     /\ Publishes(watch, IF latest = 0 THEN "idle" ELSE "loading")
  /\ UNCHANGED <<service, list, loading, selected, due, asks, clicks, faults>>

InspectFails(i) ==
  /\ i.at = "asked" /\ i.active /\ Fault
  /\ inspects' = (inspects \ {i}) \cup {[i EXCEPT !.at = "timer"]}
  /\ UNCHANGED <<service, list, loading, selected, due, watchers, shown, asks, clicks>>

Poll(i) ==
  /\ i.at = "timer"
  /\ inspects' = (inspects \ {i}) \cup {[i EXCEPT !.at = "asked"]}
  /\ UNCHANGED <<service, list, loading, selected, due, watchers, shown, asks, clicks, faults>>

Renders ==
  /\ due /\ Mount(selected)
  /\ shown' = IF selected = NoOne THEN Nothing ELSE shown
  /\ UNCHANGED <<service, list, loading, selected, asks, clicks, faults>>

----------------------------------------------------------------------------
(* The first load and the buttons.                                           *)

ListRead ==
  /\ loading.at = "asked"
  /\ loading' = [at |-> "read",
                 read |-> [c \in Conversation |-> IF row[c] = "absent" THEN NoOne ELSE row[c]]]
  /\ UNCHANGED <<service, list, selected, due, screen, asks, clicks, faults>>

(* The loaded list replaces App's; the first conversation is selected unless *)
(* one is already.                                                           *)
ListLoaded ==
  /\ loading.at = "read"
  /\ list' = loading.read /\ loading' = [at |-> "done", read |-> NoList]
  /\ LET known == {c \in Conversation : list'[c] # NoOne} IN
       IF selected = NoOne /\ known # {}
       THEN selected' \in known /\ due' = TRUE
       ELSE UNCHANGED <<selected, due>>
  /\ UNCHANGED <<service, screen, asks, clicks, faults>>

ListFails ==
  /\ loading.at = "asked" /\ Fault /\ loading' = [loading EXCEPT !.at = "done"]
  /\ UNCHANGED <<service, list, selected, due, screen, asks, clicks>>

Clicked == clicks < MaxClicks /\ clicks' = clicks + 1

Select(c) ==
  /\ list[c] # NoOne /\ Clicked
  /\ selected' = c /\ shown' = Nothing /\ Mount(c)
  /\ UNCHANGED <<service, list, loading, asks, faults>>

Refresh ==
  /\ selected # NoOne /\ Clicked /\ Mount(selected)
  /\ UNCHANGED <<service, list, loading, selected, shown, asks, faults>>

NewConversation(c) ==
  /\ row[c] = "absent" /\ asks = {} /\ Clicked
  /\ asks' = {<<"create", c>>}
  /\ UNCHANGED <<service, list, loading, selected, due, screen, faults>>

Created(c) ==
  /\ <<"create", c>> \in asks /\ asks' = {}
  /\ row' = [row EXCEPT ![c] = "active"]
  /\ list' = [list EXCEPT ![c] = "active"]
  /\ selected' = c /\ due' = TRUE /\ shown' = Nothing
  /\ UNCHANGED <<run, loading, inspects, watchers, clicks, faults>>

(* RunInspector: the button is there for a run whose outcome is unknown, in  *)
(* a conversation App believes to be blocked.                                *)
Offered ==
  /\ shown.phase = "execution-unknown"
  /\ selected # NoOne /\ list[selected] = "blocked"

Acknowledge ==
  /\ Offered /\ asks = {} /\ asks' = {<<"acknowledge", selected>>}
  /\ UNCHANGED <<service, list, loading, selected, due, screen, clicks, faults>>

Acknowledged(c) ==
  /\ <<"acknowledge", c>> \in asks /\ asks' = {}
  /\ IF row[c] = "blocked"
     THEN /\ row' = [row EXCEPT ![c] = "active"]
          /\ list' = IF list[c] = NoOne THEN list ELSE [list EXCEPT ![c] = "active"]
          /\ due' = TRUE
     ELSE UNCHANGED <<row, list, due>>
  /\ UNCHANGED <<run, loading, selected, screen, clicks, faults>>

AskFails ==
  /\ asks # {} /\ Fault /\ asks' = {}
  /\ UNCHANGED <<service, list, loading, selected, due, screen, clicks>>

----------------------------------------------------------------------------

ClientInit ==
  /\ row = [c \in Conversation |-> IF c \in Existing THEN "active" ELSE "absent"]
  /\ run = [r \in RunId |-> [of |-> NoOne, status |-> "none", logged |-> 0]]
  /\ list = NoList
  /\ loading = [at |-> "asked", read |-> NoList] /\ selected = NoOne /\ due = FALSE
  /\ inspects = {} /\ watchers = {} /\ shown = Nothing
  /\ asks = {} /\ clicks = 0 /\ faults = 0

WatchStep(w)   == LoadPage(w) \/ Detail(w) \/ StreamRow(w) \/ StreamEnds(w) \/ WaitEnds(w)
ClientStep ==
  \/ \E w \in watchers : WatchStep(w)
  \/ \E i \in inspects : InspectAnswered(i) \/ Poll(i)
  \/ Renders \/ ListRead \/ ListLoaded
  \/ \E c \in Conversation : Created(c) \/ Acknowledged(c)

ClientNext ==
  \/ ClientStep
  \/ \E w \in watchers : WatchFails(w)
  \/ \E i \in inspects : InspectFails(i)
  \/ ListFails \/ AskFails \/ Refresh \/ Acknowledge
  \/ \E c \in Conversation : Select(c) \/ NewConversation(c)
  \/ \E c \in Conversation, r \in RunId : Admit(c, r)
  \/ \E r \in RunId, how \in {"running", "succeeded", "execution_unknown"} : Log(r, how)

(* Requests are answered, timers fire and renders happen; the current watch  *)
(* and the current poll are each served.                                     *)
PageFairness ==
  /\ WF_clientVars(\E w \in watchers : Current(w) /\ WatchStep(w))
  /\ WF_clientVars(\E w \in watchers : ~Current(w) /\ WatchStep(w))
  /\ WF_clientVars(\E i \in inspects : Active(i) /\ (InspectAnswered(i) \/ Poll(i)))
  /\ WF_clientVars(\E i \in inspects : ~Active(i) /\ InspectAnswered(i))
  /\ WF_clientVars(Renders)
  /\ \A c \in Conversation : WF_clientVars(Created(c) \/ Acknowledged(c))

ClientFairness == PageFairness /\ WF_clientVars(ListRead \/ ListLoaded)

ClientSpec == ClientInit /\ [][ClientNext]_clientVars /\ ClientFairness

----------------------------------------------------------------------------

ClientTypeOK ==
  /\ row \in [Conversation -> {"absent", "active", "blocked"}]
  /\ run \in [RunId -> [of : Conversation \cup {NoOne}, logged : 0 .. MaxLog,
                      status : {"none", "running", "succeeded", "execution_unknown"}]]
  /\ list \in [Conversation -> {NoOne, "active", "blocked"}]
  /\ selected \in Conversation \cup {NoOne} /\ due \in BOOLEAN
  /\ shown \in [run : 0 .. MaxRun, cursor : 0 .. MaxLog,
                phase : {"idle", "loading", "attached-streaming", "client-detached",
                         "persisted-terminal", "execution-unknown"}]
  /\ Cardinality({i \in inspects : i.active}) <= 1

(* What the inspector shows belongs to the run the mounted effect monitors,  *)
(* shows no event the service has not logged and no outcome but the run's:   *)
(* an answer to a superseded selection or to a superseded run never shows.   *)
InspectorTellsTruth ==
  /\ \A i \in inspects : i.active /\ i.monitored # {} /\ shown.run # 0 => i.monitored = {shown.run}
  /\ shown.run # 0 => shown.cursor <= run[shown.run].logged
  /\ shown.phase \in {"execution-unknown", "persisted-terminal"} =>
       Ended(shown.run) /\ shown.phase = Phase(shown.run)

(* A run that has ended, latest of the conversation that stays selected, is  *)
(* shown with its outcome in the end: the poll goes on, a failed watch goes  *)
(* on, and no superseded answer stops the monitor.                           *)
InspectorSettles ==
  \A r \in RunId :
    <>[](Ended(r) /\ selected = run[r].of /\ Latest(selected) = r)
      => <>[](shown.run = r /\ shown.phase = Phase(r))

(* A blocked conversation that stays selected is shown with the button that  *)
(* acknowledges it: "execution-unknown" of a blocked conversation asks for   *)
(* acknowledgement (tests/web/run-inspector.test.tsx).                       *)
BlockedIsOffered ==
  \A c \in Conversation : <>[](row[c] = "blocked" /\ selected = c) => []<>Offered
=============================================================================
