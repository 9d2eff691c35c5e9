----------------------------- MODULE Projection -----------------------------
(* AguiProjector turns the engine's notifications of one run into AG-UI      *)
(* events, which are logged; conversationMessages rebuilds the chat from the *)
(* log, whenever the page asks, also in the middle of a run.                 *)
(*                                                                           *)
(* A notification the projector rejects fails the run.  External: the engine *)
(* may send anything, except that it does not use the number of a step or    *)
(* the id of a call for a second one in the same run.                        *)
EXTENDS Naturals, SequencesExt

CONSTANTS Step, Call

VARIABLES
  steps,   \* open steps: [open, committed to a message, its calls, calls' state]
  events,  \* AG-UI events logged so far
  ended,   \* "no", "closed" (assertClosed passed), "failed" (the projector threw)
  past     \* steps that are finished

projectorVars == <<steps, events, ended, past>>

Fresh == [open |-> FALSE, assistant |-> FALSE, committed |-> {}, calls |-> [c \in Call |-> "none"]]

Event(type, s, c) == [type |-> type, step |-> s, call |-> c]
Nobody == "none"
Three(types, s, c) == [n \in 1 .. 3 |-> Event(types[n], s, c)]
TextMessage == <<"TEXT_MESSAGE_START", "TEXT_MESSAGE_CONTENT", "TEXT_MESSAGE_END">>
Tool        == <<"TOOL_CALL_START", "TOOL_CALL_ARGS", "TOOL_CALL_END">>

Emits(new)   == events' = events \o new /\ UNCHANGED <<ended, past>>
Throws       == ended' = "failed" /\ UNCHANGED <<steps, events, past>>
Running      == ended = "no"

StepStart(s) ==
  /\ Running /\ s \notin past
  /\ IF steps[s].open THEN Throws
     ELSE /\ steps' = [steps EXCEPT ![s] = [Fresh EXCEPT !.open = TRUE]]
          /\ Emits(<<Event("STEP_STARTED", s, Nobody)>>)

(* assistant/message: its calls are remembered, its text (if any) is sent.   *)
(* A message may carry the same call id twice, which is rejected.            *)
AssistantMessage(s, cs, text, twice) ==
  /\ Running /\ \A other \in Step \ {s} : steps[other].committed \cap cs = {}
  /\ IF ~steps[s].open \/ steps[s].assistant \/ twice THEN Throws
     ELSE /\ steps' = [steps EXCEPT ![s].assistant = TRUE, ![s].committed = cs]
          /\ Emits(IF text THEN Three(TextMessage, s, Nobody) ELSE <<>>)

(* tool/call: of the committed message, once, with its name and arguments.   *)
Callable_Uncommitted(s, c) == steps[s].assistant /\ steps[s].calls[c] = "none"
Callable(s, c) == steps[s].assistant /\ c \in steps[s].committed /\ steps[s].calls[c] = "none"

ToolCall(s, c, same) ==
  /\ Running
  /\ IF ~steps[s].open \/ ~Callable(s, c) \/ ~same THEN Throws
     ELSE /\ steps' = [steps EXCEPT ![s].calls[c] = "pending"]
          /\ Emits(Three(Tool, s, c))

(* tool/result: of a call that was announced and has no result yet.          *)
Answerable(s, c) == steps[s].calls[c] = "pending"

ToolResult(s, c) ==
  /\ Running
  /\ IF ~steps[s].open \/ ~Answerable(s, c) THEN Throws
     ELSE /\ steps' = [steps EXCEPT ![s].calls[c] = "settled"]
          /\ Emits(<<Event("TOOL_CALL_RESULT", s, c)>>)

Complete(s) == steps[s].assistant /\ \A c \in steps[s].committed : steps[s].calls[c] = "settled"

StepEnd(s) ==
  /\ Running
  /\ IF ~steps[s].open \/ ~Complete(s) THEN Throws
     ELSE /\ steps' = [steps EXCEPT ![s].open = FALSE]
          /\ events' = Append(events, Event("STEP_FINISHED", s, Nobody))
          /\ past' = past \cup {s} /\ UNCHANGED ended

(* The run is over: assertClosed().                                          *)
AssertClosed ==
  /\ Running
  /\ ended' = IF \E s \in Step : steps[s].open THEN "failed" ELSE "closed"
  /\ UNCHANGED <<steps, events, past>>

ProjectorInit ==
  /\ steps = [s \in Step |-> Fresh] /\ events = <<>> /\ ended = "no" /\ past = {}

ProjectorNext ==
  \/ \E s \in Step :
       \/ StepStart(s) \/ StepEnd(s)
       \/ \E cs \in SUBSET Call, text, twice \in BOOLEAN : AssistantMessage(s, cs, text, twice)
       \/ \E c \in Call : ToolResult(s, c) \/ \E same \in BOOLEAN : ToolCall(s, c, same)
  \/ AssertClosed

ProjectorSpec == ProjectorInit /\ [][ProjectorNext]_projectorVars

----------------------------------------------------------------------------
(* conversationMessages: the transcript of a log.                            *)

Assistant(s, text) == [role |-> "assistant", of |-> s, text |-> text, calls |-> <<>>]
Place(messages, s) == SelectLastInSeq(messages, LAMBDA m : m.role = "assistant" /\ m.of = s)

(* An assistant message is created by its text, or else by its first call;   *)
(* the arguments go to the first call with that id of every message.         *)
WithMessage(messages, s) ==
  IF Place(messages, s) = 0 THEN Append(messages, Assistant(s, 0)) ELSE messages

Texted(messages, n) == [messages EXCEPT ![n].text = @ + 1]
Called(messages, n, c) ==
  [messages EXCEPT ![n].calls = Append(@, [id |-> c, arguments |-> 0])]
Argued(calls, c) ==
  [k \in DOMAIN calls |-> IF calls[k].id = c /\ \A j \in 1 .. k - 1 : calls[j].id # c
                          THEN [calls[k] EXCEPT !.arguments = @ + 1] ELSE calls[k]]

Rendered(messages, e) ==
  CASE e.type = "TEXT_MESSAGE_START" -> Append(messages, Assistant(e.step, 0))
    [] e.type = "TEXT_MESSAGE_CONTENT" /\ Place(messages, e.step) # 0 ->
         Texted(messages, Place(messages, e.step))
    [] e.type = "TOOL_CALL_START" ->
         LET with == WithMessage(messages, e.step) IN Called(with, Place(with, e.step), e.call)
    [] e.type = "TOOL_CALL_ARGS" ->
         [n \in DOMAIN messages |-> [messages[n] EXCEPT !.calls = Argued(@, e.call)]]
    [] e.type = "TOOL_CALL_RESULT" ->
         Append(messages, [role |-> "tool", of |-> e.call, text |-> 1, calls |-> <<>>])
    [] OTHER -> messages

(* The transcripts of a log: of its first n events, for each n.              *)
Transcripts(log) ==
  LET transcript[n \in 0 .. Len(log)] ==
        IF n = 0 THEN <<>> ELSE Rendered(transcript[n - 1], log[n])
  IN  transcript

----------------------------------------------------------------------------

CallsOf(message) == {message.calls[k].id : k \in DOMAIN message.calls}

ProjectorTypeOK ==
  /\ ended \in {"no", "closed", "failed"} /\ past \subseteq Step
  /\ \A s \in Step : steps[s].committed \subseteq Call
  /\ \A n \in DOMAIN events : events[n].step \in Step /\ events[n].call \in Call \cup {Nobody}

(* Whenever the page reads the log, its transcript is one a chat can be      *)
(* continued from: one message per step, every tool message answers a call   *)
(* that an earlier assistant message makes, no call is made or answered      *)
(* twice; and the transcript of a run that passed assertClosed leaves no     *)
(* call without its arguments and its answer.                                *)
TranscriptAnswersCalls ==
  LET transcripts == Transcripts(events) IN
  \A n \in 0 .. Len(events) :
    LET messages == transcripts[n]
        tools    == {k \in DOMAIN messages : messages[k].role = "tool"}
        makes(k, c) == messages[k].role = "assistant" /\ c \in CallsOf(messages[k])
    IN /\ \A j, k \in DOMAIN messages :
            j # k => messages[j].of # messages[k].of \/ messages[j].role # messages[k].role
       /\ \A k \in tools : \E j \in 1 .. k - 1 : makes(j, messages[k].of)
       /\ \A k \in DOMAIN messages : \A i, j \in DOMAIN messages[k].calls :
            i # j => messages[k].calls[i].id # messages[k].calls[j].id
       /\ ended = "closed" /\ n = Len(events) =>
            \A k \in DOMAIN messages : \A i \in DOMAIN messages[k].calls :
              /\ messages[k].calls[i].arguments = 1
              /\ \E j \in tools : messages[j].of = messages[k].calls[i].id
=============================================================================
