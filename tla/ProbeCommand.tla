---------------------------- MODULE ProbeCommand ----------------------------
(* runCommand of labs/sandbox-isolation: one probe process in a group of its *)
(* own, a deadline and an output limit that kill the group, and an answer    *)
(* that waits until nobody is left in it.  External: the processes, the      *)
(* pipes and the delivery of a signal.                                       *)
EXTENDS Naturals

CONSTANTS MaxPolls  \* tries to see the group gone (40)

VARIABLES
  probe,       \* the main process: "none", "running", "exited"
  descendant,  \* another member of the group: "none", "running", "gone"
  pipe,        \* the descendant holds the output pipes
  killed,      \* SIGKILL was sent to the group and takes effect in a later step
  failure,     \* the first reason to refuse the result, or "none"
  stage,       \* runCommand: "idle", "open", "polling", "answered"
  polls,
  answer       \* "none", "result", "failure", "unconfirmed"

probeVars == <<probe, descendant, pipe, killed, failure, stage, polls, answer>>

OS         == UNCHANGED <<failure, stage, polls, answer>>
GroupAlive == probe = "running" \/ descendant = "running"

Spawned ==
  /\ stage = "idle" /\ stage' = "open" /\ probe' = "running"
  /\ UNCHANGED <<descendant, pipe, killed, failure, polls, answer>>

(* spawn fails: "error" is emitted, and "close" after it.                    *)
SpawnFails ==
  /\ stage = "idle" /\ stage' = "open" /\ probe' = "exited" /\ failure' = "error"
  /\ UNCHANGED <<descendant, pipe, killed, polls, answer>>

Forks(holds) ==
  /\ probe = "running" /\ descendant = "none" /\ ~killed
  /\ descendant' = "running" /\ pipe' = holds
  /\ OS /\ UNCHANGED <<probe, killed>>

ProbeExits ==
  /\ probe = "running" /\ probe' = "exited"
  /\ OS /\ UNCHANGED <<descendant, pipe, killed>>

DescendantExits ==
  /\ descendant = "running" /\ descendant' = "gone" /\ pipe' = FALSE
  /\ OS /\ UNCHANGED <<probe, killed>>

(* stop(): the deadline and the output limit are reasons while no other one  *)
(* was given; only the first one signals.                                    *)
Stop(reason) ==
  /\ stage = "open" /\ failure = "none"
  /\ failure' = reason /\ killed' = TRUE
  /\ UNCHANGED <<probe, descendant, pipe, stage, polls, answer>>

Deadline    == Stop("deadline")
OutputLimit == (probe = "running" \/ pipe) /\ Stop("limit")

(* A killed group dies member by member.                                     *)
Dies == killed /\ (ProbeExits \/ DescendantExits)

(* "close": the main process has exited and nobody holds its pipes.  A group *)
(* that is still there is killed and polled for.                             *)
Confirmed_Blindly == TRUE
Confirmed == ~GroupAlive
Answers(what) == stage' = "answered" /\ answer' = what
Result == IF failure = "none" THEN "result" ELSE "failure"

Closed ==
  /\ stage = "open" /\ probe = "exited" /\ ~pipe
  /\ IF Confirmed
     THEN Answers(Result) /\ UNCHANGED <<failure, killed>>
     ELSE /\ stage' = "polling" /\ killed' = TRUE /\ UNCHANGED answer
          /\ failure' = IF failure = "none" THEN "descendants" ELSE failure
  /\ UNCHANGED <<probe, descendant, pipe, polls>>

PollsAgain ==
  /\ stage = "polling"
  /\ \/ Confirmed /\ Answers(Result) /\ UNCHANGED polls
     \/ ~Confirmed /\ polls < MaxPolls /\ polls' = polls + 1 /\ UNCHANGED <<stage, answer>>
     \/ ~Confirmed /\ polls = MaxPolls /\ Answers("unconfirmed") /\ UNCHANGED polls
  /\ UNCHANGED <<probe, descendant, pipe, killed, failure>>

ProbeInit ==
  /\ probe = "none" /\ descendant = "none" /\ pipe = FALSE /\ killed = FALSE
  /\ failure = "none" /\ stage = "idle" /\ polls = 0 /\ answer = "none"

ProbeNext ==
  \/ Spawned \/ SpawnFails \/ \E holds \in BOOLEAN : Forks(holds)
  \/ ProbeExits \/ DescendantExits \/ Deadline \/ OutputLimit \/ Closed \/ PollsAgain

(* The timer fires, a SIGKILL takes effect, events are delivered.            *)
ProbeFairness ==
  /\ WF_probeVars(Deadline) /\ WF_probeVars(Dies)
  /\ WF_probeVars(Closed) /\ WF_probeVars(PollsAgain)

ProbeSpec == ProbeInit /\ [][ProbeNext]_probeVars /\ ProbeFairness

ProbeTypeOK ==
  /\ probe \in {"none", "running", "exited"} /\ descendant \in {"none", "running", "gone"}
  /\ stage \in {"idle", "open", "polling", "answered"} /\ polls \in 0 .. MaxPolls
  /\ answer \in {"none", "result", "failure", "unconfirmed"}

(* An answer other than "exit remains unconfirmed" means that no member of   *)
(* the group is left, and a result is never given for a probe that was       *)
(* killed or left descendants behind.                                        *)
AnswerMeansGone ==
  /\ answer \in {"result", "failure"} => ~GroupAlive
  /\ answer = "result" => ~killed /\ failure = "none"

(* A probe that was started is answered: it ends, or its deadline kills it.  *)
ProbeIsAnswered == stage = "open" ~> stage = "answered"
=============================================================================
