----------------------------- MODULE FakeRuntime -----------------------------
(* FakeDshRuntime (server/runtime.ts of the AG-UI runtime): the runtime port *)
(* without a process.  A run waits its delay, then writes a proof into a     *)
(* partition named by session, generation and turn, and tells of it in       *)
(* notifications.  Whoever calls it keeps the runs of a session apart.       *)
EXTENDS Naturals, FiniteSets

CONSTANTS FakeRun, FakeSession, MaxGeneration, MaxFakeFaults

VARIABLES
  of,          \* the session of each run
  fake,        \* run -> "new", "delay", "work", "partition", "result", or how it ended
  delayed,     \* delayMs is not 0
  failNext,    \* "none", "known", "uncertain"
  generation,
  shutDown,    \* the flag closed
  memory,      \* session -> how many runs it remembers
  partitions,  \* the partitions on the disk: [session, generation, turn]
  fakeFaults

fakeVars == <<of, fake, delayed, failNext, generation, shutDown, memory, partitions, fakeFaults>>

Over   == {"succeeded", "failed", "uncertain", "refused"}
Busy   == {r \in FakeRun : fake[r] \notin Over \cup {"new"}}
Turn(r) == memory[of[r]] + 1
Named(r) == [session |-> of[r], generation |-> generation, turn |-> Turn(r)]
FakeKept == UNCHANGED <<of, delayed>>
Becomes(r, what) == fake' = [fake EXCEPT ![r] = what]

(* The caller has no two runs of one session at a time.                      *)
Called(r) ==
  /\ fake[r] = "new" /\ \A o \in Busy : of[o] # of[r]
  /\ Becomes(r, IF shutDown THEN "refused" ELSE IF delayed THEN "delay" ELSE "work")
  /\ FakeKept /\ UNCHANGED <<failNext, generation, shutDown, memory, partitions, fakeFaults>>

DelayOver(r) ==
  /\ fake[r] = "delay" /\ Becomes(r, "work")
  /\ FakeKept /\ UNCHANGED <<failNext, generation, shutDown, memory, partitions, fakeFaults>>

(* A failure that was asked for; otherwise the call is told, and mkdir, which*)
(* refuses a directory that is there.                                        *)
Working(r) ==
  /\ fake[r] = "work" /\ failNext' = "none"
  /\ IF failNext # "none"
     THEN Becomes(r, IF failNext = "known" THEN "failed" ELSE "uncertain") /\ UNCHANGED partitions
     ELSE IF Named(r) \in partitions THEN Becomes(r, "failed") /\ UNCHANGED partitions
     ELSE Becomes(r, "partition") /\ partitions' = partitions \cup {Named(r)}
  /\ FakeKept /\ UNCHANGED <<generation, shutDown, memory, fakeFaults>>

(* The proof is written, the result told and the prompt remembered.          *)

Completes(r) ==
  /\ fake[r] = "partition" /\ Becomes(r, "succeeded")
  /\ memory' = [memory EXCEPT ![of[r]] = @ + 1]
  /\ FakeKept /\ UNCHANGED <<failNext, generation, shutDown, partitions, fakeFaults>>

WriteFails(r) ==
  /\ fake[r] = "partition" /\ fakeFaults < MaxFakeFaults
  /\ Becomes(r, "failed") /\ fakeFaults' = fakeFaults + 1
  /\ FakeKept /\ UNCHANGED <<failNext, generation, shutDown, memory, partitions>>

AskToFail(what) ==
  /\ failNext = "none" /\ failNext' = what /\ fakeFaults < MaxFakeFaults /\ fakeFaults' = fakeFaults + 1
  /\ FakeKept /\ UNCHANGED <<fake, generation, shutDown, memory, partitions>>

RestartedFake ==
  /\ Busy = {} /\ ~shutDown /\ generation < MaxGeneration /\ generation' = generation + 1
  /\ FakeKept /\ UNCHANGED <<fake, failNext, shutDown, memory, partitions, fakeFaults>>

(* close refuses while a run is active.                                      *)
ClosedFake ==
  /\ ~shutDown /\ Busy = {} /\ shutDown' = TRUE
  /\ FakeKept /\ UNCHANGED <<fake, failNext, generation, memory, partitions, fakeFaults>>

(* shutdown rejects the runs in their delay; one that is past it goes on.    *)
ShutDownFake ==
  /\ ~shutDown /\ shutDown' = TRUE
  /\ fake' = [r \in FakeRun |-> IF fake[r] = "delay" THEN "uncertain" ELSE fake[r]]
  /\ FakeKept /\ UNCHANGED <<failNext, generation, memory, partitions, fakeFaults>>

FakeInit ==
  /\ of \in [FakeRun -> FakeSession] /\ fake = [r \in FakeRun |-> "new"] /\ delayed \in BOOLEAN
  /\ failNext = "none" /\ generation = 1 /\ shutDown = FALSE
  /\ memory = [s \in FakeSession |-> 0] /\ partitions = {} /\ fakeFaults = 0

FakeNext ==
  \/ \E r \in FakeRun : Called(r) \/ DelayOver(r) \/ Working(r) \/ Completes(r) \/ WriteFails(r)
  \/ AskToFail("known") \/ AskToFail("uncertain")
  \/ RestartedFake \/ ClosedFake \/ ShutDownFake

FakeSpec == FakeInit /\ [][FakeNext]_fakeVars

FakeTypeOK ==
  /\ fake \in [FakeRun -> {"new", "delay", "work", "partition"} \cup Over]
  /\ generation \in 1 .. MaxGeneration /\ failNext \in {"none", "known", "uncertain"}
  /\ memory \in [FakeSession -> 0 .. Cardinality(FakeRun)] /\ fakeFaults \in 0 .. MaxFakeFaults

(* Two calls of a session never get the same name, even across restarts, so  *)
(* a run fails only if a failure was asked for or met, and its outcome is    *)
(* uncertain only if that was asked for or the runtime was shut down.        *)
FakeFailsOnlyIfAsked ==
  \A r \in FakeRun :
    /\ fake[r] = "failed" => fakeFaults > 0
    /\ fake[r] = "uncertain" => fakeFaults > 0 \/ shutDown
    /\ fake[r] = "delay" => ~shutDown
=============================================================================
