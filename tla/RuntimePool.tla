------------------------------ MODULE RuntimePool ------------------------------
(***************************************************************************)
(* RuntimePool of labs/runtime-supervision/src/pool.ts: a fixed number of  *)
(* supervised slots, leased to one request each, and a bounded queue of    *)
(* requests with deadlines and abort signals.  pump runs to its end within *)
(* the call that releases a slot, removes an entry or submits a request.   *)
(***************************************************************************)
EXTENDS RuntimeSupervisor, Sequences

CONSTANTS
  Requests,   \* bound on the requests, numbered as they arrive
  MaxQueued   \* capacity of the queue

Seqs == INSTANCE SequencesExt

ASSUME PoolConstants == Requests \in Nat /\ MaxQueued \in Nat

VARIABLES
  pool,     \* "open", "closing", "closingSlots" once closeStarted, "closed", "close-failed"
  queue,    \* pending
  lease,    \* the request each slot is leased to, 0 for none
  blocked,  \* slots whose factory handed out an old owner
  request   \* what became of each request; "overdue" is queued past its deadline

poolVars == <<pool, queue, lease, blocked, request>>
slotVars == <<supVars, poolVars>>

Request == 1 .. Requests

Waiting(r) == request[r] \in {"queued", "overdue"}
Settled(r) == request[r] \in {"rejected", "done"}

\* slotState and the conditions on it.
Quarantined(s) == s \in blocked' \/ sup[s].state = "quarantined"
AllUnavailable == \A s \in Slot : Quarantined(s)
Available(s, leases) == leases[s] = 0 /\ sup[s].state = "idle" /\ s \notin blocked'

\* The loop of pump: n entries are shifted, those still in time are dispatched to the slots of
\* given, first to first, and it goes on until the queue is empty or no slot is free.
Shifted(entries, requests, free, n, given, entry) ==
  /\ {entry[s] : s \in given} = {i \in 1 .. n : requests[entries[i]] = "queued"}
  /\ \A s, t \in given : s < t => entry[s] < entry[t]
  /\ \A s \in given, t \in free : t < s => t \in given
  /\ n < Len(entries) => given = free
  /\ n # 0 => \E s \in free : s \in given => entry[s] = n

\* What that leaves of the entries, the leases and the requests.  If no slot will ever be
\* free again, everybody who waits is rejected.
Served(entries, leases, requests, n, given, entry) ==
  /\ queue' = IF AllUnavailable THEN << >> ELSE SubSeq(entries, n + 1, Len(entries))
  /\ lease' = [s \in Slot |-> IF s \in given THEN entries[entry[s]] ELSE leases[s]]
  /\ request' = [r \in Request |->
       IF \E s \in given : entries[entry[s]] = r THEN "running"
       ELSE IF \E i \in DOMAIN entries : entries[i] = r /\ (i <= n \/ AllUnavailable)
            THEN "rejected"
       ELSE requests[r]]

\* dispatch calls run of the supervisors of given.
Dispatched(sups, given, made) ==
  /\ sup' = [s \in Slot |-> IF s \in given THEN Begun(sups[s], made[s]) ELSE sups[s]]
  /\ unclosed' = [s \in Slot |->
       IF s \in given THEN unclosed[s] \cup Made(sups[s], made[s]) ELSE unclosed[s]]

\* pump, over the queue, the leases, the requests and the supervisors as its caller leaves
\* them.
Pump(entries, leases, requests, sups) ==
  LET free == {s \in Slot : Available(s, leases)}
  IN \E n \in 0 .. Len(entries), given \in SUBSET free : \E entry \in [given -> 1 .. n] :
       /\ Shifted(entries, requests, free, n, given, entry)
       /\ Served(entries, leases, requests, n, given, entry)
       /\ \E made \in [given -> {"owner", "error", "reuse"}] : Dispatched(sups, given, made)

\* A pump that does nothing, because the pool is not open.
NoPump(entries, leases, requests, sups) ==
  /\ queue' = entries /\ lease' = leases /\ request' = requests /\ sup' = sups
  /\ UNCHANGED unclosed

------------------------------------------------------------------------------
\* run refuses: the pool is not open, has no slot left, or the signal is aborted.
Refuse(r) ==
  /\ request[r] = "new"
  /\ request' = [request EXCEPT ![r] = "rejected"]
  /\ UNCHANGED <<supVars, pool, queue, lease, blocked>>

\* run at capacity.
Full(r) ==
  /\ request[r] = "new" /\ pool = "open"
  /\ Len(queue) >= MaxQueued
  /\ UNCHANGED <<pool, blocked>>
  /\ ~ \E s \in Slot : Available(s, lease)
  /\ NoPump(queue, lease, [request EXCEPT ![r] = "rejected"], sup)

\* run: a free slot when nothing waits, a place in the queue otherwise.
Submit(r) ==
  /\ request[r] = "new" /\ pool = "open"
  /\ UNCHANGED <<pool, blocked>>
  /\ ~ AllUnavailable
  /\ Len(queue) < MaxQueued \/ \E s \in Slot : Available(s, lease)
  /\ Pump(Append(queue, r), lease, [request EXCEPT ![r] = "queued"], sup)

\* The deadline of a waiting entry passes; all have the same timeout.
Overdue(r) ==
  /\ request[r] = "queued"
  /\ \A q \in 1 .. r - 1 : request[q] # "queued"
  /\ request' = [request EXCEPT ![r] = "overdue"]
  /\ UNCHANGED <<supVars, pool, queue, lease, blocked>>

\* removePending: the timer fires, or the signal is aborted.
Remove(r) ==
  /\ Waiting(r)
  /\ UNCHANGED <<pool, blocked>>
  /\ \E i \in DOMAIN queue :
       /\ queue[i] = r
       /\ Pump(Seqs!RemoveAt(queue, i), lease, [request EXCEPT ![r] = "rejected"], sup)

\* Mutant: the slot is free again, but nobody is let in.
Release_NoPump(s) ==
  /\ lease[s] # 0 /\ Reported(s)
  /\ blocked' = IF sup[s].run = "reuse" THEN blocked \cup {s} ELSE blocked
  /\ UNCHANGED pool
  /\ NoPump(queue, [lease EXCEPT ![s] = 0], [request EXCEPT ![lease[s]] = "done"],
            [sup EXCEPT ![s].run = "none"])

\* The answer of the supervisor reaches dispatch: release, and then the caller.
Release(s) ==
  /\ lease[s] # 0 /\ Reported(s)
  /\ blocked' = IF sup[s].run = "reuse" THEN blocked \cup {s} ELSE blocked
  /\ UNCHANGED pool
  /\ LET step(P(_, _, _, _)) == P(queue, [lease EXCEPT ![s] = 0],
           [request EXCEPT ![lease[s]] = "done"], [sup EXCEPT ![s].run = "none"])
     IN IF pool = "open" THEN step(Pump) ELSE step(NoPump)

------------------------------------------------------------------------------

\* close: no more admissions, and what waits is rejected.
Close ==
  /\ pool = "open"
  /\ pool' = "closing"
  /\ queue' = << >>
  /\ request' = [r \in Request |-> IF Waiting(r) THEN "rejected" ELSE request[r]]
  /\ UNCHANGED <<supVars, lease, blocked>>

\* maybeCloseDrained, in the turn that released the last lease or called close.
CloseSlots ==
  /\ pool = "closing"
  /\ \A s \in Slot : lease[s] = 0
  /\ pool' = "closingSlots"
  /\ sup' = [s \in Slot |-> Stopped(sup[s])]
  /\ UNCHANGED <<unclosed, queue, lease, blocked, request>>

\* Every supervisor has answered.
CloseDone ==
  /\ pool = "closingSlots"
  /\ \A s \in Slot : sup[s].cleanup # "called"
  /\ pool' = IF \E s \in Slot : sup[s].cleanup = "failed" THEN "close-failed" ELSE "closed"
  /\ UNCHANGED <<supVars, queue, lease, blocked, request>>

PoolInit ==
  /\ SupInit
  /\ pool = "open"
  /\ queue = << >>
  /\ lease = [s \in Slot |-> 0]
  /\ blocked = {}
  /\ request = [r \in Request |-> "new"]

PoolNext ==
  \/ \E r \in Request : (\A q \in 1 .. r - 1 : request[q] # "new") /\ (Refuse(r) \/ Full(r) \/ Submit(r))
  \/ \E r \in Request : Overdue(r) \/ Remove(r)
  \/ \E s \in Slot : Release(s) \/ (Supervise(s) /\ UNCHANGED poolVars)
  \/ Close \/ CloseSlots \/ CloseDone

\* The activity timer ends an activity and SDK owners answer close; promises that are
\* settled are seen.
PoolFairness ==
  /\ \A s \in Slot : WF_slotVars(Release(s)) /\ WF_slotVars(Supervise(s) /\ UNCHANGED poolVars)
  /\ WF_slotVars(CloseSlots) /\ WF_slotVars(CloseDone)

PoolSpec == PoolInit /\ [][PoolNext]_slotVars

------------------------------------------------------------------------------
PoolTypeOK ==
  /\ SupTypeOK
  /\ pool \in {"open", "closing", "closingSlots", "closed", "close-failed"}
  /\ queue \in Seq(Request)
  /\ lease \in [Slot -> 0 .. Requests]
  /\ blocked \subseteq Slot
  /\ request \in [Request -> {"new", "queued", "overdue", "running", "rejected", "done"}]

\* No hand-over is missed: in every interleaving of releases, deadlines, aborts and
\* submissions, a request waits only while every slot that could serve it is leased, at
\* least one is, and nobody who came later is served before it.
QueueDiscipline ==
  /\ queue # << >> =>
       /\ pool = "open"
       /\ \E s \in Slot : lease[s] # 0
       /\ \A s \in Slot : lease[s] = 0 => sup[s].state # "idle" \/ s \in blocked
  /\ \A r, q \in Request : r < q /\ Waiting(r) => request[q] # "running"
  /\ \A r \in Request : Waiting(r) <=> \E i \in DOMAIN queue : queue[i] = r

\* Every request is answered, and close ends, whatever fails, and without interrupting the
\* activity of a lease.
PoolSettles ==
  /\ \A r \in Request : request[r] # "new" ~> Settled(r)
  /\ pool # "open" ~> pool \in {"closed", "close-failed"}

\* close waits for the leases, and a pool that says it is closed has no owner left.
ClosesIdleSlots ==
  /\ pool \in {"closingSlots", "closed"} => \A s \in Slot : sup[s].run = "none"
  /\ pool = "closed" => \A s \in Slot : unclosed[s] = {}
================================================================================
