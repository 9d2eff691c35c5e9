--------------------------- MODULE RuntimePoolProofs ---------------------------
(***************************************************************************)
(* Theorems about the supervised pool, for every number of slots, requests *)
(* and places in the queue.  The first sections are about one supervisor:  *)
(* that no slot ever has two owners.  The others are about the pool of     *)
(* them: that nobody waits whom a slot could serve, nobody is overtaken,   *)
(* and close waits for the leases.                                         *)
(***************************************************************************)
EXTENDS RuntimePool, SequenceTheorems, TLAPS

Supervisor ==
  [ state : {"idle", "running", "stopping", "quarantined", "closed"},
    generation : Nat, owned : Nat, cleanup : {"none", "called", "failed"}, stop : BOOLEAN,
    run : {"none", "activity", "fulfilled", "rejected", "cleanup"} \cup Report ]

\* What OneOwner says of one slot, u its supervisor and open its unclosed owners, with what
\* keeps it: only an owner that is there is cleaned up, a cleanup shows in the state, and a
\* supervisor that runs has an owner, and a race that run has still to see.  Without a close
\* a slot that is neither idle nor quarantined has a run in progress, and after one an owner
\* that nobody is closing is not there.
Owned(u, open) ==
  /\ open = IF u.owned = 0 THEN {} ELSE {u.owned}
  /\ u.cleanup # "none" => u.owned # 0
  /\ u.cleanup = "called" => u.state = "stopping"
  /\ u.cleanup = "failed" <=> u.state = "quarantined"
  /\ u.state = "running" => u.owned # 0 /\ u.run \in {"activity", "fulfilled", "rejected"}
  /\ u.run = "activity" => u.state = "running"
  /\ u.run = "fulfilled" /\ ~ u.stop => u.state = "running"
  /\ u.state = "stopping" /\ u.owned # 0 => u.cleanup = "called"
  /\ u.stop /\ u.cleanup = "none" => u.owned = 0
  /\ ~ u.stop => \/ u.state \in {"idle", "running", "quarantined"}
                 \/ u.state = "stopping" /\ u.run = "cleanup"

IInv ==
  /\ sup \in [Slot -> Supervisor]
  /\ unclosed \in [Slot -> SUBSET Nat]
  /\ \A s \in Slot : Owned(sup[s], unclosed[s])

\* A step of one slot that keeps what is owned there keeps it everywhere.
LEMMA OtherSlotsStay ==
  ASSUME IInv, NEW s \in Slot, NEW u \in Supervisor, NEW open, Owned(u, open),
         sup' = [sup EXCEPT ![s] = u], unclosed' = [unclosed EXCEPT ![s] = open]
  PROVE  IInv'
<1>1. open \in SUBSET Nat
  BY DEF Owned, Supervisor
<1>2. sup' \in [Slot -> Supervisor] /\ unclosed' \in [Slot -> SUBSET Nat]
  BY <1>1 DEF IInv
<1>3. ASSUME NEW t \in Slot PROVE Owned(sup'[t], unclosed'[t])
  <2>1. CASE t = s
    <3>1. sup'[t] = u /\ unclosed'[t] = open
      BY <2>1 DEF IInv
    <3> QED
      BY <3>1
  <2>2. CASE t # s
    <3>1. sup'[t] = sup[t] /\ unclosed'[t] = unclosed[t]
      BY <2>2 DEF IInv
    <3> QED
      BY <3>1 DEF IInv
  <2> QED
    BY <2>1, <2>2
<1> QED
  BY <1>2, <1>3 DEF IInv

\* The same for a step that makes and closes no owner.
LEMMA OwnersStay ==
  ASSUME IInv, NEW s \in Slot, NEW u \in Supervisor, Owned(u, unclosed[s]),
         sup' = [sup EXCEPT ![s] = u], UNCHANGED unclosed
  PROVE  IInv'
<1>1. unclosed' = [unclosed EXCEPT ![s] = unclosed[s]]
  BY DEF IInv
<1> QED
  BY <1>1, OtherSlotsStay

\* Fields of a supervisor that a step sets.
LEMMA Fields ==
  ASSUME NEW u \in Supervisor,
         NEW state \in {"idle", "running", "stopping", "quarantined", "closed"},
         NEW cleanup \in {"none", "called", "failed"},
         NEW run \in {"none", "activity", "fulfilled", "rejected", "cleanup"} \cup Report,
         NEW stop \in BOOLEAN, NEW owned \in Nat
  PROVE  /\ [u EXCEPT !.run = run] \in Supervisor
         /\ [u EXCEPT !.state = state] \in Supervisor
         /\ [u EXCEPT !.state = state, !.cleanup = cleanup] \in Supervisor
         /\ [u EXCEPT !.run = run, !.state = state] \in Supervisor
         /\ [u EXCEPT !.stop = stop, !.run = run] \in Supervisor
         /\ [u EXCEPT !.cleanup = cleanup, !.state = state] \in Supervisor
  BY ZenonT(40) DEF Supervisor

\* disposeCurrent leaves what is owned as it is, whatever it finds: v is the supervisor it is
\* called on, which run or close has taken out of its race.
LEMMA Disposal ==
  ASSUME NEW u \in Supervisor, NEW open, Owned(u, open), NEW v \in Supervisor,
         v.state = u.state, v.owned = u.owned, v.cleanup = u.cleanup,
         v.run # "activity", v.stop \/ v.run = "cleanup",
         u.stop => v.stop
  PROVE  Disposed(v) \in Supervisor /\ Owned(Disposed(v), open)
<1>1. CASE v.cleanup # "none"
  <2>1. Disposed(v) = v
    BY <1>1 DEF Disposed
  <2>2. v.cleanup \in {"called", "failed"}
    BY <1>1 DEF Supervisor
  <2>3. v.state # "running"
    BY <2>2 DEF Owned
  <2> QED
    BY <1>1, <2>1, <2>3 DEF Owned
<1>2. CASE v.cleanup = "none" /\ v.owned = 0
  <2>1. PICK state \in {"idle", "closed"} :
          Disposed(v) = [v EXCEPT !.state = state] /\ (state = "closed" => v.stop)
    BY <1>2 DEF Disposed
  <2>2. /\ [v EXCEPT !.state = state] \in Supervisor
        /\ [v EXCEPT !.state = state].state = state
        /\ [v EXCEPT !.state = state].owned = v.owned
        /\ [v EXCEPT !.state = state].cleanup = v.cleanup
        /\ [v EXCEPT !.state = state].run = v.run
        /\ [v EXCEPT !.state = state].stop = v.stop
    BY DEF Supervisor
  <2> QED
    BY <1>2, <2>1, <2>2 DEF Owned
<1>3. CASE v.cleanup = "none" /\ v.owned # 0
  <2> DEFINE w == [v EXCEPT !.state = "stopping", !.cleanup = "called"]
  <2>1. Disposed(v) = w
    BY <1>3 DEF Disposed
  <2>2. /\ w \in Supervisor
        /\ w.state = "stopping" /\ w.owned = v.owned /\ w.cleanup = "called"
        /\ w.run = v.run /\ w.stop = v.stop
    BY DEF Supervisor
  <2> QED
    BY <1>3, <2>1, <2>2 DEF Owned
<1>4. v.cleanup = "none" \/ v.cleanup # "none"
  OBVIOUS
<1> QED
  BY <1>1, <1>2, <1>3
------------------------------------------------------------------------------

\* A supervisor starts without an owner.
LEMMA InitOwned == SupInit => IInv
<1>1. Idle \in Supervisor /\ Owned(Idle, {})
  BY DEF Idle, Supervisor, Owned
<1> QED
  BY <1>1 DEF SupInit, IInv

\* run: an owner that is there is used again, a new one is the only one, and a factory that
\* throws leaves none.
LEMMA BeginsOwned ==
  ASSUME NEW u \in Supervisor, NEW open, Owned(u, open),
         u.state = "idle", ~ u.stop, u.run = "none",
         NEW made \in {"owner", "error", "reuse"}
  PROVE  /\ Begun(u, made) \in Supervisor
         /\ Owned(Begun(u, made), open \cup Made(u, made))
         /\ Begun(u, made).run # "none" /\ ~ Begun(u, made).stop
<1> DEFINE v == Begun(u, made)
<1>1. CASE u.owned # 0
  <2> DEFINE w == [u EXCEPT !.state = "running", !.run = "activity"]
  <2>1. /\ w \in Supervisor
        /\ w.state = "running" /\ w.run = "activity"
        /\ w.owned = u.owned /\ w.cleanup = u.cleanup /\ w.stop = u.stop
    BY DEF Supervisor
  <2> HIDE DEF w
  <2>2. Owned(w, open)
    BY <1>1, <2>1 DEF Owned
  <2>3. v = w /\ open \cup Made(u, made) = open
    BY <1>1 DEF Begun, Made, w
  <2> QED
    BY <2>1, <2>2, <2>3
<1>2. CASE u.owned = 0 /\ made # "owner"
  <2> DEFINE w == [u EXCEPT !.run = made]
  <2>1. /\ w \in Supervisor /\ w.run = made
        /\ w.state = u.state /\ w.owned = u.owned /\ w.cleanup = u.cleanup /\ w.stop = u.stop
    BY <1>2 DEF Supervisor, Report
  <2> HIDE DEF w
  <2>2. Owned(w, open)
    BY <1>2, <2>1 DEF Owned
  <2>3. v = w /\ open \cup Made(u, made) = open
    BY <1>2 DEF Begun, Made, w
  <2> QED
    BY <1>2, <2>1, <2>2, <2>3
<1>3. CASE u.owned = 0 /\ made = "owner"
  <2> DEFINE n == u.generation + 1
             w == [u EXCEPT !.state = "running", !.run = "activity", !.owned = n, !.generation = n]
  <2>1. n \in Nat /\ n # 0
    BY DEF Supervisor
  <2> HIDE DEF n
  <2>2. /\ w \in Supervisor
        /\ w.state = "running" /\ w.run = "activity" /\ w.owned = n
        /\ w.cleanup = u.cleanup /\ w.stop = u.stop
    BY <2>1 DEF Supervisor
  <2>3. Owned(w, {n})
    BY <1>3, <2>1, <2>2 DEF Owned
  <2>4. v = w /\ open \cup Made(u, made) = {n}
    BY <1>3 DEF Begun, Made, Owned, n
  <2> QED
    BY <2>2, <2>3, <2>4
<1> QED
  BY <1>1, <1>2, <1>3

\* run begins in a slot that is idle and not closed.
LEMMA CallRunOwned ==
  ASSUME IInv, NEW s \in Slot, CallRun(s)
  PROVE  IInv'
<1> DEFINE u == sup[s]
<1>1. u \in Supervisor /\ Owned(u, unclosed[s])
  BY DEF IInv
<1>2. PICK made \in {"owner", "error"} :
        /\ sup' = [sup EXCEPT ![s] = Begun(u, made)]
        /\ unclosed' = [unclosed EXCEPT ![s] = unclosed[s] \cup Made(u, made)]
  BY DEF CallRun, IInv
<1>3. u.state = "idle" /\ ~ u.stop /\ u.run = "none"
  BY DEF CallRun
<1>4. /\ Begun(u, made) \in Supervisor
      /\ Owned(Begun(u, made), unclosed[s] \cup Made(u, made))
  BY <1>1, <1>3, BeginsOwned
<1> QED
  BY <1>2, <1>4, OtherSlotsStay

\* close: an activity is interrupted, then disposeCurrent.
LEMMA CallCloseOwned ==
  ASSUME IInv, NEW s \in Slot, CallClose(s)
  PROVE  IInv'
<1> DEFINE u == sup[s]
           run == IF u.run = "activity" THEN "rejected" ELSE u.run
           v == [u EXCEPT !.stop = TRUE, !.run = run]
<1>1. u \in Supervisor /\ Owned(u, unclosed[s])
  BY DEF IInv
<1>2. /\ v \in Supervisor
      /\ v.state = u.state /\ v.owned = u.owned /\ v.cleanup = u.cleanup
      /\ v.run # "activity" /\ v.stop
  BY <1>1 DEF Supervisor
<1>3. sup' = [sup EXCEPT ![s] = Disposed(v)] /\ UNCHANGED unclosed
  BY DEF CallClose, Stopped
<1> HIDE DEF v
<1>4. Disposed(v) \in Supervisor /\ Owned(Disposed(v), unclosed[s])
  BY <1>1, <1>2, Disposal
<1> QED
  BY <1>3, <1>4, OwnersStay

\* The caller of run sees how it ended.
LEMMA SeeOutcomeOwned ==
  ASSUME IInv, NEW s \in Slot, SeeOutcome(s)
  PROVE  IInv'
<1> DEFINE u == sup[s]
           v == [u EXCEPT !.run = "none"]
<1>1. u \in Supervisor /\ Owned(u, unclosed[s])
  BY DEF IInv
<1>2. u.run \in Report /\ sup' = [sup EXCEPT ![s] = v] /\ UNCHANGED unclosed
  BY DEF SeeOutcome, Reported
<1>3. /\ v \in Supervisor
      /\ v.state = u.state /\ v.owned = u.owned /\ v.cleanup = u.cleanup /\ v.run = "none"
  BY <1>1 DEF Supervisor
<1>4. Owned(v, unclosed[s])
  BY <1>1, <1>2, <1>3 DEF Owned, Report
<1> QED
  BY <1>2, <1>3, <1>4, OwnersStay

\* The race of a run is decided, by its owner or by the deadline.
LEMMA SettleOwned ==
  ASSUME IInv, NEW s \in Slot, Settle(s)
  PROVE  IInv'
<1> DEFINE u == sup[s]
<1>1. u \in Supervisor /\ Owned(u, unclosed[s])
  BY DEF IInv
<1>2. PICK outcome \in {"fulfilled", "rejected"} :
        sup' = [sup EXCEPT ![s].run = outcome] /\ UNCHANGED unclosed
  BY DEF Settle
<1> DEFINE v == [u EXCEPT !.run = outcome]
<1>3. /\ v \in Supervisor /\ v.run = outcome
      /\ v.state = u.state /\ v.owned = u.owned /\ v.cleanup = u.cleanup /\ v.stop = u.stop
  BY <1>1 DEF Supervisor
<1>4. Owned(v, unclosed[s])
  BY <1>1, <1>3 DEF Owned, Settle
<1>5. sup' = [sup EXCEPT ![s] = v]
  BY <1>2 DEF IInv
<1> QED
  BY <1>2, <1>3, <1>4, <1>5, OwnersStay

\* run after its race: it reports the result only if close was not called, and an owner is
\* there then for the next activity.
LEMMA ResumeOwned ==
  ASSUME IInv, NEW s \in Slot, Resume(s)
  PROVE  IInv'
<1> DEFINE u == sup[s]
<1>1. u \in Supervisor /\ Owned(u, unclosed[s])
  BY DEF IInv
<1>2. UNCHANGED unclosed /\ u.run \in {"fulfilled", "rejected"}
  BY DEF Resume
<1>3. CASE u.run = "fulfilled" /\ ~ u.stop
  <2> DEFINE v == [u EXCEPT !.run = "result", !.state = "idle"]
  <2>1. sup' = [sup EXCEPT ![s] = v]
    BY <1>3 DEF Resume, IInv
  <2>2. /\ v \in Supervisor /\ v.run = "result" /\ v.state = "idle"
        /\ v.owned = u.owned /\ v.cleanup = u.cleanup /\ v.stop = u.stop
    BY <1>1 DEF Supervisor, Report
  <2>3. u.state = "running"
    BY <1>1, <1>3 DEF Owned
  <2>4. Owned(v, unclosed[s])
    BY <1>1, <2>2, <2>3 DEF Owned
  <2> QED
    BY <1>2, <2>1, <2>2, <2>4, OwnersStay
<1>4. CASE ~ (u.run = "fulfilled" /\ ~ u.stop)
  <2> DEFINE v == [u EXCEPT !.run = "cleanup"]
  <2>1. sup' = [sup EXCEPT ![s] = Disposed(v)]
    BY <1>4 DEF Resume, IInv
  <2>2. /\ v \in Supervisor /\ v.run = "cleanup"
        /\ v.state = u.state /\ v.owned = u.owned /\ v.cleanup = u.cleanup /\ v.stop = u.stop
    BY <1>1 DEF Supervisor
  <2> HIDE DEF v
  <2>3. Disposed(v) \in Supervisor /\ Owned(Disposed(v), unclosed[s])
    BY <1>1, <2>2, Disposal
  <2> QED
    BY <1>2, <2>1, <2>3, OwnersStay
<1> QED
  BY <1>3, <1>4

\* close of the owner answers: only then is the slot free of it, and otherwise it keeps it.
LEMMA OwnerClosesOwned ==
  ASSUME IInv, NEW s \in Slot, OwnerCloses(s)
  PROVE  IInv'
<1> DEFINE u == sup[s]
<1>1. u \in Supervisor /\ Owned(u, unclosed[s])
  BY DEF IInv
<1>2. u.cleanup = "called" /\ u.state = "stopping" /\ u.owned # 0 /\ unclosed[s] = {u.owned}
  BY <1>1 DEF OwnerCloses, Owned
<1> DEFINE state == IF u.stop THEN "closed" ELSE "stopping"
           v == [u EXCEPT !.owned = 0, !.cleanup = "none", !.state = state]
           w == [u EXCEPT !.cleanup = "failed", !.state = "quarantined"]
<1>3. CASE sup' = [sup EXCEPT ![s] = v] /\ unclosed' = [unclosed EXCEPT ![s] = @ \ {u.owned}]
  <2>1. /\ v \in Supervisor /\ v.owned = 0 /\ v.cleanup = "none" /\ v.state \in {"closed", "stopping"}
        /\ v.run = u.run /\ v.stop = u.stop /\ (~ u.stop => v.state = "stopping")
    BY <1>1 DEF Supervisor
  <2> HIDE DEF v
  <2>2. Owned(v, {})
    BY <1>1, <1>2, <2>1 DEF Owned
  <2>3. unclosed' = [unclosed EXCEPT ![s] = {}]
    BY <1>2, <1>3
  <2> QED
    BY <1>3, <2>1, <2>2, <2>3, OtherSlotsStay
<1>4. CASE sup' = [sup EXCEPT ![s] = w] /\ UNCHANGED unclosed
  <2>1. /\ w \in Supervisor /\ w.cleanup = "failed" /\ w.state = "quarantined"
        /\ w.owned = u.owned /\ w.run = u.run /\ w.stop = u.stop
    BY <1>1 DEF Supervisor
  <2> HIDE DEF w
  <2>2. Owned(w, unclosed[s])
    BY <1>1, <1>2, <2>1 DEF Owned
  <2> QED
    BY <1>4, <2>1, <2>2, OwnersStay
<1> QED
  BY <1>3, <1>4 DEF OwnerCloses

\* run rejects after disposeCurrent; the slot is idle again only if the owner is gone.
LEMMA UnwindOwned ==
  ASSUME IInv, NEW s \in Slot, Unwind(s)
  PROVE  IInv'
<1> DEFINE u == sup[s]
           state == IF u.state = "running" \/ (u.state = "stopping" /\ u.owned = 0)
                    THEN "idle" ELSE u.state
           v == [u EXCEPT !.run = "error", !.state = state]
<1>1. u \in Supervisor /\ Owned(u, unclosed[s])
  BY DEF IInv
<1>2. u.run = "cleanup" /\ sup' = [sup EXCEPT ![s] = v] /\ UNCHANGED unclosed
  BY DEF Unwind, IInv
<1>3. state \in {"idle", u.state} /\ state \notin {"running", "stopping"}
  BY <1>1, <1>2 DEF Owned, Unwind
<1>4. /\ v \in Supervisor /\ v.run = "error" /\ v.state = state
      /\ v.owned = u.owned /\ v.cleanup = u.cleanup /\ v.stop = u.stop
  BY <1>1 DEF Supervisor, Report
<1>5. state = "idle" /\ u.state # "idle" => u.cleanup = "none"
  BY <1>1, <1>2 DEF Owned, Supervisor
<1> HIDE DEF state, v
<1>6. Owned(v, unclosed[s])
  BY <1>1, <1>3, <1>4, <1>5 DEF Owned, Supervisor
<1> QED
  BY <1>2, <1>4, <1>6, OwnersStay

\* Every step keeps the invariant.
LEMMA NextOwned ==
  ASSUME IInv, [SupNext]_supVars
  PROVE  IInv'
<1>1. CASE UNCHANGED supVars
  BY <1>1 DEF IInv, supVars
<1>2. ASSUME NEW s \in Slot, CallRun(s) \/ CallClose(s) \/ SeeOutcome(s) \/ Supervise(s)
      PROVE  IInv'
  <2>1. CASE CallRun(s)
    BY <2>1, CallRunOwned
  <2>2. CASE CallClose(s)
    BY <2>2, CallCloseOwned
  <2>3. CASE SeeOutcome(s)
    BY <2>3, SeeOutcomeOwned
  <2>4. CASE Settle(s)
    BY <2>4, SettleOwned
  <2>5. CASE Resume(s)
    BY <2>5, ResumeOwned
  <2>6. CASE OwnerCloses(s)
    BY <2>6, OwnerClosesOwned
  <2>7. CASE Unwind(s)
    BY <2>7, UnwindOwned
  <2> QED
    BY <1>2, <2>1, <2>2, <2>3, <2>4, <2>5, <2>6, <2>7 DEF Supervise
<1> QED
  BY <1>1, <1>2 DEF SupNext

------------------------------------------------------------------------------

\* What a supervisor owns is exactly what it made and did not close, in every order of
\* runs, deadlines, aborts and failing cleanups.
THEOREM SupervisorInvariance == SupSpec => []IInv
<1>1. IInv /\ [SupNext]_supVars => IInv'
  BY NextOwned
<1> QED
  BY <1>1, InitOwned, PTL DEF SupSpec

\* A set that is empty or holds one generation has at most one member.
LEMMA OwnedIsOne == IInv => OneOwner
<1>1. ASSUME IInv, NEW s \in Slot
      PROVE  LET u == sup[s] IN
             /\ unclosed[s] \subseteq {u.owned}
             /\ u.state \in {"idle", "running"} => u.cleanup = "none"
             /\ u.run = "activity" => u.state = "running" /\ u.owned \in unclosed[s]
             /\ u.cleanup = "failed" => u.state = "quarantined" /\ u.owned \in unclosed[s]
  <2>1. sup[s] \in Supervisor /\ Owned(sup[s], unclosed[s])
    BY <1>1 DEF IInv
  <2> QED
    BY <2>1 DEF Owned, Supervisor
<1> QED
  BY <1>1 DEF OneOwner

\* However activities fail, deadlines pass, owners refuse to close and close races run, no
\* slot has two owners that are not closed, nor an activity on one that is being closed.
THEOREM SingleOwner == SupSpec => []OneOwner
BY OwnedIsOne, SupervisorInvariance, PTL

------------------------------------------------------------------------------
(***************************************************************************)
(* The pool                                                                *)
(***************************************************************************)

Progress == {"new", "queued", "overdue", "running", "rejected", "done"}

\* Leases and requests agree: a lease is of one running request, and each has one.
Leased(leases, requests) ==
  /\ \A s \in Slot : leases[s] # 0 => requests[leases[s]] = "running"
  /\ \A r \in Request : requests[r] = "running" => \E s \in Slot : leases[s] = r
  /\ \A s, t \in Slot : leases[s] # 0 /\ leases[s] = leases[t] => s = t

\* The entries are the waiting requests in the order of their arrival, and whoever runs has
\* come before all of them.
Lined(entries, requests) ==
  /\ \A i, j \in 1 .. Len(entries) : i < j => entries[i] < entries[j]
  /\ \A r \in Request : requests[r] \in {"queued", "overdue"}
                          <=> \E i \in 1 .. Len(entries) : entries[i] = r
  /\ \A q, r \in Request : q < r /\ requests[q] = "new" => requests[r] = "new"
  /\ \A r, q \in Request : r < q /\ requests[r] \in {"queued", "overdue"} => requests[q] # "running"

\* A slot is leased while the run of its supervisor has not been seen.
Seated(leases, sups, open) ==
  \A s \in Slot : Owned(sups[s], open[s]) /\ (leases[s] = 0 <=> sups[s].run = "none")

\* What every step of the pool keeps, and what a pump finds in the middle of one.
Kept(entries, leases, requests, sups, open) ==
  /\ entries \in Seq(Request)
  /\ leases \in [Slot -> 0 .. Requests]
  /\ requests \in [Request -> Progress]
  /\ sups \in [Slot -> Supervisor]
  /\ open \in [Slot -> SUBSET Nat]
  /\ Seated(leases, sups, open) /\ Leased(leases, requests) /\ Lined(entries, requests)

\* Nobody waits for a slot that could serve it, or for one that will never be free.
NoneMissed(entries, leases, sups, full) ==
  entries # << >> =>
    /\ \E s \in Slot : leases[s] # 0
    /\ \A s \in Slot : leases[s] = 0 => sups[s].state # "idle" \/ s \in full

\* Supervisors are closed after the pool has stopped admitting and the last lease is gone.
StoppedLast ==
  /\ pool # "open" => queue = << >>
  /\ pool \in {"open", "closing"} => \A s \in Slot : ~ sup[s].stop
  /\ pool \notin {"open", "closing"} => \A s \in Slot : sup[s].stop /\ lease[s] = 0
  /\ pool = "closed" => \A s \in Slot : sup[s].cleanup = "none"

PoolInv ==
  /\ pool \in {"open", "closing", "closingSlots", "closed", "close-failed"}
  /\ blocked \subseteq Slot
  /\ Kept(queue, lease, request, sup, unclosed)
  /\ NoneMissed(queue, lease, sup, blocked)
  /\ StoppedLast

\* The invariant contains what the properties say.
LEMMA PoolInvIsEnough ==
  PoolInv => PoolTypeOK /\ QueueDiscipline /\ ClosesIdleSlots /\ IInv
<1> SUFFICES ASSUME PoolInv
             PROVE  PoolTypeOK /\ QueueDiscipline /\ ClosesIdleSlots /\ IInv
  OBVIOUS
<1>1. /\ queue \in Seq(Request) /\ lease \in [Slot -> 0 .. Requests]
      /\ request \in [Request -> Progress] /\ sup \in [Slot -> Supervisor]
      /\ unclosed \in [Slot -> SUBSET Nat]
  BY DEF PoolInv, Kept
<1>2. Lined(queue, request) /\ Seated(lease, sup, unclosed) /\ StoppedLast
  BY DEF PoolInv, Kept
<1>3. \A s \in Slot : Owned(sup[s], unclosed[s]) /\ (lease[s] = 0 <=> sup[s].run = "none")
  BY <1>2 DEF Seated
<1>4. IInv
  BY <1>1, <1>3 DEF IInv
<1>5. PoolTypeOK
  BY <1>1 DEF PoolInv, PoolTypeOK, SupTypeOK, Supervisor, Progress
<1>6. QueueDiscipline
  <2>1. DOMAIN queue = 1 .. Len(queue)
    BY <1>1, LenProperties
  <2>2. \A r \in Request : Waiting(r) <=> \E i \in DOMAIN queue : queue[i] = r
    BY <1>2, <2>1 DEF Lined, Waiting
  <2>3. \A r, q \in Request : r < q /\ Waiting(r) => request[q] # "running"
    BY <1>2 DEF Lined, Waiting
  <2>4. queue # << >> =>
          /\ pool = "open"
          /\ \E s \in Slot : lease[s] # 0
          /\ \A s \in Slot : lease[s] = 0 => sup[s].state # "idle" \/ s \in blocked
    BY <1>2 DEF PoolInv, NoneMissed, StoppedLast
  <2> QED
    BY <2>2, <2>3, <2>4 DEF QueueDiscipline
<1>7. ClosesIdleSlots
  <2>1. ASSUME NEW s \in Slot, pool \in {"closingSlots", "closed"} PROVE sup[s].run = "none"
    BY <1>2, <1>3, <2>1 DEF StoppedLast
  <2>2. ASSUME NEW s \in Slot, pool = "closed" PROVE unclosed[s] = {}
    BY <1>2, <1>3, <2>1, <2>2 DEF StoppedLast, Owned
  <2> QED
    BY <2>1, <2>2 DEF ClosesIdleSlots
<1> QED
  BY <1>4, <1>5, <1>6, <1>7

\* A new pool is empty and its slots are free.
LEMMA PoolInitInv == PoolInit => PoolInv
<1> SUFFICES ASSUME PoolInit PROVE PoolInv
  OBVIOUS
<1>1. Idle \in Supervisor /\ Owned(Idle, {}) /\ Idle.run = "none" /\ ~ Idle.stop
  BY DEF Idle, Supervisor, Owned
<1>2. queue = << >> /\ queue \in Seq(Request) /\ Len(queue) = 0
  BY EmptySeq DEF PoolInit
<1>3. Seated(lease, sup, unclosed) /\ StoppedLast
  BY <1>1, <1>2 DEF PoolInit, SupInit, Seated, StoppedLast
<1>4. Leased(lease, request) /\ Lined(queue, request)
  BY <1>2 DEF PoolInit, Leased, Lined
<1> QED
  BY <1>1, <1>2, <1>3, <1>4, PoolConstants
     DEF PoolInit, SupInit, PoolInv, Kept, NoneMissed, Progress
------------------------------------------------------------------------------
(***************************************************************************)
(* pump                                                                    *)
(***************************************************************************)

\* The entries a pump shifts leave the rest in their order.
LEMMA RestOfQueue ==
  ASSUME NEW entries \in Seq(Request), NEW n \in 0 .. Len(entries)
  PROVE  LET rest == SubSeq(entries, n + 1, Len(entries)) IN
         /\ rest \in Seq(Request)
         /\ Len(rest) = Len(entries) - n
         /\ \A i \in 1 .. Len(rest) : rest[i] = entries[n + i]
<1> DEFINE rest == SubSeq(entries, n + 1, Len(entries))
<1>1. Len(entries) \in Nat /\ n \in Nat /\ n <= Len(entries)
  BY LenProperties
<1>2. CASE n < Len(entries)
  <2>1. n + 1 \in 1 .. Len(entries) /\ Len(entries) \in n + 1 .. Len(entries)
    BY <1>1, <1>2
  <2> QED
    BY <1>1, <1>2, <2>1, SubSeqProperties
<1>3. CASE n = Len(entries)
  <2>1. rest = << >>
    BY <1>1, <1>3, SubSeqProperties
  <2> QED
    BY <1>1, <1>3, <2>1, EmptySeq
<1> QED
  BY <1>1, <1>2, <1>3
\* pump finds the requests and the slots in order and leaves them so, and it does not stop
\* while somebody waits whom a slot could serve.
LEMMA PumpKeeps ==
  ASSUME NEW entries, NEW leases, NEW requests, NEW sups,
         Kept(entries, leases, requests, sups, unclosed),
         \A s \in Slot : ~ sups[s].stop /\ sups[s].state = sup[s].state,
         Pump(entries, leases, requests, sups)
  PROVE  /\ Kept(queue', lease', request', sup', unclosed')
         /\ NoneMissed(queue', lease', sup', blocked')
         /\ \A s \in Slot : ~ sup'[s].stop
<1> DEFINE free == {s \in Slot : Available(s, leases)}
           L    == Len(entries)
<1>1. PICK n \in 0 .. L, given \in SUBSET free : \E entry \in [given -> 1 .. n] :
        /\ Shifted(entries, requests, free, n, given, entry)
        /\ Served(entries, leases, requests, n, given, entry)
        /\ \E made \in [given -> {"owner", "error", "reuse"}] : Dispatched(sups, given, made)
  BY Zenon DEF Pump
<1>2. PICK entry \in [given -> 1 .. n] :
        /\ Shifted(entries, requests, free, n, given, entry)
        /\ Served(entries, leases, requests, n, given, entry)
        /\ \E made \in [given -> {"owner", "error", "reuse"}] : Dispatched(sups, given, made)
  BY <1>1, Zenon
<1>m. PICK made \in [given -> {"owner", "error", "reuse"}] : Dispatched(sups, given, made)
  BY <1>2, Zenon
<1>d. /\ n \in 0 .. L /\ given \subseteq Slot
      /\ entry \in [given -> 1 .. n] /\ made \in [given -> {"owner", "error", "reuse"}]
      /\ \A s \in given : Available(s, leases)
  BY <1>1, <1>2, <1>m
\* What is there before.
<1>3. /\ entries \in Seq(Request) /\ L \in Nat /\ DOMAIN entries = 1 .. L
      /\ \A i \in 1 .. L : entries[i] \in Request
      /\ Request \subseteq Nat \ {0} /\ Slot \subseteq Nat
  <2>1. entries \in Seq(Request)
    BY DEF Kept
  <2>2. L \in Nat /\ DOMAIN entries = 1 .. L /\ \A i \in 1 .. L : entries[i] \in Request
    BY <2>1, LenProperties, ElementOfSeq
  <2>3. Request \subseteq Nat \ {0} /\ Slot \subseteq Nat
    BY PoolConstants, SupervisorConstants DEF Request, Slot
  <2> QED
    BY <2>1, <2>2, <2>3
<1>4. /\ leases \in [Slot -> 0 .. Requests] /\ requests \in [Request -> Progress]
      /\ sups \in [Slot -> Supervisor] /\ unclosed \in [Slot -> SUBSET Nat]
      /\ Seated(leases, sups, unclosed) /\ Leased(leases, requests) /\ Lined(entries, requests)
  BY DEF Kept
<1>5. /\ n \in Nat /\ n <= L
      /\ \A s \in given : /\ s \in Slot /\ leases[s] = 0 /\ sups[s].state = "idle"
                          /\ sups[s].run = "none" /\ s \notin blocked'
                          /\ entry[s] \in 1 .. n /\ entry[s] \in 1 .. L
                          /\ requests[entries[entry[s]]] = "queued"
                          /\ entries[entry[s]] \in Request
  <2>1. ASSUME NEW s \in given
        PROVE  /\ s \in Slot /\ leases[s] = 0 /\ sups[s].state = "idle"
               /\ sups[s].run = "none" /\ s \notin blocked'
    BY <1>4, <1>d DEF Available, Seated
  <2>2. ASSUME NEW s \in given
        PROVE  entry[s] \in 1 .. n /\ requests[entries[entry[s]]] = "queued"
    <3>1. entry[s] \in {i \in 1 .. n : requests[entries[i]] = "queued"}
      BY <1>2 DEF Shifted
    <3> QED
      BY <3>1
  <2>3. n \in Nat /\ n <= L
    BY <1>3, <1>d
  <2> QED
    BY <1>3, <2>1, <2>2, <2>3
<1>6. \A s, t \in given : s # t => entry[s] # entry[t]
  <2>1. ASSUME NEW s \in given, NEW t \in given, s < t PROVE entry[s] # entry[t]
    <3>1. entry[s] < entry[t] /\ entry[s] \in Nat /\ entry[t] \in Nat
      BY <1>2, <1>5, <2>1 DEF Shifted
    <3> QED
      BY <3>1
  <2>2. ASSUME NEW s \in given, NEW t \in given, s # t PROVE s < t \/ t < s
    BY <1>3, <1>5, <2>2
  <2> QED
    BY <2>1, <2>2
<1>7. \A i, j \in 1 .. L : entries[i] = entries[j] => i = j
  <2>1. ASSUME NEW i \in 1 .. L, NEW j \in 1 .. L, i < j PROVE entries[i] # entries[j]
    <3>1. entries[i] < entries[j] /\ entries[i] \in Nat /\ entries[j] \in Nat
      BY <1>3, <1>4, <2>1 DEF Lined
    <3> QED
      BY <3>1
  <2>2. ASSUME NEW i \in 1 .. L, NEW j \in 1 .. L, i # j PROVE i < j \/ j < i
    BY <2>2
  <2> QED
    BY <2>1, <2>2
<1>8. AllUnavailable => given = {}
  <2>1. ASSUME AllUnavailable, NEW s \in given PROVE FALSE
    BY <2>1, <1>5 DEF AllUnavailable, Quarantined
  <2> QED
    BY <2>1
\* The slots.
<1>9. /\ sup' \in [Slot -> Supervisor] /\ unclosed' \in [Slot -> SUBSET Nat]
      /\ \A s \in Slot : /\ Owned(sup'[s], unclosed'[s]) /\ ~ sup'[s].stop
                         /\ IF s \in given THEN sup'[s].run # "none" ELSE sup'[s] = sups[s]
  <2>1. ASSUME NEW s \in Slot
        PROVE  /\ sup'[s] \in Supervisor /\ unclosed'[s] \in SUBSET Nat
               /\ Owned(sup'[s], unclosed'[s]) /\ ~ sup'[s].stop
               /\ IF s \in given THEN sup'[s].run # "none" ELSE sup'[s] = sups[s]
    <3>1. CASE s \notin given
      BY <1>m, <1>4, <3>1 DEF Seated, Dispatched
    <3>2. CASE s \in given
      <4>1. /\ sup'[s] = Begun(sups[s], made[s])
            /\ unclosed'[s] = unclosed[s] \cup Made(sups[s], made[s])
        BY <1>m, <3>2 DEF Dispatched
      <4>2. /\ sups[s] \in Supervisor /\ Owned(sups[s], unclosed[s])
            /\ sups[s].state = "idle" /\ ~ sups[s].stop /\ sups[s].run = "none"
            /\ made[s] \in {"owner", "error", "reuse"}
        BY <1>d, <1>4, <1>5, <3>2 DEF Seated
      <4>3. /\ sup'[s] \in Supervisor /\ Owned(sup'[s], unclosed'[s])
            /\ sup'[s].run # "none" /\ ~ sup'[s].stop
        BY ZenonT(40), <4>1, <4>2, BeginsOwned
      <4>4. unclosed'[s] \in SUBSET Nat
        BY <4>3 DEF Owned, Supervisor
      <4> QED
        BY <3>2, <4>3, <4>4
    <3> QED
      BY <3>1, <3>2
  <2>2. sup' = [s \in Slot |-> sup'[s]] /\ unclosed' = [s \in Slot |-> unclosed'[s]]
    BY <1>m DEF Dispatched
  <2> QED
    BY <2>1, <2>2
<1>10. lease' \in [Slot -> 0 .. Requests] /\ request' \in [Request -> Progress]
  <2>1. \A r \in Request : r \in 0 .. Requests /\ r # 0
    BY DEF Request
  <2>2. "running" \in Progress /\ "rejected" \in Progress
    BY DEF Progress
  <2> QED
    BY <1>2, <1>4, <1>5, <2>1, <2>2 DEF Served
<1>11. \A s \in Slot : lease'[s] = IF s \in given THEN entries[entry[s]] ELSE leases[s]
  BY <1>2 DEF Served
<1>12. Seated(lease', sup', unclosed')
  BY <1>3, <1>4, <1>5, <1>9, <1>11 DEF Seated
\* The requests: those of given run, the others shifted are rejected.
<1>13. \A r \in Request :
         request'[r] = IF \E s \in given : entries[entry[s]] = r THEN "running"
                       ELSE IF \E i \in 1 .. L : entries[i] = r /\ (i <= n \/ AllUnavailable)
                            THEN "rejected"
                       ELSE requests[r]
  BY <1>2, <1>3 DEF Served
<1>14. \A i \in 1 .. L : requests[entries[i]] \in {"queued", "overdue"}
  BY <1>3, <1>4 DEF Lined
<1>15. \A r \in Request : requests[r] \notin {"queued", "overdue"} => request'[r] = requests[r]
  BY <1>5, <1>13, <1>14
<1>16. Leased(lease', request')
  <2>1. ASSUME NEW s \in Slot, lease'[s] # 0 PROVE request'[lease'[s]] = "running"
    <3>1. CASE s \in given
      BY <1>5, <1>11, <1>13, <3>1
    <3>2. CASE s \notin given
      <4>1. lease'[s] = leases[s] /\ leases[s] \in Request
        BY <1>4, <1>11, <2>1, <3>2 DEF Request
      <4>2. requests[leases[s]] = "running"
        BY <1>4, <2>1, <4>1 DEF Leased
      <4> QED
        BY <1>15, <4>1, <4>2
    <3> QED
      BY <3>1, <3>2
  <2>2. ASSUME NEW r \in Request, request'[r] = "running" PROVE \E s \in Slot : lease'[s] = r
    <3>1. CASE \E s \in given : entries[entry[s]] = r
      BY <1>5, <1>11, <3>1
    <3>2. CASE ~ \E s \in given : entries[entry[s]] = r
      <4>1. requests[r] = "running"
        BY <1>13, <2>2, <3>2
      <4>2. PICK s \in Slot : leases[s] = r
        BY <1>4, <4>1 DEF Leased
      <4>3. s \notin given
        BY <1>3, <1>5, <4>2
      <4> QED
        BY <1>11, <4>2, <4>3
    <3> QED
      BY <3>1, <3>2
  <2>3. ASSUME NEW s \in Slot, NEW t \in Slot, lease'[s] # 0, lease'[s] = lease'[t]
        PROVE  s = t
    <3>1. ASSUME NEW x \in given, NEW y \in Slot \ given, lease'[x] = lease'[y], lease'[x] # 0
          PROVE  FALSE
      <4>1. leases[y] # 0 /\ requests[leases[y]] = "queued"
        BY <1>5, <1>11, <3>1
      <4> QED
        BY <1>4, <4>1 DEF Leased
    <3>2. CASE s \in given /\ t \in given
      BY <1>5, <1>6, <1>7, <1>11, <2>3, <3>2
    <3>3. CASE s \notin given /\ t \notin given
      BY <1>4, <1>11, <2>3, <3>3 DEF Leased
    <3> QED
      BY <2>3, <3>1, <3>2, <3>3
  <2> QED
    BY <2>1, <2>2, <2>3 DEF Leased
\* The queue.
<1>17. /\ queue' \in Seq(Request)
       /\ ~ AllUnavailable =>
            Len(queue') = L - n /\ \A i \in 1 .. Len(queue') : queue'[i] = entries[n + i]
       /\ AllUnavailable => queue' = << >> /\ Len(queue') = 0
  BY <1>2, <1>3, <1>d, RestOfQueue, EmptySeq DEF Served
<1>18. \A r \in Request : request'[r] \in {"queued", "overdue"}
                            <=> \E i \in 1 .. Len(queue') : queue'[i] = r
  <2>1. CASE AllUnavailable
    <3>1. ASSUME NEW r \in Request PROVE request'[r] \notin {"queued", "overdue"}
      BY <1>4, <1>13, <2>1 DEF Lined
    <3> QED
      BY <1>17, <2>1, <3>1
  <2>2. CASE ~ AllUnavailable
    <3>1. ASSUME NEW r \in Request, request'[r] \in {"queued", "overdue"}
          PROVE  \E i \in 1 .. Len(queue') : queue'[i] = r
      <4>1. requests[r] \in {"queued", "overdue"}
        BY <1>13, <3>1
      <4>2. PICK i \in 1 .. L : entries[i] = r
        BY <1>4, <4>1 DEF Lined
      <4>3. ~ (i <= n)
        BY <1>13, <3>1, <4>2
      <4>4. i - n \in 1 .. Len(queue') /\ n + (i - n) = i
        BY <1>3, <1>5, <1>17, <2>2, <4>3
      <4> QED
        BY <1>17, <2>2, <4>2, <4>4
    <3>2. ASSUME NEW r \in Request, NEW i \in 1 .. Len(queue'), queue'[i] = r
          PROVE  request'[r] \in {"queued", "overdue"}
      <4>1. n + i \in 1 .. L /\ ~ (n + i <= n) /\ entries[n + i] = r
        BY <1>3, <1>5, <1>17, <2>2, <3>2
      <4>2. \A j \in 1 .. L : entries[j] = r => ~ (j <= n)
        BY <1>7, <4>1
      <4>3. request'[r] = requests[r]
        BY <1>5, <1>13, <2>2, <4>2
      <4> QED
        BY <1>14, <4>1, <4>3
    <3> QED
      BY <3>1, <3>2
  <2> QED
    BY <2>1, <2>2
<1>19. Lined(queue', request')
  <2>1. \A i, j \in 1 .. Len(queue') : i < j => queue'[i] < queue'[j]
    <3>1. CASE AllUnavailable
      BY <1>17, <3>1
    <3>2. ASSUME ~ AllUnavailable, NEW i \in 1 .. Len(queue'), NEW j \in 1 .. Len(queue'), i < j
          PROVE  queue'[i] < queue'[j]
      <4>1. n + i \in 1 .. L /\ n + j \in 1 .. L /\ n + i < n + j
        BY <1>3, <1>5, <1>17, <3>2
      <4> QED
        BY <1>4, <1>17, <3>2, <4>1 DEF Lined
    <3> QED
      BY <3>1, <3>2
  <2>2. ASSUME NEW q \in Request, NEW r \in Request, q < r, request'[q] = "new"
        PROVE  request'[r] = "new"
    <3>1. requests[q] = "new"
      BY <1>13, <2>2
    <3>2. requests[r] = "new"
      BY <1>4, <2>2, <3>1 DEF Lined
    <3> QED
      BY <1>15, <3>2
  <2>3. ASSUME NEW r \in Request, NEW q \in Request, r < q,
               request'[r] \in {"queued", "overdue"}, request'[q] = "running"
        PROVE  FALSE
    <3>1. requests[r] \in {"queued", "overdue"}
      BY <1>13, <2>3
    <3>2. requests[q] # "running"
      BY <1>4, <2>3, <3>1 DEF Lined
    <3>3. PICK s \in given : entries[entry[s]] = q
      BY <1>13, <2>3, <3>2
    <3>4. PICK i \in 1 .. Len(queue') : queue'[i] = r
      BY <1>18, <2>3
    <3>5. ~ AllUnavailable
      BY <1>8, <3>3
    <3>6. n + i \in 1 .. L /\ entry[s] < n + i /\ entries[n + i] = r
      BY <1>3, <1>5, <1>17, <3>4, <3>5
    <3>7. q < r
      BY <1>4, <1>5, <3>3, <3>6 DEF Lined
    <3> QED
      BY <1>3, <2>3, <3>7
  <2> QED
    BY <1>18, <2>1, <2>2, <2>3 DEF Lined
<1>20. NoneMissed(queue', lease', sup', blocked')
  <2> SUFFICES ASSUME queue' # << >> PROVE
        /\ \E s \in Slot : lease'[s] # 0
        /\ \A s \in Slot : lease'[s] = 0 => sup'[s].state # "idle" \/ s \in blocked'
    BY DEF NoneMissed
  <2>1. ~ AllUnavailable
    BY <1>17
  <2>2. given = free
    <3>1. Len(queue') # 0
      BY <1>17, EmptySeq
    <3>2. n < L
      BY <1>3, <1>5, <1>17, <2>1, <3>1
    <3> QED
      BY <1>2, <3>2 DEF Shifted
  <2>3. ASSUME NEW s \in Slot, lease'[s] = 0
        PROVE  /\ sup'[s] = sups[s] /\ sups[s].run = "none"
               /\ sup'[s].state # "idle" \/ s \in blocked'
    <3>1. s \notin given /\ leases[s] = 0
      BY <1>3, <1>5, <1>11, <2>3
    <3>2. sup'[s] = sups[s] /\ sups[s].run = "none"
      BY <1>4, <1>9, <3>1 DEF Seated
    <3>3. ~ Available(s, leases)
      BY <2>2, <3>1
    <3> QED
      BY <3>1, <3>2, <3>3 DEF Available
  <2>4. PICK s \in Slot : s \notin blocked' /\ sup[s].state # "quarantined"
    BY <2>1 DEF AllUnavailable, Quarantined
  <2>5. lease'[s] # 0
    BY <1>9, <2>3, <2>4 DEF Owned
  <2> QED
    BY <2>3, <2>5
<1> QED
  BY <1>9, <1>10, <1>12, <1>16, <1>17, <1>19, <1>20 DEF Kept
------------------------------------------------------------------------------
(***************************************************************************)
(* The steps of the pool                                                   *)
(***************************************************************************)

\* Requests and slots are numbers, so two of them are the same or one comes first.
LEMMA Numbered ==
  /\ Request \subseteq Nat \ {0} /\ Slot \subseteq Nat
  /\ \A q, r \in Request : q # r => q < r \/ r < q
BY PoolConstants, SupervisorConstants DEF Request, Slot

\* What the steps below use of the queue.
LEMMA QueueIsOfRequests ==
  ASSUME NEW entries \in Seq(Request)
  PROVE  /\ Len(entries) \in Nat /\ DOMAIN entries = 1 .. Len(entries)
         /\ \A i \in 1 .. Len(entries) : entries[i] \in Request
BY LenProperties, ElementOfSeq

\* The next request that is not admitted changes nothing for the others.
LEMMA RefusalKeeps ==
  ASSUME NEW entries, NEW leases, NEW requests, NEW sups, NEW open,
         Kept(entries, leases, requests, sups, open),
         NEW r \in Request, requests[r] = "new", \A q \in 1 .. r - 1 : requests[q] # "new"
  PROVE  Kept(entries, leases, [requests EXCEPT ![r] = "rejected"], sups, open)
<1> DEFINE after == [requests EXCEPT ![r] = "rejected"]
<1>1. requests \in [Request -> Progress] /\ leases \in [Slot -> 0 .. Requests]
  BY DEF Kept
<1>2. after \in [Request -> Progress]
  BY <1>1 DEF Progress
<1>3. \A q \in Request : after[q] = IF q = r THEN "rejected" ELSE requests[q]
  BY <1>1
<1> HIDE DEF after
<1>4. \A q \in Request : q < r => requests[q] # "new"
  BY PoolConstants DEF Request
<1>5. Leased(leases, after)
  <2>1. Leased(leases, requests)
    BY DEF Kept
  <2>2. \A s \in Slot : leases[s] # 0 => leases[s] \in Request /\ after[leases[s]] = "running"
    <3> SUFFICES ASSUME NEW s \in Slot, leases[s] # 0
                 PROVE  leases[s] \in Request /\ after[leases[s]] = "running"
      OBVIOUS
    <3>1. leases[s] \in Request
      BY <1>1, PoolConstants DEF Request
    <3>2. requests[leases[s]] = "running"
      BY <2>1 DEF Leased
    <3> QED
      BY <1>3, <3>1, <3>2
  <2>3. \A q \in Request : after[q] = "running" => requests[q] = "running"
    BY <1>3
  <2> QED
    BY <2>1, <2>2, <2>3 DEF Leased
<1>6. Lined(entries, after)
  <2>1. Lined(entries, requests)
    BY DEF Kept
  <2> QED
    BY <1>3, <1>4, <2>1 DEF Lined
<1> QED
  BY <1>2, <1>5, <1>6 DEF Kept, after

\* The next request enters behind all those that wait.
LEMMA AdmissionKeeps ==
  ASSUME NEW entries, NEW leases, NEW requests, NEW sups, NEW open,
         Kept(entries, leases, requests, sups, open),
         NEW r \in Request, requests[r] = "new", \A q \in 1 .. r - 1 : requests[q] # "new"
  PROVE  Kept(Append(entries, r), leases, [requests EXCEPT ![r] = "queued"], sups, open)
<1> DEFINE after == [requests EXCEPT ![r] = "queued"]
           longer == Append(entries, r)
           L == Len(entries)
<1>1. /\ requests \in [Request -> Progress] /\ leases \in [Slot -> 0 .. Requests]
      /\ entries \in Seq(Request) /\ Lined(entries, requests) /\ Leased(leases, requests)
  BY DEF Kept
<1>2. after \in [Request -> Progress]
  BY <1>1 DEF Progress
<1>3. \A q \in Request : after[q] = IF q = r THEN "queued" ELSE requests[q]
  BY <1>1
<1>4. /\ longer \in Seq(Request) /\ Len(longer) = L + 1 /\ longer[L + 1] = r /\ L \in Nat
      /\ \A i \in 1 .. L : longer[i] = entries[i] /\ entries[i] \in Request
  BY <1>1, AppendProperties, QueueIsOfRequests
<1> HIDE DEF after, longer
<1>5. \A q \in Request : /\ q < r => requests[q] # "new"
                         /\ r < q => requests[q] = "new"
  BY <1>1, PoolConstants DEF Request, Lined
<1>6. Leased(leases, after)
  BY <1>1, <1>3 DEF Leased, Request
<1>7. \A i \in 1 .. L : entries[i] < r
  <2>1. ASSUME NEW i \in 1 .. L PROVE entries[i] < r
    <3>1. entries[i] \in Request /\ requests[entries[i]] # "new"
      BY <1>1, <1>4 DEF Lined
    <3> QED
      BY <1>5, <3>1, Numbered
  <2> QED
    BY <2>1
<1>8. Lined(longer, after)
  <2>1. \A i, j \in 1 .. Len(longer) : i < j => longer[i] < longer[j]
    <3>1. ASSUME NEW i \in 1 .. Len(longer), NEW j \in 1 .. Len(longer), i < j
          PROVE  longer[i] < longer[j]
      <4>1. i \in 1 .. L /\ (j \in 1 .. L \/ j = L + 1)
        BY <1>4, <3>1
      <4> QED
        BY <1>1, <1>4, <1>7, <3>1, <4>1 DEF Lined
    <3> QED
      BY <3>1
  <2>2. \A q \in Request : after[q] \in {"queued", "overdue"}
                             <=> \E i \in 1 .. Len(longer) : longer[i] = q
    <3>1. 1 .. Len(longer) = (1 .. L) \cup {L + 1}
      BY <1>4
    <3>2. ASSUME NEW q \in Request
          PROVE  after[q] \in {"queued", "overdue"} <=> \E i \in 1 .. Len(longer) : longer[i] = q
      <4>1. requests[q] \in {"queued", "overdue"} <=> \E i \in 1 .. L : entries[i] = q
        BY <1>1 DEF Lined
      <4> QED
        BY <1>3, <1>4, <3>1, <4>1
    <3> QED
      BY <3>2
  <2>3. \A p, q \in Request : p < q /\ after[p] = "new" => after[q] = "new"
    BY <1>1, <1>3, <1>5 DEF Lined
  <2>4. \A p, q \in Request :
          p < q /\ after[p] \in {"queued", "overdue"} => after[q] # "running"
    BY <1>1, <1>3, <1>5 DEF Lined
  <2> QED
    BY <2>1, <2>2, <2>3, <2>4 DEF Lined
<1> QED
  BY <1>2, <1>4, <1>6, <1>8 DEF Kept, after, longer

\* splice takes one entry out and leaves the others in their order.
LEMMA Splice ==
  ASSUME NEW entries \in Seq(Request), NEW i \in 1 .. Len(entries)
  PROVE  LET rest == Seqs!RemoveAt(entries, i) IN
         /\ rest \in Seq(Request)
         /\ Len(rest) = Len(entries) - 1
         /\ \A j \in 1 .. Len(rest) : rest[j] = entries[IF j < i THEN j ELSE j + 1]
<1> DEFINE L == Len(entries)
           head == SubSeq(entries, 1, i - 1)
           tail == SubSeq(entries, i + 1, L)
           rest == Seqs!RemoveAt(entries, i)
<1>1. L \in Nat /\ i \in Nat /\ i <= L /\ 1 <= i
  BY LenProperties
<1>2. head \in Seq(Request) /\ Len(head) = i - 1 /\ \A j \in 1 .. i - 1 : head[j] = entries[j]
  <2>1. CASE i = 1
    <3>1. head = << >>
      BY <2>1, SubSeqProperties
    <3> QED
      BY <2>1, <3>1, EmptySeq
  <2>2. CASE i # 1
    <3>1. \A j \in 1 .. i - 1 : j \in 1 .. L /\ entries[j] \in Request
      BY <1>1, ElementOfSeq
    <3> QED
      BY <1>1, <2>2, <3>1, SubSeqProperties
  <2> QED
    BY <2>1, <2>2
<1>3. tail \in Seq(Request) /\ Len(tail) = L - i /\ \A j \in 1 .. L - i : tail[j] = entries[i + j]
  BY <1>1, RestOfQueue
<1>4. rest = head \o tail
  BY DEF Seqs!RemoveAt
<1> HIDE DEF head, tail, rest
<1>5. rest \in Seq(Request) /\ Len(rest) = L - 1
  <2>1. head \in Seq(Request) /\ tail \in Seq(Request)
    BY <1>2, <1>3
  <2>2. rest \in Seq(Request) /\ Len(rest) = Len(head) + Len(tail)
    BY <1>4, <2>1, ConcatProperties
  <2> QED
    BY <1>1, <1>2, <1>3, <2>2
<1>6. ASSUME NEW j \in 1 .. Len(rest) PROVE rest[j] = entries[IF j < i THEN j ELSE j + 1]
  <2>1. j \in 1 .. Len(head) + Len(tail)
    BY <1>1, <1>2, <1>3, <1>5
  <2>2. rest[j] = IF j <= Len(head) THEN head[j] ELSE tail[j - Len(head)]
    BY <1>2, <1>3, <1>4, <2>1, ConcatProperties
  <2>3. CASE j < i
    BY <1>1, <1>2, <2>2, <2>3
  <2>4. CASE ~ (j < i)
    <3>1. j - (i - 1) \in 1 .. L - i /\ i + (j - (i - 1)) = j + 1 /\ ~ (j <= i - 1)
      BY <1>1, <1>5, <2>4
    <3> QED
      BY <1>2, <1>3, <2>2, <2>4, <3>1
  <2> QED
    BY <2>3, <2>4
<1> QED
  BY <1>5, <1>6 DEF rest

\* One who waits gives up, or is past its deadline, and leaves the queue.
LEMMA RemovalKeeps ==
  ASSUME NEW entries, NEW leases, NEW requests, NEW sups, NEW open,
         Kept(entries, leases, requests, sups, open),
         NEW i \in 1 .. Len(entries)
  PROVE  Kept(Seqs!RemoveAt(entries, i), leases,
              [requests EXCEPT ![entries[i]] = "rejected"], sups, open)
<1> DEFINE r == entries[i]
           after == [requests EXCEPT ![r] = "rejected"]
           rest == Seqs!RemoveAt(entries, i)
           L == Len(entries)
<1>1. /\ requests \in [Request -> Progress] /\ leases \in [Slot -> 0 .. Requests]
      /\ entries \in Seq(Request) /\ Lined(entries, requests) /\ Leased(leases, requests)
  BY DEF Kept
<1>2. L \in Nat /\ r \in Request /\ \A j \in 1 .. L : entries[j] \in Request
  BY <1>1, QueueIsOfRequests
<1>3. /\ rest \in Seq(Request) /\ Len(rest) = L - 1
      /\ \A j \in 1 .. L - 1 : rest[j] = entries[IF j < i THEN j ELSE j + 1]
  BY <1>1, Splice
<1>4. after \in [Request -> Progress] /\ requests[r] \in {"queued", "overdue"}
  BY <1>1, <1>2 DEF Progress, Lined
<1>5. \A q \in Request : after[q] = IF q = r THEN "rejected" ELSE requests[q]
  BY <1>1
<1> HIDE DEF after, rest
<1>6. Leased(leases, after)
  BY <1>1, <1>2, <1>4, <1>5 DEF Leased, Request
<1>7. \A j \in 1 .. L : j # i => entries[j] # r
  <2>1. ASSUME NEW j \in 1 .. L, j # i PROVE entries[j] # r
    <3>1. i < j \/ j < i
      BY <2>1
    <3>2. entries[i] < entries[j] \/ entries[j] < entries[i]
      BY <1>1, <3>1 DEF Lined
    <3>3. entries[i] \in Nat /\ entries[j] \in Nat
      BY <1>2, Numbered
    <3> QED
      BY <3>2, <3>3
  <2> QED
    BY <2>1
<1>8. Lined(rest, after)
  <2>1. \A j, k \in 1 .. Len(rest) : j < k => rest[j] < rest[k]
    <3>1. ASSUME NEW j \in 1 .. Len(rest), NEW k \in 1 .. Len(rest), j < k
          PROVE  rest[j] < rest[k]
      <4> DEFINE jj == IF j < i THEN j ELSE j + 1
                 kk == IF k < i THEN k ELSE k + 1
      <4>1. jj \in 1 .. L /\ kk \in 1 .. L /\ jj < kk
        BY <1>2, <1>3, <3>1
      <4>2. rest[j] = entries[jj] /\ rest[k] = entries[kk]
        BY <1>3, <3>1
      <4> QED
        BY <1>1, <4>1, <4>2 DEF Lined
    <3> QED
      BY <3>1
  <2>2. ASSUME NEW q \in Request, after[q] \in {"queued", "overdue"}
        PROVE  \E j \in 1 .. Len(rest) : rest[j] = q
    <3>1. q # r /\ requests[q] \in {"queued", "overdue"}
      BY <1>5, <2>2
    <3>2. PICK j \in 1 .. L : entries[j] = q
      BY <1>1, <3>1 DEF Lined
    <3>3. CASE j < i
      <4>1. j \in 1 .. L - 1
        BY <1>2, <3>3
      <4> QED
        BY <1>3, <3>2, <3>3, <4>1
    <3>4. CASE i < j
      <4>1. j - 1 \in 1 .. L - 1 /\ ~ (j - 1 < i) /\ (j - 1) + 1 = j
        BY <1>2, <3>4
      <4>2. rest[j - 1] = entries[j]
        BY <1>3, <4>1
      <4> QED
        BY <1>3, <3>2, <4>1, <4>2
    <3> QED
      BY <3>1, <3>2, <3>3, <3>4
  <2>3. ASSUME NEW j \in 1 .. Len(rest) PROVE after[rest[j]] \in {"queued", "overdue"}
    <3> DEFINE jj == IF j < i THEN j ELSE j + 1
    <3>1. jj \in 1 .. L /\ jj # i /\ rest[j] = entries[jj]
      BY <1>2, <1>3
    <3> QED
      BY <1>1, <1>2, <1>5, <1>7, <3>1 DEF Lined
  <2>4. \A p, q \in Request : p < q /\ after[p] = "new" => after[q] = "new"
    BY <1>1, <1>2, <1>4, <1>5 DEF Lined
  <2>5. \A p, q \in Request :
          p < q /\ after[p] \in {"queued", "overdue"} => after[q] # "running"
    BY <1>1, <1>5 DEF Lined
  <2> QED
    BY <2>1, <2>2, <2>3, <2>4, <2>5 DEF Lined
<1> QED
  BY <1>3, <1>4, <1>6, <1>8 DEF Kept, after, rest

\* A lease ends with the answer of its supervisor.
LEMMA ReturnKeeps ==
  ASSUME NEW entries, NEW leases, NEW requests, NEW sups, NEW open,
         Kept(entries, leases, requests, sups, open),
         NEW s \in Slot, leases[s] # 0, sups[s].run \in Report
  PROVE  /\ Kept(entries, [leases EXCEPT ![s] = 0], [requests EXCEPT ![leases[s]] = "done"],
                 [sups EXCEPT ![s].run = "none"], open)
         /\ \A t \in Slot : LET u == [sups EXCEPT ![s].run = "none"][t]
                            IN u.state = sups[t].state /\ u.stop = sups[t].stop
<1> DEFINE r == leases[s]
           u == sups[s]
           v == [u EXCEPT !.run = "none"]
           free == [leases EXCEPT ![s] = 0]
           after == [requests EXCEPT ![r] = "done"]
           seen == [sups EXCEPT ![s].run = "none"]
<1>1. /\ requests \in [Request -> Progress] /\ leases \in [Slot -> 0 .. Requests]
      /\ sups \in [Slot -> Supervisor]
      /\ Seated(leases, sups, open) /\ Leased(leases, requests) /\ Lined(entries, requests)
  BY DEF Kept
<1>2. r \in Request /\ requests[r] = "running"
  BY <1>1 DEF Leased, Request
<1>3. /\ v \in Supervisor /\ v.run = "none"
      /\ v.state = u.state /\ v.owned = u.owned /\ v.cleanup = u.cleanup /\ v.stop = u.stop
  BY <1>1 DEF Supervisor
<1>4. seen = [sups EXCEPT ![s] = v]
  BY <1>1
<1>5. \A t \in Slot : /\ free[t] = IF t = s THEN 0 ELSE leases[t]
                      /\ seen[t] = IF t = s THEN v ELSE sups[t]
  BY <1>1, <1>4
<1>6. \A q \in Request : after[q] = IF q = r THEN "done" ELSE requests[q]
  BY <1>1
<1>7. /\ free \in [Slot -> 0 .. Requests] /\ after \in [Request -> Progress]
      /\ seen \in [Slot -> Supervisor]
  <2>1. 0 \in 0 .. Requests /\ "done" \in Progress
    BY PoolConstants DEF Progress
  <2>2. free \in [Slot -> 0 .. Requests]
    BY <1>1, <2>1
  <2>3. after \in [Request -> Progress]
    BY <1>1, <2>1
  <2> QED
    BY <1>1, <1>3, <1>4, <2>2, <2>3
<1> HIDE DEF v, free, after, seen
<1>8. Owned(v, open[s])
  BY <1>1, <1>3 DEF Seated, Owned, Report
<1>9. Seated(free, seen, open)
  BY <1>1, <1>3, <1>5, <1>8 DEF Seated
<1>10. Leased(free, after)
  BY <1>1, <1>2, <1>5, <1>6 DEF Leased, Request
<1>11. Lined(entries, after)
  BY <1>1, <1>2, <1>6 DEF Lined
<1>12. Kept(entries, free, after, seen, open)
  BY <1>7, <1>9, <1>10, <1>11 DEF Kept
<1>13. \A t \in Slot : seen[t].state = sups[t].state /\ seen[t].stop = sups[t].stop
  BY <1>3, <1>5
<1> QED
  BY <1>12, <1>13 DEF free, after, seen

------------------------------------------------------------------------------

\* run refuses: the pool is closing, every slot is out of service, or the signal is aborted.
LEMMA RefuseKeeps ==
  ASSUME PoolInv, NEW r \in Request, \A q \in 1 .. r - 1 : request[q] # "new", Refuse(r)
  PROVE  PoolInv'
<1>1. Kept(queue, lease, [request EXCEPT ![r] = "rejected"], sup, unclosed)
  BY RefusalKeeps DEF PoolInv, Refuse
<1>2. Kept(queue, lease, request, sup, unclosed)' /\ NoneMissed(queue, lease, sup, blocked)'
  BY <1>1 DEF Refuse, PoolInv, supVars
<1> QED
  BY <1>2 DEF PoolInv, Refuse, StoppedLast, supVars

\* A request is refused when the queue is full.
LEMMA FullKeeps ==
  ASSUME PoolInv, NEW r \in Request, \A q \in 1 .. r - 1 : request[q] # "new", Full(r)
  PROVE  PoolInv'
<1>1. Kept(queue, lease, [request EXCEPT ![r] = "rejected"], sup, unclosed)
  BY RefusalKeeps DEF PoolInv, Full
<1>2. Kept(queue, lease, request, sup, unclosed)' /\ NoneMissed(queue, lease, sup, blocked)'
  BY <1>1 DEF Full, NoPump, PoolInv
<1> QED
  BY <1>2 DEF PoolInv, Full, NoPump, StoppedLast

\* What a pump leaves while the pool stays open.
LEMMA OpenPumpKeeps ==
  ASSUME PoolInv, pool = "open", UNCHANGED pool, blocked' \subseteq Slot,
         NEW entries, NEW leases, NEW requests, NEW sups,
         Kept(entries, leases, requests, sups, unclosed),
         \A s \in Slot : sups[s].stop = sup[s].stop /\ sups[s].state = sup[s].state,
         Pump(entries, leases, requests, sups)
  PROVE  PoolInv'
<1>1. \A s \in Slot : ~ sups[s].stop /\ sups[s].state = sup[s].state
  BY DEF PoolInv, StoppedLast
<1>2. /\ Kept(queue', lease', request', sup', unclosed')
      /\ NoneMissed(queue', lease', sup', blocked')
      /\ \A s \in Slot : ~ sup'[s].stop
  BY <1>1, PumpKeeps
<1> QED
  BY <1>2 DEF PoolInv, StoppedLast

\* A request takes a free slot if nobody waits, or a place in the queue.
LEMMA SubmitKeeps ==
  ASSUME PoolInv, NEW r \in Request, \A q \in 1 .. r - 1 : request[q] # "new", Submit(r)
  PROVE  PoolInv'
<1>1. Kept(Append(queue, r), lease, [request EXCEPT ![r] = "queued"], sup, unclosed)
  BY AdmissionKeeps DEF PoolInv, Submit
<1>2. /\ pool = "open" /\ UNCHANGED pool /\ blocked' \subseteq Slot
      /\ Pump(Append(queue, r), lease, [request EXCEPT ![r] = "queued"], sup)
  BY DEF Submit, PoolInv
<1> QED
  BY <1>1, <1>2, OpenPumpKeeps

\* The deadline of a request passes while it waits.
LEMMA OverdueKeeps ==
  ASSUME PoolInv, NEW r \in Request, Overdue(r)
  PROVE  PoolInv'
<1>1. /\ request \in [Request -> Progress]
      /\ lease \in [Slot -> 0 .. Requests]
      /\ Leased(lease, request) /\ Lined(queue, request)
  BY DEF PoolInv, Kept
<1>2. request' = [request EXCEPT ![r] = "overdue"] /\ request[r] = "queued"
  BY DEF Overdue
<1>3. /\ request' \in [Request -> Progress]
      /\ \A q \in Request : request'[q] = IF q = r THEN "overdue" ELSE request[q]
  BY <1>1, <1>2 DEF Progress
<1>4. Leased(lease, request')
  BY <1>1, <1>2, <1>3 DEF Leased, Request
<1>5. Lined(queue, request')
  BY <1>1, <1>2, <1>3 DEF Lined
<1> QED
  BY <1>3, <1>4, <1>5 DEF PoolInv, Kept, Overdue, NoneMissed, StoppedLast, supVars

\* A request leaves the queue when its timer fires or its signal is aborted.
LEMMA RemoveKeeps ==
  ASSUME PoolInv, NEW r \in Request, Remove(r)
  PROVE  PoolInv'
<1>1. queue \in Seq(Request) /\ Kept(queue, lease, request, sup, unclosed)
  BY DEF PoolInv, Kept
<1>2. PICK i \in DOMAIN queue :
        /\ queue[i] = r
        /\ Pump(Seqs!RemoveAt(queue, i), lease, [request EXCEPT ![r] = "rejected"], sup)
  BY Zenon DEF Remove
<1>3. i \in 1 .. Len(queue) /\ Len(queue) # 0
  BY <1>1, <1>2, QueueIsOfRequests
<1>4. Kept(Seqs!RemoveAt(queue, i), lease, [request EXCEPT ![r] = "rejected"], sup, unclosed)
  BY <1>1, <1>2, <1>3, RemovalKeeps
<1>5. pool = "open" /\ UNCHANGED pool /\ blocked' \subseteq Slot
  <2>1. queue # << >>
    BY <1>3, EmptySeq
  <2> QED
    BY <2>1 DEF PoolInv, StoppedLast, Remove
<1> QED
  BY <1>2, <1>4, <1>5, OpenPumpKeeps

\* The slot is free again, and whoever waits is let in before anything else happens.
LEMMA ReleaseKeeps ==
  ASSUME PoolInv, NEW s \in Slot, Release(s)
  PROVE  PoolInv'
<1> DEFINE leases == [lease EXCEPT ![s] = 0]
           requests == [request EXCEPT ![lease[s]] = "done"]
           sups == [sup EXCEPT ![s].run = "none"]
<1>1. /\ lease[s] # 0 /\ sup[s].run \in Report /\ UNCHANGED pool
      /\ blocked' \subseteq Slot
  BY DEF Release, Reported, PoolInv
<1>2. Kept(queue, lease, request, sup, unclosed)
  BY DEF PoolInv
<1>3. Kept(queue, leases, requests, sups, unclosed)
  BY <1>1, <1>2, ReturnKeeps
<1>4. \A t \in Slot : sups[t].state = sup[t].state /\ sups[t].stop = sup[t].stop
  BY <1>1, <1>2, ReturnKeeps
<1>5. IF pool = "open" THEN Pump(queue, leases, requests, sups)
                       ELSE NoPump(queue, leases, requests, sups)
  BY DEF Release
<1> HIDE DEF leases, requests, sups
<1>6. CASE pool = "open"
  BY <1>1, <1>3, <1>4, <1>5, <1>6, OpenPumpKeeps
<1>7. CASE pool # "open"
  <2>1. pool = "closing" /\ queue = << >> /\ \A t \in Slot : ~ sup[t].stop
    BY <1>1, <1>7 DEF PoolInv, StoppedLast
  <2>2. /\ Kept(queue, lease, request, sup, unclosed)'
        /\ queue' = << >> /\ \A t \in Slot : ~ sup'[t].stop
    BY <1>3, <1>4, <1>5, <1>7, <2>1 DEF NoPump
  <2> QED
    BY <1>1, <2>1, <2>2 DEF PoolInv, NoneMissed, StoppedLast
<1> QED
  BY <1>6, <1>7

\* close refuses whoever waits.
LEMMA CloseKeeps ==
  ASSUME PoolInv, Close
  PROVE  PoolInv'
<1>1. /\ queue' = << >> /\ queue' \in Seq(Request) /\ Len(queue') = 0
      /\ UNCHANGED <<sup, unclosed, lease, blocked>>
      /\ pool = "open" /\ pool' = "closing"
  BY EmptySeq DEF Close, supVars
<1>2. /\ request \in [Request -> Progress] /\ lease \in [Slot -> 0 .. Requests]
      /\ Leased(lease, request) /\ Lined(queue, request)
  BY DEF PoolInv, Kept
<1>3. \A q \in Request : request'[q] = IF request[q] \in {"queued", "overdue"}
                                       THEN "rejected" ELSE request[q]
  BY DEF Close, Waiting
<1>4. request' \in [Request -> Progress]
  <2>1. request' = [q \in Request |-> request'[q]]
    BY DEF Close
  <2>2. \A q \in Request : request'[q] \in Progress
    BY <1>2, <1>3 DEF Progress
  <2> QED
    BY <2>1, <2>2
<1>5. Leased(lease', request')
  BY <1>1, <1>2, <1>3 DEF Leased, Request
<1>6. Lined(queue', request')
  BY <1>1, <1>2, <1>3 DEF Lined
<1>7. Kept(queue, lease, request, sup, unclosed)'
  BY <1>1, <1>2, <1>4, <1>5, <1>6 DEF PoolInv, Kept
<1> QED
  BY <1>1, <1>7 DEF PoolInv, NoneMissed, StoppedLast

\* close of a supervisor that runs nothing.
LEMMA StopsIdle ==
  ASSUME NEW u \in Supervisor, NEW open, Owned(u, open), u.run = "none"
  PROVE  /\ Stopped(u) \in Supervisor /\ Owned(Stopped(u), open)
         /\ Stopped(u).run = "none" /\ Stopped(u).stop
<1> DEFINE v == [u EXCEPT !.stop = TRUE, !.run = "none"]
<1>1. /\ v \in Supervisor
      /\ v.state = u.state /\ v.owned = u.owned /\ v.cleanup = u.cleanup
      /\ v.run = "none" /\ v.stop
  BY DEF Supervisor
<1>2. Stopped(u) = Disposed(v)
  BY DEF Stopped
<1> HIDE DEF v
<1>3. Disposed(v) \in Supervisor /\ Owned(Disposed(v), open)
  BY <1>1, Disposal
<1>4. Disposed(v).run = "none" /\ Disposed(v).stop
  BY <1>1 DEF Disposed, Supervisor
<1> QED
  BY <1>2, <1>3, <1>4

\* The supervisors are closed after the last lease.
LEMMA CloseSlotsKeeps ==
  ASSUME PoolInv, CloseSlots
  PROVE  PoolInv'
<1>1. /\ pool = "closing" /\ pool' = "closingSlots" /\ queue = << >>
      /\ \A s \in Slot : lease[s] = 0
      /\ UNCHANGED <<unclosed, queue, lease, blocked, request>>
  BY DEF CloseSlots, PoolInv, StoppedLast
<1>2. Kept(queue, lease, request, sup, unclosed)
  BY DEF PoolInv
<1>3. ASSUME NEW s \in Slot
      PROVE  /\ sup'[s] \in Supervisor /\ Owned(sup'[s], unclosed'[s])
             /\ sup'[s].run = "none" /\ sup'[s].stop
  <2>1. /\ sup[s] \in Supervisor /\ Owned(sup[s], unclosed[s]) /\ sup[s].run = "none"
        /\ sup'[s] = Stopped(sup[s]) /\ unclosed'[s] = unclosed[s]
    BY <1>1, <1>2 DEF Kept, Seated, CloseSlots
  <2> QED
    BY <2>1, StopsIdle
<1>4. sup' \in [Slot -> Supervisor]
  <2>1. sup' = [s \in Slot |-> sup'[s]]
    BY DEF CloseSlots
  <2> QED
    BY <1>3, <2>1
<1>5. Seated(lease', sup', unclosed')
  BY <1>1, <1>3 DEF Seated
<1>6. Kept(queue, lease, request, sup, unclosed)'
  BY <1>1, <1>2, <1>4, <1>5 DEF Kept
<1> QED
  BY <1>1, <1>3, <1>6 DEF PoolInv, NoneMissed, StoppedLast

\* A pool says it is closed when no supervisor is left with an owner it could not close.
LEMMA CloseDoneKeeps ==
  ASSUME PoolInv, CloseDone
  PROVE  PoolInv'
<1>1. /\ pool = "closingSlots" /\ pool' \in {"close-failed", "closed"}
      /\ UNCHANGED <<sup, unclosed, queue, lease, blocked, request>>
  BY DEF CloseDone, supVars
<1>2. pool' = "closed" => \A s \in Slot : sup'[s].cleanup = "none"
  BY DEF CloseDone, supVars, PoolInv, Kept, Supervisor
<1> QED
  BY <1>1, <1>2 DEF PoolInv, Kept, Seated, Leased, Lined, NoneMissed, StoppedLast

\* A supervisor by itself ends or undoes the run of a lease, and closes an owner; it neither
\* starts a run nor lets its caller see one end.
LEMMA SuperviseKeeps ==
  ASSUME PoolInv, NEW s \in Slot, Supervise(s), UNCHANGED poolVars
  PROVE  PoolInv'
<1>1. IInv'
  <2>1. IInv
    BY PoolInvIsEnough
  <2>2. SupNext
    BY DEF SupNext
  <2> QED
    BY <2>1, <2>2, NextOwned
<1>2. UNCHANGED <<pool, queue, lease, blocked, request>>
  BY DEF poolVars
<1>3. sup \in [Slot -> Supervisor] /\ Seated(lease, sup, unclosed)
  BY DEF PoolInv, Kept
<1>4. /\ \A t \in Slot : t # s => sup'[t] = sup[t]
      /\ sup'[s].stop = sup[s].stop
      /\ sup'[s].run = "none" <=> sup[s].run = "none"
      /\ sup[s].run = "none" => sup[s].cleanup = "called"
  <2> DEFINE u == sup[s]
  <2>1. u \in Supervisor
    BY <1>3
  <2>2. CASE Settle(s)
    BY <1>3, <2>1, <2>2 DEF Settle, Supervisor
  <2>3. CASE Resume(s)
    <3> DEFINE v == [u EXCEPT !.run = "cleanup"]
    <3>1. v.stop = u.stop /\ v.run = "cleanup" /\ v \in Supervisor
      BY <2>1 DEF Supervisor
    <3>2. Disposed(v).stop = v.stop /\ Disposed(v).run = v.run
      BY <3>1 DEF Disposed, Supervisor
    <3>3. \/ sup' = [sup EXCEPT ![s] = [u EXCEPT !.run = "result", !.state = "idle"]]
          \/ sup' = [sup EXCEPT ![s] = Disposed(v)]
      BY <2>3 DEF Resume
    <3>4. u.run # "none"
      BY <2>3 DEF Resume
    <3> HIDE DEF v
    <3> QED
      BY ZenonT(40), <1>3, <2>1, <3>1, <3>2, <3>3, <3>4 DEF Supervisor
  <2>4. CASE OwnerCloses(s)
    <3> DEFINE v == [u EXCEPT !.owned = 0, !.cleanup = "none",
                              !.state = IF u.stop THEN "closed" ELSE "stopping"]
               w == [u EXCEPT !.cleanup = "failed", !.state = "quarantined"]
    <3>1. u.cleanup = "called" /\ (sup' = [sup EXCEPT ![s] = v] \/ sup' = [sup EXCEPT ![s] = w])
      BY <2>4 DEF OwnerCloses
    <3>2. v.stop = u.stop /\ v.run = u.run /\ w.stop = u.stop /\ w.run = u.run
      BY <2>1 DEF Supervisor
    <3> HIDE DEF v, w
    <3> QED
      BY <1>3, <3>1, <3>2
  <2>5. CASE Unwind(s)
    BY <1>3, <2>1, <2>5 DEF Unwind, Supervisor
  <2> QED
    BY <2>2, <2>3, <2>4, <2>5 DEF Supervise
<1>5. Seated(lease', sup', unclosed')
  BY <1>1, <1>2, <1>3, <1>4 DEF IInv, Seated
<1>6. Kept(queue, lease, request, sup, unclosed)'
  BY <1>1, <1>2, <1>5 DEF IInv, PoolInv, Kept
<1>7. StoppedLast'
  <2>1. pool' = "closed" => \A t \in Slot : sup'[t].cleanup = "none"
    BY <1>2, <1>3, <1>4 DEF PoolInv, StoppedLast, Seated
  <2> QED
    BY <1>2, <1>4, <2>1 DEF PoolInv, StoppedLast
\* An idle slot has no supervisor that could move.
<1>8. NoneMissed(queue, lease, sup, blocked)'
  <2> SUFFICES ASSUME queue # << >>, NEW t \in Slot, lease[t] = 0
               PROVE  sup'[t] = sup[t]
    BY <1>2 DEF PoolInv, NoneMissed
  <2>1. pool = "open" /\ ~ sup[t].stop
    BY DEF PoolInv, StoppedLast
  <2>2. Owned(sup[t], unclosed[t]) /\ sup[t].run = "none"
    BY <1>3 DEF Seated
  <2>3. sup[t].cleanup # "called"
    BY <2>1, <2>2 DEF Owned
  <2> QED
    BY <1>4, <2>2, <2>3
<1> QED
  BY <1>2, <1>6, <1>7, <1>8 DEF PoolInv

\* Every step keeps the invariant.
LEMMA PoolNextKeepsInv ==
  ASSUME PoolInv, [PoolNext]_slotVars
  PROVE  PoolInv'
<1>1. CASE UNCHANGED slotVars
  BY <1>1 DEF slotVars, supVars, poolVars, PoolInv, Kept, Seated, Leased, Lined, NoneMissed,
              StoppedLast
<1>2. ASSUME NEW r \in Request, \A q \in 1 .. r - 1 : request[q] # "new",
             Refuse(r) \/ Full(r) \/ Submit(r)
      PROVE  PoolInv'
  BY <1>2, RefuseKeeps, FullKeeps, SubmitKeeps
<1>3. ASSUME NEW r \in Request, Overdue(r) \/ Remove(r) PROVE PoolInv'
  BY <1>3, OverdueKeeps, RemoveKeeps
<1>4. ASSUME NEW s \in Slot, Release(s) \/ (Supervise(s) /\ UNCHANGED poolVars) PROVE PoolInv'
  BY <1>4, ReleaseKeeps, SuperviseKeeps
<1>5. CASE Close \/ CloseSlots \/ CloseDone
  BY <1>5, CloseKeeps, CloseSlotsKeeps, CloseDoneKeeps
<1> QED
  BY <1>1, <1>2, <1>3, <1>4, <1>5 DEF PoolNext

------------------------------------------------------------------------------
\* The invariant of the pool, for every number of slots, requests and places.
THEOREM PoolInvariance == PoolSpec => []PoolInv
<1>1. PoolInv /\ [PoolNext]_slotVars => PoolInv'
  BY PoolNextKeepsInv
<1> QED
  BY <1>1, PoolInitInv, PTL DEF PoolSpec

\* pump misses no hand-over, nobody is overtaken in the queue, and close of the pool waits
\* for its leases and is silent only about slots without an owner.
THEOREM NobodyWaitsInVain ==
  PoolSpec => [](PoolTypeOK /\ QueueDiscipline /\ ClosesIdleSlots)
BY PoolInvariance, PoolInvIsEnough, PTL
===============================================================================
