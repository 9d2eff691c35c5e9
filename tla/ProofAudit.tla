------------------------------ MODULE ProofAudit ------------------------------
(***************************************************************************)
(* The proof listener of labs/cordis-plugin-lifecycle/src/plugins/         *)
(* listener.ts: an audit file with a row when a proof tool has answered    *)
(* (live) and one when the session has recorded the answer (durable), and  *)
(* a health file.  The events come from the agent in any order and number; *)
(* the plugin is reloaded, or the process dies, between any two.           *)
(*                                                                         *)
(* An event that is refused, and one whose row cannot be appended, leave a *)
(* report in the health file and nothing else; these reports are left out. *)
(***************************************************************************)
EXTENDS Naturals, Sequences, FiniteSets

CONSTANTS
  Audited,  \* the sessions that are audited: the root session, or all
  Call,     \* call identifiers, which sessions choose independently
  MaxRows,  \* bound on the rows of the audit file
  None

VARIABLES
  audit,      \* the rows of the audit file
  health,     \* the orphaned calls reported in the health file
  slots,      \* the call of each session that is live and not yet durable
  completed,  \* the calls of each session with a durable row
  loaded      \* the plugin is active

auditVars == <<audit, health, slots, completed, loaded>>

Row(kind, s, c) == [kind |-> kind, session |-> s, call |-> c]

\* A row is written whole.
Appended(row) == Len(audit) < MaxRows /\ audit' = Append(audit, row)

\* A session has one live call at a time, and none of its calls comes twice.
Blocked(s, c) == slots[s] # None \/ c \in completed[s]

\* tools/result
Live(s, c) ==
  /\ loaded
  /\ ~ Blocked(s, c)
  /\ Appended(Row("live", s, c))
  /\ slots' = [slots EXCEPT ![s] = c]
  /\ UNCHANGED <<health, completed, loaded>>

\* Mutant: the durable row is not matched with the live one.
Durable_Unmatched(s, c) ==
  /\ loaded
  /\ c \notin completed[s]
  /\ Appended(Row("durable", s, c))
  /\ slots' = [slots EXCEPT ![s] = None]
  /\ completed' = [completed EXCEPT ![s] = @ \cup {c}]
  /\ UNCHANGED <<health, loaded>>

\* session/event, of a tool result
Durable(s, c) ==
  /\ loaded
  /\ slots[s] = c
  /\ c \notin completed[s]
  /\ Appended(Row("durable", s, c))
  /\ slots' = [slots EXCEPT ![s] = None]
  /\ completed' = [completed EXCEPT ![s] = @ \cup {c}]
  /\ UNCHANGED <<health, loaded>>

Unload ==
  /\ loaded
  /\ loaded' = FALSE
  /\ slots' = [s \in Audited |-> None]
  /\ completed' = [s \in Audited |-> {}]
  /\ UNCHANGED <<audit, health>>

Rows(kind, s) == {i \in DOMAIN audit : audit[i].kind = kind /\ audit[i].session = s}

\* The last live call of a session after its last durable row.
Orphaned(s) ==
  LET open == {i \in Rows("live", s) : \A j \in Rows("durable", s) : j < i}
  IN {audit[i].call : i \in {i \in open : \A k \in open : k <= i}}

\* apply, over the rows that are there.
Load ==
  /\ ~ loaded
  /\ loaded' = TRUE
  /\ completed' = [s \in Audited |-> {audit[i].call : i \in Rows("durable", s)}]
  /\ health' = health \cup
       UNION {{[session |-> s, call |-> c] : c \in Orphaned(s)} : s \in Audited}
  /\ UNCHANGED <<audit, slots>>

AuditInit ==
  /\ audit = << >> /\ health = {}
  /\ slots = [s \in Audited |-> None]
  /\ completed = [s \in Audited |-> {}]
  /\ loaded = TRUE

AuditNext ==
  \/ \E s \in Audited, c \in Call : Live(s, c) \/ Durable(s, c)
  \/ Unload \/ Load

AuditSpec == AuditInit /\ [][AuditNext]_auditVars

------------------------------------------------------------------------------
AuditTypeOK ==
  /\ audit \in Seq([kind : {"live", "durable"}, session : Audited, call : Call])
  /\ slots \in [Audited -> Call \cup {None}]
  /\ completed \in [Audited -> SUBSET Call]
  /\ health \subseteq [session : Audited, call : Call]
  /\ loaded \in BOOLEAN

\* Across reloads and failed appends, a call is durable once at most, and was live in the
\* same session just before; and a call that was live became durable, can still become so,
\* or was reported when the plugin was loaded after it.
AuditTellsCalls ==
  \A i \in DOMAIN audit :
    LET s     == audit[i].session
        next  == {j \in DOMAIN audit : j > i /\ audit[j].session = s}
        prior == {j \in DOMAIN audit : j < i /\ audit[j].session = s}
    IN IF audit[i].kind = "durable"
       THEN /\ \E j \in prior : /\ audit[j] = Row("live", s, audit[i].call)
                                /\ \A k \in prior : k <= j
            /\ \A j \in next : audit[j] # audit[i]
       ELSE \/ \E j \in next : /\ audit[j] = Row("durable", s, audit[i].call)
                               /\ \A k \in next : k >= j
            \/ slots[s] = audit[i].call
            \/ ~ loaded /\ next = {}
            \/ [session |-> s, call |-> audit[i].call] \in health
================================================================================
