--------------------------- MODULE ChatHydration ---------------------------
(* The chat of projects/ag-ui-dsh-runtime's page: AgentWorkspace mounts anew *)
(* for every selection and refresh (its key), asks the page's one            *)
(* ConversationHydrator for a snapshot and shows the agent built from it.    *)
EXTENDS FiniteSets, Naturals

CONSTANTS Conversation, MaxMessages, MaxMounts

NoChat == "none"

VARIABLES
  messages,  \* persisted messages of each conversation (the service's)
  pane,      \* the mounted workspace: [of, since, chat]
  fetches,   \* select() calls: [of, read, wanted (its generation is the latest)]
  mounts

chatVars == <<messages, pane, fetches, mounts>>

Persist(c) ==
  /\ messages[c] < MaxMessages
  /\ messages' = [messages EXCEPT ![c] = @ + 1]
  /\ UNCHANGED <<pane, fetches, mounts>>

(* Another key: the old workspace is inactive and disposes of the hydrator,  *)
(* the new one shows nothing and selects; `since` is a history variable.     *)
Superseded(fs) == {[f EXCEPT !.wanted = FALSE] : f \in fs}

Remount(c) ==
  /\ mounts < MaxMounts /\ mounts' = mounts + 1
  /\ pane' = [of |-> c, since |-> messages[c], chat |-> {}]
  /\ fetches' = Superseded(fetches) \cup {[of |-> c, read |-> {}, wanted |-> TRUE]}
  /\ UNCHANGED messages

(* GET /api/conversations/:id reads the messages ...                         *)
Reads(f) ==
  /\ f.read = {}
  /\ fetches' = (fetches \ {f}) \cup {[f EXCEPT !.read = {[of |-> f.of, count |-> messages[f.of]]}]}
  /\ UNCHANGED <<messages, pane, mounts>>

(* ... and select() resumes: for the latest generation the messages become   *)
(* the agent's, otherwise the answer is dropped.                             *)
Resumes(f) ==
  /\ f.read # {}
  /\ fetches' = fetches \ {f}
  /\ pane' = IF f.wanted THEN [pane EXCEPT !.chat = f.read] ELSE pane
  /\ UNCHANGED <<messages, mounts>>

(* The request fails or is aborted; an error of the latest one is displayed. *)
FetchFails(f) ==
  /\ f.read = {}
  /\ fetches' = fetches \ {f}
  /\ UNCHANGED <<messages, pane, mounts>>

ChatInit ==
  /\ messages = [c \in Conversation |-> 0]
  /\ pane = [of |-> NoChat, since |-> 0, chat |-> {}]
  /\ fetches = {} /\ mounts = 0

ChatNext ==
  \/ \E c \in Conversation : Persist(c) \/ Remount(c)
  \/ \E f \in fetches : Reads(f) \/ Resumes(f) \/ FetchFails(f)

ChatSpec == ChatInit /\ [][ChatNext]_chatVars

ChatTypeOK ==
  /\ messages \in [Conversation -> 0 .. MaxMessages] /\ mounts \in 0 .. MaxMounts
  /\ pane.of \in Conversation \cup {NoChat} /\ Cardinality(pane.chat) <= 1
  /\ Cardinality({f \in fetches : f.wanted}) <= 1

(* The chat is the one of the mounted conversation, with the messages it had *)
(* at the mount or later ones: a snapshot read for an earlier selection, or  *)
(* before a refresh, never ends up in it, in whatever order answers come.    *)
ChatIsFresh ==
  \A chat \in pane.chat : chat.of = pane.of /\ chat.count >= pane.since
=============================================================================
