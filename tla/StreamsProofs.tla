---------------------------- MODULE StreamsProofs ----------------------------
(***************************************************************************)
(* The theorems about the ways in which a client is answered, for every    *)
(* number of clients and callers, length of the logs and size of a page:   *)
(* no wake-up is lost, and what a client receives is the log, in order.    *)
(*                                                                         *)
(* A section per component states its inductive invariant and proves that  *)
(* its steps keep it; the last one puts them together under MCSpec.        *)
(***************************************************************************)
EXTENDS MCStreams, FiniteSetTheorems, SequenceTheorems, TLAPS

------------------------------------------------------------------------------
(***************************************************************************)
(* EventStream                                                             *)
(***************************************************************************)

\* The cursor of a live stream is what its client has; after the validation it is not
\* ahead of the log.  Rows to yield are of the log, and a query that saw the end saw all.
CursorFits(r, g) ==
  /\ r.pc \notin {"off", "ended"} => r.cursor = g
  /\ r.pc \in {"observe", "query", "yield", "wait"} => r.cursor <= last
  /\ r.pc = "yield" =>
       r.cursor <= r.upto /\ r.upto <= last /\ (r.ends => terminal /\ r.upto = last)
  /\ r.pc = "ended" => terminal /\ g = last

\* As long as the version is the one that was observed before the query, the rows of the
\* query are all that was published; only a wake-up lets a reader wait for an older one.
NothingMissed(r, version) ==
  /\ r.pc \in {"query", "yield", "wait"} => r.observed <= version
  /\ r.pc = "yield" /\ r.observed = version => r.upto >= published
  /\ r.pc = "wait" /\ r.observed = version => r.cursor >= published
  /\ r.pc = "wait" /\ ~ r.woken => r.observed = version

Followed(r) == r.pc \notin {"off", "ended"} => r.topic # 0 /\ r.topic = current
Live        == {c \in Client : Subscribed(c)}

\* What each reader has to do with the log and the topic.
ReaderInv(c) ==
  /\ CursorFits(reader[c], got[c])
  /\ Followed(reader[c])
  /\ Subscribed(c) => NothingMissed(reader[c], topics[current].version)

StreamTypes == TypeOK /\ Len(topics) <= MaxTopics
TopicCounts ==
  /\ current # 0 => topics[current].subscribers = Cardinality(Live)
  /\ current = 0 <=> Live = {}

StreamInv == StreamTypes /\ TopicCounts /\ \A c \in Client : ReaderInv(c)

\* The invariant is what the properties need.
LEMMA StreamInvIsEnough ==
  ASSUME StreamInv
  PROVE  SleepsOnlyWhenCaughtUp /\ EndsAtTerminalEvent /\ TopicsMatchSubscriptions
<1>1. SleepsOnlyWhenCaughtUp
  BY DEF StreamInv, ReaderInv, NothingMissed, SleepsOnlyWhenCaughtUp, Subscribed
<1>2. EndsAtTerminalEvent
  BY DEF StreamInv, ReaderInv, CursorFits, EndsAtTerminalEvent
<1>3. TopicsMatchSubscriptions
  <2>1. Live = {} <=> \A c \in Client : ~ Subscribed(c)
    BY DEF Live
  <2>2. \A c \in Client : Subscribed(c) => reader[c].topic = current
    BY DEF StreamInv, ReaderInv, Followed, Subscribed
  <2> QED
    BY <2>1, <2>2 DEF StreamInv, TopicCounts, TopicsMatchSubscriptions, Live
<1> QED
  BY <1>1, <1>2, <1>3

\* A log with its first event, no topic and nobody who reads.
LEMMA StreamStarts == Init => StreamInv
<1> SUFFICES ASSUME Init PROVE StreamInv
  OBVIOUS
<1>1. StreamTypes
  <2>1. Len(topics) = 0 /\ topics \in Seq([version : Nat, subscribers : Nat])
    BY EmptySeq DEF Init
  <2>2. Off \in Reader
    BY StreamConstants DEF Off, Reader
  <2>3. /\ last \in 1 .. MaxEvents /\ published \in 1 .. last
        /\ terminal \in BOOLEAN
    <3>1. last = 1 /\ published = 1 /\ terminal \in BOOLEAN
      BY DEF Init
    <3> QED
      BY <3>1, StreamConstants
  <2>4. reader \in [Client -> Reader] /\ got \in [Client -> Nat]
    BY <2>2 DEF Init
  <2>5. current \in 0 .. Len(topics) /\ Len(topics) <= MaxTopics
    BY <2>1, StreamConstants DEF Init
  <2> QED
    BY <2>1, <2>3, <2>4, <2>5 DEF StreamTypes, TypeOK
<1>2. \A c \in Client : reader[c] = Off /\ Off.pc = "off"
  BY DEF Init, Off
<1>3. TopicCounts
  BY <1>2 DEF Init, TopicCounts, Live, Subscribed
<1>4. \A c \in Client : ReaderInv(c)
  BY <1>2 DEF ReaderInv, CursorFits, Followed, Subscribed
<1> QED
  BY <1>1, <1>3, <1>4 DEF StreamInv

\* The topic of a live reader is there to be read.
LEMMA TopicIsThere ==
  ASSUME StreamInv, NEW c \in Client, Subscribed(c)
  PROVE  /\ reader[c].topic = current /\ current \in 1 .. Len(topics)
         /\ topics[current] \in [version : Nat, subscribers : Nat]
         /\ Version(c) = topics[current].version
         /\ reader[c] \in Reader /\ got[c] \in Nat
<1>1. reader[c].topic = current /\ current # 0
  BY DEF StreamInv, ReaderInv, Followed, Subscribed
<1>2. current \in 1 .. Len(topics)
  BY <1>1 DEF StreamInv, StreamTypes, TypeOK
<1>3. topics[current] \in [version : Nat, subscribers : Nat]
  BY <1>2, ElementOfSeq DEF StreamInv, StreamTypes, TypeOK
<1>4. reader[c] \in Reader /\ got[c] \in Nat
  BY DEF StreamInv, StreamTypes, TypeOK
<1> QED
  BY <1>1, <1>2, <1>3, <1>4 DEF Version

\* What a reader does between two subscriptions changes itself and what its client has.
LEMMA ReaderMoves ==
  ASSUME StreamInv, NEW c \in Client, Subscribed(c),
         NEW r \in Reader, r.pc \notin {"off", "ended"}, r.topic = reader[c].topic,
         NEW g \in Nat, CursorFits(r, g), NothingMissed(r, topics[current].version),
         reader' = [reader EXCEPT ![c] = r], got' = [got EXCEPT ![c] = g],
         UNCHANGED <<logVars, topics, current>>
  PROVE  StreamInv'
<1>1. reader \in [Client -> Reader] /\ got \in [Client -> Nat]
  BY DEF StreamInv, StreamTypes, TypeOK
<1>2. /\ reader'[c] = r /\ got'[c] = g
      /\ \A d \in Client : d # c => reader'[d] = reader[d] /\ got'[d] = got[d]
  BY <1>1
<1>3. StreamTypes'
  <2>1. reader' \in [Client -> Reader] /\ got' \in [Client -> Nat]
    BY <1>1
  <2> QED
    BY <2>1 DEF StreamInv, StreamTypes, TypeOK, logVars
<1>4. Live' = Live
  BY <1>2 DEF Live, Subscribed
<1>5. TopicCounts'
  BY <1>4 DEF StreamInv, TopicCounts
<1>6. ASSUME NEW d \in Client PROVE ReaderInv(d)'
  <2>1. CASE d = c
    <3>1. r.topic # 0 /\ r.topic = current'
      BY DEF StreamInv, ReaderInv, Followed, Subscribed
    <3> QED
      BY <1>2, <2>1, <3>1 DEF ReaderInv, CursorFits, NothingMissed, Followed, logVars
  <2>2. CASE d # c
    BY <1>2, <2>2 DEF StreamInv, ReaderInv, Followed, CursorFits, NothingMissed, Subscribed, logVars
  <2> QED
    BY <2>1, <2>2
<1> QED
  BY <1>3, <1>5, <1>6 DEF StreamInv

\* What a stream that is over leaves behind has its type, and no cursor to be wrong.
LEMMA LeftBehind ==
  /\ Off \in Reader /\ Off.pc = "off" /\ Ended \in Reader /\ Ended.pc = "ended"
  /\ \A g : CursorFits(Off, g)
<1>1. Off \in Reader /\ Off.pc = "off"
  BY StreamConstants DEF Off, Reader
<1>2. Ended \in Reader /\ Ended.pc = "ended"
  BY <1>1 DEF Ended, Reader
<1>3. \A g : CursorFits(Off, g)
  BY <1>1 DEF CursorFits
<1> QED
  BY <1>1, <1>2, <1>3

\* A subscription that is closed wakes the others, and the last one takes the topic along.
LEMMA UnsubscribedKeepsInv ==
  ASSUME StreamInv, NEW c \in Client, Subscribed(c),
         NEW left \in Reader, left.pc \in {"off", "ended"},
         NEW g \in Nat, CursorFits(left, g), got' = [got EXCEPT ![c] = g],
         Unsubscribed(c, left), UNCHANGED logVars
  PROVE  StreamInv'
<1> DEFINE n == topics[current].subscribers - 1
<1>1. /\ reader \in [Client -> Reader] /\ got \in [Client -> Nat]
      /\ topics \in Seq([version : Nat, subscribers : Nat]) /\ Len(topics) <= MaxTopics
  BY DEF StreamInv, StreamTypes, TypeOK
<1>2. /\ reader[c].topic = current /\ current \in 1 .. Len(topics) /\ Len(topics) \in Nat
      /\ topics[current] \in [version : Nat, subscribers : Nat]
  BY <1>1, TopicIsThere, LenProperties
<1>3. IsFiniteSet(Live) /\ c \in Live
  BY StreamConstants, FS_Subset DEF Live
<1>4. /\ Cardinality(Live) \in Nat /\ Cardinality(Live) # 0
      /\ Cardinality(Live \ {c}) = Cardinality(Live) - 1 /\ IsFiniteSet(Live \ {c})
  BY <1>3, FS_EmptySet, FS_CardinalityType, FS_RemoveElement
<1>5. n = Cardinality(Live \ {c}) /\ n \in Nat /\ (n = 0 <=> Live \ {c} = {})
  <2>1. topics[current].subscribers = Cardinality(Live)
    BY <1>2 DEF StreamInv, TopicCounts
  <2>2. Cardinality(Live \ {c}) = 0 <=> Live \ {c} = {}
    BY <1>4, FS_EmptySet
  <2> QED
    BY <1>4, <2>1, <2>2
<1>6. /\ topics' = [topics EXCEPT ![current].subscribers = n]
      /\ Len(topics') = Len(topics) /\ topics' \in Seq([version : Nat, subscribers : Nat])
      /\ topics'[current].subscribers = n /\ topics'[current].version = topics[current].version
  <2>1. topics' = [topics EXCEPT ![current].subscribers = n]
    BY <1>2 DEF Unsubscribed
  <2>2. [topics[current] EXCEPT !.subscribers = n] \in [version : Nat, subscribers : Nat]
    BY <1>2, <1>5
  <2>3. topics' = [topics EXCEPT ![current] = [topics[current] EXCEPT !.subscribers = n]]
    BY <1>2, <2>1
  <2>4. Len(topics') = Len(topics) /\ topics' \in Seq([version : Nat, subscribers : Nat])
        /\ topics'[current] = [topics[current] EXCEPT !.subscribers = n]
    <3> DEFINE t == [topics[current] EXCEPT !.subscribers = n]
    <3>1. t \in [version : Nat, subscribers : Nat] /\ topics' = [topics EXCEPT ![current] = t]
      BY <2>2, <2>3
    <3> HIDE DEF t
    <3>2. /\ Len(topics') = Len(topics) /\ topics' \in Seq([version : Nat, subscribers : Nat])
          /\ topics'[current] = t
      BY <1>1, <1>2, <3>1, ExceptSeq
    <3> QED
      BY <3>2 DEF t
  <2> QED
    BY <1>2, <2>1, <2>4
<1>7. current' = IF Live \ {c} = {} THEN 0 ELSE current
  BY <1>5, <1>6 DEF Unsubscribed
<1>8. /\ reader' \in [Client -> Reader] /\ reader'[c] = left
      /\ \A d \in Client : d # c =>
           \/ reader'[d] = reader[d]
           \/ reader[d].pc = "wait" /\ reader'[d] = [reader[d] EXCEPT !.woken = TRUE]
  <2> DEFINE others == [reader EXCEPT ![c] = left]
  <2>1. reader' = Woken(others, reader[c].topic)
    BY DEF Unsubscribed
  <2>2. others \in [Client -> Reader] /\ others[c] = left
        /\ \A d \in Client : d # c => others[d] = reader[d]
    BY <1>1
  <2> HIDE DEF others
  <2>3. ASSUME NEW d \in Client
        PROVE  /\ reader'[d] \in Reader
               /\ \/ reader'[d] = others[d]
                  \/ others[d].pc = "wait" /\ reader'[d] = [others[d] EXCEPT !.woken = TRUE]
    <3>1. others[d] \in Reader
      BY <2>2
    <3>2. [others[d] EXCEPT !.woken = TRUE] \in Reader
      BY <3>1 DEF Reader
    <3>3. reader'[d] = IF others[d].pc = "wait" /\ others[d].topic = reader[c].topic
                       THEN [others[d] EXCEPT !.woken = TRUE] ELSE others[d]
      BY <2>1 DEF Woken
    <3> QED
      BY <3>1, <3>2, <3>3
  <2>4. reader' \in [Client -> Reader]
    BY <2>1, <2>3 DEF Woken
  <2>5. reader'[c] = left
    BY <2>2, <2>3
  <2> QED
    BY <2>2, <2>3, <2>4, <2>5
<1>9. \A d \in Client : d # c =>
        /\ reader[d] \in Reader /\ got'[d] = got[d]
        /\ reader'[d].pc = reader[d].pc /\ reader'[d].topic = reader[d].topic
        /\ reader'[d].cursor = reader[d].cursor /\ reader'[d].observed = reader[d].observed
        /\ reader'[d].upto = reader[d].upto /\ reader'[d].ends = reader[d].ends
        /\ reader'[d].woken = reader[d].woken \/ reader'[d].woken = TRUE
  BY SMTT(20), <1>1, <1>8 DEF Reader
<1>10. got'[c] = g /\ got' \in [Client -> Nat]
  BY <1>1
<1>11. Live' = Live \ {c}
  BY <1>8, <1>9 DEF Live, Subscribed
<1>12. StreamTypes'
  BY <1>2, <1>6, <1>7, <1>8, <1>10 DEF StreamInv, StreamTypes, TypeOK, logVars
<1>13. TopicCounts'
  BY <1>2, <1>5, <1>6, <1>7, <1>11 DEF TopicCounts
<1>14. ASSUME NEW d \in Client PROVE ReaderInv(d)'
  <2>1. CASE d = c
    BY <1>8, <1>10, <2>1 DEF ReaderInv, CursorFits, Followed, Subscribed, logVars
  <2>2. CASE d # c
    <3>1. CursorFits(reader[d], got[d]) /\ Followed(reader[d])
          /\ (Subscribed(d) => NothingMissed(reader[d], topics[current].version))
      BY DEF StreamInv, ReaderInv
    <3>2. Subscribed(d) => current' = current
      BY <1>7, <2>2 DEF Live
    <3>3. CursorFits(reader[d], got[d])'
      BY <1>9, <2>2, <3>1 DEF CursorFits, logVars
    <3>4. Followed(reader[d])'
      BY <1>9, <2>2, <3>1, <3>2 DEF Followed, Subscribed
    <3>5. Subscribed(d)' => NothingMissed(reader[d], topics[current].version)'
      BY <1>6, <1>9, <2>2, <3>1, <3>2 DEF NothingMissed, Subscribed, logVars
    <3> QED
      BY <3>3, <3>4, <3>5 DEF ReaderInv, CursorFits, Followed, NothingMissed
  <2> QED
    BY <2>1, <2>2
<1> QED
  BY <1>12, <1>13, <1>14 DEF StreamInv

\* subscribe: the topic there is, or a new one for the first of the readers.
LEMMA ConnectKeepsInv ==
  ASSUME StreamInv, NEW c \in Client, Connect(c)
  PROVE  StreamInv'
<1> DEFINE r == [Off EXCEPT !.pc = "validate", !.topic = current', !.cursor = got[c]]
           T == [version : Nat, subscribers : Nat]
<1>1. /\ reader \in [Client -> Reader] /\ got \in [Client -> Nat]
      /\ topics \in Seq(T) /\ Len(topics) <= MaxTopics /\ Len(topics) \in Nat
      /\ current \in 0 .. Len(topics) /\ MaxTopics \in Nat
  BY LenProperties, StreamConstants DEF StreamInv, StreamTypes, TypeOK
<1>2. IsFiniteSet(Live) /\ c \notin Live /\ Cardinality(Live) \in Nat
      /\ Cardinality(Live \cup {c}) = Cardinality(Live) + 1
  <2>1. IsFiniteSet(Live) /\ c \notin Live
    BY StreamConstants, FS_Subset DEF Live, Connect, Subscribed
  <2> QED
    BY <2>1, FS_CardinalityType, FS_AddElement
<1>3. /\ topics' \in Seq(T) /\ Len(topics') <= MaxTopics
      /\ current' \in 1 .. Len(topics') /\ current' <= MaxTopics
      /\ topics'[current'].subscribers = Cardinality(Live) + 1
      /\ Live # {} => current' = current /\ topics'[current].version = topics[current].version
  <2>1. CASE current # 0
    <3> DEFINE t == [topics[current] EXCEPT !.subscribers = @ + 1]
    <3>1. current \in 1 .. Len(topics) /\ topics[current] \in T /\ current' = current
      <4>1. current \in 1 .. Len(topics)
        BY <1>1, <2>1
      <4>2. topics[current] \in T
        BY <1>1, <4>1, ElementOfSeq
      <4> QED
        BY <2>1, <4>1, <4>2 DEF Connect
    <3>2. t \in T /\ t.version = topics[current].version /\ t.subscribers = Cardinality(Live) + 1
      BY <2>1, <3>1 DEF StreamInv, TopicCounts
    <3>3. topics' = [topics EXCEPT ![current] = t]
      BY <2>1, <3>1 DEF Connect
    <3> HIDE DEF t, T
    <3>4. topics' \in Seq(T) /\ Len(topics') = Len(topics) /\ topics'[current] = t
      BY <1>1, <3>1, <3>2, <3>3, ExceptSeq
    <3> QED
      BY <1>1, <3>1, <3>2, <3>4
  <2>2. CASE current = 0
    <3> DEFINE t == [version |-> 0, subscribers |-> 1]
    <3>1. t \in T /\ t.subscribers = 1
      OBVIOUS
    <3>2. topics' = Append(topics, t) /\ current' = Len(topics) + 1 /\ Len(topics) < MaxTopics
      BY <2>2 DEF Connect
    <3> HIDE DEF t, T
    <3>3. topics' \in Seq(T) /\ Len(topics') = Len(topics) + 1 /\ topics'[Len(topics) + 1] = t
      BY <1>1, <3>1, <3>2, AppendProperties
    <3>4. Live = {} /\ Cardinality(Live) = 0
      BY <2>2, FS_EmptySet DEF StreamInv, TopicCounts
    <3> QED
      BY <1>1, <3>1, <3>2, <3>3, <3>4
  <2> QED
    BY <2>1, <2>2
<1>4. r \in Reader /\ r.pc = "validate" /\ r.cursor = got[c] /\ r.topic = current'
  <2>1. current' \in 0 .. MaxTopics /\ got[c] \in Nat
    BY <1>1, <1>3
  <2> QED
    BY <2>1 DEF Off, Reader
<1>5. reader' = [reader EXCEPT ![c] = r] /\ UNCHANGED <<logVars, got>>
  BY DEF Connect
<1> HIDE DEF r, T
<1>6. /\ reader' \in [Client -> Reader] /\ reader'[c] = r
      /\ \A d \in Client : d # c => reader'[d] = reader[d]
  BY <1>1, <1>4, <1>5
<1>7. Live' = Live \cup {c}
  BY <1>4, <1>6 DEF Live, Subscribed
<1>8. StreamTypes'
  BY SMTT(20), <1>1, <1>3, <1>5, <1>6 DEF StreamInv, StreamTypes, TypeOK, logVars, T
<1>9. TopicCounts'
  <2>1. Live' # {} /\ current' # 0 /\ topics'[current'].subscribers = Cardinality(Live')
    BY <1>1, <1>2, <1>3, <1>7
  <2> QED
    BY <2>1 DEF TopicCounts
<1>10. ASSUME NEW d \in Client PROVE ReaderInv(d)'
  <2>1. CASE d = c
    <3>1. current' # 0
      BY <1>3
    <3> QED
      BY <1>4, <1>5, <1>6, <2>1, <3>1 DEF ReaderInv, CursorFits, Followed, NothingMissed, Subscribed
  <2>2. CASE d # c
    <3>1. reader'[d] = reader[d] /\ got'[d] = got[d]
      BY <1>5, <1>6, <2>2
    <3>2. Subscribed(d) => current' = current /\ topics'[current'].version = topics[current].version
      BY <1>3 DEF Live
    <3> QED
      BY <1>5, <3>1, <3>2
         DEF StreamInv, ReaderInv, CursorFits, Followed, NothingMissed, Subscribed, logVars
  <2> QED
    BY <2>1, <2>2
<1> QED
  BY <1>8, <1>9, <1>10 DEF StreamInv

\* A commit is after every cursor, and a reader that saw the end saw the last one.
LEMMA CommitKeepsInv ==
  ASSUME StreamInv, NEW isTerminal \in BOOLEAN, Commit(isTerminal)
  PROVE  StreamInv'
<1>1. /\ last' = last + 1 /\ ~ terminal /\ last < MaxEvents
      /\ UNCHANGED <<published, topics, current, reader, got>>
  BY DEF Commit
<1>2. last \in Nat /\ published \in 1 .. last /\ last >= 1 /\ MaxEvents \in Nat
  BY StreamConstants DEF StreamInv, StreamTypes, TypeOK
<1>3. StreamTypes'
  <2>1. last' \in 1 .. MaxEvents /\ published' \in 1 .. last'
    BY <1>1, <1>2
  <2>2. terminal' \in BOOLEAN
    BY DEF Commit
  <2> QED
    BY <1>1, <2>1, <2>2 DEF StreamInv, StreamTypes, TypeOK
<1>4. TopicCounts'
  BY <1>1 DEF StreamInv, TopicCounts, Live, Subscribed
<1>5. ASSUME NEW c \in Client PROVE ReaderInv(c)'
  <2>1. reader[c] \in Reader
    BY DEF StreamInv, StreamTypes, TypeOK
  <2>2. reader[c].cursor \in Nat /\ reader[c].upto \in Nat
    BY <2>1 DEF Reader
  <2>3. CursorFits(reader[c], got[c])'
    BY <1>1, <1>2, <2>2 DEF StreamInv, ReaderInv, CursorFits
  <2>4. Followed(reader[c])' /\ (Subscribed(c) => NothingMissed(reader[c], topics[current].version))'
    BY <1>1 DEF StreamInv, ReaderInv, Followed, NothingMissed, Subscribed
  <2> QED
    BY <2>3, <2>4 DEF ReaderInv
<1> QED
  BY <1>3, <1>4, <1>5 DEF StreamInv

\* publish: the version moves on, and whoever waits for it wakes.
LEMMA PublishKeepsInv ==
  ASSUME StreamInv, Publish
  PROVE  StreamInv'
<1> DEFINE T == [version : Nat, subscribers : Nat]
<1>1. /\ published < last /\ published' = last
      /\ UNCHANGED <<last, terminal, current, got>>
  BY DEF Publish
<1>2. /\ reader \in [Client -> Reader] /\ last \in 1 .. MaxEvents /\ published \in 1 .. last
      /\ topics \in Seq(T) /\ current \in 0 .. Len(topics) /\ Len(topics) \in Nat
  BY LenProperties DEF StreamInv, StreamTypes, TypeOK
<1>3. published' \in 1 .. last'
  BY <1>1, <1>2
<1>4. CASE current = 0
  <2>1. UNCHANGED <<topics, reader>> /\ Live = {}
    BY <1>4 DEF Publish, StreamInv, TopicCounts
  <2>2. StreamTypes' /\ TopicCounts'
    BY <1>1, <1>3, <2>1
       DEF StreamInv, StreamTypes, TypeOK, TopicCounts, Live, Subscribed
  <2>3. \A c \in Client : ~ Subscribed(c)
    BY <2>1 DEF Live
  <2> QED
    BY <1>1, <2>1, <2>2, <2>3 DEF StreamInv, ReaderInv, CursorFits, Followed, Subscribed
<1>5. CASE current # 0
  <2> DEFINE t == [topics[current] EXCEPT !.version = @ + 1]
  <2>1. current \in 1 .. Len(topics)
    BY <1>2, <1>5
  <2>2. topics[current] \in T
    BY <1>2, <2>1, ElementOfSeq
  <2>3. /\ t \in T /\ t.version = topics[current].version + 1 /\ topics[current].version \in Nat
        /\ t.subscribers = topics[current].subscribers
    BY <2>2
  <2>4. topics' = [topics EXCEPT ![current] = t] /\ reader' = Woken(reader, current)
    BY <1>5, <2>1, <2>2 DEF Publish
  <2> HIDE DEF t, T
  <2>5. topics' \in Seq(T) /\ Len(topics') = Len(topics) /\ topics'[current] = t
    BY <1>2, <2>1, <2>3, <2>4, ExceptSeq
  <2>6. ASSUME NEW c \in Client
        PROVE  /\ reader[c] \in Reader /\ reader'[c] \in Reader
               /\ reader'[c] = IF reader[c].pc = "wait" /\ reader[c].topic = current
                               THEN [reader[c] EXCEPT !.woken = TRUE] ELSE reader[c]
    <3>1. [reader[c] EXCEPT !.woken = TRUE] \in Reader /\ reader[c] \in Reader
      BY <1>2 DEF Reader
    <3> QED
      BY <2>4, <3>1 DEF Woken
  <2>7. reader' \in [Client -> Reader]
    BY <2>4, <2>6 DEF Woken
  <2>8. StreamTypes'
    BY <1>1, <1>3, <2>5, <2>7 DEF StreamInv, StreamTypes, TypeOK, T
  <2>9. ASSUME NEW c \in Client
        PROVE  /\ reader'[c].pc = reader[c].pc /\ reader'[c].topic = reader[c].topic
               /\ reader'[c].cursor = reader[c].cursor /\ reader'[c].observed = reader[c].observed
               /\ reader'[c].upto = reader[c].upto /\ reader'[c].ends = reader[c].ends
               /\ reader[c].pc = "wait" /\ reader[c].topic = current => reader'[c].woken
               /\ reader[c].observed \in Nat
    BY ZenonT(40), <2>6 DEF Reader
  <2>10. Live' = Live
    BY <2>9 DEF Live, Subscribed
  <2>11. TopicCounts'
    BY <1>1, <1>5, <2>3, <2>5, <2>10 DEF StreamInv, TopicCounts
  <2>12. ASSUME NEW c \in Client PROVE ReaderInv(c)'
    <3>1. CursorFits(reader[c], got[c])'
      BY <1>1, <2>9 DEF StreamInv, ReaderInv, CursorFits
    <3>2. Followed(reader[c])'
      BY <1>1, <2>9 DEF StreamInv, ReaderInv, Followed
    <3>3. ASSUME Subscribed(c)' PROVE NothingMissed(reader[c], topics[current].version)'
      <4>1. Subscribed(c) /\ reader[c].topic = current
        BY <2>9, <3>3 DEF StreamInv, ReaderInv, Followed, Subscribed
      <4>2. NothingMissed(reader[c], topics[current].version)
        BY <4>1 DEF StreamInv, ReaderInv
      <4>3. /\ topics'[current'].version = topics[current].version + 1
            /\ topics[current].version \in Nat
        BY <1>1, <2>3, <2>5
      <4> QED
        BY <2>9, <4>1, <4>2, <4>3 DEF NothingMissed
    <3> QED
      BY <3>1, <3>2, <3>3 DEF ReaderInv
  <2> QED
    BY <2>8, <2>11, <2>12 DEF StreamInv
<1> QED
  BY <1>4, <1>5

\* get_run: a cursor ahead of the log or at the end of a finished one ends the stream.
LEMMA ValidateKeepsInv ==
  ASSUME StreamInv, NEW c \in Client, Validate(c)
  PROVE  StreamInv'
<1>1. Subscribed(c) /\ reader[c].pc = "validate" /\ UNCHANGED <<logVars, got>>
  BY DEF Validate, Subscribed
<1>2. /\ reader[c] \in Reader /\ got[c] \in Nat /\ reader[c].cursor = got[c]
      /\ got = [got EXCEPT ![c] = got[c]] /\ last \in Nat /\ reader[c].cursor \in Nat
  BY <1>1 DEF StreamInv, StreamTypes, TypeOK, ReaderInv, CursorFits, Reader
<1>3. /\ Off \in Reader /\ Off.pc = "off" /\ Ended \in Reader /\ Ended.pc = "ended"
      /\ CursorFits(Off, got[c])
  BY LeftBehind
<1>4. CASE reader[c].cursor > last
  <2>1. Unsubscribed(c, Off)
    BY <1>4 DEF Validate
  <2> QED
    BY <1>1, <1>2, <1>3, <2>1, UnsubscribedKeepsInv
<1>5. CASE ~ (reader[c].cursor > last) /\ terminal /\ reader[c].cursor = last
  <2>1. Unsubscribed(c, Ended) /\ CursorFits(Ended, got[c])
    BY <1>2, <1>3, <1>5 DEF Validate, CursorFits
  <2> QED
    BY <1>1, <1>2, <1>3, <2>1, UnsubscribedKeepsInv
<1>6. CASE ~ (reader[c].cursor > last) /\ ~ (terminal /\ reader[c].cursor = last)
  <2> DEFINE r == [reader[c] EXCEPT !.pc = "observe"]
  <2>1. reader' = [reader EXCEPT ![c] = r] /\ UNCHANGED <<topics, current>>
    BY <1>2, <1>6 DEF Validate
  <2>2. r \in Reader /\ r.pc = "observe" /\ r.topic = reader[c].topic /\ r.cursor = got[c]
    BY <1>2 DEF Reader
  <2> HIDE DEF r
  <2>3. CursorFits(r, got[c]) /\ NothingMissed(r, topics[current].version)
    BY <1>2, <1>6, <2>2 DEF CursorFits, NothingMissed
  <2> QED
    BY <1>1, <1>2, <2>1, <2>2, <2>3, ReaderMoves
<1> QED
  BY <1>4, <1>5, <1>6

\* The loop, from the version to the last row of the query.
LEMMA ReadingKeepsInv ==
  ASSUME StreamInv, NEW c \in Client, Observe(c) \/ Query(c)
  PROVE  StreamInv'
<1>1. Subscribed(c) /\ UNCHANGED <<logVars, topics, current, got>>
  BY DEF Observe, Query, Subscribed
<1>2. /\ reader[c] \in Reader /\ got[c] \in Nat /\ got' = [got EXCEPT ![c] = got[c]]
      /\ reader[c].cursor \in Nat /\ last \in 1 .. MaxEvents /\ published \in 1 .. last
      /\ last \in Nat /\ terminal \in BOOLEAN
  BY <1>1, StreamConstants DEF StreamInv, StreamTypes, TypeOK, Reader
<1>3. /\ CursorFits(reader[c], got[c]) /\ NothingMissed(reader[c], topics[current].version)
      /\ Version(c) = topics[current].version /\ topics[current].version \in Nat
  BY <1>1, TopicIsThere DEF StreamInv, ReaderInv
<1>4. CASE Observe(c)
  <2> DEFINE r == [reader[c] EXCEPT !.pc = "query", !.observed = Version(c)]
  <2>1. reader[c].pc = "observe" /\ reader' = [reader EXCEPT ![c] = r]
    BY <1>2, <1>4 DEF Observe
  <2>2. /\ r \in Reader /\ r.pc = "query" /\ r.topic = reader[c].topic
        /\ r.cursor = reader[c].cursor /\ r.observed = topics[current].version
    BY <1>2, <1>3 DEF Reader
  <2> HIDE DEF r
  <2>3. CursorFits(r, got[c]) /\ NothingMissed(r, topics[current].version)
    BY <1>2, <1>3, <2>1, <2>2 DEF CursorFits, NothingMissed
  <2> QED
    BY <1>1, <1>2, <2>1, <2>2, <2>3, ReaderMoves
<1>5. CASE Query(c)
  <2> DEFINE r == [reader[c] EXCEPT !.upto = last, !.ends = terminal, !.pc = "yield"]
  <2>1. reader[c].pc = "query" /\ reader' = [reader EXCEPT ![c] = r]
    BY <1>2, <1>5 DEF Query
  <2>2. /\ r \in Reader /\ r.pc = "yield" /\ r.topic = reader[c].topic
        /\ r.cursor = reader[c].cursor /\ r.observed = reader[c].observed
        /\ r.upto = last /\ r.ends = terminal
    BY <1>2 DEF Reader
  <2> HIDE DEF r
  <2>3. CursorFits(r, got[c]) /\ NothingMissed(r, topics[current].version)
    BY <1>2, <1>3, <2>1, <2>2 DEF CursorFits, NothingMissed
  <2> QED
    BY <1>1, <1>2, <2>1, <2>2, <2>3, ReaderMoves
<1> QED
  BY <1>4, <1>5

\* One frame; after the terminal event the client has the log.
LEMMA YieldKeepsInv ==
  ASSUME StreamInv, NEW c \in Client, Yield(c)
  PROVE  StreamInv' /\ got' = [got EXCEPT ![c] = got[c] + 1] /\ got[c] + 1 <= last
<1> DEFINE g == got[c] + 1
<1>1. Subscribed(c) /\ reader[c].pc = "yield" /\ UNCHANGED logVars
  BY DEF Yield, Subscribed
<1>2. /\ reader[c] \in Reader /\ got[c] \in Nat /\ g \in Nat /\ reader[c].cursor \in Nat
      /\ reader[c].upto \in Nat /\ last \in Nat
  BY <1>1 DEF StreamInv, StreamTypes, TypeOK, Reader
<1>3. CursorFits(reader[c], got[c]) /\ NothingMissed(reader[c], topics[current].version)
  BY <1>1 DEF StreamInv, ReaderInv
<1>4. /\ reader[c].cursor = got[c] /\ reader[c].cursor < reader[c].upto /\ reader[c].upto <= last
      /\ reader[c].ends => terminal /\ reader[c].upto = last
  BY <1>1, <1>3 DEF CursorFits, Yield
<1>5. got' = [got EXCEPT ![c] = g] /\ g <= last
  BY <1>2, <1>4 DEF Yield
<1>6. CASE reader[c].ends /\ reader[c].cursor + 1 = reader[c].upto
  <2>1. Unsubscribed(c, Ended) /\ terminal /\ g = last
    BY <1>4, <1>6 DEF Yield
  <2>2. CursorFits(Ended, g)
    BY <2>1, LeftBehind DEF CursorFits
  <2>3. StreamInv'
    BY <1>1, <1>2, <1>5, <2>1, <2>2, LeftBehind, UnsubscribedKeepsInv
  <2> QED
    BY <1>5, <2>3
<1>7. CASE ~ (reader[c].ends /\ reader[c].cursor + 1 = reader[c].upto)
  <2> DEFINE r == [reader[c] EXCEPT !.cursor = @ + 1]
  <2>1. reader' = [reader EXCEPT ![c] = r] /\ UNCHANGED <<topics, current>>
    BY <1>2, <1>7 DEF Yield
  <2>2. /\ r \in Reader /\ r.pc = "yield" /\ r.topic = reader[c].topic /\ r.cursor = g
        /\ r.upto = reader[c].upto /\ r.ends = reader[c].ends /\ r.observed = reader[c].observed
    BY <1>1, <1>2, <1>4 DEF Reader
  <2> HIDE DEF r
  <2>3. CursorFits(r, g) /\ NothingMissed(r, topics[current].version)
    BY <1>1, <1>2, <1>3, <1>4, <1>5, <2>2 DEF CursorFits, NothingMissed
  <2>4. StreamInv'
    BY <1>1, <1>2, <1>5, <2>1, <2>2, <2>3, ReaderMoves
  <2> QED
    BY <1>5, <2>4
<1> QED
  BY <1>6, <1>7

\* Between two queries a reader goes on if the version moved, and sleeps otherwise.
LEMMA WaitingKeepsInv ==
  ASSUME StreamInv, NEW c \in Client, Compare(c) \/ Wake(c) \/ Heartbeat(c)
  PROVE  StreamInv'
<1>1. Subscribed(c) /\ UNCHANGED <<logVars, topics, current, got>>
  BY DEF Compare, Wake, Heartbeat, Subscribed
<1>2. /\ reader[c] \in Reader /\ got[c] \in Nat /\ got' = [got EXCEPT ![c] = got[c]]
      /\ reader[c].observed \in Nat /\ reader[c].pc \in {"yield", "wait"}
      /\ reader[c].woken \in BOOLEAN
  BY <1>1 DEF StreamInv, StreamTypes, TypeOK, Reader, Compare, Wake, Heartbeat
<1>3. /\ CursorFits(reader[c], got[c]) /\ NothingMissed(reader[c], topics[current].version)
      /\ Version(c) = topics[current].version /\ topics[current].version \in Nat
  BY <1>1, TopicIsThere DEF StreamInv, ReaderInv
<1>4. CASE reader' = [reader EXCEPT ![c] = Again(c)]
  <2>1. /\ Again(c) \in Reader /\ Again(c).pc = "observe" /\ Again(c).topic = reader[c].topic
        /\ Again(c).cursor = reader[c].cursor
    BY <1>2 DEF Reader, Again
  <2>2. CursorFits(Again(c), got[c]) /\ NothingMissed(Again(c), topics[current].version)
    BY <1>2, <1>3, <2>1 DEF CursorFits, NothingMissed
  <2> QED
    BY <1>1, <1>2, <1>4, <2>1, <2>2, ReaderMoves
<1>5. CASE Compare(c) /\ Version(c) = reader[c].observed
  <2> DEFINE r == [reader[c] EXCEPT !.pc = "wait"]
  <2>1. /\ reader[c].pc = "yield" /\ reader[c].cursor = reader[c].upto
        /\ reader' = [reader EXCEPT ![c] = r]
    BY <1>2, <1>5 DEF Compare
  <2>2. /\ r \in Reader /\ r.pc = "wait" /\ r.topic = reader[c].topic
        /\ r.cursor = reader[c].cursor /\ r.observed = reader[c].observed
    BY <1>2 DEF Reader
  <2> HIDE DEF r
  <2>3. CursorFits(r, got[c]) /\ NothingMissed(r, topics[current].version)
    BY <1>2, <1>3, <1>5, <2>1, <2>2 DEF CursorFits, NothingMissed
  <2> QED
    BY <1>1, <1>2, <2>1, <2>2, <2>3, ReaderMoves
<1>6. CASE Wake(c) /\ ~ (Version(c) > reader[c].observed)
  <2> DEFINE r == [reader[c] EXCEPT !.woken = FALSE]
  <2>1. reader[c].pc = "wait" /\ reader' = [reader EXCEPT ![c] = r]
    BY <1>2, <1>6 DEF Wake
  <2>2. /\ r \in Reader /\ r.pc = "wait" /\ r.topic = reader[c].topic
        /\ r.cursor = reader[c].cursor /\ r.observed = reader[c].observed
    BY <1>2, <2>1 DEF Reader
  <2>3. reader[c].observed = topics[current].version
    BY <1>2, <1>3, <1>6, <2>1 DEF NothingMissed
  <2> HIDE DEF r
  <2>4. CursorFits(r, got[c]) /\ NothingMissed(r, topics[current].version)
    BY <1>2, <1>3, <2>1, <2>2, <2>3 DEF CursorFits, NothingMissed
  <2> QED
    BY <1>1, <1>2, <2>1, <2>2, <2>4, ReaderMoves
<1> QED
  BY <1>2, <1>3, <1>4, <1>5, <1>6 DEF Compare, Wake, Heartbeat

\* A client that goes away is unsubscribed, wherever it was.
LEMMA DisconnectKeepsInv ==
  ASSUME StreamInv, NEW c \in Client, Disconnect(c)
  PROVE  StreamInv'
<1>1. Subscribed(c) /\ Unsubscribed(c, Off) /\ UNCHANGED <<logVars, got>>
  BY DEF Disconnect
<1>2. got[c] \in Nat /\ got' = [got EXCEPT ![c] = got[c]]
  BY <1>1 DEF StreamInv, StreamTypes, TypeOK
<1> QED
  BY <1>1, <1>2, LeftBehind, UnsubscribedKeepsInv

\* Every step keeps the invariant, and what a client is given is the event after its last.
LEMMA StreamSteps ==
  ASSUME StreamInv, [Next]_vars
  PROVE  StreamInv' /\ InOrder
<1>1. ASSUME NEW isTerminal \in BOOLEAN, Commit(isTerminal) PROVE StreamInv' /\ got' = got
  BY <1>1, CommitKeepsInv DEF Commit
<1>2. ASSUME Publish PROVE StreamInv' /\ got' = got
  BY <1>2, PublishKeepsInv DEF Publish
<1>3. ASSUME NEW c \in Client, Connect(c) \/ Disconnect(c) PROVE StreamInv' /\ got' = got
  BY <1>3, ConnectKeepsInv, DisconnectKeepsInv DEF Connect, Disconnect
<1>4. ASSUME NEW c \in Client, Validate(c) \/ Observe(c) \/ Query(c) PROVE StreamInv' /\ got' = got
  BY <1>4, ValidateKeepsInv, ReadingKeepsInv DEF Validate, Observe, Query
<1>5. ASSUME NEW c \in Client, Compare(c) \/ Wake(c) \/ Heartbeat(c) PROVE StreamInv' /\ got' = got
  BY <1>5, WaitingKeepsInv DEF Compare, Wake, Heartbeat
<1>6. ASSUME NEW c \in Client, Yield(c) PROVE StreamInv' /\ InOrder
  <2>1. StreamInv' /\ got' = [got EXCEPT ![c] = got[c] + 1] /\ got[c] + 1 <= last
    BY <1>6, YieldKeepsInv
  <2>2. got \in [Client -> Nat]
    BY DEF StreamInv, StreamTypes, TypeOK
  <2> QED
    BY <2>1, <2>2 DEF InOrder
<1>7. ASSUME UNCHANGED vars PROVE StreamInv' /\ got' = got
  BY <1>7 DEF vars, logVars, StreamInv, StreamTypes, TypeOK, TopicCounts, Live, Subscribed,
     ReaderInv, CursorFits, Followed, NothingMissed
<1>8. got' = got => InOrder
  BY DEF InOrder
<1> QED
  BY <1>1, <1>2, <1>3, <1>4, <1>5, <1>6, <1>7, <1>8 DEF Next, ReaderStep

------------------------------------------------------------------------------
(***************************************************************************)
(* AguiStream                                                              *)
(***************************************************************************)

\* The cursor of a live reader is what its client has.  Rows that are yielded after a page
\* with room are all there were, and all that were noticed while the revision is the same.
PageFits(r, g) ==
  /\ r.pc \in {"read", "yield", "wait"} => r.cursor = g
  /\ r.pc = "yield" => r.cursor <= r.upto
  /\ r.pc = "yield" /\ ~ r.full /\ r.seen = revision => r.upto >= noticed
  /\ r.pc = "wait" /\ ~ r.full => r.cursor >= noticed

AguiReader(rows, revisions) ==
  [pc : {"off", "read", "yield", "wait", "ended"}, cursor : 0 .. rows, upto : 0 .. rows,
   seen : 0 .. revisions, full : BOOLEAN]

AguiInv ==
  /\ Agui!TypeOK
  /\ end = 0 => newest <= MaxRows - 2
  /\ \A c \in Client : PageFits(generator[c], received[c])

\* A run with its queued event and nobody who reads.
LEMMA AguiStarts == Agui!Init => AguiInv
<1> SUFFICES ASSUME Agui!Init PROVE AguiInv
  OBVIOUS
<1>1. /\ newest = 1 /\ end = 0 /\ noticed = 1 /\ revision = 0 /\ shut \in BOOLEAN
      /\ generator = [c \in Client |-> Agui!Off] /\ received = [c \in Client |-> 0]
  BY DEF Agui!Init
<1>2. Agui!Off \in AguiReader(newest, revision) /\ Agui!Off.pc = "off"
  BY <1>1 DEF Agui!Off, AguiReader
<1>3. /\ generator \in [Client -> AguiReader(newest, revision)]
      /\ received \in [Client -> 0 .. newest]
  BY <1>1, <1>2
<1>4. Agui!TypeOK
  BY <1>1, <1>3, PageConstants DEF Agui!TypeOK, AguiReader
<1>5. \A c \in Client : generator[c].pc = "off"
  BY <1>1, <1>2
<1> QED
  BY <1>1, <1>4, <1>5, PageConstants DEF AguiInv, PageFits

\* What changes the log or the revision leaves every reader with its type.
LEMMA AguiReaderGrows ==
  ASSUME NEW m \in Nat, NEW n \in Nat, m <= n, NEW v \in Nat, NEW w \in Nat, v <= w
  PROVE  AguiReader(m, v) \subseteq AguiReader(n, w)
<1>1. 0 .. m \subseteq 0 .. n /\ 0 .. v \subseteq 0 .. w
  OBVIOUS
<1> QED
  BY <1>1 DEF AguiReader

\* What the steps below use of the invariant.
LEMMA AguiFacts ==
  ASSUME AguiInv
  PROVE  /\ newest \in Nat /\ newest >= 1 /\ newest <= MaxRows /\ end \in 0 .. newest
         /\ noticed \in 1 .. newest /\ noticed \in Nat /\ revision \in Nat /\ shut \in BOOLEAN
         /\ MaxRows \in Nat /\ Page \in Nat /\ Page >= 1
         /\ generator \in [Client -> AguiReader(newest, revision)]
         /\ received \in [Client -> 0 .. newest]
BY PageConstants DEF AguiInv, Agui!TypeOK, AguiReader

\* A commit, a finish, a notification, a shutdown: the log moves, and sleepers wake.
LEMMA AguiLogKeepsInv ==
  ASSUME AguiInv, Agui!Commit \/ Agui!Finish \/ Agui!Notify \/ Agui!Shutdown
  PROVE  AguiInv'
<1>1. received' = received
  BY DEF Agui!Commit, Agui!Finish, Agui!Notify, Agui!Shutdown
<1>2. /\ newest' \in Nat /\ newest <= newest' /\ newest' <= MaxRows
      /\ end' \in 0 .. newest' /\ (end' = 0 => newest' <= MaxRows - 2)
  BY AguiFacts DEF AguiInv, Agui!Commit, Agui!Finish, Agui!Notify, Agui!Shutdown, Agui!Terminal
<1>3. /\ noticed' \in 1 .. newest' /\ revision' \in Nat /\ revision <= revision'
      /\ noticed' = noticed \/ revision' = revision + 1
  BY AguiFacts, <1>2 DEF Agui!Commit, Agui!Finish, Agui!Notify, Agui!Shutdown
<1>4. shut' \in BOOLEAN
  BY AguiFacts DEF Agui!Commit, Agui!Finish, Agui!Notify, Agui!Shutdown
<1>5. AguiReader(newest, revision) \subseteq AguiReader(newest', revision')
      /\ 0 .. newest \subseteq 0 .. newest'
  BY AguiFacts, <1>2, <1>3, AguiReaderGrows
<1>6. CASE generator' = generator /\ noticed' = noticed /\ revision' = revision
  <2>1. /\ generator' \in [Client -> AguiReader(newest', revision')]
        /\ received' \in [Client -> 0 .. newest']
    BY <1>1, <1>5, <1>6, AguiFacts
  <2>2. Agui!TypeOK'
    BY <1>2, <1>3, <1>4, <2>1, AguiFacts DEF Agui!TypeOK, AguiReader
  <2> QED
    BY <1>1, <1>2, <1>6, <2>2 DEF AguiInv, PageFits
<1>7. CASE Agui!Notify
  <2>1. /\ generator' = Agui!Woken /\ revision' = revision + 1 /\ noticed' = newest
        /\ newest' = newest
    BY <1>7 DEF Agui!Notify
  <2>2. ASSUME NEW c \in Client
        PROVE  /\ generator'[c] \in AguiReader(newest', revision')
               /\ PageFits(generator[c], received[c])'
    <3>1. /\ generator[c] \in AguiReader(newest, revision)
          /\ generator[c] \in AguiReader(newest', revision')
      BY <1>5, AguiFacts
    <3>2. generator'[c] = IF generator[c].pc = "wait" THEN [generator[c] EXCEPT !.pc = "read"]
                          ELSE generator[c]
      BY <2>1 DEF Agui!Woken
    <3>3. /\ generator'[c] \in AguiReader(newest', revision')
          /\ generator'[c].pc # "wait" /\ generator'[c].cursor = generator[c].cursor
          /\ generator'[c].seen = generator[c].seen /\ generator'[c].upto = generator[c].upto
          /\ generator[c].seen \in 0 .. revision
          /\ \/ generator'[c].pc = generator[c].pc
             \/ generator'[c].pc = "read" /\ generator[c].pc = "wait"
      BY <3>1, <3>2 DEF AguiReader
    <3>4. PageFits(generator[c], received[c])
      BY DEF AguiInv
    <3>5. generator[c].seen # revision'
      BY <2>1, <3>3, AguiFacts
    <3>6. PageFits(generator[c], received[c])'
      BY <1>1, <3>3, <3>4, <3>5 DEF PageFits
    <3> QED
      BY <3>3, <3>6
  <2>3. /\ generator' \in [Client -> AguiReader(newest', revision')]
        /\ received' \in [Client -> 0 .. newest']
    BY <1>1, <1>5, <2>1, <2>2, AguiFacts DEF Agui!Woken
  <2>4. Agui!TypeOK'
    BY <1>2, <1>3, <1>4, <2>3, AguiFacts DEF Agui!TypeOK, AguiReader
  <2> QED
    BY <1>2, <2>2, <2>4 DEF AguiInv
<1> QED
  BY <1>6, <1>7 DEF Agui!Commit, Agui!Finish, Agui!Shutdown

\* What one reader does leaves the log and the others alone.
LEMMA AguiReaderMoves ==
  ASSUME AguiInv, NEW c \in Client, NEW r \in AguiReader(newest, revision),
         NEW g \in 0 .. newest, PageFits(r, g),
         generator' = [generator EXCEPT ![c] = r], received' = [received EXCEPT ![c] = g],
         UNCHANGED <<newest, end, noticed, revision, shut>>
  PROVE  AguiInv'
<1>1. /\ generator' \in [Client -> AguiReader(newest, revision)]
      /\ received' \in [Client -> 0 .. newest]
      /\ generator'[c] = r /\ received'[c] = g
      /\ \A d \in Client : d # c => generator'[d] = generator[d] /\ received'[d] = received[d]
  BY AguiFacts
<1>2. Agui!TypeOK'
  BY <1>1, AguiFacts DEF Agui!TypeOK, AguiReader
<1>3. ASSUME NEW d \in Client PROVE PageFits(generator[d], received[d])'
  <2>1. CASE d = c
    BY <1>1, <2>1 DEF PageFits
  <2>2. CASE d # c
    BY <1>1, <2>2 DEF AguiInv, PageFits
  <2> QED
    BY <2>1, <2>2
<1> QED
  BY <1>2, <1>3 DEF AguiInv

\* A stream that is closed has its type.
LEMMA AguiOff ==
  ASSUME AguiInv
  PROVE  Agui!Off \in AguiReader(newest, revision) /\ Agui!Off.pc = "off"
<1>1. 0 \in 0 .. newest /\ 0 \in 0 .. revision
  BY AguiFacts
<1> QED
  BY <1>1 DEF Agui!Off, AguiReader

\* A page is of rows after the cursor, and one with room reaches to the last.
LEMMA PageIsOfTheLog ==
  ASSUME AguiInv, NEW cursor \in 0 .. newest
  PROVE  /\ Agui!PageEnd(cursor) \in cursor .. newest
         /\ Agui!PageEnd(cursor) # cursor + Page => Agui!PageEnd(cursor) = newest
BY AguiFacts DEF Agui!PageEnd

\* After a page: it ends, it reads again, or it waits for what it has not seen.
LEMMA AfterPageFits ==
  ASSUME AguiInv, NEW r \in AguiReader(newest, revision), r.pc = "yield", r.cursor = r.upto,
         NEW g, PageFits(r, g)
  PROVE  Agui!AfterPage(r) \in AguiReader(newest, revision) /\ PageFits(Agui!AfterPage(r), g)
<1>1. CASE Agui!Terminal /\ ~ r.full
  <2>1. /\ Agui!AfterPage(r) = [Agui!Off EXCEPT !.pc = "ended"]
        /\ Agui!AfterPage(r).pc = "ended"
    BY <1>1 DEF Agui!AfterPage, Agui!Off
  <2>2. Agui!AfterPage(r) \in AguiReader(newest, revision)
    BY <2>1, AguiOff DEF AguiReader
  <2> QED
    BY <2>1, <2>2 DEF PageFits
<1>2. CASE ~ (Agui!Terminal /\ ~ r.full) /\ r.seen # revision
  <2>1. Agui!AfterPage(r) = [r EXCEPT !.pc = "read"]
    BY <1>2 DEF Agui!AfterPage
  <2>2. /\ Agui!AfterPage(r) \in AguiReader(newest, revision)
        /\ Agui!AfterPage(r).pc = "read" /\ Agui!AfterPage(r).cursor = r.cursor
    BY <2>1 DEF AguiReader
  <2> QED
    BY <2>2 DEF PageFits
<1>3. CASE ~ (Agui!Terminal /\ ~ r.full) /\ r.seen = revision
  <2>1. Agui!AfterPage(r) = [r EXCEPT !.pc = "wait"]
    BY <1>3 DEF Agui!AfterPage
  <2>2. /\ Agui!AfterPage(r) \in AguiReader(newest, revision)
        /\ Agui!AfterPage(r).pc = "wait" /\ Agui!AfterPage(r).cursor = r.cursor
        /\ Agui!AfterPage(r).full = r.full
    BY <2>1 DEF AguiReader
  <2> QED
    BY <1>3, <2>2 DEF PageFits
<1> QED
  BY <1>1, <1>2, <1>3

\* A client comes, or goes, or is released by a shutdown.
LEMMA AguiClientKeepsInv ==
  ASSUME AguiInv, NEW c \in Client,
         Agui!Connect(c) \/ Agui!Disconnect(c) \/ Agui!Released(c)
  PROVE  AguiInv' /\ received' = received
<1>1. /\ received' = received /\ UNCHANGED <<newest, end, noticed, revision, shut>>
      /\ received[c] \in 0 .. newest /\ received' = [received EXCEPT ![c] = received[c]]
  BY AguiFacts DEF Agui!Connect, Agui!Disconnect, Agui!Released, Agui!logVars
<1>2. CASE Agui!Connect(c)
  <2> DEFINE r == [Agui!Off EXCEPT !.pc = "read", !.cursor = received[c]]
  <2>1. generator' = [generator EXCEPT ![c] = r]
    BY <1>2 DEF Agui!Connect
  <2>2. r \in AguiReader(newest, revision) /\ r.pc = "read" /\ r.cursor = received[c]
    BY <1>1, AguiOff DEF AguiReader
  <2> HIDE DEF r
  <2>3. PageFits(r, received[c])
    BY <2>2 DEF PageFits
  <2> QED
    BY <1>1, <2>1, <2>2, <2>3, AguiReaderMoves
<1>3. CASE Agui!Disconnect(c) \/ Agui!Released(c)
  <2>1. generator' = [generator EXCEPT ![c] = Agui!Off]
    BY <1>3 DEF Agui!Disconnect, Agui!Released
  <2>2. Agui!Off \in AguiReader(newest, revision) /\ Agui!Off.pc = "off"
    BY AguiOff
  <2>3. PageFits(Agui!Off, received[c])
    BY <2>2 DEF PageFits
  <2> QED
    BY <1>1, <2>1, <2>2, <2>3, AguiReaderMoves
<1> QED
  BY <1>2, <1>3

\* The top of the loop: the revision first, then the page.
LEMMA AguiReadKeepsInv ==
  ASSUME AguiInv, NEW c \in Client, Agui!Read(c)
  PROVE  AguiInv' /\ received' = received
<1> DEFINE pageEnd == Agui!PageEnd(generator[c].cursor)
           r == [generator[c] EXCEPT !.pc = "yield", !.seen = revision, !.upto = pageEnd,
                                     !.full = pageEnd = generator[c].cursor + Page]
           next == IF r.cursor = r.upto THEN Agui!AfterPage(r) ELSE r
<1>1. /\ received' = received /\ UNCHANGED <<newest, end, noticed, revision, shut>>
      /\ generator[c].pc = "read" /\ generator' = [generator EXCEPT ![c] = next]
  BY DEF Agui!Read, Agui!logVars
<1>2. /\ generator[c] \in AguiReader(newest, revision) /\ received[c] \in 0 .. newest
      /\ PageFits(generator[c], received[c])
      /\ received' = [received EXCEPT ![c] = received[c]]
  BY <1>1, AguiFacts DEF AguiInv
<1>3. generator[c].cursor \in 0 .. newest /\ generator[c].cursor = received[c]
  BY <1>1, <1>2 DEF AguiReader, PageFits
<1>4. /\ pageEnd \in generator[c].cursor .. newest
      /\ pageEnd # generator[c].cursor + Page => pageEnd = newest
  BY <1>3, PageIsOfTheLog
<1>5. /\ r.pc = "yield" /\ r.seen = revision /\ r.upto = pageEnd
      /\ r.cursor = generator[c].cursor /\ r.full = (pageEnd = generator[c].cursor + Page)
  BY <1>2 DEF AguiReader
<1>6. r \in AguiReader(newest, revision)
  <2>1. pageEnd \in 0 .. newest /\ revision \in 0 .. revision
    BY <1>3, <1>4, AguiFacts
  <2>2. (pageEnd = generator[c].cursor + Page) \in BOOLEAN
    OBVIOUS
  <2> HIDE DEF pageEnd
  <2> QED
    BY <1>2, <2>1, <2>2 DEF AguiReader
<1>7. PageFits(r, received[c])
  <2> HIDE DEF r, pageEnd
  <2>1. r.cursor <= r.upto
    BY <1>3, <1>4, <1>5
  <2>2. ~ r.full => pageEnd # generator[c].cursor + Page
    BY <1>5
  <2>3. ~ r.full => r.upto = newest
    BY <1>4, <1>5, <2>2
  <2> QED
    BY <1>3, <1>5, <2>1, <2>3, AguiFacts DEF PageFits
<1>8. next \in AguiReader(newest, revision) /\ PageFits(next, received[c])
  <2> HIDE DEF r
  <2> QED
    BY <1>5, <1>6, <1>7, AfterPageFits
<1> HIDE DEF next
<1> QED
  BY <1>1, <1>2, <1>8, AguiReaderMoves

\* A row is given to the consumer of the generator.
LEMMA AguiYieldKeepsInv ==
  ASSUME AguiInv, NEW c \in Client, Agui!Yield(c)
  PROVE  AguiInv' /\ received' = [received EXCEPT ![c] = received[c] + 1]
<1> DEFINE r == [generator[c] EXCEPT !.cursor = @ + 1]
<1>1. /\ generator[c].pc = "yield" /\ generator[c].cursor < generator[c].upto
      /\ UNCHANGED <<newest, end, noticed, revision, shut>>
      /\ received' = [received EXCEPT ![c] = generator[c].cursor + 1]
      /\ generator' = [generator EXCEPT ![c] = r]
  BY AguiFacts DEF Agui!Yield, Agui!logVars
<1>2. /\ generator[c] \in AguiReader(newest, revision) /\ received[c] \in 0 .. newest
      /\ PageFits(generator[c], received[c])
  BY AguiFacts DEF AguiInv
<1>3. /\ generator[c].cursor = received[c] /\ generator[c].cursor \in 0 .. newest
      /\ generator[c].upto \in 0 .. newest
  BY <1>1, <1>2 DEF AguiReader, PageFits
<1>4. generator[c].cursor + 1 \in 0 .. newest
  BY <1>1, <1>3, AguiFacts
<1>5. /\ r \in AguiReader(newest, revision) /\ r.pc = "yield" /\ r.cursor = generator[c].cursor + 1
      /\ r.upto = generator[c].upto /\ r.full = generator[c].full /\ r.seen = generator[c].seen
  BY <1>1, <1>2, <1>4 DEF AguiReader
<1> HIDE DEF r
<1>6. PageFits(r, received[c] + 1)
  BY <1>1, <1>2, <1>3, <1>5, AguiFacts DEF PageFits
<1>7. received[c] + 1 \in 0 .. newest
  BY <1>3, <1>4
<1>8. received' = [received EXCEPT ![c] = received[c] + 1]
  BY <1>1, <1>3
<1> QED
  BY <1>1, <1>5, <1>6, <1>7, <1>8, AguiReaderMoves

\* After its page a reader ends, reads again or waits.
LEMMA AguiPageDoneKeepsInv ==
  ASSUME AguiInv, NEW c \in Client, Agui!PageDone(c)
  PROVE  AguiInv' /\ received' = received
<1>1. /\ generator[c].pc = "yield" /\ generator[c].cursor = generator[c].upto
      /\ received' = received /\ UNCHANGED <<newest, end, noticed, revision, shut>>
      /\ generator' = [generator EXCEPT ![c] = Agui!AfterPage(generator[c])]
  BY DEF Agui!PageDone, Agui!logVars
<1>2. /\ generator[c] \in AguiReader(newest, revision) /\ received[c] \in 0 .. newest
      /\ PageFits(generator[c], received[c])
      /\ received' = [received EXCEPT ![c] = received[c]]
  BY <1>1, AguiFacts DEF AguiInv
<1> QED
  BY <1>1, <1>2, AfterPageFits, AguiReaderMoves

\* Every step keeps the invariant, and what a client is given is the row after its last.
LEMMA AguiSteps ==
  ASSUME AguiInv, Agui!Next \/ UNCHANGED aguiVars
  PROVE  AguiInv' /\ Agui!InOrder
<1>1. ASSUME Agui!Commit \/ Agui!Finish \/ Agui!Notify \/ Agui!Shutdown
      PROVE  AguiInv' /\ received' = received
  BY <1>1, AguiLogKeepsInv DEF Agui!Commit, Agui!Finish, Agui!Notify, Agui!Shutdown
<1>2. ASSUME NEW c \in Client,
             Agui!Connect(c) \/ Agui!Disconnect(c) \/ Agui!Released(c)
             \/ Agui!Read(c) \/ Agui!PageDone(c)
      PROVE  AguiInv' /\ received' = received
  BY <1>2, AguiClientKeepsInv, AguiReadKeepsInv, AguiPageDoneKeepsInv
<1>3. ASSUME NEW c \in Client, Agui!Yield(c) PROVE AguiInv' /\ Agui!InOrder
  <2>1. AguiInv' /\ received' = [received EXCEPT ![c] = received[c] + 1]
    BY <1>3, AguiYieldKeepsInv
  <2> QED
    BY <2>1, AguiFacts DEF Agui!InOrder
<1>4. ASSUME UNCHANGED aguiVars PROVE AguiInv' /\ received' = received
  BY <1>4 DEF aguiVars, AguiInv, Agui!TypeOK, PageFits
<1>5. received' = received => Agui!InOrder
  BY DEF Agui!InOrder
<1> QED
  BY <1>1, <1>2, <1>3, <1>4, <1>5 DEF Agui!Next, Agui!ReaderStep

------------------------------------------------------------------------------
(***************************************************************************)
(* LiveReply                                                               *)
(***************************************************************************)

Reply ==
  [at : {"none", "refused", "page", "row", "drain", "wait", "over"}, cursor : Nat, upto : Nat,
   full : BOOLEAN, seen : Nat]

\* Up to n, the rows that were given are those of the channel.
Given(n) ==
  /\ \A i \in 1 .. Len(live) : live[i] \in 1 .. n /\ log[live[i]] = "ag-ui"
  /\ \A s \in 1 .. n : log[s] = "ag-ui" => \E i \in 1 .. Len(live) : live[i] = s

\* The page is of rows of the log, and the rows up to the cursor were dealt with.
ReplyFollows ==
  /\ reply.cursor <= Len(log) /\ reply.upto <= Len(log)
  /\ reply.at \in {"row", "drain"} => reply.cursor <= reply.upto
  /\ \A i, j \in 1 .. Len(live) : i < j => live[i] < live[j]
  /\ Given(reply.cursor)
  /\ reply.at = "none" => live = << >> /\ reply.cursor = 0 /\ reply.upto = 0

\* Who listens on the socket follows from where the reply is.
ListenersFit ==
  /\ reply.at \in {"none", "refused", "over"} => listeners = {}
  /\ reply.at \in {"page", "row", "wait"} => listeners = {"detach"}
  /\ reply.at = "drain" => listeners = {"detach", "drain"}
  /\ reply.at = "over" => socket # "open"

ReplyTypes ==
  /\ log \in Seq(Channel) /\ live \in Seq(Nat) /\ reply \in Reply
  /\ socket \in {"open", "closed", "ended"} /\ settled \in BOOLEAN /\ down \in BOOLEAN

ReplyInv == ReplyTypes /\ ReplyFollows /\ ListenersFit

\* The invariant is what the properties need.
LEMMA ReplyInvIsEnough ==
  ASSUME ReplyInv
  PROVE  LiveTypeOK /\ LiveReplyIsExact
<1>1. LiveTypeOK
  BY DEF ReplyInv, ReplyTypes, ListenersFit, LiveTypeOK, Reply
<1>2. Len(live) \in Nat /\ DOMAIN live = 1 .. Len(live) /\ reply.cursor \in Nat
  BY LenProperties DEF ReplyInv, ReplyTypes, Reply
<1>3. Given(reply.cursor) /\ \A i, j \in 1 .. Len(live) : i < j => live[i] < live[j]
  BY DEF ReplyInv, ReplyFollows
<1>4. {live[i] : i \in DOMAIN live} = {s \in 1 .. Newest : log[s] = "ag-ui"}
  <2>1. CASE live = << >>
    <3>1. Len(live) = 0 /\ Newest = 0
      BY <2>1 DEF Newest
    <3> QED
      BY <1>2, <3>1
  <2>2. CASE live # << >>
    <3>1. Len(live) \in 1 .. Len(live) /\ Newest = live[Len(live)]
      BY <1>2, <2>2, EmptySeq DEF Newest, ReplyInv, ReplyTypes
    <3>2. Newest \in 1 .. reply.cursor
      BY <1>3, <3>1 DEF Given
    <3>3. \A i \in 1 .. Len(live) : live[i] \in 1 .. Newest /\ log[live[i]] = "ag-ui"
      BY <1>2, <1>3, <3>1, <3>2 DEF Given
    <3>4. \A s \in 1 .. Newest : log[s] = "ag-ui" => \E i \in 1 .. Len(live) : live[i] = s
      BY <1>2, <1>3, <3>2 DEF Given
    <3> QED
      BY <1>2, <3>3, <3>4, SMTT(30)
  <2> QED
    BY <2>1, <2>2
<1>5. reply.at = "over" => listeners = {} /\ socket # "open"
  BY DEF ReplyInv, ListenersFit
<1> QED
  BY <1>1, <1>2, <1>3, <1>4, <1>5 DEF LiveReplyIsExact

\* A reply that was not asked for has given nothing.
LEMMA ReplyStarts == LiveInit => ReplyInv
<1> SUFFICES ASSUME LiveInit PROVE ReplyInv
  OBVIOUS
<1>1. ReplyTypes
  BY EmptySeq DEF LiveInit, ReplyTypes, Reply
<1>2. Len(live) = 0 /\ Len(log) = 0 /\ live = << >>
  BY DEF LiveInit
<1>3. reply.cursor = 0 /\ reply.upto = 0 /\ reply.at = "none"
  BY DEF LiveInit
<1>4. ReplyFollows
  BY <1>2, <1>3 DEF ReplyFollows, Given
<1>5. ListenersFit
  BY <1>3 DEF LiveInit, ListenersFit
<1> QED
  BY <1>1, <1>4, <1>5 DEF ReplyInv

\* A set of numbers has a least one.
Less == {pair \in Nat \X Nat : pair[1] < pair[2]}

\* A set of naturals has a least member.
LEMMA LeastIsThere ==
  ASSUME NEW S, S \subseteq Nat, S # {}
  PROVE  Min(S) \in S /\ \A y \in S : Min(S) <= y
<1>1. IsWellFoundedOn(Less, Nat)
  <2>1. Less = OpToRel(<, Nat)
    BY Zenon DEF Less, OpToRel
  <2> QED
    BY <2>1, NatLessThanWellFounded
<1>2. PICK x \in S : \A y \in S : ~ (<<y, x>> \in Less)
  BY <1>1, WFMin
<1>3. ASSUME NEW y \in S PROVE x <= y
  <2>1. x \in Nat /\ y \in Nat
    OBVIOUS
  <2>2. y < x => <<y, x>> \in Less
    BY Zenon, <2>1 DEF Less
  <2> QED
    BY <1>2, <2>1, <2>2
<1>4. \E z \in S : \A y \in S : z <= y
  BY <1>3
<1> QED
  BY <1>4 DEF Min

\* What the steps below use of the invariant.
LEMMA ReplyFacts ==
  ASSUME ReplyInv
  PROVE  /\ reply \in Reply /\ reply.cursor \in Nat /\ reply.upto \in Nat
         /\ log \in Seq(Channel) /\ Len(log) \in Nat /\ live \in Seq(Nat) /\ Len(live) \in Nat
         /\ reply.cursor <= Len(log) /\ reply.upto <= Len(log) /\ Given(reply.cursor)
         /\ \A i \in 1 .. Len(live) : live[i] \in Nat
BY LenProperties, ElementOfSeq DEF ReplyInv, ReplyTypes, ReplyFollows, Reply

\* A reply that only goes on to another place keeps its cursor and its page
LEMMA ReplyAtFields ==
  ASSUME ReplyInv, ReplyAt(reply'.at),
         reply'.at \in {"none", "refused", "page", "row", "drain", "wait", "over"}
  PROVE  /\ reply' \in Reply /\ reply'.cursor = reply.cursor /\ reply'.upto = reply.upto
<1> DEFINE x == reply'.at
<1>1. reply' = [reply EXCEPT !.at = x] /\ reply \in Reply
  BY ReplyFacts DEF ReplyAt
<1> HIDE DEF x
<1>2. x \in {"none", "refused", "page", "row", "drain", "wait", "over"}
  BY DEF x
<1> QED
  BY <1>1, <1>2 DEF Reply

\* and is at that place.
LEMMA ReplyAtIs ==
  ASSUME ReplyInv, NEW x, ReplyAt(x)
  PROVE  reply'.at = x
BY ReplyFacts DEF ReplyAt, Reply

\* The reply goes to another place with the same page; rows may be committed meanwhile.
LEMMA SamePage ==
  ASSUME ReplyInv, reply'.cursor = reply.cursor, reply'.upto = reply.upto, live' = live,
         Len(log') \in Nat, Len(log') >= Len(log),
         \A s \in 1 .. Len(log) : log'[s] = log[s],
         reply'.at # "none",
         reply'.at \in {"row", "drain"} => reply.at \in {"row", "drain"}
  PROVE  ReplyFollows'
<1>1. \A s \in 1 .. reply.cursor : log'[s] = log[s]
  BY ReplyFacts
<1>2. Given(reply.cursor)'
  BY <1>1, ReplyFacts DEF Given
<1> QED
  BY <1>2, ReplyFacts DEF ReplyInv, ReplyFollows

\* The finally block takes the last listener along and leaves no open socket.
LEMMA FinishKeepsInv ==
  ASSUME ReplyInv, NEW left, left \ {"detach"} = {}, Finishes(left),
         UNCHANGED <<log, settled, down, live>>
  PROVE  ReplyInv'
<1>1. reply'.at = "over" /\ listeners' = {} /\ ReplyAt(reply'.at)
  BY ReplyAtIs DEF Finishes
<1>2. reply' \in Reply /\ reply'.cursor = reply.cursor /\ reply'.upto = reply.upto
  BY <1>1, ReplyAtFields
<1>3. socket' \in {"open", "closed", "ended"} /\ socket' # "open"
  BY DEF ReplyInv, ReplyTypes, Finishes
<1>4. ReplyFollows'
  BY <1>1, <1>2, SamePage, ReplyFacts
<1> QED
  BY <1>1, <1>2, <1>3, <1>4 DEF ReplyInv, ReplyTypes, ListenersFit

\* Rows are committed, the socket closes, the server shuts down: the reply stays where it is.
LEMMA OutsideKeepsInv ==
  ASSUME ReplyInv,
         (\E channel \in Channel : LiveCommit(channel)) \/ LiveFinish \/ SocketCloses \/ LiveShutdown
  PROVE  ReplyInv'
<1>1. ASSUME NEW channel \in Channel, LiveCommit(channel) PROVE ReplyInv'
  <2>1. /\ log' = Append(log, channel) /\ reply.at # "none"
        /\ UNCHANGED <<settled, down, socket, reply, live, listeners>>
    BY <1>1 DEF LiveCommit
  <2>2. /\ log' \in Seq(Channel) /\ Len(log') = Len(log) + 1
        /\ \A s \in 1 .. Len(log) : log'[s] = log[s]
    BY <2>1, ReplyFacts, AppendProperties
  <2>3. ReplyFollows'
    BY <2>1, <2>2, SamePage, ReplyFacts
  <2> QED
    BY <2>1, <2>2, <2>3 DEF ReplyInv, ReplyTypes, ListenersFit
<1>2. CASE LiveFinish
  <2>1. /\ log' = log \o <<"other", "ag-ui">> /\ reply.at # "none" /\ settled' = TRUE
        /\ UNCHANGED <<down, socket, reply, live, listeners>>
    BY <1>2 DEF LiveFinish
  <2>2. <<"other", "ag-ui">> \in Seq(Channel) /\ Len(<<"other", "ag-ui">>) = 2
    BY DEF Channel
  <2>3. /\ log' \in Seq(Channel) /\ Len(log') = Len(log) + 2
        /\ \A s \in 1 .. Len(log) : log'[s] = log[s]
    BY <2>1, <2>2, ReplyFacts, ConcatProperties
  <2>4. ReplyFollows'
    BY <2>1, <2>3, SamePage, ReplyFacts
  <2>5. settled' \in BOOLEAN
    BY <2>1
  <2> QED
    BY <2>1, <2>3, <2>4, <2>5 DEF ReplyInv, ReplyTypes, ListenersFit
<1>3. CASE SocketCloses
  <2>1. /\ socket' = "closed" /\ socket = "open" /\ reply.at # "none"
        /\ UNCHANGED <<log, settled, down, reply, live, listeners>>
    BY <1>3 DEF SocketCloses
  <2>2. ReplyFollows'
    BY <2>1, SamePage, ReplyFacts
  <2> QED
    BY <2>1, <2>2 DEF ReplyInv, ReplyTypes, ListenersFit
<1>4. CASE LiveShutdown
  <2>1. down' \in BOOLEAN /\ UNCHANGED <<log, settled, socket, reply, live, listeners>>
    BY <1>4 DEF LiveShutdown
  <2> QED
    BY <2>1 DEF ReplyInv, ReplyTypes, ReplyFollows, Given, ListenersFit
<1> QED
  BY <1>1, <1>2, <1>3, <1>4

\* The request is refused, or the run is admitted with its first row.
LEMMA RequestKeepsInv ==
  ASSUME ReplyInv, Rejects \/ Admits
  PROVE  ReplyInv'
<1>1. reply.at = "none" /\ listeners = {} /\ live = << >> /\ live' = live
      /\ reply.cursor = 0 /\ reply.upto = 0
  BY DEF Rejects, Admits, ReplyInv, ReplyFollows, ListenersFit
<1>2. CASE Rejects
  <2>1. reply'.at = "refused" /\ ReplyAt(reply'.at)
    BY <1>2, ReplyAtIs DEF Rejects
  <2>2. reply' \in Reply /\ reply'.cursor = reply.cursor /\ reply'.upto = reply.upto
    BY <2>1, ReplyAtFields
  <2>3. socket' \in {"ended", "closed"} /\ listeners' = {} /\ UNCHANGED <<log, settled, down>>
    BY <1>1, <1>2 DEF Rejects, Outside
  <2>4. ReplyFollows'
    BY <1>1, <2>1, <2>2, <2>3, SamePage, ReplyFacts
  <2> QED
    BY <1>1, <2>1, <2>2, <2>3, <2>4 DEF ReplyInv, ReplyTypes, ListenersFit
<1>3. CASE Admits
  <2>1. reply'.at = "page" /\ ReplyAt(reply'.at)
    BY <1>3, ReplyAtIs DEF Admits
  <2>2. reply' \in Reply /\ reply'.cursor = 0 /\ reply'.upto = 0
    BY <1>1, <2>1, ReplyAtFields
  <2>3. log' = <<"other">> /\ listeners' = {"detach"} /\ UNCHANGED <<settled, down, socket>>
    BY <1>3 DEF Admits
  <2>4. log' \in Seq(Channel) /\ Len(log') = 1 /\ Len(live') = 0
    BY <1>1, <2>3 DEF Channel
  <2>5. ReplyFollows'
    BY <1>1, <2>1, <2>2, <2>4 DEF ReplyFollows, Given
  <2> QED
    BY <1>1, <2>1, <2>2, <2>3, <2>4, <2>5 DEF ReplyInv, ReplyTypes, ListenersFit
<1> QED
  BY <1>2, <1>3

\* A page is of rows of the log after the cursor, or nothing after an abort.
LEMMA PageReadKeepsInv ==
  ASSUME ReplyInv, PageRead
  PROVE  ReplyInv'
<1>1. reply.at = "page" /\ listeners = {"detach"} /\ UNCHANGED <<log, settled, down, live>>
  BY DEF PageRead, Outside, ReplyInv, ListenersFit
<1>2. CASE Aborted
  BY <1>1, <1>2, FinishKeepsInv DEF PageRead
<1>3. CASE ~ Aborted
  <2> DEFINE upto == Min({Len(log), reply.cursor + LivePage})
             full == Len(log) >= reply.cursor + LivePage
  <2>1. upto \in {Len(log), reply.cursor + LivePage}
        /\ \A n \in {Len(log), reply.cursor + LivePage} : upto <= n
    <3>1. {Len(log), reply.cursor + LivePage} \subseteq Nat
      BY ReplyFacts, PageConstants
    <3> QED
      BY <3>1, LeastIsThere
  <2>2. upto \in Nat /\ upto <= Len(log) /\ reply.cursor <= upto
    BY <2>1, ReplyFacts, PageConstants
  <2>3. full \in BOOLEAN
    OBVIOUS
  <2>4. /\ reply' = [at |-> "row", cursor |-> reply.cursor, upto |-> upto, full |-> full,
                     seen |-> Len(log)]
        /\ UNCHANGED <<socket, listeners>>
    BY <1>3 DEF PageRead
  <2> HIDE DEF upto, full
  <2>5. /\ reply' \in Reply /\ reply'.at = "row" /\ reply'.cursor = reply.cursor
        /\ reply'.upto = upto
    BY <2>2, <2>3, <2>4, ReplyFacts DEF Reply
  <2>6. ReplyFollows'
    BY <1>1, <2>2, <2>5, ReplyFacts DEF ReplyInv, ReplyFollows, Given
  <2> QED
    BY <1>1, <2>4, <2>5, <2>6 DEF ReplyInv, ReplyTypes, ListenersFit
<1> QED
  BY <1>2, <1>3

\* The next row of the channel is after all that were given, and none is left out before it.
LEMMA RowIsNext ==
  ASSUME ReplyInv, Later # {}, NEW m, m = Min(Later), live' = Append(live, m), log' = log
  PROVE  /\ m \in Nat /\ reply.cursor < m /\ m <= reply.upto
         /\ live' \in Seq(Nat)
         /\ \A i \in 1 .. Len(live') : live'[i] \in 1 .. m /\ log'[live'[i]] = "ag-ui"
         /\ \A s \in 1 .. m : log'[s] = "ag-ui" => \E i \in 1 .. Len(live') : live'[i] = s
         /\ \A i, j \in 1 .. Len(live') : i < j => live'[i] < live'[j]
<1>1. Later \subseteq Nat /\ \A s \in Later : reply.cursor < s /\ s <= reply.upto /\ log[s] = "ag-ui"
  BY ReplyFacts DEF Later
<1>2. m \in Later /\ \A s \in Later : m <= s
  BY <1>1, LeastIsThere
<1>3. m \in Nat /\ reply.cursor < m /\ m <= reply.upto /\ log[m] = "ag-ui"
  BY <1>1, <1>2
<1>4. /\ live' \in Seq(Nat) /\ Len(live') = Len(live) + 1 /\ live'[Len(live) + 1] = m
      /\ \A i \in 1 .. Len(live) : live'[i] = live[i]
  BY <1>3, ReplyFacts, AppendProperties
<1>5. \A i \in 1 .. Len(live) : live[i] \in 1 .. reply.cursor /\ log[live[i]] = "ag-ui"
  BY ReplyFacts DEF Given
<1>6. \A i, j \in 1 .. Len(live') : i < j => live'[i] < live'[j]
  <2> SUFFICES ASSUME NEW i \in 1 .. Len(live'), NEW j \in 1 .. Len(live'), i < j
               PROVE  live'[i] < live'[j]
    OBVIOUS
  <2>1. i \in 1 .. Len(live) /\ live'[i] = live[i] /\ live[i] \in 1 .. reply.cursor
    BY <1>4, <1>5, ReplyFacts
  <2>2. CASE j \in 1 .. Len(live)
    BY <1>4, <2>1, <2>2 DEF ReplyInv, ReplyFollows
  <2>3. CASE j = Len(live) + 1
    BY <1>3, <1>4, <2>1, <2>3, ReplyFacts
  <2>4. j \in 1 .. Len(live) \/ j = Len(live) + 1
    BY <1>4, ReplyFacts
  <2> QED
    BY <2>2, <2>3, <2>4
<1>7. \A i \in 1 .. Len(live') : live'[i] \in 1 .. m /\ log'[live'[i]] = "ag-ui"
  <2> SUFFICES ASSUME NEW i \in 1 .. Len(live')
               PROVE  live'[i] \in 1 .. m /\ log[live'[i]] = "ag-ui"
    OBVIOUS
  <2>1. CASE i \in 1 .. Len(live)
    BY <1>3, <1>4, <1>5, <2>1, ReplyFacts
  <2>2. CASE i = Len(live) + 1
    BY <1>3, <1>4, <2>2, ReplyFacts
  <2> QED
    BY <1>4, <2>1, <2>2, ReplyFacts
<1>8. \A s \in 1 .. m : log'[s] = "ag-ui" => \E i \in 1 .. Len(live') : live'[i] = s
  <2> SUFFICES ASSUME NEW s \in 1 .. m, log[s] = "ag-ui"
               PROVE  \E i \in 1 .. Len(live') : live'[i] = s
    OBVIOUS
  <2>1. CASE s <= reply.cursor
    <3>1. PICK i \in 1 .. Len(live) : live[i] = s
      BY <2>1, ReplyFacts DEF Given
    <3>2. i \in 1 .. Len(live') /\ live'[i] = s
      BY <1>4, <3>1, ReplyFacts
    <3> QED
      BY <3>2
  <2>2. CASE s > reply.cursor
    <3>1. s \in Later
      BY <1>3, <2>2, ReplyFacts DEF Later
    <3>2. s = m
      BY <1>2, <1>3, <3>1
    <3>3. Len(live) + 1 \in 1 .. Len(live')
      BY <1>4, ReplyFacts
    <3> QED
      BY <1>4, <3>2, <3>3
  <2> QED
    BY <1>3, <2>1, <2>2, ReplyFacts
<1> QED
  BY <1>3, <1>4, <1>6, <1>7, <1>8

\* A row is written, and the reply waits for the drain if the socket is full.
LEMMA RowWrittenKeepsInv ==
  ASSUME ReplyInv, NEW full \in BOOLEAN, RowWritten(full)
  PROVE  ReplyInv'
<1>1. /\ reply.at = "row" /\ Later # {} /\ listeners = {"detach"}
      /\ UNCHANGED <<log, settled, down>>
  BY DEF RowWritten, Outside, ReplyInv, ListenersFit
<1>2. CASE Aborted
  <2>1. Finishes(listeners) /\ UNCHANGED live
    BY <1>2 DEF RowWritten
  <2> QED
    BY <1>1, <2>1, FinishKeepsInv
<1>3. CASE ~ Aborted
  <2> DEFINE m == Min(Later)
             at == IF full THEN "drain" ELSE "row"
  <2>1. /\ live' = Append(live, m) /\ reply' = [reply EXCEPT !.cursor = m, !.at = at]
        /\ listeners' = IF full THEN {"detach", "drain"} ELSE {"detach"}
        /\ socket' = socket
    BY <1>1, <1>3 DEF RowWritten
  <2> HIDE DEF m
  <2>2. /\ m \in Nat /\ reply.cursor < m /\ m <= reply.upto /\ live' \in Seq(Nat)
        /\ \A i \in 1 .. Len(live') : live'[i] \in 1 .. m /\ log'[live'[i]] = "ag-ui"
        /\ \A s \in 1 .. m : log'[s] = "ag-ui" => \E i \in 1 .. Len(live') : live'[i] = s
        /\ \A i, j \in 1 .. Len(live') : i < j => live'[i] < live'[j]
    BY <1>1, <2>1, RowIsNext DEF m
  <2>3. /\ reply' \in Reply /\ reply'.at = at /\ reply'.cursor = m /\ reply'.upto = reply.upto
    BY <2>1, <2>2, ReplyFacts DEF Reply
  <2>4. Given(reply.cursor)'
    BY <2>2, <2>3 DEF Given
  <2>5. ReplyFollows'
    BY <1>1, <2>2, <2>3, <2>4, ReplyFacts DEF ReplyFollows
  <2> QED
    BY <1>1, <2>1, <2>2, <2>3, <2>5 DEF ReplyInv, ReplyTypes, ListenersFit
<1> QED
  BY <1>2, <1>3

\* The drain ends the wait for it, and so does an abort.
LEMMA DrainKeepsInv ==
  ASSUME ReplyInv, Drained \/ DrainAborted
  PROVE  ReplyInv'
<1>1. /\ reply.at = "drain" /\ listeners = {"detach", "drain"}
      /\ UNCHANGED <<log, settled, down, live>>
  BY DEF Drained, DrainAborted, Outside, ReplyInv, ListenersFit
<1>2. CASE DrainAborted
  <2>1. Finishes(listeners \ {"drain"}) /\ (listeners \ {"drain"}) \ {"detach"} = {}
    BY <1>1, <1>2 DEF DrainAborted
  <2> QED
    BY <1>1, <2>1, FinishKeepsInv
<1>3. CASE Drained
  <2>1. /\ reply'.at = "row" /\ ReplyAt(reply'.at) /\ listeners' = {"detach"}
        /\ socket' = socket
    BY <1>1, <1>3, ReplyAtIs DEF Drained
  <2>2. reply' \in Reply /\ reply'.cursor = reply.cursor /\ reply'.upto = reply.upto
    BY <2>1, ReplyAtFields
  <2>3. ReplyFollows'
    BY <1>1, <2>1, <2>2, SamePage, ReplyFacts
  <2> QED
    BY <1>1, <2>1, <2>2, <2>3 DEF ReplyInv, ReplyTypes, ListenersFit
<1> QED
  BY <1>2, <1>3

\* After its last row a page ends the reply or lets it wait, and a wait ends with the next.
LEMMA PageOverKeepsInv ==
  ASSUME ReplyInv, RowsDone \/ WaitOver
  PROVE  ReplyInv'
<1>1. /\ reply.at \in {"row", "wait"} /\ listeners = {"detach"}
      /\ UNCHANGED <<log, settled, down, live>>
  BY DEF RowsDone, WaitOver, Outside, ReplyInv, ListenersFit
<1>2. CASE Finishes(listeners)
  BY <1>1, <1>2, FinishKeepsInv
<1>3. CASE RowsDone /\ ~ (settled /\ ~ reply.full)
  <2>1. /\ reply' = [reply EXCEPT !.at = "wait", !.cursor = reply.upto]
        /\ Later = {} /\ UNCHANGED <<socket, listeners>> /\ reply.at = "row"
    BY <1>3 DEF RowsDone
  <2>2. /\ reply' \in Reply /\ reply'.at = "wait" /\ reply'.cursor = reply.upto
        /\ reply'.upto = reply.upto
    BY <2>1, ReplyFacts DEF Reply
  <2>3. reply.cursor <= reply.upto
    BY <2>1 DEF ReplyInv, ReplyFollows
  <2>4. \A i \in 1 .. Len(live) : live[i] \in 1 .. reply.upto /\ log[live[i]] = "ag-ui"
    BY <2>3, ReplyFacts DEF Given
  <2>5. ASSUME NEW s \in 1 .. reply.upto, log[s] = "ag-ui"
        PROVE  \E i \in 1 .. Len(live) : live[i] = s
    <3>1. s \notin reply.cursor + 1 .. reply.upto
      BY <2>1, <2>5 DEF Later
    <3>2. s \in 1 .. reply.cursor
      BY <3>1, ReplyFacts
    <3> QED
      BY <2>5, <3>2, ReplyFacts DEF Given
  <2>6. Given(reply.cursor)'
    BY <1>1, <2>2, <2>4, <2>5 DEF Given
  <2>7. ReplyFollows'
    BY <1>1, <2>2, <2>6, ReplyFacts DEF ReplyInv, ReplyFollows
  <2> QED
    BY <1>1, <2>1, <2>2, <2>7 DEF ReplyInv, ReplyTypes, ListenersFit
<1>4. CASE WaitOver /\ ReplyAt("page") /\ UNCHANGED <<socket, listeners>>
  <2>1. reply'.at = "page" /\ ReplyAt(reply'.at)
    BY <1>4, ReplyAtIs
  <2>2. reply' \in Reply /\ reply'.cursor = reply.cursor /\ reply'.upto = reply.upto
    BY <2>1, ReplyAtFields
  <2>3. ReplyFollows'
    BY <1>1, <2>1, <2>2, SamePage, ReplyFacts
  <2> QED
    BY <1>1, <1>4, <2>1, <2>2, <2>3 DEF ReplyInv, ReplyTypes, ListenersFit
<1> QED
  BY <1>2, <1>3, <1>4 DEF RowsDone, WaitOver

\* Every step keeps the invariant.
LEMMA ReplySteps ==
  ASSUME ReplyInv, [LiveNext]_liveVars
  PROVE  ReplyInv'
<1>1. CASE UNCHANGED liveVars
  BY <1>1 DEF liveVars, ReplyInv, ReplyTypes, ReplyFollows, Given, ListenersFit
<1> QED
  BY <1>1, OutsideKeepsInv, RequestKeepsInv, PageReadKeepsInv, RowWrittenKeepsInv, DrainKeepsInv,
     PageOverKeepsInv DEF LiveNext, LoopStep

------------------------------------------------------------------------------
(***************************************************************************)
(* JsonlPeer                                                               *)
(***************************************************************************)

\* A call is in the table while its future is open, or was cancelled and its task has not
\* had its turn; only a caller waits for its future itself; and the child answers what it
\* was sent.
CallFits(r) ==
  /\ waiter[r] = "pending" <=> r \in pending /\ waiter[r] # "cancelled"
  /\ r \in pending => Peer!Waiting(r) \/ asked[r] = "cancelled"
  /\ Peer!Waiting(r) => waiter[r] \in {"pending", "answered", "exited"}
  /\ asked[r] = "wait" \/ (r \in pending /\ waiter[r] = "cancelled") => r # Peer!Shutdown
  /\ asked[r] \in {"idle", "lock"} => frame[r] = "none"
  /\ r \in answers => frame[r] = "answered"

CallTypes ==
  /\ asked \in [Peer!Request -> {"idle", "lock", "drain", "wait", "timed", "cancelled"}
                                \cup Peer!Over]
  /\ waiter \in [Peer!Request -> {"none", "pending", "answered", "exited", "cancelled"}]
  /\ frame \in [Peer!Request -> {"none", "buffered", "received", "answered"}]
  /\ pending \subseteq Peer!Request

OtherTypes ==
  /\ answers \subseteq Peer!Request \cup {Peer!Handler}
  /\ writer \in Peer!Request \cup {Peer!Handler, Peer!Nobody}
  /\ stdin \in {"empty", "some", "full", "lost"}
  /\ closing \in BOOLEAN /\ descendants \in BOOLEAN /\ stdout \in BOOLEAN
  /\ handler \in {"none", "busy", "lock", "drain"}
  /\ child \in {"alive", "exited"} /\ listener \in {"reading", "eof", "exit", "done", "dead"}
  /\ close \in {"none", "shutdown", "stdin", "grace", "term", "group", "gather", "closed"}

\* A reader that is past the end of file finds nothing more in the pipe, and one that is
\* done has seen the process group gone and stdin broken, so that nobody can be written to.
ReaderFollows ==
  /\ listener \in {"eof", "exit", "done"} => answers = {} /\ (child = "exited" \/ ~ stdout)
  /\ listener = "done" => Peer!Gone /\ stdin = "lost"
  /\ close = "closed" => listener = "done" \/ (listener = "dead" /\ Peer!Gone)
  /\ close = "none" => asked[Peer!Shutdown] = "idle"

PeerInv ==
  /\ CallTypes /\ OtherTypes /\ (\A r \in Peer!Request : CallFits(r))
  /\ Peer!ReaderLeavesNobody /\ ReaderFollows

\* The invariant is what the properties need.
LEMMA PeerInvIsEnough ==
  ASSUME PeerInv
  PROVE  /\ Peer!PeerTypeOK /\ Peer!PendingIsAwaited
         /\ Peer!ReaderLeavesNobody /\ Peer!ClosedIsClean
<1>1. Peer!PeerTypeOK
  BY DEF PeerInv, CallTypes, OtherTypes, Peer!PeerTypeOK
<1>2. Peer!PendingIsAwaited
  BY DEF PeerInv, CallTypes, CallFits, Peer!PendingIsAwaited
<1>3. Peer!ClosedIsClean
  BY DEF PeerInv, ReaderFollows, Peer!ReaderLeavesNobody, Peer!ClosedIsClean
<1> QED
  BY <1>1, <1>2, <1>3 DEF PeerInv

\* A peer starts with nobody to answer and its reader reading.
LEMMA PeerStarts == Peer!PeerInit => PeerInv
<1> SUFFICES ASSUME Peer!PeerInit PROVE PeerInv
  OBVIOUS
<1>1. CallTypes /\ OtherTypes
  BY DEF Peer!PeerInit, CallTypes, OtherTypes, Peer!Nobody, Peer!Over
<1>2. \A r \in Peer!Request : CallFits(r)
  BY DEF Peer!PeerInit, CallFits, Peer!Waiting, Peer!Waits
<1>3. Peer!ReaderLeavesNobody /\ ReaderFollows
  BY DEF Peer!PeerInit, Peer!ReaderLeavesNobody, ReaderFollows, Peer!Request
<1> QED
  BY <1>1, <1>2, <1>3 DEF PeerInv

\* The calls other than r are as they were.
OthersStay(r) ==
  \A q \in Peer!Request : q # r =>
    /\ asked'[q] = asked[q] /\ waiter'[q] = waiter[q] /\ frame'[q] = frame[q]
    /\ q \in pending' <=> q \in pending
    /\ q \in answers' <=> q \in answers

\* Then only r need be looked at.
LEMMA OneCallFits ==
  ASSUME PeerInv, NEW r \in Peer!Request, OthersStay(r), CallFits(r)'
  PROVE  \A q \in Peer!Request : CallFits(q)'
<1> SUFFICES ASSUME NEW q \in Peer!Request, q # r PROVE CallFits(q)'
  OBVIOUS
<1>1. CallFits(q)
  BY DEF PeerInv
<1>2. /\ asked'[q] = asked[q] /\ waiter'[q] = waiter[q] /\ frame'[q] = frame[q]
      /\ q \in pending' <=> q \in pending
      /\ q \in answers' <=> q \in answers
  BY DEF OthersStay
<1> QED
  BY <1>1, <1>2 DEF CallFits, Peer!Waiting, Peer!Waits

\* A call goes to another place, or ends, with what becomes of its future, whether it is in
\* the table and, when it is written, of its frame.
Moves(r, at, future, listed) ==
  /\ asked' = [asked EXCEPT ![r] = at] /\ waiter' = [waiter EXCEPT ![r] = future]
  /\ pending' = IF listed THEN pending \cup {r} ELSE pending \ {r}
  /\ UNCHANGED <<answers, listener>>
  /\ \/ frame' = frame
     \/ /\ asked[r] = "lock" /\ at # "lock"
        /\ \E status \in {"none", "buffered", "received"} : frame' = [frame EXCEPT ![r] = status]
  /\ future = "pending" => listed
  /\ listed => at \in {"lock", "drain", "wait", "timed", "cancelled"}
  /\ listed => future \in {"pending", "cancelled"}
  /\ at \in {"lock", "drain", "wait", "timed"} => future # "cancelled"
  /\ at = "wait" \/ (listed /\ future = "cancelled") => r \in PeerCaller
  /\ at = "lock" => asked[r] = "idle" /\ frame' = frame
  /\ at \in {"wait", "timed"} => stdin # "lost"
  /\ \/ asked[r] \notin {"cancelled", "failed"}
     \/ asked[r] = "cancelled" /\ at = "failed" /\ ~ listed /\ frame' = frame

\* That leaves the calls as they should be.
LEMMA MovesKeepCalls ==
  ASSUME PeerInv, NEW r \in Peer!Request, NEW listed \in BOOLEAN,
         NEW at \in {"lock", "drain", "wait", "timed", "cancelled",
                     "answered", "failed", "exited"},
         NEW future \in {"pending", "answered", "exited", "cancelled"},
         Moves(r, at, future, listed)
  PROVE  /\ CallTypes' /\ (\A q \in Peer!Request : CallFits(q)') /\ Peer!ReaderLeavesNobody'
         /\ \A q \in Peer!Request : q # r => asked'[q] = asked[q]
<1>1. /\ asked \in [Peer!Request -> {"idle", "lock", "drain", "wait", "timed", "cancelled",
                                     "answered", "failed", "exited"}]
      /\ waiter \in [Peer!Request -> {"none", "pending", "answered", "exited", "cancelled"}]
      /\ frame \in [Peer!Request -> {"none", "buffered", "received", "answered"}]
      /\ pending \subseteq Peer!Request
  BY DEF PeerInv, CallTypes, Peer!Over
<1>2. /\ asked'[r] = at /\ asked' \in [Peer!Request -> {"idle", "lock", "drain", "wait", "timed",
                                        "cancelled", "answered", "failed", "exited"}]
      /\ waiter'[r] = future
      /\ waiter' \in [Peer!Request -> {"none", "pending", "answered", "exited", "cancelled"}]
      /\ r \in pending' <=> listed
      /\ pending' \subseteq Peer!Request
  BY <1>1 DEF Moves
<1>3. frame' \in [Peer!Request -> {"none", "buffered", "received", "answered"}]
  BY <1>1 DEF Moves
<1>4. \A q \in Peer!Request : q # r => /\ asked'[q] = asked[q] /\ waiter'[q] = waiter[q]
                                       /\ q \in pending' <=> q \in pending
  BY <1>1 DEF Moves
<1>5. \A q \in Peer!Request : q # r => frame'[q] = frame[q]
  BY <1>1 DEF Moves
<1>6. OthersStay(r) /\ answers' = answers /\ listener' = listener
  BY <1>4, <1>5 DEF OthersStay, Moves
<1>7. CallFits(r)
  BY DEF PeerInv
<1>8. /\ asked'[r] \in {"idle", "lock"} => frame'[r] = "none"
      /\ r \in answers' => frame'[r] = "answered"
  BY <1>1, <1>2, <1>7 DEF CallFits, Moves
<1>9. CallFits(r)'
  <2>1. /\ waiter'[r] = "pending" <=> r \in pending' /\ waiter'[r] # "cancelled"
        /\ r \in pending' => Peer!Waiting(r)' \/ asked'[r] = "cancelled"
        /\ Peer!Waiting(r)' => waiter'[r] \in {"pending", "answered", "exited"}
    BY <1>2 DEF Moves, Peer!Waiting, Peer!Waits
  <2>2. asked'[r] = "wait" \/ (r \in pending' /\ waiter'[r] = "cancelled") => r # Peer!Shutdown
    BY <1>2, PeerNames DEF Moves, Peer!Shutdown
  <2> QED
    BY <1>8, <2>1, <2>2 DEF CallFits
<1>10. Peer!ReaderLeavesNobody'
  <2>1. ASSUME listener' = "done" PROVE \A q \in pending' : ~ Peer!Waits(q)'
    <3>1. /\ \A q \in pending : ~ Peer!Waits(q)
          /\ stdin = "lost"
      BY <1>6, <2>1 DEF PeerInv, ReaderFollows, Peer!ReaderLeavesNobody
    <3>2. ~ Peer!Waits(r)'
      BY <1>2, <3>1 DEF Moves, Peer!Waits
    <3> QED
      BY <1>2, <1>4, <3>1, <3>2 DEF Peer!Waits
  <2>2. ASSUME listener' = "dead"
        PROVE  \E q \in PeerCaller : /\ frame'[q] = "answered" /\ q \notin answers' \cup pending'
                                     /\ asked'[q] \in {"cancelled", "failed"}
    <3>1. PICK q \in PeerCaller : /\ frame[q] = "answered" /\ q \notin answers \cup pending
                                  /\ asked[q] \in {"cancelled", "failed"}
      BY <1>6, <2>2 DEF PeerInv, Peer!ReaderLeavesNobody
    <3>2. q \in Peer!Request
      BY DEF Peer!Request
    <3>3. CASE q # r
      BY <1>4, <1>5, <1>6, <3>1, <3>2, <3>3
    <3>4. CASE q = r
      <4>1. at = "failed" /\ ~ listed /\ frame' = frame
        BY <3>1, <3>4 DEF Moves
      <4> QED
        BY <1>2, <1>6, <3>1, <3>4, <4>1
    <3> QED
      BY <3>3, <3>4
  <2> QED
    BY <2>1, <2>2 DEF Peer!ReaderLeavesNobody
<1>11. CallTypes'
  BY <1>2, <1>3 DEF CallTypes, Peer!Over
<1> QED
  BY <1>4, <1>6, <1>9, <1>10, <1>11, OneCallFits

\* What MovesKeepCalls shows of the calls, without the places.
CallMoves(r) ==
  \E at \in {"lock", "drain", "wait", "timed", "cancelled", "answered", "failed", "exited"},
     future \in {"pending", "answered", "exited", "cancelled"}, listed \in BOOLEAN :
       Moves(r, at, future, listed)

\* A call that ends leaves the table.
LEMMA EndsMoves ==
  ASSUME PeerInv, NEW r \in Peer!Request, NEW how \in Peer!Over, Peer!Ends(r, how),
         UNCHANGED <<answers, listener, frame>>,
         asked[r] \notin {"cancelled", "failed"} \/ (asked[r] = "cancelled" /\ how = "failed")
  PROVE  CallMoves(r)
<1> DEFINE future == IF waiter[r] \in {"answered", "exited"} THEN waiter[r] ELSE "cancelled"
<1>1. future \in {"answered", "exited", "cancelled"}
  OBVIOUS
<1>2. how \in {"answered", "failed", "exited"}
  BY DEF Peer!Over
<1>3. /\ asked' = [asked EXCEPT ![r] = how] /\ pending' = pending \ {r}
      /\ waiter' = [waiter EXCEPT ![r] = future]
  BY DEF Peer!Ends
<1> HIDE DEF future
<1>4. Moves(r, how, future, FALSE)
  BY <1>1, <1>2, <1>3 DEF Moves
<1> QED
  BY <1>1, <1>2, <1>4 DEF CallMoves

\* A call that goes from one place to the next keeps waiting for the same answer.
LEMMA NextPlaceMoves ==
  ASSUME PeerInv, NEW r \in Peer!Request, Peer!Waiting(r),
         NEW at \in {"drain", "wait", "timed", "cancelled"},
         asked' = [asked EXCEPT ![r] = at], UNCHANGED <<waiter, pending, answers, listener>>,
         \/ frame' = frame
         \/ /\ asked[r] = "lock"
            /\ \E status \in {"none", "buffered", "received"} : frame' = [frame EXCEPT ![r] = status],
         at = "wait" => r \in PeerCaller,
         at \in {"wait", "timed"} => stdin # "lost"
  PROVE  CallMoves(r)
<1>1. CallFits(r)
  BY DEF PeerInv
<1>2. /\ waiter[r] \in {"pending", "answered", "exited"}
      /\ waiter[r] = "pending" <=> r \in pending
      /\ asked[r] \notin {"cancelled", "failed", "idle"}
  BY <1>1 DEF CallFits, Peer!Waiting, Peer!Waits
<1>3. /\ waiter' = [waiter EXCEPT ![r] = waiter[r]]
      /\ pending' = IF r \in pending THEN pending \cup {r} ELSE pending \ {r}
  BY DEF PeerInv, CallTypes
<1> DEFINE listed == r \in pending
<1>4. listed \in BOOLEAN
  OBVIOUS
<1>5. Moves(r, at, waiter[r], listed)
  BY <1>2, <1>3 DEF Moves
<1> HIDE DEF listed
<1> QED
  BY <1>2, <1>4, <1>5 DEF CallMoves

\* A call is registered before it is written, or refused.
LEMMA RegisteredMoves ==
  ASSUME PeerInv, NEW r \in Peer!Request, asked[r] = "idle", Peer!Registered(r),
         UNCHANGED <<answers, listener, frame>>
  PROVE  CallMoves(r)
<1>1. CASE stdin = "lost" \/ closing
  <2>1. Peer!Ends(r, "exited") /\ "exited" \in Peer!Over
    BY <1>1 DEF Peer!Registered, Peer!Over
  <2> QED
    BY <2>1, EndsMoves
<1>2. CASE ~ (stdin = "lost" \/ closing)
  <2>1. /\ asked' = [asked EXCEPT ![r] = "lock"] /\ waiter' = [waiter EXCEPT ![r] = "pending"]
        /\ pending' = pending \cup {r}
    BY <1>2 DEF Peer!Registered
  <2>2. Moves(r, "lock", "pending", TRUE)
    BY <2>1 DEF Moves
  <2> QED
    BY <2>2 DEF CallMoves
<1> QED
  BY <1>1, <1>2

\* The caller is cancelled, and with it the future if it waits for nothing else.
LEMMA CancelledMoves ==
  ASSUME PeerInv, NEW r \in PeerCaller, Peer!Cancelled(r)
  PROVE  CallMoves(r)
<1>1. /\ r \in Peer!Request /\ Peer!Waiting(r)
      /\ asked' = [asked EXCEPT ![r] = "cancelled"]
      /\ UNCHANGED <<pending, frame, answers, listener>>
  BY DEF Peer!Cancelled, Peer!pipeVars, Peer!Request
<1>2. CASE asked[r] = "wait" /\ waiter[r] = "pending"
  <2>1. CallFits(r)
    BY <1>1 DEF PeerInv
  <2>2. r \in pending
    BY <1>2, <2>1 DEF CallFits
  <2>3. waiter' = [waiter EXCEPT ![r] = "cancelled"]
    BY <1>2 DEF Peer!Cancelled
  <2>4. Moves(r, "cancelled", "cancelled", TRUE)
    BY <1>1, <1>2, <2>2, <2>3 DEF Moves
  <2> QED
    BY <2>4 DEF CallMoves
<1>3. CASE ~ (asked[r] = "wait" /\ waiter[r] = "pending")
  <2>1. waiter' = waiter
    BY <1>1, <1>3 DEF Peer!Cancelled, PeerInv, CallTypes
  <2> QED
    BY <1>1, <2>1, NextPlaceMoves
<1> QED
  BY <1>2, <1>3

\* Every step of a call moves it.
LEMMA CallStepMoves ==
  ASSUME PeerInv, NEW r \in Peer!Request,
         \/ Peer!RequestStep(r) \/ Peer!TimesOut(r)
         \/ r \in PeerCaller /\ (Peer!Ask(r) \/ Peer!Cancelled(r))
  PROVE  CallMoves(r)
<1>1. UNCHANGED <<answers, listener>>
  BY DEF Peer!RequestStep, Peer!Writes, Peer!Drained, Peer!Returns, Peer!Unwinds,
         Peer!TimesOut, Peer!Cancelled, Peer!Ask
<1>2. CASE r \in PeerCaller /\ Peer!Ask(r)
  BY <1>1, <1>2, RegisteredMoves DEF Peer!Ask, Peer!pipeVars
<1>3. CASE r \in PeerCaller /\ Peer!Cancelled(r)
  BY <1>3, CancelledMoves
<1>4. CASE Peer!Returns(r)
  <2>1. /\ waiter[r] \in Peer!Over /\ Peer!Ends(r, waiter[r]) /\ UNCHANGED frame
        /\ asked[r] \notin {"cancelled", "failed"}
    BY <1>4 DEF Peer!Returns, Peer!Over, Peer!Waits, Peer!pipeVars
  <2> QED
    BY <1>1, <2>1, EndsMoves
<1>5. CASE Peer!Unwinds(r)
  <2>1. "failed" \in Peer!Over /\ Peer!Ends(r, "failed") /\ UNCHANGED frame /\ asked[r] = "cancelled"
    BY <1>5 DEF Peer!Unwinds, Peer!Over
  <2> QED
    BY <1>1, <2>1, EndsMoves
<1>6. CASE Peer!TimesOut(r)
  <2>1. /\ Peer!Waiting(r) /\ UNCHANGED <<waiter, pending, frame>>
        /\ asked' = [asked EXCEPT ![r] = "cancelled"]
    BY <1>6 DEF Peer!TimesOut, Peer!Waiting, Peer!Waits, Peer!pipeVars
  <2> QED
    BY <1>1, <2>1, NextPlaceMoves
<1>7. CASE (Peer!Writes(r) /\ Peer!Lost) \/ (Peer!Drained(r) /\ stdin = "lost")
  <2>1. /\ "exited" \in Peer!Over /\ Peer!Ends(r, "exited") /\ UNCHANGED frame
        /\ asked[r] \notin {"cancelled", "failed"}
    BY <1>7 DEF Peer!Writes, Peer!Drained, Peer!Over, Peer!pipeVars
  <2> QED
    BY <1>1, <2>1, EndsMoves
<1>8. \A place \in Peer!Place(r) : place \in {"wait", "timed"} /\ (place = "wait" => r \in PeerCaller)
  BY DEF Peer!Place, Peer!Request
<1>9. CASE Peer!Writes(r) /\ ~ Peer!Lost
  <2>1. /\ Peer!Waiting(r) /\ asked[r] = "lock" /\ stdin # "lost" /\ UNCHANGED <<waiter, pending>>
    BY <1>9 DEF Peer!Writes, Peer!Lost, Peer!Waiting
  <2>2. PICK level \in Peer!Buffered(r), place \in Peer!Place(r) :
          /\ frame' = [frame EXCEPT ![r] = Peer!Sent(level)]
          /\ asked' = [asked EXCEPT ![r] = IF level = "full" THEN "drain" ELSE place]
    BY <1>9 DEF Peer!Writes
  <2>3. Peer!Sent(level) \in {"none", "buffered", "received"}
    BY DEF Peer!Sent
  <2>4. CASE level = "full"
    <3>1. asked' = [asked EXCEPT ![r] = "drain"]
      BY <2>2, <2>4
    <3> QED
      BY <1>1, <2>1, <2>2, <2>3, <3>1, NextPlaceMoves
  <2>5. CASE level # "full"
    <3>1. asked' = [asked EXCEPT ![r] = place]
      BY <2>2, <2>5
    <3> QED
      BY <1>1, <1>8, <2>1, <2>2, <2>3, <3>1, NextPlaceMoves
  <2> QED
    BY <2>4, <2>5
<1>10. CASE Peer!Drained(r) /\ stdin # "lost"
  <2>1. /\ Peer!Waiting(r) /\ UNCHANGED <<waiter, pending, frame>>
    BY <1>10 DEF Peer!Drained, Peer!Waiting
  <2>2. PICK place \in Peer!Place(r) : asked' = [asked EXCEPT ![r] = place]
    BY <1>10 DEF Peer!Drained
  <2> QED
    BY <1>1, <1>8, <1>10, <2>1, <2>2, NextPlaceMoves
<1> QED
  BY <1>2, <1>3, <1>4, <1>5, <1>6, <1>7, <1>9, <1>10 DEF Peer!RequestStep

\* A write leaves a buffer that is open at one of its levels.
LEMMA BufferedIsLevel ==
  ASSUME PeerInv, stdin # "lost", NEW sender
  PROVE  Peer!Buffered(sender) \subseteq {"empty", "some", "full"}
BY DEF PeerInv, OtherTypes, Peer!Buffered

\* request, from the first look at stdin to the turn in which it ends.
LEMMA CallKeepsInv ==
  ASSUME PeerInv, NEW r \in Peer!Request,
         \/ Peer!RequestStep(r) \/ Peer!TimesOut(r)
         \/ r \in PeerCaller /\ (Peer!Ask(r) \/ Peer!Cancelled(r))
  PROVE  PeerInv'
<1>1. /\ UNCHANGED <<child, descendants, stdout, closing, handler, answers, listener, close>>
      /\ stdin = "lost" => stdin' = "lost"
  BY DEF Peer!RequestStep, Peer!Writes, Peer!Drained, Peer!Returns, Peer!Unwinds, Peer!TimesOut,
         Peer!Cancelled, Peer!Ask, Peer!pipeVars, Peer!childVars, Peer!Lost
<1>2. /\ writer' \in Peer!Request \cup {Peer!Handler, Peer!Nobody}
      /\ stdin' = stdin \/ (stdin # "lost" /\ stdin' \in Peer!Buffered(r))
  BY DEF PeerInv, OtherTypes, Peer!RequestStep, Peer!Writes, Peer!Drained, Peer!Returns, Peer!Lost,
         Peer!Unwinds, Peer!TimesOut, Peer!Cancelled, Peer!Ask, Peer!pipeVars
<1>3. PICK at \in {"lock", "drain", "wait", "timed", "cancelled", "answered", "failed", "exited"},
           future \in {"pending", "answered", "exited", "cancelled"}, listed \in BOOLEAN :
             Moves(r, at, future, listed)
  BY CallStepMoves DEF CallMoves
<1>4. /\ CallTypes' /\ (\A q \in Peer!Request : CallFits(q)') /\ Peer!ReaderLeavesNobody'
      /\ \A q \in Peer!Request : q # r => asked'[q] = asked[q]
  BY <1>3, MovesKeepCalls
<1>5. OtherTypes'
  BY <1>1, <1>2, BufferedIsLevel DEF PeerInv, OtherTypes
<1>6. close = "none" => asked'[Peer!Shutdown] = "idle"
  <2>1. asked[r] = "idle" => r \in PeerCaller
    BY DEF Peer!RequestStep, Peer!Writes, Peer!Drained, Peer!Returns, Peer!Unwinds,
           Peer!TimesOut, Peer!Waits
  <2>2. close = "none" => r # Peer!Shutdown
    BY <2>1, PeerNames DEF PeerInv, ReaderFollows, Peer!Shutdown
  <2>3. Peer!Shutdown \in Peer!Request
    BY DEF Peer!Request
  <2> QED
    BY <1>4, <2>2, <2>3 DEF PeerInv, ReaderFollows
<1>7. ReaderFollows'
  BY <1>1, <1>6 DEF PeerInv, ReaderFollows, Peer!Gone
<1> QED
  BY <1>4, <1>5, <1>7 DEF PeerInv

\* It stays, for the steps that change nothing about the calls.
LEMMA CallsStay ==
  ASSUME PeerInv, UNCHANGED <<asked, waiter, pending, frame, answers, listener>>
  PROVE  CallTypes' /\ (\A q \in Peer!Request : CallFits(q)') /\ Peer!ReaderLeavesNobody'
<1>1. CallTypes'
  BY DEF PeerInv, CallTypes
<1>2. \A q \in Peer!Request : CallFits(q)'
  BY DEF PeerInv, CallFits, Peer!Waiting, Peer!Waits
<1>3. Peer!ReaderLeavesNobody'
  BY DEF PeerInv, Peer!ReaderLeavesNobody, Peer!Waits
<1> QED
  BY <1>1, <1>2, <1>3

\* An answer is given to the call that waits for it; if that was cancelled, the reader dies.
LEMMA ReadsAnswerKeepsInv ==
  ASSUME PeerInv, NEW r \in Peer!Request, Peer!ReadsAnswer(r)
  PROVE  PeerInv'
<1>1. /\ UNCHANGED <<asked, frame, writer, stdin, child, descendants, stdout, closing, handler, close>>
      /\ r \in answers /\ answers' = answers \ {r} /\ pending' = pending \ {r}
      /\ listener = "reading"
  BY DEF Peer!ReadsAnswer, Peer!pipeVars, Peer!childVars
<1>2. listener' \in {"reading", "dead"}
  BY <1>1 DEF Peer!ReadsAnswer
<1>3. /\ asked \in [Peer!Request -> {"idle", "lock", "drain", "wait", "timed", "cancelled",
                                     "answered", "failed", "exited"}]
      /\ waiter \in [Peer!Request -> {"none", "pending", "answered", "exited", "cancelled"}]
      /\ frame \in [Peer!Request -> {"none", "buffered", "received", "answered"}]
      /\ pending \subseteq Peer!Request
  BY DEF PeerInv, CallTypes, Peer!Over
<1>4. waiter' = waiter \/ waiter' = [waiter EXCEPT ![r] = "answered"]
  BY DEF Peer!ReadsAnswer
<1>5. /\ waiter' \in [Peer!Request -> {"none", "pending", "answered", "exited", "cancelled"}]
      /\ \A q \in Peer!Request : q # r => waiter'[q] = waiter[q]
  BY <1>3, <1>4
<1>6. CallTypes'
  BY <1>1, <1>3, <1>5 DEF CallTypes, Peer!Over
<1>7. OtherTypes'
  BY <1>1, <1>2 DEF PeerInv, OtherTypes
<1>8. OthersStay(r)
  BY <1>1, <1>5 DEF OthersStay
<1>9. CallFits(r)
  BY DEF PeerInv
<1>10. CallFits(r)'
  <2>1. waiter'[r] = IF r \in pending /\ waiter[r] # "cancelled" THEN "answered" ELSE waiter[r]
    BY <1>3 DEF Peer!ReadsAnswer
  <2>2. waiter'[r] # "pending" /\ r \notin pending' /\ r \notin answers'
    BY <1>1, <1>9, <2>1 DEF CallFits
  <2>3. Peer!Waiting(r)' => waiter'[r] \in {"pending", "answered", "exited"}
    BY <1>1, <1>9, <2>1 DEF CallFits, Peer!Waiting, Peer!Waits
  <2> QED
    BY <1>1, <1>9, <2>2, <2>3 DEF CallFits
<1>11. Peer!ReaderLeavesNobody'
  <2>1. ASSUME listener' = "dead"
        PROVE  /\ r \in PeerCaller /\ frame'[r] = "answered" /\ r \notin answers' \cup pending'
               /\ asked'[r] \in {"cancelled", "failed"}
    <3>1. r \in pending /\ waiter[r] = "cancelled"
      BY <1>1, <2>1 DEF Peer!ReadsAnswer
    <3>2. r # Peer!Shutdown /\ asked[r] = "cancelled" /\ frame[r] = "answered"
      BY <1>1, <1>9, <3>1 DEF CallFits
    <3> QED
      BY <1>1, <3>2 DEF Peer!Request
  <2> QED
    BY <1>2, <2>1 DEF Peer!ReaderLeavesNobody
<1>12. ReaderFollows'
  BY <1>1, <1>2 DEF PeerInv, ReaderFollows, Peer!Gone
<1> QED
  BY <1>6, <1>7, <1>8, <1>10, <1>11, <1>12, OneCallFits DEF PeerInv

\* The calls whose future is open are rejected, and nobody is in the table any more.
LEMMA RejectionKeepsCalls ==
  ASSUME PeerInv, Peer!RejectPending, UNCHANGED <<asked, frame, answers>>
  PROVE  CallTypes' /\ (\A q \in Peer!Request : CallFits(q)') /\ pending' = {}
<1>1. /\ pending' = {} /\ waiter \in [Peer!Request -> {"none", "pending", "answered", "exited", "cancelled"}]
      /\ waiter' = [q \in Peer!Request |->
                      IF q \in pending /\ waiter[q] = "pending" THEN "exited" ELSE waiter[q]]
  BY DEF PeerInv, CallTypes, Peer!RejectPending
<1>2. waiter' \in [Peer!Request -> {"none", "pending", "answered", "exited", "cancelled"}]
  BY <1>1
<1>3. CallTypes'
  BY <1>1, <1>2 DEF PeerInv, CallTypes
<1>4. ASSUME NEW q \in Peer!Request PROVE CallFits(q)'
  <2>1. CallFits(q) /\ waiter'[q] = IF q \in pending /\ waiter[q] = "pending" THEN "exited" ELSE waiter[q]
    BY <1>1 DEF PeerInv
  <2> QED
    BY <1>1, <2>1 DEF CallFits, Peer!Waiting, Peer!Waits
<1> QED
  BY <1>1, <1>3, <1>4

\* The reader gives answers to whoever waits for them, and rejects the rest at its end.
LEMMA ReaderKeepsInv ==
  ASSUME PeerInv, Peer!ReaderStep
  PROVE  PeerInv'
<1>1. CASE \E r \in Peer!Request : Peer!ReadsAnswer(r)
  BY <1>1, ReadsAnswerKeepsInv
<1>2. CASE Peer!ReadsRequest
  <2>1. /\ UNCHANGED <<asked, waiter, pending, frame, writer, stdin, child, descendants, stdout,
                       closing, listener, close>>
        /\ listener = "reading" /\ answers' = answers \ {Peer!Handler} /\ handler' = "busy"
    BY <1>2 DEF Peer!ReadsRequest, Peer!pipeVars, Peer!childVars, Peer!callVars
  <2>2. \A q \in Peer!Request : q \in answers' => q \in answers
    BY <2>1
  <2>3. CallTypes' /\ (\A q \in Peer!Request : CallFits(q)')
    BY <2>1, <2>2 DEF PeerInv, CallTypes, CallFits, Peer!Waiting, Peer!Waits
  <2>4. OtherTypes' /\ ReaderFollows' /\ Peer!ReaderLeavesNobody'
    BY <2>1 DEF PeerInv, OtherTypes, ReaderFollows, Peer!Gone, Peer!ReaderLeavesNobody
  <2> QED
    BY <2>3, <2>4 DEF PeerInv
<1>3. CASE Peer!SeesEof
  <2>1. /\ UNCHANGED <<asked, waiter, pending, frame, writer, stdin, child, descendants, stdout,
                       closing, handler, answers, close>>
        /\ listener = "reading" /\ listener' = "eof" /\ answers = {}
        /\ child = "exited" \/ ~ stdout
    BY <1>3 DEF Peer!SeesEof, Peer!Eof, Peer!pipeVars, Peer!childVars, Peer!callVars
  <2>2. CallTypes' /\ (\A q \in Peer!Request : CallFits(q)')
    BY <2>1 DEF PeerInv, CallTypes, CallFits, Peer!Waiting, Peer!Waits
  <2>3. OtherTypes' /\ ReaderFollows' /\ Peer!ReaderLeavesNobody'
    BY <2>1 DEF PeerInv, OtherTypes, ReaderFollows, Peer!Gone, Peer!ReaderLeavesNobody
  <2> QED
    BY <2>2, <2>3 DEF PeerInv
<1>4. CASE Peer!RejectsAtEof \/ Peer!RejectsAtExit
  <2>1. /\ UNCHANGED <<asked, frame, writer, stdin, child, descendants, stdout,
                       closing, handler, answers, close>>
        /\ listener \in {"eof", "exit"} /\ listener' \in {"exit", "done"} /\ Peer!RejectPending
        /\ listener' = "done" => Peer!Gone /\ stdin = "lost"
    BY <1>4 DEF Peer!RejectsAtEof, Peer!RejectsAtExit, Peer!RejectPending, Peer!pipeVars,
                Peer!childVars
  <2>2. CallTypes' /\ (\A q \in Peer!Request : CallFits(q)') /\ pending' = {}
    BY <2>1, RejectionKeepsCalls
  <2>3. OtherTypes' /\ ReaderFollows' /\ Peer!ReaderLeavesNobody'
    BY <2>1, <2>2 DEF PeerInv, OtherTypes, ReaderFollows, Peer!Gone, Peer!ReaderLeavesNobody
  <2> QED
    BY <2>2, <2>3 DEF PeerInv
<1> QED
  BY <1>1, <1>2, <1>3, <1>4 DEF Peer!ReaderStep

\* The handler and the transport do nothing to the calls.
LEMMA HandlerKeepsInv ==
  ASSUME PeerInv, Peer!HandlerAnswers \/ Peer!HandlerStep \/ Peer!StdinBreaks
  PROVE  PeerInv'
<1>1. UNCHANGED <<asked, waiter, pending, frame, listener, closing, close, child, descendants,
                  stdout, answers>>
  BY DEF Peer!HandlerAnswers, Peer!HandlerStep, Peer!HandlerWrites, Peer!HandlerDrained,
         Peer!StdinBreaks, Peer!callVars, Peer!childVars, Peer!pipeVars
<1>2. /\ writer' \in Peer!Request \cup {Peer!Handler, Peer!Nobody}
      /\ handler' \in {"none", "busy", "lock", "drain"}
      /\ stdin = "lost" => stdin' = "lost"
      /\ stdin' \in {stdin, "lost"} \/ (stdin # "lost" /\ stdin' \in Peer!Buffered(Peer!Handler))
  BY DEF PeerInv, OtherTypes, Peer!HandlerAnswers, Peer!HandlerStep, Peer!HandlerWrites,
         Peer!HandlerDrained, Peer!StdinBreaks, Peer!pipeVars, Peer!Lost
<1>3. OtherTypes'
  BY <1>1, <1>2, BufferedIsLevel DEF PeerInv, OtherTypes
<1>4. ReaderFollows'
  BY <1>1, <1>2 DEF PeerInv, ReaderFollows, Peer!Gone
<1> QED
  BY <1>1, <1>3, <1>4, CallsStay DEF PeerInv

\* A frame is read before it is answered, and only what was read is answered.
FramesMove ==
  /\ frame' \in [Peer!Request -> {"none", "buffered", "received", "answered"}]
  /\ \A q \in Peer!Request :
       /\ \/ frame'[q] = frame[q]
          \/ frame[q] = "buffered" /\ frame'[q] = "received"
          \/ frame[q] = "received" /\ frame'[q] = "answered"
       /\ q \in answers' => q \in answers \/ frame'[q] = "answered"
       /\ q \in answers' /\ q \notin answers => frame[q] = "received"

\* What the child does leaves the calls where they are.
LEMMA ChildKeepsInv ==
  ASSUME PeerInv, Peer!ChildStep
  PROVE  PeerInv'
<1>1. UNCHANGED <<asked, waiter, pending, listener, closing, close, writer, handler>>
  BY DEF Peer!ChildStep, Peer!ChildAnswers, Peer!ChildAsks, Peer!ChildReads, Peer!ChildForks,
         Peer!DescendantsExit, Peer!ChildClosesStdout, Peer!ChildExits, Peer!callVars, Peer!pipeVars
<1>2. /\ stdin' \in {"empty", "some", "full", "lost"}
      /\ answers' \subseteq Peer!Request \cup {Peer!Handler}
      /\ child' \in {"alive", "exited"} /\ descendants' \in BOOLEAN /\ stdout' \in BOOLEAN
  BY DEF PeerInv, OtherTypes, Peer!ChildStep, Peer!ChildAnswers, Peer!ChildAsks,
         Peer!ChildReads, Peer!ChildForks, Peer!DescendantsExit, Peer!ChildClosesStdout,
         Peer!ChildExits, Peer!pipeVars, Peer!childVars
<1>3. OtherTypes'
  BY <1>1, <1>2 DEF PeerInv, OtherTypes
<1>4. /\ child = "exited" => child' = "exited"
      /\ ~ stdout => ~ stdout'
      /\ Peer!Gone => Peer!Gone'
      /\ stdin = "lost" => stdin' = "lost"
      /\ child = "exited" \/ ~ stdout => answers' = answers
  BY DEF Peer!ChildStep, Peer!ChildAnswers, Peer!ChildAsks, Peer!ChildReads,
         Peer!ChildForks, Peer!DescendantsExit, Peer!ChildClosesStdout, Peer!ChildExits,
         Peer!childVars, Peer!pipeVars, Peer!Gone
<1>5. ReaderFollows'
  BY <1>1, <1>4 DEF PeerInv, ReaderFollows
<1>6. /\ frame \in [Peer!Request -> {"none", "buffered", "received", "answered"}]
      /\ Peer!Handler \notin Peer!Request
  BY PeerNames DEF PeerInv, CallTypes, Peer!Handler, Peer!Request, Peer!Shutdown
<1>7. FramesMove
  <2>1. ASSUME NEW r \in Peer!Request, Peer!ChildAnswers(r)
        PROVE  /\ frame' = [frame EXCEPT ![r] = "answered"] /\ frame[r] = "received"
               /\ answers' = answers \cup {r}
    BY <2>1 DEF Peer!ChildAnswers
  <2>2. CASE Peer!ChildReads
    BY <1>6, <2>2 DEF Peer!ChildReads, FramesMove
  <2>3. CASE Peer!ChildAsks
    BY <1>6, <2>3 DEF Peer!ChildAsks, Peer!pipeVars, FramesMove
  <2>4. CASE Peer!ChildForks \/ Peer!DescendantsExit \/ Peer!ChildClosesStdout \/ Peer!ChildExits
    BY <1>6, <2>4 DEF Peer!ChildForks, Peer!DescendantsExit, Peer!ChildClosesStdout,
                      Peer!ChildExits, Peer!pipeVars, FramesMove
  <2>5. ASSUME NEW r \in Peer!Request, Peer!ChildAnswers(r) PROVE FramesMove
    BY <1>6, <2>1, <2>5 DEF FramesMove
  <2> QED
    BY <2>2, <2>3, <2>4, <2>5 DEF Peer!ChildStep
<1>8. CallTypes'
  BY <1>1, <1>7 DEF PeerInv, CallTypes, FramesMove
<1>9. ASSUME NEW q \in Peer!Request PROVE CallFits(q)'
  <2>1. CallFits(q)
    BY DEF PeerInv
  <2> QED
    BY <1>1, <1>7, <2>1 DEF CallFits, Peer!Waiting, Peer!Waits, FramesMove
<1>10. Peer!ReaderLeavesNobody'
  <2>1. ASSUME NEW q \in PeerCaller, frame[q] = "answered", q \notin answers
        PROVE  frame'[q] = "answered" /\ q \notin answers'
    BY <1>7, <2>1 DEF Peer!Request, FramesMove
  <2> QED
    BY <1>1, <2>1 DEF PeerInv, Peer!ReaderLeavesNobody, Peer!Waits
<1> QED
  BY <1>3, <1>5, <1>8, <1>9, <1>10 DEF PeerInv

\* close reaps the child and waits for the reader before it returns.
LEMMA CloseKeepsInv ==
  ASSUME PeerInv, Peer!CloseStep
  PROVE  PeerInv'
<1>1. UNCHANGED <<asked, waiter, pending, listener, frame, stdout, answers>>
  BY DEF Peer!CloseStep, Peer!ShutdownAnswered, Peer!StdinWaited, Peer!Reaped, Peer!GraceOver,
         Peer!Killed, Peer!HandlersCancelled, Peer!CloseReturns, Peer!callVars, Peer!pipeVars,
         Peer!childVars
<1>2. /\ writer' \in Peer!Request \cup {Peer!Handler, Peer!Nobody}
      /\ stdin' \in {"empty", "some", "full", "lost"} /\ closing' \in BOOLEAN
      /\ handler' \in {"none", "busy", "lock", "drain"}
  BY DEF PeerInv, OtherTypes, Peer!CloseStep, Peer!ShutdownAnswered, Peer!StdinWaited,
         Peer!Reaped, Peer!GraceOver, Peer!Killed, Peer!HandlersCancelled, Peer!CloseReturns,
         Peer!pipeVars, Peer!StdinClosed
<1>3. /\ child' \in {"alive", "exited"} /\ descendants' \in BOOLEAN
      /\ close' \in {"shutdown", "stdin", "grace", "term", "group", "gather", "closed"}
  BY DEF PeerInv, OtherTypes, Peer!CloseStep, Peer!ShutdownAnswered, Peer!StdinWaited,
         Peer!Reaped, Peer!GraceOver, Peer!Killed, Peer!HandlersCancelled, Peer!CloseReturns,
         Peer!childVars, Peer!StdinClosed
<1>4. OtherTypes'
  BY <1>1, <1>2, <1>3 DEF PeerInv, OtherTypes
<1>5. /\ child = "exited" => child' = "exited"
      /\ Peer!Gone => Peer!Gone'
      /\ stdin = "lost" => stdin' = "lost"
      /\ close' = "closed" => listener = "done" \/ (listener = "dead" /\ Peer!Gone)
  BY DEF Peer!CloseStep, Peer!ShutdownAnswered, Peer!StdinWaited, Peer!Reaped, Peer!GraceOver,
         Peer!Killed, Peer!HandlersCancelled, Peer!CloseReturns, Peer!childVars, Peer!pipeVars,
         Peer!StdinClosed, Peer!Gone
<1>6. ReaderFollows'
  BY <1>1, <1>3, <1>5 DEF PeerInv, ReaderFollows
<1> QED
  BY <1>1, <1>4, <1>6, CallsStay DEF PeerInv

\* close begins: it asks the child to shut down, or closes stdin at once.
LEMMA CloseCallKeepsInv ==
  ASSUME PeerInv, Peer!CloseCall
  PROVE  PeerInv'
<1>1. UNCHANGED <<child, descendants, stdout, handler, answers, listener, frame, writer>>
  BY DEF Peer!CloseCall, Peer!childVars, Peer!pipeVars
<1>2. /\ stdin' \in {"empty", "some", "full", "lost"} /\ closing' \in BOOLEAN
      /\ stdin = "lost" => stdin' = "lost"
      /\ close' \in {"shutdown", "stdin"}
  BY DEF PeerInv, OtherTypes, Peer!CloseCall, Peer!StdinClosed, Peer!pipeVars
<1>3. OtherTypes'
  BY <1>1, <1>2 DEF PeerInv, OtherTypes
<1>4. ReaderFollows'
  BY <1>1, <1>2 DEF PeerInv, ReaderFollows, Peer!Gone
<1>5. CASE UNCHANGED <<asked, waiter, pending>>
  BY <1>1, <1>3, <1>4, <1>5, CallsStay DEF PeerInv
<1>6. CASE Peer!Registered(Peer!Shutdown)
  <2>1. Peer!Shutdown \in Peer!Request /\ asked[Peer!Shutdown] = "idle"
    BY DEF Peer!Request, Peer!CloseCall, PeerInv, ReaderFollows
  <2>2. CallMoves(Peer!Shutdown)
    BY <1>1, <1>6, <2>1, RegisteredMoves
  <2>3. CallTypes' /\ (\A q \in Peer!Request : CallFits(q)') /\ Peer!ReaderLeavesNobody'
    BY <2>1, <2>2, MovesKeepCalls DEF CallMoves
  <2> QED
    BY <1>3, <1>4, <2>3 DEF PeerInv
<1> QED
  BY <1>5, <1>6 DEF Peer!CloseCall, Peer!callVars

\* Every step keeps the invariant.
LEMMA PeerSteps ==
  ASSUME PeerInv, Peer!PeerNext \/ UNCHANGED peerVars
  PROVE  PeerInv'
<1>1. ASSUME NEW r \in Peer!Request, Peer!RequestStep(r) \/ Peer!TimesOut(r) PROVE PeerInv'
  BY <1>1, CallKeepsInv
<1>2. ASSUME NEW r \in PeerCaller, Peer!Ask(r) \/ Peer!Cancelled(r) PROVE PeerInv'
  <2>1. r \in Peer!Request
    BY <1>2 DEF Peer!Request
  <2> QED
    BY <1>2, <2>1, CallKeepsInv
<1>3. CASE UNCHANGED peerVars
  <2>1. /\ UNCHANGED <<asked, waiter, pending, frame, answers, listener>>
        /\ UNCHANGED <<writer, stdin, closing, handler, child, descendants, stdout, close>>
    BY <1>3 DEF peerVars
  <2>2. OtherTypes' /\ ReaderFollows'
    BY <2>1 DEF PeerInv, OtherTypes, ReaderFollows, Peer!Gone
  <2> QED
    BY <2>1, <2>2, CallsStay DEF PeerInv
<1> QED
  BY <1>1, <1>2, <1>3, ReaderKeepsInv, HandlerKeepsInv, ChildKeepsInv, CloseKeepsInv,
     CloseCallKeepsInv DEF Peer!PeerNext

------------------------------------------------------------------------------
(***************************************************************************)
(* Together                                                                *)
(***************************************************************************)

StreamsInv == StreamInv /\ AguiInv /\ ReplyInv /\ PeerInv

\* A step is one of one of them, and the others stand still.
LEMMA StreamsStep ==
  ASSUME StreamsInv, [MCNext]_<<which, vars, aguiVars, liveVars, peerVars>>
  PROVE  StreamsInv' /\ InOrder /\ Agui!InOrder
<1>1. /\ [Next]_vars
      /\ Agui!Next \/ UNCHANGED aguiVars
      /\ [LiveNext]_liveVars
      /\ Peer!PeerNext \/ UNCHANGED peerVars
  BY DEF MCNext
<1> QED
  BY <1>1, StreamSteps, AguiSteps, ReplySteps, PeerSteps DEF StreamsInv

\* Every way of answering a client keeps its invariant.
THEOREM StreamsInvariance == MCSpec => []StreamsInv
<1>1. MCInit => StreamsInv
  BY StreamStarts, AguiStarts, ReplyStarts, PeerStarts DEF MCInit, StreamsInv
<1>2. StreamsInv /\ [MCNext]_<<which, vars, aguiVars, liveVars, peerVars>> => StreamsInv'
  BY StreamsStep
<1> QED
  BY <1>1, <1>2, PTL DEF MCSpec

\* Whoever sleeps has what it could have been woken for, whenever events are committed,
\* notified, timed out and clients come and go; and a caller of the peer that waits has a
\* future that is registered or done, and is left behind only by a reader that died of the
\* answer to a call cancelled before.
THEOREM NobodySleepsThrough == MCSpec => []NoWakeUpIsLost
<1>1. StreamsInv => NoWakeUpIsLost
  <2>1. StreamsInv => TypeOK /\ Agui!TypeOK /\ Agui!ShortPageSleepsCaughtUp
    BY DEF StreamsInv, StreamInv, StreamTypes, AguiInv, PageFits, Agui!ShortPageSleepsCaughtUp
  <2> QED
    BY <2>1, StreamInvIsEnough, ReplyInvIsEnough, PeerInvIsEnough DEF StreamsInv, NoWakeUpIsLost
<1> QED
  BY <1>1, StreamsInvariance, PTL

\* What a client receives next is the row after its last, however often it comes back, and
\* the reply of POST /api/ag-ui is the ag-ui rows of its run, in order and each one once.
THEOREM EveryRowInOrder == MCSpec => ClientsGetEveryRow
<1>1. StreamsInv /\ [MCNext]_<<which, vars, aguiVars, liveVars, peerVars>> => InOrder /\ Agui!InOrder
  BY StreamsStep
<1>2. StreamsInv => LiveReplyIsExact
  BY ReplyInvIsEnough DEF StreamsInv
<1> QED
  BY <1>1, <1>2, StreamsInvariance, PTL DEF MCSpec, ClientsGetEveryRow

==============================================================================
