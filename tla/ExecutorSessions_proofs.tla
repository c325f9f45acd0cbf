------------------------ MODULE ExecutorSessions_proofs ------------------------
(***************************************************************************)
(* Theorems about ExecutorSessions, for every set of executors and every   *)
(* number of streams, faults and changes.                                  *)
(***************************************************************************)
EXTENDS ExecutorSessions, SequenceTheorems, TLAPS

----------------------------------------------------------------------------
(* The inductive invariant.                                                *)

\* What is on the way of a stream: its end is reported once, after it has ended,
\* and by an agent only.
MailKept ==
    \A c \in Streams :
        Open(c) \/ ~ByAgent(c) => stream[c].mail \in {<<>>, <<"hello">>}

\* What the agent is to pass on is lost with its link.
Linked ==
    \A c \in Streams : ByAgent(c) /\ stream[c].mail # <<>> => link # 0

\* A stream of its own whose hello is still to be read has no handler, and what
\* has a handler is an external executor's.  The connector's are of containers.
HandlersKept ==
    \A c \in Streams :
        /\ ~ByAgent(c) /\ stream[c].mail # <<>> => handler[c] = "idle"
        /\ handler[c] # "idle" =>
              stream[c].executor \in External /\ stream[c].mail \in {<<>>, <<"closed">>}
        /\ handler[c] = "serving" => ~ByAgent(c)
        /\ stream[c].way = "instance" => stream[c].executor \in Instances

\* An external executor has one open stream at a time.
OneStream ==
    \A c, d \in Streams :
        /\ Open(c) /\ Open(d) /\ stream[c].executor \in External
        /\ stream[c].executor = stream[d].executor
        => c = d

\* A direct session is of a stream of the executor that is being served, a session
\* through the agent of a stream whose hello was accepted.
SessionsKept ==
    /\ \A e \in External : direct[e] # 0 =>
          /\ direct[e] \in StreamsOf(e) /\ ~ByAgent(direct[e])
          /\ handler[direct[e]] = "serving"
    /\ \A c \in relays :
          ByAgent(c) /\ handler[c] = "idle" /\ stream[c].mail \in {<<>>, <<"closed">>}

\* Nothing is left of older streams and links that could take the session of an
\* uncontested stream away.
Undisturbed ==
    \A c \in Streams : Open(c) /\ c \notin contested =>
        /\ ~ByAgent(c) /\ handler[c] = "serving" =>
              /\ direct[stream[c].executor] = c
              /\ \A d \in StreamsOf(stream[c].executor) \ {c} : ~ByAgent(d) => ~Pending(d)
        /\ ByAgent(c) /\ handler[c] = "idle" /\ stream[c].mail = <<>> =>
              c \in relays /\ cleaning = {}

\* Each token was given by a change of an administrator.
TokensKept ==
    /\ \A e \in External : row[e].token <= faults /\ word[e].token <= faults
    /\ \A c \in Streams : copy[c].token <= faults
    /\ \A d \in edits : d.row.token <= faults

\* So do the rows in hand say what administrators said last, where that is settled.
WordKept ==
    \A e \in External : \A field \in {"state", "token"} :
        settled[e][field] =>
            /\ row[e][field] = word[e][field]
            /\ \A r \in Held(e, field) : r[field] = word[e][field]

\* A run is sent on a stream.
Sent == run = "sent" => runOn \in Streams

IInv ==
    /\ TypeOK
    /\ MailKept
    /\ Linked
    /\ HandlersKept
    /\ OneStream
    /\ SessionsKept
    /\ Undisturbed
    /\ TokensKept
    /\ WordKept
    /\ Sent

----------------------------------------------------------------------------
(* What is on the way of a stream.                                         *)

\* Reading a message leaves what follows it; an open stream has at most a hello.
LEMMA MailRead ==
    ASSUME NEW m \in Mails, m # <<>>
    PROVE  /\ Tail(m) \in Mails /\ Tail(m) \in {<<>>, <<"closed">>}
           /\ m \in {<<>>, <<"closed">>} => Tail(m) = <<>> /\ Head(m) = "closed"
           /\ m \in {<<>>, <<"hello">>} => Tail(m) = <<>> /\ Head(m) = "hello"
<1>1. m = <<"hello">> \/ m = <<"closed">> \/ m = <<"hello", "closed">>
    BY DEF Mails
<1>2. CASE m = <<"hello">>
    BY <1>2 DEF Mails
<1>3. CASE m = <<"closed">>
    BY <1>3 DEF Mails
<1>4. CASE m = <<"hello", "closed">>
    BY <1>4 DEF Mails
<1> QED
    BY <1>1, <1>2, <1>3, <1>4

\* What is appended to one message makes two.
LEMMA AppendToOne ==
    ASSUME NEW S, NEW s \in Seq(S), NEW e \in S, Len(s) = 1
    PROVE  /\ Append(s, e) \in Seq(S) /\ Len(Append(s, e)) = 2
           /\ Append(s, e)[1] = s[1] /\ Append(s, e)[2] = e
<1>1. Append(s, e) \in Seq(S) /\ Len(Append(s, e)) = Len(s) + 1
    BY AppendProperties
<1>2. Append(s, e)[1] = s[1]
  <2>1. 1 \in 1..Len(s)
      OBVIOUS
  <2> QED
      BY <2>1, AppendProperties
<1>3. Append(s, e)[2] = e
  <2>1. Append(s, e)[Len(s) + 1] = e
      BY AppendProperties, Zenon
  <2>2. Len(s) + 1 = 2
      OBVIOUS
  <2> QED
      BY <2>1, <2>2, Zenon
<1> QED
    BY <1>1, <1>2, <1>3

\* The end of an open stream can be reported.
LEMMA MailClosed ==
    ASSUME NEW m \in {<<>>, <<"hello">>}
    PROVE  /\ Append(m, "closed") \in Mails
           /\ m \in {<<>>, <<"closed">>} => Append(m, "closed") = <<"closed">>
<1>1. CASE m = <<>>
    BY <1>1 DEF Mails
<1>2. CASE m = <<"hello">>
  <2> DEFINE S == {"hello", "closed"}
             s == <<"hello">>
             t == Append(s, "closed")
             u == <<"hello", "closed">>
  <2>1. s \in Seq(S) /\ Len(s) = 1 /\ s[1] = "hello" /\ "closed" \in S
      OBVIOUS
  <2>2. u \in Seq(S) /\ Len(u) = 2 /\ u[1] = "hello" /\ u[2] = "closed"
      OBVIOUS
  <2> HIDE DEF s, u, S
  <2>3. t \in Seq(S) /\ Len(t) = 2 /\ t[1] = "hello" /\ t[2] = "closed"
      BY <2>1, AppendToOne
  <2> HIDE DEF t
  <2>4. 1..Len(t) = {1, 2}
      BY <2>3
  <2>5. t = u
      BY <2>2, <2>3, <2>4, SeqEqual
  <2> QED
      BY <1>2, <2>5 DEF s, t, u, Mails
<1> QED
    BY <1>1, <1>2

----------------------------------------------------------------------------
(* Streams that go on as whose they were.                                  *)

\* Whatever happens to a stream, it stays its executor's, and what is read from
\* it or lost does not come back.
Keeps ==
    /\ stream' \in [Streams -> StreamRows]
    /\ MailKept'
    /\ \A c \in Streams :
          /\ stream'[c].executor = stream[c].executor /\ stream'[c].way = stream[c].way
          /\ ~ByAgent(c) => stream'[c].mail \in {stream[c].mail, <<>>}
          /\ ByAgent(c) /\ stream'[c].mail # <<>> => link # 0
          /\ stream'[c].peer = "open" => Open(c)
          /\ stream[c].mail \in {<<>>, <<"closed">>} => stream'[c].mail \in {<<>>, <<"closed">>}

\* The same of one stream.
KeepsOne(c, n) ==
    /\ n \in StreamRows
    /\ n.executor = stream[c].executor /\ n.way = stream[c].way
    /\ ~ByAgent(c) => n.mail \in {stream[c].mail, <<>>}
    /\ ByAgent(c) /\ n.mail # <<>> => link # 0
    /\ n.peer = "open" => Open(c)
    /\ stream[c].mail \in {<<>>, <<"closed">>} => n.mail \in {<<>>, <<"closed">>}
    /\ n.peer = "open" \/ ~ByAgent(c) => n.mail \in {<<>>, <<"hello">>}

\* What holds of each stream holds of all.
LEMMA KeepsEach ==
    ASSUME NEW next, stream' = [c \in Streams |-> next[c]],
           \A c \in Streams : KeepsOne(c, next[c])
    PROVE  Keeps
<1>1. \A c \in Streams : stream'[c] = next[c]
    OBVIOUS
<1>2. stream' \in [Streams -> StreamRows]
    BY <1>1 DEF KeepsOne
<1>3. MailKept'
    BY <1>1 DEF KeepsOne, MailKept, Open, ByAgent
<1> QED
    BY <1>1, <1>2, <1>3 DEF KeepsOne, Keeps

\* A stream that is left alone.
LEMMA SameKeeps ==
    ASSUME TypeOK, MailKept, Linked, NEW c \in Streams
    PROVE  KeepsOne(c, stream[c])
BY DEF TypeOK, MailKept, Linked, KeepsOne, Open, ByAgent, StreamRows

\* One stream changes.
LEMMA OneKeeps ==
    ASSUME TypeOK, MailKept, Linked, NEW c \in Streams, NEW n, KeepsOne(c, n),
           stream' = [stream EXCEPT ![c] = n]
    PROVE  Keeps
<1> DEFINE next == [d \in Streams |-> IF d = c THEN n ELSE stream[d]]
<1>1. stream' = [d \in Streams |-> next[d]]
    BY DEF TypeOK
<1>2. \A d \in Streams : KeepsOne(d, next[d])
    BY SameKeeps
<1> HIDE DEF next
<1> QED
    BY <1>1, <1>2, KeepsEach

\* Streams end for their executors; a report of it may be on its way.
LEMMA EndedKeeps ==
    ASSUME TypeOK, MailKept, Linked, NEW cs, stream' = Ended(cs)
    PROVE  Keeps
<1> DEFINE next == [c \in Streams |->
               IF c \notin cs THEN stream[c]
               ELSE [stream[c] EXCEPT !.peer = "gone", !.mail = sendSessionClosed(c)]]
<1>1. stream' = [c \in Streams |-> next[c]]
    BY DEF Ended
<1>2. ASSUME NEW c \in Streams PROVE KeepsOne(c, next[c])
  <2>1. CASE c \notin cs
      BY <2>1, SameKeeps
  <2>2. CASE c \in cs
    <3>1. stream[c] \in StreamRows
        BY DEF TypeOK
    <3>2. /\ sendSessionClosed(c) \in Mails
          /\ ~ByAgent(c) => sendSessionClosed(c) = stream[c].mail
          /\ ByAgent(c) /\ sendSessionClosed(c) # <<>> => link # 0
          /\ stream[c].mail \in {<<>>, <<"closed">>} =>
                sendSessionClosed(c) \in {<<>>, <<"closed">>}
      <4>1. CASE Open(c) /\ ByAgent(c) /\ link # 0
        <5>1. stream[c].mail \in {<<>>, <<"hello">>}
            BY <4>1 DEF MailKept
        <5>2. /\ Append(stream[c].mail, "closed") \in Mails
              /\ stream[c].mail \in {<<>>, <<"closed">>} =>
                    Append(stream[c].mail, "closed") = <<"closed">>
            BY <5>1, MailClosed
        <5> QED
            BY <4>1, <5>2 DEF sendSessionClosed, sendUpstream
      <4>2. CASE ~(Open(c) /\ ByAgent(c) /\ link # 0)
          BY <3>1, <4>2 DEF Linked, sendSessionClosed, sendUpstream, StreamRows
      <4> QED
          BY <4>1, <4>2
    <3>3. PICK n : n = [stream[c] EXCEPT !.peer = "gone", !.mail = sendSessionClosed(c)]
        OBVIOUS
    <3>4. /\ n \in StreamRows /\ n.executor = stream[c].executor
          /\ n.way = stream[c].way /\ n.peer = "gone" /\ n.mail = sendSessionClosed(c)
        BY <3>1, <3>2, <3>3 DEF StreamRows
    <3>5. ~ByAgent(c) => stream[c].mail \in {<<>>, <<"hello">>}
        BY DEF MailKept
    <3>6. KeepsOne(c, n)
        BY <3>2, <3>4, <3>5 DEF KeepsOne
    <3> QED
        BY <2>2, <3>3, <3>6
  <2> QED
      BY <2>1, <2>2
<1> HIDE DEF next
<1> QED
    BY <1>1, <1>2, KeepsEach

\* What the agent's link was carrying is lost.
LEMMA LostKeeps ==
    ASSUME TypeOK, MailKept, Linked, stream' = LoseMail(stream)
    PROVE  Keeps
<1> DEFINE next == [c \in Streams |->
               IF ByAgent(c) THEN [stream[c] EXCEPT !.mail = <<>>] ELSE stream[c]]
<1>1. stream' = [c \in Streams |-> next[c]]
    BY DEF LoseMail
<1>2. ASSUME NEW c \in Streams PROVE KeepsOne(c, next[c])
  <2>1. CASE ~ByAgent(c)
      BY <2>1, SameKeeps
  <2>2. CASE ByAgent(c)
    <3>1. stream[c] \in StreamRows /\ <<>> \in Mails
        BY DEF TypeOK, Mails
    <3>2. PICK n : n = [stream[c] EXCEPT !.mail = <<>>]
        OBVIOUS
    <3>3. n \in StreamRows /\ n.executor = stream[c].executor /\ n.way = stream[c].way
          /\ n.mail = <<>> /\ n.peer = stream[c].peer
        BY <3>1, <3>2 DEF StreamRows
    <3>4. KeepsOne(c, n)
        BY <3>3 DEF KeepsOne, Open
    <3> QED
        BY <2>2, <3>2, <3>4
  <2> QED
      BY <2>1, <2>2
<1> HIDE DEF next
<1> QED
    BY <1>1, <1>2, KeepsEach

\* A message of a stream is read, and nothing else of it changes but the link
\* that brought it.
LEMMA ReadKeeps ==
    ASSUME TypeOK, MailKept, Linked, NEW c \in Streams, stream[c].mail # <<>>,
           NEW via \in 0..MaxLinks,
           stream' = [stream EXCEPT ![c].mail = Tail(@), ![c].via = via]
    PROVE  Keeps
<1>1. stream[c] \in StreamRows
    BY DEF TypeOK
<1>2. /\ Tail(stream[c].mail) \in Mails
      /\ stream[c].mail \in {<<>>, <<"hello">>, <<"closed">>} => Tail(stream[c].mail) = <<>>
    BY <1>1, MailRead DEF StreamRows
<1>3. PICK n : n = [stream[c] EXCEPT !.mail = Tail(stream[c].mail), !.via = via]
    OBVIOUS
<1>4. /\ n \in StreamRows /\ n.executor = stream[c].executor /\ n.way = stream[c].way
      /\ n.peer = stream[c].peer /\ n.mail = Tail(stream[c].mail)
    BY <1>1, <1>2, <1>3 DEF StreamRows
<1>5. n.peer = "open" \/ ~ByAgent(c) => n.mail = <<>>
    BY <1>2, <1>4 DEF MailKept, Open
<1>6. KeepsOne(c, n)
    BY <1>2, <1>4, <1>5 DEF KeepsOne, Linked, Open
<1>7. stream' = [stream EXCEPT ![c] = n]
    BY <1>1, <1>3 DEF TypeOK
<1> QED
    BY <1>6, <1>7, OneKeeps

\* A stream of its own ends with what was on its way.
LEMMA GoneKeeps ==
    ASSUME TypeOK, MailKept, Linked, NEW c \in Streams,
           stream' = [stream EXCEPT ![c].mail = <<>>, ![c].peer = "gone"]
    PROVE  Keeps
<1>1. stream[c] \in StreamRows /\ <<>> \in Mails
    BY DEF TypeOK, Mails
<1>2. PICK n : n = [stream[c] EXCEPT !.mail = <<>>, !.peer = "gone"]
    OBVIOUS
<1>3. n \in StreamRows /\ n.executor = stream[c].executor /\ n.way = stream[c].way
      /\ n.mail = <<>> /\ n.peer = "gone"
    BY <1>1, <1>2 DEF StreamRows
<1>4. KeepsOne(c, n)
    BY <1>3 DEF KeepsOne
<1>5. stream' = [stream EXCEPT ![c] = n]
    BY <1>1, <1>2 DEF TypeOK
<1> QED
    BY <1>4, <1>5, OneKeeps

\* A message is read that no link brings.
LEMMA TailKeeps ==
    ASSUME TypeOK, MailKept, Linked, NEW c \in Streams, stream[c].mail # <<>>,
           stream' = [stream EXCEPT ![c].mail = Tail(@)]
    PROVE  Keeps
<1>1. stream[c] \in StreamRows
    BY DEF TypeOK
<1>2. /\ Tail(stream[c].mail) \in Mails
      /\ stream[c].mail \in {<<>>, <<"hello">>, <<"closed">>} => Tail(stream[c].mail) = <<>>
    BY <1>1, MailRead DEF StreamRows
<1>3. PICK n : n = [stream[c] EXCEPT !.mail = Tail(stream[c].mail)]
    OBVIOUS
<1>4. /\ n \in StreamRows /\ n.executor = stream[c].executor /\ n.way = stream[c].way
      /\ n.peer = stream[c].peer /\ n.mail = Tail(stream[c].mail)
    BY <1>1, <1>2, <1>3 DEF StreamRows
<1>5. n.peer = "open" \/ ~ByAgent(c) => n.mail = <<>>
    BY <1>2, <1>4 DEF MailKept, Open
<1>6. KeepsOne(c, n)
    BY <1>2, <1>4, <1>5 DEF KeepsOne, Linked, Open
<1>7. stream' = [stream EXCEPT ![c] = n]
    BY <1>1, <1>3 DEF TypeOK
<1> QED
    BY <1>6, <1>7, OneKeeps

\* The link that brought a hello is done with it.
LEMMA ViaKeeps ==
    ASSUME TypeOK, MailKept, Linked, NEW c \in Streams, stream' = [stream EXCEPT ![c].via = 0]
    PROVE  Keeps /\ stream'[c].mail = stream[c].mail
<1>1. stream[c] \in StreamRows /\ 0 \in 0..MaxLinks
    BY SessionsAssumption DEF TypeOK, MaxLinks
<1>2. PICK n : n = [stream[c] EXCEPT !.via = 0]
    OBVIOUS
<1>3. /\ n \in StreamRows /\ n.executor = stream[c].executor /\ n.way = stream[c].way
      /\ n.peer = stream[c].peer /\ n.mail = stream[c].mail
    BY <1>1, <1>2 DEF StreamRows
<1>4. KeepsOne(c, n)
    BY <1>3, SameKeeps DEF KeepsOne
<1>5. stream' = [stream EXCEPT ![c] = n]
    BY <1>1, <1>2 DEF TypeOK
<1>6. stream'[c] = n
    BY <1>5 DEF TypeOK
<1> QED
    BY <1>3, <1>4, <1>5, <1>6, OneKeeps

----------------------------------------------------------------------------
(* Sessions and handlers.                                                  *)

\* What concerns the sessions of the hub.
Belongs ==
    MailKept /\ Linked /\ HandlersKept /\ OneStream /\ SessionsKept /\ Undisturbed

\* The agent's streams have nothing left on their way.
Lost == \A c \in Streams : ByAgent(c) => stream'[c].mail = <<>>

\* Apart from one stream's, the agent's sessions that are there were there or are
\* of streams whose hello is accepted; those of uncontested streams are kept.
RelaysStay(but) ==
    /\ relays' \subseteq Streams
    /\ contested \subseteq contested' \cup {but}
    /\ \A c \in Streams \ {but} : c \in relays' =>
          \/ c \in relays
          \/ ByAgent(c) /\ handler[c] = "idle" /\ stream'[c].mail \in {<<>>, <<"closed">>}
    /\ \A c \in Streams \ {but} :
          /\ c \notin contested' /\ Open(c) /\ ByAgent(c) /\ handler[c] = "idle"
          /\ stream'[c].mail = <<>>
          => \/ /\ stream[c].mail = <<>> /\ cleaning' \subseteq cleaning
                /\ c \in relays => c \in relays'
             \/ c \in relays' /\ cleaning' = {}

\* Its session is its own, and nothing that could take it away is left.
Stays(c) ==
    /\ ~ByAgent(c) /\ handler'[c] = "serving" =>
          /\ direct'[stream[c].executor] = c
          /\ \A d \in StreamsOf(stream[c].executor) \ {c} :
                ~ByAgent(d) => handler'[d] = "idle" /\ stream'[d].mail = <<>>
    /\ ByAgent(c) /\ handler'[c] = "idle" /\ stream'[c].mail = <<>> =>
          c \in relays' /\ cleaning' = {}

\* What holds of each uncontested stream holds of all.
LEMMA EachUndisturbed ==
    ASSUME Keeps, \A c \in Streams : Open(c) /\ Open(c)' /\ c \notin contested' => Stays(c)
    PROVE  Undisturbed'
<1> SUFFICES ASSUME NEW c \in Streams, Open(c)', c \notin contested'
             PROVE  /\ ~ByAgent(c)' /\ handler'[c] = "serving" =>
                          /\ direct'[stream'[c].executor] = c
                          /\ \A d \in StreamsOf(stream[c].executor)' \ {c} :
                                ~ByAgent(d)' => ~Pending(d)'
                    /\ ByAgent(c)' /\ handler'[c] = "idle" /\ stream'[c].mail = <<>> =>
                          c \in relays' /\ cleaning' = {}
    BY DEF Undisturbed
<1>1. Open(c)
    BY DEF Open, Keeps
<1>2. Stays(c)
    BY <1>1
<1>3. /\ stream'[c].executor = stream[c].executor
      /\ \A d \in Streams : ByAgent(d)' = ByAgent(d)
      /\ StreamsOf(stream[c].executor)' = StreamsOf(stream[c].executor)
    BY DEF Keeps, ByAgent, StreamsOf
<1> QED
    BY <1>2, <1>3 DEF Stays, StreamsOf, Pending

\* A stream to which nothing happens stays undisturbed, whatever happens to others.
LEMMA OtherStays ==
    ASSUME TypeOK, Belongs, Keeps, NEW but \in Streams \cup {0}, RelaysStay(but),
           NEW c \in Streams, c # but, Open(c), c \notin contested',
           handler'[c] = handler[c],
           \A d \in Streams : ~ByAgent(d) /\ handler[d] = "idle" /\ stream[d].mail = <<>> =>
               handler'[d] = "idle" /\ stream'[d].mail = <<>>,
           ~ByAgent(c) /\ handler[c] = "serving" =>
               direct'[stream[c].executor] = direct[stream[c].executor]
    PROVE  Stays(c)
<1>1. c \notin contested
    BY DEF RelaysStay
<1>2. ASSUME ~ByAgent(c), handler[c] = "serving"
      PROVE  /\ direct'[stream[c].executor] = c
             /\ \A d \in StreamsOf(stream[c].executor) \ {c} :
                   ~ByAgent(d) => handler'[d] = "idle" /\ stream'[d].mail = <<>>
  <2>1. /\ direct[stream[c].executor] = c
        /\ \A d \in StreamsOf(stream[c].executor) \ {c} : ~ByAgent(d) => ~Pending(d)
      BY <1>1, <1>2 DEF Belongs, Undisturbed
  <2> QED
      BY <1>2, <2>1 DEF StreamsOf, Pending
<1>3. ASSUME ByAgent(c), handler[c] = "idle", stream'[c].mail = <<>>
      PROVE  c \in relays' /\ cleaning' = {}
  <2>1. CASE /\ stream[c].mail = <<>> /\ cleaning' \subseteq cleaning
             /\ c \in relays => c \in relays'
    <3>1. c \in relays /\ cleaning = {}
        BY <1>1, <1>3, <2>1 DEF Belongs, Undisturbed
    <3> QED
        BY <2>1, <3>1
  <2>2. CASE c \in relays' /\ cleaning' = {}
      BY <2>2
  <2> QED
      BY <1>3, <2>1, <2>2 DEF RelaysStay
<1> QED
    BY <1>2, <1>3 DEF Stays

\* No executor gets a second open stream by what happens to those there are.
LEMMA KeepsOneStream ==
    ASSUME OneStream, Keeps
    PROVE  OneStream'
BY DEF OneStream, Keeps, Open

\* Streams that go on, and those that no longer concern anybody, leave it.
LEMMA KeepsBelongs ==
    ASSUME TypeOK, Belongs, Keeps, handler' = handler, direct' = direct,
           link' = link \/ link' # 0 \/ Lost, RelaysStay(0)
    PROVE  Belongs'
<1>1. \A c \in Streams : ByAgent(c)' = ByAgent(c)
    BY DEF Keeps, ByAgent
<1>2. \A e \in External : direct[e] # 0 => direct[e] \in Streams
    BY DEF TypeOK
<1>3. MailKept'
    BY DEF Keeps
<1>4. HandlersKept'
    BY <1>1 DEF Belongs, Keeps, HandlersKept
<1>5. SessionsKept'
  <2>1. ASSUME NEW e \in External, NEW c, c = direct'[e], c # 0
        PROVE  c \in StreamsOf(e)' /\ ~ByAgent(c)' /\ handler'[c] = "serving"
    <3>1. c \in Streams /\ c \in StreamsOf(e) /\ ~ByAgent(c) /\ handler[c] = "serving"
        BY <1>2, <2>1 DEF Belongs, SessionsKept
    <3> QED
        BY <1>1, <3>1 DEF Keeps, StreamsOf
  <2>2. ASSUME NEW c \in relays'
        PROVE  ByAgent(c)' /\ handler'[c] = "idle" /\ stream'[c].mail \in {<<>>, <<"closed">>}
    <3>1. c \in Streams /\ c # 0
      <4>1. c \in Streams
          BY DEF RelaysStay
      <4> QED
          BY <4>1 DEF Streams
    <3> QED
        BY <1>1, <3>1 DEF Belongs, Keeps, SessionsKept, RelaysStay
  <2> QED
      BY <2>1, <2>2 DEF SessionsKept
<1>6. Linked'
    BY <1>1 DEF Keeps, Lost, Linked
<1>7. OneStream'
    BY KeepsOneStream DEF Belongs
<1>8. Undisturbed'
  <2>1. ASSUME NEW c \in Streams, Open(c), c \notin contested' PROVE Stays(c)
    <3>1. c # 0
        BY DEF Streams
    <3>2. \A d \in Streams : ~ByAgent(d) /\ stream[d].mail = <<>> => stream'[d].mail = <<>>
        BY DEF Keeps
    <3> QED
        BY <2>1, <3>1, <3>2, OtherStays
  <2> QED
      BY <2>1, EachUndisturbed
<1> QED
    BY <1>3, <1>4, <1>5, <1>6, <1>7, <1>8 DEF Belongs

\* The same number and nothing read: the relays stay.
LEMMA SameRelays ==
    ASSUME TypeOK, relays' = relays, contested \subseteq contested', cleaning' \subseteq cleaning,
           \A c \in Streams : c \notin contested' /\ Open(c) /\ ByAgent(c) =>
               stream'[c].mail = stream[c].mail
    PROVE  RelaysStay(0)
BY DEF RelaysStay, TypeOK

\* Streams that nothing happens to.
LEMMA SameStreams ==
    ASSUME TypeOK, MailKept, Linked, stream' = stream
    PROVE  Keeps
<1>1. stream' = [c \in Streams |-> stream[c]]
    BY DEF TypeOK
<1> QED
    BY <1>1, SameKeeps, KeepsEach

\* So does whatever leaves the streams, their handlers and the sessions alone.
LEMMA SameBelongs ==
    ASSUME TypeOK, Belongs, stream' = stream, handler' = handler, direct' = direct,
           relays' = relays, contested' = contested, cleaning' = cleaning,
           link' = link \/ link' # 0
    PROVE  Belongs'
BY SameStreams, SameRelays, KeepsBelongs DEF Belongs

\* A new stream has a number that nobody uses, and says hello.
LEMMA NewStreamRow ==
    ASSUME TypeOK, NEW e \in Executors, NEW w \in {"direct", "relay", "instance"},
           NEW c \in Streams, NewStream(e, w, c)
    PROVE  /\ stream' \in [Streams -> StreamRows]
           /\ stream'[c] = [executor |-> e, way |-> w, peer |-> "open",
                            mail |-> <<"hello">>, via |-> 0]
           /\ \A d \in Streams : d # c => stream'[d] = stream[d]
<1>1. PICK n : n = [executor |-> e, way |-> w, peer |-> "open", mail |-> <<"hello">>,
                    via |-> 0]
    OBVIOUS
<1>2. n \in StreamRows
  <2>1. <<"hello">> \in Mails /\ 0 \in 0..MaxLinks
      BY SessionsAssumption DEF Mails, MaxLinks
  <2> QED
      BY <1>1, <2>1 DEF StreamRows
<1>3. stream' = [stream EXCEPT ![c] = n]
    BY <1>1 DEF NewStream
<1> QED
    BY <1>1, <1>2, <1>3 DEF TypeOK

\* Its session, if it ever gets one, is its own.
LEMMA NewStreamBelongs ==
    ASSUME TypeOK, Belongs, NEW e \in Executors, NEW w \in {"direct", "relay", "instance"},
           NEW c \in Streams, NewStream(e, w, c), direct' = direct, relays' = relays,
           w = "instance" => e \in Instances,
           w # "instance" => e \in External /\ OpenOf(e) = {},
           w # "direct" => link # 0, link' = link, cleaning' = cleaning
    PROVE  Belongs'
<1>1. /\ stream'[c].mail = <<"hello">> /\ stream'[c].way = w /\ stream'[c].peer = "open"
      /\ stream'[c].executor = e
      /\ \A d \in Streams : d # c => stream'[d] = stream[d]
  <2>1. /\ stream'[c] = [executor |-> e, way |-> w, peer |-> "open",
                         mail |-> <<"hello">>, via |-> 0]
        /\ \A d \in Streams : d # c => stream'[d] = stream[d]
      BY NewStreamRow
  <2> QED
      BY <2>1
<1>2. /\ handler' = handler /\ handler[c] = "idle" /\ \A x \in External : direct[x] # c
      /\ c \notin relays /\ contested' = contested \ {c}
    BY DEF NewStream, Unused
<1>3. \A x \in External : direct[x] # 0 => direct[x] \in Streams
    BY DEF TypeOK
<1>4. MailKept'
    BY <1>1 DEF Belongs, MailKept, Open, ByAgent
<1>5. HandlersKept'
    BY <1>1, <1>2 DEF Belongs, HandlersKept, ByAgent
<1>6. SessionsKept'
  <2>1. ASSUME NEW x \in External, NEW d, d = direct'[x], d # 0
        PROVE  d \in StreamsOf(x)' /\ ~ByAgent(d)' /\ handler'[d] = "serving"
    <3>1. /\ d \in Streams /\ d \in StreamsOf(x) /\ ~ByAgent(d) /\ handler[d] = "serving"
          /\ d # c
        BY <1>2, <1>3, <2>1 DEF Belongs, SessionsKept
    <3> QED
        BY <1>1, <1>2, <3>1 DEF StreamsOf, ByAgent
  <2>2. ASSUME NEW d \in relays'
        PROVE  ByAgent(d)' /\ handler'[d] = "idle" /\ stream'[d].mail \in {<<>>, <<"closed">>}
    <3>1. d \in Streams /\ d \in relays /\ d # c
        BY <1>2 DEF TypeOK
    <3> QED
        BY <1>1, <1>2, <3>1 DEF Belongs, SessionsKept, ByAgent
  <2> QED
      BY <2>1, <2>2 DEF SessionsKept
<1>7. Linked'
    BY <1>1 DEF Belongs, Linked, ByAgent
<1>8. OneStream'
  <2> SUFFICES ASSUME NEW x \in Streams, NEW y \in Streams, Open(x)', Open(y)',
                      stream'[x].executor \in External,
                      stream'[x].executor = stream'[y].executor, x # y
               PROVE  FALSE
      BY DEF OneStream
  <2>1. CASE x # c /\ y # c
      BY <1>1, <2>1 DEF Belongs, OneStream, Open
  <2>2. CASE x = c \/ y = c
    <3>1. e \in External
        BY <1>1, <2>2
    <3>2. OpenOf(e) = {}
        BY <3>1, SessionsAssumption
    <3> QED
        BY <1>1, <2>2, <3>2 DEF OpenOf, StreamsOf, Open
  <2> QED
      BY <2>1, <2>2
<1>9. Undisturbed'
  <2> SUFFICES ASSUME NEW d \in Streams, Open(d)', d \notin contested'
               PROVE  /\ ~ByAgent(d)' /\ handler'[d] = "serving" =>
                            /\ direct'[stream'[d].executor] = d
                            /\ \A x \in StreamsOf(stream[d].executor)' \ {d} :
                                  ~ByAgent(x)' => ~Pending(x)'
                      /\ ByAgent(d)' /\ handler'[d] = "idle" /\ stream'[d].mail = <<>> =>
                            d \in relays' /\ cleaning' = {}
      BY DEF Undisturbed
  <2>1. CASE d = c
    <3>1. handler'[c] # "serving" /\ stream'[c].mail # <<>>
        BY <1>1, <1>2
    <3> QED
        BY <2>1, <3>1
  <2>2. CASE d # c
    <3>1. /\ Open(d) /\ d \notin contested /\ ByAgent(d)' = ByAgent(d)
          /\ stream'[d] = stream[d]
        BY <1>1, <1>2, <2>2 DEF Open, ByAgent
    <3>2. ASSUME ~ByAgent(d), handler[d] = "serving"
          PROVE  /\ direct[stream[d].executor] = d
                 /\ \A x \in StreamsOf(stream[d].executor)' \ {d} :
                       ~ByAgent(x)' => ~Pending(x)'
      <4>1. /\ direct[stream[d].executor] = d
            /\ \A x \in StreamsOf(stream[d].executor) \ {d} : ~ByAgent(x) => ~Pending(x)
            /\ stream[d].executor \in External
          BY <3>1, <3>2 DEF Belongs, Undisturbed, HandlersKept
      <4>2. ~(stream'[c].executor = stream[d].executor /\ ~ByAgent(c)')
          BY <1>1, <3>1, <4>1 DEF OpenOf, StreamsOf, ByAgent
      <4>3. \A x \in Streams : x # c => ByAgent(x)' = ByAgent(x) /\ Pending(x)' = Pending(x)
          BY <1>1, <1>2 DEF ByAgent, Pending
      <4>4. ASSUME NEW x \in Streams, stream'[x].executor = stream[d].executor, x # d,
                   ~ByAgent(x)'
            PROVE  ~Pending(x)'
        <5>1. x # c
            BY <4>2, <4>4
        <5> QED
            BY <1>1, <4>1, <4>3, <4>4, <5>1 DEF StreamsOf
      <4> QED
          BY <3>1, <4>1, <4>4 DEF StreamsOf
    <3>3. ByAgent(d) /\ handler[d] = "idle" /\ stream[d].mail = <<>> =>
              d \in relays /\ cleaning = {}
        BY <3>1 DEF Belongs, Undisturbed
    <3> QED
        BY <1>2, <3>1, <3>2, <3>3
  <2> QED
      BY <2>1, <2>2
<1> QED
    BY <1>4, <1>5, <1>6, <1>7, <1>8, <1>9 DEF Belongs

\* A hello is read or refused: its stream had no handler, and so no session.
LEMMA HelloBelongs ==
    ASSUME TypeOK, Belongs, Keeps, NEW c \in Streams, NEW h \in {"checked", "idle"},
           Reads(c, "hello"), stream[c].executor \in External,
           stream'[c].mail \in {<<>>, <<"closed">>},
           handler' = [handler EXCEPT ![c] = h], direct' = direct,
           link' = link \/ Lost, RelaysStay(c), relays' = relays,
           h = "idle" => c \in contested' \/ stream'[c].peer = "gone"
    PROVE  Belongs'
<1>1. \A d \in Streams : ByAgent(d)' = ByAgent(d)
    BY DEF Keeps, ByAgent
<1>2. \A e \in External : direct[e] # 0 => direct[e] \in Streams
    BY DEF TypeOK
<1>3. handler'[c] = h /\ \A d \in Streams : d # c => handler'[d] = handler[d]
    BY DEF TypeOK
<1>4. MailKept'
    BY DEF Keeps
<1>5. HandlersKept'
  <2> SUFFICES ASSUME NEW d \in Streams
               PROVE  /\ ~ByAgent(d) /\ stream'[d].mail # <<>> => handler'[d] = "idle"
                      /\ handler'[d] # "idle" => /\ stream'[d].executor \in External
                                                 /\ stream'[d].mail \in {<<>>, <<"closed">>}
                      /\ handler'[d] = "serving" => ~ByAgent(d)
                      /\ stream'[d].way = "instance" => stream'[d].executor \in Instances
      BY <1>1 DEF HandlersKept
  <2>1. stream'[d].executor = stream[d].executor /\ stream'[d].way = stream[d].way
      BY DEF Keeps
  <2>2. CASE d = c
    <3>1. ~ByAgent(c) => stream'[c].mail = <<>>
      <4>1. ~ByAgent(c) => stream'[c].mail \in {<<>>, <<"hello">>}
          BY <1>1, <1>4 DEF MailKept
      <4>2. <<"closed">> # <<"hello">> /\ <<"closed">> # <<>>
          OBVIOUS
      <4> QED
          BY <4>1, <4>2
    <3> QED
        BY <1>3, <2>1, <2>2, <3>1 DEF Belongs, HandlersKept
  <2>3. CASE d # c
    <3>1. ~ByAgent(d) => stream'[d].mail \in {stream[d].mail, <<>>}
        BY DEF Keeps
    <3>2. stream[d].mail \in {<<>>, <<"closed">>} => stream'[d].mail \in {<<>>, <<"closed">>}
        BY DEF Keeps
    <3> QED
        BY <1>3, <2>1, <2>3, <3>1, <3>2 DEF Belongs, HandlersKept
  <2> QED
      BY <2>2, <2>3
<1>6. (\A e \in External : direct[e] # c) /\ c \notin relays /\ stream[c].mail # <<>>
  <2>1. c # 0 /\ stream[c].mail # <<>> /\ Head(stream[c].mail) = "hello"
      BY DEF Streams, Reads
  <2>2. ASSUME NEW e \in External, direct[e] = c PROVE FALSE
    <3>1. ~ByAgent(c) /\ handler[c] = "serving"
        BY <2>1, <2>2 DEF Belongs, SessionsKept
    <3> QED
        BY <2>1, <3>1 DEF Belongs, HandlersKept
  <2>3. ASSUME c \in relays PROVE FALSE
    <3>1. stream[c].mail \in {<<>>, <<"closed">>}
        BY <2>3 DEF Belongs, SessionsKept
    <3>2. stream[c].mail = <<"closed">>
        BY <2>1, <3>1
    <3>3. Head(<<"closed">>) = "closed"
        OBVIOUS
    <3> QED
        BY <2>1, <3>2, <3>3
  <2> QED
      BY <2>1, <2>2, <2>3
<1>7. SessionsKept'
  <2>1. ASSUME NEW x \in External, NEW d, d = direct'[x], d # 0
        PROVE  d \in StreamsOf(x)' /\ ~ByAgent(d)' /\ handler'[d] = "serving"
    <3>1. /\ d \in Streams /\ d \in StreamsOf(x) /\ ~ByAgent(d) /\ handler[d] = "serving"
          /\ d # c
        BY <1>2, <1>6, <2>1 DEF Belongs, SessionsKept
    <3> QED
        BY <1>1, <1>3, <3>1 DEF Keeps, StreamsOf
  <2>2. ASSUME NEW d \in relays'
        PROVE  ByAgent(d)' /\ handler'[d] = "idle" /\ stream'[d].mail \in {<<>>, <<"closed">>}
    <3>1. d \in Streams /\ d # c /\ d \in relays
        BY <1>6 DEF TypeOK
    <3>2. handler'[d] = handler[d] /\ ByAgent(d)' = ByAgent(d)
        BY <1>1, <1>3, <3>1
    <3> QED
        BY <3>1, <3>2 DEF Belongs, Keeps, SessionsKept
  <2> QED
      BY <2>1, <2>2 DEF SessionsKept
<1>8. Linked'
    BY <1>1 DEF Keeps, Lost, Linked
<1>9. OneStream'
    BY KeepsOneStream DEF Belongs
<1>10. Undisturbed'
  <2>1. ASSUME NEW d \in Streams, Open(d), Open(d)', d \notin contested' PROVE Stays(d)
    <3>1. CASE d = c
      <4>1. handler'[c] = "checked"
          BY <1>3, <2>1, <3>1 DEF Open
      <4> QED
          BY <3>1, <4>1 DEF Stays
    <3>2. CASE d # c
      <4>1. \A x \in Streams : ~ByAgent(x) /\ handler[x] = "idle" /\ stream[x].mail = <<>> =>
                handler'[x] = "idle" /\ stream'[x].mail = <<>>
          BY <1>3, <1>6 DEF Keeps
      <4> QED
          BY <1>3, <2>1, <3>2, <4>1, OtherStays
    <3> QED
        BY <3>1, <3>2
  <2> QED
      BY <2>1, EachUndisturbed
<1> QED
    BY <1>4, <1>5, <1>7, <1>8, <1>9, <1>10 DEF Belongs

\* The session is made: of a direct stream it is the executor's.
LEMMA RegisterBelongs ==
    ASSUME TypeOK, Belongs, NEW c \in Streams, Keeps, Register(c),
           \A d \in Streams : stream'[d].mail = stream[d].mail
    PROVE  Belongs'
<1> DEFINE e == stream[c].executor
<1>1. /\ handler[c] = "checked" /\ e \in External
      /\ handler' = [handler EXCEPT ![c] = IF ByAgent(c) THEN "idle" ELSE "serving"]
      /\ direct' = IF ByAgent(c) THEN direct ELSE [direct EXCEPT ![e] = c]
      /\ relays' = IF ByAgent(c) THEN relays \cup {c} ELSE relays
      /\ link' = link /\ cleaning' = cleaning
      /\ contested' = IF Open(c) /\ Rivals(c) # {} THEN contested \cup {c} ELSE contested
    BY DEF Register, registerDirect, registerRelay, Contest, Belongs, HandlersKept, linkVars
<1>2. \A d \in Streams : ByAgent(d)' = ByAgent(d)
    BY DEF Keeps, ByAgent
<1>3. \A x \in External : direct[x] # 0 => direct[x] \in Streams
    BY DEF TypeOK
<1>4. /\ handler'[c] = IF ByAgent(c) THEN "idle" ELSE "serving"
      /\ \A d \in Streams : d # c => handler'[d] = handler[d]
    BY <1>1 DEF TypeOK
<1>5. MailKept'
    BY DEF Keeps
<1>6. (~ByAgent(c) => stream[c].mail = <<>>) /\ stream[c].mail \in {<<>>, <<"closed">>}
    BY <1>1 DEF Belongs, HandlersKept
<1>7. HandlersKept'
    BY <1>1, <1>2, <1>4, <1>6 DEF Belongs, Keeps, HandlersKept
<1>8. SessionsKept'
  <2>1. ASSUME NEW x \in External, NEW y, y = direct'[x], y # 0
        PROVE  y \in StreamsOf(x)' /\ ~ByAgent(y)' /\ handler'[y] = "serving"
    <3>1. CASE x = e /\ ~ByAgent(c)
      <4>1. direct'[x] = c
          BY <1>1, <3>1 DEF TypeOK
      <4> QED
          BY <1>1, <1>2, <1>4, <2>1, <3>1, <4>1 DEF Keeps, StreamsOf
    <3>2. CASE ~(x = e /\ ~ByAgent(c))
      <4>1. direct'[x] = direct[x]
          BY <1>1, <3>2 DEF TypeOK
      <4>2. y \in Streams /\ y \in StreamsOf(x) /\ ~ByAgent(y) /\ handler[y] = "serving"
          BY <2>1, <4>1, <1>3 DEF Belongs, SessionsKept
      <4>3. y # c
          BY <1>1, <4>2
      <4> QED
          BY <1>2, <1>4, <4>2, <4>3 DEF Keeps, StreamsOf
    <3> QED
        BY <3>1, <3>2
  <2>2. ASSUME NEW d \in relays'
        PROVE  ByAgent(d)' /\ handler'[d] = "idle" /\ stream'[d].mail \in {<<>>, <<"closed">>}
    <3>1. CASE d = c /\ ByAgent(c)
        BY <1>2, <1>4, <1>6, <3>1
    <3>2. CASE ~(d = c /\ ByAgent(c))
      <4>1. /\ d \in relays /\ d \in Streams /\ ByAgent(d) /\ handler[d] = "idle"
            /\ stream[d].mail \in {<<>>, <<"closed">>}
          BY <1>1, <3>2 DEF Belongs, SessionsKept, TypeOK
      <4>2. d # c
          BY <1>1, <4>1
      <4> QED
          BY <1>2, <1>4, <4>1, <4>2
    <3> QED
        BY <3>1, <3>2
  <2> QED
      BY <2>1, <2>2 DEF SessionsKept
<1>9. Linked'
    BY <1>1, <1>2 DEF Keeps, Linked
<1>10. OneStream'
    BY KeepsOneStream DEF Belongs
<1>11. RelaysStay(c)
  <2>1. relays' \subseteq Streams
      BY <1>1 DEF TypeOK
  <2> QED
      BY <1>1, <2>1 DEF RelaysStay
<1>12. Undisturbed'
  <2>1. ASSUME NEW d \in Streams, Open(d), Open(d)', d \notin contested' PROVE Stays(d)
    <3>1. CASE d = c
      <4>1. Rivals(c) = {}
          BY <1>1, <2>1, <3>1
      <4>2. CASE ByAgent(c)
          BY <1>1, <1>4, <3>1, <4>1, <4>2 DEF Rivals, Stays
      <4>3. CASE ~ByAgent(c)
        <5>1. direct'[e] = c
            BY <1>1, <4>3 DEF TypeOK
        <5>2. \A x \in StreamsOf(e) \ {c} : ~ByAgent(x) => ~Pending(x)
            BY <4>1, <4>3 DEF Rivals
        <5>3. \A x \in StreamsOf(e) \ {c} :
                  ~ByAgent(x) => handler'[x] = "idle" /\ stream'[x].mail = <<>>
            BY <1>4, <5>2 DEF Pending, StreamsOf
        <5> QED
            BY <3>1, <4>3, <5>1, <5>3 DEF Stays
      <4> QED
          BY <4>2, <4>3
    <3>2. CASE d # c
      <4>1. \A x \in Streams : ~ByAgent(x) /\ handler[x] = "idle" /\ stream[x].mail = <<>> =>
                handler'[x] = "idle" /\ stream'[x].mail = <<>>
          BY <1>1, <1>4
      <4>2. ASSUME ~ByAgent(d), handler[d] = "serving"
            PROVE  direct'[stream[d].executor] = direct[stream[d].executor]
        <5>1. d \notin contested
            BY <2>1, <1>1
        <5>2. \A x \in StreamsOf(stream[d].executor) \ {d} : ~ByAgent(x) => ~Pending(x)
            BY <2>1, <4>2, <5>1 DEF Belongs, Undisturbed
        <5>3. ByAgent(c) \/ stream[d].executor # e
            BY <1>1, <3>2, <5>2 DEF StreamsOf, Pending
        <5> QED
            BY <1>1, <5>3 DEF TypeOK
      <4> QED
          BY <1>4, <1>11, <2>1, <3>2, <4>1, <4>2, OtherStays
    <3> QED
        BY <3>1, <3>2
  <2> QED
      BY <2>1, EachUndisturbed
<1> QED
    BY <1>5, <1>7, <1>8, <1>9, <1>10, <1>12 DEF Belongs

\* A handler that ends takes the session of its executor away.
LEMMA StreamEndsBelongs ==
    ASSUME TypeOK, Belongs, NEW c \in Streams, StreamEnds(c)
    PROVE  Belongs'
<1> DEFINE e == stream[c].executor
<1>1. /\ handler[c] = "serving" /\ handler' = [handler EXCEPT ![c] = "idle"] /\ ~Open(c)
      /\ direct' = [direct EXCEPT ![e] = 0] /\ stream' = stream /\ relays' = relays
      /\ contested' = contested /\ cleaning' = cleaning /\ link' = link
    BY DEF StreamEnds, unregisterDirect, linkVars
<1>2. e \in External /\ ~ByAgent(c)
    BY <1>1 DEF Belongs, HandlersKept
<1>3. /\ handler'[c] = "idle"
      /\ \A d \in Streams : d # c => handler'[d] = handler[d]
    BY <1>1 DEF TypeOK
<1>4. direct'[e] = 0 /\ \A x \in External : x # e => direct'[x] = direct[x]
    BY <1>1, <1>2 DEF TypeOK
<1>5. MailKept'
    BY <1>1 DEF Belongs, MailKept, Open, ByAgent
<1>6. HandlersKept'
    BY <1>1, <1>3 DEF Belongs, HandlersKept, ByAgent
<1>7. SessionsKept'
  <2>1. ASSUME NEW x \in External, NEW d, d = direct'[x], d # 0
        PROVE  d \in StreamsOf(x)' /\ ~ByAgent(d)' /\ handler'[d] = "serving"
    <3>1. /\ x # e /\ d = direct[x] /\ d \in Streams /\ stream[d].executor = x
          /\ ~ByAgent(d) /\ handler[d] = "serving"
        BY <1>4, <2>1 DEF Belongs, SessionsKept, StreamsOf
    <3> QED
        BY <1>1, <1>3, <3>1 DEF StreamsOf, ByAgent
  <2>2. ASSUME NEW d \in relays'
        PROVE  ByAgent(d)' /\ handler'[d] = "idle" /\ stream'[d].mail \in {<<>>, <<"closed">>}
    <3>1. /\ d \in Streams /\ ByAgent(d) /\ handler[d] = "idle"
          /\ stream[d].mail \in {<<>>, <<"closed">>}
        BY <1>1 DEF Belongs, SessionsKept, TypeOK
    <3> QED
        BY <1>1, <1>3, <3>1 DEF ByAgent
  <2> QED
      BY <2>1, <2>2 DEF SessionsKept
<1>8. Linked'
    BY <1>1 DEF Belongs, Linked, ByAgent
<1>9. Keeps
    BY <1>1, SameStreams DEF Belongs
<1>10. OneStream'
    BY <1>9, KeepsOneStream DEF Belongs
<1>11. RelaysStay(0)
    BY <1>1, SameRelays
<1>12. Undisturbed'
  <2>1. ASSUME NEW d \in Streams, Open(d), d \notin contested' PROVE Stays(d)
    <3>1. d # c /\ d # 0
        BY <1>1, <2>1 DEF Streams
    <3>2. \A x \in Streams : ~ByAgent(x) /\ handler[x] = "idle" /\ stream[x].mail = <<>> =>
              handler'[x] = "idle" /\ stream'[x].mail = <<>>
        BY <1>1, <1>3
    <3>3. ASSUME ~ByAgent(d), handler[d] = "serving"
          PROVE  direct'[stream[d].executor] = direct[stream[d].executor]
      <4>1. /\ \A x \in StreamsOf(stream[d].executor) \ {d} : ~ByAgent(x) => ~Pending(x)
            /\ stream[d].executor \in External
          BY <1>1, <2>1, <3>3 DEF Belongs, Undisturbed, HandlersKept
      <4>2. stream[d].executor # e
          BY <1>1, <1>2, <3>1, <4>1 DEF StreamsOf, Pending
      <4> QED
          BY <1>4, <4>1, <4>2
    <3> QED
        BY <1>3, <1>9, <1>11, <2>1, <3>1, <3>2, <3>3, OtherStays
  <2> QED
      BY <1>9, <2>1, EachUndisturbed
<1> QED
    BY <1>5, <1>6, <1>7, <1>8, <1>10, <1>12 DEF Belongs

----------------------------------------------------------------------------
(* Rows.                                                                   *)

\* What concerns the rows of executors, and the run's.
RowsKept == TokensKept /\ WordKept /\ Sent

\* Columns of a row.
Fields == {"state", "token"}

\* The rows in hand stay the same or become fewer.
FewerHeld ==
    /\ edits' \subseteq edits
    /\ \A c \in Streams : handler'[c] = "checked" =>
          /\ handler[c] = "checked" /\ copy'[c] = copy[c]
          /\ stream'[c].executor = stream[c].executor

\* So do those that concern one field.
LEMMA HeldShrinks ==
    ASSUME FewerHeld, NEW e, NEW field
    PROVE  Held(e, field)' \subseteq Held(e, field)
BY DEF FewerHeld, Held, StreamsOf

\* Whatever leaves the rows and what was said of them alone keeps them.
LEMMA SameRows ==
    ASSUME TypeOK, RowsKept, row' = row, word' = word, copy' = copy, settled' = settled,
           FewerHeld, faults' \in {faults, faults + 1}
    PROVE  /\ TokensKept' /\ WordKept'
           /\ run' = run /\ runOn' = runOn => RowsKept'
<1>1. faults \in Nat
    BY SessionsAssumption DEF TypeOK
<1>2. /\ \A e \in External : row[e].token \in Nat /\ word[e].token \in Nat
      /\ \A c \in Streams : copy[c].token \in Nat
      /\ \A d \in edits : d.row.token \in Nat
    BY SessionsAssumption DEF TypeOK, Rows, Edits
<1>3. TokensKept'
    BY <1>1, <1>2 DEF RowsKept, TokensKept, FewerHeld
<1>4. WordKept'
    BY HeldShrinks DEF RowsKept, WordKept
<1> QED
    BY <1>3, <1>4 DEF RowsKept, Sent

\* One column of a row changes.
LEMMA RowChanges ==
    ASSUME NEW r \in Rows, NEW field \in Fields, NEW value,
           \/ field = "token" /\ value \in 0..MaxFaults
           \/ field = "state" /\ value \in {"absent", "enabled", "disabled"}
    PROVE  /\ [r EXCEPT ![field] = value] \in Rows
           /\ [r EXCEPT ![field] = value][field] = value
           /\ \A f \in Fields \ {field} : [r EXCEPT ![field] = value][f] = r[f]
<1>1. CASE field = "token"
    BY <1>1 DEF Rows, Fields
<1>2. CASE field = "state"
    BY <1>2 DEF Rows, Fields
<1> QED
    BY <1>1, <1>2 DEF Fields

\* A request of an administrator reads a row: what it holds besides its own column
\* is what the row says.
LEMMA ReadingRows ==
    ASSUME TypeOK, RowsKept, NEW e \in External, NEW field, NEW value,
           Reading(e, field, value),
           \/ field = "token" /\ value = faults + 1
           \/ field = "state" /\ value \in {"enabled", "disabled"}
    PROVE  RowsKept' /\ edits' \subseteq Edits
<1>1. field \in Fields /\ row[e] \in Rows /\ faults \in Nat /\ faults < MaxFaults
      /\ faults' = faults + 1
    BY SessionsAssumption DEF Fields, TypeOK, Reading
<1>2. \/ field = "token" /\ value \in 0..MaxFaults
      \/ field = "state" /\ value \in {"absent", "enabled", "disabled"}
    BY <1>1, SessionsAssumption
<1>3. PICK n : n = [row[e] EXCEPT ![field] = value]
    OBVIOUS
<1>4. n \in Rows /\ n[field] = value /\ \A f \in Fields \ {field} : n[f] = row[e][f]
    BY <1>1, <1>2, <1>3, RowChanges
<1>5. PICK d : d = [nr |-> faults', executor |-> e, field |-> field, row |-> n]
    OBVIOUS
<1>6. /\ edits' = edits \cup {d} /\ row' = row /\ word' = word /\ settled' = settled
      /\ copy' = copy /\ handler' = handler /\ stream' = stream /\ run' = run /\ runOn' = runOn
    BY <1>3, <1>5 DEF Reading, Saved, runVars
<1>7. d \in Edits
  <2>1. faults + 1 \in 1..MaxFaults
      BY <1>1, SessionsAssumption
  <2> QED
      BY <1>1, <1>4, <1>5, <2>1 DEF Edits, Fields
<1>8. TokensKept'
  <2>1. n.token <= faults + 1
    <3>1. CASE field = "token"
        BY <1>1, <1>4, <3>1
    <3>2. CASE field = "state"
      <4>1. n["token"] = row[e]["token"]
          BY <1>4, <3>2 DEF Fields
      <4>2. row[e].token <= faults /\ row[e].token \in Nat
          BY <1>1, SessionsAssumption DEF RowsKept, TokensKept, Rows
      <4> QED
          BY <1>1, <4>1, <4>2
    <3> QED
        BY <1>1, <3>1, <3>2 DEF Fields
  <2>2. /\ \A x \in External : row[x].token \in Nat /\ word[x].token \in Nat
        /\ \A c \in Streams : copy[c].token \in Nat
        /\ \A x \in edits : x.row.token \in Nat
      BY SessionsAssumption DEF TypeOK, Rows, Edits
  <2> QED
      BY <1>1, <1>5, <1>6, <2>1, <2>2 DEF RowsKept, TokensKept
<1>9. WordKept'
  <2> SUFFICES ASSUME NEW x \in External, NEW f \in Fields, settled[x][f]
               PROVE  /\ row[x][f] = word[x][f]
                      /\ \A r \in Held(x, f)' : r[f] = word[x][f]
      BY <1>6 DEF WordKept, Fields
  <2>1. row[x][f] = word[x][f] /\ \A r \in Held(x, f) : r[f] = word[x][f]
      BY DEF RowsKept, WordKept, Fields
  <2>2. ASSUME NEW r \in Held(x, f)' PROVE r \in Held(x, f) \/ (r = n /\ x = e /\ f # field)
      BY <1>5, <1>6, <2>2 DEF Held, StreamsOf
  <2>3. ASSUME NEW r \in Held(x, f)' PROVE r[f] = word[x][f]
    <3>1. CASE r \in Held(x, f)
        BY <2>1, <3>1
    <3>2. CASE r = n /\ x = e /\ f # field
        BY <1>4, <2>1, <3>2
    <3> QED
        BY <2>2, <3>1, <3>2
  <2> QED
      BY <2>1, <2>3
<1> QED
    BY <1>6, <1>7, <1>8, <1>9 DEF RowsKept, Sent, TypeOK

\* What an administrator says now of a column is settled if nobody holds another row.
LEMMA SaysWord ==
    ASSUME TypeOK, NEW e \in External, NEW field \in Fields, NEW value, Says(e, field, value),
           \/ field = "token" /\ value \in 0..MaxFaults
           \/ field = "state" /\ value \in {"absent", "enabled", "disabled"}
    PROVE  /\ word' \in [External -> Rows]
           /\ settled' \in [External -> [state : BOOLEAN, token : BOOLEAN]]
           /\ word'[e][field] = value
           /\ settled'[e][field] => \A r \in Held(e, field) : r[field] = value
           /\ \A x \in External, f \in Fields : x # e \/ f # field =>
                 word'[x][f] = word[x][f] /\ settled'[x][f] = settled[x][f]
<1>1. word[e] \in Rows /\ settled[e] \in [state : BOOLEAN, token : BOOLEAN]
    BY DEF TypeOK
<1>2. PICK w : w = [word[e] EXCEPT ![field] = value]
    OBVIOUS
<1>3. w \in Rows /\ w[field] = value /\ \A f \in Fields \ {field} : w[f] = word[e][f]
    BY <1>1, <1>2, RowChanges
<1>4. word' = [word EXCEPT ![e] = w]
    BY <1>2 DEF Says
<1>5. word' \in [External -> Rows] /\ word'[e] = w
      /\ \A x \in External \ {e} : word'[x] = word[x]
    BY <1>3, <1>4 DEF TypeOK
<1>6. PICK b \in BOOLEAN : b = \A r \in Held(e, field) : r[field] = value
    OBVIOUS
<1>7. PICK t : t = [settled[e] EXCEPT ![field] = b]
    OBVIOUS
<1>8. settled' = [settled EXCEPT ![e] = t]
    BY <1>6, <1>7 DEF Says
<1>9. t \in [state : BOOLEAN, token : BOOLEAN] /\ t[field] = b
      /\ \A f \in Fields \ {field} : t[f] = settled[e][f]
  <2>1. CASE field = "token"
      BY <1>1, <1>7, <2>1 DEF Fields
  <2>2. CASE field = "state"
      BY <1>1, <1>7, <2>2 DEF Fields
  <2> QED
      BY <2>1, <2>2 DEF Fields
<1>10. settled' \in [External -> [state : BOOLEAN, token : BOOLEAN]] /\ settled'[e] = t
       /\ \A x \in External \ {e} : settled'[x] = settled[x]
    BY <1>8, <1>9 DEF TypeOK
<1> QED
    BY <1>3, <1>5, <1>6, <1>9, <1>10 DEF Fields

\* A request is saved: other columns are written as those who held them read them.
LEMMA SaveRows ==
    ASSUME TypeOK, RowsKept, NEW d \in edits, SaveExecutor(d)
    PROVE  /\ RowsKept' /\ row' \in [External -> Rows] /\ word' \in [External -> Rows]
           /\ settled' \in [External -> [state : BOOLEAN, token : BOOLEAN]]
<1> DEFINE e == d.executor
           field == d.field
           value == d.row[d.field]
<1>1. d \in Edits /\ e \in External /\ field \in Fields /\ d.row \in Rows
    BY DEF TypeOK, Edits, Fields
<1>2. \/ field = "token" /\ value \in 0..MaxFaults
      \/ field = "state" /\ value \in {"absent", "enabled", "disabled"}
    BY <1>1 DEF Fields, Rows
<1>3. /\ row' = [row EXCEPT ![e] = d.row] /\ Says(e, field, value) /\ edits' = edits \ {d}
      /\ stream' = stream /\ handler' = handler /\ copy' = copy /\ faults' = faults
      /\ run' = run /\ runOn' = runOn
    BY DEF SaveExecutor, UpsertExecutor, runVars
<1>4. /\ word' \in [External -> Rows]
      /\ settled' \in [External -> [state : BOOLEAN, token : BOOLEAN]]
      /\ word'[e][field] = value
      /\ settled'[e][field] => \A r \in Held(e, field) : r[field] = value
      /\ \A x \in External, f \in Fields : x # e \/ f # field =>
            word'[x][f] = word[x][f] /\ settled'[x][f] = settled[x][f]
    BY <1>1, <1>2, <1>3, SaysWord
<1>5. row' \in [External -> Rows] /\ row'[e] = d.row
      /\ \A x \in External \ {e} : row'[x] = row[x]
    BY <1>1, <1>3 DEF TypeOK
<1>6. FewerHeld
    BY <1>3 DEF FewerHeld
<1>7. TokensKept'
  <2>1. d.row.token <= faults
      BY DEF RowsKept, TokensKept
  <2>2. \A x \in External : word'[x].token <= faults
    <3> SUFFICES ASSUME NEW x \in External PROVE word'[x]["token"] <= faults
        OBVIOUS
    <3>1. CASE x = e /\ field = "token"
        BY <1>4, <2>1, <3>1
    <3>2. CASE ~(x = e /\ field = "token")
      <4>1. word'[x]["token"] = word[x]["token"]
          BY <1>4, <3>2 DEF Fields
      <4> QED
          BY <4>1 DEF RowsKept, TokensKept
    <3> QED
        BY <3>1, <3>2
  <2> QED
      BY <1>3, <1>5, <2>1, <2>2 DEF RowsKept, TokensKept
<1>8. WordKept'
  <2> SUFFICES ASSUME NEW x \in External, NEW f \in Fields, settled'[x][f]
               PROVE  /\ row'[x][f] = word'[x][f]
                      /\ \A r \in Held(x, f) : r[f] = word'[x][f]
      BY <1>6, HeldShrinks DEF WordKept, Fields
  <2>1. CASE x = e /\ f = field
      BY <1>4, <1>5, <2>1
  <2>2. CASE ~(x = e /\ f = field)
    <3>1. word'[x][f] = word[x][f] /\ settled[x][f]
        BY <1>4, <2>2
    <3>2. row[x][f] = word[x][f] /\ \A r \in Held(x, f) : r[f] = word[x][f]
        BY <3>1 DEF RowsKept, WordKept, Fields
    <3>3. x = e => d.row \in Held(x, f)
        BY <2>2 DEF Held
    <3> QED
        BY <1>5, <3>1, <3>2, <3>3
  <2> QED
      BY <2>1, <2>2
<1> HIDE DEF e, field, value
<1> QED
    BY <1>3, <1>4, <1>5, <1>7, <1>8 DEF RowsKept, Sent

\* An executor is deleted.
LEMMA DeleteRows ==
    ASSUME TypeOK, RowsKept, NEW e \in External, DeleteExecutor(e)
    PROVE  /\ RowsKept' /\ row' \in [External -> Rows] /\ word' \in [External -> Rows]
           /\ settled' \in [External -> [state : BOOLEAN, token : BOOLEAN]]
<1>1. /\ Says(e, "state", "absent") /\ edits' = edits /\ stream' = stream
      /\ handler' = handler /\ copy' = copy /\ faults' = faults + 1
      /\ run' = run /\ runOn' = runOn /\ faults \in Nat
    BY SessionsAssumption DEF DeleteExecutor, runVars, TypeOK
<1>2. PICK n : n = [row[e] EXCEPT !.state = "absent"]
    OBVIOUS
<1>3. n \in Rows /\ n.state = "absent" /\ n.token = row[e].token
  <2>1. row[e] \in Rows
      BY DEF TypeOK
  <2> QED
      BY <1>2, <2>1 DEF Rows
<1>4. row' = [row EXCEPT ![e] = n]
    BY <1>2 DEF DeleteExecutor
<1>5. row' \in [External -> Rows] /\ row'[e] = n
      /\ \A x \in External \ {e} : row'[x] = row[x]
    BY <1>3, <1>4 DEF TypeOK
<1>6. /\ word' \in [External -> Rows]
      /\ settled' \in [External -> [state : BOOLEAN, token : BOOLEAN]]
      /\ word'[e]["state"] = "absent"
      /\ settled'[e]["state"] => \A r \in Held(e, "state") : r["state"] = "absent"
      /\ \A x \in External, f \in Fields : x # e \/ f # "state" =>
            word'[x][f] = word[x][f] /\ settled'[x][f] = settled[x][f]
    BY <1>1, SaysWord DEF Fields
<1>7. TokensKept'
  <2>1. \A x \in External : word'[x]["token"] = word[x]["token"] /\ row'[x].token = row[x].token
      BY <1>3, <1>5, <1>6 DEF Fields
  <2>2. /\ \A x \in External : row[x].token \in Nat /\ word[x].token \in Nat
        /\ \A c \in Streams : copy[c].token \in Nat
        /\ \A x \in edits : x.row.token \in Nat
      BY SessionsAssumption DEF TypeOK, Rows, Edits
  <2> QED
      BY <1>1, <2>1, <2>2 DEF RowsKept, TokensKept
<1>8. WordKept'
  <2>1. FewerHeld
      BY <1>1 DEF FewerHeld
  <2> SUFFICES ASSUME NEW x \in External, NEW f \in Fields, settled'[x][f]
               PROVE  /\ row'[x][f] = word'[x][f]
                      /\ \A r \in Held(x, f) : r[f] = word'[x][f]
      BY <2>1, HeldShrinks DEF WordKept, Fields
  <2>2. CASE x = e /\ f = "state"
      BY <1>3, <1>5, <1>6, <2>2
  <2>3. CASE ~(x = e /\ f = "state")
    <3>1. word'[x][f] = word[x][f] /\ settled[x][f]
        BY <1>6, <2>3
    <3>2. row[x][f] = word[x][f] /\ \A r \in Held(x, f) : r[f] = word[x][f]
        BY <3>1 DEF RowsKept, WordKept, Fields
    <3>3. row'[x][f] = row[x][f]
        BY <1>3, <1>5, <2>3 DEF Fields
    <3> QED
        BY <3>1, <3>2, <3>3
  <2> QED
      BY <2>2, <2>3
<1> QED
    BY <1>1, <1>5, <1>6, <1>7, <1>8 DEF RowsKept, Sent

\* An authentication reads a row.
LEMMA AuthenticateRows ==
    ASSUME TypeOK, RowsKept, NEW c \in Streams, Authenticate(c),
           \A d \in Streams : stream'[d].executor = stream[d].executor
    PROVE  RowsKept' /\ copy' \in [Streams -> Rows]
<1> DEFINE e == stream[c].executor
<1>1. /\ e \in External /\ copy' = [copy EXCEPT ![c] = row[e]] /\ row' = row
      /\ word' = word /\ settled' = settled /\ edits' = edits /\ faults' = faults
      /\ handler' = [handler EXCEPT ![c] = "checked"] /\ run' = run /\ runOn' = runOn
    BY DEF Authenticate, rowVars, runVars
<1>2. copy' \in [Streams -> Rows]
    BY <1>1 DEF TypeOK
<1>3. /\ copy'[c] = row[e]
      /\ \A d \in Streams \ {c} : copy'[d] = copy[d] /\ handler'[d] = handler[d]
    BY <1>1 DEF TypeOK
<1>4. TokensKept'
    BY <1>1, <1>3 DEF RowsKept, TokensKept
<1>5. WordKept'
  <2> SUFFICES ASSUME NEW x \in External, NEW f \in Fields, settled[x][f]
               PROVE  /\ row[x][f] = word[x][f]
                      /\ \A r \in Held(x, f)' : r[f] = word[x][f]
      BY <1>1 DEF WordKept, Fields
  <2>1. row[x][f] = word[x][f] /\ \A r \in Held(x, f) : r[f] = word[x][f]
      BY DEF RowsKept, WordKept, Fields
  <2>2. ASSUME NEW r \in Held(x, f)' PROVE r \in Held(x, f) \/ r = row[x]
    <3>1. CASE \E d \in edits : d.executor = x /\ d.field # f /\ r = d.row
        BY <3>1 DEF Held
    <3>2. CASE \E d \in Streams : /\ stream[d].executor = x /\ handler'[d] = "checked"
                                  /\ r = copy'[d]
      <4>1. PICK d \in Streams : stream[d].executor = x /\ handler'[d] = "checked" /\ r = copy'[d]
          BY <3>2
      <4>2. CASE d = c
          BY <1>3, <4>1, <4>2
      <4>3. CASE d # c
          BY <1>3, <4>1, <4>3 DEF Held, StreamsOf
      <4> QED
          BY <4>2, <4>3
    <3> QED
        BY <1>1, <2>2, <3>1, <3>2 DEF Held, StreamsOf
  <2> QED
      BY <2>1, <2>2
<1> QED
    BY <1>1, <1>2, <1>4, <1>5 DEF RowsKept, Sent

\* And writes it back.
LEMMA RegisterRows ==
    ASSUME TypeOK, RowsKept, NEW c \in Streams, Register(c),
           stream[c].executor \in External,
           \A d \in Streams : stream'[d].executor = stream[d].executor
    PROVE  RowsKept' /\ row' \in [External -> Rows] /\ copy' \in [Streams -> Rows]
<1> DEFINE e == stream[c].executor
<1>1. /\ row' = [row EXCEPT ![e] = copy[c]] /\ copy' = [copy EXCEPT ![c] = NoRow]
      /\ word' = word /\ faults' = faults /\ settled' = settled /\ edits' = edits
      /\ handler[c] = "checked" /\ run' = run /\ runOn' = runOn
      /\ handler' = [handler EXCEPT ![c] = IF ByAgent(c) THEN "idle" ELSE "serving"]
    BY DEF Register, UpsertExecutor, runVars
<1>2. NoRow \in Rows /\ NoRow.token = 0 /\ faults \in Nat
    BY SessionsAssumption DEF NoRow, Rows, TypeOK
<1>3. /\ row'[e] = copy[c] /\ copy'[c] = NoRow /\ handler'[c] # "checked"
      /\ \A x \in External \ {e} : row'[x] = row[x]
      /\ \A d \in Streams \ {c} : copy'[d] = copy[d] /\ handler'[d] = handler[d]
    BY <1>1 DEF TypeOK
<1>4. row' \in [External -> Rows] /\ copy' \in [Streams -> Rows]
    BY <1>1, <1>2 DEF TypeOK
<1>5. FewerHeld
    BY <1>1, <1>3 DEF FewerHeld
<1>6. TokensKept'
    BY <1>1, <1>2, <1>3 DEF RowsKept, TokensKept
<1>7. WordKept'
  <2> SUFFICES ASSUME NEW x \in External, NEW f \in Fields, settled[x][f]
               PROVE  /\ row'[x][f] = word[x][f]
                      /\ \A r \in Held(x, f) : r[f] = word[x][f]
      BY <1>1, <1>5, HeldShrinks DEF WordKept, Fields
  <2>1. row[x][f] = word[x][f] /\ \A r \in Held(x, f) : r[f] = word[x][f]
      BY DEF RowsKept, WordKept, Fields
  <2>2. x = e => copy[c] \in Held(x, f)
      BY <1>1 DEF Held, StreamsOf
  <2> QED
      BY <1>3, <2>1, <2>2
<1> QED
    BY <1>1, <1>4, <1>6, <1>7 DEF RowsKept, Sent

----------------------------------------------------------------------------
(* The steps.                                                              *)

\* The numbers in which disturbances are counted.
LEMMA FaultsType ==
    ASSUME TypeOK, \/ faults' = faults
                   \/ faults' = faults + 1 /\ (faults < MaxFaults \/ faults < MaxWanted)
    PROVE  faults' \in 0..(MaxFaults + MaxWanted)
BY SessionsAssumption DEF TypeOK

\* A link's number is one that is in use.
LEMMA LinkType ==
    ASSUME TypeOK, LinkEnds, link # 0
    PROVE  /\ link' \in 0..MaxLinks /\ cleaning' \subseteq 1..MaxLinks
           /\ contested' \subseteq Streams
BY SessionsAssumption DEF TypeOK, LinkEnds, MaxLinks

\* Streams are opened: by an executor, or by the agent for one of its containers.
LEMMA OpensInv ==
    ASSUME IInv, NEW c \in Streams,
           \/ \E e \in External, w \in {"direct", "relay"} : Connect(e, c, w)
           \/ \E i \in Instances : Attach(i, c),
           present' = present
    PROVE  IInv'
<1>1. TypeOK /\ Belongs /\ RowsKept
    BY DEF IInv, Belongs, RowsKept
<1>2. PICK e \in Executors, w \in {"direct", "relay", "instance"} :
             /\ NewStream(e, w, c)
             /\ w = "instance" => e \in Instances
             /\ w # "instance" => e \in External /\ OpenOf(e) = {}
             /\ w # "direct" => link # 0
    BY DEF Connect, Attach, Executors, sendServiceInstanceHello
<1>3. /\ direct' = direct /\ relays' = relays /\ row' = row /\ known' = known
      /\ word' = word /\ copy' = copy /\ edits' = edits /\ settled' = settled /\ link' = link
      /\ cleaning' = cleaning /\ wanted' = wanted /\ run' = run /\ runOn' = runOn
      /\ handling' = handling
    BY DEF Connect, Attach, hubVars, rowVars, linkVars, runVars
<1>4. /\ handler' = handler /\ contested' = contested \ {c} /\ leaked' = leaked \ {c}
      /\ cancelled' = cancelled \ {c}
    BY <1>2 DEF NewStream
<1>5. /\ tracked' \in [Instances -> Streams \cup {0}]
      /\ \/ faults' = faults
         \/ faults' = faults + 1 /\ faults < MaxFaults
    BY <1>1 DEF Connect, Attach, TypeOK
<1>6. stream' \in [Streams -> StreamRows]
    BY <1>1, <1>2, NewStreamRow
<1>7. faults' \in 0..(MaxFaults + MaxWanted)
    BY <1>1, <1>5, FaultsType
<1>8. TypeOK'
    BY <1>1, <1>3, <1>4, <1>5, <1>6, <1>7 DEF TypeOK
<1>9. Belongs'
    BY <1>1, <1>2, <1>3, NewStreamBelongs
<1>10. FewerHeld
  <2>1. handler[c] = "idle"
      BY <1>2 DEF NewStream, Unused
  <2>2. \A d \in Streams : d # c => stream'[d] = stream[d]
      BY <1>1, <1>2, NewStreamRow
  <2> QED
      BY <1>3, <1>4, <2>1, <2>2 DEF FewerHeld
<1>11. RowsKept'
    BY <1>1, <1>3, <1>5, <1>10, SameRows
<1> QED
    BY <1>8, <1>9, <1>11 DEF IInv, Belongs, RowsKept

\* What is on the way of an open stream of the agent is not lost when streams end.
LEMMA EndedMail ==
    ASSUME TypeOK, MailKept, Linked, NEW cs, stream' = Ended(cs), NEW d \in Streams,
           stream'[d].mail = <<>>, Open(d), ByAgent(d)
    PROVE  stream[d].mail = <<>>
<1>1. stream[d] \in StreamRows
    BY DEF TypeOK
<1>2. stream'[d].mail = IF d \in cs THEN sendSessionClosed(d) ELSE stream[d].mail
    BY <1>1 DEF Ended, StreamRows
<1>3. stream[d].mail # <<>> => link # 0 /\ stream[d].mail = <<"hello">>
    BY DEF Linked, MailKept
<1>4. Append(<<"hello">>, "closed") # <<>>
    OBVIOUS
<1> QED
    BY <1>2, <1>3, <1>4 DEF sendSessionClosed, sendUpstream

\* Streams break, and the agent's link with what it carries.
LEMMA BreaksInv ==
    ASSUME IInv, LinkBreaks \/ \E c \in Streams : StreamBreaks(c) \/ InstanceEnds(c),
           present' = present
    PROVE  IInv'
<1>1. TypeOK /\ Belongs /\ RowsKept /\ MailKept /\ Linked
    BY DEF IInv, Belongs, RowsKept
<1>2. Keeps
    BY <1>1, EndedKeeps, LostKeeps, GoneKeeps DEF LinkBreaks, StreamBreaks, InstanceEnds
<1>3. /\ direct' = direct /\ relays' = relays /\ row' = row /\ known' = known
      /\ word' = word /\ copy' = copy /\ edits' = edits /\ settled' = settled /\ wanted' = wanted
      /\ run' = run /\ runOn' = runOn /\ handling' = handling /\ handler' = handler
      /\ cancelled' = cancelled
    BY DEF LinkBreaks, StreamBreaks, InstanceEnds, hubVars, rowVars, instanceVars, runVars
<1>4. \/ faults' = faults
      \/ faults' = faults + 1 /\ faults < MaxFaults
    BY DEF LinkBreaks, StreamBreaks, InstanceEnds
<1>5. /\ link' \in 0..MaxLinks /\ cleaning' \subseteq 1..MaxLinks
      /\ contested' \subseteq Streams
    BY <1>1, LinkType DEF LinkBreaks, StreamBreaks, InstanceEnds, linkVars, TypeOK
<1>11. link' = link \/ Lost
    BY <1>1 DEF LinkBreaks, StreamBreaks, InstanceEnds, linkVars, Lost, LoseMail, TypeOK,
        StreamRows
<1>6. tracked' \in [Instances -> Streams \cup {0}] /\ leaked' \subseteq Streams
  <2>1. CASE \E c \in Streams : InstanceEnds(c)
    <3>1. PICK c \in Streams : InstanceEnds(c)
        BY <2>1
    <3> DEFINE i == stream[c].executor
    <3>2. /\ tracked' = [tracked EXCEPT ![i] = 0]
          /\ leaked' = leaked \cup ({tracked[i]} \ {0, c})
        BY <3>1 DEF InstanceEnds
    <3>3. tracked' \in [Instances -> Streams \cup {0}]
        BY <1>1, <3>2 DEF TypeOK
    <3>4. i \in Instances
        BY <3>1 DEF IInv, HandlersKept, InstanceEnds
    <3> QED
        BY <1>1, <3>2, <3>3, <3>4 DEF TypeOK
  <2>2. CASE LinkBreaks \/ \E c \in Streams : StreamBreaks(c)
      BY <1>1, <2>2 DEF LinkBreaks, StreamBreaks, instanceVars, TypeOK
  <2> QED
      BY <2>1, <2>2
<1>7. faults' \in 0..(MaxFaults + MaxWanted)
    BY <1>1, <1>4, FaultsType
<1>8. TypeOK'
    BY <1>1, <1>2, <1>3, <1>5, <1>6, <1>7 DEF TypeOK, Keeps
<1>9. RelaysStay(0)
  <2>1. CASE LinkBreaks
    <3>1. contested' = contested \cup {c \in Streams : ByAgent(c) /\ Open(c)}
        BY <2>1 DEF LinkBreaks, LinkEnds
    <3> QED
        BY <1>1, <1>3, <3>1 DEF RelaysStay, TypeOK
  <2>2. CASE \E c \in Streams : StreamBreaks(c) \/ InstanceEnds(c)
    <3>1. contested' = contested /\ cleaning' = cleaning
        BY <2>2 DEF StreamBreaks, InstanceEnds, linkVars
    <3>2. ASSUME NEW d \in Streams, stream'[d].mail = <<>>, Open(d), ByAgent(d)
          PROVE  stream[d].mail = <<>>
      <4>1. PICK c \in Streams : StreamBreaks(c) \/ InstanceEnds(c)
          BY <2>2
      <4>2. stream' = Ended({c}) \/ ~ByAgent(c)
          BY <4>1 DEF StreamBreaks, InstanceEnds
      <4>3. CASE stream' = Ended({c})
          BY <1>1, <3>2, <4>3, EndedMail
      <4>4. CASE stream' # Ended({c})
        <5>1. stream' = [stream EXCEPT ![c].mail = <<>>, ![c].peer = "gone"] /\ d # c
            BY <3>2, <4>1, <4>2, <4>4 DEF StreamBreaks, InstanceEnds
        <5>2. stream'[d] = stream[d]
            BY <1>1, <5>1 DEF TypeOK
        <5> QED
            BY <3>2, <5>2
      <4> QED
          BY <4>3, <4>4
    <3> QED
        BY <1>1, <1>3, <3>1, <3>2 DEF RelaysStay, TypeOK
  <2> QED
      BY <2>1, <2>2
<1>10. Belongs'
    BY <1>1, <1>2, <1>3, <1>9, <1>11, KeepsBelongs
<1>12. FewerHeld
    BY <1>2, <1>3 DEF FewerHeld, Keeps
<1>13. RowsKept'
    BY <1>1, <1>3, <1>4, <1>12, SameRows
<1> QED
    BY <1>8, <1>10, <1>13 DEF IInv, Belongs, RowsKept

\* The agent connects again, and its ended streams are cleaned up after.
LEMMA LinkInv ==
    ASSUME IInv, LinkReturns \/ \E k \in 1..MaxLinks : CleanupAgentSessions(k),
           present' = present
    PROVE  IInv'
<1>1. TypeOK /\ Belongs /\ RowsKept
    BY DEF IInv, Belongs, RowsKept
<1>2. /\ stream' = stream /\ handler' = handler /\ direct' = direct /\ row' = row
      /\ known' = known /\ word' = word /\ copy' = copy /\ edits' = edits /\ settled' = settled
      /\ wanted' = wanted /\ tracked' = tracked /\ cancelled' = cancelled
      /\ leaked' = leaked /\ run' = run /\ runOn' = runOn /\ handling' = handling
      /\ faults' = faults
    BY DEF LinkReturns, CleanupAgentSessions, hubVars, rowVars, instanceVars, runVars
<1>3. /\ link' \in 0..MaxLinks /\ cleaning' \subseteq 1..MaxLinks
      /\ relays' \subseteq Streams /\ contested' \subseteq Streams
  <2>1. CASE LinkReturns
    <3>1. link' \in 1..MaxLinks /\ MaxLinks \in Nat
        BY <2>1, SessionsAssumption DEF LinkReturns, MaxLinks
    <3> QED
        BY <1>1, <2>1, <3>1 DEF LinkReturns, hubVars, TypeOK
  <2>2. CASE \E k \in 1..MaxLinks : CleanupAgentSessions(k)
      BY <1>1, <2>2 DEF CleanupAgentSessions, TypeOK
  <2> QED
      BY <2>1, <2>2
<1>4. TypeOK'
    BY <1>1, <1>2, <1>3 DEF TypeOK
<1>5. Belongs'
  <2>1. link' = link \/ link' # 0
      BY DEF LinkReturns, CleanupAgentSessions
  <2>2. contested' = contested
      BY DEF LinkReturns, CleanupAgentSessions
  <2>3. RelaysStay(0)
    <3>1. CASE LinkReturns
        BY <1>1, <1>2, <2>2, <3>1, SameRelays DEF LinkReturns, hubVars
    <3>2. CASE \E k \in 1..MaxLinks : CleanupAgentSessions(k)
      <4>1. relays' = {} /\ cleaning # {} /\ cleaning' \subseteq cleaning
          BY <3>2 DEF CleanupAgentSessions
      <4>2. \A c \in Streams : c \notin contested /\ Open(c) =>
                ~(ByAgent(c) /\ handler[c] = "idle" /\ stream[c].mail = <<>>)
          BY <1>1, <4>1 DEF Belongs, Undisturbed
      <4> QED
          BY <1>2, <2>2, <4>1, <4>2 DEF RelaysStay
    <3> QED
        BY <3>1, <3>2
  <2>4. Keeps
      BY <1>1, <1>2, SameStreams DEF Belongs
  <2> QED
      BY <1>1, <1>2, <2>1, <2>3, <2>4, KeepsBelongs
<1>6. FewerHeld
    BY <1>2 DEF FewerHeld
<1>7. RowsKept'
    BY <1>1, <1>2, <1>6, SameRows
<1> QED
    BY <1>4, <1>5, <1>7 DEF IInv, Belongs, RowsKept

\* A hello is accepted or refused.
LEMMA HelloInv ==
    ASSUME IInv, NEW c \in Streams, Authenticate(c) \/ Refuse(c), present' = present
    PROVE  IInv'
<1>1. TypeOK /\ Belongs /\ RowsKept /\ MailKept /\ Linked
    BY DEF IInv, Belongs, RowsKept
<1>2. /\ stream[c].mail # <<>> /\ Reads(c, "hello") /\ stream[c].executor \in External
    BY DEF Authenticate, Refuse, Reads
<1>3. /\ direct' = direct /\ relays' = relays /\ row' = row /\ known' = known
      /\ word' = word /\ edits' = edits /\ settled' = settled /\ faults' = faults
      /\ wanted' = wanted /\ tracked' = tracked /\ cancelled' = cancelled
      /\ leaked' = leaked /\ run' = run /\ runOn' = runOn /\ handling' = handling
    BY DEF Authenticate, Refuse, hubVars, rowVars, instanceVars, runVars
<1>4. /\ Keeps
      /\ stream'[c].mail \in {<<>>, <<"closed">>}
      /\ handler' \in [Streams -> {"idle", "checked", "serving"}]
      /\ \E h \in {"checked", "idle"} :
            /\ handler' = [handler EXCEPT ![c] = h]
            /\ h = "idle" => c \in contested' \/ stream'[c].peer = "gone"
      /\ RelaysStay(c)
      /\ link' \in 0..MaxLinks /\ cleaning' \subseteq 1..MaxLinks
      /\ contested' \subseteq Streams
      /\ link' = link \/ Lost
      /\ RowsKept' /\ copy' \in [Streams -> Rows]
  <2>1. CASE Authenticate(c)
    <3> DEFINE via == IF ByAgent(c) THEN link ELSE 0
    <3>1. /\ stream' = [stream EXCEPT ![c].mail = Tail(@), ![c].via = via]
          /\ handler' = [handler EXCEPT ![c] = "checked"]
          /\ link' = link /\ cleaning' = cleaning /\ contested' = contested
          /\ relays' = relays
        BY <2>1 DEF Authenticate, linkVars, hubVars
    <3>2. via \in 0..MaxLinks
        BY <1>1, SessionsAssumption DEF TypeOK, MaxLinks
    <3> HIDE DEF via
    <3>3. Keeps
        BY <1>1, <1>2, <3>1, <3>2, ReadKeeps
    <3>4. stream'[c].mail \in {<<>>, <<"closed">>}
      <4>1. stream'[c].mail = Tail(stream[c].mail)
          BY <1>1, <3>1 DEF TypeOK, StreamRows
      <4>2. stream[c].mail \in Mails
          BY <1>1 DEF TypeOK, StreamRows
      <4> QED
          BY <1>1, <1>2, <4>1, <4>2, MailRead DEF MailKept
    <3>5. RowsKept' /\ copy' \in [Streams -> Rows]
        BY <1>1, <2>1, <3>3, AuthenticateRows DEF Keeps
    <3>6. RelaysStay(c)
      <4>1. \A d \in Streams : d # c => stream'[d] = stream[d]
          BY <1>1, <3>1 DEF TypeOK
      <4> QED
          BY <1>1, <3>1, <4>1 DEF RelaysStay, TypeOK
    <3> QED
        BY <1>1, <3>1, <3>3, <3>4, <3>5, <3>6 DEF TypeOK
  <2>2. CASE Refuse(c)
    <3>1. handler' = [handler EXCEPT ![c] = "idle"] /\ copy' = copy /\ relays' = relays
        BY <2>2 DEF Refuse, hubVars
    <3>2. ASSUME Keeps PROVE RowsKept'
      <4>1. FewerHeld
          BY <1>1, <1>3, <3>1, <3>2 DEF FewerHeld, Keeps, TypeOK
      <4> QED
          BY <1>1, <1>3, <3>1, <4>1, SameRows
    <3>3. CASE ByAgent(c)
      <4>1. LinkEnds /\ stream' = LoseMail(stream)
          BY <2>2, <3>3 DEF Refuse
      <4>2. Keeps
          BY <1>1, <4>1, LostKeeps
      <4>3. /\ link' \in 0..MaxLinks /\ cleaning' \subseteq 1..MaxLinks
            /\ contested' \subseteq Streams
        <5>1. link # 0
            BY <1>1, <1>2, <3>3 DEF Linked
        <5> QED
            BY <1>1, <4>1, <5>1, LinkType
      <4>4. Lost
          BY <1>1, <4>1 DEF Lost, LoseMail, TypeOK, StreamRows
      <4>5. contested' = contested \cup {d \in Streams : ByAgent(d) /\ Open(d)}
          BY <4>1 DEF LinkEnds
      <4>6. RelaysStay(c)
          BY <1>1, <3>1, <4>5 DEF RelaysStay, TypeOK
      <4>7. c \in contested' \/ stream'[c].peer = "gone"
        <5>1. stream'[c].peer = stream[c].peer /\ stream[c].peer \in {"open", "gone"}
            BY <1>1, <4>1 DEF LoseMail, TypeOK, StreamRows
        <5> QED
            BY <3>3, <4>5, <5>1 DEF Open
      <4>8. stream'[c].mail = <<>>
          BY <3>3, <4>4 DEF Lost
      <4> QED
          BY <1>1, <3>1, <3>2, <4>2, <4>3, <4>4, <4>6, <4>7, <4>8 DEF TypeOK
    <3>4. CASE ~ByAgent(c)
      <4>1. /\ stream' = [stream EXCEPT ![c].mail = <<>>, ![c].peer = "gone"]
            /\ link' = link /\ cleaning' = cleaning /\ contested' = contested
          BY <2>2, <3>4 DEF Refuse
      <4>2. Keeps
          BY <1>1, <4>1, GoneKeeps
      <4>3. stream'[c].mail = <<>> /\ stream'[c].peer = "gone"
          BY <1>1, <4>1 DEF TypeOK, StreamRows
      <4>4. RelaysStay(c)
        <5>1. \A d \in Streams : d # c => stream'[d] = stream[d]
            BY <1>1, <4>1 DEF TypeOK
        <5> QED
            BY <1>1, <3>1, <4>1, <5>1 DEF RelaysStay, TypeOK
      <4> QED
          BY <1>1, <3>1, <3>2, <4>1, <4>2, <4>3, <4>4 DEF TypeOK
    <3> QED
        BY <3>3, <3>4
  <2> QED
      BY <2>1, <2>2
<1>5. TypeOK'
    BY <1>1, <1>3, <1>4 DEF TypeOK, Keeps
<1>6. Belongs'
    BY <1>1, <1>2, <1>3, <1>4, HelloBelongs
<1> QED
    BY <1>4, <1>5, <1>6 DEF IInv, Belongs, RowsKept

\* A session is made.
LEMMA RegisterInv ==
    ASSUME IInv, NEW c \in Streams, Register(c), present' = present
    PROVE  IInv'
<1>1. TypeOK /\ Belongs /\ RowsKept /\ MailKept /\ Linked
    BY DEF IInv, Belongs, RowsKept
<1>2. /\ stream' = [stream EXCEPT ![c].via = 0] /\ known' = known /\ word' = word
      /\ link' = link /\ cleaning' = cleaning /\ wanted' = wanted
      /\ tracked' = tracked /\ cancelled' = cancelled /\ leaked' = leaked
      /\ run' = run /\ runOn' = runOn /\ handling' = handling /\ faults' = faults
      /\ edits' = edits /\ settled' = settled
      /\ handler' = [handler EXCEPT ![c] = IF ByAgent(c) THEN "idle" ELSE "serving"]
    BY DEF Register, linkVars, instanceVars, runVars
<1>3. stream[c].executor \in External
    BY DEF IInv, HandlersKept, Register
<1>4. Keeps /\ \A d \in Streams : stream'[d].mail = stream[d].mail
  <2>1. \A d \in Streams : d # c => stream'[d] = stream[d]
      BY <1>1, <1>2 DEF TypeOK
  <2> QED
      BY <1>1, <1>2, <2>1, ViaKeeps
<1>5. RowsKept' /\ row' \in [External -> Rows] /\ copy' \in [Streams -> Rows]
    BY <1>1, <1>3, <1>4, RegisterRows DEF Keeps
<1>6. /\ direct' \in [External -> Streams \cup {0}] /\ relays' \subseteq Streams
      /\ contested' \subseteq Streams
    BY <1>1 DEF Register, registerRelay, registerDirect, Contest, TypeOK
<1>7. handler' \in [Streams -> {"idle", "checked", "serving"}]
    BY <1>1, <1>2 DEF TypeOK
<1>8. TypeOK'
    BY <1>1, <1>2, <1>4, <1>5, <1>6, <1>7 DEF TypeOK, Keeps
<1>9. Belongs'
    BY <1>1, <1>4, RegisterBelongs
<1> QED
    BY <1>5, <1>8, <1>9 DEF IInv, Belongs, RowsKept

\* A session of the relay is made for a container, or removed.
LEMMA RelayInv ==
    ASSUME IInv, NEW c \in Streams, RegisterInstance(c) \/ unregisterRelay(c),
           present' = present
    PROVE  IInv'
<1>1. TypeOK /\ Belongs /\ RowsKept /\ MailKept /\ Linked
    BY DEF IInv, Belongs, RowsKept
<1>2. /\ stream' = [stream EXCEPT ![c].mail = Tail(@)] /\ stream[c].mail # <<>>
      /\ handler' = handler /\ direct' = direct /\ row' = row /\ known' = known
      /\ word' = word /\ copy' = copy /\ edits' = edits /\ settled' = settled /\ link' = link
      /\ cleaning' = cleaning /\ wanted' = wanted /\ tracked' = tracked
      /\ cancelled' = cancelled /\ leaked' = leaked
      /\ run' = run /\ runOn' = runOn /\ handling' = handling /\ faults' = faults
    BY DEF RegisterInstance, unregisterRelay, Reads, rowVars, linkVars, instanceVars, runVars
<1>3. Keeps
    BY <1>1, <1>2, TailKeeps
<1>4. /\ relays' = relays \cup {c} \/ relays' = relays \ {c}
      /\ contested' = contested \/ contested' = contested \cup {c}
    BY DEF RegisterInstance, unregisterRelay, registerRelay, RelaysWithout, Contest
<1>5. TypeOK'
    BY <1>1, <1>2, <1>3, <1>4 DEF TypeOK, Keeps
<1>6. RelaysStay(0)
  <2>1. /\ stream[c].mail \in Mails
        /\ \A d \in Streams : d # c => stream'[d] = stream[d]
        /\ stream'[c].mail = Tail(stream[c].mail)
      BY <1>1, <1>2 DEF TypeOK, StreamRows
  <2>2. relays' \subseteq Streams /\ contested \subseteq contested'
      BY <1>1, <1>4 DEF TypeOK
  <2>3. stream'[c].mail \in {<<>>, <<"closed">>}
      BY <1>2, <2>1, MailRead
  <2>4. CASE RegisterInstance(c)
    <3>1. relays' = relays \cup {c} /\ ByAgent(c)
        BY <2>4 DEF RegisterInstance, registerRelay, ByAgent
    <3>2. handler[c] = "idle"
      <4>1. stream[c].executor \in Instances
          BY <2>4 DEF IInv, HandlersKept, RegisterInstance
      <4> QED
          BY <4>1, SessionsAssumption DEF IInv, HandlersKept
    <3>3. c \notin contested' /\ Open(c) => cleaning = {}
        BY <2>4, <3>1 DEF RegisterInstance, Contest, Rivals
    <3> QED
        BY <1>2, <2>1, <2>2, <2>3, <3>1, <3>2, <3>3 DEF RelaysStay
  <2>5. CASE unregisterRelay(c)
    <3>1. relays' = relays \ {c} /\ contested' = contested
        BY <2>5 DEF unregisterRelay, RelaysWithout
    <3>2. ~(ByAgent(c) /\ Open(c))
      <4>1. Head(stream[c].mail) = "closed" /\ Head(<<"hello">>) = "hello"
          BY <2>5 DEF unregisterRelay, Reads
      <4> QED
          BY <1>1, <1>2, <4>1 DEF MailKept
    <3> QED
        BY <1>2, <2>1, <2>2, <3>1, <3>2 DEF RelaysStay
  <2> QED
      BY <2>4, <2>5
<1>7. Belongs'
    BY <1>1, <1>2, <1>3, <1>6, KeepsBelongs
<1>8. FewerHeld
    BY <1>2, <1>3 DEF FewerHeld, Keeps
<1>9. RowsKept'
    BY <1>1, <1>2, <1>8, SameRows
<1> QED
    BY <1>5, <1>7, <1>9 DEF IInv, Belongs, RowsKept

\* The handler of a direct stream ends.
LEMMA StreamEndsInv ==
    ASSUME IInv, NEW c \in Streams, StreamEnds(c), present' = present
    PROVE  IInv'
<1>1. TypeOK /\ Belongs /\ RowsKept
    BY DEF IInv, Belongs, RowsKept
<1>2. /\ stream' = stream /\ relays' = relays /\ row' = row /\ known' = known
      /\ word' = word /\ copy' = copy /\ edits' = edits /\ settled' = settled /\ link' = link
      /\ cleaning' = cleaning /\ wanted' = wanted /\ tracked' = tracked
      /\ cancelled' = cancelled /\ leaked' = leaked /\ run' = run /\ runOn' = runOn
      /\ handling' = handling /\ faults' = faults /\ contested' = contested
    BY DEF StreamEnds, rowVars, linkVars, instanceVars, runVars
<1>3. /\ handler' \in [Streams -> {"idle", "checked", "serving"}]
      /\ direct' \in [External -> Streams \cup {0}]
    BY <1>1 DEF StreamEnds, unregisterDirect, TypeOK
<1>4. TypeOK'
    BY <1>1, <1>2, <1>3 DEF TypeOK
<1>5. Belongs'
    BY <1>1, StreamEndsBelongs
<1>6. FewerHeld
    BY <1>1, <1>2 DEF FewerHeld, StreamEnds, TypeOK
<1>7. RowsKept'
    BY <1>1, <1>2, <1>6, SameRows
<1> QED
    BY <1>4, <1>5, <1>7 DEF IInv, Belongs, RowsKept

\* What is wanted of the connector changes, and what it does not want ends.
LEMMA WantedInv ==
    ASSUME IInv, NEW i \in Instances, Detach(i) \/ WantedChanges(i), present' = present
    PROVE  IInv'
<1>1. TypeOK /\ Belongs /\ RowsKept
    BY DEF IInv, Belongs, RowsKept
<1>2. /\ stream' = stream /\ handler' = handler /\ direct' = direct /\ relays' = relays
      /\ row' = row /\ known' = known /\ word' = word /\ copy' = copy
      /\ edits' = edits /\ settled' = settled /\ link' = link /\ cleaning' = cleaning
      /\ leaked' = leaked /\ contested' = contested /\ run' = run /\ runOn' = runOn
      /\ handling' = handling
    BY DEF Detach, WantedChanges, hubVars, rowVars, linkVars, runVars
<1>3. \/ faults' = faults
      \/ faults' = faults + 1 /\ faults < MaxWanted
    BY DEF Detach, WantedChanges
<1>4. faults' \in 0..(MaxFaults + MaxWanted)
    BY <1>1, <1>3, FaultsType
<1>5. wanted' \in [Instances -> BOOLEAN]
    BY <1>1 DEF Detach, WantedChanges, TypeOK
<1>6. /\ tracked' \in [Instances -> Streams \cup {0}] /\ cancelled' \subseteq Streams
    BY <1>1 DEF Detach, CancelAndDelete, WantedChanges, TypeOK
<1>7. TypeOK'
    BY <1>1, <1>2, <1>4, <1>5, <1>6 DEF TypeOK
<1>8. Belongs'
    BY <1>1, <1>2, SameBelongs
<1>9. FewerHeld
    BY <1>2 DEF FewerHeld
<1>10. RowsKept'
    BY <1>1, <1>2, <1>3, <1>9, SameRows
<1> QED
    BY <1>7, <1>8, <1>10 DEF IInv, Belongs, RowsKept

\* An administrator's request reads a row or saves it, or an executor is deleted.
LEMMA SaysInv ==
    ASSUME IInv,
           \/ \E e \in External :
                 ResetExecutorToken(e) \/ SetExecutorEnabled(e) \/ DeleteExecutor(e)
           \/ \E d \in edits : SaveExecutor(d),
           present' = present
    PROVE  IInv'
<1>1. TypeOK /\ Belongs /\ RowsKept
    BY DEF IInv, Belongs, RowsKept
<1>2. CASE \E e \in External : ResetExecutorToken(e) \/ SetExecutorEnabled(e)
  <2> PICK e \in External : ResetExecutorToken(e) \/ SetExecutorEnabled(e)
      BY <1>2
  <2>1. PICK field, value :
            /\ Reading(e, field, value)
            /\ \/ field = "token" /\ value = faults + 1
               \/ field = "state" /\ value \in {"enabled", "disabled"}
      BY DEF ResetExecutorToken, SetExecutorEnabled
  <2>2. RowsKept' /\ edits' \subseteq Edits
      BY <1>1, <2>1, ReadingRows
  <2>3. /\ stream' = stream /\ handler' = handler /\ direct' = direct /\ relays' = relays
        /\ row' = row /\ known' = known /\ word' = word /\ settled' = settled
        /\ copy' = copy /\ link' = link /\ cleaning' = cleaning
        /\ wanted' = wanted /\ tracked' = tracked /\ cancelled' = cancelled
        /\ leaked' = leaked /\ contested' = contested /\ run' = run /\ runOn' = runOn
        /\ handling' = handling /\ faults' = faults + 1 /\ faults < MaxFaults
      BY <2>1 DEF Reading, hubVars, linkVars, instanceVars, runVars
  <2>4. faults' \in 0..(MaxFaults + MaxWanted)
      BY <1>1, <2>3, FaultsType
  <2>5. TypeOK'
      BY <1>1, <2>2, <2>3, <2>4 DEF TypeOK
  <2>6. Belongs'
      BY <1>1, <2>3, SameBelongs
  <2> QED
      BY <2>2, <2>5, <2>6 DEF IInv, Belongs, RowsKept
<1>3. CASE \/ \E e \in External : DeleteExecutor(e)
           \/ \E d \in edits : SaveExecutor(d)
  <2>1. /\ RowsKept' /\ row' \in [External -> Rows] /\ word' \in [External -> Rows]
        /\ settled' \in [External -> [state : BOOLEAN, token : BOOLEAN]]
      BY <1>1, <1>3, SaveRows, DeleteRows
  <2>2. /\ stream' = stream /\ handler' = handler /\ direct' = direct /\ relays' = relays
        /\ known' = known /\ copy' = copy /\ link' = link /\ cleaning' = cleaning
        /\ wanted' = wanted /\ tracked' = tracked /\ cancelled' = cancelled
        /\ leaked' = leaked /\ contested' = contested /\ run' = run /\ runOn' = runOn
        /\ handling' = handling /\ edits' \subseteq edits
        /\ faults' = faults \/ (faults' = faults + 1 /\ faults < MaxFaults)
      BY <1>3 DEF SaveExecutor, DeleteExecutor, hubVars, linkVars, instanceVars, runVars
  <2>3. faults' \in 0..(MaxFaults + MaxWanted)
      BY <1>1, <2>2, FaultsType
  <2>4. TypeOK'
      BY <1>1, <2>1, <2>2, <2>3 DEF TypeOK
  <2>5. Belongs'
      BY <1>1, <2>2, SameBelongs
  <2> QED
      BY <2>1, <2>4, <2>5 DEF IInv, Belongs, RowsKept
<1> QED
    BY <1>2, <1>3

\* A run is sent, carried out or given up; an executor's process starts again.
LEMMA RunInv ==
    ASSUME IInv,
           \/ \E e \in External : Configure(e) \/ DispatchRun(e)
           \/ HandlerStarts \/ LeaseExpires \/ \E c \in Streams : HandlerEnds(c),
           present' = present
    PROVE  IInv'
<1>1. TypeOK /\ Belongs /\ RowsKept /\ MailKept /\ Linked
    BY DEF IInv, Belongs, RowsKept
<1>2. /\ handler' = handler /\ direct' = direct /\ relays' = relays /\ row' = row
      /\ word' = word /\ copy' = copy /\ edits' = edits /\ settled' = settled /\ link' = link
      /\ cleaning' = cleaning /\ wanted' = wanted /\ tracked' = tracked
      /\ cancelled' = cancelled /\ leaked' = leaked /\ contested' = contested
      /\ faults' = faults
    BY DEF Configure, DispatchRun, HandlerStarts, LeaseExpires, HandlerEnds, hubVars,
        rowVars, linkVars, instanceVars
<1>3. stream' = stream \/ \E cs : stream' = Ended(cs)
    BY DEF Configure, DispatchRun, HandlerStarts, LeaseExpires, HandlerEnds, Restart
<1>4. Keeps
    BY <1>1, <1>3, EndedKeeps, SameStreams
<1>5. stream' \in [Streams -> StreamRows] /\ Belongs'
  <2>1. CASE stream' = stream
      BY <1>1, <1>2, <2>1, SameBelongs DEF TypeOK
  <2>2. CASE \E cs : stream' = Ended(cs)
    <3>1. PICK cs : stream' = Ended(cs)
        BY <2>2
    <3>2. ASSUME NEW d \in Streams, stream'[d].mail = <<>>, Open(d), ByAgent(d)
          PROVE  stream[d].mail = <<>>
        BY <1>1, <3>1, <3>2, EndedMail
    <3>3. RelaysStay(0)
        BY <1>1, <1>2, <3>2 DEF RelaysStay, TypeOK
    <3> QED
        BY <1>1, <1>2, <1>4, <3>3, KeepsBelongs DEF Keeps
  <2> QED
      BY <1>3, <2>1, <2>2
<1>6. known' \in [External -> 0..MaxFaults]
  <2>1. \A e \in External : word[e].token \in 0..MaxFaults
      BY <1>1 DEF TypeOK, Rows
  <2> QED
      BY <1>1, <2>1 DEF Configure, DispatchRun, HandlerStarts, LeaseExpires, HandlerEnds,
          rowVars, TypeOK
<1>7. handling' \subseteq Streams
  <2>1. CASE \E e \in External : Configure(e)
      BY <1>1, <2>1 DEF Configure, Restart, TypeOK
  <2>2. CASE HandlerStarts
    <3>1. runOn \in Streams
        BY <1>1, <2>2 DEF RowsKept, HandlerStarts, Sent
    <3> QED
        BY <1>1, <2>2, <3>1 DEF HandlerStarts, TypeOK
  <2>3. CASE \E c \in Streams : HandlerEnds(c)
      BY <1>1, <2>3 DEF HandlerEnds, Restart, TypeOK
  <2>4. CASE LeaseExpires \/ \E e \in External : DispatchRun(e)
      BY <1>1, <2>4 DEF LeaseExpires, DispatchRun, TypeOK
  <2> QED
      BY <2>1, <2>2, <2>3, <2>4
<1>8. run' \in {"waiting", "sent", "handling", "done"} /\ runOn' \in Streams \cup {0}
  <2>1. \A e \in External : Preferred(e) \subseteq Streams \cup {0}
      BY <1>1 DEF Preferred, SessionsOf, TypeOK
  <2> QED
      BY <1>1, <2>1 DEF Configure, DispatchRun, HandlerStarts, LeaseExpires, HandlerEnds,
          TypeOK
<1>9. TypeOK'
    BY <1>1, <1>2, <1>5, <1>6, <1>7, <1>8 DEF TypeOK
<1>11. Sent'
  <2>1. CASE \E e \in External : DispatchRun(e)
    <3>1. \A e \in External : Preferred(e) \subseteq Streams
        BY <1>1 DEF Preferred, SessionsOf, TypeOK
    <3> QED
        BY <2>1, <3>1 DEF DispatchRun, Sent
  <2>2. CASE ~\E e \in External : DispatchRun(e)
      BY <1>1, <2>2 DEF RowsKept, Sent, Configure, HandlerStarts, LeaseExpires, HandlerEnds
  <2> QED
      BY <2>1, <2>2
<1>12. FewerHeld
    BY <1>2, <1>4 DEF FewerHeld, Keeps
<1>10. RowsKept'
    BY <1>1, <1>2, <1>11, <1>12, SameRows DEF RowsKept
<1> QED
    BY <1>5, <1>9, <1>10 DEF IInv, Belongs, RowsKept

----------------------------------------------------------------------------
(* The theorems.                                                           *)

\* Nobody is connected at first.
LEMMA InitInv == Init => IInv
<1> SUFFICES ASSUME Init PROVE IInv
    OBVIOUS
<1>1. /\ None \in StreamRows /\ None.mail = <<>> /\ ~(None.way = "instance")
      /\ 0 \in 0..MaxFaults /\ 0 \in 0..MaxLinks /\ 1 \in 0..MaxLinks
      /\ 0 \in 0..(MaxFaults + MaxWanted)
  <2>1. MaxLinks \in Nat /\ MaxLinks > 0
      BY SessionsAssumption DEF MaxLinks
  <2> QED
      BY <2>1, SessionsAssumption DEF None, StreamRows, Mails
<1>2. \A c \in Streams : stream[c] = None /\ handler[c] = "idle"
    BY DEF Init
<1>3. NoRow \in Rows /\ [state |-> "enabled", token |-> 0] \in Rows
    BY <1>1 DEF NoRow, Rows
<1>4. TypeOK
  <2>1. stream \in [Streams -> StreamRows] /\ copy \in [Streams -> Rows]
      BY <1>1, <1>3 DEF Init
  <2>2. row \in [External -> Rows] /\ word \in [External -> Rows]
      BY <1>3 DEF Init
  <2>3. /\ handler \in [Streams -> {"idle", "checked", "serving"}]
        /\ direct \in [External -> Streams \cup {0}] /\ relays \subseteq Streams
        /\ known \in [External -> 0..MaxFaults]
        /\ edits \subseteq Edits
        /\ settled \in [External -> [state : BOOLEAN, token : BOOLEAN]]
      BY <1>1 DEF Init
  <2>4. /\ link \in 0..MaxLinks /\ cleaning \subseteq 1..MaxLinks
        /\ wanted \in [Instances -> BOOLEAN]
        /\ tracked \in [Instances -> Streams \cup {0}]
        /\ faults \in 0..(MaxFaults + MaxWanted)
      BY <1>1 DEF Init
  <2>5. /\ run \in {"waiting", "sent", "handling", "done"} /\ runOn \in Streams \cup {0}
        /\ handling \cup contested \cup leaked \cup cancelled \subseteq Streams
        /\ present \subseteq Executors
      BY DEF Init
  <2> QED
      BY <2>1, <2>2, <2>3, <2>4, <2>5 DEF TypeOK
<1>5. MailKept /\ Linked /\ HandlersKept
    BY <1>1, <1>2 DEF MailKept, Linked, HandlersKept
<1>6. TokensKept
    BY DEF Init, TokensKept, NoRow
<1>7. OneStream /\ SessionsKept /\ Undisturbed
    BY <1>2 DEF Init, OneStream, SessionsKept, Undisturbed, Open, None
<1>8. WordKept /\ Sent
  <2>1. ASSUME NEW e \in External, NEW field \in {"state", "token"} PROVE Held(e, field) = {}
    <3>1. {d \in edits : d.executor = e /\ d.field # field} = {}
        BY DEF Init
    <3>2. {c \in StreamsOf(e) : handler[c] = "checked"} = {}
        BY <1>2 DEF StreamsOf
    <3> QED
        BY <3>1, <3>2 DEF Held
  <2> QED
      BY <2>1 DEF Init, WordKept, Sent
<1> QED
    BY <1>4, <1>5, <1>6, <1>7, <1>8 DEF IInv

\* Every step of the control plane, the agent, the executors and the
\* administrators keeps the invariant.
LEMMA NextInv == IInv /\ [Next]_vars => IInv'
<1> SUFFICES ASSUME IInv, [Next]_vars PROVE IInv'
    OBVIOUS
<1>1. CASE UNCHANGED vars
  <2>1. /\ present' = present /\ stream' = stream /\ handler' = handler
        /\ direct' = direct /\ relays' = relays /\ row' = row /\ known' = known
        /\ word' = word /\ copy' = copy /\ edits' = edits /\ settled' = settled /\ link' = link
        /\ cleaning' = cleaning /\ wanted' = wanted /\ tracked' = tracked
        /\ cancelled' = cancelled /\ leaked' = leaked /\ contested' = contested
        /\ run' = run /\ runOn' = runOn /\ handling' = handling /\ faults' = faults
      BY <1>1 DEF vars, hubVars, rowVars, linkVars, instanceVars, runVars
  <2>2. TypeOK'
      BY <2>1 DEF IInv, TypeOK
  <2>3. Belongs'
      BY <2>1, SameBelongs DEF IInv, Belongs
  <2>4. RowsKept'
    <3>1. FewerHeld
        BY <2>1 DEF FewerHeld
    <3> QED
        BY <2>1, <3>1, SameRows DEF IInv, RowsKept
  <2> QED
      BY <2>2, <2>3, <2>4 DEF IInv, Belongs, RowsKept
<1>2. CASE Next
  <2>1. present' = present
      BY <1>2 DEF Next
  <2>2. CASE Step
    <3>1. ASSUME NEW c \in Streams, SchedulerServerConnect(c) \/ HandleRelayEnvelope(c)
          PROVE  IInv'
        BY <2>1, <3>1, HelloInv, RegisterInv, StreamEndsInv, RelayInv
        DEF SchedulerServerConnect, HandleRelayEnvelope, handleRelayExecutorMessage
    <3> QED
        BY <2>1, <2>2, <3>1, LinkInv, RunInv DEF Step
  <2>3. CASE \E e \in External \cap present :
                \/ Connects(e)
                \/ ResetExecutorToken(e) \/ SetExecutorEnabled(e) \/ DeleteExecutor(e)
                \/ Configure(e) \/ DispatchRun(e)
      BY <2>1, <2>3, OpensInv, SaysInv, RunInv DEF Connects
  <2>4. CASE \E i \in Instances \cap present :
                Attaches(i) \/ Detach(i) \/ WantedChanges(i)
      BY <2>1, <2>4, OpensInv, WantedInv DEF Attaches
  <2>6. CASE \E d \in edits : SaveExecutor(d)
      BY <2>1, <2>6, SaysInv
  <2>5. CASE LinkBreaks \/ \E c \in Streams : StreamBreaks(c) \/ InstanceEnds(c)
      BY <2>1, <2>5, BreaksInv
  <2> QED
      BY <1>2, <2>2, <2>3, <2>4, <2>5, <2>6 DEF Next, Act
<1> QED
    BY <1>1, <1>2

\* Whatever breaks, is refused, restarted or changed by administrators.
THEOREM Inductive == Spec => []IInv
<1>1. Init => IInv
    BY InitInv
<1>2. IInv /\ [Next]_vars => IInv'
    BY NextInv
<1> QED
    BY <1>1, <1>2, PTL DEF Spec

\* The streams, the hub, the rows and the connector stay well formed; a token is
\* one that an administrator has set.
THEOREM TypeCorrect == Spec => []TypeOK
<1>1. IInv => TypeOK
    BY DEF IInv
<1> QED
    BY <1>1, Inductive, PTL

\* The sessions of the hub, direct or through the agent, are of streams whose hello
\* was accepted, and open streams keep theirs but for what older streams and links
\* leave behind (unregisterDirect, unregisterRelayByAgent).
THEOREM HubMatches == Spec => []HubMatchesStreams
<1>1. IInv => HubMatchesStreams
  <2> SUFFICES ASSUME IInv, NEW c \in Streams \ contested, Open(c), Greeted(c)
               PROVE  c \in SessionsOf(stream[c].executor)
      BY DEF IInv, SessionsKept, HubMatchesStreams
  <2>1. CASE ByAgent(c)
      BY <2>1 DEF IInv, Undisturbed, Greeted, SessionsOf, StreamsOf
  <2>2. CASE ~ByAgent(c)
    <3>1. handler[c] = "serving" /\ c # 0
        BY <2>2 DEF Greeted, Streams
    <3>2. stream[c].executor \in External /\ direct[stream[c].executor] = c
        BY <2>2, <3>1 DEF IInv, Undisturbed, HandlersKept
    <3> QED
        BY <3>1, <3>2 DEF SessionsOf
  <2> QED
      BY <2>1, <2>2
<1> QED
    BY <1>1, Inductive, PTL

\* What administrators said last when nobody held an older row is in the row and is
\* what hellos are checked against, whatever requests and hellos follow or overlap
\* (ResetExecutorToken, SetExecutorEnabled, DeleteExecutor, AuthenticateExecutor).
THEOREM WordStands == Spec => []AdminsWordStands
<1>1. IInv => AdminsWordStands
    BY DEF IInv, WordKept, AdminsWordStands, Held
<1> QED
    BY <1>1, Inductive, PTL
=============================================================================
