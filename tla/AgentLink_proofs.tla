--------------------------- MODULE AgentLink_proofs ---------------------------
(***************************************************************************)
(* Theorems about AgentLink, for every number of questions, viewers,       *)
(* streams and faults.                                                     *)
(***************************************************************************)
EXTENDS AgentLink, SequenceTheorems, TLAPS

----------------------------------------------------------------------------
(* The inductive invariant.                                                *)

Serves(k) == k \in Streams /\ handler[k] \in {"serving", "leaving"}

\* A question that was asked has a stream; as long as it has no answer it is
\* pending from then on, and once it was sent somebody has yet to leave.
Asked(q) ==
    /\ request[q] \in {"found", "asking", "waiting"} => on[q] \in Streams
    /\ request[q] \in {"entered", "asking", "waiting"} /\ answer[q] = "none" =>
           q \in pending
    /\ request[q] = "waiting" /\ answer[q] = "none" => Serves(on[q])

\* What was revoked is revoked in the row and in every copy of it, unless there
\* was an older copy at the time.
Locked ==
    revoked /\ ~overlapped => ~accepted /\ \A k \in Streams : held[k] # "accepted"

IInv ==
    /\ TypeOK
    /\ SessionIsServed
    /\ \A q \in Requests : Asked(q)
    /\ Locked

----------------------------------------------------------------------------
(* Types.                                                                  *)

\* A message that a session accepts fits into its queue.
LEMMA SendType ==
    ASSUME TypeOK, NEW k \in Streams, NEW m \in Messages, Len(down[k]) < QueueSize,
           Send(k, m)
    PROVE  /\ down' \in [Streams -> Seq(Messages)]
           /\ \A i \in Streams : Len(down'[i]) <= QueueSize
<1>1. down \in [Streams -> Seq(Messages)] /\ \A i \in Streams : Len(down[i]) <= QueueSize
    BY DEF TypeOK
<1>2. /\ Append(down[k], m) \in Seq(Messages)
      /\ Len(Append(down[k], m)) = Len(down[k]) + 1
    BY <1>1, AppendProperties
<1>3. down' = [down EXCEPT ![k] = Append(down[k], m)]
    BY DEF Send
<1>4. Len(down[k]) \in Nat
    BY <1>1, LenProperties
<1> QED
    BY <1>1, <1>2, <1>3, <1>4, AgentLinkAssumption

\* A session that accepts is one of a stream.
LEMMA AcceptsStream ==
    ASSUME TypeOK, NEW k, k # 0, Accepts(k)
    PROVE  k \in Streams /\ Len(down[k]) < QueueSize
BY DEF TypeOK, Accepts

\* What is left alone of the row stays well formed.
LEMMA RowType ==
    ASSUME TypeOK, UNCHANGED rowVars
    PROVE  /\ accepted' \in BOOLEAN /\ held' \in [Streams -> {"none", "accepted", "refused"}]
           /\ admin' \in {"away", "sawOnline", "sawOffline", "over"}
           /\ revoked' \in BOOLEAN /\ overlapped' \in BOOLEAN
BY DEF TypeOK, rowVars

\* What the handler of a stream writes is well formed.
LEMMA HandleType ==
    ASSUME TypeOK, NEW k \in Streams, Handle(k)
    PROVE  TypeOK'
<1>0. WriteRow(k) => /\ accepted' \in BOOLEAN
                     /\ held' \in [Streams -> {"none", "accepted", "refused"}]
                     /\ UNCHANGED <<admin, revoked, overlapped>>
    BY DEF WriteRow, Read, TypeOK
<1>1. CASE Register(k)
    BY <1>1, RowType DEF Register, TypeOK, HandlerStates, hubVars, logVars, agentVars
<1>2. CASE Heartbeat(k)
  <2>1. /\ handler' \in [Streams -> HandlerStates] /\ replayed' \in BOOLEAN
        /\ down' \in [Streams -> Seq(Messages)]
        /\ \A i \in Streams : Len(down'[i]) <= QueueSize
    <3>1. CASE ~Recoverable
        BY <1>2, <3>1 DEF Heartbeat, TypeOK
    <3>2. CASE Recoverable /\ session # 0 /\ markReplay /\ Accepts(session)
      <4>1. Send(session, "task") /\ replayed' = TRUE /\ handler' = handler
          BY <1>2, <3>2 DEF Heartbeat, Replay
      <4>2. session \in Streams /\ Len(down[session]) < QueueSize
          BY <3>2, AcceptsStream
      <4>3. "task" \in Messages
          BY DEF Messages
      <4> QED
          BY <4>1, <4>2, <4>3, SendType DEF TypeOK
    <3>3. CASE Recoverable /\ ~(session # 0 /\ markReplay /\ Accepts(session))
      <4>1. /\ replayed' \in BOOLEAN /\ down' = down
            /\ handler' = handler \/ handler' = [handler EXCEPT ![k] = "leaving"]
          BY <1>2, <3>3 DEF Heartbeat, Replay, TypeOK
      <4> QED
          BY <4>1, RowType DEF TypeOK, HandlerStates
    <3> QED
        BY <3>1, <3>2, <3>3
  <2> QED
      BY <1>0, <1>2, <2>1 DEF Heartbeat, TypeOK, hubVars, logVars, agentVars
<1>3. CASE StreamEnds(k)
    BY <1>3, RowType DEF StreamEnds, TypeOK, HandlerStates, hubVars, logVars, agentVars
<1>4. CASE Unregister(k)
  <2>1. answer' \in [Requests -> {"none", "ok", "offline"}] /\ pending' = {}
      BY <1>4 DEF Unregister, failPendingByAgent, TypeOK
  <2>2. /\ viewer' \in [Viewers -> {"away", "watching", "cut", "over"}]
        /\ registered' = "nobody"
      BY <1>4 DEF Unregister, CloseLog, TypeOK
  <2> QED
      BY <1>4, <2>1, <2>2, RowType DEF Unregister, TypeOK, HandlerStates, agentVars
<1>5. CASE MarkDisconnected(k)
  <2>1. <<>> \in Seq(Messages) /\ Len(<<>>) = 0
      BY EmptySeq
  <2>2. /\ down' \in [Streams -> Seq(Messages)]
        /\ \A i \in Streams : Len(down'[i]) <= QueueSize
      BY <1>5, <2>1, AgentLinkAssumption DEF MarkDisconnected, TypeOK
  <2> QED
      BY <1>5, <2>2, RowType DEF MarkDisconnected, TypeOK, HandlerStates, hubVars, logVars,
          agentVars
<1>6. CASE ReadRow(k)
    BY <1>6 DEF ReadRow, TypeOK, hubVars, logVars, agentVars
<1>7. CASE MarkConnected(k)
    BY <1>0, <1>7 DEF MarkConnected, TypeOK, HandlerStates, hubVars, logVars, agentVars
<1> QED
    BY <1>1, <1>2, <1>3, <1>4, <1>5, <1>6, <1>7 DEF Handle

\* So is what a question leads to.
LEMMA QuestionType ==
    ASSUME TypeOK, NEW q \in Requests, \A p \in Requests : Asked(p), Question(q)
    PROVE  TypeOK'
<1>1. CASE AskConfig(q)
    BY <1>1, RowType DEF AskConfig, TypeOK, logVars, agentVars
<1>2. CASE AskContainers(q)
    BY <1>2, RowType DEF AskContainers, TypeOK, logVars, agentVars
<1>3. ASSUME GiveUp(q)
      PROVE  /\ request' \in [Requests -> {"new", "found", "entered", "asking", "waiting", "over"}]
             /\ on' \in [Requests -> Streams \cup {0}]
             /\ pending' \subseteq Requests
             /\ answer' \in [Requests -> {"none", "ok", "offline"}]
    BY <1>3 DEF GiveUp, TypeOK
<1>4. CASE getSession(q)
  <2>1. CASE session = 0
      BY <1>3, <1>4, <2>1, RowType DEF getSession, TypeOK, logVars, agentVars
  <2>2. CASE session # 0
      BY <1>4, <2>2, RowType DEF getSession, TypeOK, logVars, agentVars
  <2> QED
      BY <2>1, <2>2
<1>5. CASE SendQuestion(q)
  <2>1. CASE Accepts(on[q])
    <3>1. on[q] \in Streams /\ Len(down[on[q]]) < QueueSize
        BY <1>5, <2>1 DEF SendQuestion, Asked, Accepts
    <3>2. q \in Messages
        BY DEF Messages
    <3>3. Send(on[q], q)
        BY <1>5, <2>1 DEF SendQuestion
    <3>4. /\ down' \in [Streams -> Seq(Messages)]
          /\ \A i \in Streams : Len(down'[i]) <= QueueSize
        BY <3>1, <3>2, <3>3, SendType
    <3>5. /\ request' = [request EXCEPT ![q] = "waiting"]
          /\ pending' = pending \cup {q} \/ pending' = pending
          /\ UNCHANGED <<on, answer>>
        BY <1>5, <2>1 DEF SendQuestion
    <3>a. /\ request' \in [Requests -> {"new", "found", "entered", "asking", "waiting", "over"}]
          /\ pending' \subseteq Requests
        BY <3>5 DEF TypeOK
    <3>6. UNCHANGED <<rowVars, handler, session, online, task, replayed, logVars, replies,
                      broken, agentVars, faults>>
        BY <1>5 DEF SendQuestion
    <3> QED
        BY <3>4, <3>5, <3>6, <3>a, RowType DEF TypeOK, logVars, agentVars
  <2>2. CASE ~Accepts(on[q])
      BY <1>3, <1>5, <2>2, RowType DEF SendQuestion, TypeOK, logVars, agentVars
  <2> QED
      BY <2>1, <2>2
<1>6. CASE Return(q)
    BY <1>3, <1>6, RowType DEF Return, TypeOK, logVars, agentVars
<1> QED
    BY <1>1, <1>2, <1>4, <1>5, <1>6 DEF Question

\* And what the viewers of a log, a deployment and an answer do to the hub.
LEMMA HubType ==
    ASSUME TypeOK
    PROVE  /\ \A v \in Viewers : Watch(v) \/ Leave(v) => TypeOK'
           /\ \A k \in Streams, q \in Requests : Resolve(k, q) => TypeOK'
           /\ Dispatch => TypeOK'
<1>0. {"task", "start", "stop"} \subseteq Messages
    BY DEF Messages
<1>1. ASSUME NEW v \in Viewers, Watch(v) PROVE TypeOK'
  <2>1. CASE Accepts(session)
    <3>1. session \in Streams /\ Len(down[session]) < QueueSize
        BY <1>1, <2>1, AcceptsStream DEF Watch
    <3>2. /\ down' \in [Streams -> Seq(Messages)]
          /\ \A i \in Streams : Len(down'[i]) <= QueueSize
        BY <1>0, <1>1, <2>1, <3>1, SendType DEF Watch
    <3> QED
        BY <1>1, <2>1, <3>2, RowType DEF Watch, TypeOK, hubVars, agentVars
  <2>2. CASE ~Accepts(session)
      BY <1>1, <2>2, RowType DEF Watch, TypeOK, hubVars, agentVars
  <2> QED
      BY <2>1, <2>2
<1>2. ASSUME NEW v \in Viewers, Leave(v) PROVE TypeOK'
  <2>1. /\ down' \in [Streams -> Seq(Messages)]
        /\ \A i \in Streams : Len(down'[i]) <= QueueSize
    <3>1. CASE session # 0 /\ Accepts(session)
      <4>1. session \in Streams /\ Len(down[session]) < QueueSize
          BY <3>1, AcceptsStream
      <4> QED
          BY <1>0, <1>2, <3>1, <4>1, SendType DEF Leave
    <3>2. CASE ~(session # 0 /\ Accepts(session))
        BY <1>2, <3>2 DEF Leave, TypeOK
    <3> QED
        BY <3>1, <3>2
  <2> QED
      BY <1>2, <2>1, RowType DEF Leave, TypeOK, hubVars, agentVars
<1>3. ASSUME NEW k \in Streams, NEW q \in Requests, Resolve(k, q) PROVE TypeOK'
    BY <1>3, RowType DEF Resolve, TypeOK, logVars, agentVars
<1>4. ASSUME Dispatch PROVE TypeOK'
  <2>1. /\ down' \in [Streams -> Seq(Messages)]
        /\ \A i \in Streams : Len(down'[i]) <= QueueSize
    <3>1. CASE session # 0 /\ Accepts(session)
      <4>1. session \in Streams /\ Len(down[session]) < QueueSize
          BY <3>1, AcceptsStream
      <4> QED
          BY <1>0, <1>4, <3>1, <4>1, SendType DEF Dispatch
    <3>2. CASE ~(session # 0 /\ Accepts(session))
        BY <1>4, <3>2 DEF Dispatch, TypeOK
    <3> QED
        BY <3>1, <3>2
  <2> QED
      BY <1>4, <2>1, RowType DEF Dispatch, TypeOK, TaskStates, hubVars, logVars, agentVars
<1> QED
    BY <1>1, <1>2, <1>3, <1>4

\* What the agent and an administrator do is well formed too.
LEMMA AgentType ==
    ASSUME TypeOK,
           \/ Dial \/ NoticeFailure \/ Receive \/ StartReading \/ ReaderEnds
           \/ StreamFails \/ AdminReads \/ Revoke
    PROVE  TypeOK'
<1>1. CASE Dial
    BY <1>1, RowType DEF Dial, TypeOK, HandlerStates, hubVars, logVars, readerVars
<1>2. CASE NoticeFailure
    BY <1>2, RowType DEF NoticeFailure, TypeOK, hubVars, logVars, readerVars
<1>3. CASE Receive
  <2> DEFINE m == Head(down[current])
  <2>1. current \in Streams /\ down[current] \in Seq(Messages) /\ down[current] # <<>>
      BY <1>3 DEF Receive, TypeOK
  <2>2. /\ m \in Messages /\ Tail(down[current]) \in Seq(Messages)
        /\ Len(Tail(down[current])) = Len(down[current]) - 1
      BY <2>1, HeadTailProperties
  <2>3. Len(down[current]) \in Nat
      BY <2>1, LenProperties
  <2>4. down' = [down EXCEPT ![current] = Tail(down[current])]
      BY <1>3 DEF Receive
  <2>5. Len(Tail(down[current])) <= QueueSize
      BY <2>1, <2>2, <2>3, AgentLinkAssumption DEF TypeOK
  <2>6. /\ down' \in [Streams -> Seq(Messages)]
        /\ \A i \in Streams : Len(down'[i]) <= QueueSize
      BY <2>1, <2>2, <2>4, <2>5 DEF TypeOK
  <2>7. task' \in TaskStates
      BY <1>3, RowType DEF Receive, TypeOK, TaskStates
  <2>8. replies' \subseteq Streams \X Requests
      BY <1>3, <2>1 DEF Receive, TypeOK
  <2>9. starting' \in Nat /\ loop' \in {"receiving", "blocked"} /\ reading' \in BOOLEAN
    <3>1. starting' = IF m = "start" THEN starting + 1 ELSE starting
        BY <1>3 DEF Receive
    <3>2. reading' = FALSE \/ reading' = reading
        BY <1>3 DEF Receive
    <3>3. loop' \in {"receiving", "blocked"}
        BY <1>3 DEF Receive
    <3> HIDE DEF m
    <3>4. starting' \in Nat
        BY <3>1 DEF TypeOK
    <3> QED
        BY <3>2, <3>3, <3>4 DEF TypeOK
  <2> QED
      BY <1>3, <2>6, <2>7, <2>8, <2>9, RowType DEF Receive, TypeOK, hubVars, logVars
<1>4. CASE StartReading
    BY <1>4, RowType DEF StartReading, TypeOK, hubVars, logVars
<1>5. CASE ReaderEnds
    BY <1>5, RowType DEF ReaderEnds, TypeOK, hubVars, logVars
<1>6. CASE StreamFails
    BY <1>6, AgentLinkAssumption, RowType DEF StreamFails, TypeOK, hubVars, logVars, agentVars
<1>7. CASE AdminReads
    BY <1>7 DEF AdminReads, TypeOK, hubVars, logVars, agentVars
<1>8. CASE Revoke
    BY <1>8 DEF Revoke, TypeOK, hubVars, logVars, agentVars
<1> QED
    BY <1>1, <1>2, <1>3, <1>4, <1>5, <1>6, <1>7, <1>8

----------------------------------------------------------------------------
(* Who serves, and who is told.                                            *)

\* Sessions and handlers: the steps of the handlers, and a new stream.
LEMMA HandleServed ==
    ASSUME IInv, NEW k \in Streams, Handle(k)
    PROVE  SessionIsServed'
<1>1. TypeOK /\ SessionIsServed
    BY DEF IInv
<1>2. CASE Register(k)
    BY <1>1, <1>2 DEF Register, SessionIsServed, TypeOK
<1>3. CASE Heartbeat(k)
  <2>1. /\ session' = session /\ handler[k] = "serving"
        /\ handler' = handler \/ handler' = [handler EXCEPT ![k] = "leaving"]
      BY <1>3 DEF Heartbeat, Replay
  <2> QED
      BY <1>1, <2>1 DEF SessionIsServed, TypeOK
<1>4. CASE StreamEnds(k)
    BY <1>1, <1>4 DEF StreamEnds, SessionIsServed, TypeOK
<1>5. CASE Unregister(k)
    BY <1>1, <1>5 DEF Unregister, SessionIsServed, TypeOK
<1>6. CASE MarkDisconnected(k)
    BY <1>1, <1>6 DEF MarkDisconnected, SessionIsServed, TypeOK
<1>7. CASE ReadRow(k) \/ MarkConnected(k)
    BY <1>1, <1>7 DEF ReadRow, MarkConnected, SessionIsServed, TypeOK
<1> QED
    BY <1>2, <1>3, <1>4, <1>5, <1>6, <1>7 DEF Handle

\* A handler that leaves tells every question that is pending; any other step of
\* a handler leaves the questions as they are and goes on serving.
LEMMA HandleAsked ==
    ASSUME IInv, NEW k \in Streams, Handle(k), NEW q \in Requests
    PROVE  Asked(q)'
<1>1. TypeOK /\ Asked(q)
    BY DEF IInv
<1>2. CASE Unregister(k)
  <2>1. /\ request' = request /\ on' = on
        /\ answer'[q] = IF q \in pending THEN "offline" ELSE answer[q]
      BY <1>2 DEF Unregister, failPendingByAgent
  <2> QED
      BY <1>1, <2>1 DEF Asked
<1>3. CASE ~Unregister(k)
  <2>1. request' = request /\ on' = on /\ answer' = answer /\ pending' = pending
      BY <1>3 DEF Handle, ReadRow, MarkConnected, Register, Heartbeat, StreamEnds,
          MarkDisconnected, hubVars
  <2>2. \A i \in Streams : Serves(i) => Serves(i)'
    <3>1. CASE Heartbeat(k)
      <4>1. /\ handler[k] = "serving"
            /\ handler' = handler \/ handler' = [handler EXCEPT ![k] = "leaving"]
          BY <3>1 DEF Heartbeat, Replay
      <4> QED
          BY <1>1, <4>1 DEF Serves, TypeOK
    <3>2. CASE ReadRow(k) \/ MarkConnected(k) \/ Register(k) \/ StreamEnds(k)
               \/ MarkDisconnected(k)
        BY <1>1, <3>2 DEF ReadRow, MarkConnected, Register, StreamEnds, MarkDisconnected,
            Serves, TypeOK
    <3> QED
        BY <1>3, <3>1, <3>2 DEF Handle
  <2> QED
      BY <1>1, <2>1, <2>2 DEF Asked
<1> QED
    BY <1>2, <1>3

\* A question changes nothing of another one, and no handler.
LEMMA QuestionAsked ==
    ASSUME IInv, NEW p \in Requests, Question(p), NEW q \in Requests
    PROVE  Asked(q)'
<1>1. TypeOK /\ SessionIsServed /\ Asked(q) /\ handler' = handler
    BY DEF IInv, Question, AskConfig, AskContainers, getSession, SendQuestion, Return
<1>2. CASE q # p
  <2>1. /\ request'[q] = request[q] /\ on'[q] = on[q] /\ answer'[q] = answer[q]
        /\ q \in pending <=> q \in pending'
      BY <1>1, <1>2 DEF Question, AskConfig, AskContainers, getSession, SendQuestion, Return,
          GiveUp, TypeOK
  <2> QED
      BY <1>1, <2>1 DEF Asked, Serves
<1>3. CASE q = p
  <2>1. CASE GiveUp(q)
    <3>1. request'[q] = "over"
        BY <2>1, <1>1 DEF GiveUp, TypeOK
    <3> QED
        BY <3>1 DEF Asked
  <2>2. CASE AskConfig(q)
    <3>1. request'[q] = "found" /\ on'[q] = session /\ session \in Streams
        BY <2>2, <1>1 DEF AskConfig, TypeOK
    <3> QED
        BY <3>1 DEF Asked
  <2>3. CASE AskContainers(q)
    <3>1. request'[q] = "entered" /\ q \in pending'
        BY <2>3, <1>1 DEF AskContainers, TypeOK
    <3> QED
        BY <3>1 DEF Asked
  <2>4. CASE getSession(q) /\ session # 0
    <3>1. /\ request[q] = "entered" /\ request'[q] = "asking" /\ on'[q] = session
          /\ session \in Streams /\ pending' = pending /\ answer' = answer
        BY <2>4, <1>1 DEF getSession, TypeOK
    <3> QED
        BY <3>1, <1>1 DEF Asked
  <2>5. CASE SendQuestion(q) /\ Accepts(on[q])
    <3>1. /\ request[q] \in {"found", "asking"} /\ request'[q] = "waiting"
          /\ on' = on /\ answer' = answer
          /\ pending' = IF request[q] = "found" THEN pending \cup {q} ELSE pending
        BY <2>5, <1>1 DEF SendQuestion, TypeOK
    <3>2. on[q] \in Streams /\ on[q] = session
        BY <2>5, <3>1, <1>1 DEF Asked, Accepts
    <3>3. Serves(on[q])
        BY <3>2, <1>1 DEF Serves, SessionIsServed, Streams
    <3> QED
        BY <3>1, <3>2, <3>3, <1>1 DEF Asked, Serves
  <2> QED
      BY <1>3, <2>1, <2>2, <2>3, <2>4, <2>5 DEF Question, getSession, SendQuestion, Return
<1> QED
    BY <1>2, <1>3

\* The other steps: a new stream, an answer, and what leaves the questions alone.
LEMMA OtherSteps ==
    ASSUME IInv,
           \/ Dial \/ NoticeFailure \/ Receive \/ StartReading \/ ReaderEnds
           \/ Dispatch \/ StreamFails \/ AdminReads \/ Revoke
           \/ \E v \in Viewers : Watch(v) \/ Leave(v)
           \/ \E k \in Streams, q \in Requests : Resolve(k, q)
    PROVE  SessionIsServed' /\ \A q \in Requests : Asked(q)'
<1>1. TypeOK /\ SessionIsServed /\ \A q \in Requests : Asked(q)
    BY DEF IInv
<1>2. CASE Dial
  <2>1. /\ request' = request /\ on' = on /\ pending' = pending /\ answer' = answer
        /\ session' = session
      BY <1>2 DEF Dial, hubVars
  <2>2. \A i \in Streams : Serves(i) => Serves(i)'
      BY <1>1, <1>2 DEF Dial, Serves, TypeOK
  <2>3. SessionIsServed'
      BY <1>1, <2>1, <2>2 DEF SessionIsServed, Serves, TypeOK
  <2> QED
      BY <1>1, <2>1, <2>2, <2>3 DEF Asked
<1>3. ASSUME NEW k \in Streams, NEW q \in Requests, Resolve(k, q)
      PROVE  SessionIsServed' /\ \A p \in Requests : Asked(p)'
  <2>1. /\ handler' = handler /\ session' = session /\ request' = request /\ on' = on
        /\ pending' = pending \ {q}
        /\ answer' = IF q \in pending THEN [answer EXCEPT ![q] = "ok"] ELSE answer
      BY <1>3 DEF Resolve
  <2>2. ASSUME NEW p \in Requests PROVE Asked(p)'
    <3>1. CASE p = q /\ q \in pending
      <4>1. answer'[q] = "ok"
          BY <1>1, <2>1, <3>1 DEF TypeOK
      <4> QED
          BY <1>1, <2>1, <3>1, <4>1 DEF Asked
    <3>2. CASE ~(p = q /\ q \in pending)
      <4>1. answer'[p] = answer[p] /\ (p \in pending <=> p \in pending')
          BY <1>1, <2>1, <3>2 DEF TypeOK
      <4> QED
          BY <1>1, <2>1, <4>1 DEF Asked, Serves
    <3> QED
        BY <3>1, <3>2
  <2> QED
      BY <1>1, <2>1, <2>2 DEF SessionIsServed
<1>4. CASE \/ NoticeFailure \/ Receive \/ StartReading \/ ReaderEnds
           \/ Dispatch \/ StreamFails \/ AdminReads \/ Revoke
           \/ \E v \in Viewers : Watch(v) \/ Leave(v)
  <2>1. /\ handler' = handler /\ session' = session /\ request' = request /\ on' = on
        /\ pending' = pending /\ answer' = answer
      BY <1>4 DEF NoticeFailure, Receive, StartReading, ReaderEnds, Dispatch, StreamFails,
          AdminReads, Revoke, Watch, Leave, hubVars
  <2> QED
      BY <1>1, <2>1 DEF SessionIsServed, Asked, Serves
<1> QED
    BY <1>2, <1>3, <1>4

\* Only an administrator revokes; a handler writes the row back as it is, or the
\* copy it holds.
LEMMA StaysLocked ==
    ASSUME IInv, Next
    PROVE  Locked'
<1>1. TypeOK /\ Locked
    BY DEF IInv
<1>2. CASE Revoke
    BY <1>1, <1>2 DEF Revoke, Locked, TypeOK
<1>3. ASSUME NEW k \in Streams, WriteRow(k) PROVE Locked'
  <2>1. /\ accepted' = IF held[k] = "none" THEN accepted ELSE held[k] = "accepted"
        /\ \A i \in Streams : held'[i] = held[i] \/ held'[i] = "none"
        /\ revoked' = revoked /\ overlapped' = overlapped
      BY <1>1, <1>3 DEF WriteRow, Read, TypeOK
  <2>2. CASE revoked /\ ~overlapped
      BY <1>1, <2>1, <2>2 DEF Locked
  <2>3. CASE ~(revoked /\ ~overlapped)
      BY <2>1, <2>3 DEF Locked
  <2> QED
      BY <2>2, <2>3
<1>4. ASSUME NEW k \in Streams, ReadRow(k) PROVE Locked'
  <2>1. /\ accepted' = accepted /\ revoked' = revoked /\ overlapped' = overlapped
        /\ \A i \in Streams :
              held'[i] = held[i] \/ (held'[i] = IF accepted THEN "accepted" ELSE "refused")
      BY <1>1, <1>4 DEF ReadRow, Read, TypeOK
  <2> QED
      BY <1>1, <2>1 DEF Locked
<1>5. CASE AdminReads
    BY <1>1, <1>5 DEF AdminReads, Locked
<1>6. CASE UNCHANGED rowVars
    BY <1>1, <1>6 DEF rowVars, Locked
<1>7. ASSUME NEW k \in Streams, Handle(k) PROVE Locked'
    BY <1>3, <1>4, <1>6, <1>7 DEF Handle, MarkConnected, Register, Heartbeat, StreamEnds,
        Unregister, MarkDisconnected
<1>8. ASSUME NEW q \in Requests, Question(q) PROVE UNCHANGED rowVars
    BY <1>8 DEF Question, AskConfig, AskContainers, getSession, SendQuestion, Return
<1>9. ASSUME \/ Dial \/ NoticeFailure \/ Receive \/ StartReading \/ ReaderEnds
             \/ Dispatch \/ StreamFails
             \/ \E v \in Viewers : Watch(v) \/ Leave(v)
             \/ \E k \in Streams, q \in Requests : Resolve(k, q)
      PROVE  UNCHANGED rowVars
    BY <1>9 DEF Dial, NoticeFailure, Receive, StartReading, ReaderEnds, Dispatch,
        StreamFails, Watch, Leave, Resolve
<1> QED
    BY <1>2, <1>5, <1>6, <1>7, <1>8, <1>9 DEF Next

----------------------------------------------------------------------------
(* The theorems.                                                           *)

\* No stream and no question is there at first.
LEMMA InitInv == Init => IInv
<1> SUFFICES ASSUME Init PROVE IInv
    OBVIOUS
<1>1. <<>> \in Seq(Messages) /\ Len(<<>>) = 0
    BY EmptySeq
<1>2. TypeOK
  <2>1. /\ down \in [Streams -> Seq(Messages)]
        /\ \A k \in Streams : Len(down[k]) <= QueueSize
      BY <1>1, AgentLinkAssumption DEF Init
  <2>2. /\ handler \in [Streams -> HandlerStates]
        /\ session \in Streams \cup {0} /\ online \in BOOLEAN
        /\ task \in TaskStates /\ replayed \in BOOLEAN
        /\ accepted \in BOOLEAN /\ held \in [Streams -> {"none", "accepted", "refused"}]
        /\ admin \in {"away", "sawOnline", "sawOffline", "over"}
        /\ revoked \in BOOLEAN /\ overlapped \in BOOLEAN
      BY DEF Init, HandlerStates, TaskStates
  <2>3. /\ request \in [Requests -> {"new", "found", "entered", "asking", "waiting", "over"}]
        /\ on \in [Requests -> Streams \cup {0}]
        /\ pending \subseteq Requests /\ answer \in [Requests -> {"none", "ok", "offline"}]
    <3>1. request \in [Requests -> {"new", "over"}]
        BY DEF Init
    <3> QED
        BY <3>1 DEF Init
  <2>4. viewer \in [Viewers -> {"away", "watching", "cut", "over"}]
    <3>1. viewer \in [Viewers -> {"away", "over"}]
        BY DEF Init
    <3> QED
        BY <3>1
  <2>5. /\ registered \in Viewers \cup {"nobody"}
        /\ current \in Streams \cup {0} /\ loop \in {"receiving", "blocked"}
        /\ reading \in BOOLEAN /\ logMu \in {"free", "held"}
      BY DEF Init
  <2>6. replies \subseteq Streams \X Requests /\ broken \subseteq Streams
      BY DEF Init
  <2>7. starting \in Nat /\ faults \in 0..MaxFaults
      BY AgentLinkAssumption DEF Init
  <2> QED
      BY <2>1, <2>2, <2>3, <2>4, <2>5, <2>6, <2>7 DEF TypeOK
<1>3. SessionIsServed
    BY DEF Init, SessionIsServed
<1>4. \A q \in Requests : Asked(q)
    BY DEF Init, Asked
<1>5. Locked
    BY DEF Init, Locked
<1> QED
    BY <1>2, <1>3, <1>4, <1>5 DEF IInv

\* Every step of the handlers, the hub and the agent keeps the invariant.
LEMMA NextInv == IInv /\ [Next]_vars => IInv'
<1> SUFFICES ASSUME IInv, [Next]_vars PROVE IInv'
    OBVIOUS
<1>0. CASE UNCHANGED vars
    BY <1>0 DEF vars, rowVars, IInv, TypeOK, SessionIsServed, Asked, Serves, Locked
<1>1. Next => Locked'
    BY StaysLocked
<1>2. ASSUME NEW k \in Streams, Handle(k) PROVE IInv'
  <2>1. TypeOK'
      BY <1>2, HandleType DEF IInv
  <2>2. Next
      BY <1>2 DEF Next
  <2> QED
      BY <1>1, <1>2, <2>1, <2>2, HandleServed, HandleAsked DEF IInv
<1>3. ASSUME NEW p \in Requests, Question(p) PROVE IInv'
  <2>1. TypeOK'
      BY <1>3, QuestionType DEF IInv
  <2>2. SessionIsServed'
      BY <1>3 DEF IInv, SessionIsServed, Question, AskConfig, AskContainers, getSession,
          SendQuestion, Return
  <2>3. Next
      BY <1>3 DEF Next
  <2> QED
      BY <1>1, <1>3, <2>1, <2>2, <2>3, QuestionAsked DEF IInv
<1>4. ASSUME \/ Dial \/ NoticeFailure \/ Receive \/ StartReading \/ ReaderEnds
             \/ Dispatch \/ StreamFails \/ AdminReads \/ Revoke
             \/ \E v \in Viewers : Watch(v) \/ Leave(v)
             \/ \E k \in Streams, q \in Requests : Resolve(k, q)
      PROVE  IInv'
  <2>1. TypeOK'
      BY <1>4, AgentType, HubType DEF IInv
  <2>2. Next
      BY <1>4 DEF Next
  <2> QED
      BY <1>1, <1>4, <2>1, <2>2, OtherSteps DEF IInv
<1> QED
    BY <1>0, <1>2, <1>3, <1>4 DEF Next

\* However the handlers of an agent's streams register, unregister and end.
THEOREM Inductive == Spec => []IInv
<1>1. Init => IInv
    BY InitInv
<1>2. IInv /\ [Next]_vars => IInv'
    BY NextInv
<1> QED
    BY <1>1, <1>2, PTL DEF Spec

\* Every variable of the link stays within its type; a queue never holds more
\* than its size (agentSession.send).
THEOREM TypeCorrect == Spec => []TypeOK
<1>1. IInv => TypeOK
    BY DEF IInv
<1> QED
    BY <1>1, Inductive, PTL

\* The hub's session belongs to a stream that is still served, although
\* unregister goes by the agent and not by the stream.
THEOREM SessionServed == Spec => []SessionIsServed
<1>1. IInv => SessionIsServed
    BY DEF IInv
<1> QED
    BY <1>1, Inductive, PTL

\* A question without an answer is pending and the handler of its stream has yet
\* to end and to tell it (failPendingByAgent).
THEOREM WaitersAreTold == Spec => []WaitersWillBeTold
<1>1. IInv => WaitersWillBeTold
    BY DEF IInv, WaitersWillBeTold, Asked, Serves
<1> QED
    BY <1>1, Inductive, PTL

\* What an administrator revoked stays revoked, unless a handler had read the row
\* before (MarkConnected, Heartbeat).
THEOREM RevocationHolds == Spec => []RevocationStands
<1>1. IInv => RevocationStands
    BY DEF IInv, Locked, RevocationStands
<1> QED
    BY <1>1, Inductive, PTL
=============================================================================
