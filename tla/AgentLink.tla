------------------------------ MODULE AgentLink ------------------------------
(***************************************************************************)
(* The link between the control plane and one agent: the handlers of its   *)
(* streams (adapter/grpc/controlplane/server.go), the hub of sessions and  *)
(* what goes through it (session_hub_extensions.go), and the receive loop  *)
(* of the agent (adapter/grpc/agent/client.go).                            *)
(*                                                                         *)
(* The agent opens a new stream as soon as the old one has failed for it;  *)
(* the control plane may notice that much later, so that handlers of       *)
(* several streams of one agent run side by side and share one entry of    *)
(* the hub.                                                                *)
(***************************************************************************)
EXTENDS Naturals, Sequences, FiniteSets

CONSTANTS
    Requests,     \* questions that wait for an answer of the agent
    Viewers,      \* administrators who watch the log of one container
    QueueSize,    \* messages a session queues for its stream
    MaxStreams,   \* bound: streams ever opened
    MaxFaults     \* bound: streams that fail by themselves

ASSUME AgentLinkAssumption ==
    /\ Requests \cap Viewers = {}
    /\ QueueSize \in Nat \ {0} /\ MaxStreams \in Nat \ {0} /\ MaxFaults \in Nat

Streams == 1..MaxStreams

VARIABLES
    \* the control plane
    handler,      \* where Server.Connect is, for each stream
    session,      \* the stream whose session the hub has, or 0
    online,       \* the flag in the agent's row
    accepted,     \* the row is enabled and has the hash of the agent's token
    held,         \* the copy of the row a handler has read: "none", or whether
                  \* it was accepted in it
    admin,        \* an administrator's request: "away", "sawOnline" or
                  \* "sawOffline" once it has read the row, "over"
    revoked,      \* the request was to disable the agent or to give it a new
                  \* token, and it has been stored
    overlapped,   \* while a handler held an older copy
    task,         \* a deployment for the agent: "open" is pending or dispatched
    replayed,     \* it was sent again over the session
    request,      \* where each question is
    on,           \* the session it was sent to
    pending,      \* questions the hub will resolve
    answer,       \* what is in the channel of each question
    viewer,       \* what each administrator does
    registered,   \* whose channel the log manager has, or "nobody"
    \* the streams
    down,         \* queued by a session and on the way to the agent
    replies,      \* answers on their way back
    broken,       \* streams that have failed
    \* the agent
    current,      \* the stream its receive loop is on, or 0
    loop,         \* "receiving" or "blocked"
    starting,     \* goroutines that are about to read the log
    reading,      \* a reader is entered for the container
    logMu,        \* "free", or "held" for ever
    faults

rowVars == <<accepted, held, admin, revoked, overlapped>>
hubVars == <<request, on, pending, answer>>
logVars == <<viewer, registered>>
readerVars == <<starting, reading, logMu>>
agentVars == <<current, loop, starting, reading, logMu>>
vars == <<handler, session, online, rowVars, task, replayed, request, on, pending, answer, viewer,
          registered, down, replies, broken, current, loop, starting, reading, logMu, faults>>

HandlerStates == {"unused", "dialed", "marked", "serving", "leaving", "unregistered", "done"}
TaskStates == {"none", "open", "received"}
Messages == {"task", "start", "stop"} \cup Requests

----------------------------------------------------------------------------
(* The hub.                                                                *)

\* Mutant: the messages of a session that was closed are still accepted.
AcceptsWhenClosed(k) == Len(down[k]) < QueueSize

\* agentSession.send: a session that was closed or whose queue is full refuses.
Accepts(k) == k = session /\ Len(down[k]) < QueueSize

Send(k, m) == down' = [down EXCEPT ![k] = Append(@, m)]

\* LogStreamManager.Unregister: the channel that is registered is closed,
\* whoever it was made for.
CloseLog ==
    /\ viewer' = [v \in Viewers |-> IF v = registered THEN "cut" ELSE viewer[v]]
    /\ registered' = "nobody"

\* failPendingByAgent: the questions that are pending get an empty answer.
failPendingByAgent ==
    /\ answer' = [q \in Requests |-> IF q \in pending THEN "offline" ELSE answer[q]]
    /\ pending' = {}

----------------------------------------------------------------------------
(* Server.Connect.                                                         *)

\* The agent dials and says hello: Authenticate looks at the row, this once.
Dial ==
    /\ current = 0 /\ accepted
    /\ \E k \in Streams :
          /\ handler[k] = "unused" /\ \A i \in Streams : i < k => handler[i] # "unused"
          /\ current' = k
          /\ handler' = [handler EXCEPT ![k] = "dialed"]
    /\ UNCHANGED <<rowVars, session, online, task, replayed, hubVars, logVars, down, replies,
                   broken, loop, readerVars, faults>>

\* Mutant: a heartbeat takes the row that its stream was authenticated with.
ReadFirstRow(k) == handler[k] = "serving" \/ accepted

\* The row that MarkConnected and Heartbeat get.
Read(k) == accepted

\* A copy they hold.  A copy matters when an administrator's write comes
\* before theirs: one that is read later can only put his word back.
ReadRow(k) ==
    /\ handler[k] \in {"dialed", "serving"} /\ held[k] = "none"
    /\ admin \in {"sawOnline", "sawOffline"}
    /\ held' = [held EXCEPT ![k] = IF Read(k) THEN "accepted" ELSE "refused"]
    /\ UNCHANGED <<accepted, admin, revoked, overlapped, handler, session, online, task,
                   replayed, hubVars, logVars, down, replies, broken, agentVars, faults>>

\* It is saved with all its columns, otherwise in one step with the read.
WriteRow(k) ==
    /\ accepted' = IF held[k] = "none" THEN Read(k) ELSE held[k] = "accepted"
    /\ held' = [held EXCEPT ![k] = "none"]
    /\ UNCHANGED <<admin, revoked, overlapped>>

MarkConnected(k) ==
    /\ handler[k] = "dialed" /\ WriteRow(k)
    /\ handler' = [handler EXCEPT ![k] = "marked"]
    /\ online' = TRUE
    /\ UNCHANGED <<session, task, replayed, hubVars, logVars, down, replies, broken,
                   agentVars, faults>>

\* An administrator disables the agent or gives it a new token: setEnabled and
\* ResetToken get the row ...
AdminReads ==
    /\ admin = "away"
    /\ admin' = IF online THEN "sawOnline" ELSE "sawOffline"
    /\ UNCHANGED <<accepted, held, revoked, overlapped, handler, session, online, task,
                   replayed, hubVars, logVars, down, replies, broken, agentVars, faults>>

\* ... and save it; a session that the agent has is left alone.
Revoke ==
    /\ admin \in {"sawOnline", "sawOffline"}
    /\ admin' = "over" /\ revoked' = TRUE
    /\ accepted' = FALSE /\ online' = (admin = "sawOnline")
    /\ overlapped' = \E k \in Streams : held[k] = "accepted"
    /\ UNCHANGED <<held, handler, session, task, replayed, hubVars, logVars, down, replies,
                   broken, agentVars, faults>>

\* Mutant: what was sent again over the older session counts for the new one.
RegisterKeepsMarks(k) ==
    /\ handler[k] = "marked"
    /\ session' = k
    /\ handler' = [handler EXCEPT ![k] = "serving"]
    /\ UNCHANGED <<rowVars, online, task, replayed, hubVars, logVars, down, replies, broken,
                   agentVars, faults>>

\* register closes the session of an older stream.
Register(k) ==
    /\ handler[k] = "marked"
    /\ session' = k
    /\ replayed' = FALSE
    /\ handler' = [handler EXCEPT ![k] = "serving"]
    /\ UNCHANGED <<rowVars, online, task, hubVars, logVars, down, replies, broken,
                   agentVars, faults>>

Recoverable == task = "open"

\* markReplay: whether the session has yet to get the task again.
markReplay == ~replayed

\* ReplayTask, over whatever session the hub has, once per session.
Replay(k) ==
    \/ /\ session # 0 /\ markReplay /\ Accepts(session)
       /\ Send(session, "task")
       /\ replayed' = TRUE
       /\ UNCHANGED handler
    \/ /\ session # 0 /\ ~markReplay
       /\ UNCHANGED <<handler, down, replayed>>
    \/ /\ session # 0 /\ markReplay /\ ~Accepts(session)
       /\ replayed' = TRUE
       /\ handler' = [handler EXCEPT ![k] = "leaving"]
       /\ UNCHANGED down
    \/ /\ session = 0
       /\ handler' = [handler EXCEPT ![k] = "leaving"]
       /\ UNCHANGED <<down, replayed>>

\* Mutant: a heartbeat leaves the flag to the first message of a stream.
HeartbeatUnseen(k) ==
    /\ handler[k] = "serving" /\ WriteRow(k)
    /\ IF Recoverable THEN Replay(k) ELSE UNCHANGED <<handler, down, replayed>>
    /\ UNCHANGED <<session, online, task, hubVars, logVars, replies, broken, agentVars, faults>>

\* A heartbeat of the stream is handled, perhaps long after it was sent; an
\* error of RecoverAgentTasks ends the stream.
Heartbeat(k) ==
    /\ handler[k] = "serving" /\ WriteRow(k)
    /\ online' = TRUE
    /\ IF Recoverable THEN Replay(k) ELSE UNCHANGED <<handler, down, replayed>>
    /\ UNCHANGED <<session, task, hubVars, logVars, replies, broken, agentVars, faults>>

\* Receiving from the stream fails.
StreamEnds(k) ==
    /\ handler[k] = "serving" /\ held[k] = "none" /\ k \in broken
    /\ handler' = [handler EXCEPT ![k] = "leaving"]
    /\ UNCHANGED <<rowVars, session, online, task, replayed, hubVars, logVars, down, replies,
                   broken, agentVars, faults>>

\* unregister, by the id of the agent.
Unregister(k) ==
    /\ handler[k] = "leaving"
    /\ handler' = [handler EXCEPT ![k] = "unregistered"]
    /\ session' = 0
    /\ failPendingByAgent
    /\ CloseLog
    /\ UNCHANGED <<rowVars, online, task, replayed, request, on, down, replies, broken, agentVars,
                   faults>>

\* MarkDisconnected; then the handler returns, the stream is closed and what was
\* on its way is lost.
MarkDisconnected(k) ==
    /\ handler[k] = "unregistered"
    /\ handler' = [handler EXCEPT ![k] = "done"]
    /\ online' = FALSE
    /\ broken' = broken \cup {k}
    /\ down' = [down EXCEPT ![k] = <<>>]
    /\ replies' = replies \ ({k} \X Requests)
    /\ UNCHANGED <<rowVars, session, task, replayed, hubVars, logVars, agentVars, faults>>

----------------------------------------------------------------------------
(* What goes through the hub.                                              *)

\* A deployment is stored and dispatched; without a session it stays pending.
Dispatch ==
    /\ task = "none"
    /\ task' = "open"
    /\ IF session # 0 /\ Accepts(session) THEN Send(session, "task") ELSE UNCHANGED down
    /\ UNCHANGED <<rowVars, handler, session, online, replayed, hubVars, logVars, replies, broken,
                   agentVars, faults>>

\* RequestHAProxyConfig looks the session up before the question is entered ...
AskConfig(q) ==
    /\ request[q] = "new" /\ session # 0
    /\ request' = [request EXCEPT ![q] = "found"]
    /\ on' = [on EXCEPT ![q] = session]
    /\ UNCHANGED <<rowVars, handler, session, online, task, replayed, pending, answer, logVars, down,
                   replies, broken, agentVars, faults>>

\* ... RequestContainerList and RequestContainerInspect enter the question first.
AskContainers(q) ==
    /\ request[q] = "new"
    /\ request' = [request EXCEPT ![q] = "entered"]
    /\ pending' = pending \cup {q}
    /\ UNCHANGED <<rowVars, handler, session, online, task, replayed, on, answer, logVars, down,
                   replies, broken, agentVars, faults>>

\* The caller returns: nothing is left of the question.
GiveUp(q) ==
    /\ request' = [request EXCEPT ![q] = "over"]
    /\ pending' = pending \ {q}
    /\ on' = [on EXCEPT ![q] = 0]
    /\ answer' = [answer EXCEPT ![q] = "none"]

getSession(q) ==
    /\ request[q] = "entered"
    /\ IF session = 0
       THEN GiveUp(q)
       ELSE /\ request' = [request EXCEPT ![q] = "asking"]
            /\ on' = [on EXCEPT ![q] = session]
            /\ UNCHANGED <<pending, answer>>
    /\ UNCHANGED <<rowVars, handler, session, online, task, replayed, logVars, down, replies, broken,
                   agentVars, faults>>

\* Either way the session may have been closed since.
SendQuestion(q) ==
    /\ request[q] \in {"found", "asking"}
    /\ IF Accepts(on[q])
       THEN /\ Send(on[q], q)
            /\ pending' = IF request[q] = "found" THEN pending \cup {q} ELSE pending
            /\ request' = [request EXCEPT ![q] = "waiting"]
            /\ UNCHANGED <<on, answer>>
       ELSE GiveUp(q) /\ UNCHANGED down
    /\ UNCHANGED <<rowVars, handler, session, online, task, replayed, logVars, replies, broken,
                   agentVars, faults>>

\* The answer arrives over a stream; one that nobody expects is dropped.
Resolve(k, q) ==
    /\ handler[k] = "serving" /\ held[k] = "none" /\ <<k, q>> \in replies
    /\ replies' = replies \ {<<k, q>>}
    /\ pending' = pending \ {q}
    /\ answer' = IF q \in pending THEN [answer EXCEPT ![q] = "ok"] ELSE answer
    /\ UNCHANGED <<rowVars, handler, session, online, task, replayed, request, on, logVars, down,
                   broken, agentVars, faults>>

\* The caller gets its answer, or its time is up.
Return(q) ==
    /\ request[q] = "waiting"
    /\ GiveUp(q)
    /\ UNCHANGED <<rowVars, handler, session, online, task, replayed, logVars, down, replies, broken,
                   agentVars, faults>>

\* The steps of a question: for a list of containers or for one container, and
\* for the configuration of HAProxy.
Question(q) == AskConfig(q) \/ AskContainers(q) \/ getSession(q) \/ SendQuestion(q) \/ Return(q)

\* StartContainerLogStream: the channel of an earlier viewer is replaced.
Watch(v) ==
    /\ viewer[v] = "away" /\ session # 0
    /\ IF Accepts(session)
       THEN /\ viewer' = [viewer EXCEPT ![v] = "watching"]
            /\ registered' = v
            /\ Send(session, "start")
       ELSE /\ registered' = "nobody"
            /\ UNCHANGED <<viewer, down>>
    /\ UNCHANGED <<rowVars, handler, session, online, task, replayed, hubVars, replies, broken,
                   agentVars, faults>>

\* StopContainerLogStream, when the browser has gone or the channel was closed.
Leave(v) ==
    /\ viewer[v] \in {"watching", "cut"}
    /\ viewer' = [w \in Viewers |-> IF w = v THEN "over"
                                   ELSE IF w = registered THEN "cut" ELSE viewer[w]]
    /\ registered' = "nobody"
    /\ IF session # 0 /\ Accepts(session) THEN Send(session, "stop") ELSE UNCHANGED down
    /\ UNCHANGED <<rowVars, handler, session, online, task, replayed, hubVars, replies, broken,
                   agentVars, faults>>

----------------------------------------------------------------------------
(* The agent.                                                              *)

StreamFails ==
    /\ current # 0 /\ current \notin broken /\ faults < MaxFaults
    /\ broken' = broken \cup {current}
    /\ faults' = faults + 1
    /\ UNCHANGED <<rowVars, handler, session, online, task, replayed, hubVars, logVars, down,
                   replies, agentVars>>

\* Receiving fails and connectOnce returns.
NoticeFailure ==
    /\ loop = "receiving" /\ current \in broken
    /\ current' = 0
    /\ UNCHANGED <<rowVars, handler, session, online, task, replayed, hubVars, logVars, down,
                   replies, broken, loop, readerVars, faults>>

\* The receive loop takes the next message: tasks, questions and new readers get
\* a goroutine each, but the end of a log needs the lock at once.
Receive ==
    LET m == Head(down[current]) IN
    /\ current # 0 /\ current \notin broken /\ loop = "receiving" /\ down[current] # <<>>
    /\ down' = [down EXCEPT ![current] = Tail(@)]
    /\ task' = IF m = "task" /\ Recoverable THEN "received" ELSE task
    /\ replies' = IF m \in Requests THEN replies \cup {<<current, m>>} ELSE replies
    /\ starting' = IF m = "start" THEN starting + 1 ELSE starting
    /\ loop' = IF m = "stop" /\ logMu = "held" THEN "blocked" ELSE "receiving"
    /\ reading' = IF m = "stop" /\ logMu = "free" THEN FALSE ELSE reading
    /\ UNCHANGED <<rowVars, handler, session, online, replayed, hubVars, logVars, broken, current,
                   logMu, faults>>

\* startLogStream.  With a reader entered already it waits for that one to be
\* done, holding the lock which that one needs to leave: neither ever goes on.
StartReading ==
    /\ starting > 0 /\ logMu = "free"
    /\ starting' = starting - 1
    /\ logMu' = IF reading THEN "held" ELSE "free"
    /\ reading' = TRUE
    /\ UNCHANGED <<rowVars, handler, session, online, task, replayed, hubVars, logVars, down, replies,
                   broken, current, loop, faults>>

\* The log ends, or a chunk finds the channel of its stream closed; the reader
\* takes the lock to leave.
ReaderEnds ==
    /\ reading /\ logMu = "free"
    /\ reading' = FALSE
    /\ UNCHANGED <<rowVars, handler, session, online, task, replayed, hubVars, logVars, down, replies,
                   broken, current, loop, starting, logMu, faults>>

----------------------------------------------------------------------------

\* Of the questions, the viewers and the administrator any may never turn up.
Init ==
    /\ handler = [k \in Streams |-> "unused"]
    /\ session = 0 /\ online = FALSE /\ task = "none" /\ replayed = FALSE
    /\ accepted = TRUE /\ held = [k \in Streams |-> "none"]
    /\ admin \in {"away", "over"} /\ revoked = FALSE /\ overlapped = FALSE
    /\ request \in [Requests -> {"new", "over"}] /\ on = [q \in Requests |-> 0]
    /\ pending = {} /\ answer = [q \in Requests |-> "none"]
    /\ viewer \in [Viewers -> {"away", "over"}] /\ registered = "nobody"
    /\ down = [k \in Streams |-> <<>>] /\ replies = {} /\ broken = {}
    /\ current = 0 /\ loop = "receiving"
    /\ starting = 0 /\ reading = FALSE /\ logMu = "free"
    /\ faults = 0

Handle(k) ==
    \/ ReadRow(k) \/ MarkConnected(k) \/ Register(k) \/ Heartbeat(k) \/ StreamEnds(k)
    \/ Unregister(k) \/ MarkDisconnected(k)

Next ==
    \/ Dial \/ NoticeFailure \/ Receive \/ StartReading \/ ReaderEnds
    \/ \E k \in Streams : Handle(k) \/ \E q \in Requests : Resolve(k, q)
    \/ Dispatch \/ StreamFails \/ AdminReads \/ Revoke
    \/ \E q \in Requests : Question(q)
    \/ \E v \in Viewers : Watch(v) \/ Leave(v)

\* The handlers and the receive loop go on, heartbeats keep coming, and an
\* administrator's request that has read the row writes it; nothing obliges
\* administrators to ask, questions, readers or the timeout.
Fairness ==
    /\ WF_vars(Dial) /\ WF_vars(NoticeFailure) /\ WF_vars(Receive) /\ WF_vars(Revoke)
    /\ \A k \in Streams : WF_vars(Handle(k)) /\ WF_vars(Heartbeat(k))

Spec == Init /\ [][Next]_vars /\ Fairness

----------------------------------------------------------------------------
(* Properties.                                                             *)

\* Every variable stays within its type.
TypeOK ==
    /\ handler \in [Streams -> HandlerStates]
    /\ session \in Streams \cup {0} /\ online \in BOOLEAN
    /\ accepted \in BOOLEAN /\ held \in [Streams -> {"none", "accepted", "refused"}]
    /\ admin \in {"away", "sawOnline", "sawOffline", "over"}
    /\ revoked \in BOOLEAN /\ overlapped \in BOOLEAN
    /\ task \in TaskStates /\ replayed \in BOOLEAN
    /\ request \in [Requests -> {"new", "found", "entered", "asking", "waiting", "over"}]
    /\ on \in [Requests -> Streams \cup {0}]
    /\ pending \subseteq Requests /\ answer \in [Requests -> {"none", "ok", "offline"}]
    /\ viewer \in [Viewers -> {"away", "watching", "cut", "over"}]
    /\ registered \in Viewers \cup {"nobody"}
    /\ down \in [Streams -> Seq(Messages)] /\ \A k \in Streams : Len(down[k]) <= QueueSize
    /\ replies \subseteq Streams \X Requests /\ broken \subseteq Streams
    /\ current \in Streams \cup {0} /\ loop \in {"receiving", "blocked"}
    /\ starting \in Nat /\ reading \in BOOLEAN /\ logMu \in {"free", "held"}
    /\ faults \in 0..MaxFaults

\* A question whose answer has not come is still pending, and the handler of
\* the stream it was sent over has yet to end and to tell it: whatever streams
\* replace or unregister each other, nobody waits for an agent that has gone
\* until its time is up.
WaitersWillBeTold ==
    \A q \in Requests :
        request[q] = "waiting" /\ answer[q] = "none" =>
            q \in pending /\ handler[on[q]] \in {"serving", "leaving"}

\* The hub's session belongs to a stream whose handler serves it.
SessionIsServed ==
    session # 0 => handler[session] \in {"serving", "leaving"}

\* An agent that was disabled or given a new token stays locked out, unless a
\* handler had read its row before and writes it back (Heartbeat, MarkConnected).
RevocationStands == revoked /\ accepted => overlapped

\* A task is received, however often its commands get lost, the session is
\* taken away by the handler of an older stream or the queue is full - unless
\* the receive loop has blocked behind a log reader that is being replaced, or
\* the agent is locked out.
TaskIsReceived == Recoverable ~> (~Recoverable \/ loop = "blocked" \/ ~accepted)

\* An agent that is connected is shown online again, whatever the handlers of
\* its older streams write when they end.
ShownOnlineAgain == []<>(online \/ loop = "blocked" \/ ~accepted)
=============================================================================
