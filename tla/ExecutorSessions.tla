--------------------------- MODULE ExecutorSessions ---------------------------
(***************************************************************************)
(* How executors of the job scheduler are reached: the control plane's hub *)
(* of their sessions (adapter/grpc/controlplane/scheduler_server.go), the  *)
(* relay of an agent (adapter/grpc/agent/scheduler_relay.go), the agent's  *)
(* connector to the containers it runs (scheduler_instance.go), the        *)
(* executor's SDK (pkg/scheduler/sdk/client.go) and the rows that          *)
(* administrators and connecting executors write                           *)
(* (scheduler/application/service.go).                                     *)
(*                                                                         *)
(* A stream number is used again when nobody knows the stream any more.    *)
(***************************************************************************)
EXTENDS Naturals, Sequences, FiniteSets

CONSTANTS
    External,     \* executors that connect by themselves, directly or by the relay
    Instances,    \* containers that the agent connects to
    MaxExecutors, \* bound: executors at the same time
    NStreams,     \* bound: streams at the same time
    MaxFaults,    \* bound: broken streams, lost links, hellos in vain, administrators' changes
    MaxWanted     \* bound: the same, once the containers that are wanted change

ASSUME SessionsAssumption ==
    /\ External \cap Instances = {}
    /\ MaxExecutors \in Nat \ {0} /\ NStreams \in Nat \ {0} /\ MaxFaults \in Nat /\ MaxWanted \in Nat

Streams == 1..NStreams
MaxLinks == 2 + MaxFaults
Executors == External \cup Instances
NoRow == [state |-> "absent", token |-> 0]
None == [executor |-> "none", way |-> "none", peer |-> "gone", mail |-> <<>>, via |-> 0]

VARIABLES
    present,      \* the executors there are
    stream,       \* of each number: whose, its way, the executor's end, what is on its way
    handler,      \* what the control plane does with it
    direct,       \* the hub: the session of the executor's own stream, or 0
    relays,       \* the hub: streams with a session through the agent
    row,          \* the executor's row
    copy,         \* the row that the authentication of a stream has read
    known,        \* the token an executor has been given
    edits,        \* rows that administrators have read, changed and are about to save
    word,         \* what administrators said last, of each column
    settled,      \* nobody held an older row when they said it
    link,         \* the agent's stream to the control plane, or 0
    cleaning,     \* those that have ended and are still to be cleaned up after
    wanted,       \* containers that are live or candidate and have an SDK port
    tracked,      \* the connector's session of each, or 0
    cancelled,    \* streams it has told to end
    contested,    \* open streams whose session is still to be taken away by what is
                  \* left of an older stream or link, or whose hello a link lost
    leaked,       \* streams whose entry was forgotten for another one's sake
    run,          \* a run for the external executor
    runOn,        \* the stream it was sent on
    handling,     \* streams of an SDK whose handler works on the run
    faults        \* disturbances so far

hubVars == <<direct, relays>>
rowVars == <<row, known, edits, word, settled>>
linkVars == <<link, cleaning>>
instanceVars == <<wanted, tracked, cancelled, leaked>>
runVars == <<run, runOn, handling>>
vars == <<present, stream, handler, hubVars, rowVars, copy, linkVars, instanceVars,
          contested, runVars, faults>>

Open(c) == stream[c].peer = "open"
ByAgent(c) == stream[c].way \in {"relay", "instance"}
StreamsOf(e) == {c \in Streams : stream[c].executor = e}
OpenOf(e) == {c \in StreamsOf(e) : Open(c)}

SessionsOf(e) ==
    (IF e \in External THEN {direct[e]} \ {0} ELSE {}) \cup (relays \cap StreamsOf(e))
Offered(e) == SessionsOf(e) # {}

\* Nobody knows the stream any more.
Unused(c) ==
    /\ ~Open(c) /\ handler[c] = "idle" /\ stream[c].mail = <<>>
    /\ c \notin relays \cup handling /\ (\A e \in External : direct[e] # c)
    /\ (\A i \in Instances : tracked[i] # c) /\ runOn # c

NewStream(e, w, c) ==
    /\ Unused(c) /\ \A d \in Streams : d < c => ~Unused(d)
    /\ stream' = [stream EXCEPT ![c] = [executor |-> e, way |-> w, peer |-> "open",
                                        mail |-> <<"hello">>, via |-> 0]]
    /\ UNCHANGED handler
    /\ contested' = contested \ {c} /\ leaked' = leaked \ {c} /\ cancelled' = cancelled \ {c}

----------------------------------------------------------------------------
(* Streams and the agent's link.                                           *)

\* sendUpstream: what an agent without a link has to say of a stream is lost.
sendUpstream(c, message) ==
    IF ByAgent(c) /\ link # 0 THEN Append(stream[c].mail, message) ELSE stream[c].mail

\* The agent's message that an open stream has ended.
sendSessionClosed(c) == IF Open(c) THEN sendUpstream(c, "closed") ELSE stream[c].mail

\* The streams of a set end for the executors.
Ended(cs) ==
    [c \in Streams |->
        IF c \notin cs THEN stream[c]
        ELSE [stream[c] EXCEPT !.peer = "gone", !.mail = sendSessionClosed(c)]]

\* connectOnce: an executor has one stream at a time.
Connect(e, c, w) ==
    LET accepted == row[e].state = "enabled" /\ row[e].token = known[e] IN
    /\ OpenOf(e) = {} /\ (w = "relay" => link # 0)
    /\ accepted \/ faults < MaxFaults
    /\ faults' = IF accepted THEN faults ELSE faults + 1
    /\ NewStream(e, w, c)
    /\ UNCHANGED <<hubVars, rowVars, copy, linkVars, wanted, tracked, runVars>>

\* A stream of an external executor breaks; a hello that is on the way to the
\* control plane may get lost with it.
StreamBreaks(c) ==
    /\ Open(c) /\ stream[c].way # "instance" /\ faults < MaxFaults
    /\ faults' = faults + 1
    /\ \/ stream' = Ended({c})
       \/ /\ ~ByAgent(c)
          /\ stream' = [stream EXCEPT ![c].mail = <<>>, ![c].peer = "gone"]
    /\ UNCHANGED <<handler, hubVars, rowVars, copy, linkVars, instanceVars,
                   contested, runVars>>

\* The agent's stream ends: what it was carrying is lost, and what the relay is
\* told from now on as well.
LinkEnds ==
    /\ link' = 0
    /\ cleaning' = cleaning \cup {link}
    /\ contested' = contested \cup {c \in Streams : ByAgent(c) /\ Open(c)}

LoseMail(s) == [c \in Streams |-> IF ByAgent(c) THEN [s[c] EXCEPT !.mail = <<>>] ELSE s[c]]

LinkBreaks ==
    /\ link # 0 /\ faults < MaxFaults
    /\ faults' = faults + 1
    /\ LinkEnds
    /\ stream' = LoseMail(stream)
    /\ UNCHANGED <<handler, hubVars, rowVars, copy, instanceVars, runVars>>

NotInUse(k) == k \notin cleaning /\ \A c \in Streams : stream[c].via # k

\* The agent connects again.
LinkReturns ==
    /\ link = 0
    /\ \E k \in 1..MaxLinks :
          /\ NotInUse(k) /\ \A l \in 1..MaxLinks : l < k => ~NotInUse(l)
          /\ link' = k
    /\ UNCHANGED <<stream, handler, hubVars, rowVars, copy, cleaning,
                   instanceVars, contested, runVars, faults>>

\* The deferred CleanupAgentSessions of one of the agent's streams removes
\* every session through the agent, those of its next stream included.
CleanupAgentSessions(k) ==
    /\ k \in cleaning /\ \A c \in Streams : stream[c].via # k
    /\ cleaning' = cleaning \ {k}
    /\ relays' = {}
    /\ UNCHANGED <<stream, handler, direct, rowVars, copy, link, instanceVars, contested,
                   runVars, faults>>

----------------------------------------------------------------------------
(* The hello.                                                              *)

\* The control plane reads what an agent's stream brings one by one.
Reads(c, message) ==
    /\ stream[c].mail # <<>> /\ Head(stream[c].mail) = message
    /\ ByAgent(c) => \A d \in Streams : stream[d].via # link

\* The first half of AuthenticateExecutor, for a hello that it accepts.
Authenticate(c) ==
    LET e == stream[c].executor IN
    /\ e \in External /\ Reads(c, "hello")
    /\ row[e].state = "enabled" /\ row[e].token = known[e]
    /\ stream' = [stream EXCEPT ![c].mail = Tail(@), ![c].via = IF ByAgent(c) THEN link ELSE 0]
    /\ handler' = [handler EXCEPT ![c] = "checked"]
    /\ copy' = [copy EXCEPT ![c] = row[e]]
    /\ UNCHANGED <<hubVars, rowVars, linkVars, instanceVars, contested, runVars,
                   faults>>

\* A hello that it refuses ends the stream that brought it: for an executor
\* behind the relay that is the agent's own stream, and its own stays open.
Refuse(c) ==
    LET e == stream[c].executor IN
    /\ e \in External /\ Reads(c, "hello")
    /\ row[e].state # "enabled" \/ row[e].token # known[e]
    /\ IF ByAgent(c) THEN LinkEnds /\ stream' = LoseMail(stream)
       ELSE /\ stream' = [stream EXCEPT ![c].mail = <<>>, ![c].peer = "gone"]
            /\ UNCHANGED <<link, cleaning, contested>>
    /\ handler' = [handler EXCEPT ![c] = "idle"]
    /\ UNCHANGED <<hubVars, rowVars, copy, instanceVars, runVars, faults>>

\* Mutant: an executor that is offered already gets no session more.
RelayUnlessOffered(c) ==
    IF Offered(stream[c].executor) THEN relays ELSE relays \cup {c}

\* The hub knows a session of the relay.
getRelay(c) == c \in relays

\* A session of the relay is entered by its own number, beside any other.
registerRelay(c) == relays \cup {c}

\* registerDirect closes the session it replaces.
registerDirect(e, c) == direct' = [direct EXCEPT ![e] = c]

\* The control plane has not done with a stream: its hello or its end is to come.
Pending(c) == handler[c] # "idle" \/ stream[c].mail # <<>>

\* What will take the session of a stream away again, if it is entered now.
Rivals(c) ==
    IF ByAgent(c) THEN cleaning
    ELSE {d \in StreamsOf(stream[c].executor) \ {c} : ~ByAgent(d) /\ Pending(d)}

Contest(c) ==
    contested' = IF Open(c) /\ Rivals(c) # {} THEN contested \cup {c} ELSE contested

\* UpsertExecutor writes every column as it was read, or creates the row again.
UpsertExecutor(e, read) == row' = [row EXCEPT ![e] = read]

\* Its second half, and the session.
Register(c) ==
    LET e == stream[c].executor IN
    /\ handler[c] = "checked"
    /\ UpsertExecutor(e, copy[c])
    /\ IF ByAgent(c) THEN relays' = registerRelay(c) /\ UNCHANGED direct
       ELSE registerDirect(e, c) /\ UNCHANGED relays
    /\ Contest(c)
    /\ handler' = [handler EXCEPT ![c] = IF ByAgent(c) THEN "idle" ELSE "serving"]
    /\ stream' = [stream EXCEPT ![c].via = 0] /\ copy' = [copy EXCEPT ![c] = NoRow]
    /\ UNCHANGED <<known, edits, word, settled, linkVars, instanceVars, runVars, faults>>

\* RegisterServiceInstanceExecutor: the agent vouches for its containers.
RegisterInstance(c) ==
    /\ stream[c].way = "instance" /\ Reads(c, "hello")
    /\ relays' = registerRelay(c) /\ Contest(c)
    /\ stream' = [stream EXCEPT ![c].mail = Tail(@)]
    /\ UNCHANGED <<handler, direct, rowVars, copy, linkVars, instanceVars, runVars, faults>>

\* Mutant: every session of the executor through the agent is removed.
RelaysOfOthers(c) == relays \ StreamsOf(stream[c].executor)

\* The session with the stream's number is removed.
RelaysWithout(c) == relays \ {c}

\* unregisterRelay, when the agent reports the end of a stream.
unregisterRelay(c) ==
    /\ Reads(c, "closed")
    /\ stream' = [stream EXCEPT ![c].mail = Tail(@)]
    /\ relays' = RelaysWithout(c)
    /\ UNCHANGED <<handler, direct, rowVars, copy, linkVars, instanceVars,
                   contested, runVars, faults>>

\* Mutant: the end of a stream leaves its session in the hub.
LeaveDirect(c) == UNCHANGED direct

\* The entry goes by the executor's name, even if it is a newer stream's.
unregisterDirect(c) == direct' = [direct EXCEPT ![stream[c].executor] = 0]

\* SchedulerServer.Connect notices that the stream has gone.
StreamEnds(c) ==
    /\ handler[c] = "serving" /\ ~Open(c)
    /\ unregisterDirect(c)
    /\ handler' = [handler EXCEPT ![c] = "idle"]
    /\ UNCHANGED <<stream, relays, rowVars, copy, linkVars, instanceVars, contested, runVars,
                   faults>>

\* The life of a direct stream at the control plane.
SchedulerServerConnect(c) ==
    ~ByAgent(c) /\ (Authenticate(c) \/ Refuse(c) \/ Register(c) \/ StreamEnds(c))

\* A message of the relay: a hello of an executor or of a container ...
handleRelayExecutorMessage(c) ==
    ByAgent(c) /\ (Authenticate(c) \/ Refuse(c) \/ Register(c) \/ RegisterInstance(c))

\* ... or the end of a stream.
HandleRelayEnvelope(c) == handleRelayExecutorMessage(c) \/ unregisterRelay(c)

----------------------------------------------------------------------------
(* The connector of the agent.                                             *)

\* sendServiceInstanceHello fails, and connectInstance returns at once, as long
\* as the agent has no link.
sendServiceInstanceHello == link # 0

\* reconcile, every five seconds: a session for every wanted container.
Attach(i, c) ==
    /\ wanted[i] /\ tracked[i] = 0 /\ sendServiceInstanceHello
    /\ NewStream(i, "instance", c)
    /\ tracked' = [tracked EXCEPT ![i] = c]
    /\ UNCHANGED <<hubVars, rowVars, copy, linkVars, wanted, runVars, faults>>

\* Mutant: the sessions of containers that are not wanted any more stay.
KeepsUnwanted(i) == UNCHANGED <<cancelled, tracked>>

CancelAndDelete(i) ==
    /\ cancelled' = cancelled \cup {tracked[i]}
    /\ tracked' = [tracked EXCEPT ![i] = 0]

Detach(i) ==
    /\ ~wanted[i] /\ tracked[i] # 0
    /\ CancelAndDelete(i)
    /\ UNCHANGED <<stream, handler, hubVars, rowVars, copy, linkVars, wanted,
                   leaked, contested, runVars, faults>>

\* connectInstance returns: it was cancelled, a message of the container could
\* not be sent for want of a link, or its stream broke.  forgetSession deletes
\* the entry of a newer session too, if it has the same target.
InstanceEnds(c) ==
    LET i == stream[c].executor IN
    /\ stream[c].way = "instance" /\ Open(c)
    /\ \/ (c \in cancelled \/ link = 0) /\ UNCHANGED faults
       \/ faults < MaxFaults /\ faults' = faults + 1
    /\ stream' = Ended({c})
    /\ leaked' = leaked \cup ({tracked[i]} \ {0, c})
    /\ tracked' = [tracked EXCEPT ![i] = 0]
    /\ UNCHANGED <<handler, hubVars, rowVars, copy, linkVars, wanted, cancelled,
                   contested, runVars>>

\* The container's release is switched away from or back to, its service is
\* disabled, or it is not listed as running for a moment.
WantedChanges(i) ==
    /\ faults < MaxWanted
    /\ faults' = faults + 1
    /\ wanted' = [wanted EXCEPT ![i] = ~@]
    /\ UNCHANGED <<stream, handler, hubVars, rowVars, copy, linkVars, tracked,
                   cancelled, leaked, contested, runVars>>

----------------------------------------------------------------------------
(* Administrators.                                                         *)

\* Mutant: a new token enables the executor again.
SavedEnabled(e, field, value) == [row[e] EXCEPT !.state = "enabled", ![field] = value]

\* Every column as it was read but the one that changes.
Saved(e, field, value) == [row[e] EXCEPT ![field] = value]

\* An administrator's request reads the row and changes one column of it.
Reading(e, field, value) ==
    /\ faults < MaxFaults /\ row[e].state # "absent"
    /\ faults' = faults + 1
    /\ edits' = edits \cup
          {[nr |-> faults', executor |-> e, field |-> field, row |-> Saved(e, field, value)]}
    /\ UNCHANGED <<stream, handler, hubVars, row, known, word, settled, copy, linkVars,
                   instanceVars, contested, runVars>>

ResetExecutorToken(e) == Reading(e, "token", faults + 1)
SetExecutorEnabled(e) == \E s \in {"enabled", "disabled"} : Reading(e, "state", s)

\* The rows in hand that will be written back whole and are not about the field:
\* other administrators' and those of hellos.
Held(e, field) ==
    {d.row : d \in {d \in edits : d.executor = e /\ d.field # field}}
        \cup {copy[c] : c \in {c \in StreamsOf(e) : handler[c] = "checked"}}

\* What administrators have said now.
Says(e, field, value) ==
    /\ word' = [word EXCEPT ![e][field] = value]
    /\ settled' = [settled EXCEPT ![e][field] = \A r \in Held(e, field) : r[field] = value]

\* The request saves it, whatever has happened to the row since.
SaveExecutor(d) ==
    /\ UpsertExecutor(d.executor, d.row)
    /\ Says(d.executor, d.field, d.row[d.field])
    /\ edits' = edits \ {d}
    /\ UNCHANGED <<stream, handler, hubVars, known, copy, linkVars, instanceVars, contested,
                   runVars, faults>>

\* What DeleteExecutor reads before is only whether there is a row.
DeleteExecutor(e) ==
    /\ faults < MaxFaults /\ row[e].state # "absent"
    /\ faults' = faults + 1
    /\ row' = [row EXCEPT ![e].state = "absent"]
    /\ Says(e, "state", "absent")
    /\ UNCHANGED <<stream, handler, hubVars, known, edits, copy, linkVars, instanceVars,
                   contested, runVars>>

\* The executor's process starts again.
Restart(e) ==
    /\ stream' = Ended(StreamsOf(e))
    /\ handling' = handling \ StreamsOf(e)

\* Its operator configures the token that is valid now.
Configure(e) ==
    /\ known[e] # word[e].token
    /\ known' = [known EXCEPT ![e] = word[e].token]
    /\ Restart(e)
    /\ UNCHANGED <<handler, hubVars, row, edits, word, settled, copy, linkVars, instanceVars,
                   contested, run, runOn, faults>>

----------------------------------------------------------------------------
(* A run.                                                                  *)

\* Mutant: only direct sessions are used.
OnlyDirect(e) == {direct[e]} \ {0}

\* preferredForDispatch: the direct session, else any.
Preferred(e) == IF direct[e] # 0 THEN {direct[e]} ELSE SessionsOf(e)

\* executorSession.send: a session of the relay needs the agent's link.
Carries(c) == ByAgent(c) => link # 0

\* DispatchRun for an enabled executor: the message goes into the session's
\* stream, or is lost with it.
DispatchRun(e) ==
    /\ run = "waiting" /\ row[e].state = "enabled"
    /\ \E c \in Preferred(e) : Carries(c) /\ runOn' = c
    /\ run' = "sent"
    /\ UNCHANGED <<stream, handler, hubVars, rowVars, copy, linkVars,
                   instanceVars, contested, handling, faults>>

\* The SDK starts a handler.
HandlerStarts ==
    /\ run = "sent" /\ Open(runOn) /\ Carries(runOn)
    /\ run' = "handling" /\ handling' = handling \cup {runOn}
    /\ UNCHANGED <<stream, handler, hubVars, rowVars, copy, linkVars,
                   instanceVars, contested, runOn, faults>>

\* Whether what the executor says on a stream reaches the run's row: a message
\* from the relay for a session that the hub does not know is dropped.
Heard(c) == Open(c) /\ Carries(c) /\ (ByAgent(c) => getRelay(c))

\* The handler returns.  Its report is sent on the stream that brought the run;
\* if that has ended, its outbound channel is closed, and sending panics: the
\* process is started again.
HandlerEnds(c) ==
    /\ c \in handling
    /\ IF Open(c)
       THEN handling' = handling \ {c} /\ UNCHANGED stream
       ELSE Restart(stream[c].executor)
    /\ run' = IF run \in {"sent", "handling"} /\ Heard(c) THEN "done" ELSE run
    /\ UNCHANGED <<handler, hubVars, rowVars, copy, linkVars, instanceVars,
                   contested, runOn, faults>>

\* The lease runs out: nobody renews it who is heard.
LeaseExpires ==
    /\ \/ run = "sent" /\ ~(Open(runOn) /\ Carries(runOn))
       \/ run = "handling" /\ ~\E c \in handling : Heard(c)
    /\ run' = "waiting" /\ runOn' = 0
    /\ UNCHANGED <<stream, handler, hubVars, rowVars, copy, linkVars,
                   instanceVars, contested, handling, faults>>

----------------------------------------------------------------------------

Init ==
    /\ present \in {es \in SUBSET Executors : Cardinality(es) = MaxExecutors}
    /\ stream = [c \in Streams |-> None] /\ handler = [c \in Streams |-> "idle"]
    /\ direct = [e \in External |-> 0] /\ relays = {}
    /\ row = [e \in External |-> [state |-> "enabled", token |-> 0]]
    /\ copy = [c \in Streams |-> NoRow]
    /\ known = [e \in External |-> 0] /\ edits = {} /\ word = row
    /\ settled = [e \in External |-> [state |-> TRUE, token |-> TRUE]]
    /\ link = 1 /\ cleaning = {}
    /\ wanted = [i \in Instances |-> TRUE] /\ tracked = [i \in Instances |-> 0]
    /\ cancelled = {} /\ contested = {} /\ leaked = {}
    /\ run = "waiting" /\ runOn = 0 /\ handling = {}
    /\ faults = 0

\* What nothing and nobody has to cause.
Step ==
    \/ LinkReturns \/ \E k \in 1..MaxLinks : CleanupAgentSessions(k)
    \/ \E c \in Streams : SchedulerServerConnect(c) \/ HandleRelayEnvelope(c)
    \/ HandlerStarts \/ \E c \in Streams : HandlerEnds(c)
    \/ LeaseExpires

Connects(e) == \E c \in Streams, w \in {"direct", "relay"} : Connect(e, c, w)
Attaches(i) == \E c \in Streams : Attach(i, c)

Act ==
    \/ Step
    \/ \E e \in External \cap present :
          \/ Connects(e)
          \/ ResetExecutorToken(e) \/ SetExecutorEnabled(e) \/ DeleteExecutor(e)
          \/ Configure(e) \/ DispatchRun(e)
    \/ \E i \in Instances \cap present :
          \/ Attaches(i) \/ Detach(i) \/ WantedChanges(i)
    \/ \E d \in edits : SaveExecutor(d)
    \/ \E c \in Streams : StreamBreaks(c) \/ InstanceEnds(c)
    \/ LinkBreaks

Next == Act /\ UNCHANGED present

\* Servers, SDKs, the connector's ticker and the dispatch loop go on.
Fairness ==
    /\ WF_vars(LinkReturns /\ UNCHANGED present)
    /\ WF_vars(HandlerStarts /\ UNCHANGED present)
    /\ WF_vars(LeaseExpires /\ UNCHANGED present)
    /\ \A k \in 1..MaxLinks : WF_vars(CleanupAgentSessions(k) /\ UNCHANGED present)
    /\ \A c \in Streams :
          /\ WF_vars((Authenticate(c) \/ Refuse(c)) /\ UNCHANGED present)
          /\ WF_vars(Register(c) /\ UNCHANGED present)
          /\ WF_vars(RegisterInstance(c) /\ UNCHANGED present)
          /\ WF_vars(unregisterRelay(c) /\ UNCHANGED present)
          /\ WF_vars(StreamEnds(c) /\ UNCHANGED present)
          /\ WF_vars(HandlerEnds(c) /\ UNCHANGED present)
          /\ WF_vars(InstanceEnds(c) /\ faults' = faults /\ UNCHANGED present)
    /\ \A e \in External :
          /\ WF_vars(e \in present /\ Connects(e) /\ UNCHANGED present)
          /\ WF_vars(e \in present /\ DispatchRun(e) /\ UNCHANGED present)
    /\ \A i \in Instances :
          /\ WF_vars(i \in present /\ Attaches(i) /\ UNCHANGED present)
          /\ WF_vars(i \in present /\ Detach(i) /\ UNCHANGED present)

Spec == Init /\ [][Next]_vars /\ Fairness

----------------------------------------------------------------------------
(* Properties.                                                             *)

Mails == {<<>>, <<"hello">>, <<"closed">>, <<"hello", "closed">>}
StreamRows == [executor : Executors \cup {"none"}, way : {"none", "direct", "relay", "instance"},
               peer : {"open", "gone"}, mail : Mails, via : 0..MaxLinks]
Rows == [state : {"absent", "enabled", "disabled"}, token : 0..MaxFaults]
Edits == [nr : 1..MaxFaults, executor : External, field : {"state", "token"}, row : Rows]

\* Every variable stays within its type.
TypeOK ==
    /\ present \subseteq Executors
    /\ stream \in [Streams -> StreamRows]
    /\ handler \in [Streams -> {"idle", "checked", "serving"}]
    /\ direct \in [External -> Streams \cup {0}] /\ relays \subseteq Streams
    /\ row \in [External -> Rows] /\ copy \in [Streams -> Rows] /\ word \in [External -> Rows]
    /\ known \in [External -> 0..MaxFaults] /\ edits \subseteq Edits
    /\ settled \in [External -> [state : BOOLEAN, token : BOOLEAN]]
    /\ link \in 0..MaxLinks /\ cleaning \subseteq 1..MaxLinks
    /\ wanted \in [Instances -> BOOLEAN] /\ tracked \in [Instances -> Streams \cup {0}]
    /\ run \in {"waiting", "sent", "handling", "done"} /\ runOn \in Streams \cup {0}
    /\ handling \cup contested \cup leaked \cup cancelled \subseteq Streams
    /\ faults \in 0..(MaxFaults + MaxWanted)

\* What administrators said last of an executor - enabled, disabled or deleted,
\* and its token - is what its row says, and what a hello on its way to a session
\* was checked against, if nobody held an older row when they said it: no later
\* request for the other column and no later hello undoes it, however they
\* overlap (ResetExecutorToken, SetExecutorEnabled, AuthenticateExecutor).
AdminsWordStands ==
    \A e \in External : \A field \in {"state", "token"} :
        settled[e][field] =>
            /\ row[e][field] = word[e][field]
            /\ \A c \in StreamsOf(e) :
                  handler[c] = "checked" => copy[c][field] = word[e][field]

\* The hello of an open stream was accepted.
Greeted(c) ==
    IF ByAgent(c) THEN handler[c] = "idle" /\ stream[c].mail = <<>> ELSE handler[c] = "serving"

\* The sessions of the hub are those of the streams: a direct one is of a stream
\* of the same executor that is being served, one through the agent of a stream
\* whose hello was accepted; and an open stream whose hello was accepted keeps
\* its session, unless it was entered while an older stream of the executor or
\* an older link of the agent was still to end, or the link has ended since.
HubMatchesStreams ==
    /\ \A e \in External : direct[e] # 0 =>
          /\ direct[e] \in StreamsOf(e) /\ ~ByAgent(direct[e])
          /\ handler[direct[e]] = "serving"
    /\ \A c \in relays :
          ByAgent(c) /\ handler[c] = "idle" /\ stream[c].mail \in {<<>>, <<"closed">>}
    /\ \A c \in Streams \ contested :
          Open(c) /\ Greeted(c) => c \in SessionsOf(stream[c].executor)

\* A stream that has gone is not offered for ever: its session is removed,
\* although reports of its end get lost with the agent's link.
SessionsEnd ==
    \A c \in Streams : ~Open(c) ~> (Open(c) \/ (c \notin relays /\ \A e \in External : direct[e] # c))

\* When the disturbances are over, an executor with a valid token and a wanted
\* container are offered again - unless they hold an open stream whose session
\* is taken away by the late hello or the end of an older stream or by the
\* cleaning after an agent's stream, or whose hello was lost or refused: they
\* wait on that one for ever.
ComesBack ==
    <>[](\A e \in present :
            (IF e \in Instances THEN wanted[e]
             ELSE row[e].state = "enabled" /\ row[e].token = known[e]) =>
                Offered(e) \/ OpenOf(e) \cap contested # {})

\* A container that is no longer live or candidate stops being offered, unless
\* its stream was forgotten when an older one for the same container ended.
UnwantedStops ==
    <>[](\A i \in Instances :
            ~wanted[i] => ~Offered(i) \/ OpenOf(i) \cap leaked # {})

\* A run whose executor stays offered is carried out: a lost command, a handler
\* cut off from its stream and a crash of the SDK are made up for.
RunIsDone == <>[](run = "done" \/ \E e \in External : e \notin present \/ ~Offered(e)
                                                  \/ row[e].state # "enabled")
=============================================================================
