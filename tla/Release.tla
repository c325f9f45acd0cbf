------------------------------ MODULE Release ------------------------------
(***************************************************************************)
(* The release orchestration of the control plane                          *)
(* (internal/release/application/service.go) over its repository           *)
(* (internal/release/infra/repository.go) and the proxy configuration it   *)
(* publishes (adapter/grpc/controlplane/proxy_config.go).                  *)
(*                                                                         *)
(* One action is one whole handler; handlers are atomic.  The agent is     *)
(* arbitrary: any task that was ever sent may report anything at any time, *)
(* so late, duplicated, reordered and missing reports are all included.    *)
(***************************************************************************)
EXTENDS Naturals, FiniteSets

CONSTANTS
    Services,      \* services of the catalogue
    Agents,        \* agents
    AgentOf,       \* the agent of each service (agentId may not be modified)
    Images,        \* (imageTag, commitSha) pairs a CI run can ask for
    MaxReleases,   \* bound: releases ever created
    MaxTasks,      \* bound: tasks ever created
    Percents       \* partial traffic percentages an operator may set

ASSUME ReleaseAssumption ==
    /\ Services # {} /\ Images # {}
    /\ AgentOf \in [Services -> Agents]
    /\ MaxReleases \in Nat \ {0} /\ MaxTasks \in Nat \ {0}
    /\ Percents \subseteq 1..99

VARIABLES
    spec,          \* ep_service rows: enabled and currentLiveSlot
    release,       \* ep_release rows, indexed by creation order
    task,          \* ep_task rows, indexed by creation order
    instance,      \* ep_runtime_instance rows, one per service and slot
    online,        \* agents the registry holds online
    session,       \* agents with a session in the hub
    replayed,      \* tasks replayed in the current session of an agent
    published,     \* the proxy configuration last handed to the agent
    unpublished    \* agents whose last publication was dropped

vars == <<spec, release, task, instance, online, session, replayed,
          published, unpublished>>

----------------------------------------------------------------------------
(* Types.  0 stands for the zero value of a slot and for a nil uuid.       *)

Blue == 1
Green == 2
Slots == {Blue, Green}
ReleaseIds == 1..MaxReleases
TaskIds == 1..MaxTasks

ReleaseStatus == {"absent", "queued", "dispatching", "deploying", "readyToSwitch",
                  "completed", "failed", "rolledBack", "skipped"}
TaskStatus == {"absent", "pending", "dispatched", "running",
               "succeeded", "failed", "timedOut"}

IsTerminal(s) == s \in {"completed", "failed", "rolledBack", "skipped"}
TaskIsTerminal(s) == s \in {"succeeded", "failed", "timedOut"}
TaskIsActive(s) == s \in {"pending", "dispatched", "running"}

ReleaseRow == [service: Services, image: Images, status: ReleaseStatus,
               trafficPercent: 0..100, targetSlot: Slots,
               previousLiveSlot: Slots \cup {0}, currentTaskID: TaskIds \cup {0},
               switchConfirmed: BOOLEAN]
TaskRow == [release: ReleaseIds, status: TaskStatus, slot: Slots, sent: BOOLEAN]
Instance == [release: ReleaseIds \cup {0}, accepting: BOOLEAN]
Snapshot == [present: BOOLEAN, live: ReleaseIds \cup {0},
             candidate: ReleaseIds \cup {0}, percent: 0..100]

NoRelease == [service |-> CHOOSE s \in Services : TRUE,
              image |-> CHOOSE i \in Images : TRUE, status |-> "absent",
              trafficPercent |-> 0, targetSlot |-> Blue, previousLiveSlot |-> 0,
              currentTaskID |-> 0, switchConfirmed |-> FALSE]
NoTask == [release |-> 1, status |-> "absent", slot |-> Blue, sent |-> FALSE]
NoInstance == [release |-> 0, accepting |-> FALSE]
NoSnapshot == [present |-> FALSE, live |-> 0, candidate |-> 0, percent |-> 0]

\* The rows are numbered in the order of their created_at.
Fresh(rows, id) ==
    /\ rows[id].status = "absent"
    /\ \A q \in DOMAIN rows : q < id => rows[q].status # "absent"

----------------------------------------------------------------------------
(* The repository.                                                         *)

\* gorm's Updates with a struct writes the non-zero fields only: a zero
\* percent, a zero slot and a nil task id leave the stored column alone.
Updates(old, new) ==
    [new EXCEPT
        !.trafficPercent   = IF @ = 0 THEN old.trafficPercent ELSE @,
        !.previousLiveSlot = IF @ = 0 THEN old.previousLiveSlot ELSE @,
        !.currentTaskID    = IF @ = 0 THEN old.currentTaskID ELSE @]

InService(r, s) == release[r].status # "absent" /\ release[r].service = s

\* Mutant: a candidate that gets a share of the traffic does not count.
HasDeployingRelease(s) ==
    \E r \in ReleaseIds :
        InService(r, s) /\ release[r].status \in {"dispatching", "deploying"}

HasActiveRelease(s) ==
    \E r \in ReleaseIds :
        /\ InService(r, s)
        /\ \/ release[r].status \in {"dispatching", "deploying"}
           \/ /\ release[r].status = "readyToSwitch"
              /\ release[r].trafficPercent \in 1..99

HasNewerSuccessfulRelease(r) ==
    \E x \in ReleaseIds :
        /\ x > r
        /\ InService(x, release[r].service)
        /\ release[x].status = "completed"
        /\ release[x].trafficPercent = 100

FindQueuedOrActiveDuplicate(s, i) ==
    {r \in ReleaseIds :
        /\ InService(r, s)
        /\ release[r].image = i
        /\ release[r].status \in
              {"queued", "dispatching", "deploying", "readyToSwitch"}}

ListQueuedBefore(r) ==
    {x \in ReleaseIds :
        /\ x < r
        /\ InService(x, release[r].service)
        /\ release[x].status = "queued"}

\* Tasks that are the current task of their release and not finished.
ListRecoverableTasksByAgent(a) ==
    {t \in TaskIds :
        /\ TaskIsActive(task[t].status)
        /\ release[task[t].release].currentTaskID = t
        /\ AgentOf[release[task[t].release].service] = a}

----------------------------------------------------------------------------
(* Slots and the published proxy configuration.                            *)

nextSlot(slot) == IF slot = Blue THEN Green ELSE Blue
normalizeLiveSlot(slot) == IF slot = 0 THEN Blue ELSE slot

\* What resolveReleases finds for service s in the rows sp, rel and inst.
resolveReleases(sp, rel, inst, s) ==
    LET live == normalizeLiveSlot(sp[s].currentLiveSlot)
        c == inst[s][nextSlot(live)].release
        visible == c # 0 /\ rel[c].status = "readyToSwitch"
    IN [present   |-> TRUE,
        live      |-> inst[s][live].release,
        candidate |-> IF visible THEN c ELSE 0,
        percent   |-> IF visible /\ rel[c].trafficPercent \in 1..99
                      THEN rel[c].trafficPercent ELSE 0]

\* Disabled services are left out of the snapshot.
buildProxyConfigSnapshot(sp, rel, inst, s) ==
    IF sp[s].enabled THEN resolveReleases(sp, rel, inst, s) ELSE NoSnapshot

\* The new rows go to the agent when it has a session with room for them
\* (d); an agent that cannot be reached is not an error for the caller.
PublishAgent(a, d) ==
    /\ d => a \in session
    /\ published' = [s \in Services |->
            IF d /\ AgentOf[s] = a
            THEN buildProxyConfigSnapshot(spec', release', instance', s)
            ELSE published[s]]
    /\ unpublished' = IF d THEN unpublished \ {a} ELSE unpublished \cup {a}

----------------------------------------------------------------------------
(* Operators' and CI's requests.                                           *)

CreateFromCI(s, i) ==
    /\ spec[s].enabled
    /\ FindQueuedOrActiveDuplicate(s, i) = {}
    /\ \E r \in ReleaseIds :
        /\ Fresh(release, r)
        /\ release' = [release EXCEPT ![r] =
              [service |-> s, image |-> i, status |-> "queued", trafficPercent |-> 0,
               targetSlot |-> nextSlot(spec[s].currentLiveSlot),
               previousLiveSlot |-> spec[s].currentLiveSlot,
               currentTaskID |-> 0, switchConfirmed |-> FALSE]]
    /\ UNCHANGED <<spec, task, instance, online, session, replayed,
                   published, unpublished>>

\* Mutant: the superseded candidate is left as it is.
leaveSupersededRelease(r, slot) == {}

\* The other candidates of the service on the slot that r is about to take.
completeSupersededRelease(r, slot) ==
    {x \in ReleaseIds \ {r} :
        /\ InService(x, release[r].service)
        /\ release[x].targetSlot = slot
        /\ release[x].status = "readyToSwitch"
        /\ release[x].trafficPercent = 0}

\* The checks that Start and Retry share.
MayDeploy(r) ==
    LET s == release[r].service IN
    /\ ~HasActiveRelease(s)
    /\ spec[s].enabled
    /\ AgentOf[s] \in online

MayStart(r) ==
    /\ \/ release[r].status = "queued"
       \/ release[r].status = "skipped" /\ ~HasNewerSuccessfulRelease(r)
    /\ MayDeploy(r)

MayRetry(r) == release[r].status = "failed" /\ MayDeploy(r)

\* dispatch and markDispatchFailed: the status the new task ends up with.
\* An unreachable agent or a full queue defers the task, any other error
\* fails it.
dispatch(a) ==
    (IF a \in session THEN {"dispatched"} ELSE {}) \cup {"pending", "failed"}

\* Mutant: the slots chosen when the release was created are kept.
deployRowKeepsSlots(r, t) ==
    [release[r] EXCEPT !.trafficPercent = 0, !.switchConfirmed = FALSE,
                       !.currentTaskID = t]

\* The row of r prepared for its deployment to the slot that is not live now.
deployRow(r, t) ==
    LET live == spec[release[r].service].currentLiveSlot IN
    [release[r] EXCEPT !.previousLiveSlot = live, !.targetSlot = nextSlot(live),
                       !.trafficPercent = 0, !.switchConfirmed = FALSE,
                       !.currentTaskID = t]

\* The deployment of r by the new task t, whose dispatch ended in `outcome`;
\* the releases in `skip` are auto-skipped when the dispatch returned no error.
BeginDeploy(r, t, outcome, skip) ==
    LET row    == deployRow(r, t)
        failed == outcome = "failed"
    IN  /\ Fresh(task, t)
        /\ release' = [x \in ReleaseIds |->
              IF x = r
              THEN [Updates(release[r], row) EXCEPT
                       !.status = IF failed THEN "failed" ELSE "dispatching"]
              ELSE IF x \in completeSupersededRelease(r, row.targetSlot)
              THEN [release[x] EXCEPT !.status = "completed"]
              ELSE IF ~failed /\ x \in skip
              THEN [release[x] EXCEPT !.status = "skipped"]
              ELSE release[x]]
        /\ task' = [task EXCEPT ![t] =
              [release |-> r, status |-> outcome, slot |-> row.targetSlot,
               sent |-> outcome = "dispatched"]]
        /\ UNCHANGED <<spec, instance, online, session, replayed,
                       published, unpublished>>

Start(r) ==
    /\ MayStart(r)
    /\ \E t \in TaskIds, outcome \in dispatch(AgentOf[release[r].service]) :
          BeginDeploy(r, t, outcome, ListQueuedBefore(r))

Retry(r) ==
    /\ MayRetry(r)
    /\ \E t \in TaskIds, outcome \in dispatch(AgentOf[release[r].service]) :
          BeginDeploy(r, t, outcome, {})

\* Resolving the registry credential or sealing the task payload fails after
\* the other candidate was already completed.
StartOrRetryRefused(r) ==
    LET slot == nextSlot(spec[release[r].service].currentLiveSlot) IN
    /\ MayStart(r) \/ MayRetry(r)
    /\ completeSupersededRelease(r, slot) # {}
    /\ release' = [x \in ReleaseIds |->
          IF x \in completeSupersededRelease(r, slot)
          THEN [release[x] EXCEPT !.status = "completed"]
          ELSE release[x]]
    /\ UNCHANGED <<spec, task, instance, online, session, replayed,
                   published, unpublished>>

Skip(r) ==
    /\ release[r].status = "queued"
    /\ release' = [release EXCEPT ![r].status = "skipped"]
    /\ UNCHANGED <<spec, task, instance, online, session, replayed,
                   published, unpublished>>

\* Mutant: the slot that traffic leaves keeps its flag.
markLiveAccepting(s, liveSlot, oldSlot) ==
    [instance EXCEPT ![s] = [slot \in Slots |->
        IF instance[s][slot].release # 0 /\ slot = liveSlot
        THEN [instance[s][slot] EXCEPT !.accepting = TRUE]
        ELSE instance[s][slot]]]

\* The instance rows after traffic moved from oldSlot to liveSlot; slot 0 and
\* a slot that was never deployed have no row.
updateTrafficFlags(s, liveSlot, oldSlot) ==
    [instance EXCEPT ![s] = [slot \in Slots |->
        IF instance[s][slot].release # 0 /\ slot \in {liveSlot, oldSlot}
        THEN [instance[s][slot] EXCEPT !.accepting = slot = liveSlot]
        ELSE instance[s][slot]]]

\* Healthy is only ever written as true, when the deployment succeeded.
requireHealthyRuntimeInstance(s, slot) ==
    slot \in Slots /\ instance[s][slot].release # 0

\* The release whose instance holds the slot that r takes over from.
completePreviousLiveRelease(r) ==
    LET prev == release[r].previousLiveSlot
        p == IF prev = 0 THEN 0 ELSE instance[release[r].service][prev].release
    IN  {x \in {p} \ {0, r} : release[x].status \in {"readyToSwitch", "completed"}}

\* Mutant: the agent is not told.
RollbackUnpublished(r, d) ==
    LET s == release[r].service
        prev == release[r].previousLiveSlot
    IN  /\ release[r].status = "readyToSwitch"
        /\ requireHealthyRuntimeInstance(s, prev)
        /\ spec' = [spec EXCEPT ![s].currentLiveSlot = prev]
        /\ instance' = updateTrafficFlags(s, prev, release[r].targetSlot)
        /\ release' = [release EXCEPT ![r].switchConfirmed = FALSE,
                                      ![r].status = "rolledBack"]
        /\ UNCHANGED <<task, online, session, replayed, published, unpublished>>

Rollback(r, d) ==
    LET s == release[r].service
        prev == release[r].previousLiveSlot
        target == release[r].targetSlot
    IN  /\ release[r].status = "readyToSwitch"
        /\ requireHealthyRuntimeInstance(s, prev)
        /\ spec' = [spec EXCEPT ![s].currentLiveSlot = prev]
        /\ instance' = updateTrafficFlags(s, prev, target)
        /\ release' = [release EXCEPT ![r] = Updates(@,
              [@ EXCEPT !.trafficPercent = 0, !.switchConfirmed = FALSE,
                        !.status = "rolledBack"])]
        /\ PublishAgent(AgentOf[s], d)
        /\ UNCHANGED <<task, online, session, replayed>>

\* SetTrafficPercent below 100: r stays a candidate of the live slot.
SetTrafficPercent(r, p, d) ==
    LET s == release[r].service
        prev == release[r].previousLiveSlot
        target == release[r].targetSlot
    IN  /\ release[r].status = "readyToSwitch"
        /\ prev # 0
        /\ requireHealthyRuntimeInstance(s, IF p = 0 THEN prev ELSE target)
        /\ spec' = [spec EXCEPT ![s].currentLiveSlot = prev]
        /\ instance' = updateTrafficFlags(s, prev, target)
        /\ release' = [release EXCEPT ![r] = Updates(@,
              [@ EXCEPT !.trafficPercent = p, !.switchConfirmed = FALSE])]
        /\ PublishAgent(AgentOf[s], d)
        /\ UNCHANGED <<task, online, session, replayed>>

\* SetTrafficPercent at 100, which is also ConfirmSwitch.
ConfirmSwitch(r, d) ==
    LET s == release[r].service
        prev == release[r].previousLiveSlot
        target == release[r].targetSlot
    IN  /\ release[r].status = "readyToSwitch"
        /\ requireHealthyRuntimeInstance(s, target)
        /\ spec' = [spec EXCEPT ![s].currentLiveSlot = target]
        /\ instance' = updateTrafficFlags(s, target, prev)
        /\ release' = [x \in ReleaseIds |->
              IF x = r
              THEN [release[r] EXCEPT !.trafficPercent = 100, !.switchConfirmed = TRUE,
                                      !.status = "completed"]
              ELSE IF x \in completePreviousLiveRelease(r)
              THEN Updates(release[x], [release[x] EXCEPT !.trafficPercent = 0,
                                           !.status = "completed"])
              ELSE release[x]]
        /\ PublishAgent(AgentOf[s], d)
        /\ UNCHANGED <<task, online, session, replayed>>

\* An edit of the service configuration switches it on or off.
SetEnabled(s, d) ==
    /\ spec' = [spec EXCEPT ![s].enabled = ~@]
    /\ UNCHANGED <<release, task, instance, online, session, replayed>>
    /\ PublishAgent(AgentOf[s], d)

----------------------------------------------------------------------------
(* Reports of the agents.  A report is only audited when its task is not   *)
(* the current one of its release, or when either has ended.               *)

\* Mutant: reports on ended tasks are applied.
AppliesToCurrent(t) ==
    task[t].sent /\ release[task[t].release].currentTaskID = t

Applies(t) ==
    LET r == task[t].release IN
    /\ task[t].sent
    /\ release[r].currentTaskID = t
    /\ ~TaskIsTerminal(task[t].status)
    /\ ~IsTerminal(release[r].status)

TaskRunning(t) ==
    /\ Applies(t)
    /\ task' = [task EXCEPT ![t].status = "running"]
    /\ release' = [release EXCEPT ![task[t].release].status =
                      IF @ = "dispatching" THEN "deploying" ELSE @]
    /\ UNCHANGED <<spec, instance, online, session, replayed,
                   published, unpublished>>

\* applyTaskSuccess of a deployment; the report names the slot of the task.
TaskSucceeded(t, d) ==
    LET r == task[t].release
        s == release[r].service
    IN  /\ Applies(t)
        /\ task' = [task EXCEPT ![t].status = "succeeded"]
        /\ instance' = [instance EXCEPT ![s][task[t].slot] =
                           [release |-> r, accepting |-> FALSE]]
        /\ release' = [release EXCEPT ![r] = Updates(@,
              [@ EXCEPT !.status = "readyToSwitch", !.trafficPercent = 0,
                        !.switchConfirmed = FALSE])]
        /\ UNCHANGED <<spec, online, session, replayed>>
        /\ PublishAgent(AgentOf[s], d)

TaskFailed(t) ==
    /\ Applies(t)
    /\ task' = [task EXCEPT ![t].status = "failed"]
    /\ release' = [release EXCEPT ![task[t].release].status = "failed"]
    /\ UNCHANGED <<spec, instance, online, session, replayed,
                   published, unpublished>>

\* Mutant: the release of a timed out task is not failed.
FailTasksOnly(T) ==
    /\ T # {}
    /\ T \subseteq UNION {ListRecoverableTasksByAgent(a) : a \in Agents}
    /\ task' = [t \in TaskIds |->
          IF t \in T THEN [task[t] EXCEPT !.status = "timedOut"] ELSE task[t]]
    /\ UNCHANGED <<spec, release, instance, online, session, replayed,
                   published, unpublished>>

\* Any amount of time may pass between two handlers, so any set of the
\* active tasks may be found timed out.
FailStaleTasks(T) ==
    /\ T # {}
    /\ T \subseteq UNION {ListRecoverableTasksByAgent(a) : a \in Agents}
    /\ \A t \in T : ~IsTerminal(release[task[t].release].status)
    /\ task' = [t \in TaskIds |->
          IF t \in T THEN [task[t] EXCEPT !.status = "timedOut"] ELSE task[t]]
    /\ release' = [r \in ReleaseIds |->
          IF \E t \in T : task[t].release = r
          THEN [release[r] EXCEPT !.status = "failed"]
          ELSE release[r]]
    /\ UNCHANGED <<spec, instance, online, session, replayed,
                   published, unpublished>>

----------------------------------------------------------------------------
(* Sessions and heartbeats.                                                *)

\* A new stream: the registry row, the hub's session, the first publication.
Connect(a) ==
    /\ online' = online \cup {a}
    /\ session' = session \cup {a}
    /\ replayed' = [replayed EXCEPT ![a] = {}]
    /\ published' = [s \in Services |->
            IF AgentOf[s] = a
            THEN buildProxyConfigSnapshot(spec, release, instance, s)
            ELSE published[s]]
    /\ unpublished' = unpublished \ {a}
    /\ UNCHANGED <<spec, release, task, instance>>

\* The end of a stream drops the agent's session, whichever stream that
\* session belongs to.
CloseSession(a) ==
    /\ online' = online \ {a}
    /\ session' = session \ {a}
    /\ replayed' = [replayed EXCEPT ![a] = {}]
    /\ UNCHANGED <<published, unpublished>>

Disconnect(a) ==
    /\ a \in session \/ a \in online
    /\ CloseSession(a)
    /\ UNCHANGED <<spec, release, task, instance>>

MarkOfflineStale(a) ==
    /\ a \in online
    /\ online' = online \ {a}
    /\ UNCHANGED <<spec, release, task, instance, session, replayed,
                   published, unpublished>>

\* The recoverable tasks of a that a heartbeat does not report as running.
Unreported(a, running) == ListRecoverableTasksByAgent(a) \ running

\* RecoverAgentTasks on the tasks before `bound`, in order of creation.
RecoverAgentTasks(a, running, bound) ==
    task' = [t \in TaskIds |->
        IF t >= bound \/ t \notin ListRecoverableTasksByAgent(a) THEN task[t]
        ELSE IF t \in running THEN [task[t] EXCEPT !.status = "running"]
        ELSE IF t \in replayed[a] THEN task[t]
        ELSE [task[t] EXCEPT !.status = "dispatched", !.sent = TRUE]]

Heartbeat(a, running) ==
    /\ a \in session \/ Unreported(a, running) = {}
    /\ RecoverAgentTasks(a, running, MaxTasks + 1)
    /\ online' = online \cup {a}
    /\ replayed' = [replayed EXCEPT ![a] = @ \cup Unreported(a, running)]
    /\ UNCHANGED <<spec, release, instance, session, published, unpublished>>

\* Replaying task t finds no session or a full queue: the stream is closed.
HeartbeatBreaks(a, running, t) ==
    /\ t \in Unreported(a, running)
    /\ IF a \in session THEN t \notin replayed[a]
       ELSE \A u \in Unreported(a, running) : t <= u
    /\ RecoverAgentTasks(a, running, t)
    /\ CloseSession(a)
    /\ UNCHANGED <<spec, release, instance>>

----------------------------------------------------------------------------

Init ==
    /\ spec = [s \in Services |-> [enabled |-> TRUE, currentLiveSlot |-> 0]]
    /\ release = [r \in ReleaseIds |-> NoRelease]
    /\ task = [t \in TaskIds |-> NoTask]
    /\ instance = [s \in Services |-> [slot \in Slots |-> NoInstance]]
    /\ online = {} /\ session = {}
    /\ replayed = [a \in Agents |-> {}]
    /\ published = [s \in Services |-> NoSnapshot]
    /\ unpublished = Agents

\* What operators and CI ask for.
Request ==
    \/ \E s \in Services, i \in Images : CreateFromCI(s, i)
    \/ \E s \in Services, d \in BOOLEAN : SetEnabled(s, d)
    \/ \E r \in ReleaseIds :
          \/ Start(r) \/ Retry(r) \/ StartOrRetryRefused(r) \/ Skip(r)
          \/ \E d \in BOOLEAN :
                \/ Rollback(r, d)
                \/ ConfirmSwitch(r, d)
                \/ \E p \in Percents \cup {0} : SetTrafficPercent(r, p, d)

\* What agents and the passage of time cause.
SentTasks == {t \in TaskIds : task[t].sent}

Environment ==
    \/ \E t \in TaskIds :
          TaskRunning(t) \/ TaskFailed(t) \/ \E d \in BOOLEAN : TaskSucceeded(t, d)
    \/ \E T \in SUBSET TaskIds : FailStaleTasks(T)
    \/ \E a \in Agents :
          \/ Connect(a) \/ Disconnect(a) \/ MarkOfflineStale(a)
          \/ \E running \in SUBSET SentTasks :
                \/ Heartbeat(a, running)
                \/ \E t \in TaskIds : HeartbeatBreaks(a, running, t)

Next == Request \/ Environment

Spec == Init /\ [][Next]_vars

----------------------------------------------------------------------------
(* Properties.                                                             *)

TypeOK ==
    /\ spec \in [Services -> [enabled: BOOLEAN, currentLiveSlot: Slots \cup {0}]]
    /\ release \in [ReleaseIds -> ReleaseRow]
    /\ task \in [TaskIds -> TaskRow]
    /\ instance \in [Services -> [Slots -> Instance]]
    /\ online \subseteq Agents /\ session \subseteq Agents
    /\ replayed \in [Agents -> SUBSET TaskIds]
    /\ published \in [Services -> Snapshot]
    /\ unpublished \subseteq Agents

InProgress(r) == release[r].status \in {"dispatching", "deploying", "readyToSwitch"}

\* Of each service at most one release is being deployed or waits to be
\* switched, although the only check on the way in (HasActiveRelease) lets a
\* candidate at 0% pass: Start and Retry complete that candidate first.
OneInProgress ==
    \A q, r \in ReleaseIds :
        InProgress(q) /\ InProgress(r) /\ release[q].service = release[r].service
            => q = r

\* A release that may be switched owns the instance its switch makes live
\* (the handlers only look for some healthy row in the slot), that instance is
\* not the live one, and the slot to go back to is the one that is live.
CandidateIsOwnInstance ==
    \A r \in ReleaseIds : release[r].status = "readyToSwitch" =>
        LET s == release[r].service IN
        /\ instance[s][release[r].targetSlot].release = r
        /\ release[r].targetSlot # spec[s].currentLiveSlot
        /\ release[r].previousLiveSlot = spec[s].currentLiveSlot

\* The live slot of a service always runs a release that an operator switched
\* to 100%, and its instance row is the only one that accepts traffic.
LiveIsConfirmed ==
    \A s \in Services :
        LET live == spec[s].currentLiveSlot IN
        /\ live # 0 =>
              LET r == instance[s][live].release IN
              /\ r # 0
              /\ release[r].service = s
              /\ release[r].status = "completed"
              /\ release[r].trafficPercent = 100
              /\ release[r].switchConfirmed
        /\ \A slot \in Slots : instance[s][slot].accepting <=> slot = live

\* A release waits for a task exactly as long as that task can still end by a
\* report, a replay or the timeout: no release is left dispatching behind an
\* ended task, and no unfinished task is left that the recovery loop does not
\* see.
WaitsForLiveTask ==
    /\ \A r \in ReleaseIds : release[r].status \in {"dispatching", "deploying"} =>
          \E t \in TaskIds : /\ release[r].currentTaskID = t
                             /\ task[t].release = r
                             /\ TaskIsActive(task[t].status)
    /\ \A t \in TaskIds : TaskIsActive(task[t].status) =>
          LET r == task[t].release IN
          /\ release[r].currentTaskID = t
          /\ release[r].status \in {"dispatching", "deploying"}

\* The inductive strengthening of the safety invariants above.  The slots of a
\* release in progress are those of the moment: they follow from the live slot,
\* so that completing the candidate on the target slot completes every other
\* candidate.
SlotsFollowLive ==
    \A r \in ReleaseIds : InProgress(r) =>
        /\ release[r].previousLiveSlot = spec[release[r].service].currentLiveSlot
        /\ release[r].targetSlot = nextSlot(release[r].previousLiveSlot)

\* A share of the traffic is stored for deployed releases only, a full one by a
\* switch only, and a first switch is never undone.
OnlySwitchedAreFull ==
    \A r \in ReleaseIds :
        /\ release[r].trafficPercent = 100 => release[r].status = "completed"
        /\ release[r].trafficPercent # 0 =>
              release[r].status \in {"readyToSwitch", "completed", "rolledBack"}
        /\ release[r].status \in {"absent", "queued", "skipped"} =>
              release[r].currentTaskID = 0
        /\ release[r].status # "absent" /\ release[r].previousLiveSlot # 0 =>
              spec[release[r].service].currentLiveSlot # 0

\* Tasks and instances belong to the release that caused them.
RowsBelong ==
    /\ \A t \in TaskIds :
          /\ task[t].sent => task[t].status # "absent"
          /\ TaskIsActive(task[t].status) =>
                task[t].slot = release[task[t].release].targetSlot
    /\ \A s \in Services, slot \in Slots :
          LET r == instance[s][slot].release IN
          r # 0 => release[r].status # "absent" /\ release[r].service = s

IInv == /\ TypeOK
        /\ OneInProgress
        /\ SlotsFollowLive
        /\ OnlySwitchedAreFull
        /\ WaitsForLiveTask
        /\ RowsBelong
        /\ CandidateIsOwnInstance
        /\ LiveIsConfirmed

\* What the agent's proxy was last told is still what the database says about
\* live traffic and about the traffic share of the candidate, unless a
\* publication to that agent was dropped: every handler that moves traffic
\* publishes it.
PublishedTrafficIsCurrent ==
    \A s \in Services :
        AgentOf[s] \in session \ unpublished =>
            LET now == buildProxyConfigSnapshot(spec, release, instance, s) IN
            /\ published[s].present = now.present
            /\ published[s].live = now.live
            /\ published[s].percent = now.percent
            /\ now.percent > 0 => published[s].candidate = now.candidate

\* An ended task keeps its outcome whatever its agent reports later, and ended
\* releases only leave their status by an operator's Retry of a failed one or
\* Start of a skipped one.
EndedStaysEnded ==
    [][/\ \A t \in TaskIds : TaskIsTerminal(task[t].status) => task'[t] = task[t]
       /\ \A r \in ReleaseIds : IsTerminal(release[r].status) =>
            \/ release'[r].status = release[r].status
            \/ release[r].status \in {"failed", "skipped"} /\ (Start(r) \/ Retry(r))]_vars

=============================================================================
