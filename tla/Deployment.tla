----------------------------- MODULE Deployment -----------------------------
(***************************************************************************)
(* The release orchestration composed with the agent that carries it out:  *)
(* the task goroutines of adapter/grpc/agent/client.go, the executor       *)
(* (internal/agent/application/taskexec/executor.go) and the containers    *)
(* Docker runs for it (internal/agent/infra/runtime/docker_client.go).     *)
(*                                                                         *)
(* Here the agent is no longer arbitrary: commands and reports travel on   *)
(* one stream, which can end at any time, and the agent process can crash  *)
(* and restart.  Several tasks run at the same time, each in a goroutine   *)
(* of its own, also those the control plane has already given up.          *)
(***************************************************************************)
EXTENDS Release

CONSTANTS
    agent,       \* the agent of every service
    MaxFaults    \* bound: streams lost, crashes not caused by a report, and
                 \* workloads that end by themselves

ASSUME DeploymentAssumption ==
    /\ Agents = {agent}
    /\ MaxFaults \in Nat

VARIABLES
    command,     \* how many times a task is queued for the agent
    report,      \* final reports on their way to the control plane
    up,          \* the agent process runs
    job,         \* the task goroutines of the agent
    container,   \* the container of each release; Docker refuses a second one
    faults

agentVars == <<command, report, up, job, container, faults>>
allVars == <<vars, command, report, up, job, container, faults>>

----------------------------------------------------------------------------

\* The next thing a goroutine does.  "idle" is a task that does not run.
Steps == {"idle", "image", "find", "clean", "inspect", "create", "wait"}

\* held: the container the goroutine found or started still exists.
\* open: the channel it reports on has not been closed.
Job == [step: Steps, held: BOOLEAN, open: BOOLEAN]
Idle == [step |-> "idle", held |-> FALSE, open |-> FALSE]

\* slot is the label the container was created with.
Container == [state: {"none", "created", "running", "exited"}, slot: Slots]
NoContainer == [state |-> "none", slot |-> Blue]

Exists(r) == container[r].state # "none"
Running == {t \in TaskIds : job[t].step # "idle"}

----------------------------------------------------------------------------
(* The goroutines.                                                         *)

\* Sending on a channel that was closed with its stream panics, and nothing
\* recovers: the process and every goroutine in it are gone.
AgentDies ==
    /\ up' = FALSE
    /\ job' = [t \in TaskIds |-> Idle]

\* The goroutines after the containers of the releases R were removed.
Dropped(jobs, R) ==
    [t \in TaskIds |-> [jobs[t] EXCEPT !.held = @ /\ task[t].release \notin R]]

\* Goroutine t, which works on jobs, goes on to `step` and has removed the
\* containers of R.
Continue(t, step, held, R) ==
    /\ job' = [Dropped(job, R) EXCEPT ![t].step = step, ![t].held = held]
    /\ UNCHANGED up

\* The same after a RUNNING report.
ReportRunning(t, step, held, R) ==
    IF job[t].open THEN Continue(t, step, held, R) ELSE AgentDies

\* The final report of goroutine t.
Finish(t, result, R) ==
    IF job[t].open
    THEN /\ report' = report \cup {[task |-> t, result |-> result]}
         /\ job' = [Dropped(job, R) EXCEPT ![t] = Idle]
         /\ UNCHANGED up
    ELSE AgentDies /\ UNCHANGED report

Remove(R) ==
    container' = [r \in ReleaseIds |->
        IF r \in R THEN [container[r] EXCEPT !.state = "none"] ELSE container[r]]

\* The calls that fail the task before it holds a container: the proxy stack
\* is not ready, the pull fails, Docker refuses a list, an inspect or a remove.
FailsEarly(t) ==
    /\ job[t].step \in {"image", "find", "inspect", "create"}
    /\ Finish(t, "failed", {})
    /\ UNCHANGED container

\* EnsureImage has taken its time, up to minutes.
ImagePulled(t) ==
    /\ job[t].step = "image"
    /\ ReportRunning(t, "find", FALSE, {})
    /\ UNCHANGED <<report, container>>

\* findManagedContainer looks for a container of the release, whatever its slot.
Find(t) ==
    LET found == Exists(task[t].release) IN
    /\ job[t].step = "find"
    /\ Continue(t, IF found THEN "inspect" ELSE "clean", found, {})
    /\ UNCHANGED <<report, container>>

\* Mutant: the whole service is cleaned.
StaleOfService(t) ==
    {x \in ReleaseIds :
        /\ Exists(x)
        /\ release[x].service = release[task[t].release].service}

\* The containers of the service labelled with the slot of the task.
StaleOnSlot(t) ==
    {x \in ReleaseIds :
        /\ Exists(x)
        /\ release[x].service = release[task[t].release].service
        /\ container[x].slot = task[t].slot}

\* What the index of containers may know of those there are: it is refreshed
\* from time to time, and a refresh may fail.
Indexed == SUBSET {x \in ReleaseIds : Exists(x)}

\* cleanupStaleContainersOnSlot: an index that lags behind misses some, and
\* the errors of the others are only logged.
Clean(t) ==
    /\ job[t].step = "clean"
    /\ \E known \in Indexed :
          LET R == StaleOnSlot(t) \cap known IN
          /\ Remove(R)
          /\ Continue(t, "create", FALSE, R)
    /\ UNCHANGED report

\* ensureDeployContainer on the container it found: one that is healthy is
\* the result of the task, one that runs is waited for, any other is removed.
Inspect(t) ==
    LET r == task[t].release
        state == container[r].state
    IN
    /\ job[t].step = "inspect" /\ job[t].held
    /\ \/ /\ state = "running"
          /\ Finish(t, "succeeded", {})
          /\ UNCHANGED container
       \/ /\ state = "running"
          /\ ReportRunning(t, "wait", TRUE, {})
          /\ UNCHANGED <<report, container>>
       \/ /\ state \in {"created", "exited"}
          /\ Remove({r})
          /\ Continue(t, "create", FALSE, {r})
          /\ UNCHANGED report

\* DeployContainer: Docker refuses a second container of the same name; when
\* the start, or the inspection after it, fails the container stays behind.
Create(t) ==
    LET r == task[t].release
        made(state) == container' = [container EXCEPT ![r] =
                                        [state |-> state, slot |-> task[t].slot]]
    IN
    /\ job[t].step = "create" /\ ~Exists(r)
    /\ \/ /\ made("running")
          /\ ReportRunning(t, "wait", TRUE, {})
          /\ UNCHANGED report
       \/ /\ made("created") \/ made("running")
          /\ Finish(t, "failed", {})

\* waitForHealth saw enough healthy probes in a row.
Healthy(t) ==
    /\ job[t].step = "wait" /\ job[t].held
    /\ container[task[t].release].state = "running"
    /\ Finish(t, "succeeded", {})
    /\ UNCHANGED container

\* The probes report that they go on.
ProbeReportFails(t) ==
    /\ job[t].step = "wait" /\ ~job[t].open
    /\ AgentDies
    /\ UNCHANGED <<report, container>>

\* What collectFailureDiagnostic may have removed: the container the goroutine
\* has been waiting for, if Docker lets it.
collectFailureDiagnostic(t) == {{}, IF job[t].held THEN {task[t].release} ELSE {}}

\* waitForHealth gave up: the container is gone, has ended or is not healthy
\* in time.
Unhealthy(t) ==
    /\ job[t].step = "wait"
    /\ \E R \in collectFailureDiagnostic(t) :
          /\ Remove(R)
          /\ Finish(t, "failed", R)

ExecutorStep(t) ==
    /\ up
    /\ \/ FailsEarly(t) \/ ImagePulled(t) \/ Find(t) \/ Clean(t) \/ Inspect(t)
       \/ Create(t) \/ Healthy(t) \/ ProbeReportFails(t) \/ Unhealthy(t)
    /\ UNCHANGED <<vars, command, faults>>

\* handleTask: a task that is running is not started twice.
Deliver(t) ==
    /\ up /\ agent \in session /\ command[t] > 0
    /\ command' = [command EXCEPT ![t] = @ - 1]
    /\ job' = IF t \in Running THEN job
              ELSE [job EXCEPT ![t] = [step |-> "image", held |-> FALSE, open |-> TRUE]]
    /\ UNCHANGED <<vars, report, up, container, faults>>

----------------------------------------------------------------------------
(* The containers and the process.                                         *)

\* Docker has given up restarting the container.
ContainerExits(r) ==
    /\ container[r].state = "running" /\ faults < MaxFaults
    /\ container' = [container EXCEPT ![r].state = "exited"]
    /\ faults' = faults + 1
    /\ UNCHANGED <<vars, command, report, up, job>>

Crash ==
    /\ up /\ faults < MaxFaults
    /\ AgentDies
    /\ faults' = faults + 1
    /\ UNCHANGED <<vars, command, report, container>>

\* The labels of the containers are valid.
shouldRemoveOnStartupScan(r) == container[r].state = "exited"

\* What the startup scan removes, if Docker lets it.
ReconcileManagedContainersOnStartup ==
    SUBSET {r \in ReleaseIds : shouldRemoveOnStartupScan(r)}

\* The container of the agent is restarted by Docker.
Restart ==
    /\ ~up /\ agent \notin session
    /\ up' = TRUE
    /\ \E R \in ReconcileManagedContainersOnStartup : Remove(R)
    /\ UNCHANGED <<vars, command, report, job, faults>>

----------------------------------------------------------------------------
(* The stream.                                                             *)

StreamOpens ==
    /\ up /\ agent \notin session
    /\ Connect(agent)
    /\ UNCHANGED agentVars

\* Whatever was queued on the stream is lost, and the channel its goroutines
\* report on is closed.
StreamEnds ==
    /\ agent \in session
    /\ Disconnect(agent)
    /\ IF up THEN faults < MaxFaults /\ faults' = faults + 1 ELSE UNCHANGED faults
    /\ command' = [t \in TaskIds |-> 0]
    /\ report' = {}
    /\ job' = [t \in TaskIds |-> [job[t] EXCEPT !.open = FALSE]]
    /\ UNCHANGED <<up, container>>

\* Mutant: the tasks of a heartbeat are not replayed.
ReplayNothing(running) == {}

\* The tasks a heartbeat sends to the agent again.
Replays(running) == Unreported(agent, running) \ replayed[agent]

\* A heartbeat names the tasks that run; the others are sent again, once per
\* session, even when their command has not reached the agent yet.
HeartbeatSent ==
    /\ up /\ agent \in session
    /\ Heartbeat(agent, Running)
    /\ command' = [t \in TaskIds |->
          command[t] + IF t \in Replays(Running) THEN 1 ELSE 0]
    /\ UNCHANGED <<report, up, job, container, faults>>

\* The final report arrives; one that does not apply is only audited.
ReportArrives(m) ==
    /\ agent \in session
    /\ report' = report \ {m}
    /\ \/ /\ m.result = "succeeded"
          /\ TaskSucceeded(m.task, TRUE)
       \/ /\ m.result = "failed"
          /\ TaskFailed(m.task)
       \/ /\ ~Applies(m.task)
          /\ UNCHANGED vars
    /\ UNCHANGED <<command, up, job, container, faults>>

----------------------------------------------------------------------------
(* Operators and time.                                                     *)

\* A new task is queued for the agent when there is a session; the queue of
\* the session has room.
Dispatched(next) ==
    LET new == {t \in TaskIds : task[t].status = "absent" /\ task'[t].status # "absent"}
        sent == agent \in session
    IN
    /\ next
    /\ \A t \in new : task'[t].status = IF sent THEN "dispatched" ELSE "pending"
    /\ command' = [t \in TaskIds |-> IF t \in new /\ sent THEN 1 ELSE command[t]]
    /\ UNCHANGED <<report, up, job, container, faults>>

Operate ==
    \/ \E s \in Services, i \in Images : CreateFromCI(s, i) /\ UNCHANGED agentVars
    \/ \E r \in ReleaseIds :
          \/ Dispatched(Start(r))
          \/ Dispatched(Retry(r))
          \/ ConfirmSwitch(r, agent \in session) /\ UNCHANGED agentVars
          \/ Rollback(r, agent \in session) /\ UNCHANGED agentVars

TimesOut(t) == FailStaleTasks({t}) /\ UNCHANGED agentVars

DeploymentInit ==
    /\ Init
    /\ command = [t \in TaskIds |-> 0]
    /\ report = {}
    /\ up = TRUE
    /\ job = [t \in TaskIds |-> Idle]
    /\ container = [r \in ReleaseIds |-> NoContainer]
    /\ faults = 0

AgentStep ==
    \/ Restart \/ StreamOpens \/ HeartbeatSent
    \/ (~up /\ StreamEnds)
    \/ \E m \in report : ReportArrives(m)
    \/ \E t \in TaskIds : Deliver(t) \/ ExecutorStep(t)

DeploymentNext ==
    \/ Operate
    \/ \E t \in TaskIds : TimesOut(t)
    \/ \E r \in ReleaseIds : ContainerExits(r)
    \/ Crash
    \/ (up /\ StreamEnds)
    \/ AgentStep

\* The goroutines and the stream make progress, the process is restarted, and
\* a dead process loses its stream.  Nothing obliges operators or timeouts.
DeploymentSpec ==
    /\ DeploymentInit /\ [][DeploymentNext]_allVars
    /\ WF_allVars(Restart) /\ WF_allVars(StreamOpens) /\ WF_allVars(HeartbeatSent)
    /\ WF_allVars(~up /\ StreamEnds)
    /\ WF_allVars(\E m \in report : ReportArrives(m))
    /\ \A t \in TaskIds : WF_allVars(Deliver(t)) /\ WF_allVars(ExecutorStep(t))

----------------------------------------------------------------------------
(* Properties.                                                             *)

\* Every variable of the agent stays within its type.
DeploymentTypeOK ==
    /\ TypeOK
    /\ command \in [TaskIds -> 0..2]
    /\ report \subseteq [task: TaskIds, result: {"succeeded", "failed"}]
    /\ up \in BOOLEAN
    /\ job \in [TaskIds -> Job]
    /\ container \in [ReleaseIds -> Container]
    /\ faults \in 0..MaxFaults

\* The releases that proxy rules may send traffic to.
Live(r) ==
    LET s == release[r].service IN
    /\ release[r].status # "absent" /\ spec[s].currentLiveSlot # 0
    /\ instance[s][spec[s].currentLiveSlot].release = r

Serving(r) == Live(r) \/ release[r].status = "readyToSwitch"

Removed(r) == container[r].state = "running" /\ container'[r].state = "none"

\* The container of a live release or of a candidate is only ever removed in a
\* step of the goroutine of a task the control plane is done with - one that
\* timed out, or one that was sent twice - or while it carries the label of the
\* other slot that such a task of its release has.  The current deployment
\* never removes what serves traffic, in whatever order commands, reports,
\* retries and crashes come.
ServingLostOnlyToEndedTasks ==
    [][\A r \in ReleaseIds :
          Serving(r) /\ Removed(r) =>
             \/ \E t \in Running :
                   TaskIsTerminal(task[t].status) /\ job'[t] # job[t]
             \/ \E t \in TaskIds :
                   /\ task[t].release = r /\ TaskIsTerminal(task[t].status)
                   /\ container[r].slot = task[t].slot
                   /\ container[r].slot # release[r].targetSlot]_allVars

\* A deployment that was handed out ends without any timeout, although its
\* commands and reports get lost with the stream, the agent crashes over a
\* stream that is gone, and a task that still runs refuses its replay.
DeploymentsEnd ==
    \A t \in TaskIds :
        TaskIsActive(task[t].status) ~> TaskIsTerminal(task[t].status)

\* README.md: "the system keeps the current live and the rollback slot and
\* cleans older managed containers".  A deployment that the control plane has
\* timed out goes on to clean the slot that has become live since.
CleanupKeepsLive ==
    [][\A r \in ReleaseIds : Live(r) => ~Removed(r)]_allVars
=============================================================================
