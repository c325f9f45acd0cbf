# Edge Pilot in TLA+

Edge Pilot deploys services to edge machines. A *control plane* keeps the
catalogue of services, the releases of each and their rollout; an *agent* on
every machine runs containers and an HAProxy in front of them, in two *slots*
(blue and green) per service. A release is deployed to the slot that is not
live, an operator gives it a share of the traffic or all of it, and a built-in
scheduler runs jobs on executors, which may themselves be instances of the
services.

This directory holds TLA+ models of the program, the TLC configurations that
check them on small instances, and proofs, checked by TLAPS, that their
invariants, action properties and three refinements hold for instances of every size.

    tlasany Release.tla                                  # parse
    tlc -workers 2 -config release_steady.cfg MCRelease  # model-check
    tlapm Release_proofs.tla                             # check the proofs

`PROJECT.json` lists the components, the runs, the mutation tests of the
properties, the source lines of every definition, the disagreements found, the
hazards and the theorems.

1. [The system](#1-the-system)
2. [What is modelled](#2-what-is-modelled)
3. [The runs](#3-the-runs)
4. [What is proved](#4-what-is-proved)
5. [Where the program and its documents disagree](#5-where-the-program-and-its-documents-disagree)
6. [What is not modelled](#6-what-is-not-modelled)

## 1. The system

Paths are relative to `src/`.

### Control plane

**Release orchestration** (`internal/release`). *State*: the tables
`ep_release`, `ep_task`, `ep_task_attempt`, `ep_runtime_instance` (one row per
service and slot) and the live slot in `ep_service`. *Operations*:
`CreateFromCI`, `Start`, `Retry`, `Skip`, `Rollback`, `SetTrafficPercent`,
`ConfirmSwitch` (operators and CI), `HandleTaskUpdate` (agents),
`RecoverAgentTasks` (every heartbeat), `FailStaleTasks` (a ticker). *Hard*:
no handler uses a transaction; reports arrive late, twice or never; timeouts,
replays and answers race; the repository drops zero values. *Correct when*: at
most one release of a service is under way; the live slot runs what an operator
confirmed; nobody waits for a task that cannot end; ended rows stay ended; what
two handlers can do to each other's rows is known and no more than that.

**Proxy configuration publication** (`adapter/grpc/controlplane/proxy_config.go`).
Stateless: reads the catalogue, releases and instances and sends the agent a
whole snapshot, after every handler that moves traffic and on connection. *Hard*:
a snapshot for an agent that is offline is dropped silently. *Correct when*: what
the agent was last told is what the database says.

**Agent sessions** (`adapter/grpc/controlplane/server.go`). *State*: the hub's
map from agent to session (bounded queue, tasks replayed in this session, pending
requests, log streams). *Operations*: `Connect`, `register`, `unregister`,
`DispatchTask`, `ReplayTask`, `DispatchProxyConfig`, requests with a reply.
*Hard*: two streams of one agent overlap; the end of the older unregisters by
agent id. *Correct when*: an agent that is connected gets its tasks in the end and
is shown online, and nobody waits for the answer of an agent that has gone.

**Agent registry and recovery** (`internal/agent/application/registry`,
`adapter/schedule/recovery.go`). *State*: `ep_agent_node` (online, last
heartbeat). *Operations*: `MarkConnected`, `Heartbeat`, `MarkDisconnected`,
`MarkOfflineStale`; `CreateAgent`, `ResetToken`, `Enable`, `Disable`, `Delete`
(administrators). A ticker marks silent agents offline and fails stale tasks.
*Hard*: every one but the two `Mark...Offline...` gets the row and saves all of it.
*Correct when*: an agent that was locked out stays so.

**Service catalogue** (`internal/servicecatalog`). *State*: `ep_service` with its
routes, ports and live slot. *Operations*: `Create`, `Update`, `Delete`,
`UpdateLiveSlot`. *Hard*: `Update` copies the live slot it has read into the row
it writes; routes and ports are compared with rows read before. *Correct when*: no
two services of an agent claim a route or a port, and no edit undoes a switch.

**Job scheduler** (`internal/scheduler`, `adapter/schedule/engine.go`). *State*:
the tables of jobs, runs, dispatch cursors and executors. *Operations*: the
engine's cycle (`RunDueCycle`: enqueue due jobs, dispatch due runs) in one
transaction under an advisory lock; `MarkRunRunning`, `RenewRunLease`,
`CompleteRun` (executors); `CreateJob`, `UpdateJob`, `SetJobEnabled`,
`DeleteJob`, `TriggerNow` (administrators). *Hard*: runs are sent before the
transaction commits; rows are read, and written back whole later; leases expire
while their holder works on. *Correct when*: every moment of a schedule gets one
run, a run is executed under a lease, attempts are bounded, every run ends.
`cron.go` computes the moments; the rows of executors (`AuthenticateExecutor`,
tokens, enabling, deletion) are written by administrators and by hellos.

**Scheduler sessions and SDK** (`adapter/grpc/controlplane/scheduler_server.go`,
`pkg/scheduler/sdk`). *State*: the hub's sessions (direct, or relayed by an
agent), the SDK's running handlers. *Hard*: as for the agents' sessions; the SDK
closes a channel its handlers still use; hellos and closings are sent once.
*Correct when*: sessions end with their streams, and an executor that is connected
and enabled is offered runs.

**Others**: registry credentials, sealing of secrets, administrator sessions,
observability (rings of samples), HTTP routes and the web console.

### Agent

**Client** (`adapter/grpc/agent/client.go`): one stream at a time, a goroutine per
task, per request and per log stream, all sending on one outbound channel, which is
closed when receiving fails. **Task executor** (`internal/agent/application/taskexec`):
pull, create or reuse a container, wait for health, clean up. *Hard*: streams and the
process end at every point, replayed tasks meet their own leftovers, nothing tells a
goroutine that its task was given up. *Correct when*: every deployment ends, and no
container that serves is removed. **Container index**: a cache of `docker ps`.

**Proxy stack** (`internal/agent/infra/runtime/proxy_stack.go`): keeps the desired
snapshot, reconciles HAProxy through the Data Plane API in a transaction, removes
stale containers, heals itself periodically. *Hard*: every call may fail or go
unanswered, the container stops or is made anew. *Correct when*: HAProxy runs all of
one snapshot, "ready" says so truly, and each request reaches the service and the
release it should.

**Scheduler relay and connectors**: carry the sessions of executors and of service
instances over the agent's stream, and reconcile them with the containers that run.

### Interactions

    CI, operators --> Release ---- DispatchTask, ReplayTask ---> hub --> agent
                         |  ^------ HandleTaskUpdate, heartbeat ------------'
                         |--- UpdateLiveSlot ---> Catalogue
                         '--- PublishAgent --> snapshot --> hub --> agent --> HAProxy
    administrators --> Scheduler -- DispatchRun --> scheduler hub --> executor
                         |  ^------ running, renew, complete ---------------'
                         '--- ResolveLiveSlot --> Catalogue (moved by Release)

The components share the database; no lock covers more than one statement,
except the scheduler engine's transaction.

## 2. What is modelled

| module | models | for TLC | theorems |
|---|---|---|---|
| `Release` | release orchestration over its repository, the publication of the proxy configuration, agents' sessions and the recovery loop as they bear on it; one handler is one step | `MCRelease` | `Release_proofs` |
| `BlueGreen`, `Rollout` | what release orchestration promises per service, and the refinement mapping that shows it | `MCRelease` | `Refinement_proofs` |
| `ReleaseSteps` | `Start`, `HandleTaskUpdate`, `RecoverAgentTasks` and `FailStaleTasks` split at their calls of the database, with concurrent handlers, stops of the control plane and failing calls | `MCReleaseSteps` | `ReleaseSteps_proofs` |
| `Deployment` | `Release` composed with the agent that carries a deployment out: commands and reports on a stream, the task goroutines, containers, crashes | `MCDeployment` | `Refinement_proofs` |
| `AgentLink` | the streams of one agent, the hub, questions, log viewers, the receive loop, the agent's row | `MCAgentLink` | `AgentLink_proofs` |
| `ProxyStack` | the agent's reconciliation of HAProxy with the last snapshot | | `ProxyStack_proofs` |
| `AtomicConfig` | what the agent promises of HAProxy's configuration; `ProxyStack` names the mapping (`Abstract`) | | `ProxyStack_proofs` |
| `Catalogue` | the service catalogue: concurrent edits, the checks of routes and ports, the row that undoes a switch | `MCRouting` | `Routing_proofs` |
| `Routing` | `Catalogue` with the published configuration and the rules of HAProxy's frontends, evaluated on requests | `MCRouting` | `Routing_proofs` |
| `Scheduler` | the job scheduler over its repository, the engine, the executors' reports | `MCScheduler` | `Scheduler_proofs` |
| `CronSchedule` | cron expressions and the search for their next moment | `MCCronSchedule` | `Scheduler_proofs` |
| `CronJobs` | `Scheduler` over the moments that `CronSchedule` finds | `MCCronSchedule` | `Scheduler_proofs` |
| `ExecutorSessions` | executors' streams, direct, relayed and attached by the agent, the hub's sessions, the SDK, the executors' rows | | `ExecutorSessions_proofs` |

Definitions carry the names of the functions they translate; those named
otherwise are listed with their lines in `PROJECT.json` under `map`. A definition
commented *Mutant* is not part of the model: it is a plausible bug in the
definition that follows it, and shows that the property it is paired with in
`PROJECT.json` can fail. Variables such as `raced`, `overlapped`, `cut`,
`settled`, `contested` and `leaked` are history variables: they are written and never read
by an action, and let a property say exactly when the code does not keep what
one would like it to keep.

### Release

*State.* `release`, `task` and `instance` are the tables, reduced to the columns
that decide something: an instance row keeps its release and whether it accepts
traffic (it is only ever written healthy). `spec` is a service's live slot and
whether it is enabled. `online` is the registry, `session` the hub, `replayed`
the tasks replayed in an agent's present session. `published` is the snapshot
last handed to each agent, per service: the live release, the visible candidate,
its share; `unpublished` holds the agents whose last snapshot was dropped.

*Actions.* One per handler, each with every early return as a guard and every row
it writes, the publication included. Handlers are atomic: the interleavings of
the database calls of those that deploy and follow tasks are in `ReleaseSteps`.

| action | code |
|---|---|
| `CreateFromCI`, `Start`, `Retry`, `Skip` | the handlers of these names; a dispatch may succeed, be deferred or fail |
| `StartOrRetryRefused` | `Start` or `Retry` failing after it has completed the superseded candidate |
| `Rollback`, `SetTrafficPercent`, `ConfirmSwitch` | the handlers of these names |
| `SetEnabled` | a catalogue `Update` that switches the service on or off |
| `TaskRunning`, `TaskSucceeded`, `TaskFailed` | `HandleTaskUpdate` by reported status |
| `FailStaleTasks` | the handler, for any set of active tasks: any of them may be too old |
| `Connect`, `Disconnect`, `MarkOfflineStale` | the ends of a stream and the registry's timeout |
| `Heartbeat`, `HeartbeatBreaks` | a heartbeat with any set of running tasks, and one whose replay finds no session or no room |

*The agent is arbitrary*: every task that was ever sent may report anything at any
moment, so that late, repeated, reordered and missing reports are all behaviours.
*The repository is literal*: `Updates` writes the non-zero fields of a struct
only, as gorm does. *Left out*: the task types SwitchTraffic and Rollback and the
status Switched, which no code produces; audit rows and attempts, which nothing
reads back; disabling an agent, which is covered by its not being online.

*Seen from above.* `BlueGreen` has two variables: the live release of each service
and its rollout (none, deploying, or a candidate with a share of the traffic).
`Rollout` maps the live release to that of the instance on the live slot, and the
rollout to the release in progress. `CreateFromCI`, `Skip`, `TaskRunning`, the
sessions and the publications are not seen; `Start` and `Retry` are `Begin`, or
`Abandon` when they complete a candidate and then fail; `TaskSucceeded` is
`Deployed`, `FailStaleTasks` is `Failed` of several services at once,
`ConfirmSwitch` is `Promote`.

### ReleaseSteps

*State.* The rows of the releases of one service, of their tasks and of the
instance in the slot; for each handler (`Admins`, `StreamOwners`, the timer) `at`,
the statement it comes to next, `on`, the release and task it holds, and `list`,
the task rows it listed and has not come to yet. `old` are the tasks a timeout may
take, `work` those the agent is at work on.

*Steps.* One per statement that another handler can see: `Start` is a check, the
completion of a superseded candidate, the creation of the task, its marking as
sent, the dispatch and the storing of its outcome; `HandleTaskUpdate`, `RecoverAgentTasks` and
`FailStaleTasks` likewise. A row that was read is written back whole. `Stops`
takes every handler away at once, `CallFails` one of them with what its error path
still does. A read that is followed at once by the write of the same row is one
step, and so are writes of rows nobody else can know of yet.

### Deployment

*State.* That of `Release`, and the agent's: `command` and `report` on the stream,
`up`, a goroutine per task (`job`: its step, whether the container it holds still
exists, whether the channel it reports on is open) and the `container` of each
release with the slot of its label.

*Steps.* Every call of the executor to Docker is a step that may succeed or fail.
A report on a closed channel ends the process (`AgentDies`): that is what sending
on a closed channel does and nothing recovers. `Restart` does the startup scan.
Heartbeats (`HeartbeatSent`) make the control plane replay tasks that are not
running. The index of containers may lag behind Docker when a slot is cleaned.
Health probes and pulls are abstracted to their outcomes.

### AgentLink

*State.* For each stream where `Server.Connect` is (`handler`), what is queued
(`down`) and what is on its way back; the hub's one `session`; the row's `online`
flag and whether the row lets the agent in (`accepted`), with the copies that
handlers hold of it (`held`); a deployment, questions, viewers; the agent's
receive loop and its lock of log readers.

*Steps.* A handler ends in three steps (`StreamEnds`, `Unregister`,
`MarkDisconnected`) among those of other streams of the same agent: `Unregister`
goes by the id of the agent and takes the newer session away; the error of the
next heartbeat's replay then ends the newer stream, and the agent comes back.
`SendQuestion` may follow the end of the session it found. `StartReading` with a
reader already entered holds the lock for ever (`logMu`), and the receive loop
blocks on the next end of a log. `ReadRow` and `WriteRow` are the two halves of
`MarkConnected` and `Heartbeat`; they are split only where an administrator's
write can come in between.

### ProxyStack

*State.* The agent's memory (`desired`, `applied`, `ready`), the handler that holds
the mutex (`op`) and where it is (`step`), the open transaction; HAProxy's
container, the ports it was made with and the configuration in its volume; what
the control plane wants, and which snapshots are on their way.

*Steps.* `Startup`, `SelfHeal`, `ApplySnapshot` and `EnsureReady` take the mutex;
`Handler` goes on by one call to Docker or to the Data Plane API. `CallFails` and
`CommitUnanswered` (the commit happened and its answer is lost) may strike at
every call, `ProxyDisturbed` and `AgentRestarts` between any two. A configuration
is a set of backends, of TCP frontends and of routes; what a rule looks like is in
`Routing`.

*Seen from above.* `AtomicConfig` has the snapshot received last, the configuration,
whether the proxy runs and whether the agent is `sure` of its snapshot, which in
`ProxyStack` is: `ready`, and no handler at work. A running proxy goes in one step
(`Switch`) from the whole of one snapshot to the whole of the newest; only a proxy
that does not run starts over from an empty file; the agent becomes sure only of
what is applied, and is unsure while a proxy starts. The answer to a commit may be
lost: the switch has happened then and the agent is not sure of it.

### Catalogue and Routing

*State.* The stored row of each service (its form: route, published and proxied
ports, enabled; its live slot), the request that each administrator has under way,
and of its releases what the catalogue and the proxy see.

*Steps.* A request - a creation, an update or a deletion - reads and checks
(`validate...`, `ensureServiceDeletable`), and stores or deletes later; other
requests, on the same service too, deployments, splits and switches come in between,
since no constraint of the database repeats the checks. An update saves the row of its
form with the live slot it has read.

*Routing* adds no step: it says, in every state of `Catalogue`, which services and
releases are published, whose rules come first in the shared frontend (`Before`),
which rules a service has there and when each of them matches a request with its
cookies (`Rules`); `Answer` is what the first rule says that matches, of the foremost
service that has one, and `Answers` the set of possible answers. A draw is made anew
for every rule that names it. A path is the sequence of its characters, so that
`path_beg /a` also matches `/ab`, as HAProxy has it; what makes a path one of a
service's own two (`__ep/normalize`, `__ep/beta`) counts as one character (`Special`),
which pages do not have.

### Scheduler

*State.* `job`, `run` and `cursor` are the committed rows. `tx` holds what the
engine's transaction has written: the engine reads its own writes (`View`), all
others committed rows; one that would write a row the transaction has written
waits. `engine` is the engine's place in its cycle and the rows it holds in
memory. `delivery` is what each executor has done with each run it was sent,
`completing` an executor's completion between its read and its write, `editing`
an administrator's request between its two statements. `online` stands for the
sessions in the hub, the `enabled` column and the age of the last heartbeat: an
executor is in it when it may be dispatched to.

*Steps.* A handler that reads a row and writes it back later is two steps
(`readDueJob`/`enqueueDueJob`, `findNoExecutor`/`UpdateRun`,
`HandlerReturns`/`CompleteRun`, `SetJobEnabled` or `UpdateJob`/`WriteJobBack`); the
deletion of a job is its three statements (`DeleteRuns`, `DeleteCursor`,
`DeleteJob`); one that is a conditional UPDATE is one step. A run is sent
(`claimAndDispatch`) before the transaction commits; `Abort` undoes its writes and
not what was sent. `SearchFails` is the error of `computeNextSchedule` for a job
that is due at one of the moments after which the search finds none (the constant
`Gaps`): it undoes the cycle, and the next cycle meets it again. A report that
matches no row changes nothing and is swallowed, as in `handleExecutorInbound`.

*Time.* The moments of all schedules are numbered; `time` is the number that have
passed, and a cron job's next moment is the one after. A lease is an age that
counts down, a retry delay a flag: each runs out at any time, so no assumption
relates the speed of two parties.

*Left out*: payloads, changes of a job's kind of schedule, an executor running the
same run in two handlers at once. The rows of executors are in `ExecutorSessions`.

### CronSchedule

Pure operators: `parseCronField` gives the set of values of a field, `Matches` and
`DayMatches` say which minutes an expression names, `nextCronTimeUTC` searches
minute by minute and gives up after `SearchedDays`. A step binds to a range or to
`*`; `v/n` is `v` alone. A field counts as restricted when it has not all its
values. The calendar is a constant. `CronJobs` joins the module with `Scheduler`:
the numbered moments of a job are those the searches find, one after the other
(`GoesOn`).

### ExecutorSessions

*State.* Streams (whose, on which way, whether the executor's end is open, what is
on its way), the handler of each, the hub's two kinds of session (`direct`, by name
of the executor; `relays`, by stream), the executor's row with the copies that
authentications and administrators (`edits`) hold, the agent's link and the
cleanings that its former links still owe, the connector's `tracked` sessions, and
one run.

*Steps.* A hello is authenticated (`Authenticate` reads the row, `Register` writes
it back whole). `ResetExecutorToken` and `SetExecutorEnabled` read the row and change a
column of it, `SaveExecutor` writes it back whole: any number of requests and hellos may
be between the two. `StreamEnds` unregisters by name, `unregisterRelay` by stream,
`CleanupAgentSessions` all of an agent. A hello or a closing that an agent is to
pass on is sent once and lost with its link; a hello of the relay that is refused
ends the agent's whole stream. `Attaches` and `Detach` are the connector's
reconciliation, `InstanceEnds` forgets an entry, also a newer one with the same
target. An SDK whose stream ended while a handler still works ends its process
when that one reports. Numbers of streams and links are used again when nobody
knows them any more.

*What it remembers.* `word` is what administrators said last of each column of a row, in
the order in which they were answered; `settled` says that nobody held a row with an
older value of that column when they said it. `AdminsWordStands` is that a settled word
is the row's, and stays so under every later overlap. `contested` has an open stream
from the moment its session was entered while an older stream of the executor, or an
older link of the agent, was still to end, or from the end of its link on.
`HubMatchesStreams` is that every other open stream whose hello was accepted keeps its
session, and that no session is any other's: the exact extent of what the removal by
name and by agent does.

*Assumed.* A lease outlives a delivery that nothing disturbs.

## 3. The runs

Each run has one question. Bounds that end a behaviour (`CHECK_DEADLOCK FALSE`)
are in `deployment`, `deployment_keeps_live`, `agent_link`, `executor_sessions`,
`release_steps`, `routing` and `routing_split`: there releases, streams, changes
or faults are used up, or everything has ended, and the system rests. The other
runs have no deadlock.

| run | instance | checks |
|---|---|---|
| `release_agent` | two services on one agent that connects, disconnects and drops publications; two releases, two tasks | `WaitsForLiveTask`, `PublishedTrafficIsCurrent`, `EndedStaysEnded` |
| `release_steady` | one service, three releases, three tasks, two images; constraint `SteadyAgent` | `OneInProgress`, `CandidateIsOwnInstance`, `LiveIsConfirmed`, `RefinesBlueGreen` |
| `release_steps` | two administrators, a stream's handler and the timer, any two at once; two releases, two tasks, one stop or failed call | `DoubleOnlyByRace`, `StuckOnlyByStop`, `CandidateOwnsSlot` |
| `deployment` | two releases, two tasks, one fault | `ServingLostOnlyToEndedTasks`, `DeploymentsEnd` |
| `agent_link` | five streams, a queue of two, one fault; two log viewers turn up, or a request to lock the agent out with a question or a viewer | `RevocationStands`, `WaitersWillBeTold`, `TaskIsReceived`, `ShownOnlineAgain` |
| `proxy_stack` | three services: on a port of the pool, on a port of its own, on one that is occupied; two snapshots' changes, one fault | `ReadyMeansApplied`, `SwitchesAtOnce`, `EventuallyApplied`, `WorkloadLostOnlyWhenOutdated` |
| `routing` | two services, five forms, three releases, two administrators with a request each, on one service or two; two hosts, four pages of which one is a static file | `ClashOnlyByRace`, `LiveUndoneOnlyByOverlap`, `AnsweredByMostSpecific`, `VisitorStays`, `HeadersLeadThere`, `TcpAgreesWithHttp` |
| `scheduler_moments` | a cron job of three moments under an administrator, with nobody to dispatch to; expressions over a small calendar | `ScheduleGoesOn`, `OneRunPerMoment`, `NoMomentLost` |
| `scheduler_settles` | one run with one retry, of a job on a fixed slot or not, two executors, a batch of one, leases that can be renewed, or, instead of that job, one whose next moment is not found; constraint `OneJobUnedited` | `AttemptsBounded`, `HolderWhileLeased`, `HolderWasSent`, `EndedRunsStay`, `RunsEnd` |
| `executor_sessions` | an external executor or a container (one of the two), three streams, two disturbances or administrators' requests, four changes of what is wanted | `AdminsWordStands`, `HubMatchesStreams`, `SessionsEnd`, `ComesBack`, `UnwantedStops`, `RunIsDone` |
| `deployment_keeps_live`, `routing_split` | as `deployment` without faults, as `routing` | section 5 |

*Why the bounds are enough.* Two tasks: a report of a replaced task, a replay, a
timeout. Three releases: a live one, its candidate and one that supersedes it, with
rollbacks and retries; `SteadyAgent` keeps the agent connected and its publications
delivered, whose opposite `release_agent` explores. One partial percentage stands
for 1 to 99, since the code only compares it with 0 and 100. Two handlers at once
(`MaxBusy`) are every pair that can overlap; the theorems of `ReleaseSteps` hold for
any number; its administrators are alike and nothing tells them apart (symmetry).
`CreatedFirst` has the releases of `deployment` created before the first is
deployed, and deployed in their order, which only orders steps that the agent has no
part in. Five streams and one fault let an old stream end late, take the newer
session away, and the agent come back after each. Two snapshots differ in what they
add and what they remove. Two services suffice for a clash and for one route inside
another; two administrators, who are alike (symmetry), for each pair of requests
that overlap; once the last release is deployed requests come one at a time
(`MayBegin`), as the overlaps that matter need a release to come; three releases for
a live one, a candidate and a cookie that names neither. Three moments let a
schedule be set back to one that has a run and go on; a schedule does not depend on
what becomes of its runs, so nobody takes them there, and edits do not touch a run,
so `scheduler_settles` has none. Jobs share nothing but the batch and the cycle, so
one suffices, and one whose search fails stops its own runs as it does the others';
ids are kept back (`Reserved`, `IdsLeft`) for scheduled runs still to come, those of
rows that a request or an undone cycle may bring back included, so that the bound on
runs never stops the engine. The calendar has hours of two minutes, days of two
hours, weeks of two days and years of five days, each fourth with a sixth: enough
for days that not every year has and for weekdays that wander through the months.
The hub's entries of different executors do not meet, so one executor at a time with
three streams of its name is where a late hello, a late end and a lost link can go
wrong.

*Fairness.*

- `Scheduler`'s `FairSpec` asks for a cycle's next step (the engine's ticker), the
  return of handlers and the writing of their results (goroutines of the server),
  and for leases and retry delays to run out (clocks); not for connections, for
  sends to succeed or for administrators to do anything. `RunsEnd` has a premise,
  `Settles`: from some moment on the executors stay online, the live slot of a job that
  is bound to it has one of them, and no cycle fails but by a search
  (to undo a cycle that wrote nothing is no failure: its commit does the same).
  Without it a run may wait for ever for an executor, which is as intended. Its one
  exception is `Stuck`: a job is due, again and again, whose next moment is not found.
  Without that exception TLC finds the cycle that fails for ever (section 5).
- `Deployment`: Docker restarts the agent, the agent dials again, heartbeats are
  sent, a dead process loses its stream, what is on a stream arrives, and each goroutine
  goes on. Not: operators, and not the control plane's timeout, so that
  `DeploymentsEnd` shows deployments to end without it.
- `ProxyStack`: a handler that holds the mutex goes on (weak); the ticker and the
  arrival of snapshots get the mutex again and again and so are taken in the end
  (strong).
- `AgentLink`: the agent dials and notices a failure, its receive loop goes on
  unless it has blocked, handlers and heartbeats go on, an administrator's request
  that was begun is finished. Not: questions, viewers, readers of logs.
- `ExecutorSessions`: servers, SDKs, the connector's ticker, cleanings and the
  dispatch loop go on. Not: faults and administrators.
- `Release`, `ReleaseSteps` and `Catalogue` state safety only and have no fairness.

## 4. What is proved

Eight modules prove invariants and action properties of the specifications, and three
refinements, for every value of the constants, from the named
assumptions of the modules alone (`ReleaseAssumption`, `DeploymentAssumption`,
`SchedulerAssumption`, `StepsAssumption`, `CatalogueAssumption`, `RoutingAssumption`,
`AgentLinkAssumption`, `ProxyStackAssumption`, `SessionsAssumption`,
`CalendarAssumption`: non-empty, finite or disjoint sets, numbers that are natural,
service keys that differ; and `CalendarCovers`, below). All follow one
plan: `Init => IInv`, a lemma per action or group of actions for
`IInv /\ action => IInv'`, `NextInv` that puts them together, the theorem
`Inductive` by temporal reasoning, and a corollary per property.

| theorem | states |
|---|---|
| `Release_proofs`: `Inductive`, `TypeCorrect` | `IInv`, `TypeOK` |
| `AtMostOneInProgress`, `CandidateOwnsItsInstance`, `LiveWasConfirmed`, `NobodyWaitsInVain` | `OneInProgress`, `CandidateIsOwnInstance`, `LiveIsConfirmed`, `WaitsForLiveTask` |
| `EndedRowsStay`, `PublishedIsCurrent` | `EndedStaysEnded`, `PublishedTrafficIsCurrent` |
| `Refinement_proofs`: `Implements`, `DeploymentImplementsBlueGreen` | `RefinesBlueGreen`, of `Release` and of `Deployment` |
| `DeploymentInductive`, `DeploymentTypeCorrect`, `DeploymentImplementsRelease` | `DInv`, `DeploymentTypeOK`, `Deployment` implements `Release` |
| `ServingIsKept` | `ServingLostOnlyToEndedTasks` |
| `ReleaseSteps_proofs`: `Inductive`, `TypeCorrect` | `IInv`, `TypeOK` |
| `DoubleDeploymentNeedsRace`, `StuckNeedsStop`, `CandidateOwnsItsSlot` | `DoubleOnlyByRace`, `StuckOnlyByStop`, `CandidateOwnsSlot` |
| `Scheduler_proofs`: `Inductive`, `TypeCorrect` | `IInv`, `TypeOK` |
| `MomentsHaveOneRun`, `AttemptsAreBounded`, `HoldersAreLeased`, `HoldersWereSent` | `OneRunPerMoment`, `AttemptsBounded`, `HolderWhileLeased`, `HolderWasSent` |
| `MomentsHaveRuns`, `EndedRunsStayEnded` | `NoMomentLost`, `EndedRunsStay` |
| `SchedulesGoOn`, `MomentsAreFound` | every search of `CronSchedule` finds the next moment (`GoesOn`), `ScheduleGoesOn` |
| `Routing_proofs`: `Inductive`, `TypeCorrect` | `IInv`, `CatalogueTypeOK` |
| `ClashNeedsRace`, `UndoneNeedsOverlap` | `ClashOnlyByRace`, `LiveUndoneOnlyByOverlap` |
| `MostSpecific`, `VisitorKept`, `HeadersTrue`, `TcpLikeHttp` | `AnsweredByMostSpecific`, `VisitorStays`, `HeadersLeadThere`, `TcpAgreesWithHttp` |
| `FirstVisitsReachARelease` | `AstrayOnlyByDraws`: a first visit goes astray exactly when the two draws of a split disagree |
| `AgentLink_proofs`: `Inductive`, `TypeCorrect` | `IInv`, `TypeOK` |
| `SessionServed`, `WaitersAreTold`, `RevocationHolds` | `SessionIsServed`, `WaitersWillBeTold`, `RevocationStands` |
| `ProxyStack_proofs`: `Inductive`, `TypeCorrect` | `IInv`, `TypeOK` |
| `SwitchedAtOnce` | `SwitchesAtOnce`: `ProxyStack` implements `AtomicConfig` |
| `ReadyIsApplied`, `OneSnapshot`, `WorkloadNeedsOutdated` | `ReadyMeansApplied`, `NeverMixed`, `WorkloadLostOnlyWhenOutdated` |
| `ExecutorSessions_proofs`: `Inductive`, `TypeCorrect` | `IInv`, `TypeOK` |
| `HubMatches`, `WordStands` | `HubMatchesStreams`, `AdminsWordStands` |

*Release.* `OneInProgress` is not inductive. The code that guards it,
`HasActiveRelease`, does not count a candidate at 0%, and what saves the
invariant is that `Start` completes the candidates *on the slot it takes*. That
this is every candidate needs `SlotsFollowLive`: the slots of a release in
progress are determined by the live slot of the moment, since only the completion
of a release moves it, and then nothing else is in progress. `LiveIsConfirmed`
needs that the live release is never itself in progress and that no instance on
the live slot is replaced, which is `SlotsFollowLive` again, with `RowsBelong`
(tasks report for the slot of their release) and `OnlySwitchedAreFull`.
`EndedStaysEnded` follows action by action: a handler that could disturb an ended row
either refuses it or has picked its rows from unfinished ones, of which `IInv` knows
which release has which task. `PublishedTrafficIsCurrent` is preserved together with
`IInv`: a handler that changes what a service publishes ends in a publication, a
dropped one is in `unpublished`, and the one that does not publish, the completion of a
superseded candidate, changes a candidate without a share, which the property allows.

*BlueGreen.* `Implements` rests on the same `IInv`, in both states of a step.
`OneInProgress` makes the rollout of a service well defined (`SeenNow`); a lemma
per action shows which step of `BlueGreen` it is. The delicate ones are
`BeginDeploy`, where everything in progress must be a candidate without traffic
(`AllSuperseded`), `TaskSucceeded`, whose candidate has no share although
`Updates` does not write the zero (`OnlySwitchedAreFull`: none was stored before)
and whose instance is not the live one, and `ConfirmSwitch`, where the releases
that `completePreviousLiveRelease` rewrites must not be in progress.

*Deployment.* `Deployment` is `Release` with the agent put in, so it implements it
by construction only where the agent's steps are those of `Release`'s arbitrary
agent: `DeploymentImplementsRelease` needs that commands and goroutines are of tasks
that were sent (`OnlySentTasks`), for a report or a heartbeat of any other is no
step there. `BlueGreen` then follows through `Release`. For `ServingIsKept`, only
goroutines remove running containers (the startup scan takes those that ended), and
those of their own release or with the label of their task's slot. For a task that
is active, `IInv` says that this slot is not the live one (`SlotsFollowLive`) and
that nothing else is in progress, and `LiveOnTarget` that the live release was
itself deployed to the live slot - so a serving container with the other label got
it from an earlier task (`ContainersOfTasks`), which has ended.

*ReleaseSteps.* With handlers taken apart the invariants of `Release` no longer
hold, and the theorems say exactly by how much. `RowsRefer` and `HandlersRefer`
tie each handler's copies to the rows at each of its steps. `StuckHasHandler`: an
ended task behind a release under way has a handler that will store the release,
or was cut off. `RaceInv` carries what a handler has seen (`SeesRightly`: the check
of `HasActiveRelease` and the completion of the superseded candidate) to the moment
it stores, for releases that no other handler has touched; `RacesNoticed` says that
the history variable misses no overlap that matters.

*Scheduler.* `AttemptsBounded`, `HolderWhileLeased` and `HolderWasSent` speak of
committed rows; rows come to be committed from the transaction and from the copy
that `UpdateRun` writes back. `RowsSound` says of every copy, wherever it is kept,
that it may become the committed row of its run. Whatever executors were sent they
stay sent, so a copy that is sound stays so, however old. `CallsSound` says the
same of the count in a completion under way. `OneRunPerMoment` needs
`KeysUnique` of the committed rows and of what the transaction sees, because both
the engine and `TriggerNow` insert, and `WritesBackItsOwn`: a copy is written back
over the run it was read from. `NoMomentLost` speaks of a step, and needs to know of
every row that may become the committed one, in the transaction or in an
administrator's hand, that the moments between it and the committed row have runs where
they are needed (`EngineCovers`, `EditCovers`): a request that writes an older row back
sets the schedule back and loses nothing, and an abort takes the moved schedule back
together with its runs. `EndedRunsStay` is proved action by action: a conditional
UPDATE does not match an ended row, and the transaction takes only such rows from those
it reads as due; the one way back is the row of the cycle that found no executor.

*Cron expressions.* `SchedulesGoOn` says of any calendar, expression and start that the
moments counted are those the expression names, with none skipped, and that the search
gives up only for days that not every year has. It is an induction over the number of
moments. Since the library's induction theorems cannot be used (their hypothesis is an
operator), it is made over sets: a set of numbers that is not empty has a least one
(`LeastNumber`, by the well-foundedness of strict inclusion), so one that has 0 and the
successor of each of its members has all of them (`AllNumbers`); the searches are
recursive functions, not operators. That the search does not give up needs one fact of
the calendar, `CalendarCovers`: as many days on end as the search looks at have every
day of a common year, and each weekday in each month. Of Go's calendar it is
true: a year has at most 366 days, so 366 days on end hold every date but
29 February, and seven days on end of every month. TLC evaluates the assumption on the
small calendar.

*Catalogue.* A change that was checked stays apart from the stored rows as long as
nobody else changes one (`EditApart`, `StoredApart`); two changes at once, of any two
administrators, are noticed (`BusyRaced`). `LiveKept`: a row has the slot last switched
to, and so has the copy of every update in hand, or they overlapped.

*Routing.* The four properties are about a state, so they follow from the type
invariant, and the work is in the evaluation of the rules. Prefixes and keys order the
services of a finite set totally, so among those that have a matching rule one is
foremost; that needs an induction, which is taken from the library as the
well-foundedness of strict inclusion between finite sets: the service with the
smallest set of services ahead of it has none. Lemmas say of one service what its first
matching rule is: for a page without a cookie (`PlainPage`), with the cookie of one of
its releases (`StickyPage`), for its own two paths (`SpecialPage`), and that it has none
when no release is there (`Silent`). Pages and the two paths differ by their last character,
and two services with different prefixes have different paths (`OwnPaths`).
`OwnerAnswers` puts these together for a page that one service owns alone.
`HeadersLeadThere` has the premise that no other service has the page or one of the two
paths: nothing in the catalogue keeps a prefix `/a/__ep` from being given to a service
beside `/a`. `AstrayOnlyByDraws` is what holds of the property that `routing_split`
refutes: of a page that one service owns, a visitor without a cookie misses its
releases when the first draw says no and the second yes, and only then.

*AgentLink.* `Asked`: a question without an answer is pending from the moment it
was entered, and once sent, the handler of its stream has yet to leave, which will
tell it - or the hub's session had been closed and the question was refused. It
needs `SessionIsServed`. `Locked`: after a disabling or a new token that no copy
preceded, neither the row nor any copy lets the agent in.

*ProxyStack.* `Reconciles` says how much of the desired snapshot the open
transaction has at each step (`Written`), `Kept` that a stack which calls itself
ready keeps the configuration it applied until `prepareLocked` rewrites files, and
`StartsUp` that nothing is reconciled before the first probe. `SwitchedAtOnce` uses them
in the states before and after each step: most steps change no more than what the agent
is sure of (`OnlyMindChanges`), a commit is a `Switch` because the transaction is
`Written` in full, and the files are rewritten only while the proxy does not run.

*ExecutorSessions.* `HubMatchesStreams` needs to know what may be on the way of a
stream: its end is reported once and after it has ended (`MailKept`), by agents
only and while they have a link (`Linked`), and a stream whose hello is unread has no
handler (`HandlersKept`); and that for an uncontested stream nothing is left that could
take its session away (`Undisturbed`): an executor opens one stream at a time
(`OneStream`), so that what comes later is another executor's or follows its end.
`AdminsWordStands` is not inductive: a row in hand may be written back later. `WordKept`
says that, where a word is settled, every row in hand that some other request or a hello
will save has it already; each reading keeps that, as it copies a row that has it, and
each save either has the word or is a new one.

*Only model-checked.* Liveness, which this prover does not do: `RunsEnd`,
`DeploymentsEnd`, `TaskIsReceived`, `ShownOnlineAgain`, `EventuallyApplied`,
`SessionsEnd`, `ComesBack`, `UnwantedStops`, `RunIsDone`.
Every other property of a passing run is a theorem.

## 5. Where the program and its documents disagree

Two runs must find their property violated.

`deployment_keeps_live` (`CleanupKeepsLive`, `README.md:101`: the live slot and the
rollback slot are kept). The control plane times a deployment out and does not tell
the agent. A retry of the release succeeds and is switched to; then the goroutine
of the first task goes on and removes the container that is now live
(`executor.go:229`).

`routing_split` (`ResponsesNameTheirRelease`,
`docs/edge-pilot-release-headers.md:15`: every business response names its
release). The split is one ACL on `rand(100)` that two rules name, once negated
(`proxy_stack.go:1016`). HAProxy draws for each, so that a share p(1-p) of the
requests without a cookie matches neither rule and is answered by a more general service or
by none.

Met on the way, each part of the models and of some passing run, without a run of
its own:

- `Updates` of a struct drops zero values: `SetTrafficPercent(0)` publishes 0% and
  leaves the old share in the row, so that the release goes on blocking the next
  one; the release that loses the live slot keeps its 100%.
- Superseding a candidate publishes nothing (`release/application/service.go:1337`):
  the proxy goes on announcing a completed release as beta, against
  `docs/edge-pilot-release-headers.md:23`.
- A live slot that was never set is published as blue (`proxy_config.go:182`): the
  first release of a service gets the traffic before anybody confirms it
  (`README.md:164`).
- `UpdateRun` writes back a row read before (`scheduler/application/service.go:561`):
  a run that was completed meanwhile is leased again, against
  `docs/scheduler-executor-sdk.md:281`.
- `AuthenticateExecutor`, the agents' `Heartbeat` and every request of an administrator
  for one column of an executor (`ResetExecutorToken`, `SetExecutorEnabled`) write the
  whole row back: a disabling or a new token stored in between is undone, although the console says
  that the old token stops working at once (`ExecutorsPage.tsx:40` of the console). A session
  that exists when an agent is disabled goes on in any case.
- `DeleteJob` is three statements without a transaction
  (`scheduler/infra/repository.go:64`): a job may lose its runs and stay.
- Two rules of the hub go by name, not by stream: the end of an old stream
  (`server.go:79`, `scheduler_server.go:290`) and a late hello
  (`scheduler_server.go:100`) take the session of a newer stream away. An agent
  recovers by the error of its next heartbeat's replay, an executor never does: its
  stream stays open and nothing is offered on it.
- Closing the outbound channel under its senders ends the agent's process
  (`client.go:206`) and the SDK's (`client.go:266`).
- A replay stores the task again and moves `updated_at`
  (`release/application/service.go:725`): an agent that reconnects often enough
  postpones its timeout.
- A job for 29 February is accepted up to a year ahead; once its run is due the search for
  the next moment fails, and with it every cycle of the engine, for all jobs
  (`scheduler/application/service.go:526`). `SearchFails` in `Scheduler` is that failing
  cycle, which `RunsEnd` has to except (`Stuck`); `ScheduleGoesOn` says which expressions
  can cause it.
- A second reader of a container's log waits for the first under the lock that one
  needs to leave (`client.go:433`): from then on the agent receives nothing.

## 6. What is not modelled

*Parts of modelled components.* Creation, deletion and re-enabling of agents;
creation of executors, and the rows of containers, which each hello writes anew;
statistics of the agent and the runtime API's server commands; networks of the
host and the decoding of logs; a queue of the scheduler's hub that is full (`Scheduler` lets
a dispatch fail); a job that changes its kind of schedule; names of weekdays and
texts of errors in cron expressions. `newSwitchTask` and `newRollbackTask`
(`release/application/service.go:1106-1208`), the branch of the executor for them
and the status Switched have no producer in the code.

*Time.* Timeouts, leases and delays run out at any moment they may; no clock
relates them, except that a lease outlives an undisturbed delivery in
`ExecutorSessions`.

*Whole components.* Observability aggregates and formats counters in memory, and
no other part decides anything by them. Registry credentials, the sealing of
secrets and administrator sessions are cryptography and single rows that are
created, read and deleted. HTTP routes, the web console and wiring decode, serve
files and inject dependencies. The gRPC code is generated.
