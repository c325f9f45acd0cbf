---------------------------- MODULE ReleaseSteps ----------------------------
(***************************************************************************)
(* The handlers of Release taken apart at their database calls             *)
(* (release/application/service.go): two administrators, the handlers of   *)
(* an agent's streams and the recovery scheduler work on the same rows, no *)
(* transaction keeps them apart, and the control plane may stop, or a call *)
(* to the database fail, in between.                                       *)
(* A row that was read is written back whole.                              *)
(*                                                                         *)
(* The releases are of one service and none of them is switched, so that   *)
(* all go to the same slot; the smaller the older.  A read that is         *)
(* followed at once by the write of the same row is one step; so are       *)
(* writes of rows that no other handler can know of yet.  Whether a task   *)
(* is pending, dispatched or running decides nothing here: it is open.     *)
(***************************************************************************)
EXTENDS Naturals, FiniteSets

CONSTANTS
    NReleases,    \* releases of the service
    Admins,       \* administrators at work at the same time
    StreamOwners, \* handlers of an agent's streams at the same time
    MaxBusy,      \* bound: handlers at work at the same time
    MaxTasks,     \* bound: tasks ever created
    MaxFaults     \* bound: stops of the control plane and failed database calls

ASSUME StepsAssumption ==
    NReleases \in Nat \ {0} /\ MaxBusy \in Nat \ {0} /\ MaxTasks \in Nat \ {0} /\ MaxFaults \in Nat

Releases == 1..NReleases
Tasks == 1..MaxTasks
Timer == "timer"
Handlers == Admins \cup StreamOwners \cup {Timer}

VARIABLES
    release,    \* rows: [status, task]
    task,       \* rows: [release, status], the status ended or not (IsTerminal)
    instance,   \* the release of the instance in the slot, or 0
    created,    \* tasks so far
    old,        \* tasks that were last stored longer ago than their timeout
    at,         \* what each handler does next
    on,         \* the release and the task it works on, and whether it is a Retry
    list,       \* the tasks it has listed and not come to yet
    work,       \* tasks that the agent is at work on
    raced,      \* releases whose handlers overlapped: on one release, or one of
                \* them in a start that had not stored its release yet
    cut,        \* releases left behind by a stop between two stores
    faults

rows == <<release, task, instance, created, old>>
vars == <<rows, at, on, list, work, raced, cut, faults>>

Active(r) == release[r].status \in {"dispatching", "deploying"}
Ends(status) == status \in {"completed", "failed", "skipped"}
Running(t) == task[t].status = "open"
Current(t) == task[t].release # 0 /\ release[task[t].release].task = t
Busy(h) == at[h] # "idle"
MayBegin(h) == ~Busy(h) /\ Cardinality({x \in Handlers : Busy(x)}) < MaxBusy

\* Steps of a handler.
NoWork == [release |-> 0, task |-> 0, retry |-> FALSE]
Goes(h, step) == at' = [at EXCEPT ![h] = step]
Returns(h) ==
    /\ at' = [at EXCEPT ![h] = "idle"] /\ on' = [on EXCEPT ![h] = NoWork]
    /\ list' = [list EXCEPT ![h] = {}]
Stays == UNCHANGED <<on, list>>

\* A handler that turns to r overlaps with others.
Starting(h) == at[h] \in {"check", "supersede", "create"}
Races(r, others) == raced' = raced \cup UNION {{r, on[k].release} : k \in others}

\* UpdateTask and UpdateRelease.
StoreTask(t, status) ==
    /\ task' = [task EXCEPT ![t].status = status]
    /\ old' = old \ {t}

StoreRelease(r, status, t) == release' = [release EXCEPT ![r] = [status |-> status, task |-> t]]

----------------------------------------------------------------------------
(* Start and Retry.                                                        *)

Begin(a, r) ==
    /\ MayBegin(a) /\ release[r].status \in {"queued", "skipped", "failed"}
    /\ Goes(a, "check")
    /\ on' = [on EXCEPT ![a] = [release |-> r, task |-> 0, retry |-> release[r].status = "failed"]]
    /\ Races(r, {k \in Handlers : on[k].release # 0})
    /\ UNCHANGED <<rows, list, work, cut, faults>>

\* Mutant: a release that is still being dispatched does not count.
NoneDeploying == \A r \in Releases : release[r].status # "deploying"

HasNoActiveRelease == \A r \in Releases : ~Active(r)

\* Any of the checks may end the handler.
Check(a) ==
    /\ at[a] = "check"
    /\ \/ HasNoActiveRelease /\ Goes(a, "supersede") /\ Stays
       \/ Returns(a)
    /\ UNCHANGED <<rows, work, raced, cut, faults>>

completeSupersededRelease(a) ==
    /\ at[a] = "supersede"
    /\ release' = [r \in Releases |->
          IF r # on[a].release /\ release[r].status = "ready"
          THEN [release[r] EXCEPT !.status = "completed"] ELSE release[r]]
    /\ Goes(a, "create") /\ Stays
    /\ UNCHANGED <<task, instance, created, old, work, raced, cut, faults>>

\* Nobody can come to the new task before the release is stored with it.
CreateTask(a) ==
    /\ at[a] = "create"
    /\ \/ /\ created < MaxTasks
          /\ created' = created + 1
          /\ task' = [task EXCEPT ![created + 1] = [release |-> on[a].release, status |-> "open"]]
          /\ on' = [on EXCEPT ![a].task = created + 1]
          /\ StoreRelease(on[a].release, "dispatching", created + 1)
          /\ Goes(a, "mark") /\ UNCHANGED list
       \/ Returns(a) /\ UNCHANGED <<release, task, created>>
    /\ UNCHANGED <<instance, old, work, raced, cut, faults>>

\* dispatch stores the task as sent before it sends it.
MarkDispatched(a) ==
    /\ at[a] = "mark"
    /\ StoreTask(on[a].task, "open")
    /\ Goes(a, "send") /\ Stays
    /\ UNCHANGED <<release, instance, created, work, raced, cut, faults>>

\* RuntimeState.TryStart: a task that is at work already is not started again.
Arrives(t) == work' = work \cup {t}

\* The session takes the command, there is none, or its queue is full.
DispatchTask(a) ==
    /\ at[a] = "send"
    /\ \/ Arrives(on[a].task) /\ Goes(a, "skip")
       \/ UNCHANGED work /\ (Goes(a, "defer") \/ Goes(a, "fail"))
    /\ Stays
    /\ UNCHANGED <<rows, raced, cut, faults>>

Deferred(a) ==
    /\ at[a] = "defer"
    /\ StoreTask(on[a].task, "open")
    /\ Goes(a, "skip") /\ Stays
    /\ UNCHANGED <<release, instance, created, work, raced, cut, faults>>

\* markDispatchFailed stores the task, then reads and stores the release.
markDispatchFailed(a) ==
    \/ /\ at[a] = "fail"
       /\ StoreTask(on[a].task, "ended")
       /\ Goes(a, "fail release") /\ Stays
       /\ UNCHANGED <<release, instance, created, work, raced, cut, faults>>
    \/ /\ at[a] = "fail release"
       /\ LET r == on[a].release IN StoreRelease(r, "failed", release[r].task)
       /\ Returns(a)
       /\ UNCHANGED <<task, instance, created, old, work, raced, cut, faults>>

\* Only Start skips the older releases of the queue.
autoSkipQueuedBeforeStart(a) ==
    /\ at[a] = "skip"
    /\ release' = [r \in Releases |->
          IF ~on[a].retry /\ r < on[a].release /\ release[r].status = "queued"
          THEN [release[r] EXCEPT !.status = "skipped"] ELSE release[r]]
    /\ Returns(a)
    /\ UNCHANGED <<task, instance, created, old, work, raced, cut, faults>>

----------------------------------------------------------------------------
(* HandleTaskUpdate.                                                       *)

\* The agent says that it runs a task and later what became of it.
Reads(h, t, result) ==
    LET r == task[t].release IN
    /\ MayBegin(h) /\ t \in work
    /\ work' = IF result = "running" THEN work ELSE work \ {t}
    /\ IF Current(t) /\ Running(t) /\ ~Ends(release[r].status)
       THEN /\ Goes(h, IF result # "running" THEN result
                       ELSE IF release[r].status = "dispatching" THEN "deploying" ELSE "running")
            /\ on' = [on EXCEPT ![h] = [release |-> r, task |-> t, retry |-> FALSE]]
            /\ Races(r, {k \in Handlers : on[k].release = r \/ Starting(k)})
            /\ UNCHANGED list
       ELSE UNCHANGED <<at, on, list, raced>>
    /\ UNCHANGED <<rows, cut, faults>>

HandleRunning(h) ==
    \/ /\ at[h] = "deploying"
       /\ StoreRelease(on[h].release, "deploying", on[h].task)
       /\ Goes(h, "running") /\ Stays
       /\ UNCHANGED <<task, instance, created, old, work, raced, cut, faults>>
    \/ /\ at[h] = "running"
       /\ StoreTask(on[h].task, "open")
       /\ Returns(h)
       /\ UNCHANGED <<release, instance, created, work, raced, cut, faults>>

\* Mutant: the release is stored before the instance.
ReadyFirst(h) ==
    \/ /\ at[h] = "succeeded"
       /\ StoreTask(on[h].task, "ended")
       /\ Goes(h, "instance") /\ Stays
       /\ UNCHANGED <<release, instance, created, work, raced, cut, faults>>
    \/ /\ at[h] = "instance"
       /\ StoreRelease(on[h].release, "ready", on[h].task)
       /\ Goes(h, "ready") /\ Stays
       /\ UNCHANGED <<task, instance, created, old, work, raced, cut, faults>>
    \/ /\ at[h] = "ready"
       /\ instance' = on[h].release
       /\ Returns(h)
       /\ UNCHANGED <<release, task, created, old, work, raced, cut, faults>>

HandleSucceeded(h) ==
    \/ /\ at[h] = "succeeded"
       /\ StoreTask(on[h].task, "ended")
       /\ Goes(h, "instance") /\ Stays
       /\ UNCHANGED <<release, instance, created, work, raced, cut, faults>>
    \/ /\ at[h] = "instance"
       /\ instance' = on[h].release
       /\ Goes(h, "ready") /\ Stays
       /\ UNCHANGED <<release, task, created, old, work, raced, cut, faults>>
    \/ /\ at[h] = "ready"
       /\ StoreRelease(on[h].release, "ready", on[h].task)
       /\ Returns(h)
       /\ UNCHANGED <<task, instance, created, old, work, raced, cut, faults>>

\* Mutant: the release is forgotten.
FailsTaskOnly(h) ==
    /\ at[h] = "failed"
    /\ StoreTask(on[h].task, "ended")
    /\ Returns(h)
    /\ UNCHANGED <<release, instance, created, work, raced, cut, faults>>

HandleFailed(h) ==
    \/ /\ at[h] = "failed"
       /\ StoreTask(on[h].task, "ended")
       /\ Goes(h, "failed release") /\ Stays
       /\ UNCHANGED <<release, instance, created, work, raced, cut, faults>>
    \/ /\ at[h] = "failed release"
       /\ StoreRelease(on[h].release, "failed", on[h].task)
       /\ Returns(h)
       /\ UNCHANGED <<task, instance, created, old, work, raced, cut, faults>>

----------------------------------------------------------------------------
(* RecoverAgentTasks, with a heartbeat of the agent.                       *)

ListRecoverable(h) ==
    LET ts == {t \in Tasks : Current(t) /\ Running(t)} IN
    /\ MayBegin(h) /\ ts # {}
    /\ list' = [list EXCEPT ![h] = ts]
    /\ Goes(h, "recover")
    /\ UNCHANGED <<rows, on, work, raced, cut, faults>>

\* A task that the agent says it runs may be stored as running; of another one
\* the command is sent again, at most once for each stream, and it is stored as
\* dispatched.  Here both are open, and what is at work is not started twice.
ReplayTask(h, t) ==
    /\ at[h] = "recover" /\ t \in list[h]
    /\ list' = [list EXCEPT ![h] = @ \ {t}]
    /\ \/ /\ Arrives(t)
          /\ on' = [on EXCEPT ![h] = [release |-> task[t].release, task |-> t, retry |-> FALSE]]
          /\ Goes(h, "replayed")
       \/ UNCHANGED <<work, on, at>>
    /\ UNCHANGED <<rows, raced, cut, faults>>

StoreReplayed(h) ==
    /\ at[h] = "replayed"
    /\ StoreTask(on[h].task, "open")
    /\ Goes(h, "recover")
    /\ on' = [on EXCEPT ![h] = NoWork]
    /\ UNCHANGED <<release, instance, created, list, work, raced, cut, faults>>

AllDone(h) ==
    /\ at[h] \in {"recover", "stale"} /\ list[h] = {}
    /\ Returns(h)
    /\ UNCHANGED <<rows, work, raced, cut, faults>>

----------------------------------------------------------------------------
(* FailStaleTasks.                                                         *)

ListActive ==
    LET ts == {t \in old : Current(t) /\ Running(t)} IN
    /\ MayBegin(Timer) /\ ts # {}
    /\ list' = [list EXCEPT ![Timer] = ts]
    /\ Goes(Timer, "stale")
    /\ UNCHANGED <<rows, on, work, raced, cut, faults>>

\* The release is read now, the task as it was listed.
ReadStale(t) ==
    LET r == task[t].release IN
    /\ at[Timer] = "stale" /\ t \in list[Timer]
    /\ list' = [list EXCEPT ![Timer] = @ \ {t}]
    /\ IF Current(t) /\ ~Ends(release[r].status)
       THEN /\ on' = [on EXCEPT ![Timer] = [release |-> r, task |-> t, retry |-> FALSE]]
            /\ Races(r, {k \in Handlers : on[k].release = r \/ Starting(k)})
            /\ Goes(Timer, "timed out")
       ELSE UNCHANGED <<on, at, raced>>
    /\ UNCHANGED <<rows, work, cut, faults>>

FailStale ==
    \/ /\ at[Timer] = "timed out"
       /\ StoreTask(on[Timer].task, "ended")
       /\ Goes(Timer, "stale release") /\ Stays
       /\ UNCHANGED <<release, instance, created, work, raced, cut, faults>>
    \/ /\ at[Timer] = "stale release"
       /\ StoreRelease(on[Timer].release, "failed", on[Timer].task)
       /\ Goes(Timer, "stale")
       /\ on' = [on EXCEPT ![Timer] = NoWork]
       /\ UNCHANGED <<task, instance, created, old, list, work, raced, cut, faults>>

----------------------------------------------------------------------------

\* Time passes without a change of the task's row.
Ages(t) ==
    /\ t \notin old /\ Running(t)
    /\ old' = old \cup {t}
    /\ UNCHANGED <<release, task, instance, created, at, on, list, work, raced, cut, faults>>

\* The agent's process ends: nobody works on the task and nothing is reported.
AgentStops(t) ==
    /\ t \in work
    /\ work' = work \ {t}
    /\ UNCHANGED <<rows, at, on, list, raced, cut, faults>>

\* Between two stores of one handler.
HalfStored(h) ==
    at[h] \in {"running", "fail release", "instance", "ready", "failed release", "stale release"}

\* The control plane stops and is started again, its handlers are gone; or a
\* call to the database fails and one handler gives up.
Fault(gone) ==
    /\ faults < MaxFaults /\ \A h \in gone : Busy(h)
    /\ faults' = faults + 1
    /\ cut' = cut \cup {on[h].release : h \in {x \in gone : HalfStored(x)}}
    /\ at' = [h \in Handlers |-> IF h \in gone THEN "idle" ELSE at[h]]
    /\ on' = [h \in Handlers |-> IF h \in gone THEN NoWork ELSE on[h]]
    /\ list' = [h \in Handlers |-> IF h \in gone THEN {} ELSE list[h]]
    /\ UNCHANGED <<rows, work, raced>>

Crash ==
    LET busy == {h \in Handlers : Busy(h)} IN busy # {} /\ Fault(busy)

CallFails(h) == Fault({h})

Init ==
    /\ release = [r \in Releases |-> [status |-> "queued", task |-> 0]]
    /\ task = [t \in Tasks |-> [release |-> 0, status |-> "none"]]
    /\ instance = 0 /\ created = 0 /\ old = {}
    /\ at = [h \in Handlers |-> "idle"]
    /\ on = [h \in Handlers |-> NoWork]
    /\ list = [h \in Handlers |-> {}]
    /\ work = {}
    /\ raced = {} /\ cut = {} /\ faults = 0

AdminStep(a) ==
    \/ Check(a) \/ completeSupersededRelease(a) \/ CreateTask(a)
    \/ MarkDispatched(a) \/ DispatchTask(a) \/ Deferred(a) \/ markDispatchFailed(a)
    \/ autoSkipQueuedBeforeStart(a)
StreamStep(h) ==
    \/ HandleRunning(h) \/ HandleSucceeded(h) \/ HandleFailed(h)
    \/ (\E t \in Tasks : ReplayTask(h, t)) \/ StoreReplayed(h) \/ AllDone(h)
TimerStep == ListActive \/ (\E t \in Tasks : ReadStale(t)) \/ FailStale \/ AllDone(Timer)

Next ==
    \/ \E a \in Admins : AdminStep(a) \/ \E r \in Releases : Begin(a, r)
    \/ \E h \in StreamOwners :
          \/ StreamStep(h) \/ ListRecoverable(h)
          \/ \E t \in Tasks, result \in {"running", "succeeded", "failed"} : Reads(h, t, result)
    \/ TimerStep \/ (\E t \in Tasks : Ages(t) \/ AgentStops(t))
    \/ Crash \/ \E h \in Handlers : CallFails(h)

Spec == Init /\ [][Next]_vars

----------------------------------------------------------------------------
(* Properties.                                                             *)

Steps == {"idle", "check", "supersede", "create", "mark", "send", "defer", "fail", "fail release",
          "skip", "deploying", "running", "succeeded", "instance", "ready", "failed",
          "failed release", "recover", "replayed", "stale", "timed out", "stale release"}

\* The rows and what the handlers hold of them are well formed.
TypeOK ==
    /\ release \in [Releases -> [status : {"queued", "dispatching", "deploying", "ready",
                                           "completed", "failed", "skipped"},
                                 task : Tasks \cup {0}]]
    /\ task \in [Tasks -> [release : Releases \cup {0}, status : {"none", "open", "ended"}]]
    /\ at \in [Handlers -> Steps]
    /\ on \in [Handlers -> [release : Releases \cup {0}, task : Tasks \cup {0}, retry : BOOLEAN]]
    /\ list \in [Handlers -> SUBSET Tasks]
    /\ instance \in Releases \cup {0} /\ created \in 0..MaxTasks
    /\ old \cup work \subseteq Tasks /\ raced \cup cut \subseteq Releases \cup {0}

\* Two releases of a service are being deployed at once only if a handler of one
\* of them overlapped the start of another: HasActiveRelease is read in Start and
\* Retry and nothing holds it true until the release is stored.
DoubleOnlyByRace ==
    \A r, q \in Releases : r # q /\ Active(r) /\ Active(q) => {r, q} \cap raced # {}

\* A release is being deployed behind an ended task only while a handler still
\* works on it, or after the control plane stopped between the two stores of
\* HandleTaskUpdate, FailStaleTasks or markDispatchFailed: recovery lists open
\* tasks, so nothing else would ever end it.
StuckOnlyByStop ==
    \A r \in Releases :
        Active(r) /\ ~Running(release[r].task) =>
            r \in cut \/ \E h \in Handlers : Busy(h) /\ on[h].release = r

\* A candidate that waits for its switch owns the instance in the slot, whatever
\* was started, timed out or replayed before: applyTaskSuccess stores the
\* instance first.  Only a release whose handlers overlapped may have lost or
\* taken it.
CandidateOwnsSlot ==
    \A r \in Releases :
        release[r].status = "ready" => instance = r \/ {r, instance} \cap raced # {}
=============================================================================
