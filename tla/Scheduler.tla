----------------------------- MODULE Scheduler -----------------------------
(***************************************************************************)
(* The job scheduler of the control plane                                  *)
(* (internal/scheduler/application/service.go) over its repository         *)
(* (internal/scheduler/infra/repository.go), with its engine               *)
(* (adapter/schedule/engine.go), the reports its executors send            *)
(* (adapter/grpc/controlplane/scheduler_server.go) and the executors       *)
(* themselves (pkg/scheduler/sdk/client.go).                               *)
(*                                                                         *)
(* A cycle of the engine is one database transaction: its writes are kept  *)
(* in tx until it commits, and the runs it dispatches reach their          *)
(* executors before that.  The other handlers run between any two of its   *)
(* statements and see committed rows only; one that would write a row the  *)
(* transaction has written waits for its end.  Where a handler reads a row *)
(* and writes it back later, the two are steps of their own.               *)
(*                                                                         *)
(* Moments of a schedule are numbered 1, 2, ...; leases and retry delays   *)
(* run out whenever their time may have passed.                            *)
(***************************************************************************)
EXTENDS Naturals, FiniteSets

CONSTANTS
    Jobs,          \* jobs an administrator may create
    Cron,          \* those on a cron schedule; the others run once
    Fixed,         \* those dispatched to the live slot of their service
    NumExecutors,  \* executors, numbered in the order of their ids
    GroupOf,       \* the executors of each job's group
    SlotOf,        \* the slot an executor announced, 0 for none
    Instances,     \* executors that are instances of the jobs' service
    Gaps,          \* moments of cron jobs after which the search finds none
    MaxRetries,    \* retries of every job
    BatchSize,     \* rows of one cycle
    LeaseTicks,    \* age at which a lease that is not renewed expires
    MaxTime,       \* bound: moments of the schedules
    MaxRuns        \* bound: runs ever created

Executors == 1..NumExecutors
RunIds == 1..MaxRuns
Moments == 1..MaxTime
Slots == {1, 2}

ASSUME SchedulerAssumption ==
    /\ Jobs # {} /\ Cron \subseteq Jobs /\ Fixed \subseteq Jobs
    /\ NumExecutors \in Nat \ {0}
    /\ GroupOf \in [Jobs -> SUBSET Executors]
    /\ SlotOf \in [Executors -> Slots \cup {0}] /\ Instances \subseteq Executors
    /\ MaxRetries \in Nat /\ BatchSize \in Nat \ {0} /\ LeaseTicks \in Nat \ {0}
    /\ MaxTime \in Nat \ {0} /\ MaxRuns \in Nat \ {0}
    /\ Gaps \subseteq Cron \X Moments

VARIABLES
    time,          \* moments that have passed
    job,           \* ep_scheduler_job rows, committed
    run,           \* ep_scheduler_job_run rows, committed
    cursor,        \* ep_scheduler_dispatch_cursor rows, committed
    tx,            \* what the engine's transaction has written
    engine,        \* where the engine is in its cycle
    online,        \* executors in the hub that are enabled and were seen lately
    delivery,      \* what each executor has done with each run
    completing,    \* an executor's completion between its read and its write
    editing,       \* an administrator's request between its read and its write
    live           \* the live slot of the jobs' service, 0 before the first switch

engineVars == <<tx, engine>>
executorVars == <<online, delivery, completing>>
vars == <<time, job, run, cursor, engineVars, executorVars, editing, live>>

----------------------------------------------------------------------------
(* Rows.                                                                   *)

RunStatus == {"absent", "pending", "dispatched", "running",
              "succeeded", "retryWaiting", "failed", "deleted"}
IsTerminal(s) == s \in {"succeeded", "failed"}
IsLeased(s) == s \in {"dispatched", "running"}
IsOutstanding(s) == s \in {"pending", "retryWaiting"} \/ IsLeased(s)

\* moment is 0 for a run that was triggered by hand, whose idempotency key is
\* its own id; lease counts down to 0, when it has expired.
RunRow == [status: RunStatus, job: Jobs, moment: 0..MaxTime, scheduledAt: 0..MaxTime,
           attempt: Nat, leasedBy: Executors \cup {0}, lease: 0..LeaseTicks,
           retryDue: BOOLEAN]
JobRow == [status: {"absent", "present", "deleted"}, enabled: BOOLEAN,
           next: 0..MaxTime + 1]
DueRow == {row \in JobRow : row.next <= MaxTime}

SomeJob == CHOOSE j \in Jobs : TRUE
NoRun == [status |-> "absent", job |-> SomeJob, moment |-> 0, scheduledAt |-> 0,
          attempt |-> 0, leasedBy |-> 0, lease |-> 0, retryDue |-> FALSE]
NoJob == [status |-> "absent", enabled |-> FALSE, next |-> 0]
NoTx == [runs |-> {}, run |-> [r \in RunIds |-> NoRun],
         jobs |-> {}, job |-> [j \in Jobs |-> NoJob],
         cursors |-> {}, cursor |-> [j \in Jobs |-> 0]]
Idle == [phase |-> "idle", now |-> 0, jobs |-> {}, picked |-> {}, fresh |-> NoJob,
         runs |-> {}, expired |-> {}, unclaimed |-> {}, row |-> NoRun]
NoCall == [run |-> 0, status |-> "failed", attempt |-> 0]
NoEdit == [at |-> "none", job |-> SomeJob, row |-> NoJob]

\* What the engine sees: its own writes over the committed rows.
View(r) == IF r \in tx.runs THEN tx.run[r] ELSE run[r]
JobView(j) == IF j \in tx.jobs THEN tx.job[j] ELSE job[j]
CursorView(j) == IF j \in tx.cursors THEN tx.cursor[j] ELSE cursor[j]
Exists(row) == row.status \notin {"absent", "deleted"}

WriteRun(t, r, row) == [t EXCEPT !.runs = @ \cup {r}, !.run[r] = row]
WriteJob(t, j, row) == [t EXCEPT !.jobs = @ \cup {j}, !.job[j] = row]

\* Ids are random: the next one is of a run that nobody has heard of.
UnusedIds ==
    {r \in RunIds : /\ run[r].status = "absent" /\ r \notin tx.runs
                    /\ \A e \in Executors : delivery[e][r] = "none"}
FreshId(r) == r \in UnusedIds /\ \A q \in UnusedIds : r <= q

\* Bound: ids are kept for the scheduled runs that are still to come, from the
\* rows of a job that are stored or in somebody's hand.
RowsOf(j) ==
    {job[j], JobView(j)} \cup (IF editing.job = j THEN {editing.row} ELSE {})
                         \cup (IF engine.picked = {j} THEN {engine.fresh} ELSE {})
MayStillCome(j, m) ==
    /\ <<j, m>> \notin Gaps
    /\ \E row \in RowsOf(j) : IF j \in Cron THEN row.next \in 1..m ELSE row.next = m
Reserved ==
    Cardinality({m \in Jobs \X Moments :
                   /\ MayStillCome(m[1], m[2])
                   /\ ~\E r \in RunIds : /\ run[r].status # "absent" \/ r \in tx.runs
                                         /\ <<View(r).job, View(r).moment>> = m})
IdsLeft == Reserved <= Cardinality(UnusedIds)

NewRun(j, moment) ==
    [NoRun EXCEPT !.status = "pending", !.job = j, !.moment = moment,
                  !.scheduledAt = IF moment = 0 THEN time ELSE moment, !.attempt = 1]

----------------------------------------------------------------------------
(* The engine's cycle.                                                     *)

\* The first BatchSize rows of S in the order of `key`.
Batch(S, key) ==
    {T \in SUBSET S :
        /\ Cardinality(T) = IF Cardinality(S) < BatchSize THEN Cardinality(S) ELSE BatchSize
        /\ \A x \in T, y \in S \ T : key[x] <= key[y]}

Due(row, now) == row.status = "present" /\ row.enabled /\ row.next \in 1..now

\* The engine lock and the list of due jobs.
BeginCycle ==
    /\ engine.phase = "idle"
    /\ \E T \in Batch({j \in Jobs : Due(job[j], time)}, [j \in Jobs |-> job[j].next]) :
          engine' = [Idle EXCEPT !.phase = "enqueue", !.now = time, !.jobs = T]
    /\ UNCHANGED <<time, job, run, cursor, tx, executorVars, editing, live>>

\* A due job is read again, ...
readDueJob(j) ==
    /\ engine.phase = "enqueue" /\ engine.picked = {} /\ j \in engine.jobs
    /\ engine' = [engine EXCEPT !.jobs = @ \ {j},
                                !.picked = IF Due(JobView(j), engine.now) THEN {j} ELSE {},
                                !.fresh = IF Due(JobView(j), engine.now) THEN JobView(j)
                                          ELSE NoJob]
    /\ UNCHANGED <<time, job, run, cursor, tx, executorVars, editing, live>>

\* Mutant: the insert does not look at the idempotency key.
InsertAnyway(j, moment) == TRUE

\* CreateRunIfNotExists inserts when no run has the key of this moment.
CreateRunIfNotExists(j, moment) ==
    \A r \in RunIds : ~(/\ Exists(View(r))
                        /\ View(r).job = j
                        /\ View(r).moment = moment)

\* Mutant: the next moment is counted from the present and not from the moment
\* that was enqueued.
nextFromNow(j, row) ==
    IF j \in Cron THEN [row EXCEPT !.next = time + 1]
    ELSE [row EXCEPT !.next = 0, !.enabled = FALSE]

computeNextSchedule(j, row) ==
    IF j \in Cron THEN [row EXCEPT !.next = @ + 1]
    ELSE [row EXCEPT !.next = 0, !.enabled = FALSE]

\* ... and written back with its next moment, once it has a run for this one.
\* The row of a job that was deleted meanwhile is gone.
enqueueDueJob(j) ==
    LET moment == engine.fresh.next
        advanced == IF JobView(j).status = "present"
                    THEN WriteJob(tx, j, computeNextSchedule(j, engine.fresh)) ELSE tx
    IN  /\ engine.phase = "enqueue" /\ engine.picked = {j}
        /\ <<j, moment>> \notin Gaps
        /\ engine' = [engine EXCEPT !.picked = {}, !.fresh = NoJob]
        /\ IF CreateRunIfNotExists(j, moment)
           THEN \E r \in RunIds : FreshId(r) /\ tx' = WriteRun(advanced, r, NewRun(j, moment))
           ELSE tx' = advanced
        /\ UNCHANGED <<time, job, run, cursor, executorVars, editing, live>>

\* No moment follows that of the run, as far as the search goes: the error ends
\* the cycle, and nothing of it is kept.
SearchFails(j) ==
    /\ engine.phase = "enqueue" /\ engine.picked = {j}
    /\ <<j, engine.fresh.next>> \in Gaps
    /\ tx' = NoTx /\ engine' = Idle
    /\ UNCHANGED <<time, job, run, cursor, executorVars, editing, live>>

Expired(row) == IsLeased(row.status) /\ row.lease = 0

\* Mutant: a lease that has expired is left alone.
DispatchableUnleased(row) ==
    row.status = "pending" \/ (row.status = "retryWaiting" /\ row.retryDue)

Dispatchable(row) ==
    \/ row.status = "pending"
    \/ row.status = "retryWaiting" /\ row.retryDue
    \/ Expired(row)

shouldFailExpiredRun(row) == Expired(row) /\ row.attempt > MaxRetries

\* The list of dispatchable runs; those that have used up their attempts are
\* told apart by the row as it was listed.
ListDispatchableRuns ==
    /\ engine.phase = "enqueue" /\ engine.jobs = {} /\ engine.picked = {}
    /\ \E T \in Batch({r \in RunIds : Dispatchable(View(r))},
                      [r \in RunIds |-> View(r).scheduledAt]) :
          LET expired == {r \in T : shouldFailExpiredRun(View(r))}
          IN  engine' = [engine EXCEPT !.phase = "dispatch", !.runs = T \ expired,
                                       !.expired = expired]
    /\ UNCHANGED <<time, job, run, cursor, tx, executorVars, editing, live>>

MarkExpiredRunFailed(r) ==
    /\ engine.phase = "dispatch" /\ engine.unclaimed = {} /\ r \in engine.expired
    /\ engine' = [engine EXCEPT !.expired = @ \ {r}]
    /\ tx' = IF shouldFailExpiredRun(View(r))
             THEN WriteRun(tx, r, [View(r) EXCEPT !.status = "failed", !.leasedBy = 0,
                                                  !.lease = 0])
             ELSE tx
    /\ UNCHANGED <<time, job, run, cursor, executorVars, editing, live>>

----------------------------------------------------------------------------
(* Choosing an executor.                                                   *)

\* The executor for a run of j, if there is one: the first of the service's
\* instances on the live slot, or else of the others on that slot; without a
\* fixed slot, the one that follows the last.
pickExecutorID(j) ==
    LET group == GroupOf[j] \cap online
        onLive == {e \in group : SlotOf[e] = live}
        after == {e \in group : e > CursorView(j)}
        pool == IF j \in Fixed
                THEN IF onLive \cap Instances # {} THEN onLive \cap Instances ELSE onLive
                ELSE IF CursorView(j) \in group /\ after # {} THEN after ELSE group
    IN  {e \in pool : \A x \in pool : e <= x}

SaveDispatchCursor(t, j, e) ==
    IF j \in Fixed THEN t ELSE [t EXCEPT !.cursors = @ \cup {j}, !.cursor[j] = e]

\* The condition of ClaimRun.
Claimable(row) ==
    \/ row.status = "pending"
    \/ row.status = "retryWaiting" /\ row.retryDue
    \/ Expired(row) /\ row.attempt <= MaxRetries

ClaimRun(row, e) ==
    [row EXCEPT !.status = "dispatched", !.leasedBy = e, !.lease = LeaseTicks,
                !.retryDue = FALSE,
                !.attempt = IF IsLeased(row.status) THEN @ + 1 ELSE @]

\* Mutant: the lease of a run that could not be sent is kept.
keepClaim(row) == row

MarkRunDispatchFailed(row) ==
    [row EXCEPT !.status = "pending", !.leasedBy = 0, !.lease = 0]

\* ClaimRun and DispatchRun; `sent` says whether the executor's session took
\* the run.  A run that somebody else has moved on is not claimed.
claimAndDispatch(r, e, sent) ==
    LET row == ClaimRun(View(r), e)
        saved == SaveDispatchCursor(tx, View(r).job, e)
    IN  /\ engine.phase = "dispatch" /\ engine.unclaimed = {} /\ r \in engine.runs
        /\ e \in pickExecutorID(View(r).job)
        /\ engine' = [engine EXCEPT !.runs = @ \ {r}]
        /\ IF Claimable(View(r))
           THEN /\ tx' = WriteRun(saved, r, IF sent THEN row ELSE MarkRunDispatchFailed(row))
                /\ delivery' = IF sent THEN [delivery EXCEPT ![e][r] = "working"] ELSE delivery
           ELSE tx' = saved /\ UNCHANGED delivery
        /\ UNCHANGED <<time, job, run, cursor, online, completing, editing, live>>

\* No executor: the run is read again to note that on it ...
findNoExecutor(r) ==
    /\ engine.phase = "dispatch" /\ engine.unclaimed = {} /\ r \in engine.runs
    /\ pickExecutorID(View(r).job) = {}
    /\ engine' = IF Exists(View(r))
                 THEN [engine EXCEPT !.runs = @ \ {r}, !.unclaimed = {r}, !.row = View(r)]
                 ELSE [engine EXCEPT !.runs = @ \ {r}]
    /\ UNCHANGED <<time, job, run, cursor, tx, executorVars, editing, live>>

\* ... and UpdateRun writes all its columns back.
UpdateRun(r) ==
    /\ engine.unclaimed = {r}
    /\ engine' = [engine EXCEPT !.unclaimed = {}, !.row = NoRun]
    /\ tx' = IF Exists(View(r)) THEN WriteRun(tx, r, engine.row) ELSE tx
    /\ UNCHANGED <<time, job, run, cursor, executorVars, editing, live>>

Commit ==
    /\ engine.phase = "dispatch" /\ engine.unclaimed = {}
    /\ engine.runs = {} /\ engine.expired = {}
    /\ run' = [r \in RunIds |-> View(r)]
    /\ job' = [j \in Jobs |-> JobView(j)]
    /\ cursor' = [j \in Jobs |-> CursorView(j)]
    /\ tx' = NoTx /\ engine' = Idle
    /\ UNCHANGED <<time, executorVars, editing, live>>

\* A statement fails or the control plane stops: the transaction is undone,
\* what was sent is not.
Abort ==
    /\ engine.phase # "idle"
    /\ tx' = NoTx /\ engine' = Idle
    /\ UNCHANGED <<time, job, run, cursor, executorVars, editing, live>>
    /\ IdsLeft'   \* bound

----------------------------------------------------------------------------
(* Executors.  Their sessions come and go; a report may arrive when the    *)
(* session has left the hub already.                                       *)

Connect(e) ==
    /\ e \notin online /\ online' = online \cup {e}
    /\ UNCHANGED <<time, job, run, cursor, engineVars, delivery, completing, editing, live>>

\* The session closes, its heartbeats stop or the executor is disabled.
Disconnect(e) ==
    /\ e \in online /\ online' = online \ {e}
    /\ UNCHANGED <<time, job, run, cursor, engineVars, delivery, completing, editing, live>>

\* The executor's process ends: its handlers report nothing any more.
ExecutorStops(e) ==
    /\ \E r \in RunIds : delivery[e][r] = "working"
    /\ online' = online \ {e}
    /\ delivery' = [delivery EXCEPT ![e] =
                      [r \in RunIds |-> IF @[r] = "working" THEN "done" ELSE @[r]]]
    /\ UNCHANGED <<time, job, run, cursor, engineVars, completing, editing, live>>

\* Mutant: a report is written whoever leases the run, and if nobody does.
WhoeverLeases(row, e) == Exists(row)

HoldsLease(row, e) == IsLeased(row.status) /\ row.leasedBy = e

\* A report that finds no row to write changes nothing; one that does waits for
\* the transaction that has written it.
ReportAllowed(e, r) ==
    /\ delivery[e][r] = "working" /\ completing[e] = NoCall
    /\ HoldsLease(run[r], e) /\ r \notin tx.runs

MarkRunRunning(e, r) ==
    /\ ReportAllowed(e, r)
    /\ run' = [run EXCEPT ![r].status = "running"]
    /\ UNCHANGED <<time, job, cursor, engineVars, executorVars, editing, live>>

RenewRunLease(e, r) ==
    /\ ReportAllowed(e, r) /\ run[r].lease > 0
    /\ run' = [run EXCEPT ![r].lease = LeaseTicks]
    /\ UNCHANGED <<time, job, cursor, engineVars, executorVars, editing, live>>

\* Mutant: a retry is granted without looking at the attempts.
RetryAlways(row) == TRUE

RetriesLeft(row) == row.attempt <= MaxRetries

\* The handler of a run returns and its result is reported: CompleteRun reads
\* the run and refuses the result of an executor that does not lease it, ...
HandlerReturns(e, r) ==
    /\ delivery[e][r] = "working" /\ completing[e] = NoCall
    /\ delivery' = [delivery EXCEPT ![e][r] = "done"]
    /\ \E success, retryable \in BOOLEAN :
          LET retry == ~success /\ retryable /\ RetriesLeft(run[r])
          IN  completing' =
                IF run[r].leasedBy = e /\ ~IsTerminal(run[r].status)
                THEN [completing EXCEPT ![e] =
                        [run |-> r,
                         status |-> IF success THEN "succeeded"
                                    ELSE IF retry THEN "retryWaiting" ELSE "failed",
                         attempt |-> IF retry THEN run[r].attempt + 1 ELSE run[r].attempt]]
                ELSE completing
    /\ UNCHANGED <<time, job, run, cursor, engineVars, online, editing, live>>

\* Mutant: the executor's name is left on the completed run.
completedKeepsHolder(row, call) ==
    [row EXCEPT !.status = call.status, !.attempt = call.attempt, !.lease = 0,
                !.retryDue = FALSE]

completedRow(row, call) ==
    [row EXCEPT !.status = call.status, !.attempt = call.attempt, !.lease = 0,
                !.leasedBy = 0, !.retryDue = FALSE]

\* ... and writes it if the executor still leases the run.
CompleteRun(e) ==
    LET r == completing[e].run
    IN  /\ completing[e] # NoCall
        /\ completing' = [completing EXCEPT ![e] = NoCall]
        /\ IF HoldsLease(run[r], e)
           THEN r \notin tx.runs /\ run' = [run EXCEPT ![r] = completedRow(@, completing[e])]
           ELSE run' = run
        /\ UNCHANGED <<time, job, cursor, engineVars, online, delivery, editing, live>>

----------------------------------------------------------------------------
(* Time.                                                                   *)

Tick ==
    /\ time < MaxTime /\ time' = time + 1
    /\ UNCHANGED <<job, run, cursor, engineVars, executorVars, editing, live>>

LeaseAges(r) ==
    /\ IsLeased(run[r].status) /\ run[r].lease > 0
    /\ run' = [run EXCEPT ![r].lease = @ - 1]
    /\ UNCHANGED <<time, job, cursor, engineVars, executorVars, editing, live>>

RetryFallsDue(r) ==
    /\ run[r].status = "retryWaiting" /\ ~run[r].retryDue
    /\ run' = [run EXCEPT ![r].retryDue = TRUE]
    /\ UNCHANGED <<time, job, cursor, engineVars, executorVars, editing, live>>

\* A release moves the traffic of the jobs' service.
LiveSlotSwitches ==
    /\ Fixed # {}
    /\ live' \in Slots \ {live}
    /\ UNCHANGED <<time, job, run, cursor, engineVars, executorVars, editing>>

----------------------------------------------------------------------------
(* Administrators.  Bound: one of their requests at a time.                *)

\* The first moment of a schedule: a cron job's next one, any for the others.
InitialMoments(j) == IF j \in Cron THEN {time + 1} ELSE Moments

CreateJob(j) ==
    /\ job[j].status = "absent"
    /\ \E m \in InitialMoments(j), en \in BOOLEAN :
          job' = [job EXCEPT ![j] = [status |-> "present", enabled |-> en, next |-> m]]
    /\ UNCHANGED <<time, run, cursor, engineVars, executorVars, editing, live>>
    /\ IdsLeft'   \* bound

\* SetJobEnabled and UpdateJob read the job ...
ReadForEdit(j, row) ==
    /\ editing = NoEdit /\ job[j].status = "present"
    /\ editing' = [at |-> "write", job |-> j, row |-> row]
    /\ UNCHANGED <<time, job, run, cursor, engineVars, executorVars, live>>
    /\ IdsLeft'   \* bound

SetJobEnabled(j) ==
    \E en \in BOOLEAN : ReadForEdit(j, [job[j] EXCEPT !.enabled = en])

UpdateJob(j) ==
    \E en \in BOOLEAN, m \in InitialMoments(j) \cup (IF j \in Cron THEN {} ELSE {job[j].next}) :
        ReadForEdit(j, [job[j] EXCEPT !.enabled = en, !.next = m])

\* ... and write all its columns back.
WriteJobBack ==
    LET j == editing.job
    IN  /\ editing.at = "write"
        /\ IF job[j].status = "present"
           THEN j \notin tx.jobs /\ job' = [job EXCEPT ![j] = editing.row]
           ELSE job' = job
        /\ editing' = NoEdit
        /\ UNCHANGED <<time, run, cursor, engineVars, executorVars, live>>

\* A run now, whatever the schedule.
TriggerNow(j) ==
    /\ job[j].status = "present"
    /\ Cardinality(UnusedIds) > Reserved   \* bound
    /\ \E r \in RunIds : FreshId(r) /\ run' = [run EXCEPT ![r] = NewRun(j, 0)]
    /\ UNCHANGED <<time, job, cursor, engineVars, executorVars, editing, live>>

\* DeleteJob deletes the committed runs of the job, ...
DeleteRuns(j) ==
    /\ editing = NoEdit /\ job[j].status = "present"
    /\ \A r \in tx.runs : ~(Exists(run[r]) /\ run[r].job = j)
    /\ run' = [r \in RunIds |-> IF Exists(run[r]) /\ run[r].job = j
                                THEN [run[r] EXCEPT !.status = "deleted"] ELSE run[r]]
    /\ editing' = [NoEdit EXCEPT !.at = "cursor", !.job = j]
    /\ UNCHANGED <<time, job, cursor, engineVars, executorVars, live>>

\* ... its cursor, ...
DeleteCursor ==
    /\ editing.at = "cursor"
    /\ editing.job \in tx.cursors => cursor[editing.job] = 0
    /\ cursor' = [cursor EXCEPT ![editing.job] = 0]
    /\ editing' = [editing EXCEPT !.at = "delete"]
    /\ UNCHANGED <<time, job, run, engineVars, executorVars, live>>

\* ... and then the job.
DeleteJob ==
    /\ editing.at = "delete" /\ editing.job \notin tx.jobs
    /\ job' = [job EXCEPT ![editing.job] = [NoJob EXCEPT !.status = "deleted"]]
    /\ editing' = NoEdit
    /\ UNCHANGED <<time, run, cursor, engineVars, executorVars, live>>

----------------------------------------------------------------------------
Init ==
    /\ time = 0 /\ live = 0
    /\ job = [j \in Jobs |-> NoJob]
    /\ run = [r \in RunIds |-> NoRun]
    /\ cursor = [j \in Jobs |-> 0]
    /\ tx = NoTx /\ engine = Idle
    /\ online = {}
    /\ delivery = [e \in Executors |-> [r \in RunIds |-> "none"]]
    /\ completing = [e \in Executors |-> NoCall]
    /\ editing = NoEdit

\* A step of a cycle that goes well.
EngineStep ==
    \/ BeginCycle \/ ListDispatchableRuns \/ Commit
    \/ \E j \in Jobs : readDueJob(j) \/ enqueueDueJob(j) \/ SearchFails(j)
    \/ \E r \in RunIds : \/ MarkExpiredRunFailed(r) \/ findNoExecutor(r) \/ UpdateRun(r)
                         \/ \E e \in Executors : claimAndDispatch(r, e, TRUE)

EngineFailure ==
    Abort \/ \E r \in RunIds, e \in Executors : claimAndDispatch(r, e, FALSE)

ExecutorStep(e) ==
    \/ Connect(e) \/ Disconnect(e) \/ ExecutorStops(e) \/ CompleteRun(e)
    \/ \E r \in RunIds : MarkRunRunning(e, r) \/ RenewRunLease(e, r) \/ HandlerReturns(e, r)

TimePasses == Tick \/ LiveSlotSwitches \/ \E r \in RunIds : LeaseAges(r) \/ RetryFallsDue(r)

Administration ==
    \/ WriteJobBack \/ DeleteCursor \/ DeleteJob
    \/ \E j \in Jobs : \/ CreateJob(j) \/ SetJobEnabled(j) \/ UpdateJob(j)
                       \/ TriggerNow(j) \/ DeleteRuns(j)

Next ==
    \/ EngineStep \/ EngineFailure \/ TimePasses \/ Administration
    \/ \E e \in Executors : ExecutorStep(e)

Spec == Init /\ [][Next]_vars

\* The engine's ticker goes on; handlers return and their reports are written;
\* leases and retry delays run out.
FairSpec ==
    /\ Spec
    /\ WF_vars(EngineStep)
    /\ \A e \in Executors : /\ WF_vars(CompleteRun(e))
                            /\ \A r \in RunIds : WF_vars(HandlerReturns(e, r))
    /\ \A r \in RunIds : WF_vars(LeaseAges(r)) /\ WF_vars(RetryFallsDue(r))

----------------------------------------------------------------------------
(* Properties.                                                             *)

\* Rows, the cycle and the calls in flight have the types of their columns.
TypeOK ==
    /\ time \in 0..MaxTime
    /\ job \in [Jobs -> JobRow]
    /\ run \in [RunIds -> RunRow]
    /\ cursor \in [Jobs -> Executors \cup {0}]
    /\ tx \in [runs: SUBSET RunIds, run: [RunIds -> RunRow],
               jobs: SUBSET Jobs, job: [Jobs -> JobRow],
               cursors: SUBSET Jobs, cursor: [Jobs -> Executors \cup {0}]]
    /\ engine \in [phase: {"idle", "enqueue", "dispatch"}, now: 0..MaxTime,
                   jobs: SUBSET Jobs, picked: SUBSET Jobs, fresh: DueRow,
                   runs: SUBSET RunIds, expired: SUBSET RunIds,
                   unclaimed: SUBSET RunIds, row: RunRow]
    /\ online \subseteq Executors
    /\ delivery \in [Executors -> [RunIds -> {"none", "working", "done"}]]
    /\ completing \in [Executors -> [run: RunIds \cup {0},
                                     status: {"succeeded", "retryWaiting", "failed"},
                                     attempt: Nat]]
    /\ editing \in [at: {"none", "write", "cursor", "delete"}, job: Jobs, row: JobRow]
    /\ live \in Slots \cup {0}

\* A moment of a schedule has one run at most, however often the job's row is
\* set back by a request that read it before the engine moved it on.
OneRunPerMoment ==
    \A q, r \in RunIds :
        /\ q # r /\ Exists(run[q]) /\ Exists(run[r])
        /\ run[q].job = run[r].job /\ run[q].moment = run[r].moment
        => run[q].moment = 0

\* The attempts of a run never exceed its retries and the first one, whether
\* they are counted by an executor's retry or by the engine taking over an
\* expired lease, and whichever of the two has read the run before the other.
AttemptsBounded == \A r \in RunIds : run[r].attempt <= MaxRetries + 1

\* A run has a holder exactly while it is dispatched or running: otherwise an
\* executor could complete a run that waits, or nobody one that is leased.
HolderWhileLeased ==
    \A r \in RunIds : Exists(run[r]) => (IsLeased(run[r].status) <=> run[r].leasedBy # 0)

\* The holder of a run was sent that run, on the session it had then: a lease is
\* never given to an executor that the run was not queued for.
HolderWasSent ==
    \A r \in RunIds : Exists(run[r]) /\ run[r].leasedBy # 0
                        => delivery[run[r].leasedBy][r] # "none"

\* A cron schedule moves past a moment only when that moment has a run, or by
\* an administrator's edit: the engine skips none, even when it writes back a
\* row that was edited since it was read.
NoMomentLost ==
    [][\A j \in Cron :
          /\ job[j].status = "present" /\ job[j].next > 0
          /\ job'[j].status = "present" /\ job'[j].next > job[j].next
          /\ editing' = editing
          => \A m \in job[j].next..(job'[j].next - 1) :
                \E r \in RunIds : run'[r].job = j /\ run'[r].moment = m]_vars

\* A run that has ended stays as it is until it is deleted, whichever late
\* reports, expired leases and cycles there are; only the row that the engine
\* read when it found no executor brings it back, as it was before it ended.
EndedRunsStay ==
    [][\A r \in RunIds :
          IsTerminal(run[r].status) =>
             /\ run'[r] # run[r] => run'[r].status = "deleted" \/ (r \in tx.runs /\ Commit)
             /\ r \in tx'.runs \ tx.runs => UpdateRun(r)]_vars

\* From some point on the executors stay online and no cycle fails but where
\* the search for the next moment does.  To undo a cycle that has written nothing
\* is what its commit does as well.
Settles ==
    /\ <>[](online = Executors)
    /\ \A j \in Fixed : <>[](\E e \in GroupOf[j] : SlotOf[e] = live)
    /\ <>[][EngineFailure => EngineStep]_vars

\* A job is due whose next moment the search does not find: every cycle ends at
\* it until an administrator disables or deletes the job.
Stuck == \E j \in Jobs : Due(job[j], time) /\ <<j, job[j].next>> \in Gaps

\* Once things settle every run ends and stays ended, whatever was lost, sent
\* twice or left behind by executors that stopped; only a job whose next moment
\* cannot be found keeps the runs of all jobs from ending.
RunsEnd ==
    Settles => \/ \A r \in RunIds : <>[]~IsOutstanding(run[r].status)
               \/ []<>Stuck
=============================================================================
