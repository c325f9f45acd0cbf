-------------------------- MODULE Scheduler_proofs --------------------------
(***************************************************************************)
(* Theorems about Scheduler, for every set of jobs, number of executors    *)
(* and bound, and about the moments of its cron expressions, for every     *)
(* calendar.                                                               *)
(***************************************************************************)
EXTENDS CronJobs, FiniteSetTheorems, WellFoundedInduction, TLAPS

----------------------------------------------------------------------------
(* The inductive invariant.                                                *)

\* What a copy of the row of run r must satisfy wherever it is kept, given what
\* the executors were sent: it may become the committed row.
SoundRow(sent, r, row) ==
    /\ row.attempt <= MaxRetries + 1
    /\ Exists(row) => /\ IsLeased(row.status) <=> row.leasedBy # 0
                      /\ row.leasedBy # 0 => sent[row.leasedBy][r] # "none"

\* Committed rows, the transaction's and the one the engine will write back are
\* sound.
RowsSound ==
    /\ \A r \in RunIds : SoundRow(delivery, r, run[r])
    /\ \A r \in tx.runs : SoundRow(delivery, r, tx.run[r])
    /\ \A r \in engine.unclaimed : SoundRow(delivery, r, engine.row)

\* A completion in flight is of a run and counts no attempt too many.
CallsSound ==
    \A e \in Executors : /\ completing[e].attempt <= MaxRetries + 1
                         /\ completing[e] = NoCall \/ completing[e].run \in RunIds

\* No two rows of a table of runs have the key of the same moment.
KeysUnique(table) ==
    \A q, r \in RunIds :
        /\ q # r /\ Exists(table[q]) /\ Exists(table[r])
        /\ table[q].job = table[r].job /\ table[q].moment = table[r].moment
        => table[q].moment = 0

Viewed == [r \in RunIds |-> View(r)]

\* The row the engine will write back is of the run it is written to.
WritesBackItsOwn ==
    /\ engine.unclaimed # {} => engine.phase = "dispatch"
    /\ \A r \in engine.unclaimed :
          /\ View(r).status # "absent" /\ Exists(engine.row)
          /\ engine.row.job = View(r).job /\ engine.row.moment = View(r).moment

\* What is said of the tables, the transaction and the engine.
TablesInv ==
    /\ RowsSound
    /\ KeysUnique(run) /\ KeysUnique(Viewed)
    /\ WritesBackItsOwn

IInv == TypeOK /\ TablesInv /\ CallsSound

----------------------------------------------------------------------------
(* Rows and operators.                                                     *)

\* The rows that stand for nothing are rows.
LEMMA EmptyRows ==
    /\ NoRun \in RunRow /\ NoJob \in JobRow /\ NoJob \in DueRow /\ SomeJob \in Jobs
    /\ NoRun.status = "absent" /\ NoRun.attempt = 0 /\ NoRun.leasedBy = 0
    /\ NoRun.moment = 0
<1>1. SomeJob \in Jobs
  BY SchedulerAssumption DEF SomeJob
<1>2. QED
  BY <1>1, SchedulerAssumption DEF NoRun, NoJob, RunRow, JobRow, DueRow, RunStatus

\* The executor that is picked is an executor.
LEMMA PickFacts ==
    ASSUME NEW j \in Jobs
    PROVE  pickExecutorID(j) \subseteq Executors
BY SchedulerAssumption DEF pickExecutorID

\* Sound rows stay sound while executors are only sent more.
LEMMA SoundKept ==
    ASSUME NEW sent, NEW more, NEW r \in RunIds, NEW row \in RunRow,
           \A e \in Executors : sent[e][r] # "none" => more[e][r] # "none",
           SoundRow(sent, r, row)
    PROVE  SoundRow(more, r, row)
BY DEF SoundRow, RunRow

\* Nothing but what was sent changes: rows stay as sound and as unique.
LEMMA OnlySent ==
    ASSUME TypeOK, TablesInv, UNCHANGED <<run, tx, engine>>,
           \A e \in Executors, r \in RunIds :
               delivery[e][r] # "none" => delivery'[e][r] # "none"
    PROVE  TablesInv'
<1>1. \A r \in RunIds : View(r)' = View(r)
  BY DEF View
<1>2. Viewed' = Viewed
  BY <1>1 DEF Viewed
<1>3. RowsSound'
  <2>1. ASSUME NEW r \in RunIds PROVE SoundRow(delivery', r, run[r])
    <3>1. run[r] \in RunRow /\ SoundRow(delivery, r, run[r])
      BY DEF TypeOK, TablesInv, RowsSound
    <3>2. QED
      BY <3>1, SoundKept
  <2>2. ASSUME NEW r \in tx.runs PROVE SoundRow(delivery', r, tx.run[r])
    <3>1. r \in RunIds /\ tx.run[r] \in RunRow /\ SoundRow(delivery, r, tx.run[r])
      BY DEF TypeOK, TablesInv, RowsSound
    <3>2. \A e \in Executors : delivery[e][r] # "none" => delivery'[e][r] # "none"
      BY <3>1
    <3>3. QED
      BY <3>1, <3>2, SoundKept
  <2>3. ASSUME NEW r \in engine.unclaimed PROVE SoundRow(delivery', r, engine.row)
    BY SoundKept DEF TypeOK, TablesInv, RowsSound
  <2>4. QED
    BY <2>1, <2>2, <2>3 DEF RowsSound
<1>4. (KeysUnique(run) /\ KeysUnique(Viewed))'
  BY <1>2 DEF TablesInv, KeysUnique
<1>5. WritesBackItsOwn'
  BY <1>1 DEF TablesInv, WritesBackItsOwn, TypeOK
<1>6. QED
  BY <1>3, <1>4, <1>5 DEF TablesInv

\* A handler writes one committed row, keeps its key and revives no row.
LEMMA CommittedWrite ==
    ASSUME TypeOK, TablesInv, NEW r \in RunIds, NEW row \in RunRow,
           run' = [run EXCEPT ![r] = row],
           SoundRow(delivery, r, row),
           row.status # "absent", run[r].status # "absent",
           row.job = run[r].job, row.moment = run[r].moment,
           Exists(row) => Exists(run[r]),
           UNCHANGED <<tx, engine, delivery>>
    PROVE  TablesInv'
<1>1. \A q \in RunIds : run'[q] = IF q = r THEN row ELSE run[q]
  BY DEF TypeOK
<1>2. \A q \in RunIds : /\ View(q)'.job = View(q).job /\ View(q)'.moment = View(q).moment
                        /\ Exists(View(q)') => Exists(View(q))
                        /\ View(q).status # "absent" => View(q)'.status # "absent"
  BY <1>1 DEF View
<1>3. RowsSound'
  BY <1>1 DEF TablesInv, RowsSound
<1>4. KeysUnique(run)'
  BY <1>1 DEF TablesInv, KeysUnique
<1>5. KeysUnique(Viewed)'
  BY <1>2 DEF TablesInv, KeysUnique, Viewed
<1>6. WritesBackItsOwn'
  BY <1>2 DEF TablesInv, WritesBackItsOwn, TypeOK
<1>7. QED
  BY <1>3, <1>4, <1>5, <1>6 DEF TablesInv

----------------------------------------------------------------------------
(* Executors' steps.                                                       *)

\* Reports of a run in progress and renewals of its lease keep the invariant.
LEMMA ReportStep ==
    ASSUME IInv, NEW e \in Executors, NEW r \in RunIds,
           MarkRunRunning(e, r) \/ RenewRunLease(e, r)
    PROVE  IInv'
<1>1. run[r] \in RunRow /\ SoundRow(delivery, r, run[r]) /\ IsLeased(run[r].status)
  BY DEF IInv, TypeOK, TablesInv, RowsSound, MarkRunRunning, RenewRunLease,
         ReportAllowed, HoldsLease
<1>2. PICK row \in RunRow :
         /\ run' = [run EXCEPT ![r] = row]
         /\ SoundRow(delivery, r, row)
         /\ IsLeased(row.status) /\ row.job = run[r].job /\ row.moment = run[r].moment
  <2>1. CASE MarkRunRunning(e, r)
    <3> DEFINE row == [run[r] EXCEPT !.status = "running"]
    <3>1. row \in RunRow
      BY <1>1 DEF RunRow, RunStatus
    <3>2. /\ row.status = "running" /\ row.attempt = run[r].attempt
          /\ row.leasedBy = run[r].leasedBy
          /\ row.job = run[r].job /\ row.moment = run[r].moment
      BY <1>1 DEF RunRow
    <3> HIDE DEF row
    <3>3. SoundRow(delivery, r, row) /\ IsLeased(row.status)
      BY <1>1, <3>2 DEF SoundRow, IsLeased, Exists
    <3>4. run' = [run EXCEPT ![r] = row]
      BY <2>1 DEF MarkRunRunning, row
    <3>5. QED
      BY <3>1, <3>2, <3>3, <3>4
  <2>2. CASE RenewRunLease(e, r)
    <3> DEFINE row == [run[r] EXCEPT !.lease = LeaseTicks]
    <3>1. row \in RunRow
      BY <1>1, SchedulerAssumption DEF RunRow
    <3>2. /\ row.status = run[r].status /\ row.attempt = run[r].attempt
          /\ row.leasedBy = run[r].leasedBy
          /\ row.job = run[r].job /\ row.moment = run[r].moment
      BY <1>1 DEF RunRow
    <3> HIDE DEF row
    <3>3. SoundRow(delivery, r, row) /\ IsLeased(row.status)
      BY <1>1, <3>2 DEF SoundRow, IsLeased, Exists
    <3>4. run' = [run EXCEPT ![r] = row]
      BY <2>2 DEF RenewRunLease, row
    <3>5. QED
      BY <3>1, <3>2, <3>3, <3>4
  <2>3. QED
    BY <2>1, <2>2
<1>3. UNCHANGED <<time, job, cursor, tx, engine, online, delivery, completing, editing, live>>
  BY DEF MarkRunRunning, RenewRunLease, engineVars, executorVars
<1>4. TypeOK'
  BY <1>2, <1>3 DEF IInv, TypeOK
<1>5. TablesInv'
  BY <1>1, <1>2, <1>3, CommittedWrite DEF IInv, IsLeased, Exists
<1>6. QED
  BY <1>3, <1>4, <1>5 DEF IInv, CallsSound

\* So do the ageing of a lease and the end of a retry's delay.
LEMMA AgeingStep ==
    ASSUME IInv, NEW r \in RunIds, LeaseAges(r) \/ RetryFallsDue(r)
    PROVE  IInv'
<1>1. run[r] \in RunRow /\ SoundRow(delivery, r, run[r]) /\ run[r].status # "absent"
  BY DEF IInv, TypeOK, TablesInv, RowsSound, LeaseAges, RetryFallsDue, IsLeased
<1>2. PICK row \in RunRow :
         /\ run' = [run EXCEPT ![r] = row]
         /\ SoundRow(delivery, r, row)
         /\ row.status = run[r].status
         /\ row.job = run[r].job /\ row.moment = run[r].moment
  <2>1. CASE LeaseAges(r)
    <3> DEFINE row == [run[r] EXCEPT !.lease = @ - 1]
    <3>1. row \in RunRow
      BY <1>1, <2>1, SchedulerAssumption DEF RunRow, LeaseAges
    <3>2. /\ row.status = run[r].status /\ row.attempt = run[r].attempt
          /\ row.leasedBy = run[r].leasedBy
          /\ row.job = run[r].job /\ row.moment = run[r].moment
      BY <1>1 DEF RunRow
    <3>3. SoundRow(delivery, r, row)
      BY <1>1, <3>2 DEF SoundRow, Exists
    <3>4. run' = [run EXCEPT ![r] = row]
      BY <2>1 DEF LeaseAges
    <3>5. QED
      BY <3>1, <3>2, <3>3, <3>4
  <2>2. CASE RetryFallsDue(r)
    <3> DEFINE row == [run[r] EXCEPT !.retryDue = TRUE]
    <3>1. row \in RunRow
      BY <1>1 DEF RunRow
    <3>2. /\ row.status = run[r].status /\ row.attempt = run[r].attempt
          /\ row.leasedBy = run[r].leasedBy
          /\ row.job = run[r].job /\ row.moment = run[r].moment
      BY <1>1 DEF RunRow
    <3>3. SoundRow(delivery, r, row)
      BY <1>1, <3>2 DEF SoundRow, Exists
    <3>4. run' = [run EXCEPT ![r] = row]
      BY <2>2 DEF RetryFallsDue
    <3>5. QED
      BY <3>1, <3>2, <3>3, <3>4
  <2>3. QED
    BY <2>1, <2>2
<1>3. UNCHANGED <<time, job, cursor, tx, engine, online, delivery, completing, editing, live>>
  BY DEF LeaseAges, RetryFallsDue, engineVars, executorVars
<1>4. TypeOK'
  BY <1>2, <1>3 DEF IInv, TypeOK
<1>5. TablesInv'
  BY <1>1, <1>2, <1>3, CommittedWrite DEF IInv, Exists
<1>6. QED
  BY <1>3, <1>4, <1>5 DEF IInv, CallsSound

\* A result is accepted or refused: what is written later counts no attempt more
\* than the retries allow.
LEMMA ReturnStep ==
    ASSUME IInv, NEW e \in Executors, NEW r \in RunIds, HandlerReturns(e, r)
    PROVE  IInv'
<1>1. run[r] \in RunRow /\ run[r].attempt <= MaxRetries + 1
  BY DEF IInv, TypeOK, TablesInv, RowsSound, SoundRow
<1>2. UNCHANGED <<time, job, run, cursor, tx, engine, online, editing, live>>
  BY DEF HandlerReturns, engineVars
<1>3. delivery' = [delivery EXCEPT ![e][r] = "done"]
  BY DEF HandlerReturns
<1>4. /\ completing' \in [Executors -> [run: RunIds \cup {0},
                                        status: {"succeeded", "retryWaiting", "failed"},
                                        attempt: Nat]]
      /\ CallsSound'
  <2>1. PICK success \in BOOLEAN, retryable \in BOOLEAN :
          LET retry == ~success /\ retryable /\ RetriesLeft(run[r])
          IN  completing' =
                IF run[r].leasedBy = e /\ ~IsTerminal(run[r].status)
                THEN [completing EXCEPT ![e] =
                        [run |-> r,
                         status |-> IF success THEN "succeeded"
                                    ELSE IF retry THEN "retryWaiting" ELSE "failed",
                         attempt |-> IF retry THEN run[r].attempt + 1 ELSE run[r].attempt]]
                ELSE completing
    BY DEF HandlerReturns
  <2> DEFINE retry == ~success /\ retryable /\ RetriesLeft(run[r])
             status == IF success THEN "succeeded"
                       ELSE IF retry THEN "retryWaiting" ELSE "failed"
             attempt == IF retry THEN run[r].attempt + 1 ELSE run[r].attempt
             call == [run |-> r, status |-> status, attempt |-> attempt]
  <2>2. attempt \in Nat /\ attempt <= MaxRetries + 1
    BY <1>1, SchedulerAssumption DEF RetriesLeft, RunRow
  <2>3. status \in {"succeeded", "retryWaiting", "failed"}
    OBVIOUS
  <2>4. completing' = [completing EXCEPT ![e] = call] \/ completing' = completing
    BY <2>1
  <2>5. /\ call \in [run: RunIds \cup {0}, status: {"succeeded", "retryWaiting", "failed"},
                     attempt: Nat]
        /\ call.attempt <= MaxRetries + 1 /\ call.run \in RunIds
    BY <2>2, <2>3
  <2> HIDE DEF call
  <2>6. /\ completing \in [Executors -> [run: RunIds \cup {0},
                                         status: {"succeeded", "retryWaiting", "failed"},
                                         attempt: Nat]]
        /\ CallsSound
    BY DEF IInv, TypeOK
  <2>7. QED
    BY <2>4, <2>5, <2>6 DEF CallsSound
<1>5. TypeOK'
  BY <1>2, <1>3, <1>4 DEF IInv, TypeOK
<1>6. TablesInv'
  BY <1>2, <1>3, OnlySent DEF IInv, TypeOK
<1>7. QED
  BY <1>4, <1>5, <1>6 DEF IInv

\* A completed run has the status and attempts of the report and no holder.
LEMMA CompletedRow ==
    ASSUME NEW row \in RunRow, NEW call, call.attempt \in Nat,
           call.status \in {"succeeded", "retryWaiting", "failed"}
    PROVE  LET n == completedRow(row, call) IN
           /\ n \in RunRow
           /\ n.status = call.status /\ n.attempt = call.attempt /\ n.leasedBy = 0
           /\ n.job = row.job /\ n.moment = row.moment
<1>1. 0 \in 0..LeaseTicks /\ call.status \in RunStatus
  BY SchedulerAssumption DEF RunStatus
<1>2. completedRow(row, call) = [row EXCEPT !.status = call.status, !.attempt = call.attempt,
                                            !.lease = 0, !.leasedBy = 0, !.retryDue = FALSE]
  BY DEF completedRow
<1>3. completedRow(row, call) \in RunRow
  BY <1>1, <1>2 DEF RunRow
<1>4. QED
  BY <1>2, <1>3 DEF RunRow

\* The result of a run that its executor still leases ends the lease with it.
LEMMA CompleteStep ==
    ASSUME IInv, NEW e \in Executors, CompleteRun(e)
    PROVE  IInv'
<1> DEFINE r == completing[e].run
           call == completing[e]
           row == completedRow(run[r], call)
<1>1. UNCHANGED <<time, job, cursor, tx, engine, online, delivery, editing, live>>
  BY DEF CompleteRun, engineVars
<1>2. /\ r \in RunIds /\ call.attempt \in Nat /\ call.attempt <= MaxRetries + 1
      /\ call.status \in {"succeeded", "retryWaiting", "failed"}
      /\ run[r] \in RunRow
  BY DEF CompleteRun, IInv, TypeOK, CallsSound
<1>3. completing' = [completing EXCEPT ![e] = NoCall]
  BY DEF CompleteRun
<1>4. /\ completing' \in [Executors -> [run: RunIds \cup {0},
                                        status: {"succeeded", "retryWaiting", "failed"},
                                        attempt: Nat]]
      /\ CallsSound'
  <2>1. /\ NoCall \in [run: RunIds \cup {0}, status: {"succeeded", "retryWaiting", "failed"},
                       attempt: Nat]
        /\ NoCall.attempt = 0 /\ 0 <= MaxRetries + 1
    BY SchedulerAssumption DEF NoCall
  <2>2. completing \in [Executors -> [run: RunIds \cup {0},
                                      status: {"succeeded", "retryWaiting", "failed"},
                                      attempt: Nat]]
        /\ CallsSound
    BY DEF IInv, TypeOK
  <2>3. QED
    BY <1>3, <2>1, <2>2 DEF CallsSound
<1>5. CASE HoldsLease(run[r], e)
  <2>1. run' = [run EXCEPT ![r] = row]
    BY <1>5 DEF CompleteRun
  <2>2. /\ row \in RunRow
        /\ row.status = call.status /\ row.attempt = call.attempt /\ row.leasedBy = 0
        /\ row.job = run[r].job /\ row.moment = run[r].moment
    BY <1>2, CompletedRow
  <2> HIDE DEF row, call, r
  <2>3. SoundRow(delivery, r, row) /\ row.status # "absent"
    BY <1>2, <2>2 DEF SoundRow, IsLeased
  <2>4. Exists(run[r]) /\ run[r].status # "absent"
    BY <1>5 DEF HoldsLease, IsLeased, Exists
  <2>5. TypeOK'
    BY <1>1, <1>2, <1>4, <2>1, <2>2 DEF IInv, TypeOK
  <2>6. TablesInv'
    BY <1>1, <1>2, <2>1, <2>2, <2>3, <2>4, CommittedWrite DEF IInv
  <2>7. QED
    BY <1>4, <2>5, <2>6 DEF IInv
<1>6. CASE ~HoldsLease(run[r], e)
  <2>1. run' = run
    BY <1>6 DEF CompleteRun
  <2>2. TypeOK'
    BY <1>1, <1>4, <2>1 DEF IInv, TypeOK
  <2>3. TablesInv'
    BY <1>1, <2>1, OnlySent DEF IInv
  <2>4. QED
    BY <1>4, <2>2, <2>3 DEF IInv
<1>7. QED
  BY <1>5, <1>6

\* Sessions that come and go, the clock and a switch of the traffic touch no row.
LEMMA OutsideStep ==
    ASSUME IInv,
           \/ \E e \in Executors : Connect(e) \/ Disconnect(e) \/ ExecutorStops(e)
           \/ Tick \/ LiveSlotSwitches
    PROVE  IInv'
<1>1. UNCHANGED <<job, run, cursor, tx, engine, completing, editing>>
  BY DEF Connect, Disconnect, ExecutorStops, Tick, LiveSlotSwitches, engineVars, executorVars
<1>2. /\ delivery' \in [Executors -> [RunIds -> {"none", "working", "done"}]]
      /\ \A e \in Executors, r \in RunIds : delivery[e][r] # "none" => delivery'[e][r] # "none"
  <2>1. CASE UNCHANGED delivery
    BY <2>1 DEF IInv, TypeOK
  <2>2. ASSUME NEW e \in Executors, ExecutorStops(e)
        PROVE  /\ delivery' \in [Executors -> [RunIds -> {"none", "working", "done"}]]
               /\ \A x \in Executors, r \in RunIds :
                     delivery[x][r] # "none" => delivery'[x][r] # "none"
    <3> DEFINE stopped == [r \in RunIds |-> IF delivery[e][r] = "working" THEN "done"
                                            ELSE delivery[e][r]]
    <3>1. delivery \in [Executors -> [RunIds -> {"none", "working", "done"}]]
      BY DEF IInv, TypeOK
    <3>2. delivery' = [delivery EXCEPT ![e] = stopped]
      BY <2>2 DEF ExecutorStops
    <3>3. /\ stopped \in [RunIds -> {"none", "working", "done"}]
          /\ \A r \in RunIds : delivery[e][r] # "none" => stopped[r] # "none"
      BY <3>1
    <3> HIDE DEF stopped
    <3>4. QED
      BY <3>1, <3>2, <3>3
  <2>3. QED
    BY <2>1, <2>2 DEF Connect, Disconnect, Tick, LiveSlotSwitches, executorVars
<1>3. online' \subseteq Executors
  BY DEF IInv, TypeOK, Connect, Disconnect, ExecutorStops, Tick, LiveSlotSwitches, executorVars
<1>4. time' \in 0..MaxTime /\ live' \in Slots \cup {0}
  BY SchedulerAssumption DEF IInv, TypeOK, Connect, Disconnect, ExecutorStops, Tick,
     LiveSlotSwitches
<1>5. TypeOK'
  BY <1>1, <1>2, <1>3, <1>4 DEF IInv, TypeOK
<1>6. TablesInv'
  BY <1>1, <1>2, OnlySent DEF IInv
<1>7. QED
  BY <1>1, <1>5, <1>6 DEF IInv, CallsSound

----------------------------------------------------------------------------
(* Administrators' steps.                                                  *)

\* An unused id is of no committed row, no row of the transaction and not of
\* the one the engine will write back.
LEMMA UnusedFacts ==
    ASSUME TypeOK, TablesInv, NEW r \in UnusedIds
    PROVE  /\ r \in RunIds /\ run[r].status = "absent" /\ r \notin tx.runs
           /\ r \notin engine.unclaimed
BY DEF UnusedIds, TablesInv, WritesBackItsOwn, View

\* A new run is a sound row.
LEMMA NewRunFacts ==
    ASSUME TypeOK, NEW j \in Jobs, NEW m \in 0..MaxTime, NEW r \in RunIds
    PROVE  LET n == NewRun(j, m) IN
           /\ n \in RunRow /\ n.status = "pending" /\ n.job = j /\ n.moment = m
           /\ SoundRow(delivery, r, n)
<1> DEFINE n == NewRun(j, m)
           at == IF m = 0 THEN time ELSE m
<1>1. n = [NoRun EXCEPT !.status = "pending", !.job = j, !.moment = m,
                        !.scheduledAt = at, !.attempt = 1]
  BY DEF NewRun
<1>2. at \in 0..MaxTime /\ "pending" \in RunStatus /\ 1 \in Nat
  BY DEF TypeOK, RunStatus
<1> HIDE DEF n, at
<1>3. /\ n \in RunRow /\ n.status = "pending" /\ n.job = j /\ n.moment = m
      /\ n.attempt = 1 /\ n.leasedBy = 0
  <2>1. n \in RunRow
    BY <1>1, <1>2, EmptyRows DEF RunRow
  <2>2. QED
    BY <1>1, <2>1, EmptyRows DEF RunRow
<1>4. SoundRow(delivery, r, n)
  BY <1>3, SchedulerAssumption DEF SoundRow, IsLeased
<1>5. QED
  BY <1>3, <1>4 DEF n

\* A first moment is a moment or the one after the last.
LEMMA MomentFacts ==
    ASSUME TypeOK, NEW j \in Jobs, NEW m \in InitialMoments(j)
    PROVE  m \in 0..MaxTime + 1
BY SchedulerAssumption DEF TypeOK, InitialMoments, Moments

\* Requests that create, read, write or delete a job's row leave runs alone.
LEMMA JobStep ==
    ASSUME IInv,
           \/ WriteJobBack \/ DeleteJob
           \/ \E j \in Jobs : CreateJob(j) \/ SetJobEnabled(j) \/ UpdateJob(j)
    PROVE  IInv'
<1>1. UNCHANGED <<time, run, cursor, tx, engine, online, delivery, completing, live>>
  BY DEF WriteJobBack, DeleteJob, CreateJob, SetJobEnabled, UpdateJob, ReadForEdit,
         engineVars, executorVars
<1>2. /\ job' \in [Jobs -> JobRow]
      /\ editing' \in [at: {"none", "write", "cursor", "delete"}, job: Jobs, row: JobRow]
  <2>1. /\ job \in [Jobs -> JobRow]
        /\ editing \in [at: {"none", "write", "cursor", "delete"}, job: Jobs, row: JobRow]
        /\ NoEdit \in [at: {"none", "write", "cursor", "delete"}, job: Jobs, row: JobRow]
        /\ [NoJob EXCEPT !.status = "deleted"] \in JobRow
    BY EmptyRows, SchedulerAssumption DEF IInv, TypeOK, NoEdit, JobRow
  <2>2. CASE WriteJobBack
    BY <2>1, <2>2 DEF WriteJobBack
  <2>3. CASE DeleteJob
    BY <2>1, <2>3 DEF DeleteJob
  <2>4. ASSUME NEW j \in Jobs, CreateJob(j)
        PROVE  /\ job' \in [Jobs -> JobRow]
               /\ editing' \in [at: {"none", "write", "cursor", "delete"}, job: Jobs, row: JobRow]
    <3>1. PICK m \in InitialMoments(j), en \in BOOLEAN :
             job' = [job EXCEPT ![j] = [status |-> "present", enabled |-> en, next |-> m]]
      BY <2>4 DEF CreateJob
    <3>2. [status |-> "present", enabled |-> en, next |-> m] \in JobRow
      BY MomentFacts DEF JobRow, IInv
    <3>3. editing' = editing
      BY <2>4 DEF CreateJob
    <3>4. QED
      BY <2>1, <3>1, <3>2, <3>3
  <2>5. ASSUME NEW j \in Jobs, NEW row \in JobRow, ReadForEdit(j, row)
        PROVE  /\ job' \in [Jobs -> JobRow]
               /\ editing' \in [at: {"none", "write", "cursor", "delete"}, job: Jobs, row: JobRow]
    BY <2>1, <2>5 DEF ReadForEdit
  <2>6. ASSUME NEW j \in Jobs, SetJobEnabled(j)
        PROVE  /\ job' \in [Jobs -> JobRow]
               /\ editing' \in [at: {"none", "write", "cursor", "delete"}, job: Jobs, row: JobRow]
    <3>1. PICK en \in BOOLEAN : ReadForEdit(j, [job[j] EXCEPT !.enabled = en])
      BY <2>6 DEF SetJobEnabled
    <3>2. [job[j] EXCEPT !.enabled = en] \in JobRow
      BY <2>1 DEF JobRow
    <3>3. QED
      BY <2>5, <3>1, <3>2
  <2>7. ASSUME NEW j \in Jobs, UpdateJob(j)
        PROVE  /\ job' \in [Jobs -> JobRow]
               /\ editing' \in [at: {"none", "write", "cursor", "delete"}, job: Jobs, row: JobRow]
    <3>1. PICK en \in BOOLEAN,
               m \in InitialMoments(j) \cup (IF j \in Cron THEN {} ELSE {job[j].next}) :
             ReadForEdit(j, [job[j] EXCEPT !.enabled = en, !.next = m])
      BY <2>7 DEF UpdateJob
    <3>2. m \in 0..MaxTime + 1
      BY <2>1, MomentFacts DEF IInv, JobRow
    <3>3. [job[j] EXCEPT !.enabled = en, !.next = m] \in JobRow
      BY <2>1, <3>2 DEF JobRow
    <3>4. QED
      BY <2>5, <3>1, <3>3
  <2>8. QED
    BY <2>2, <2>3, <2>4, <2>6, <2>7
<1>3. TypeOK'
  BY <1>1, <1>2 DEF IInv, TypeOK
<1>4. TablesInv'
  BY <1>1, OnlySent DEF IInv
<1>5. QED
  BY <1>1, <1>3, <1>4 DEF IInv, CallsSound

\* A run that is triggered has a key of its own.
LEMMA TriggerStep ==
    ASSUME IInv, NEW j \in Jobs, TriggerNow(j)
    PROVE  IInv'
<1>1. PICK r \in RunIds : FreshId(r) /\ run' = [run EXCEPT ![r] = NewRun(j, 0)]
  BY DEF TriggerNow
<1> DEFINE row == NewRun(j, 0)
<1>2. /\ row \in RunRow /\ row.status = "pending" /\ row.moment = 0
      /\ SoundRow(delivery, r, row)
  BY NewRunFacts, SchedulerAssumption DEF IInv
<1> HIDE DEF row
<1>3. run[r].status = "absent" /\ r \notin tx.runs /\ r \notin engine.unclaimed
  BY <1>1, UnusedFacts DEF IInv, FreshId
<1>4. UNCHANGED <<time, job, cursor, tx, engine, online, delivery, completing, editing, live>>
  BY DEF TriggerNow, engineVars, executorVars
<1>5. run' = [run EXCEPT ![r] = row]
  BY <1>1 DEF row
<1>6. \A q \in RunIds : /\ run'[q] = IF q = r THEN row ELSE run[q]
                        /\ View(q)' = IF q = r THEN row ELSE View(q)
  BY <1>3, <1>4, <1>5 DEF IInv, TypeOK, View
<1>7. TypeOK'
  BY <1>2, <1>4, <1>5 DEF IInv, TypeOK
<1>8. RowsSound'
  BY <1>2, <1>4, <1>6 DEF IInv, TablesInv, RowsSound
<1>9. (KeysUnique(run) /\ KeysUnique(Viewed))'
  BY <1>2, <1>6 DEF IInv, TablesInv, KeysUnique, Viewed
<1>10. WritesBackItsOwn'
  BY <1>3, <1>4, <1>6 DEF IInv, TypeOK, TablesInv, WritesBackItsOwn
<1>11. QED
  BY <1>4, <1>7, <1>8, <1>9, <1>10 DEF IInv, TablesInv, CallsSound

\* Deleting the runs of a job takes rows away and leaves their keys.
LEMMA DeleteRunsStep ==
    ASSUME IInv, NEW j \in Jobs, DeleteRuns(j)
    PROVE  IInv'
<1> DEFINE gone(r) == Exists(run[r]) /\ run[r].job = j
           deleted(r) == [run[r] EXCEPT !.status = "deleted"]
<1>1. UNCHANGED <<time, job, tx, engine, online, delivery, completing, live>>
  BY DEF DeleteRuns, engineVars, executorVars
<1>2. \A r \in RunIds :
         /\ run[r] \in RunRow /\ SoundRow(delivery, r, run[r])
         /\ deleted(r) \in RunRow /\ deleted(r).status = "deleted"
         /\ deleted(r).job = run[r].job /\ deleted(r).moment = run[r].moment
         /\ deleted(r).attempt = run[r].attempt
  <2> TAKE r \in RunIds
  <2>1. run[r] \in RunRow /\ SoundRow(delivery, r, run[r])
    BY DEF IInv, TypeOK, TablesInv, RowsSound
  <2>2. "deleted" \in RunStatus
    BY DEF RunStatus
  <2>3. deleted(r) \in RunRow
    BY <2>1, <2>2 DEF RunRow
  <2>4. QED
    BY <2>1, <2>3 DEF RunRow
<1>3. run' = [r \in RunIds |-> IF gone(r) THEN deleted(r) ELSE run[r]]
  BY DEF DeleteRuns
<1>4. ASSUME NEW r \in RunIds
      PROVE  /\ run'[r] \in RunRow /\ SoundRow(delivery, r, run'[r])
             /\ run'[r].job = run[r].job /\ run'[r].moment = run[r].moment
             /\ Exists(run'[r]) => Exists(run[r])
             /\ run[r].status # "absent" => run'[r].status # "absent"
  <2> HIDE DEF deleted
  <2>1. run'[r] = IF gone(r) THEN deleted(r) ELSE run[r]
    BY <1>3
  <2>2. QED
    BY <1>2, <2>1 DEF SoundRow, Exists
<1> HIDE DEF gone, deleted
<1>5. \A r \in RunIds : /\ View(r)'.job = View(r).job /\ View(r)'.moment = View(r).moment
                        /\ Exists(View(r)') => Exists(View(r))
                        /\ View(r).status # "absent" => View(r)'.status # "absent"
  BY <1>1, <1>4 DEF View
<1>6. TypeOK'
  <2>1. run' \in [RunIds -> RunRow]
    BY <1>3, <1>4
  <2>2. cursor' = cursor
    BY DEF DeleteRuns
  <2>3. editing' \in [at: {"none", "write", "cursor", "delete"}, job: Jobs, row: JobRow]
    BY EmptyRows DEF DeleteRuns, NoEdit
  <2>4. QED
    BY <1>1, <2>1, <2>2, <2>3 DEF IInv, TypeOK
<1>7. RowsSound'
  BY <1>1, <1>4 DEF IInv, TablesInv, RowsSound
<1>8. KeysUnique(run)'
  BY <1>4 DEF IInv, TablesInv, KeysUnique
<1>9. KeysUnique(Viewed)'
  BY <1>5 DEF IInv, TablesInv, KeysUnique, Viewed
<1>10. WritesBackItsOwn'
  BY <1>1, <1>5 DEF IInv, TypeOK, TablesInv, WritesBackItsOwn
<1>11. QED
  BY <1>1, <1>6, <1>7, <1>8, <1>9, <1>10 DEF IInv, TablesInv, CallsSound

\* Deleting the cursor of a job leaves runs and jobs alone.
LEMMA DeleteCursorStep ==
    ASSUME IInv, DeleteCursor
    PROVE  IInv'
<1>1. UNCHANGED <<time, job, run, tx, engine, online, delivery, completing, live>>
  BY DEF DeleteCursor, engineVars, executorVars
<1>2. /\ cursor' \in [Jobs -> Executors \cup {0}]
      /\ editing' \in [at: {"none", "write", "cursor", "delete"}, job: Jobs, row: JobRow]
  BY DEF DeleteCursor, IInv, TypeOK
<1>3. TypeOK'
  BY <1>1, <1>2 DEF IInv, TypeOK
<1>4. TablesInv'
  BY <1>1, OnlySent DEF IInv
<1>5. QED
  BY <1>1, <1>3, <1>4 DEF IInv, CallsSound

----------------------------------------------------------------------------
(* The engine's steps.                                                     *)

TxType == [runs: SUBSET RunIds, run: [RunIds -> RunRow],
           jobs: SUBSET Jobs, job: [Jobs -> JobRow],
           cursors: SUBSET Jobs, cursor: [Jobs -> Executors \cup {0}]]
EngineType == [phase: {"idle", "enqueue", "dispatch"}, now: 0..MaxTime,
               jobs: SUBSET Jobs, picked: SUBSET Jobs, fresh: DueRow,
               runs: SUBSET RunIds, expired: SUBSET RunIds,
               unclaimed: SUBSET RunIds, row: RunRow]

\* The types of what is empty.
LEMMA EmptyTypes == NoTx \in TxType /\ Idle \in EngineType
BY EmptyRows, SchedulerAssumption DEF NoTx, Idle, TxType, EngineType

\* A statement of the transaction writes one run.
LEMMA WriteRunFacts ==
    ASSUME NEW t \in TxType, NEW r \in RunIds, NEW row \in RunRow
    PROVE  LET n == WriteRun(t, r, row) IN
           /\ n \in TxType
           /\ n.runs = t.runs \cup {r} /\ n.run = [t.run EXCEPT ![r] = row]
           /\ n.jobs = t.jobs /\ n.job = t.job
           /\ n.cursors = t.cursors /\ n.cursor = t.cursor
BY DEF WriteRun, TxType

\* A row written in the transaction keeps the tables sound if it is sound and
\* no other run has its key.
LEMMA TxWrite ==
    ASSUME TypeOK, TablesInv, NEW r \in RunIds, NEW row \in RunRow,
           tx'.runs = tx.runs \cup {r}, tx'.run = [tx.run EXCEPT ![r] = row],
           engine'.unclaimed = {}, run' = run,
           \A e \in Executors, q \in RunIds :
               delivery[e][q] # "none" => delivery'[e][q] # "none",
           SoundRow(delivery', r, row),
           \A q \in RunIds : q # r /\ Exists(View(q)) /\ Exists(row) /\ View(q).job = row.job
                               /\ View(q).moment = row.moment => row.moment = 0
    PROVE  TablesInv'
<1>1. \A q \in RunIds : tx'.run[q] = IF q = r THEN row ELSE tx.run[q]
  BY DEF TypeOK
<1>2. \A q \in RunIds : View(q)' = IF q = r THEN row ELSE View(q)
  BY <1>1 DEF View
<1>3. RowsSound'
  <2>1. ASSUME NEW q \in RunIds PROVE SoundRow(delivery', q, run'[q])
    <3>1. run[q] \in RunRow /\ SoundRow(delivery, q, run[q])
      BY DEF TypeOK, TablesInv, RowsSound
    <3>2. QED
      BY <3>1, SoundKept
  <2>2. ASSUME NEW q \in tx.runs, q # r PROVE SoundRow(delivery', q, tx'.run[q])
    <3>1. q \in RunIds /\ tx.run[q] \in RunRow /\ SoundRow(delivery, q, tx.run[q])
      BY DEF TypeOK, TablesInv, RowsSound
    <3>2. SoundRow(delivery', q, tx.run[q])
      BY <3>1, SoundKept
    <3>3. QED
      BY <3>1, <3>2, <2>2, <1>1
  <2>3. SoundRow(delivery', r, tx'.run[r])
    BY <1>1
  <2>4. QED
    BY <2>1, <2>2, <2>3 DEF RowsSound
<1>4. KeysUnique(run)'
  BY DEF TablesInv, KeysUnique
<1>5. KeysUnique(Viewed)'
  <2>1. \A q \in RunIds : Viewed'[q] = IF q = r THEN row ELSE Viewed[q]
    BY <1>2 DEF Viewed
  <2>2. \A q \in RunIds : Viewed[q] = View(q)
    BY DEF Viewed
  <2>3. KeysUnique(Viewed)
    BY DEF TablesInv
  <2>4. QED
    BY <2>1, <2>2, <2>3 DEF KeysUnique
<1>6. WritesBackItsOwn'
  BY DEF WritesBackItsOwn
<1>7. QED
  BY <1>3, <1>4, <1>5, <1>6 DEF TablesInv

\* What the engine sees of a run is a sound row.
LEMMA ViewFacts ==
    ASSUME TypeOK, TablesInv, NEW r \in RunIds
    PROVE  View(r) \in RunRow /\ SoundRow(delivery, r, View(r))
<1>1. CASE r \in tx.runs
  BY <1>1 DEF View, TypeOK, TablesInv, RowsSound
<1>2. CASE r \notin tx.runs
  BY <1>2 DEF View, TypeOK, TablesInv, RowsSound
<1>3. QED
  BY <1>1, <1>2

\* A run that keeps its key and exists keeps it to itself.
LEMMA OwnKey ==
    ASSUME TablesInv, NEW r \in RunIds, NEW row \in RunRow,
           Exists(row) => Exists(View(r)),
           row.job = View(r).job, row.moment = View(r).moment
    PROVE  \A q \in RunIds : q # r /\ Exists(View(q)) /\ Exists(row) /\ View(q).job = row.job
                               /\ View(q).moment = row.moment => row.moment = 0
<1>1. KeysUnique(Viewed)
  BY DEF TablesInv
<1>2. \A q \in RunIds : Viewed[q] = View(q)
  BY DEF Viewed
<1>3. QED
  BY <1>1, <1>2 DEF KeysUnique

\* Steps of the engine that only move it on in its cycle.
LEMMA CycleStep ==
    ASSUME IInv,
           \/ BeginCycle \/ ListDispatchableRuns
           \/ \E j \in Jobs : readDueJob(j)
    PROVE  IInv'
<1>1. UNCHANGED <<time, job, run, cursor, tx, online, delivery, completing, editing, live>>
  BY DEF BeginCycle, ListDispatchableRuns, readDueJob, executorVars
<1>2. engine \in EngineType
  BY DEF IInv, TypeOK, EngineType
<1>3. engine.phase # "dispatch" /\ engine.unclaimed = {}
  BY DEF BeginCycle, ListDispatchableRuns, readDueJob, IInv, TablesInv, WritesBackItsOwn
<1>4. engine' \in EngineType /\ engine'.unclaimed = {}
  <2>1. CASE BeginCycle
    <3>1. PICK T \in Batch({j \in Jobs : Due(job[j], time)}, [j \in Jobs |-> job[j].next]) :
             engine' = [Idle EXCEPT !.phase = "enqueue", !.now = time, !.jobs = T]
      BY <2>1 DEF BeginCycle
    <3>2. T \in SUBSET Jobs
      BY DEF Batch
    <3>3. time \in 0..MaxTime
      BY DEF IInv, TypeOK
    <3>4. Idle.unclaimed = {}
      BY DEF Idle
    <3>5. QED
      BY <3>1, <3>2, <3>3, <3>4, EmptyTypes DEF EngineType
  <2>2. CASE ListDispatchableRuns
    <3>1. PICK T \in Batch({r \in RunIds : Dispatchable(View(r))},
                           [r \in RunIds |-> View(r).scheduledAt]) :
             LET expired == {r \in T : shouldFailExpiredRun(View(r))}
             IN  engine' = [engine EXCEPT !.phase = "dispatch", !.runs = T \ expired,
                                          !.expired = expired]
      BY <2>2 DEF ListDispatchableRuns
    <3>2. T \in SUBSET RunIds
      BY DEF Batch
    <3>3. QED
      BY <1>2, <1>3, <3>1, <3>2 DEF EngineType
  <2>3. ASSUME NEW j \in Jobs, readDueJob(j)
        PROVE  engine' \in EngineType /\ engine'.unclaimed = {}
    <3>1. JobView(j) \in JobRow /\ engine.now \in 0..MaxTime
      BY DEF JobView, IInv, TypeOK
    <3>2. Due(JobView(j), engine.now) => JobView(j) \in DueRow
      BY <3>1, SchedulerAssumption DEF Due, DueRow
    <3>3. QED
      BY <1>2, <1>3, <2>3, <3>2, EmptyRows DEF readDueJob, EngineType
  <2>4. QED
    BY <2>1, <2>2, <2>3
<1>5. TypeOK'
  BY <1>1, <1>4 DEF IInv, TypeOK, EngineType
<1>6. TablesInv'
  <2>1. Viewed' = Viewed
    BY <1>1 DEF Viewed, View
  <2>2. RowsSound'
    BY <1>1, <1>4 DEF IInv, TablesInv, RowsSound
  <2>3. WritesBackItsOwn'
    BY <1>4 DEF WritesBackItsOwn
  <2>4. QED
    BY <1>1, <2>1, <2>2, <2>3 DEF IInv, TablesInv, KeysUnique
<1>7. QED
  BY <1>1, <1>5, <1>6 DEF IInv, CallsSound

\* The row the engine keeps to write it back is the one it sees.
LEMMA FindStep ==
    ASSUME IInv, NEW r \in RunIds, findNoExecutor(r)
    PROVE  IInv'
<1>1. UNCHANGED <<time, job, run, cursor, tx, online, delivery, completing, editing, live>>
  BY DEF findNoExecutor, executorVars
<1>2. View(r) \in RunRow /\ SoundRow(delivery, r, View(r))
  BY ViewFacts DEF IInv
<1>3. engine \in EngineType /\ engine.phase = "dispatch" /\ engine.unclaimed = {}
  BY DEF IInv, TypeOK, EngineType, findNoExecutor
<1>4. /\ engine' \in EngineType /\ engine'.phase = "dispatch"
      /\ \/ engine'.unclaimed = {}
         \/ engine'.unclaimed = {r} /\ engine'.row = View(r) /\ Exists(View(r))
  BY <1>2, <1>3 DEF findNoExecutor, EngineType
<1>5. TypeOK'
  BY <1>1, <1>4 DEF IInv, TypeOK, EngineType
<1>6. TablesInv'
  <2>1. Viewed' = Viewed /\ View(r)' = View(r)
    BY <1>1 DEF Viewed, View
  <2>2. RowsSound'
    BY <1>1, <1>2, <1>4 DEF IInv, TablesInv, RowsSound
  <2>3. WritesBackItsOwn'
    BY <1>4, <2>1 DEF WritesBackItsOwn, Exists
  <2>4. QED
    BY <1>1, <2>1, <2>2, <2>3 DEF IInv, TablesInv, KeysUnique
<1>7. QED
  BY <1>1, <1>5, <1>6 DEF IInv, CallsSound

\* Writing it back keeps the invariant: what it sets back was sound.
LEMMA UpdateRunStep ==
    ASSUME IInv, NEW r \in RunIds, UpdateRun(r)
    PROVE  IInv'
<1>1. UNCHANGED <<time, job, run, cursor, online, delivery, completing, editing, live>>
  BY DEF UpdateRun, executorVars
<1>2. tx \in TxType /\ engine \in EngineType /\ engine.unclaimed = {r}
  BY DEF IInv, TypeOK, TxType, EngineType, UpdateRun
<1>3. /\ engine.row \in RunRow /\ SoundRow(delivery, r, engine.row)
      /\ engine.row.job = View(r).job /\ engine.row.moment = View(r).moment
  BY <1>2 DEF EngineType, IInv, TablesInv, RowsSound, WritesBackItsOwn
<1>4. engine' \in EngineType /\ engine'.unclaimed = {}
  BY <1>2, EmptyRows DEF UpdateRun, EngineType
<1>5. CASE Exists(View(r))
  <2>1. tx' = WriteRun(tx, r, engine.row)
    BY <1>5 DEF UpdateRun
  <2>2. tx' \in TxType /\ tx'.runs = tx.runs \cup {r} /\ tx'.run = [tx.run EXCEPT ![r] = engine.row]
    BY <1>2, <1>3, <2>1, WriteRunFacts
  <2>3. TablesInv'
    BY <1>1, <1>3, <1>4, <1>5, <2>2, OwnKey, TxWrite DEF IInv
  <2>4. TypeOK'
    BY <1>1, <1>4, <2>2 DEF IInv, TypeOK, TxType, EngineType
  <2>5. QED
    BY <1>1, <2>3, <2>4 DEF IInv, CallsSound
<1>6. CASE ~Exists(View(r))
  <2>1. tx' = tx
    BY <1>6 DEF UpdateRun
  <2>2. TypeOK'
    BY <1>1, <1>4, <2>1 DEF IInv, TypeOK, EngineType
  <2>3. Viewed' = Viewed
    BY <1>1, <2>1 DEF Viewed, View
  <2>4. RowsSound' /\ WritesBackItsOwn'
    BY <1>1, <1>4, <2>1 DEF IInv, TablesInv, RowsSound, WritesBackItsOwn
  <2>5. QED
    BY <1>1, <2>2, <2>3, <2>4 DEF IInv, TablesInv, KeysUnique, CallsSound
<1>7. QED
  BY <1>5, <1>6

\* A run that used up its attempts ends without a holder.
LEMMA ExpiredStep ==
    ASSUME IInv, NEW r \in RunIds, MarkExpiredRunFailed(r)
    PROVE  IInv'
<1>1. UNCHANGED <<time, job, run, cursor, online, delivery, completing, editing, live>>
  BY DEF MarkExpiredRunFailed, executorVars
<1>2. tx \in TxType /\ engine \in EngineType /\ engine.unclaimed = {}
  BY DEF IInv, TypeOK, TxType, EngineType, MarkExpiredRunFailed
<1>3. engine' \in EngineType /\ engine'.unclaimed = {}
  BY <1>2 DEF MarkExpiredRunFailed, EngineType
<1>4. View(r) \in RunRow /\ SoundRow(delivery, r, View(r))
  BY ViewFacts DEF IInv
<1>5. CASE shouldFailExpiredRun(View(r))
  <2> DEFINE row == [View(r) EXCEPT !.status = "failed", !.leasedBy = 0, !.lease = 0]
  <2>1. row \in RunRow
    <3>1. "failed" \in RunStatus /\ 0 \in 0..LeaseTicks
      BY SchedulerAssumption DEF RunStatus
    <3>2. QED
      BY <1>4, <3>1 DEF RunRow
  <2>2. /\ row.status = "failed" /\ row.leasedBy = 0 /\ row.attempt = View(r).attempt
        /\ row.job = View(r).job /\ row.moment = View(r).moment
    BY <1>4 DEF RunRow
  <2>3. tx' = WriteRun(tx, r, row)
    BY <1>5 DEF MarkExpiredRunFailed
  <2> HIDE DEF row
  <2>4. Exists(View(r))
    BY <1>5 DEF shouldFailExpiredRun, Expired, IsLeased, Exists
  <2>5. SoundRow(delivery, r, row)
    BY <1>4, <2>2 DEF SoundRow, IsLeased
  <2>6. tx' \in TxType /\ tx'.runs = tx.runs \cup {r} /\ tx'.run = [tx.run EXCEPT ![r] = row]
    BY <1>2, <2>1, <2>3, WriteRunFacts
  <2>7. TablesInv'
    BY <1>1, <1>3, <2>1, <2>2, <2>4, <2>5, <2>6, OwnKey, TxWrite DEF IInv
  <2>8. TypeOK'
    BY <1>1, <1>3, <2>6 DEF IInv, TypeOK, TxType, EngineType
  <2>9. QED
    BY <1>1, <2>7, <2>8 DEF IInv, CallsSound
<1>6. CASE ~shouldFailExpiredRun(View(r))
  <2>1. tx' = tx
    BY <1>6 DEF MarkExpiredRunFailed
  <2>2. TypeOK'
    BY <1>1, <1>3, <2>1 DEF IInv, TypeOK, EngineType
  <2>3. Viewed' = Viewed
    BY <1>1, <2>1 DEF Viewed, View
  <2>4. RowsSound' /\ WritesBackItsOwn'
    BY <1>1, <1>3, <2>1 DEF IInv, TablesInv, RowsSound, WritesBackItsOwn
  <2>5. QED
    BY <1>1, <2>2, <2>3, <2>4 DEF IInv, TablesInv, KeysUnique, CallsSound
<1>7. QED
  BY <1>5, <1>6

\* Claiming gives the run to the executor and counts an attempt for a lease that
\* is taken over; undoing it leaves no holder.
LEMMA ClaimFacts ==
    ASSUME NEW row \in RunRow, NEW e \in Executors, Claimable(row),
           row.attempt <= MaxRetries + 1
    PROVE  LET n == ClaimRun(row, e)
               u == MarkRunDispatchFailed(n) IN
           /\ n \in RunRow /\ n.status = "dispatched" /\ n.leasedBy = e
           /\ n.job = row.job /\ n.moment = row.moment /\ n.attempt <= MaxRetries + 1
           /\ u \in RunRow /\ u.status = "pending" /\ u.leasedBy = 0
           /\ u.job = row.job /\ u.moment = row.moment /\ u.attempt <= MaxRetries + 1
<1> DEFINE n == ClaimRun(row, e)
           u == MarkRunDispatchFailed(n)
           at == IF IsLeased(row.status) THEN row.attempt + 1 ELSE row.attempt
<1>1. at \in Nat /\ at <= MaxRetries + 1
  <2>1. row.attempt \in Nat
    BY DEF RunRow
  <2>2. IsLeased(row.status) => row.attempt <= MaxRetries
    BY DEF Claimable, IsLeased, Expired
  <2>3. QED
    BY <2>1, <2>2, SchedulerAssumption
<1>2. n = [row EXCEPT !.status = "dispatched", !.leasedBy = e, !.lease = LeaseTicks,
                      !.retryDue = FALSE, !.attempt = at]
  BY DEF ClaimRun
<1>3. u = [n EXCEPT !.status = "pending", !.leasedBy = 0, !.lease = 0]
  BY DEF MarkRunDispatchFailed
<1>4. "dispatched" \in RunStatus /\ "pending" \in RunStatus
      /\ LeaseTicks \in 0..LeaseTicks /\ 0 \in 0..LeaseTicks
  BY SchedulerAssumption DEF RunStatus
<1> HIDE DEF n, u, at
<1>5. n \in RunRow
  BY <1>1, <1>2, <1>4 DEF RunRow
<1>6. u \in RunRow
  BY <1>3, <1>4, <1>5 DEF RunRow
<1>7. /\ n.status = "dispatched" /\ n.leasedBy = e /\ n.job = row.job
      /\ n.moment = row.moment /\ n.attempt = at
  BY <1>2, <1>5 DEF RunRow
<1>8. /\ u.status = "pending" /\ u.leasedBy = 0 /\ u.job = n.job
      /\ u.moment = n.moment /\ u.attempt = n.attempt
  BY <1>3, <1>5, <1>6 DEF RunRow
<1>9. QED
  BY <1>1, <1>5, <1>6, <1>7, <1>8 DEF n, u

\* A claimed run is sent before its row says so, or its claim is undone.
LEMMA ClaimStep ==
    ASSUME IInv, NEW r \in RunIds, NEW e \in Executors, NEW sent \in BOOLEAN,
           claimAndDispatch(r, e, sent)
    PROVE  IInv'
<1> DEFINE j == View(r).job
           saved == SaveDispatchCursor(tx, j, e)
           claim == ClaimRun(View(r), e)
           row == IF sent THEN claim ELSE MarkRunDispatchFailed(claim)
<1>1. UNCHANGED <<time, job, run, cursor, online, completing, editing, live>>
  BY DEF claimAndDispatch
<1>2. tx \in TxType /\ engine \in EngineType /\ engine.unclaimed = {}
  BY DEF IInv, TypeOK, TxType, EngineType, claimAndDispatch
<1>3. engine' \in EngineType /\ engine'.unclaimed = {}
  BY <1>2 DEF claimAndDispatch, EngineType
<1>4. View(r) \in RunRow /\ SoundRow(delivery, r, View(r)) /\ j \in Jobs
  BY ViewFacts DEF IInv, RunRow
<1>5. /\ saved \in TxType /\ saved.runs = tx.runs /\ saved.run = tx.run
  BY <1>2, <1>4 DEF SaveDispatchCursor, TxType
<1>6. /\ delivery' \in [Executors -> [RunIds -> {"none", "working", "done"}]]
      /\ \A x \in Executors, q \in RunIds : delivery[x][q] # "none" => delivery'[x][q] # "none"
      /\ Claimable(View(r)) /\ sent => delivery'[e][r] # "none"
  <2>1. delivery \in [Executors -> [RunIds -> {"none", "working", "done"}]]
    BY DEF IInv, TypeOK
  <2>2. \/ delivery' = [delivery EXCEPT ![e][r] = "working"]
        \/ delivery' = delivery /\ ~(Claimable(View(r)) /\ sent)
    BY DEF claimAndDispatch
  <2>3. QED
    BY <2>1, <2>2
<1>7. CASE Claimable(View(r))
  <2>1. tx' = WriteRun(saved, r, row)
    BY <1>7 DEF claimAndDispatch
  <2>2. /\ row \in RunRow /\ row.job = View(r).job /\ row.moment = View(r).moment
        /\ row.attempt <= MaxRetries + 1
        /\ \/ sent /\ row.status = "dispatched" /\ row.leasedBy = e
           \/ row.status = "pending" /\ row.leasedBy = 0
    BY <1>4, <1>7, ClaimFacts DEF SoundRow
  <2> HIDE DEF row
  <2>3. SoundRow(delivery', r, row)
    BY <1>6, <1>7, <2>2 DEF SoundRow, IsLeased, Executors
  <2>4. Exists(View(r))
    BY <1>7 DEF Claimable, Expired, IsLeased, Exists
  <2>5. tx' \in TxType /\ tx'.runs = tx.runs \cup {r} /\ tx'.run = [tx.run EXCEPT ![r] = row]
    BY <1>5, <2>1, <2>2, WriteRunFacts
  <2>6. TablesInv'
    BY <1>1, <1>3, <1>6, <2>2, <2>3, <2>4, <2>5, OwnKey, TxWrite DEF IInv
  <2>7. TypeOK'
    BY <1>1, <1>3, <1>6, <2>5 DEF IInv, TypeOK, TxType, EngineType
  <2>8. QED
    BY <1>1, <2>6, <2>7 DEF IInv, CallsSound
<1>8. CASE ~Claimable(View(r))
  <2>1. tx' = saved /\ delivery' = delivery
    BY <1>8 DEF claimAndDispatch
  <2>2. TypeOK'
    BY <1>1, <1>3, <1>5, <2>1 DEF IInv, TypeOK, TxType, EngineType
  <2>3. tx'.runs = tx.runs /\ tx'.run = tx.run
    BY <1>5, <2>1
  <2>4. Viewed' = Viewed
    BY <1>1, <2>3 DEF Viewed, View
  <2>5. RowsSound' /\ WritesBackItsOwn'
    BY <1>1, <1>3, <2>1, <2>3 DEF IInv, TablesInv, RowsSound, WritesBackItsOwn
  <2>6. QED
    BY <1>1, <2>2, <2>4, <2>5 DEF IInv, TablesInv, KeysUnique, CallsSound
<1>9. QED
  BY <1>7, <1>8

\* A moment gets a run only if no run has its key.
LEMMA EnqueueStep ==
    ASSUME IInv, NEW j \in Jobs, enqueueDueJob(j)
    PROVE  IInv'
<1> DEFINE moment == engine.fresh.next
           next == computeNextSchedule(j, engine.fresh)
           advanced == IF JobView(j).status = "present" THEN WriteJob(tx, j, next) ELSE tx
<1>1. UNCHANGED <<time, job, run, cursor, online, delivery, completing, editing, live>>
  BY DEF enqueueDueJob, executorVars
<1>2. /\ tx \in TxType /\ engine \in EngineType /\ engine.phase = "enqueue"
      /\ engine.unclaimed = {}
  BY DEF IInv, TypeOK, TxType, EngineType, enqueueDueJob, TablesInv, WritesBackItsOwn
<1>3. engine' \in EngineType /\ engine'.unclaimed = {}
  BY <1>2, EmptyRows DEF enqueueDueJob, EngineType
<1>4. engine.fresh \in JobRow /\ moment \in 0..MaxTime
  BY <1>2, SchedulerAssumption DEF EngineType, DueRow, JobRow
<1>5. next \in JobRow
  <2>1. CASE j \in Cron
    <3>1. next = [engine.fresh EXCEPT !.next = moment + 1]
      BY <2>1, <1>4 DEF computeNextSchedule, JobRow
    <3>2. moment + 1 \in 0..MaxTime + 1
      BY <1>4, SchedulerAssumption
    <3>3. QED
      BY <1>4, <3>1, <3>2 DEF JobRow
  <2>2. CASE j \notin Cron
    <3>1. 0 \in 0..MaxTime + 1
      BY SchedulerAssumption
    <3>2. QED
      BY <1>4, <2>2, <3>1 DEF computeNextSchedule, JobRow
  <2>3. QED
    BY <2>1, <2>2
<1> HIDE DEF next
<1>6. advanced \in TxType /\ advanced.runs = tx.runs /\ advanced.run = tx.run
  BY <1>2, <1>5 DEF WriteJob, TxType
<1>7. CASE CreateRunIfNotExists(j, moment)
  <2> DEFINE row == NewRun(j, moment)
  <2>1. PICK r \in RunIds : FreshId(r) /\ tx' = WriteRun(advanced, r, row)
    BY <1>7 DEF enqueueDueJob, next
  <2>2. /\ row \in RunRow /\ row.job = j /\ row.moment = moment
        /\ SoundRow(delivery, r, row)
    BY <1>4, NewRunFacts DEF IInv
  <2> HIDE DEF row, advanced
  <2>3. tx' \in TxType /\ tx'.runs = tx.runs \cup {r} /\ tx'.run = [tx.run EXCEPT ![r] = row]
    BY <1>6, <2>1, <2>2, WriteRunFacts
  <2>4. \A q \in RunIds : ~(/\ Exists(View(q)) /\ View(q).job = j
                            /\ View(q).moment = moment)
    BY <1>7 DEF CreateRunIfNotExists
  <2>5. TablesInv'
    BY <1>1, <1>3, <2>2, <2>3, <2>4, TxWrite DEF IInv
  <2>6. TypeOK'
    BY <1>1, <1>3, <2>3 DEF IInv, TypeOK, TxType, EngineType
  <2>7. QED
    BY <1>1, <2>5, <2>6 DEF IInv, CallsSound
<1>8. CASE ~CreateRunIfNotExists(j, moment)
  <2>1. tx' = advanced
    BY <1>8 DEF enqueueDueJob, next
  <2> HIDE DEF advanced
  <2>2. tx'.runs = tx.runs /\ tx'.run = tx.run
    BY <1>6, <2>1
  <2>3. TypeOK'
    BY <1>1, <1>3, <1>6, <2>1 DEF IInv, TypeOK, TxType, EngineType
  <2>4. Viewed' = Viewed
    BY <1>1, <2>2 DEF Viewed, View
  <2>5. RowsSound' /\ WritesBackItsOwn'
    BY <1>1, <1>3, <2>2 DEF IInv, TablesInv, RowsSound, WritesBackItsOwn
  <2>6. QED
    BY <1>1, <2>3, <2>4, <2>5 DEF IInv, TablesInv, KeysUnique, CallsSound
<1>9. QED
  BY <1>7, <1>8

\* A cycle that ends without a commit leaves the committed rows as they are.
Undone ==
    /\ tx' = NoTx /\ engine' = Idle
    /\ UNCHANGED <<time, job, run, cursor, executorVars, editing, live>>

\* Cycles end so when a statement fails and when the search for a moment does.
LEMMA Undoes == Abort \/ (\E j \in Jobs : SearchFails(j)) => Undone
BY DEF Abort, SearchFails, Undone

\* What commits is what the engine saw; what is undone leaves the tables alone.
LEMMA EndOfCycle ==
    ASSUME IInv, Commit \/ Undone
    PROVE  IInv'
<1>1. /\ tx' = NoTx /\ engine' = Idle
      /\ UNCHANGED <<time, online, delivery, completing, editing, live>>
  BY DEF Commit, Undone, executorVars
<1>2. NoTx.runs = {} /\ Idle.unclaimed = {}
  BY DEF NoTx, Idle
<1>3. run' = Viewed \/ run' = run
  BY DEF Commit, Undone, Viewed
<1>4. run' \in [RunIds -> RunRow]
  <2>1. Viewed \in [RunIds -> RunRow]
    BY ViewFacts DEF Viewed, IInv
  <2>2. QED
    BY <1>3, <2>1 DEF IInv, TypeOK
<1>5. \A r \in RunIds : View(r)' = run'[r]
  BY <1>1, <1>2 DEF View
<1>6. Viewed' = run'
  BY <1>4, <1>5 DEF Viewed
<1>7. job' \in [Jobs -> JobRow] /\ cursor' \in [Jobs -> Executors \cup {0}]
  <2>1. CASE Undone
    BY <2>1 DEF IInv, TypeOK, Undone
  <2>2. CASE Commit
    <3>1. job' = [j \in Jobs |-> JobView(j)] /\ cursor' = [j \in Jobs |-> CursorView(j)]
      BY <2>2 DEF Commit
    <3>2. \A j \in Jobs : JobView(j) \in JobRow
      BY DEF IInv, TypeOK, JobView
    <3>3. \A j \in Jobs : CursorView(j) \in Executors \cup {0}
      BY DEF IInv, TypeOK, CursorView
    <3>4. QED
      BY <3>1, <3>2, <3>3
  <2>3. QED
    BY <2>1, <2>2
<1>8. TypeOK'
  BY <1>1, <1>4, <1>7, EmptyTypes DEF IInv, TypeOK, TxType, EngineType
<1>9. RowsSound'
  <2>1. \A r \in RunIds : SoundRow(delivery, r, run'[r])
    BY <1>3, ViewFacts DEF IInv, TablesInv, RowsSound, Viewed
  <2>2. QED
    BY <1>1, <1>2, <2>1 DEF RowsSound
<1>10. (KeysUnique(run) /\ KeysUnique(Viewed))'
  BY <1>3, <1>6 DEF IInv, TablesInv, KeysUnique
<1>11. WritesBackItsOwn'
  BY <1>1, <1>2 DEF WritesBackItsOwn
<1>12. QED
  BY <1>1, <1>8, <1>9, <1>10, <1>11 DEF IInv, TablesInv, CallsSound

----------------------------------------------------------------------------
(* The theorems.                                                           *)

\* A fresh database, with no job and no executor, satisfies the invariant.
LEMMA InitInv == Init => IInv
<1> SUFFICES ASSUME Init PROVE IInv
  OBVIOUS
<1>1. /\ run = [r \in RunIds |-> NoRun] /\ tx = NoTx /\ engine = Idle
      /\ completing = [e \in Executors |-> NoCall]
  BY DEF Init
<1>2. NoTx.runs = {} /\ Idle.unclaimed = {}
  BY DEF NoTx, Idle
<1>3. /\ NoCall \in [run: RunIds \cup {0}, status: {"succeeded", "retryWaiting", "failed"},
                     attempt: Nat]
      /\ NoCall.attempt = 0 /\ 0 <= MaxRetries + 1
      /\ NoEdit \in [at: {"none", "write", "cursor", "delete"}, job: Jobs, row: JobRow]
  BY EmptyRows, SchedulerAssumption DEF NoCall, NoEdit
<1>4. TypeOK
  BY <1>1, <1>3, EmptyRows, EmptyTypes, SchedulerAssumption
     DEF Init, TypeOK, TxType, EngineType
<1>5. \A r \in RunIds : run[r] = NoRun /\ View(r) = NoRun
  BY <1>1, <1>2 DEF View
<1>6. ~Exists(NoRun)
  BY EmptyRows DEF Exists
<1>7. RowsSound
  BY <1>1, <1>2, <1>3, <1>5, <1>6, EmptyRows DEF RowsSound, SoundRow
<1>8. KeysUnique(run) /\ KeysUnique(Viewed)
  BY <1>5, <1>6 DEF KeysUnique, Viewed
<1>9. WritesBackItsOwn /\ CallsSound
  BY <1>1, <1>2, <1>3 DEF WritesBackItsOwn, CallsSound
<1>10. QED
  BY <1>4, <1>7, <1>8, <1>9 DEF IInv, TablesInv

\* Every step of the engine, an executor, an administrator or the clock keeps it.
LEMMA NextInv == IInv /\ [Next]_vars => IInv'
<1> SUFFICES ASSUME IInv, [Next]_vars PROVE IInv'
  OBVIOUS
<1>1. CASE UNCHANGED vars
  <2>1. UNCHANGED <<time, job, run, cursor, tx, engine, online, delivery, completing,
                    editing, live>>
    BY <1>1 DEF vars, engineVars, executorVars
  <2>2. TypeOK'
    BY <2>1 DEF IInv, TypeOK
  <2>3. TablesInv'
    BY <2>1, OnlySent DEF IInv
  <2>4. QED
    BY <2>1, <2>2, <2>3 DEF IInv, CallsSound
<1>2. CASE EngineStep
  BY <1>2, CycleStep, EnqueueStep, ExpiredStep, FindStep, UpdateRunStep, ClaimStep,
     EndOfCycle, Undoes DEF EngineStep
<1>3. CASE EngineFailure
  BY <1>3, ClaimStep, EndOfCycle, Undoes DEF EngineFailure
<1>4. CASE TimePasses
  BY <1>4, OutsideStep, AgeingStep DEF TimePasses
<1>5. CASE Administration
  BY <1>5, JobStep, TriggerStep, DeleteRunsStep, DeleteCursorStep DEF Administration
<1>6. ASSUME NEW e \in Executors, ExecutorStep(e) PROVE IInv'
  BY <1>6, OutsideStep, CompleteStep, ReportStep, ReturnStep DEF ExecutorStep
<1>7. QED
  BY <1>1, <1>2, <1>3, <1>4, <1>5, <1>6 DEF Next

\* The inductive invariant holds in every state of every behaviour.
THEOREM Inductive == Spec => []IInv
<1>1. QED
  BY InitInv, NextInv, PTL DEF Spec

\* Every table keeps rows of its type, whatever the engine, the executors and
\* administrators do between each other's statements (service.go, repository.go).
THEOREM TypeCorrect == Spec => []TypeOK
<1>1. IInv => TypeOK
  BY DEF IInv
<1>2. QED
  BY <1>1, Inductive, PTL

\* The idempotency key keeps every moment of a schedule to one run
\* (CreateRunIfNotExists), though the job's row is set back by lost updates.
THEOREM MomentsHaveOneRun == Spec => []OneRunPerMoment
<1>1. IInv => OneRunPerMoment
  BY DEF IInv, TablesInv, KeysUnique, OneRunPerMoment
<1>2. QED
  BY <1>1, Inductive, PTL

\* Retries granted by CompleteRun and leases taken over by ClaimRun share one
\* bound on the attempts.
THEOREM AttemptsAreBounded == Spec => []AttemptsBounded
<1>1. IInv => AttemptsBounded
  BY DEF IInv, TablesInv, RowsSound, SoundRow, AttemptsBounded
<1>2. QED
  BY <1>1, Inductive, PTL

\* A run names a holder exactly while it is dispatched or running: every
\* statement that ends a lease clears it, the engine's write-back included.
THEOREM HoldersAreLeased == Spec => []HolderWhileLeased
<1>1. IInv => HolderWhileLeased
  BY DEF IInv, TablesInv, RowsSound, SoundRow, HolderWhileLeased
<1>2. QED
  BY <1>1, Inductive, PTL

\* The holder of a run was sent it (pickExecutorAndClaim, DispatchRun).
THEOREM HoldersWereSent == Spec => []HolderWasSent
<1>1. IInv => HolderWasSent
  BY DEF IInv, TablesInv, RowsSound, SoundRow, HolderWasSent
<1>2. QED
  BY <1>1, Inductive, PTL

----------------------------------------------------------------------------
(* Ended runs stay.                                                     *)

\* What EndedRunsStay says of a step.
EndedStay ==
    \A r \in RunIds :
       IsTerminal(run[r].status) =>
          /\ run'[r] # run[r] => run'[r].status = "deleted" \/ (r \in tx.runs /\ Commit)
          /\ r \in tx'.runs \ tx.runs => UpdateRun(r)

\* A write to a row that has not ended, outside a cycle, leaves ended rows.
LEMMA OthersStay ==
    ASSUME TypeOK, UNCHANGED engineVars, NEW q \in RunIds, ~IsTerminal(run[q].status),
           NEW row, run' = [run EXCEPT ![q] = row]
    PROVE  EndedStay
<1>1. \A r \in RunIds : r # q => run'[r] = run[r]
  BY DEF TypeOK
<1>2. tx' = tx
  BY DEF engineVars
<1>3. QED
  BY <1>1, <1>2 DEF EndedStay

\* A cycle writes to its transaction one row that has not ended.
LEMMA CycleStays ==
    ASSUME TypeOK, run' = run, NEW q \in RunIds, ~IsTerminal(View(q).status),
           tx'.runs \subseteq tx.runs \cup {q}
    PROVE  EndedStay
<1>1. \A r \in RunIds : IsTerminal(run[r].status) => r \notin tx'.runs \ tx.runs
  BY DEF View
<1>2. QED
  BY <1>1 DEF EndedStay

\* ... or none.
LEMMA NothingStays ==
    ASSUME run' = run, tx'.runs \subseteq tx.runs
    PROVE  EndedStay
BY DEF EndedStay

\* No step but a commit, a write-back or a deletion touches an ended run.
LEMMA StepsStay == TypeOK /\ [Next]_vars => EndedStay
<1> SUFFICES ASSUME TypeOK, [Next]_vars PROVE EndedStay
  OBVIOUS
<1>1. CASE UNCHANGED vars
  BY <1>1, NothingStays DEF vars, engineVars
<1>2. CASE BeginCycle \/ ListDispatchableRuns \/ Undone \/ \E j \in Jobs : readDueJob(j)
  <2>1. run' = run /\ (tx' = tx \/ tx' = NoTx)
    BY <1>2 DEF BeginCycle, ListDispatchableRuns, Undone, readDueJob
  <2>2. tx'.runs \subseteq tx.runs
    BY <2>1 DEF NoTx
  <2>3. QED
    BY <2>1, <2>2, NothingStays
<1>3. CASE Commit
  BY <1>3 DEF EndedStay, Commit, View, NoTx
<1>4. ASSUME NEW j \in Jobs, enqueueDueJob(j) PROVE EndedStay
  <2> DEFINE advanced == IF JobView(j).status = "present"
                         THEN WriteJob(tx, j, computeNextSchedule(j, engine.fresh)) ELSE tx
  <2>1. run' = run
    BY <1>4 DEF enqueueDueJob
  <2>2. advanced.runs = tx.runs
    BY DEF WriteJob, TypeOK
  <2>3. CASE tx' = advanced
    BY <2>1, <2>2, <2>3, NothingStays
  <2>4. ASSUME NEW q \in RunIds, FreshId(q),
               tx' = WriteRun(advanced, q, NewRun(j, engine.fresh.next))
        PROVE  EndedStay
    <3>1. run[q].status = "absent" /\ q \notin tx.runs
      BY <2>4 DEF FreshId, UnusedIds
    <3>2. tx'.runs = tx.runs \cup {q}
      <4>1. \A row : WriteRun(advanced, q, row).runs = advanced.runs \cup {q}
        BY DEF WriteRun, WriteJob, TypeOK
      <4> HIDE DEF advanced
      <4>2. QED
        BY <2>2, <2>4, <4>1
    <3>3. ~IsTerminal(View(q).status)
      BY <3>1 DEF View, IsTerminal
    <3>4. QED
      BY <2>1, <3>2, <3>3, CycleStays
  <2>5. QED
    BY <1>4, <2>3, <2>4 DEF enqueueDueJob
<1>5. ASSUME NEW r \in RunIds, MarkExpiredRunFailed(r) PROVE EndedStay
  <2>1. run' = run
    BY <1>5 DEF MarkExpiredRunFailed
  <2>2. CASE tx' = tx
    BY <2>1, <2>2, NothingStays
  <2>3. CASE tx' # tx
    <3>1. Expired(View(r)) /\ tx'.runs = tx.runs \cup {r}
      BY <1>5, <2>3 DEF MarkExpiredRunFailed, shouldFailExpiredRun, WriteRun, TypeOK
    <3>2. ~IsTerminal(View(r).status)
      BY <3>1 DEF Expired, IsLeased, IsTerminal
    <3>3. QED
      BY <2>1, <3>1, <3>2, CycleStays
  <2>4. QED
    BY <2>2, <2>3
<1>6. ASSUME NEW r \in RunIds, findNoExecutor(r) PROVE EndedStay
  BY <1>6, NothingStays DEF findNoExecutor
<1>7. ASSUME NEW r \in RunIds, UpdateRun(r) PROVE EndedStay
  <2>1. run' = run
    BY <1>7 DEF UpdateRun
  <2>2. tx'.runs \subseteq tx.runs \cup {r}
    BY <1>7 DEF UpdateRun, WriteRun, TypeOK
  <2>3. \A q \in RunIds : q \in tx'.runs \ tx.runs => UpdateRun(q)
    BY <1>7, <2>2
  <2>4. QED
    BY <2>1, <2>3 DEF EndedStay
<1>8. ASSUME NEW r \in RunIds, NEW e \in Executors, NEW sent \in BOOLEAN,
             claimAndDispatch(r, e, sent)
      PROVE  EndedStay
  <2> DEFINE saved == SaveDispatchCursor(tx, View(r).job, e)
  <2>1. run' = run
    BY <1>8 DEF claimAndDispatch
  <2>2. saved.runs = tx.runs /\ saved.run = tx.run
    BY DEF SaveDispatchCursor, TypeOK
  <2>3. CASE tx' = saved
    BY <2>1, <2>2, <2>3, NothingStays
  <2>4. CASE tx' # saved
    <3>1. Claimable(View(r)) /\ \E row : tx' = WriteRun(saved, r, row)
      BY <1>8, <2>4 DEF claimAndDispatch
    <3>2. tx'.runs = tx.runs \cup {r}
      <4>1. \A row : WriteRun(saved, r, row).runs = tx.runs \cup {r}
        BY <2>2 DEF WriteRun, SaveDispatchCursor, TypeOK
      <4>2. QED
        BY <3>1, <4>1
    <3>3. ~IsTerminal(View(r).status)
      BY <3>1 DEF Claimable, Expired, IsLeased, IsTerminal
    <3>4. QED
      BY <2>1, <3>2, <3>3, CycleStays
  <2>5. QED
    BY <2>3, <2>4
<1>9. ASSUME NEW e \in Executors, ExecutorStep(e) PROVE EndedStay
  <2>1. CASE Connect(e) \/ Disconnect(e) \/ ExecutorStops(e)
             \/ \E r \in RunIds : HandlerReturns(e, r)
    BY <2>1, NothingStays DEF Connect, Disconnect, ExecutorStops, HandlerReturns, engineVars
  <2>2. ASSUME NEW r \in RunIds, MarkRunRunning(e, r) \/ RenewRunLease(e, r)
        PROVE  EndedStay
    <3>1. ~IsTerminal(run[r].status)
      BY <2>2 DEF MarkRunRunning, RenewRunLease, ReportAllowed, HoldsLease, IsLeased, IsTerminal
    <3>2. UNCHANGED engineVars /\ \E row : run' = [run EXCEPT ![r] = row]
      BY <2>2 DEF MarkRunRunning, RenewRunLease
    <3>3. QED
      BY <3>1, <3>2, OthersStay
  <2>3. CASE CompleteRun(e)
    <3> DEFINE r == completing[e].run
    <3>1. UNCHANGED engineVars
      BY <2>3 DEF CompleteRun
    <3>2. CASE HoldsLease(run[r], e)
      <4>1. run' = [run EXCEPT ![r] = completedRow(run[r], completing[e])]
        BY <2>3, <3>2 DEF CompleteRun
      <4>2. ~IsTerminal(run[r].status)
        BY <3>2 DEF HoldsLease, IsLeased, IsTerminal
      <4>3. \A q \in RunIds : q # r => run'[q] = run[q]
        BY <4>1 DEF TypeOK
      <4>4. QED
        BY <3>1, <4>2, <4>3 DEF EndedStay, engineVars
    <3>3. CASE ~HoldsLease(run[r], e)
      BY <2>3, <3>1, <3>3, NothingStays DEF CompleteRun, engineVars
    <3>4. QED
      BY <3>2, <3>3
  <2>4. QED
    BY <1>9, <2>1, <2>2, <2>3 DEF ExecutorStep
<1>10. CASE TimePasses
  <2>1. CASE Tick \/ LiveSlotSwitches
    BY <2>1, NothingStays DEF Tick, LiveSlotSwitches, engineVars
  <2>2. ASSUME NEW r \in RunIds, LeaseAges(r) \/ RetryFallsDue(r) PROVE EndedStay
    <3>1. ~IsTerminal(run[r].status)
      BY <2>2 DEF LeaseAges, RetryFallsDue, IsLeased, IsTerminal
    <3>2. UNCHANGED engineVars /\ \E row : run' = [run EXCEPT ![r] = row]
      BY <2>2 DEF LeaseAges, RetryFallsDue
    <3>3. QED
      BY <3>1, <3>2, OthersStay
  <2>3. QED
    BY <1>10, <2>1, <2>2 DEF TimePasses
<1>11. CASE Administration
  <2>1. CASE WriteJobBack \/ DeleteCursor \/ DeleteJob
             \/ \E j \in Jobs : CreateJob(j) \/ SetJobEnabled(j) \/ UpdateJob(j)
    BY <2>1, NothingStays
       DEF WriteJobBack, DeleteCursor, DeleteJob, CreateJob, SetJobEnabled, UpdateJob, ReadForEdit, engineVars
  <2>2. ASSUME NEW j \in Jobs, TriggerNow(j) PROVE EndedStay
    <3>1. PICK r \in RunIds : FreshId(r) /\ run' = [run EXCEPT ![r] = NewRun(j, 0)]
      BY <2>2 DEF TriggerNow
    <3>2. ~IsTerminal(run[r].status) /\ UNCHANGED engineVars
      BY <2>2, <3>1 DEF TriggerNow, FreshId, UnusedIds, IsTerminal
    <3>3. QED
      BY <3>1, <3>2, OthersStay
  <2>3. ASSUME NEW j \in Jobs, DeleteRuns(j) PROVE EndedStay
    <3>1. UNCHANGED engineVars
      BY <2>3 DEF DeleteRuns
    <3>2. ASSUME NEW r \in RunIds, run'[r] # run[r] PROVE run'[r].status = "deleted"
      <4>1. run'[r] = [run[r] EXCEPT !.status = "deleted"]
        BY <2>3, <3>2 DEF DeleteRuns
      <4>2. run[r] \in RunRow
        BY DEF TypeOK
      <4>3. QED
        BY <4>1, <4>2 DEF RunRow
    <3>3. QED
      BY <3>1, <3>2 DEF EndedStay, engineVars
  <2>4. QED
    BY <1>11, <2>1, <2>2, <2>3 DEF Administration
<1>12. QED
  BY <1>1, <1>2, <1>3, <1>4, <1>5, <1>6, <1>7, <1>8, <1>9, <1>10, <1>11, Undoes
     DEF Next, EngineStep, EngineFailure

\* A run that has ended is touched by no late report, no expired lease and no other
\* cycle (CompleteRun, ClaimRun, MarkExpiredRunFailed): what brings it back is the
\* UpdateRun of a cycle that found no executor for it, and that alone.
THEOREM EndedRunsStayEnded == Spec => EndedRunsStay
<1>1. TypeOK /\ [Next]_vars => EndedStay
  BY StepsStay
<1>2. [][EndedStay]_vars => EndedRunsStay
  BY DEF EndedStay, EndedRunsStay
<1>3. QED
  BY <1>1, <1>2, TypeCorrect, PTL DEF Spec

----------------------------------------------------------------------------
(* No moment is lost.                                                      *)

\* A table of runs has a run of j for the moment m.
HasRun(table, j, m) ==
    \E r \in RunIds : /\ table[r].status # "absent"
                      /\ table[r].job = j /\ table[r].moment = m

\* Every moment from `from` up to `to`, which is the next one, has a run.
Covered(table, j, from, to) == \A m \in from..(to - 1) : m > 0 => HasRun(table, j, m)

\* The rows of a cycle: what it has written is of jobs there are, what it has
\* picked is due.
CycleInv ==
    /\ engine.now <= time
    /\ \A j \in tx.jobs : tx.job[j].status = "present"
    /\ \A j \in engine.picked :
          engine.fresh.status = "present" /\ engine.fresh.next \in 1..engine.now

Edits(j) == editing.at = "write" /\ editing.job = j

\* No row of a cron job, committed or about to be, is ahead of the next moment.
NextInReach ==
    /\ \A j \in Cron : /\ job[j].next <= time + 1 /\ JobView(j).next <= time + 1
                       /\ Edits(j) => editing.row.next <= time + 1
    /\ \A j \in Jobs : Edits(j) => job[j].status # "absent"

\* Where the engine has moved a schedule past the committed row, or past the row
\* that a request will write back, it has left a run for every moment; what an
\* abort would leave of that is committed.
EngineCovers ==
    \A j \in Cron : job[j].status = "present" =>
        /\ Covered(Viewed, j, job[j].next, JobView(j).next)
        /\ j \in engine.picked => Covered(Viewed, j, job[j].next, engine.fresh.next)
EditCovers ==
    \A j \in Cron : Edits(j) =>
        /\ Covered(Viewed, j, editing.row.next, JobView(j).next)
        /\ j \in engine.picked => Covered(Viewed, j, editing.row.next, engine.fresh.next)
        /\ Covered(run, j, editing.row.next, job[j].next)

MomentsInv == CycleInv /\ NextInReach /\ EngineCovers /\ EditCovers

\* Rows that are runs stay runs of the same moment.
KeysKept(table, then) ==
    \A r \in RunIds : table[r].status # "absent" =>
        /\ then[r].status # "absent"
        /\ then[r].job = table[r].job /\ then[r].moment = table[r].moment

\* Moments keep their runs while rows keep their keys.
LEMMA CoverKept ==
    ASSUME NEW table, NEW then, KeysKept(table, then), NEW j, NEW from, NEW to,
           Covered(table, j, from, to)
    PROVE  Covered(then, j, from, to)
BY DEF KeysKept, Covered, HasRun

\* One more moment with a run.
LEMMA CoverOneMore ==
    ASSUME NEW table, NEW j, NEW from \in Nat, NEW to \in Nat,
           Covered(table, j, from, to), HasRun(table, j, to)
    PROVE  Covered(table, j, from, to + 1)
<1> SUFFICES ASSUME NEW m \in from..(to + 1 - 1), m > 0 PROVE HasRun(table, j, m)
  BY DEF Covered
<1>1. m = to \/ m \in from..(to - 1)
  OBVIOUS
<1>2. QED
  BY <1>1 DEF Covered

\* Between a moment and an earlier one there is none.
LEMMA CoverNothing ==
    ASSUME NEW table, NEW j, NEW from \in Nat, NEW to \in Nat, to <= from
    PROVE  Covered(table, j, from, to)
<1>1. from..(to - 1) = {}
  OBVIOUS
<1>2. QED
  BY <1>1 DEF Covered

\* What the numbers in the rows are.
LEMMA NextsAreNat ==
    ASSUME TypeOK
    PROVE  /\ time \in Nat /\ engine.now \in Nat /\ engine.fresh.next \in Nat
           /\ editing.row.next \in Nat /\ editing.job \in Jobs
           /\ \A j \in Jobs : job[j].next \in Nat /\ JobView(j).next \in Nat
           /\ \A j \in Jobs : job[j] \in JobRow /\ JobView(j) \in JobRow
           /\ Cron \subseteq Jobs
<1>1. \A j \in Jobs : job[j] \in JobRow /\ tx.job[j] \in JobRow
  BY DEF TypeOK
<1>2. \A j \in Jobs : JobView(j) \in JobRow
  BY <1>1 DEF JobView
<1>3. \A row \in JobRow : row.next \in Nat
  BY SchedulerAssumption DEF JobRow
<1>4. engine.fresh \in JobRow /\ editing.row \in JobRow
  BY DEF TypeOK, DueRow
<1>5. QED
  BY <1>1, <1>2, <1>3, <1>4, SchedulerAssumption DEF TypeOK

\* A committed row that keeps its key is seen by the engine with its key.
LEMMA OutsideKeepsKeys ==
    ASSUME KeysKept(run, run'), tx' = tx
    PROVE  KeysKept(Viewed, Viewed')
<1>1. \A r \in RunIds : Viewed[r] = View(r) /\ Viewed'[r] = View(r)'
  BY DEF Viewed
<1>2. QED
  BY <1>1 DEF KeysKept, View

\* So is a row that the transaction writes.
LEMMA TxKeepsKeys ==
    ASSUME TypeOK, NEW r \in RunIds, NEW row, run' = run,
           tx'.runs = tx.runs \cup {r}, tx'.run = [tx.run EXCEPT ![r] = row],
           View(r).status # "absent" =>
              /\ row.status # "absent" /\ row.job = View(r).job /\ row.moment = View(r).moment
    PROVE  KeysKept(Viewed, Viewed') /\ View(r)' = row
<1>1. \A q \in RunIds : tx'.run[q] = IF q = r THEN row ELSE tx.run[q]
  BY DEF TypeOK
<1>2. \A q \in RunIds : View(q)' = IF q = r THEN row ELSE View(q)
  BY <1>1 DEF View
<1>3. \A q \in RunIds : Viewed[q] = View(q) /\ Viewed'[q] = View(q)'
  BY DEF Viewed
<1>4. QED
  BY <1>2, <1>3 DEF KeysKept

\* Steps that leave the schedules alone.
LEMMA SchedulesKept ==
    ASSUME IInv, IInv', MomentsInv, time' >= time, job' = job,
           tx'.jobs = tx.jobs, tx'.job = tx.job,
           engine'.now <= time',
           \/ engine'.picked = {}
           \/ /\ engine'.picked = engine.picked /\ engine'.fresh = engine.fresh
              /\ engine'.now = engine.now,
           editing' = editing \/ editing'.at # "write",
           KeysKept(run, run'), KeysKept(Viewed, Viewed')
    PROVE  MomentsInv'
<1>1. \A j \in Jobs : JobView(j)' = JobView(j)
  BY DEF JobView
<1>2. CycleInv'
  BY DEF MomentsInv, CycleInv
<1>3. \A j : Edits(j)' => Edits(j) /\ editing' = editing
  BY DEF Edits
<1>4. NextInReach'
  <2>1. ASSUME NEW j \in Cron
        PROVE  /\ job'[j].next <= time' + 1 /\ JobView(j)'.next <= time' + 1
               /\ Edits(j)' => editing'.row.next <= time' + 1
    <3>1. /\ job[j].next \in Nat /\ JobView(j).next \in Nat /\ editing.row.next \in Nat
          /\ time \in Nat /\ j \in Jobs
      BY NextsAreNat DEF IInv
    <3>2. time' \in Nat
      BY SchedulerAssumption DEF IInv, TypeOK
    <3>3. QED
      BY <1>1, <1>3, <3>1, <3>2 DEF MomentsInv, NextInReach
  <2>2. QED
    BY <1>3, <2>1 DEF MomentsInv, NextInReach
<1>5. Cron \subseteq Jobs
  BY SchedulerAssumption
<1>6. EngineCovers'
  <2> SUFFICES ASSUME NEW j \in Cron, job'[j].status = "present"
               PROVE  /\ Covered(Viewed', j, job'[j].next, JobView(j)'.next)
                      /\ j \in engine'.picked =>
                            Covered(Viewed', j, job'[j].next, engine'.fresh.next)
    BY DEF EngineCovers
  <2>1. Covered(Viewed', j, job[j].next, JobView(j).next)
    BY CoverKept DEF MomentsInv, EngineCovers
  <2>2. j \in engine'.picked => Covered(Viewed', j, job[j].next, engine.fresh.next)
    BY CoverKept DEF MomentsInv, EngineCovers
  <2>3. QED
    BY <1>1, <1>5, <2>1, <2>2
<1>7. EditCovers'
  <2> SUFFICES ASSUME NEW j \in Cron, Edits(j)'
               PROVE  /\ Covered(Viewed', j, editing'.row.next, JobView(j)'.next)
                      /\ j \in engine'.picked =>
                            Covered(Viewed', j, editing'.row.next, engine'.fresh.next)
                      /\ Covered(run', j, editing'.row.next, job'[j].next)
    BY DEF EditCovers
  <2>1. Edits(j) /\ editing' = editing
    BY <1>3
  <2>2. Covered(Viewed', j, editing.row.next, JobView(j).next)
    BY <2>1, CoverKept DEF MomentsInv, EditCovers
  <2>3. j \in engine'.picked => Covered(Viewed', j, editing.row.next, engine.fresh.next)
    BY <2>1, CoverKept DEF MomentsInv, EditCovers
  <2>4. Covered(run', j, editing.row.next, job[j].next)
    BY <2>1, CoverKept DEF MomentsInv, EditCovers
  <2>5. QED
    BY <1>1, <1>5, <2>1, <2>2, <2>3, <2>4
<1>8. QED
  BY <1>2, <1>4, <1>6, <1>7 DEF MomentsInv

\* Reports, completions, leases and administrators never change the key of a run.
LEMMA RunsKeepKeys ==
    ASSUME IInv,
           \/ TimePasses \/ DeleteCursor
           \/ \E j \in Jobs : TriggerNow(j) \/ DeleteRuns(j)
           \/ \E e \in Executors : ExecutorStep(e)
    PROVE  /\ KeysKept(run, run') /\ tx' = tx /\ engine' = engine /\ job' = job
           /\ time' >= time
           /\ editing' = editing \/ editing'.at # "write"
<1>0. /\ \A r \in RunIds : run[r] \in RunRow
      /\ time \in Nat
  BY SchedulerAssumption DEF IInv, TypeOK
<1>1. ASSUME UNCHANGED <<run, tx, engine, job, editing>>, time' >= time
      PROVE  /\ KeysKept(run, run') /\ tx' = tx /\ engine' = engine /\ job' = job
             /\ time' >= time
             /\ editing' = editing \/ editing'.at # "write"
  BY <1>1 DEF KeysKept
<1>2. ASSUME NEW r \in RunIds, NEW row, run[r].status # "absent" =>
                row.status # "absent" /\ row.job = run[r].job /\ row.moment = run[r].moment,
             run' = [run EXCEPT ![r] = row]
      PROVE  KeysKept(run, run')
  BY <1>2 DEF KeysKept, IInv, TypeOK
<1>3. CASE TimePasses
  <2>1. CASE Tick \/ LiveSlotSwitches
    BY <1>0, <1>1, <2>1 DEF Tick, LiveSlotSwitches, engineVars
  <2>2. ASSUME NEW r \in RunIds, LeaseAges(r) \/ RetryFallsDue(r)
        PROVE  KeysKept(run, run')
    <3>1. \/ run' = [run EXCEPT ![r] = [run[r] EXCEPT !.lease = @ - 1]]
          \/ run' = [run EXCEPT ![r] = [run[r] EXCEPT !.retryDue = TRUE]]
      BY <2>2 DEF LeaseAges, RetryFallsDue
    <3>2. QED
      BY <1>0, <1>2, <3>1 DEF RunRow
  <2>3. QED
    BY <1>0, <1>3, <2>1, <2>2 DEF TimePasses, LeaseAges, RetryFallsDue, engineVars
<1>4. ASSUME NEW j \in Jobs, TriggerNow(j)
      PROVE  KeysKept(run, run')
  <2>1. PICK r \in RunIds : FreshId(r) /\ run' = [run EXCEPT ![r] = NewRun(j, 0)]
    BY <1>4 DEF TriggerNow
  <2>2. run[r].status = "absent"
    BY <2>1 DEF FreshId, UnusedIds
  <2>3. QED
    BY <1>2, <2>1, <2>2
<1>5. ASSUME NEW j \in Jobs, DeleteRuns(j)
      PROVE  KeysKept(run, run') /\ editing'.at # "write"
  <2>1. \A r \in RunIds :
           run'[r] = run[r] \/ run'[r] = [run[r] EXCEPT !.status = "deleted"]
    BY <1>5 DEF DeleteRuns
  <2>2. editing' = [NoEdit EXCEPT !.at = "cursor", !.job = j]
    BY <1>5 DEF DeleteRuns
  <2>3. QED
    BY <1>0, <2>1, <2>2 DEF KeysKept, RunRow, NoEdit
<1>6. ASSUME NEW e \in Executors, ExecutorStep(e)
      PROVE  KeysKept(run, run')
  <2>1. CASE Connect(e) \/ Disconnect(e) \/ ExecutorStops(e) \/ \E r \in RunIds : HandlerReturns(e, r)
    BY <2>1 DEF Connect, Disconnect, ExecutorStops, HandlerReturns, KeysKept
  <2>2. CASE CompleteRun(e)
    <3> DEFINE r == completing[e].run
               call == completing[e]
    <3>1. /\ r \in RunIds /\ call.attempt \in Nat
          /\ call.status \in {"succeeded", "retryWaiting", "failed"}
      BY <2>2 DEF CompleteRun, IInv, TypeOK, CallsSound
    <3>2. \/ run' = run
          \/ run' = [run EXCEPT ![r] = completedRow(run[r], call)]
      BY <2>2 DEF CompleteRun
    <3>3. LET n == completedRow(run[r], call)
          IN  n.status = call.status /\ n.job = run[r].job /\ n.moment = run[r].moment
      BY <1>0, <3>1, CompletedRow
    <3> HIDE DEF r, call
    <3>4. CASE run' = run
      BY <3>4 DEF KeysKept
    <3>5. CASE run' = [run EXCEPT ![r] = completedRow(run[r], call)]
      BY <1>2, <3>1, <3>3, <3>5
    <3>6. QED
      BY <3>2, <3>4, <3>5
  <2>3. ASSUME NEW r \in RunIds, MarkRunRunning(e, r) \/ RenewRunLease(e, r)
        PROVE  KeysKept(run, run')
    <3>1. \/ run' = [run EXCEPT ![r] = [run[r] EXCEPT !.status = "running"]]
          \/ run' = [run EXCEPT ![r] = [run[r] EXCEPT !.lease = LeaseTicks]]
      BY <2>3 DEF MarkRunRunning, RenewRunLease
    <3>2. QED
      BY <1>0, <1>2, <3>1 DEF RunRow
  <2>4. QED
    BY <1>6, <2>1, <2>2, <2>3 DEF ExecutorStep
<1>7. ASSUME \/ \E r \in RunIds : LeaseAges(r) \/ RetryFallsDue(r)
             \/ \E j \in Jobs : TriggerNow(j)
             \/ \E e \in Executors : ExecutorStep(e)
      PROVE  UNCHANGED <<time, tx, engine, job, editing>>
  BY <1>7 DEF LeaseAges, RetryFallsDue, TriggerNow, ExecutorStep, Connect, Disconnect,
     ExecutorStops, CompleteRun, MarkRunRunning, RenewRunLease, HandlerReturns, engineVars
<1>8. ASSUME NEW j \in Jobs, DeleteRuns(j)
      PROVE  UNCHANGED <<time, tx, engine, job>>
  BY <1>8 DEF DeleteRuns, engineVars
<1>9. ASSUME Tick \/ LiveSlotSwitches
      PROVE  UNCHANGED <<tx, engine, job, editing>> /\ time' >= time
  BY <1>0, <1>9 DEF Tick, LiveSlotSwitches, engineVars
<1>10. CASE \/ \E r \in RunIds : LeaseAges(r) \/ RetryFallsDue(r)
            \/ \E j \in Jobs : TriggerNow(j)
            \/ \E e \in Executors : ExecutorStep(e)
  <2>1. KeysKept(run, run')
    BY <1>3, <1>4, <1>6, <1>10 DEF TimePasses
  <2>2. UNCHANGED <<time, tx, engine, job, editing>>
    BY <1>7, <1>10
  <2>3. time' >= time
    BY <1>0, <2>2
  <2>4. QED
    BY <2>1, <2>2, <2>3
<1>11. CASE \E j \in Jobs : DeleteRuns(j)
  BY <1>0, <1>5, <1>8, <1>11
<1>12. CASE Tick \/ LiveSlotSwitches
  BY <1>3, <1>9, <1>12 DEF TimePasses
<1>13. CASE DeleteCursor
  <2>1. UNCHANGED <<time, tx, engine, job, run>> /\ editing' = [editing EXCEPT !.at = "delete"]
    BY <1>13 DEF DeleteCursor, engineVars
  <2>2. KeysKept(run, run') /\ time' >= time
    BY <1>0, <2>1 DEF KeysKept
  <2>3. editing'.at = "delete"
    BY <2>1 DEF IInv, TypeOK
  <2>4. QED
    BY <2>1, <2>2, <2>3
<1>14. QED
  BY <1>10, <1>11, <1>12, <1>13 DEF TimePasses

\* Nor do the statements of a cycle, until it is committed or undone.
LEMMA CycleKeepsKeys ==
    ASSUME IInv,
           \/ BeginCycle \/ ListDispatchableRuns
           \/ \E r \in RunIds :
                 \/ MarkExpiredRunFailed(r) \/ findNoExecutor(r) \/ UpdateRun(r)
                 \/ \E e \in Executors, sent \in BOOLEAN : claimAndDispatch(r, e, sent)
    PROVE  /\ KeysKept(run, run') /\ KeysKept(Viewed, Viewed')
           /\ UNCHANGED <<time, job, editing>>
           /\ tx'.jobs = tx.jobs /\ tx'.job = tx.job
           /\ \/ engine'.picked = {} /\ engine'.now = time
              \/ /\ engine'.picked = engine.picked /\ engine'.fresh = engine.fresh
                 /\ engine'.now = engine.now
<1>0. tx \in TxType /\ engine \in EngineType
  BY DEF IInv, TypeOK, TxType, EngineType
<1>1. UNCHANGED <<time, job, editing, run>>
  BY DEF BeginCycle, ListDispatchableRuns, MarkExpiredRunFailed, findNoExecutor, UpdateRun,
         claimAndDispatch, executorVars
<1>2. KeysKept(run, run')
  BY <1>1 DEF KeysKept
<1>3. \/ engine'.picked = {} /\ engine'.now = time
      \/ /\ engine'.picked = engine.picked /\ engine'.fresh = engine.fresh
         /\ engine'.now = engine.now
  <2> DEFINE same == /\ engine'.picked = engine.picked /\ engine'.fresh = engine.fresh
                     /\ engine'.now = engine.now
  <2>1. CASE BeginCycle
    BY <2>1 DEF BeginCycle, Idle
  <2>2. CASE ListDispatchableRuns
    <3>1. PICK T, expired : engine' = [engine EXCEPT !.phase = "dispatch", !.runs = T \ expired,
                                                    !.expired = expired]
      BY <2>2 DEF ListDispatchableRuns
    <3>2. QED
      BY <1>0, <3>1 DEF EngineType
  <2>3. ASSUME NEW r \in RunIds,
               \/ MarkExpiredRunFailed(r) \/ UpdateRun(r)
               \/ \E e \in Executors, sent \in BOOLEAN : claimAndDispatch(r, e, sent)
        PROVE  same
    BY <1>0, <2>3 DEF MarkExpiredRunFailed, UpdateRun, claimAndDispatch, EngineType
  <2>4. ASSUME NEW r \in RunIds, findNoExecutor(r) PROVE same
    <3>1. \/ engine' = [engine EXCEPT !.runs = @ \ {r}, !.unclaimed = {r}, !.row = View(r)]
          \/ engine' = [engine EXCEPT !.runs = @ \ {r}]
      BY <2>4 DEF findNoExecutor
    <3>2. QED
      BY <1>0, <3>1 DEF EngineType
  <2>5. QED
    BY <2>1, <2>2, <2>3, <2>4
<1>4. ASSUME tx' = tx
      PROVE  KeysKept(Viewed, Viewed') /\ tx'.jobs = tx.jobs /\ tx'.job = tx.job
  BY <1>2, <1>4, OutsideKeepsKeys
<1>5. ASSUME NEW t \in TxType, t.runs = tx.runs, t.run = tx.run, t.jobs = tx.jobs, t.job = tx.job,
             NEW r \in RunIds, NEW row \in RunRow, tx' = WriteRun(t, r, row),
             View(r).status # "absent" =>
                row.status # "absent" /\ row.job = View(r).job /\ row.moment = View(r).moment
      PROVE  KeysKept(Viewed, Viewed') /\ tx'.jobs = tx.jobs /\ tx'.job = tx.job
  <2>1. /\ tx'.runs = tx.runs \cup {r} /\ tx'.run = [tx.run EXCEPT ![r] = row]
        /\ tx'.jobs = tx.jobs /\ tx'.job = tx.job
    BY <1>5, WriteRunFacts
  <2>2. QED
    BY <1>1, <1>5, <2>1, TxKeepsKeys DEF IInv
<1>6. ASSUME NEW r \in RunIds, MarkExpiredRunFailed(r)
      PROVE  KeysKept(Viewed, Viewed') /\ tx'.jobs = tx.jobs /\ tx'.job = tx.job
  <2> DEFINE row == [View(r) EXCEPT !.status = "failed", !.leasedBy = 0, !.lease = 0]
  <2>1. View(r) \in RunRow
    BY ViewFacts DEF IInv
  <2>2. row \in RunRow
    <3>1. "failed" \in RunStatus /\ 0 \in Executors \cup {0} /\ 0 \in 0..LeaseTicks
      BY SchedulerAssumption DEF RunStatus
    <3>2. QED
      BY <2>1, <3>1, Zenon DEF RunRow
  <2>3. row.status = "failed" /\ row.job = View(r).job /\ row.moment = View(r).moment
    BY <2>1 DEF RunRow
  <2>4. tx' = tx \/ tx' = WriteRun(tx, r, row)
    BY <1>6 DEF MarkExpiredRunFailed
  <2> HIDE DEF row
  <2>5. QED
    BY <1>0, <1>4, <1>5, <2>2, <2>3, <2>4
<1>7. ASSUME NEW r \in RunIds, UpdateRun(r)
      PROVE  KeysKept(Viewed, Viewed') /\ tx'.jobs = tx.jobs /\ tx'.job = tx.job
  <2>1. /\ engine.row \in RunRow /\ Exists(engine.row)
        /\ engine.row.job = View(r).job /\ engine.row.moment = View(r).moment
    BY <1>0, <1>7 DEF EngineType, IInv, TablesInv, WritesBackItsOwn, UpdateRun
  <2>2. engine.row.status # "absent"
    BY <2>1 DEF Exists
  <2>3. tx' = tx \/ tx' = WriteRun(tx, r, engine.row)
    BY <1>7 DEF UpdateRun
  <2>4. QED
    BY <1>0, <1>4, <1>5, <2>1, <2>2, <2>3
<1>8. ASSUME NEW r \in RunIds, NEW e \in Executors, NEW sent \in BOOLEAN,
             claimAndDispatch(r, e, sent)
      PROVE  KeysKept(Viewed, Viewed') /\ tx'.jobs = tx.jobs /\ tx'.job = tx.job
  <2> DEFINE saved == SaveDispatchCursor(tx, View(r).job, e)
             claim == ClaimRun(View(r), e)
             row == IF sent THEN claim ELSE MarkRunDispatchFailed(claim)
  <2>1. View(r) \in RunRow /\ View(r).attempt <= MaxRetries + 1 /\ View(r).job \in Jobs
    BY ViewFacts DEF IInv, SoundRow, RunRow
  <2>2. /\ saved \in TxType /\ saved.runs = tx.runs /\ saved.run = tx.run
        /\ saved.jobs = tx.jobs /\ saved.job = tx.job
    BY <1>0, <2>1 DEF SaveDispatchCursor, TxType
  <2>3. Claimable(View(r)) =>
           /\ row \in RunRow /\ row.status # "absent"
           /\ row.job = View(r).job /\ row.moment = View(r).moment
    BY <2>1, ClaimFacts
  <2>4. IF Claimable(View(r)) THEN tx' = WriteRun(saved, r, row) ELSE tx' = saved
    BY <1>8 DEF claimAndDispatch
  <2> HIDE DEF saved, row
  <2>5. CASE Claimable(View(r))
    BY <1>5, <2>2, <2>3, <2>4, <2>5
  <2>6. CASE ~Claimable(View(r))
    <3>1. tx'.runs = tx.runs /\ tx'.run = tx.run /\ tx'.jobs = tx.jobs /\ tx'.job = tx.job
      BY <2>2, <2>4, <2>6
    <3>2. \A q \in RunIds : View(q)' = View(q)
      BY <1>1, <3>1 DEF View
    <3>3. QED
      BY <3>1, <3>2 DEF KeysKept, Viewed
  <2>7. QED
    BY <2>5, <2>6
<1>9. QED
  BY <1>1, <1>2, <1>3, <1>4, <1>6, <1>7, <1>8 DEF BeginCycle, ListDispatchableRuns, findNoExecutor

\* A due job is picked with the row that the engine sees.
LEMMA ReadMoments ==
    ASSUME IInv, MomentsInv, NEW k \in Jobs, readDueJob(k)
    PROVE  MomentsInv'
<1>0. engine \in EngineType
  BY DEF IInv, TypeOK, EngineType
<1>1. UNCHANGED <<time, job, run, tx, editing>> /\ engine'.now = engine.now
  BY <1>0 DEF readDueJob, EngineType
<1>2. /\ \A j \in Jobs : JobView(j)' = JobView(j)
      /\ Viewed' = Viewed
      /\ \A j : Edits(j)' <=> Edits(j)
  BY <1>1 DEF JobView, Viewed, View, Edits
<1>3. \/ engine'.picked = {}
      \/ engine'.picked = {k} /\ engine'.fresh = JobView(k) /\ Due(JobView(k), engine.now)
  BY <1>0 DEF readDueJob, EngineType
<1>4. CycleInv'
  BY <1>1, <1>3 DEF MomentsInv, CycleInv, Due
<1>5. NextInReach'
  <2>1. Cron \subseteq Jobs
    BY SchedulerAssumption
  <2>2. QED
    BY <1>1, <1>2, <2>1 DEF MomentsInv, NextInReach
<1>6. EngineCovers'
  <2> SUFFICES ASSUME NEW j \in Cron, job[j].status = "present"
               PROVE  /\ Covered(Viewed, j, job[j].next, JobView(j).next)
                      /\ j \in engine'.picked => Covered(Viewed, j, job[j].next, engine'.fresh.next)
    BY <1>1, <1>2, SchedulerAssumption DEF EngineCovers
  <2>1. Covered(Viewed, j, job[j].next, JobView(j).next)
    BY DEF MomentsInv, EngineCovers
  <2>2. QED
    BY <1>3, <2>1
<1>7. EditCovers'
  <2> SUFFICES ASSUME NEW j \in Cron, Edits(j)
               PROVE  /\ Covered(Viewed, j, editing.row.next, JobView(j).next)
                      /\ j \in engine'.picked =>
                            Covered(Viewed, j, editing.row.next, engine'.fresh.next)
                      /\ Covered(run, j, editing.row.next, job[j].next)
    BY <1>1, <1>2, SchedulerAssumption DEF EditCovers
  <2>1. /\ Covered(Viewed, j, editing.row.next, JobView(j).next)
        /\ Covered(run, j, editing.row.next, job[j].next)
    BY DEF MomentsInv, EditCovers
  <2>2. QED
    BY <1>3, <2>1
<1>8. QED
  BY <1>4, <1>5, <1>6, <1>7 DEF MomentsInv

\* The moment that is enqueued has a run, a new one or one that had its key, before
\* the schedule moves past it.
LEMMA EnqueueMoments ==
    ASSUME IInv, MomentsInv, NEW k \in Jobs, enqueueDueJob(k)
    PROVE  MomentsInv'
<1> DEFINE moment == engine.fresh.next
           next == computeNextSchedule(k, engine.fresh)
           advanced == IF JobView(k).status = "present" THEN WriteJob(tx, k, next) ELSE tx
<1>0. /\ tx \in TxType /\ engine \in EngineType /\ engine.picked = {k}
      /\ engine.fresh \in JobRow /\ moment \in 0..MaxTime
  <2>1. /\ tx \in TxType /\ engine \in EngineType /\ engine.picked = {k}
    BY DEF IInv, TypeOK, TxType, EngineType, enqueueDueJob
  <2>2. QED
    BY <2>1, SchedulerAssumption DEF EngineType, DueRow, JobRow
<1>1. UNCHANGED <<time, job, run, editing>> /\ engine'.now = engine.now /\ engine'.picked = {}
  BY <1>0 DEF enqueueDueJob, EngineType
<1>2. engine.fresh.status = "present" /\ moment \in Nat /\ moment > 0 /\ moment <= engine.now
  <2>1. engine.fresh.status = "present" /\ moment \in 1..engine.now
    BY <1>0 DEF MomentsInv, CycleInv
  <2>2. QED
    BY <2>1, NextsAreNat DEF IInv
<1>3. next \in JobRow /\ next.status = "present" /\ (k \in Cron => next.next = moment + 1)
  <2>1. moment + 1 \in 0..MaxTime + 1 /\ 0 \in 0..MaxTime + 1
    BY <1>0, SchedulerAssumption
  <2>2. QED
    BY <1>0, <1>2, <2>1 DEF computeNextSchedule, JobRow
<1> HIDE DEF next
<1>4. /\ advanced \in TxType /\ advanced.runs = tx.runs /\ advanced.run = tx.run
      /\ \/ advanced.jobs = tx.jobs /\ advanced.job = tx.job
         \/ advanced.jobs = tx.jobs \cup {k} /\ advanced.job = [tx.job EXCEPT ![k] = next]
  BY <1>0, <1>3 DEF WriteJob, TxType
<1>5. /\ KeysKept(Viewed, Viewed') /\ HasRun(Viewed', k, moment)
      /\ tx'.jobs = advanced.jobs /\ tx'.job = advanced.job
  <2>1. CASE CreateRunIfNotExists(k, moment)
    <3> DEFINE row == NewRun(k, moment)
    <3>1. PICK r \in RunIds : FreshId(r) /\ tx' = WriteRun(advanced, r, row)
      BY <2>1 DEF enqueueDueJob, next
    <3>2. row \in RunRow /\ row.status = "pending" /\ row.job = k /\ row.moment = moment
      BY <1>0, NewRunFacts DEF IInv
    <3> HIDE DEF row, advanced
    <3>3. /\ tx'.runs = tx.runs \cup {r} /\ tx'.run = [tx.run EXCEPT ![r] = row]
          /\ tx'.jobs = advanced.jobs /\ tx'.job = advanced.job
      BY <1>4, <3>1, <3>2, WriteRunFacts
    <3>4. View(r).status = "absent"
      BY <3>1 DEF FreshId, UnusedIds, View
    <3>5. KeysKept(Viewed, Viewed') /\ View(r)' = row
      BY <1>1, <3>3, <3>4, TxKeepsKeys DEF IInv
    <3>6. Viewed'[r] = row
      BY <3>5 DEF Viewed
    <3>7. QED
      BY <3>2, <3>3, <3>5, <3>6 DEF HasRun
  <2>2. CASE ~CreateRunIfNotExists(k, moment)
    <3>1. tx' = advanced
      BY <2>2 DEF enqueueDueJob, next
    <3> HIDE DEF advanced
    <3>2. \A q \in RunIds : View(q)' = View(q) /\ Viewed'[q] = View(q) /\ Viewed[q] = View(q)
      BY <1>1, <1>4, <3>1 DEF View, Viewed
    <3>3. KeysKept(Viewed, Viewed')
      BY <3>2 DEF KeysKept
    <3>4. HasRun(Viewed', k, moment)
      BY <2>2, <3>2 DEF CreateRunIfNotExists, Exists, HasRun
    <3>5. QED
      BY <3>1, <3>3, <3>4
  <2>3. QED
    BY <2>1, <2>2
<1> HIDE DEF advanced
<1>6. ASSUME NEW j \in Jobs
      PROVE  \/ JobView(j)' = JobView(j)
             \/ j = k /\ JobView(j)' = next
  <2>1. CASE tx'.jobs = tx.jobs /\ tx'.job = tx.job
    BY <1>1, <2>1 DEF JobView
  <2>2. CASE tx'.jobs = tx.jobs \cup {k} /\ tx'.job = [tx.job EXCEPT ![k] = next]
    <3>1. \A q \in Jobs : tx'.job[q] = IF q = k THEN next ELSE tx.job[q]
      BY <1>0, <2>2 DEF TxType
    <3>2. QED
      BY <1>1, <2>2, <3>1 DEF JobView
  <2>3. QED
    BY <1>4, <1>5, <2>1, <2>2
<1>7. CycleInv'
  <2>1. \A j \in tx'.jobs : tx'.job[j].status = "present"
    BY <1>0, <1>3, <1>4, <1>5 DEF MomentsInv, CycleInv, TxType
  <2>2. QED
    BY <1>1, <2>1 DEF MomentsInv, CycleInv
<1>8. \A j : Edits(j)' <=> Edits(j)
  BY <1>1 DEF Edits
<1>9. NextInReach'
  <2>1. ASSUME NEW j \in Cron PROVE JobView(j)'.next <= time + 1
    <3>1. CASE JobView(j)' = JobView(j)
      BY <3>1 DEF MomentsInv, NextInReach
    <3>2. CASE j = k /\ JobView(j)' = next
      BY <1>2, <1>3, <3>2, NextsAreNat DEF MomentsInv, CycleInv, IInv
    <3>3. QED
      BY <1>6, <3>1, <3>2, SchedulerAssumption
  <2>2. QED
    BY <1>1, <1>8, <2>1 DEF MomentsInv, NextInReach
<1>10. ASSUME NEW j \in Cron, NEW from \in Nat,
              Covered(Viewed, j, from, JobView(j).next),
              j \in engine.picked => Covered(Viewed, j, from, engine.fresh.next)
       PROVE  Covered(Viewed', j, from, JobView(j)'.next)
  <2>1. CASE JobView(j)' = JobView(j)
    BY <1>5, <1>10, <2>1, CoverKept
  <2>2. CASE j = k /\ JobView(j)' = next
    <3>1. Covered(Viewed, j, from, moment)
      BY <1>0, <1>10, <2>2
    <3>2. Covered(Viewed', j, from, moment)
      BY <1>5, <3>1, CoverKept
    <3>3. QED
      BY <1>2, <1>3, <1>5, <2>2, <3>2, CoverOneMore
  <2>3. QED
    BY <1>6, <2>1, <2>2, SchedulerAssumption
<1>11. EngineCovers'
  <2> SUFFICES ASSUME NEW j \in Cron, job[j].status = "present"
               PROVE  Covered(Viewed', j, job[j].next, JobView(j)'.next)
    BY <1>1 DEF EngineCovers
  <2>1. job[j].next \in Nat
    BY NextsAreNat DEF IInv
  <2>2. QED
    BY <1>10, <2>1 DEF MomentsInv, EngineCovers
<1>12. EditCovers'
  <2> SUFFICES ASSUME NEW j \in Cron, Edits(j)
               PROVE  /\ Covered(Viewed', j, editing.row.next, JobView(j)'.next)
                      /\ Covered(run, j, editing.row.next, job[j].next)
    BY <1>1, <1>8 DEF EditCovers
  <2>1. editing.row.next \in Nat
    BY NextsAreNat DEF IInv
  <2>2. QED
    BY <1>10, <2>1 DEF MomentsInv, EditCovers
<1>13. QED
  BY <1>7, <1>9, <1>11, <1>12 DEF MomentsInv

\* A commit leaves the committed rows as the engine saw them; an abort leaves the
\* engine the committed rows.
LEMMA EndMoments ==
    ASSUME IInv, MomentsInv, Commit \/ Undone
    PROVE  MomentsInv' /\ (job' # job => run' = Viewed /\ job' = [j \in Jobs |-> JobView(j)])
<1>0. /\ UNCHANGED <<time, editing>> /\ tx' = NoTx /\ engine' = Idle
      /\ tx'.jobs = {} /\ tx'.runs = {} /\ engine'.picked = {} /\ engine'.now = 0
  BY DEF Commit, Undone, NoTx, Idle
<1>1. /\ \A r \in RunIds : View(r)' = run'[r]
      /\ \A j \in Jobs : JobView(j)' = job'[j]
      /\ \A j : Edits(j)' <=> Edits(j)
  BY <1>0 DEF View, JobView, Edits
<1>2. CycleInv'
  BY <1>0, NextsAreNat DEF CycleInv, IInv
<1>3. \/ run' = Viewed /\ job' = [j \in Jobs |-> JobView(j)]
      \/ run' = run /\ job' = job
  BY DEF Commit, Undone, Viewed
<1>4. NextInReach'
  <2>1. ASSUME NEW j \in Cron PROVE job'[j].next <= time + 1
    BY <1>3, SchedulerAssumption DEF MomentsInv, NextInReach
  <2>2. ASSUME NEW j \in Jobs, Edits(j) PROVE job'[j].status # "absent"
    BY <1>3, <2>2 DEF MomentsInv, NextInReach, CycleInv, JobView
  <2>3. QED
    BY <1>0, <1>1, <2>1, <2>2, SchedulerAssumption DEF MomentsInv, NextInReach
<1>5. \A j \in Jobs : job'[j].next \in Nat
  BY <1>3, NextsAreNat DEF IInv
<1>6. EngineCovers'
  <2> SUFFICES ASSUME NEW j \in Cron
               PROVE  Covered(Viewed', j, job'[j].next, JobView(j)'.next)
    BY <1>0 DEF EngineCovers
  <2>1. QED
    BY <1>1, <1>5, CoverNothing, SchedulerAssumption
<1>7. KeysKept(run', Viewed')
  BY <1>1 DEF KeysKept, Viewed
<1>8. EditCovers'
  <2>1. ASSUME NEW j \in Cron, Edits(j)
        PROVE  Covered(run', j, editing.row.next, job'[j].next)
    BY <1>3, <2>1, SchedulerAssumption DEF MomentsInv, EditCovers
  <2>2. ASSUME NEW j \in Cron, Edits(j)
        PROVE  Covered(Viewed', j, editing.row.next, job'[j].next)
    BY <1>7, <2>1, <2>2, CoverKept
  <2>3. QED
    BY <1>0, <1>1, <2>1, <2>2, SchedulerAssumption DEF EditCovers
<1>9. QED
  BY <1>2, <1>3, <1>4, <1>6, <1>8 DEF MomentsInv

\* A row of a cron job that is created or edited is due next at the next moment.
LEMMA RequestMoments ==
    ASSUME IInv, MomentsInv, NEW k \in Jobs, CreateJob(k) \/ SetJobEnabled(k) \/ UpdateJob(k)
    PROVE  MomentsInv'
<1>0. /\ UNCHANGED <<time, run, tx, engine>> /\ time \in Nat
      /\ KeysKept(Viewed, Viewed')
      /\ \A j \in Jobs : job[j] \in JobRow /\ job[j].next \in Nat /\ JobView(j).next \in Nat
      /\ Cron \subseteq Jobs
  <2>1. UNCHANGED <<time, run, tx, engine>>
    BY DEF CreateJob, SetJobEnabled, UpdateJob, ReadForEdit, engineVars
  <2>2. Viewed' = Viewed
    BY <2>1 DEF Viewed, View
  <2>3. QED
    BY <2>1, <2>2, NextsAreNat DEF IInv, KeysKept
<1>1. Viewed' = Viewed
  BY <1>0 DEF Viewed, View
<1>2. engine.now <= time /\ engine.now \in Nat
  BY NextsAreNat DEF IInv, MomentsInv, CycleInv
<1>3. CASE CreateJob(k)
  <2>1. /\ job[k].status = "absent" /\ editing' = editing
        /\ \A j \in Jobs : j # k => job'[j] = job[j]
    BY <1>3 DEF CreateJob, executorVars, engineVars
  <2>2. k \in Cron => job'[k].next = time + 1
    BY <1>3 DEF CreateJob, InitialMoments, IInv, TypeOK
  <2>3. /\ \A j \in Jobs : j # k => JobView(j)' = JobView(j)
        /\ JobView(k)' \in {job'[k], JobView(k)}
        /\ \A j : Edits(j)' <=> Edits(j)
        /\ ~Edits(k)
    BY <1>0, <2>1 DEF JobView, Edits, MomentsInv, NextInReach
  <2>4. k \in Cron => JobView(k)'.next <= time + 1 /\ JobView(k)'.next \in Nat
    BY <1>0, <2>2, <2>3 DEF MomentsInv, NextInReach
  <2>5. CycleInv'
    BY <1>0 DEF MomentsInv, CycleInv
  <2>6. NextInReach'
    <3>1. ASSUME NEW j \in Cron
          PROVE  job'[j].next <= time + 1 /\ JobView(j)'.next <= time + 1
      BY <1>0, <2>1, <2>2, <2>3, <2>4, <3>1 DEF MomentsInv, NextInReach
    <3>2. QED
      BY <1>0, <2>1, <2>3, <3>1 DEF MomentsInv, NextInReach
  <2>7. EngineCovers'
    <3> SUFFICES ASSUME NEW j \in Cron, job'[j].status = "present"
                 PROVE  /\ Covered(Viewed, j, job'[j].next, JobView(j)'.next)
                        /\ j \in engine.picked => Covered(Viewed, j, job'[j].next, engine.fresh.next)
      BY <1>0, <1>1 DEF EngineCovers
    <3>1. CASE j = k
      <4>1. Covered(Viewed, j, job'[j].next, JobView(j)'.next)
        BY <1>0, <2>2, <2>4, <3>1, CoverNothing
      <4>2. ASSUME j \in engine.picked
            PROVE  Covered(Viewed, j, job'[j].next, engine.fresh.next)
        <5>1. engine.fresh.next \in 1..engine.now
          BY <4>2 DEF MomentsInv, CycleInv
        <5>2. engine.fresh.next \in Nat /\ engine.fresh.next <= time + 1
          BY <1>0, <1>2, <5>1
        <5>3. QED
          BY <1>0, <2>2, <3>1, <5>2, CoverNothing
      <4>3. QED
        BY <4>1, <4>2
    <3>2. CASE j # k
      BY <1>0, <2>1, <2>3, <3>2 DEF MomentsInv, EngineCovers
    <3>3. QED
      BY <3>1, <3>2
  <2>8. EditCovers'
    <3> SUFFICES ASSUME NEW j \in Cron, Edits(j), j # k
                 PROVE  /\ Covered(Viewed, j, editing.row.next, JobView(j)'.next)
                        /\ j \in engine.picked =>
                              Covered(Viewed, j, editing.row.next, engine.fresh.next)
                        /\ Covered(run, j, editing.row.next, job'[j].next)
      BY <1>0, <1>1, <2>1, <2>3 DEF EditCovers
    <3>1. QED
      BY <1>0, <2>1, <2>3 DEF MomentsInv, EditCovers
  <2>9. QED
    BY <2>5, <2>6, <2>7, <2>8 DEF MomentsInv
<1>4. CASE SetJobEnabled(k) \/ UpdateJob(k)
  <2>1. PICK row : /\ ReadForEdit(k, row)
                   /\ k \in Cron => row.next \in {job[k].next, time + 1}
    <3>1. \A en \in BOOLEAN : [job[k] EXCEPT !.enabled = en].next = job[k].next
      BY <1>0 DEF JobRow
    <3>2. \A en \in BOOLEAN : \A m : [job[k] EXCEPT !.enabled = en, !.next = m].next = m
      BY <1>0 DEF JobRow
    <3>3. QED
      BY <1>4, <3>1, <3>2 DEF SetJobEnabled, UpdateJob, InitialMoments
  <2>2. /\ job' = job /\ job[k].status = "present"
        /\ editing' = [at |-> "write", job |-> k, row |-> row]
    BY <2>1 DEF ReadForEdit
  <2>3. /\ \A j : Edits(j)' <=> j = k
        /\ editing'.row = row
        /\ \A j \in Jobs : JobView(j)' = JobView(j)
    BY <1>0, <2>2 DEF Edits, JobView
  <2>4. CycleInv'
    BY <1>0 DEF MomentsInv, CycleInv
  <2>5. NextInReach'
    <3>1. k \in Cron => row.next <= time + 1
      BY <1>0, <2>1 DEF MomentsInv, NextInReach
    <3>2. QED
      BY <1>0, <2>2, <2>3, <3>1 DEF MomentsInv, NextInReach
  <2>6. EngineCovers'
    BY <1>0, <1>1, <2>2, <2>3 DEF MomentsInv, EngineCovers
  <2>7. EditCovers'
    <3> SUFFICES ASSUME k \in Cron
                 PROVE  /\ Covered(Viewed, k, row.next, JobView(k).next)
                        /\ k \in engine.picked => Covered(Viewed, k, row.next, engine.fresh.next)
                        /\ Covered(run, k, row.next, job[k].next)
      BY <1>0, <1>1, <2>2, <2>3 DEF EditCovers
    <3>1. CASE row.next = job[k].next
      BY <1>0, <2>2, <3>1, CoverNothing DEF MomentsInv, EngineCovers
    <3>2. CASE row.next = time + 1
      <4>1. JobView(k).next <= time + 1 /\ job[k].next <= time + 1
        BY DEF MomentsInv, NextInReach
      <4>2. ASSUME k \in engine.picked
            PROVE  engine.fresh.next \in Nat /\ engine.fresh.next <= time + 1
        <5>1. engine.fresh.next \in 1..engine.now
          BY <4>2 DEF MomentsInv, CycleInv
        <5>2. QED
          BY <1>0, <1>2, <5>1
      <4>3. time + 1 \in Nat
        BY <1>0
      <4>4. QED
        BY <1>0, <3>2, <4>1, <4>2, <4>3, CoverNothing
    <3>3. QED
      BY <2>1, <3>1, <3>2
  <2>8. QED
    BY <2>4, <2>5, <2>6, <2>7 DEF MomentsInv
<1>5. QED
  BY <1>3, <1>4

\* A row that is written back may set the schedule back, but only to a moment from
\* which on every moment has its run.
LEMMA WriteBackMoments ==
    ASSUME IInv, MomentsInv, WriteJobBack \/ DeleteJob
    PROVE  MomentsInv'
<1>k. PICK k \in Jobs : k = editing.job
  BY NextsAreNat DEF IInv
<1>0. /\ UNCHANGED <<time, run, tx, engine>> /\ editing' = NoEdit /\ editing'.at = "none"
      /\ Cron \subseteq Jobs /\ time \in Nat
      /\ \A j \in Jobs : job[j].next \in Nat
  BY NextsAreNat DEF WriteJobBack, DeleteJob, engineVars, NoEdit, IInv
<1>1. Viewed' = Viewed /\ \A j : ~Edits(j)'
  BY <1>0 DEF Viewed, View, Edits
<1>2. PICK row \in JobRow :
         /\ \/ row = editing.row /\ Edits(k)
            \/ row.next = 0 /\ row.status = "deleted"
         /\ \/ job' = job
            \/ job' = [job EXCEPT ![k] = row] /\ k \notin tx.jobs
  <2>1. CASE WriteJobBack
    <3>1. editing.row \in JobRow
      BY DEF IInv, TypeOK
    <3>2. QED
      BY <1>k, <2>1, <3>1 DEF WriteJobBack, Edits
  <2>2. CASE DeleteJob
    <3>1. LET gone == [NoJob EXCEPT !.status = "deleted"]
          IN  gone \in JobRow /\ gone.next = 0 /\ gone.status = "deleted"
      BY EmptyRows DEF JobRow, NoJob
    <3>2. QED
      BY <1>k, <2>2, <3>1 DEF DeleteJob
  <2>3. QED
    BY <2>1, <2>2
<1>3. /\ \A j \in Jobs : j # k => job'[j] = job[j] /\ JobView(j)' = JobView(j)
      /\ \/ job'[k] = job[k] /\ JobView(k)' = JobView(k)
         \/ job'[k] = row /\ JobView(k)' = row
  <2>1. job \in [Jobs -> JobRow]
    BY DEF IInv, TypeOK
  <2>2. QED
    BY <1>0, <1>2, <2>1 DEF JobView
<1>4. CycleInv'
  BY <1>0 DEF MomentsInv, CycleInv
<1>5. NextInReach'
  <2>1. ASSUME NEW j \in Cron
        PROVE  job'[j].next <= time + 1 /\ JobView(j)'.next <= time + 1
    <3>1. CASE job'[j] = job[j] /\ JobView(j)' = JobView(j)
      BY <3>1 DEF MomentsInv, NextInReach
    <3>2. CASE j = k /\ job'[k] = row /\ JobView(k)' = row
      <4>1. row.next <= time + 1
        BY <1>0, <1>2, <3>2 DEF MomentsInv, NextInReach
      <4>2. QED
        BY <3>2, <4>1
    <3>3. QED
      BY <1>0, <1>3, <3>1, <3>2
  <2>2. QED
    BY <1>0, <1>1, <2>1 DEF NextInReach
<1>6. EngineCovers'
  <2> SUFFICES ASSUME NEW j \in Cron, job'[j].status = "present"
               PROVE  /\ Covered(Viewed, j, job'[j].next, JobView(j)'.next)
                      /\ j \in engine.picked => Covered(Viewed, j, job'[j].next, engine.fresh.next)
    BY <1>0, <1>1 DEF EngineCovers
  <2>1. CASE job'[j] = job[j] /\ JobView(j)' = JobView(j)
    BY <2>1 DEF MomentsInv, EngineCovers
  <2>2. CASE j = k /\ job'[k] = row /\ JobView(k)' = row
    <3>1. row.next \in Nat
      BY SchedulerAssumption DEF JobRow
    <3>2. Covered(Viewed, j, job'[j].next, JobView(j)'.next)
      BY <2>2, <3>1, CoverNothing
    <3>3. ASSUME j \in engine.picked
          PROVE  Covered(Viewed, j, row.next, engine.fresh.next)
      BY <1>2, <2>2, <3>3 DEF MomentsInv, EditCovers
    <3>4. QED
      BY <2>2, <3>2, <3>3
  <2>3. QED
    BY <1>0, <1>3, <2>1, <2>2
<1>7. EditCovers'
  BY <1>1 DEF EditCovers
<1>8. QED
  BY <1>4, <1>5, <1>6, <1>7 DEF MomentsInv

\* At first there is no job and nothing is edited.
LEMMA MomentsInit == Init => MomentsInv
<1> SUFFICES ASSUME Init PROVE MomentsInv
  OBVIOUS
<1>1. /\ time = 0 /\ tx.jobs = {} /\ engine.picked = {} /\ engine.now = 0
      /\ editing.at = "none" /\ \A j \in Jobs : job[j] = NoJob
  BY DEF Init, NoTx, Idle, NoEdit
<1>2. \A j \in Jobs : JobView(j) = NoJob
  BY <1>1 DEF JobView
<1>3. NoJob.next = 0 /\ NoJob.status = "absent" /\ Cron \subseteq Jobs
  BY SchedulerAssumption DEF NoJob
<1>4. QED
  BY <1>1, <1>2, <1>3 DEF MomentsInv, CycleInv, NextInReach, EngineCovers, EditCovers, Edits

\* Every step of the engine, an executor, an administrator or the clock keeps it.
LEMMA MomentsNext == IInv /\ IInv' /\ MomentsInv /\ [Next]_vars => MomentsInv'
<1> SUFFICES ASSUME IInv, IInv', MomentsInv, [Next]_vars PROVE MomentsInv'
  OBVIOUS
<1>0. time \in Nat /\ engine.now <= time
  BY NextsAreNat DEF IInv, MomentsInv, CycleInv
<1>1. CASE UNCHANGED vars
  <2>1. UNCHANGED <<time, job, run, tx, engine, editing>>
    BY <1>1 DEF vars, engineVars
  <2>2. KeysKept(run, run') /\ time' >= time /\ engine'.now <= time'
    BY <1>0, <2>1 DEF KeysKept
  <2>3. QED
    BY <2>1, <2>2, OutsideKeepsKeys, SchedulesKept
<1>2. CASE \/ TimePasses \/ DeleteCursor
           \/ \E j \in Jobs : TriggerNow(j) \/ DeleteRuns(j)
           \/ \E e \in Executors : ExecutorStep(e)
  <2>1. /\ KeysKept(run, run') /\ tx' = tx /\ engine' = engine /\ job' = job
        /\ time' >= time
        /\ editing' = editing \/ editing'.at # "write"
    BY <1>2, RunsKeepKeys
  <2>2. time' \in Nat
    BY SchedulerAssumption DEF IInv, TypeOK
  <2>3. engine'.now <= time'
    BY <1>0, <2>1, <2>2, NextsAreNat DEF IInv
  <2>4. QED
    BY <2>1, <2>3, OutsideKeepsKeys, SchedulesKept
<1>3. CASE \/ BeginCycle \/ ListDispatchableRuns
           \/ \E r \in RunIds :
                 \/ MarkExpiredRunFailed(r) \/ findNoExecutor(r) \/ UpdateRun(r)
                 \/ \E e \in Executors, sent \in BOOLEAN : claimAndDispatch(r, e, sent)
  <2>1. /\ KeysKept(run, run') /\ KeysKept(Viewed, Viewed')
        /\ UNCHANGED <<time, job, editing>>
        /\ tx'.jobs = tx.jobs /\ tx'.job = tx.job
        /\ \/ engine'.picked = {} /\ engine'.now = time
           \/ /\ engine'.picked = engine.picked /\ engine'.fresh = engine.fresh
              /\ engine'.now = engine.now
    BY <1>3, CycleKeepsKeys
  <2>2. engine'.now <= time' /\ time' >= time
    BY <1>0, <2>1
  <2>3. QED
    BY <2>1, <2>2, SchedulesKept
<1>4. CASE EngineStep
  BY <1>3, <1>4, ReadMoments, EnqueueMoments, EndMoments, Undoes DEF EngineStep
<1>5. CASE EngineFailure
  BY <1>3, <1>5, EndMoments, Undoes DEF EngineFailure
<1>6. CASE Administration
  BY <1>2, <1>6, RequestMoments, WriteBackMoments DEF Administration
<1>7. QED
  BY <1>1, <1>2, <1>4, <1>5, <1>6 DEF Next

\* A commit is the only step that moves a schedule on without a request.
LEMMA OnlyCommitMoves ==
    ASSUME IInv, MomentsInv, [Next]_vars, NEW j \in Jobs,
           job[j].status = "present", job'[j] # job[j], editing' = editing
    PROVE  run' = Viewed /\ job' = [k \in Jobs |-> JobView(k)]
<1>1. job' # job /\ ~UNCHANGED vars
  BY DEF vars
<1>2. CASE Commit \/ Undone
  BY <1>1, <1>2, EndMoments
<1>3. CASE TimePasses \/ DeleteCursor \/ (\E k \in Jobs : TriggerNow(k) \/ DeleteRuns(k))
           \/ \E e \in Executors : ExecutorStep(e)
  BY <1>1, <1>3, RunsKeepKeys
<1>4. CASE \/ BeginCycle \/ ListDispatchableRuns
           \/ \E r \in RunIds :
                 \/ MarkExpiredRunFailed(r) \/ findNoExecutor(r) \/ UpdateRun(r)
                 \/ \E e \in Executors, sent \in BOOLEAN : claimAndDispatch(r, e, sent)
  BY <1>1, <1>4, CycleKeepsKeys
<1>5. CASE \E k \in Jobs : readDueJob(k) \/ enqueueDueJob(k)
  BY <1>1, <1>5 DEF readDueJob, enqueueDueJob
<1>6. ASSUME NEW k \in Jobs, CreateJob(k) \/ SetJobEnabled(k) \/ UpdateJob(k)
      PROVE  FALSE
  <2>1. CreateJob(k)
    BY <1>1, <1>6 DEF SetJobEnabled, UpdateJob, ReadForEdit
  <2>2. k # j /\ \A q \in Jobs : q # k => job'[q] = job[q]
    BY <2>1 DEF CreateJob, IInv, TypeOK
  <2>3. QED
    BY <2>2
<1>7. CASE WriteJobBack \/ DeleteJob
  BY <1>7 DEF WriteJobBack, DeleteJob, NoEdit
<1>8. QED
  BY <1>1, <1>2, <1>3, <1>4, <1>5, <1>6, <1>7, Undoes
     DEF Next, EngineStep, EngineFailure, Administration

\* The engine moves a cron schedule past no moment that has no run, though it writes
\* a row back that was edited since, and requests write back rows it has moved on.
THEOREM MomentsHaveRuns == Spec => NoMomentLost
<1> DEFINE A == \A j \in Cron :
                   /\ job[j].status = "present" /\ job[j].next > 0
                   /\ job'[j].status = "present" /\ job'[j].next > job[j].next
                   /\ editing' = editing
                   => \A m \in job[j].next..(job'[j].next - 1) :
                         \E r \in RunIds : run'[r].job = j /\ run'[r].moment = m
<1>1. IInv /\ MomentsInv /\ [Next]_vars => A
  <2> SUFFICES ASSUME IInv, MomentsInv, [Next]_vars, NEW j \in Cron,
                      job[j].status = "present", job[j].next > 0,
                      job'[j].next > job[j].next, editing' = editing,
                      NEW m \in job[j].next..(job'[j].next - 1)
               PROVE  \E r \in RunIds : run'[r].job = j /\ run'[r].moment = m
    OBVIOUS
  <2>1. j \in Jobs /\ job[j].next \in Nat /\ JobView(j).next \in Nat
    BY NextsAreNat DEF IInv
  <2>2. job'[j] # job[j]
    BY <2>1
  <2>3. run' = Viewed /\ job'[j] = JobView(j)
    BY <2>1, <2>2, OnlyCommitMoves
  <2>4. Covered(run', j, job[j].next, job'[j].next)
    BY <2>3 DEF MomentsInv, EngineCovers
  <2>5. m > 0
    BY <2>1, <2>3
  <2>6. QED
    BY <2>4, <2>5 DEF Covered, HasRun
<1>2. Spec => []MomentsInv
  BY Inductive, MomentsInit, MomentsNext, PTL DEF Spec
<1>3. [][A]_vars => NoMomentLost
  BY DEF NoMomentLost
<1>4. QED
  BY <1>1, <1>2, <1>3, Inductive, PTL DEF Spec

----------------------------------------------------------------------------
(* The moments of cron expressions.                                        *)

\* A set of numbers that is not empty has a least one: strict inclusion of the
\* segments 0..(n - 1), which are finite, is well-founded.
LEMMA LeastNumber ==
    ASSUME NEW S \in SUBSET Nat, S # {}
    PROVE  \E m \in S : \A k \in S : m <= k
<1> DEFINE Segment(m) == 0..(m - 1)
           All == {Segment(m) : m \in S}
<1>1. IsWellFoundedOn(StrictSubsetOrdering(Nat), FiniteSubsetsOf(Nat))
  BY FS_StrictSubsetOrderingWellFounded
<1>2. All \subseteq FiniteSubsetsOf(Nat)
  <2>1. \A m \in S : IsFiniteSet(Segment(m)) /\ Segment(m) \subseteq Nat
    BY FS_Interval
  <2> HIDE DEF Segment
  <2>2. QED
    BY <2>1 DEF FiniteSubsetsOf
<1>3. All # {}
  OBVIOUS
<1>4. PICK x \in All : \A y \in All : ~(<<y, x>> \in StrictSubsetOrdering(Nat))
  <2> HIDE DEF All
  <2>1. QED
    BY <1>1, <1>2, <1>3, WFMin
<1>5. PICK m \in S : x = Segment(m)
  OBVIOUS
<1>6. ASSUME NEW k \in S, k < m PROVE FALSE
  <2>1. Segment(k) \subseteq Segment(m) /\ Segment(k) # Segment(m)
    <3>1. k \in Segment(m) /\ k \notin Segment(k)
      BY <1>6
    <3>2. QED
      BY <1>6, <3>1
  <2>2. Segment(k) \in All /\ Segment(k) \subseteq Nat /\ Segment(m) \subseteq Nat
    OBVIOUS
  <2> HIDE DEF Segment
  <2>3. <<Segment(k), x>> \in StrictSubsetOrdering(Nat)
    BY <2>1, <2>2, <1>5 DEF StrictSubsetOrdering
  <2>4. QED
    BY <2>2, <2>3, <1>4
<1>7. QED
  BY <1>6

\* Induction, over a set of numbers.
LEMMA AllNumbers ==
    ASSUME NEW S \in SUBSET Nat, 0 \in S, \A n \in Nat : n \in S => n + 1 \in S
    PROVE  S = Nat
<1> SUFFICES ASSUME Nat \ S # {} PROVE FALSE
  OBVIOUS
<1>1. PICK m \in Nat \ S : \A k \in Nat \ S : m <= k
  BY LeastNumber
<1>2. m - 1 \in Nat /\ m - 1 \notin Nat \ S
  BY <1>1
<1>3. QED
  BY <1>1, <1>2

\* The minutes from a to b that an expression names.
Hits(s, a, b) == {u \in a..b : Matches(s, u)}

\* Until the search has passed its deadline it goes on to the next minute that
\* matches.
LEMMA SearchFinds ==
    ASSUME NEW s, NEW from \in Nat
    PROVE  LET t == nextCronTimeUTC(s, from)
               deadline == from + 1 + SearchedDays * MinutesPerDay
           IN  \/ t = NoMoment /\ Hits(s, from + 1, deadline) = {}
               \/ t \in (from + 1)..deadline /\ Hits(s, from + 1, t) = {t}
<1> DEFINE deadline == from + 1 + SearchedDays * MinutesPerDay
           D == (from + 1)..(deadline + 1)
           search[t \in D] ==
               IF t > deadline THEN NoMoment
               ELSE IF Matches(s, t) THEN t ELSE search[t + 1]
           Least(S) == CHOOSE m \in S : \A k \in S : m <= k
           Found(t) == IF Hits(s, t, deadline) = {} THEN NoMoment
                       ELSE Least(Hits(s, t, deadline))
           G == [t \in D |-> Found(t)]
           Step(f, t) == IF t > deadline THEN NoMoment
                         ELSE IF Matches(s, t) THEN t ELSE f[t + 1]
<1>1. deadline \in Nat /\ from + 1 <= deadline
  <2>1. SearchedDays \in Nat /\ MinutesPerHour \in Nat /\ HoursPerDay \in Nat
    BY CalendarAssumption
  <2>2. MinutesPerDay \in Nat
    BY <2>1 DEF MinutesPerDay
  <2>3. SearchedDays * MinutesPerDay \in Nat
    BY <2>1, <2>2
  <2> DEFINE minutes == SearchedDays * MinutesPerDay
  <2> HIDE DEF minutes
  <2>4. QED
    BY <2>3 DEF minutes
<1> HIDE DEF deadline
<1>2. ASSUME NEW S \in SUBSET Nat, S # {}
      PROVE  Least(S) \in S /\ \A k \in S : Least(S) <= k
  BY <1>2, LeastNumber
<1> HIDE DEF Least
<1>3. ASSUME NEW t \in D
      PROVE  Found(t) = IF t > deadline THEN NoMoment
                        ELSE IF Matches(s, t) THEN t ELSE Found(t + 1)
  <2> DEFINE H == Hits(s, t, deadline)
  <2>0. t \in Nat /\ H \in SUBSET Nat
    BY <1>1 DEF Hits
  <2>1. CASE t > deadline
    BY <2>0, <2>1, <1>1 DEF Hits
  <2>2. CASE t <= deadline /\ Matches(s, t)
    <3>1. t \in H /\ \A u \in H : t <= u
      BY <2>0, <2>2, <1>1 DEF Hits
    <3>2. Least(H) \in H /\ Least(H) <= t
      BY <2>0, <3>1, <1>2
    <3>3. Least(H) = t
      BY <2>0, <3>1, <3>2
    <3>4. QED
      BY <2>0, <2>2, <3>1, <3>3, <1>1
  <2>3. CASE t <= deadline /\ ~Matches(s, t)
    <3>1. H = Hits(s, t + 1, deadline)
      BY <2>0, <2>3, <1>1 DEF Hits
    <3>2. QED
      BY <2>0, <2>3, <3>1, <1>1
  <2>4. QED
    BY <2>0, <2>1, <2>2, <2>3, <1>1
<1>4. G = [t \in D |-> Step(G, t)]
  <2>1. ASSUME NEW t \in D PROVE Found(t) = Step(G, t)
    <3>1. t \in Nat /\ (t <= deadline => t + 1 \in D)
      BY <1>1
    <3> HIDE DEF Found, D
    <3>2. QED
      BY <3>1, <1>1, <1>3
  <2> HIDE DEF Found, Step
  <2>2. QED
    BY <2>1
<1>5. search = [t \in D |-> Step(search, t)]
  <2> HIDE DEF G
  <2>1. QED
    BY <1>4
<1> HIDE DEF search
<1>6. \A t \in D : search[t] = Found(t)
  <2> DEFINE Right == {n \in Nat : \A t \in D : deadline + 1 - t = n => search[t] = Found(t)}
  <2>1. 0 \in Right
    <3> SUFFICES ASSUME NEW t \in D, deadline + 1 - t = 0 PROVE search[t] = Found(t)
      OBVIOUS
    <3>1. t > deadline /\ t \in Nat
      BY <1>1
    <3>2. search[t] = NoMoment
      BY <3>1, <1>5
    <3>3. QED
      BY <3>1, <3>2, <1>3
  <2>2. ASSUME NEW n \in Nat, n \in Right PROVE n + 1 \in Right
    <3> SUFFICES ASSUME NEW t \in D, deadline + 1 - t = n + 1 PROVE search[t] = Found(t)
      OBVIOUS
    <3>1. t \in Nat /\ t + 1 \in D /\ t <= deadline /\ deadline + 1 - (t + 1) = n
      BY <1>1
    <3> HIDE DEF Found, D
    <3>2. search[t + 1] = Found(t + 1)
      BY <2>2, <3>1
    <3>3. search[t] = IF Matches(s, t) THEN t ELSE search[t + 1]
      BY <3>1, <1>5, <1>1
    <3>4. QED
      BY <3>1, <3>2, <3>3, <1>3, <1>1
  <2>3. Right = Nat
    <3> HIDE DEF Right
    <3>1. Right \in SUBSET Nat
      BY DEF Right
    <3>2. QED
      BY <2>1, <2>2, <3>1, AllNumbers
  <2>4. QED
    <3> SUFFICES ASSUME NEW t \in D PROVE search[t] = Found(t)
      OBVIOUS
    <3>1. deadline + 1 - t \in Nat
      BY <1>1
    <3>2. deadline + 1 - t \in Right
      <4> HIDE DEF Right
      <4>1. QED
        BY <2>3, <3>1
    <3> HIDE DEF Found, D
    <3>3. QED
      BY <3>2
<1>7. nextCronTimeUTC(s, from) = Found(from + 1)
  <2>1. nextCronTimeUTC(s, from) = search[from + 1]
    BY DEF nextCronTimeUTC, search, deadline
  <2>2. QED
    BY <2>1, <1>1, <1>6
<1>8. CASE Hits(s, from + 1, deadline) = {}
  BY <1>7, <1>8 DEF deadline
<1>9. CASE Hits(s, from + 1, deadline) # {}
  <2> DEFINE H == Hits(s, from + 1, deadline)
             t == nextCronTimeUTC(s, from)
  <2>1. H \in SUBSET Nat
    BY <1>1 DEF Hits
  <2>2. t = Least(H)
    BY <1>7, <1>9
  <2> HIDE DEF t
  <2>3. t \in H /\ \A u \in H : t <= u
    BY <1>2, <1>9, <2>1, <2>2
  <2>4. t \in (from + 1)..deadline /\ Hits(s, from + 1, t) = {t}
    BY <2>3, <1>1 DEF Hits
  <2>5. QED
    BY <2>4 DEF deadline, t
<1>10. QED
  BY <1>8, <1>9

\* The field of a parsed expression has values of its range.
LEMMA FieldsInRange ==
    ASSUME NEW min \in Nat, NEW max \in Nat, NEW field \in Fields(min, max)
    PROVE  field \subseteq min..max
<1>1. PICK a \in Segments(min, max), b \in Segments(min, max) : field = parseCronField({a, b})
  <2> DEFINE parsed(a, b) == parseCronField({a, b})
  <2>1. field \in {parsed(a, b) : a, b \in Segments(min, max)}
    BY DEF Fields
  <2> HIDE DEF parsed
  <2>2. PICK a, b \in Segments(min, max) : field = parsed(a, b)
    BY <2>1
  <2>3. QED
    BY <2>2 DEF parsed
<1>2. ASSUME NEW seg \in Segments(min, max)
      PROVE  addCronSegment(seg) \subseteq min..max
  BY DEF Segments, addCronSegment
<1>3. CASE field = Refused
  BY <1>3 DEF Refused
<1>4. CASE field = UNION {addCronSegment(seg) : seg \in {a, b}}
  <2> SUFFICES ASSUME NEW i \in field PROVE i \in min..max
    OBVIOUS
  <2>1. PICK seg \in {a, b} : i \in addCronSegment(seg)
    BY <1>4
  <2>2. QED
    BY <2>1, <1>2
<1>5. QED
  BY <1>1, <1>3, <1>4 DEF parseCronField

\* A field that has as many values as its range has has them all.
LEMMA FullField ==
    ASSUME NEW a \in Int, NEW n \in Nat, NEW field \in SUBSET (a..(a + n - 1))
    PROVE  Restricted(field, n) <=> field # a..(a + n - 1)
<1>1. IsFiniteSet(a..(a + n - 1)) /\ Cardinality(a..(a + n - 1)) = n
  BY FS_Interval
<1>2. Cardinality(a..(a + n - 1)) = Cardinality(field) => field = a..(a + n - 1)
  BY <1>1, FS_Subset
<1>3. QED
  BY <1>1, <1>2 DEF Restricted

\* The minutes that the calendar has.
InCalendar(t) == t \in Nat /\ day(t) + 1 \in 1..Len(Calendar)

\* In the calendar the minutes that match are those crontab names.
LEMMA MatchesAsNamed ==
    ASSUME NEW s \in parseCronSchedule, NEW t, InCalendar(t)
    PROVE  Matches(s, t) <=> t \in MomentsOf(s, {t})
<1>1. /\ MinutesPerHour \in Nat \ {0} /\ HoursPerDay \in Nat \ {0} /\ DaysPerWeek \in Nat \ {0}
      /\ MaxDay \in Nat /\ Calendar \in Seq((1..NumMonths) \X (1..MaxDay))
  BY CalendarAssumption
<1>2. s.doms \in SUBSET (1..MaxDay) /\ s.dows \in SUBSET (0..(DaysPerWeek - 1))
  <2>1. s.doms \in Fields(1, MaxDay) /\ s.dows \in Fields(0, DaysPerWeek - 1)
    BY DEF parseCronSchedule
  <2>2. DaysPerWeek - 1 \in Nat
    BY <1>1
  <2>3. QED
    BY <1>1, <2>1, <2>2, FieldsInRange
<1>3. dom(t) \in 1..MaxDay
  BY <1>1 DEF InCalendar, dom
<1>4. day(t) \in Nat
  <2>1. MinutesPerDay \in Nat \ {0}
    BY <1>1 DEF MinutesPerDay
  <2>2. QED
    BY <2>1 DEF InCalendar, day
<1>5. dow(t) \in 0..(DaysPerWeek - 1)
  BY <1>1, <1>4 DEF dow
<1>6. Restricted(s.doms, MaxDay) <=> s.doms # 1..MaxDay
  <2>1. 1 + MaxDay - 1 = MaxDay
    BY <1>1
  <2>2. QED
    BY <1>1, <1>2, <2>1, FullField
<1>7. Restricted(s.dows, DaysPerWeek) <=> s.dows # 0..(DaysPerWeek - 1)
  <2>1. 0 + DaysPerWeek - 1 = DaysPerWeek - 1
    BY <1>1
  <2>2. QED
    BY <1>1, <1>2, <2>1, FullField
<1> DEFINE inDoms == dom(t) \in s.doms
           inDows == dow(t) \in s.dows
<1>8. (s.doms = 1..MaxDay => inDoms) /\ (s.dows = 0..(DaysPerWeek - 1) => inDows)
  BY <1>3, <1>5
<1>9. DayMatches(s, inDoms, inDows) <=> Named(s, dom(t), dow(t))
  BY <1>6, <1>7, <1>8 DEF DayMatches, Named
<1>10. QED
  BY <1>9 DEF Matches, MomentsOf

\* What Reached defines: a search after the other.
InTurn(f, s, from, n) ==
    f = [k \in 0..n |-> IF k = 0 THEN from
                        ELSE IF f[k - 1] = NoMoment THEN NoMoment
                        ELSE nextCronTimeUTC(s, f[k - 1])]

\* There are n searches in turn, whatever they find.
LEMMA SearchesGoOn ==
    ASSUME NEW s, NEW from, NEW n \in Nat
    PROVE  \E f : InTurn(f, s, from, n)
<1> DEFINE Possible == {m \in Nat : \E f : InTurn(f, s, from, m)}
<1>1. 0 \in Possible
  <2>1. InTurn([k \in 0..0 |-> from], s, from, 0)
    BY DEF InTurn
  <2>2. QED
    BY <2>1
<1>2. ASSUME NEW m \in Nat, m \in Possible PROVE m + 1 \in Possible
  <2>1. PICK f : InTurn(f, s, from, m)
    BY <1>2
  <2> DEFINE after == IF f[m] = NoMoment THEN NoMoment ELSE nextCronTimeUTC(s, f[m])
             g == [k \in 0..(m + 1) |-> IF k = m + 1 THEN after ELSE f[k]]
             turn(h, k) == IF k = 0 THEN from
                           ELSE IF h[k - 1] = NoMoment THEN NoMoment
                           ELSE nextCronTimeUTC(s, h[k - 1])
  <2>2. \A k \in 0..m : g[k] = f[k] /\ f[k] = turn(f, k)
    BY <2>1 DEF InTurn
  <2>3. g[m + 1] = after
    OBVIOUS
  <2>4. ASSUME NEW k \in 0..(m + 1) PROVE g[k] = turn(g, k)
    <3>1. CASE k = 0
      <4>1. k \in 0..m
        BY <3>1
      <4>2. g[k] = f[k] /\ f[k] = turn(f, k)
        BY <2>2, <4>1
      <4> HIDE DEF g
      <4>3. QED
        BY <3>1, <4>2
    <3>2. CASE k \in 1..m
      <4> HIDE DEF g, turn
      <4>0. k \in 0..m /\ k - 1 \in 0..m
        BY <3>2
      <4>1. g[k] = f[k] /\ g[k - 1] = f[k - 1] /\ f[k] = turn(f, k)
        BY <2>2, <4>0
      <4> USE DEF turn
      <4>2. QED
        BY <4>1
    <3>3. CASE k = m + 1
      <4>1. g[k] = after /\ g[k - 1] = f[m] /\ k # 0
        BY <2>2, <2>3, <3>3
      <4> HIDE DEF g
      <4>2. QED
        BY <4>1
    <3>4. QED
      BY <3>1, <3>2, <3>3
  <2>5. g = [k \in 0..(m + 1) |-> turn(g, k)]
    <3>1. g = [k \in 0..(m + 1) |-> g[k]]
      OBVIOUS
    <3> HIDE DEF g, turn
    <3>2. QED
      BY <2>4, <3>1
  <2>6. InTurn(g, s, from, m + 1)
    <3> HIDE DEF g
    <3>1. QED
      BY <2>5 DEF InTurn
  <2> HIDE DEF g
  <2>7. QED
    BY <2>6
<1>3. Possible = Nat
  <2> HIDE DEF Possible
  <2>1. Possible \in SUBSET Nat
    BY DEF Possible
  <2>2. QED
    BY <1>1, <1>2, <2>1, AllNumbers
<1>4. n \in Possible
  <2> HIDE DEF Possible
  <2>1. QED
    BY <1>3
<1>5. QED
  BY <1>4

\* Reached is where such searches come to.
LEMMA ReachedInTurn ==
    ASSUME NEW s, NEW from, NEW n \in Nat
    PROVE  \E f : InTurn(f, s, from, n) /\ Reached(s, from, n) = f[n]
<1> DEFINE reach[k \in 0..n] ==
               IF k = 0 THEN from
               ELSE IF reach[k - 1] = NoMoment THEN NoMoment
               ELSE nextCronTimeUTC(s, reach[k - 1])
<1>1. InTurn(reach, s, from, n)
  BY SearchesGoOn DEF InTurn
<1>2. Reached(s, from, n) = reach[n]
  BY DEF Reached
<1> HIDE DEF reach
<1>3. QED
  BY <1>1, <1>2

\* Every search adds one moment to those that were found.
LEMMA SearchesCount ==
    ASSUME NEW s, NEW from \in Nat, NEW n \in Nat, NEW f, InTurn(f, s, from, n)
    PROVE  \A k \in 0..n :
              \/ f[k] = NoMoment
              \/ /\ f[k] \in Nat /\ from <= f[k] /\ (k > 0 => Matches(s, f[k]))
                 /\ IsFiniteSet(Hits(s, from + 1, f[k]))
                 /\ Cardinality(Hits(s, from + 1, f[k])) = k
<1> DEFINE Counted(k) ==
               \/ f[k] = NoMoment
               \/ /\ f[k] \in Nat /\ from <= f[k] /\ (k > 0 => Matches(s, f[k]))
                  /\ IsFiniteSet(Hits(s, from + 1, f[k]))
                  /\ Cardinality(Hits(s, from + 1, f[k])) = k
           Right == {k \in Nat : k <= n => Counted(k)}
<1>1. Counted(0)
  <2>1. f[0] = from
    BY DEF InTurn
  <2>2. Hits(s, from + 1, from) = {}
    BY DEF Hits
  <2>3. QED
    BY <2>1, <2>2, FS_EmptySet
<1>2. ASSUME NEW k \in Nat, k + 1 <= n, Counted(k) PROVE Counted(k + 1)
  <2> DEFINE at == f[k]
             next == nextCronTimeUTC(s, at)
  <2>1. f[k + 1] = IF at = NoMoment THEN NoMoment ELSE next
    <3>1. k + 1 \in 0..n /\ (k + 1) - 1 = k /\ k + 1 # 0
      BY <1>2
    <3>2. QED
      BY <3>1 DEF InTurn
  <2> HIDE DEF at
  <2>2. CASE at = NoMoment
    BY <2>1, <2>2
  <2>3. CASE at # NoMoment
    <3>1. /\ at \in Nat /\ from <= at
          /\ IsFiniteSet(Hits(s, from + 1, at)) /\ Cardinality(Hits(s, from + 1, at)) = k
      BY <1>2, <2>3 DEF at
    <3>2. \/ next = NoMoment
          \/ /\ next \in (at + 1)..(at + 1 + SearchedDays * MinutesPerDay)
             /\ Hits(s, at + 1, next) = {next}
      BY <3>1, SearchFinds
    <3> HIDE DEF next
    <3>3. CASE next = NoMoment
      BY <2>1, <2>3, <3>3
    <3>4. CASE next # NoMoment
      <4> DEFINE deadline == at + 1 + SearchedDays * MinutesPerDay
      <4>1. next \in (at + 1)..deadline /\ Hits(s, at + 1, next) = {next}
        BY <3>2, <3>4
      <4> HIDE DEF deadline
      <4>2. next \in Int /\ at + 1 <= next
        BY <4>1, <3>1
      <4>3. Hits(s, from + 1, next) = Hits(s, from + 1, at) \cup {next}
        BY <3>1, <4>1, <4>2 DEF Hits
      <4>4. next \notin Hits(s, from + 1, at)
        BY <3>1, <4>2 DEF Hits
      <4>5. /\ IsFiniteSet(Hits(s, from + 1, next))
            /\ Cardinality(Hits(s, from + 1, next)) = k + 1
        BY <3>1, <4>3, <4>4, FS_AddElement
      <4>6. Matches(s, next)
        BY <4>1 DEF Hits
      <4>7. f[k + 1] = next /\ next \in Nat /\ from <= next
        BY <2>1, <2>3, <3>1, <4>2
      <4>8. QED
        BY <4>5, <4>6, <4>7
    <3>5. QED
      BY <3>3, <3>4
  <2>4. QED
    BY <2>2, <2>3
<1> HIDE DEF Counted
<1>3. Right = Nat
  <2>1. 0 \in Right
    BY <1>1
  <2>2. ASSUME NEW k \in Nat, k \in Right PROVE k + 1 \in Right
    BY <1>2, <2>2
  <2> HIDE DEF Right
  <2>3. Right \in SUBSET Nat
    BY DEF Right
  <2>4. QED
    BY <2>1, <2>2, <2>3, AllNumbers
<1>4. ASSUME NEW k \in 0..n PROVE Counted(k)
  BY <1>3
<1>5. QED
  BY <1>4 DEF Counted

\* A quotient and its rest.
LEMMA QuotientAndRest ==
    ASSUME NEW b \in Nat \ {0}, NEW a \in Nat, NEW c \in 0..(b - 1)
    PROVE  (a * b + c) \div b = a /\ (a * b + c) % b = c
<1>1. a * b + c \in Nat
  OBVIOUS
<1> DEFINE q == (a * b + c) \div b
<1>2. q \in Nat /\ b * q <= a * b + c /\ a * b + c < b * q + b
  BY <1>1
<1>3. a * b + c < b * (a + 1) /\ b * (q + 1) = b * q + b /\ b * a <= a * b + c
  BY <1>2
<1> HIDE DEF q
<1>4. ASSUME q >= a + 1 PROVE FALSE
  <2>1. b * (a + 1) <= b * q
    BY <1>2, <1>4
  <2>2. QED
    BY <1>2, <1>3, <2>1
<1>5. ASSUME a >= q + 1 PROVE FALSE
  <2>1. b * (q + 1) <= b * a
    BY <1>2, <1>5
  <2>2. QED
    BY <1>2, <1>3, <2>1
<1>6. q = a
  BY <1>2, <1>4, <1>5
<1>7. QED
  BY <1>6, <1>1 DEF q

\* A time is the days before it and the time of its day.
LEMMA DaysAndTime ==
    ASSUME NEW b \in Nat \ {0}, NEW t \in Nat
    PROVE  \E d \in Nat, r \in 0..(b - 1) : t \div b = d /\ t = d * b + r
<1> DEFINE q == t \div b
           r == t - b * q
<1>1. q \in Nat /\ b * q <= t /\ t < b * q + b
  OBVIOUS
<1>2. b * q \in Nat /\ q * b = b * q
  BY <1>1
<1> HIDE DEF q
<1>3. r \in 0..(b - 1) /\ t = q * b + r
  BY <1>1, <1>2
<1>4. QED
  BY <1>1, <1>3 DEF q

\* A product is as large as its factors.
LEMMA ProductGrows ==
    ASSUME NEW a \in Nat, NEW b \in Nat, NEW c \in Nat, a <= b
    PROVE  a * c \in Nat /\ b * c \in Nat /\ a * c <= b * c
OBVIOUS

\* How many minutes a search goes through after the one it starts at.
SearchedMinutes == SearchedDays * MinutesPerDay

\* What the calendar is made of is not nothing.
LEMMA Sizes ==
    /\ MinutesPerHour \in Nat \ {0} /\ HoursPerDay \in Nat \ {0}
    /\ DaysPerWeek \in Nat \ {0} /\ SearchedDays \in Nat \ {0}
    /\ NumMonths \in Nat \ {0} /\ MaxDay \in Nat \ {0}
    /\ MinutesPerDay \in Nat \ {0} /\ SearchedMinutes \in Nat \ {0}
<1>1. /\ MinutesPerHour \in Nat \ {0} /\ HoursPerDay \in Nat \ {0}
      /\ DaysPerWeek \in Nat \ {0} /\ SearchedDays \in Nat \ {0}
      /\ NumMonths \in Nat \ {0} /\ MaxDay \in Nat \ {0}
  BY CalendarAssumption
<1>2. MinutesPerDay \in Nat \ {0}
  BY <1>1 DEF MinutesPerDay
<1>3. SearchedMinutes \in Nat \ {0}
  BY <1>1, <1>2 DEF SearchedMinutes
<1>4. QED
  BY <1>1, <1>2, <1>3

\* A search ends at most a year after its start, so n of them stay in the
\* calendar when they start at its LastStart or before.
LEMMA SearchesStay ==
    ASSUME NEW s, NEW from \in Nat, NEW n \in Nat, NEW f, InTurn(f, s, from, n)
    PROVE  \A k \in 0..n :
              f[k] = NoMoment \/ (f[k] \in Nat /\ f[k] <= from + k * (SearchedMinutes + 1))
<1> DEFINE bound(k) == from + k * (SearchedMinutes + 1)
           Bounded(k) == f[k] = NoMoment \/ (f[k] \in Nat /\ f[k] <= bound(k))
           Right == {k \in Nat : k <= n => Bounded(k)}
<1>1. Bounded(0)
  <2>1. f[0] = from
    BY DEF InTurn
  <2>2. bound(0) = from
    BY Sizes
  <2>3. QED
    BY <2>1, <2>2
<1>2. ASSUME NEW k \in Nat, k + 1 <= n, Bounded(k) PROVE Bounded(k + 1)
  <2> DEFINE at == f[k]
             next == nextCronTimeUTC(s, at)
  <2>1. f[k + 1] = IF at = NoMoment THEN NoMoment ELSE next
    <3>1. k + 1 \in 0..n /\ (k + 1) - 1 = k /\ k + 1 # 0
      BY <1>2
    <3>2. QED
      BY <3>1 DEF InTurn
  <2>2. bound(k) \in Nat /\ bound(k + 1) = bound(k) + SearchedMinutes + 1
    BY Sizes
  <2>3. at = NoMoment \/ (at \in Nat /\ at <= bound(k))
    BY <1>2
  <2> HIDE DEF at, bound
  <2>4. CASE at = NoMoment
    BY <2>1, <2>4
  <2>5. CASE at # NoMoment
    <3>1. next = NoMoment \/ next \in (at + 1)..(at + 1 + SearchedMinutes)
      BY <2>3, <2>5, SearchFinds DEF SearchedMinutes
    <3> HIDE DEF next
    <3>2. next = NoMoment \/ (next \in Nat /\ next <= bound(k + 1))
      BY <2>2, <2>3, <2>5, <3>1, Sizes
    <3>3. QED
      BY <2>1, <2>5, <3>2
  <2>6. QED
    BY <2>4, <2>5
<1> HIDE DEF Bounded
<1>3. Right = Nat
  <2>1. 0 \in Right
    BY <1>1
  <2>2. ASSUME NEW k \in Nat, k \in Right PROVE k + 1 \in Right
    BY <1>2, <2>2
  <2> HIDE DEF Right
  <2>3. Right \in SUBSET Nat
    BY DEF Right
  <2>4. QED
    BY <2>1, <2>2, <2>3, AllNumbers
<1>4. ASSUME NEW k \in 0..n PROVE Bounded(k)
  BY <1>3
<1>5. QED
  BY <1>4 DEF Bounded

\* n searches from its last start stay in the calendar.
LEMMA StaysInCalendar ==
    ASSUME NEW n \in Nat, NEW from \in 0..LastStart(n), NEW k \in 0..n,
           NEW t \in Nat, t <= from + k * (SearchedMinutes + 1)
    PROVE  t < Len(Calendar) * MinutesPerDay
<1>1. Len(Calendar) \in Nat
  BY CalendarAssumption
<1> DEFINE L == Len(Calendar)
           P == MinutesPerDay
           D == SearchedMinutes
<1>2. L \in Nat /\ P \in Nat \ {0} /\ D \in Nat /\ SearchedDays \in Nat /\ D = SearchedDays * P
  BY <1>1, Sizes DEF SearchedMinutes
<1>3. from \in Nat /\ from <= (L - n * (SearchedDays + 1)) * P - 1
  <2>1. LastStart(n) \in Int
    BY <1>2 DEF LastStart
  <2>2. QED
    BY <2>1 DEF LastStart
<1>4. t <= from + k * (D + 1)
  OBVIOUS
<1> HIDE DEF L, P, D
<1>5. (L - n * (SearchedDays + 1)) * P = L * P - n * (D + P)
  <2>1. n * (SearchedDays + 1) \in Nat
    BY <1>2
  <2>2. (L - n * (SearchedDays + 1)) * P = L * P - (n * (SearchedDays + 1)) * P
    BY <1>2, <2>1
  <2>3. (n * (SearchedDays + 1)) * P = n * ((SearchedDays + 1) * P)
    BY <1>2
  <2>4. (SearchedDays + 1) * P = D + P
    BY <1>2
  <2>5. QED
    BY <2>2, <2>3, <2>4
<1>6. k * (D + 1) <= n * (D + 1) /\ n * (D + 1) <= n * (D + P)
  <2>1. D + 1 \in Nat /\ D + P \in Nat /\ D + 1 <= D + P
    BY <1>2
  <2>2. k * (D + 1) <= n * (D + 1)
    BY <2>1, ProductGrows
  <2>3. (D + 1) * n <= (D + P) * n
    BY <2>1, ProductGrows
  <2>4. (D + 1) * n = n * (D + 1) /\ (D + P) * n = n * (D + P)
    BY <2>1
  <2>5. QED
    BY <2>2, <2>3, <2>4
<1>7. L * P \in Int /\ n * (D + P) \in Int /\ k * (D + 1) \in Int /\ n * (D + 1) \in Int
  BY <1>2
<1>8. t < L * P
  BY <1>3, <1>4, <1>5, <1>6, <1>7
<1>9. QED
  BY <1>8 DEF L, P

\* The minutes of the calendar are those of its days.
LEMMA MinutesOfDays ==
    ASSUME NEW t \in Nat, t < Len(Calendar) * MinutesPerDay
    PROVE  InCalendar(t)
<1>1. Len(Calendar) \in Nat
  BY CalendarAssumption
<1>2. PICK d \in Nat, r \in 0..(MinutesPerDay - 1) : day(t) = d /\ t = d * MinutesPerDay + r
  BY DaysAndTime, Sizes DEF day
<1> DEFINE L == Len(Calendar)
           P == MinutesPerDay
<1>3. L \in Nat /\ P \in Nat \ {0} /\ d * P + r < L * P /\ r \in Nat
  BY <1>1, <1>2, Sizes
<1> HIDE DEF L, P
<1>4. ASSUME d >= L PROVE FALSE
  <2>1. L * P <= d * P /\ L * P \in Nat /\ d * P \in Nat
    BY <1>3, <1>4, ProductGrows
  <2>2. QED
    BY <1>3, <2>1
<1>5. d + 1 \in 1..L
  BY <1>3, <1>4
<1>6. QED
  BY <1>2, <1>5 DEF InCalendar, L

\* The n-th moment the engine comes to is the n-th that the expression names,
\* whatever the calendar, the expression and the start: the search of
\* nextCronTimeUTC skips none and names none twice.
LEMMA SearchesSkipNone ==
    ASSUME NEW s \in parseCronSchedule, NEW from \in Nat, NEW n \in Nat,
           Reached(s, from, n) # NoMoment => InCalendar(Reached(s, from, n))
    PROVE  NoneSkipped(s, from, n)
<1> DEFINE t == Reached(s, from, n)
<1>1. PICK f : InTurn(f, s, from, n) /\ t = f[n]
  BY ReachedInTurn
<1> SUFFICES ASSUME t # NoMoment
             PROVE  /\ n > 0 => t \in MomentsOf(s, {t})
                    /\ Cardinality(MomentsOf(s, (from + 1)..t)) = n
  BY DEF NoneSkipped
<1> HIDE DEF t
<1>2. /\ t \in Nat /\ from <= t /\ (n > 0 => Matches(s, t))
      /\ Cardinality(Hits(s, from + 1, t)) = n
  <2>1. n \in 0..n
    OBVIOUS
  <2>2. \/ f[n] = NoMoment
        \/ /\ f[n] \in Nat /\ from <= f[n] /\ (n > 0 => Matches(s, f[n]))
           /\ Cardinality(Hits(s, from + 1, f[n])) = n
    BY <1>1, <2>1, SearchesCount
  <2>3. t = f[n] /\ t # NoMoment
    BY <1>1
  <2>4. QED
    BY <2>2, <2>3
<1>3. InCalendar(t)
  BY DEF t
<1>4. ASSUME NEW u \in (from + 1)..t PROVE InCalendar(u)
  <2>1. u \in Nat /\ u <= t
    BY <1>2
  <2>2. MinutesPerDay \in Nat \ {0}
    BY CalendarAssumption DEF MinutesPerDay
  <2>3. day(u) \in Nat /\ day(u) <= day(t)
    BY <1>2, <2>1, <2>2 DEF day
  <2>4. Len(Calendar) \in Nat
    BY CalendarAssumption
  <2>5. day(t) + 1 \in Nat /\ day(t) + 1 <= Len(Calendar)
    BY <1>3, <1>2, <2>2, <2>4 DEF InCalendar, day
  <2>6. day(u) + 1 \in 1..Len(Calendar)
    <3> HIDE DEF day
    <3>1. day(t) \in Nat
      BY <1>2, <2>2 DEF day
    <3>2. QED
      BY <2>3, <2>4, <2>5, <3>1
  <2>7. QED
    BY <2>1, <2>6 DEF InCalendar
<1>5. Hits(s, from + 1, t) = MomentsOf(s, (from + 1)..t)
  <2>1. \A u \in (from + 1)..t : Matches(s, u) <=> u \in MomentsOf(s, {u})
    BY <1>4, MatchesAsNamed
  <2>2. \A u \in (from + 1)..t : u \in MomentsOf(s, {u}) <=> u \in MomentsOf(s, (from + 1)..t)
    BY DEF MomentsOf
  <2>3. MomentsOf(s, (from + 1)..t) \subseteq (from + 1)..t
    BY DEF MomentsOf
  <2>4. QED
    BY <2>1, <2>2, <2>3 DEF Hits
<1>6. n > 0 => t \in MomentsOf(s, {t})
  BY <1>2, <1>3, MatchesAsNamed
<1>7. QED
  BY <1>2, <1>5, <1>6

\* The day and the minute of the day of a time of given date and time of day.
LEMMA TimeOfDay ==
    ASSUME NEW d \in Nat, NEW h \in 0..(HoursPerDay - 1), NEW m \in 0..(MinutesPerHour - 1)
    PROVE  LET r == h * MinutesPerHour + m
               t == d * MinutesPerDay + r
           IN  /\ r \in 0..(MinutesPerDay - 1) /\ t \in Nat
               /\ day(t) = d /\ hour(t) = h /\ minute(t) = m
<1> DEFINE r == h * MinutesPerHour + m
           t == d * MinutesPerDay + r
           H == HoursPerDay
           M == MinutesPerHour
<1>1. H \in Nat \ {0} /\ M \in Nat \ {0} /\ h \in 0..(H - 1) /\ m \in 0..(M - 1)
  BY Sizes
<1>2. MinutesPerDay = M * H /\ MinutesPerDay \in Nat \ {0}
  BY Sizes DEF MinutesPerDay
<1>3. t = d * (M * H) + (h * M + m) /\ r = h * M + m
  BY <1>2
<1> HIDE DEF H, M
<1>4. r \in 0..(MinutesPerDay - 1)
  <2>1. (h + 1) * M <= H * M /\ (h + 1) * M \in Nat /\ H * M \in Nat
    <3>1. h + 1 \in Nat /\ h + 1 <= H
      BY <1>1
    <3>2. QED
      BY <1>1, <3>1, ProductGrows
  <2>2. (h + 1) * M = h * M + M /\ h * M \in Nat /\ H * M = M * H
    BY <1>1
  <2>3. QED
    BY <1>1, <1>2, <1>3, <2>1, <2>2
<1>5. d * H + h \in Nat /\ t = (d * H + h) * M + m
  <2>1. d * (M * H) = (d * H) * M
    BY <1>1
  <2>2. d * H \in Nat /\ (d * H + h) * M = (d * H) * M + h * M
    BY <1>1
  <2>3. h * M \in Nat /\ (d * H) * M \in Nat
    BY <1>1, <2>2
  <2>4. QED
    BY <1>1, <1>3, <2>1, <2>2, <2>3
<1>6. minute(t) = m
  <2>1. ((d * H + h) * M + m) % M = m
    BY <1>1, <1>5, QuotientAndRest
  <2>2. QED
    BY <1>5, <2>1 DEF minute, M
<1>7. hour(t) = h
  <2>1. ((d * H + h) * M + m) \div M = d * H + h
    BY <1>1, <1>5, QuotientAndRest
  <2>2. (d * H + h) % H = h
    BY <1>1, QuotientAndRest
  <2>3. QED
    BY <1>5, <2>1, <2>2 DEF hour, M, H
<1>8. day(t) = d
  <2>1. (d * MinutesPerDay + r) \div MinutesPerDay = d
    BY <1>2, <1>4, QuotientAndRest
  <2>2. QED
    BY <2>1 DEF day
<1>9. t \in Nat
  <2>1. d * MinutesPerDay \in Nat
    BY <1>2
  <2>2. QED
    BY <1>2, <1>4, <2>1
<1>10. QED
  BY <1>4, <1>6, <1>7, <1>8, <1>9

\* A schedule that has a moment every common year has a day of its own in as
\* many days on end as are searched.
LEMMA DayToRun ==
    ASSUME NEW s \in parseCronSchedule, YearAfterYear(s),
           NEW first \in Nat, first + SearchedDays <= Len(Calendar)
    PROVE  \E d \in first..(first + SearchedDays - 1) :
              /\ Calendar[d + 1][1] \in s.months
              /\ Named(s, Calendar[d + 1][2], d % DaysPerWeek)
<1>1. PICK i \in 1..Len(CommonYear), w \in 0..(DaysPerWeek - 1) :
         CommonYear[i][1] \in s.months /\ Named(s, CommonYear[i][2], w)
  BY DEF YearAfterYear
<1>2. first \in 0..(Len(Calendar) - SearchedDays)
  BY CalendarAssumption, Sizes
<1>3. PICK d \in first..(first + SearchedDays - 1) : Calendar[d + 1] = CommonYear[i]
  BY <1>1, <1>2, CalendarCovers
<1>4. PICK e \in first..(first + SearchedDays - 1) :
         Calendar[e + 1][1] = CommonYear[i][1] /\ e % DaysPerWeek = w
  BY <1>1, <1>2, CalendarCovers
<1>5. CASE s.dows # 0..(DaysPerWeek - 1) /\ w \in s.dows
  <2>1. Named(s, Calendar[e + 1][2], e % DaysPerWeek)
    BY <1>4, <1>5 DEF Named
  <2>2. QED
    BY <1>1, <1>4, <2>1
<1>6. CASE ~(s.dows # 0..(DaysPerWeek - 1) /\ w \in s.dows)
  <2>1. Named(s, Calendar[d + 1][2], d % DaysPerWeek)
    BY <1>1, <1>3, <1>6 DEF Named
  <2>2. QED
    BY <1>1, <1>3, <2>1
<1>7. QED
  BY <1>5, <1>6

\* Its day comes round before a search gives up, and on it the time of day, also
\* when the search starts in the middle of such a day.
LEMMA MomentToRun ==
    ASSUME NEW s \in parseCronSchedule, YearAfterYear(s),
           NEW start \in Nat, start + SearchedMinutes < Len(Calendar) * MinutesPerDay
    PROVE  Hits(s, start, start + SearchedMinutes) # {}
<1>1. s \in [minutes: Fields(0, MinutesPerHour - 1), hours: Fields(0, HoursPerDay - 1),
             doms: Fields(1, MaxDay), months: Fields(1, NumMonths),
             dows: Fields(0, DaysPerWeek - 1)]
  BY DEF parseCronSchedule
<1>2. PICK h \in 0..(HoursPerDay - 1), m \in 0..(MinutesPerHour - 1) :
         h \in s.hours /\ m \in s.minutes
  <2>1. /\ s.hours # {} /\ s.hours \subseteq 0..(HoursPerDay - 1)
        /\ s.minutes # {} /\ s.minutes \subseteq 0..(MinutesPerHour - 1)
    <3>1. s.hours \in Fields(0, HoursPerDay - 1) /\ s.minutes \in Fields(0, MinutesPerHour - 1)
      BY <1>1
    <3>2. HoursPerDay - 1 \in Nat /\ MinutesPerHour - 1 \in Nat /\ 0 \in Nat
      BY Sizes
    <3>3. s.hours \subseteq 0..(HoursPerDay - 1) /\ s.minutes \subseteq 0..(MinutesPerHour - 1)
      BY <3>1, <3>2, FieldsInRange
    <3>4. s.hours # {} /\ s.minutes # {}
      BY <3>1 DEF Fields, Refused
    <3>5. QED
      BY <3>3, <3>4
  <2>2. QED
    BY <2>1
<1> DEFINE P == MinutesPerDay
           r == h * MinutesPerHour + m
           at(d) == d * P + r
<1>3. P \in Nat \ {0} /\ SearchedDays \in Nat \ {0} /\ SearchedMinutes = SearchedDays * P
  BY Sizes DEF SearchedMinutes
<1>4. PICK d0 \in Nat, r0 \in 0..(P - 1) : start = d0 * P + r0
  <2>1. P \in Nat \ {0} /\ start \in Nat
    BY <1>3
  <2>2. \E d \in Nat, q \in 0..(P - 1) : start \div P = d /\ start = d * P + q
    <3> HIDE DEF P
    <3> QED
      BY <2>1, DaysAndTime
  <2>3. QED
    BY <2>2
<1>5. r \in 0..(P - 1)
  BY TimeOfDay
<1>6. start + SearchedMinutes = (d0 + SearchedDays) * P + r0
  <2>1. (d0 + SearchedDays) * P = d0 * P + SearchedDays * P /\ d0 * P \in Nat
    BY <1>3
  <2>2. SearchedDays * P \in Nat
    BY <1>3
  <2>3. QED
    BY <1>3, <1>4, <2>1, <2>2
<1>7. d0 + SearchedDays < Len(Calendar)
  <2> DEFINE last == d0 + SearchedDays
             L == Len(Calendar)
  <2>1. last \in Nat /\ L \in Nat /\ last * P + r0 < L * P /\ r0 \in Nat /\ P \in Nat
    BY <1>3, <1>4, <1>6, CalendarAssumption
  <2> HIDE DEF last, L, P
  <2>2. ASSUME last >= L PROVE FALSE
    <3>1. L * P <= last * P /\ L * P \in Nat /\ last * P \in Nat
      BY <2>1, <2>2, ProductGrows
    <3>2. QED
      BY <2>1, <3>1
  <2>3. last < L
    BY <2>1, <2>2
  <2>4. QED
    BY <2>3 DEF last, L
<1> DEFINE first == IF r0 <= r THEN d0 ELSE d0 + 1
<1>8. first \in Nat /\ first + SearchedDays <= Len(Calendar) /\ d0 <= first /\ first <= d0 + 1
  <2>1. first \in {d0, d0 + 1}
    OBVIOUS
  <2>2. Len(Calendar) \in Nat /\ SearchedDays \in Nat /\ d0 + SearchedDays < Len(Calendar)
    BY <1>7, CalendarAssumption, Sizes
  <2> HIDE DEF first
  <2>3. QED
    BY <2>1, <2>2
<1>9. PICK d \in first..(first + SearchedDays - 1) :
         Calendar[d + 1][1] \in s.months /\ Named(s, Calendar[d + 1][2], d % DaysPerWeek)
  <2> HIDE DEF first
  <2>1. QED
    BY <1>8, DayToRun
<1>10. d \in Nat /\ d0 <= d /\ d <= d0 + SearchedDays
       /\ (r0 > r => d0 + 1 <= d) /\ (r0 <= r => d <= d0 + SearchedDays - 1)
  BY <1>3, <1>4, <1>5, <1>8, <1>9
<1>11. start <= at(d) /\ at(d) <= start + SearchedMinutes
  <2>1. start = d0 * P + r0 /\ r \in Nat /\ r0 \in Nat /\ r < P /\ r0 < P /\ P \in Nat
    BY <1>3, <1>4, <1>5
  <2> DEFINE last == d0 + SearchedDays
  <2>2. start + SearchedMinutes = last * P + r0 /\ last \in Nat /\ d <= last
    BY <1>3, <1>6, <1>10
  <2>3. at(d) = d * P + r /\ d \in Nat /\ d0 \in Nat /\ d0 <= d
    BY <1>10
  <2>4. (r0 > r => d0 + 1 <= d) /\ (r0 <= r => d + 1 <= last)
    BY <1>3, <1>10
  <2> HIDE DEF at, r, P, last
  <2>5. CASE r0 <= r
    <3>1. d0 * P <= d * P /\ (d + 1) * P <= last * P
          /\ d0 * P \in Nat /\ d * P \in Nat /\ last * P \in Nat
      BY <2>1, <2>2, <2>3, <2>4, <2>5, ProductGrows, d + 1 \in Nat
    <3>2. (d + 1) * P = d * P + P
      BY <2>1, <2>3
    <3>3. QED
      BY <2>1, <2>2, <2>3, <2>5, <3>1, <3>2
  <2>6. CASE r0 > r
    <3>1. (d0 + 1) * P <= d * P /\ d * P <= last * P
          /\ d0 * P \in Nat /\ d * P \in Nat /\ last * P \in Nat
      BY <2>1, <2>2, <2>3, <2>4, <2>6, ProductGrows, d0 + 1 \in Nat
    <3>2. (d0 + 1) * P = d0 * P + P
      BY <2>1, <2>3
    <3>3. QED
      BY <2>1, <2>2, <2>3, <2>6, <3>1, <3>2
  <2>7. QED
    BY <2>1, <2>5, <2>6
<1>12. at(d) \in Nat /\ day(at(d)) = d /\ hour(at(d)) = h /\ minute(at(d)) = m
  BY <1>10, TimeOfDay
<1>13. at(d) \in MomentsOf(s, {at(d)})
  <2> HIDE DEF at
  <2>1. month(at(d)) \in s.months /\ Named(s, dom(at(d)), dow(at(d)))
    BY <1>9, <1>12 DEF month, dom, dow
  <2>2. QED
    BY <1>2, <1>12, <2>1 DEF MomentsOf
<1>14. InCalendar(at(d))
  <2> HIDE DEF at
  <2>1. d + 1 \in 1..Len(Calendar)
    BY <1>7, <1>10, <1>3, CalendarAssumption
  <2>2. QED
    BY <1>12, <2>1 DEF InCalendar
<1>15. at(d) \in Hits(s, start, start + SearchedMinutes)
  <2>1. Matches(s, at(d))
    <3> HIDE DEF at
    <3>1. QED
      BY <1>13, <1>14, MatchesAsNamed
  <2>2. at(d) \in start..(start + SearchedMinutes)
    <3>1. at(d) \in Int /\ start \in Int /\ start + SearchedMinutes \in Int
      BY <1>12, Sizes
    <3> HIDE DEF at
    <3>2. QED
      BY <1>11, <3>1
  <2> HIDE DEF at
  <2>3. QED
    BY <2>1, <2>2 DEF Hits
<1>16. QED
  BY <1>15

\* The searches of a schedule that has a moment every common year do not give up.
LEMMA SearchesGiveUpRarely ==
    ASSUME NEW s \in parseCronSchedule, NEW n \in Nat, NEW from \in 0..LastStart(n),
           Reached(s, from, n) = NoMoment
    PROVE  ~YearAfterYear(s)
<1> SUFFICES ASSUME YearAfterYear(s) PROVE FALSE
  OBVIOUS
<1>1. from \in Nat
  <2>1. from \in 0..LastStart(n) /\ LastStart(n) \in Int
    BY Sizes, CalendarAssumption DEF LastStart
  <2>2. QED
    BY <2>1
<1>2. PICK f : InTurn(f, s, from, n) /\ f[n] = NoMoment
  BY ReachedInTurn
<1> DEFINE Ended == {k \in 0..n : f[k] = NoMoment}
<1>3. PICK k \in Ended : \A j \in Ended : k <= j
  <2>1. Ended \in SUBSET Nat /\ Ended # {}
    BY <1>2
  <2> HIDE DEF Ended
  <2>2. QED
    BY <2>1, LeastNumber
<1>4. f[0] = from
  BY <1>2 DEF InTurn
<1>5. k \in 1..n /\ k - 1 \in 0..n /\ f[k] = NoMoment /\ f[k - 1] # NoMoment
  <2>1. k \in 0..n /\ f[k] = NoMoment
    BY <1>3
  <2>2. k # 0
    BY <1>1, <1>4, <2>1 DEF NoMoment
  <2>3. k - 1 \in 0..n /\ ~(k <= k - 1)
    BY <2>1, <2>2
  <2>4. k - 1 \notin Ended
    <3> HIDE DEF Ended
    <3>1. QED
      BY <1>3, <2>3
  <2>5. QED
    BY <2>1, <2>2, <2>3, <2>4
<1> DEFINE at == f[k - 1]
<1>6. at \in Nat /\ at <= from + (k - 1) * (SearchedMinutes + 1)
  <2>1. \A i \in 0..n : f[i] = NoMoment
                        \/ (f[i] \in Nat /\ f[i] <= from + i * (SearchedMinutes + 1))
    BY <1>1, <1>2, SearchesStay
  <2>2. QED
    BY <1>5, <2>1
<1>7. nextCronTimeUTC(s, at) = NoMoment
  <2>1. f[k] = IF f[k - 1] = NoMoment THEN NoMoment ELSE nextCronTimeUTC(s, f[k - 1])
    BY <1>2, <1>5 DEF InTurn
  <2>2. QED
    BY <1>5, <2>1
<1> HIDE DEF at
<1>8. Hits(s, at + 1, (at + 1) + SearchedMinutes) = {}
  <2> DEFINE t == nextCronTimeUTC(s, at)
             deadline == at + 1 + SearchedMinutes
  <2>1. \/ t = NoMoment /\ Hits(s, at + 1, deadline) = {}
        \/ t \in (at + 1)..deadline
    BY <1>6, SearchFinds DEF SearchedMinutes
  <2>2. t \notin (at + 1)..deadline
    BY <1>6, <1>7 DEF NoMoment
  <2>3. Hits(s, at + 1, deadline) = {}
    BY <2>1, <2>2
  <2>4. QED
    BY <2>3
<1>9. at + 1 + SearchedMinutes <= from + k * (SearchedMinutes + 1)
  <2> DEFINE D == SearchedMinutes + 1
  <2>1. D \in Nat /\ k \in Nat
    BY <1>5, Sizes
  <2>2. at <= from + (k - 1) * D /\ at + 1 + SearchedMinutes = at + D
    BY <1>6, Sizes
  <2>3. k * D = (k - 1) * D + D /\ (k - 1) * D \in Int
    <3> HIDE DEF D
    <3>1. QED
      BY <2>1
  <2> HIDE DEF D
  <2>4. at + 1 + SearchedMinutes <= from + k * D
    BY <1>1, <1>6, <2>1, <2>2, <2>3
  <2>5. QED
    BY <2>4 DEF D
<1>10. (at + 1) + SearchedMinutes < Len(Calendar) * MinutesPerDay
  <2>1. at + 1 + SearchedMinutes \in Nat /\ k \in 0..n
    BY <1>5, <1>6, Sizes
  <2>2. QED
    BY <1>9, <2>1, StaysInCalendar
<1>11. QED
  BY <1>6, <1>8, <1>10, MomentToRun

\* The engine comes to the moments that an expression names, one after the
\* other, whatever the calendar, the expression, the start and their number.
THEOREM SchedulesGoOn == \A n \in Nat : GoesOn(n)
<1> SUFFICES ASSUME NEW n \in Nat,
                    NEW s \in parseCronSchedule, NEW from \in 0..LastStart(n)
             PROVE  /\ NoneSkipped(s, from, n)
                    /\ Reached(s, from, n) = NoMoment => ~YearAfterYear(s)
  BY DEF GoesOn, LastStart
<1>1. from \in Nat
  <2>1. from \in 0..LastStart(n) /\ LastStart(n) \in Int
    BY Sizes, CalendarAssumption DEF LastStart
  <2>2. QED
    BY <2>1
<1>2. Reached(s, from, n) # NoMoment => InCalendar(Reached(s, from, n))
  <2>1. PICK f : InTurn(f, s, from, n) /\ Reached(s, from, n) = f[n]
    BY ReachedInTurn
  <2>2. n \in 0..n
    OBVIOUS
  <2>3. f[n] = NoMoment \/ (f[n] \in Nat /\ f[n] <= from + n * (SearchedMinutes + 1))
    BY <1>1, <2>1, <2>2, SearchesStay
  <2>4. f[n] # NoMoment => InCalendar(f[n])
    BY <2>2, <2>3, StaysInCalendar, MinutesOfDays
  <2>5. QED
    BY <2>1, <2>4
<1>3. NoneSkipped(s, from, n)
  BY <1>1, <1>2, SearchesSkipNone
<1>4. QED
  BY <1>3, SearchesGiveUpRarely

\* The moments that the engine counts for a job (computeNextSchedule) are those of
\* its cron expression, one after the other; its searches give up on days that
\* not every year has, and on no others.
THEOREM MomentsAreFound == Spec => []ScheduleGoesOn
<1>1. TypeOK => ScheduleGoesOn
  <2> SUFFICES ASSUME TypeOK, NEW j \in Jobs PROVE job[j].next \in Continued
    BY DEF ScheduleGoesOn
  <2>1. job[j].next \in 0..(MaxTime + 1) /\ job[j].next \in Nat
    BY NextsAreNat DEF TypeOK, JobRow
  <2>2. QED
    BY <2>1, SchedulesGoOn DEF Continued
<1>2. QED
  BY <1>1, TypeCorrect, PTL

=============================================================================
