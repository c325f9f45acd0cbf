------------------------- MODULE ReleaseSteps_proofs -------------------------
(***************************************************************************)
(* Theorems about ReleaseSteps, for every number of releases, tasks,       *)
(* handlers and faults.                                                    *)
(***************************************************************************)
EXTENDS ReleaseSteps, TLAPS

----------------------------------------------------------------------------
(* The inductive invariant.                                                *)

Occupies(r) == release[r].status \in {"dispatching", "deploying", "ready"}

\* A row of a task names its release, the row of a release a task of its own.
RowsRefer ==
    /\ \A t \in Tasks : /\ task[t].release # 0 <=> t <= created
                        /\ task[t].status # "none" <=> t <= created
    /\ \A r \in Releases :
          LET t == release[r].task IN
          /\ t # 0 => t <= created /\ task[t].release = r
          /\ Occupies(r) => t # 0
          /\ release[r].status = "queued" => t = 0

\* What a handler holds at each of its steps.
Waits(h) == at[h] \in {"idle", "recover", "stale"}

HandlerRefers(h) ==
    /\ Waits(h) => on[h] = NoWork
    /\ Starting(h) => on[h].release # 0
    /\ ~Waits(h) /\ ~Starting(h) => on[h].task # 0
    /\ on[h].task # 0 => on[h].task <= created /\ task[on[h].task].release = on[h].release
    /\ \A t \in list[h] : t <= created

HandlersRefer == \A h \in Handlers : HandlerRefers(h)

\* Handler h has ended the task of its release, or may find it ended, and is yet
\* to store the release or the task.
WillEnd(h) ==
    \/ at[h] \in {"fail release", "instance", "ready", "failed release", "stale release"}
    \/ at[h] = "running" /\ release[on[h].release].task = on[h].task

HasHandler(r) == r \in cut \/ \E h \in Handlers : on[h].release = r /\ WillEnd(h)

StuckHasHandler ==
    \A r \in Releases :
        Active(r) /\ task[release[r].task].status = "ended" => HasHandler(r)

\* Handlers that matter to each other are noticed: two on one release, and one
\* on a release while another one starts one.
Works(h) == on[h].release # 0 /\ at[h] # "replayed"

RacesNoticed ==
    \A h, k \in Handlers :
        h # k /\ Works(h) /\ Works(k) =>
            /\ on[h].release = on[k].release => on[h].release \in raced
            /\ Starting(h) => on[h].release \in raced /\ on[k].release \in raced

\* Release r has the instance, or lost or took it in a race.
Owns(r) == instance = r \/ r \in raced \/ instance \in raced

\* What a handler has seen of the releases stays so: it goes on to store its
\* release as it found it, and what Check and completeSupersededRelease have
\* seen is still true.
Deploys(h) == at[h] \in {"deploying", "running", "succeeded", "instance", "ready"}

SeesRightly(h) ==
    /\ Deploys(h) => on[h].release \in raced \/ Occupies(on[h].release)
    /\ at[h] = "supersede" => \A x \in Releases : Active(x) => x \in raced
    /\ at[h] = "create" =>
          \A x \in Releases : Occupies(x) => x = on[h].release \/ x \in raced
    /\ at[h] = "ready" => Owns(on[h].release)

OneOccupies ==
    \A r, q \in Releases : r # q /\ Occupies(r) /\ Occupies(q) => r \in raced \/ q \in raced

ReadyOwns == \A r \in Releases : release[r].status = "ready" => Owns(r)

RaceInv ==
    /\ RacesNoticed /\ OneOccupies /\ ReadyOwns
    /\ \A h \in Handlers : SeesRightly(h)

IInv == TypeOK /\ RowsRefer /\ HandlersRefer /\ StuckHasHandler /\ RaceInv

----------------------------------------------------------------------------
(* One handler moves.                                                      *)

Work == [release : Releases \cup {0}, task : Tasks \cup {0}, retry : BOOLEAN]
Moves(h, step, w) == at' = [at EXCEPT ![h] = step] /\ on' = [on EXCEPT ![h] = w]

\* The moving handler is at its new step, the others stay where they are.
LEMMA Moved ==
    ASSUME TypeOK, NEW h \in Handlers, NEW step \in Steps, NEW w \in Work, Moves(h, step, w)
    PROVE  /\ at'[h] = step /\ on'[h] = w
           /\ \A k \in Handlers : k # h => at'[k] = at[k] /\ on'[k] = on[k]
           /\ at' \in [Handlers -> Steps] /\ on' \in [Handlers -> Work]
  BY DEF TypeOK, Moves, Work

\* The handler keeps its release, or works on none that matters to others.
KeepsRelease(h, step, w) ==
    \/ w.release = 0 \/ step = "replayed"
    \/ /\ w.release = on[h].release /\ at[h] # "replayed"
       /\ step \in {"check", "supersede", "create"} => Starting(h)

\* A handler that keeps its release comes into no race that was not noticed.
LEMMA PairsKept ==
    ASSUME TypeOK, RacesNoticed, NEW h \in Handlers, NEW step \in Steps, NEW w \in Work,
           Moves(h, step, w), KeepsRelease(h, step, w), raced \subseteq raced'
    PROVE  RacesNoticed'
  BY Moved DEF RacesNoticed, Works, Starting, KeepsRelease

\* The handler turns to a release, and the races are noticed.
LEMMA PairsNoticed ==
    ASSUME TypeOK, RacesNoticed, NEW h \in Handlers, NEW step \in Steps, NEW w \in Work,
           Moves(h, step, w), raced \subseteq raced',
           \A k \in Handlers :
              k # h /\ Works(k) =>
                 /\ on[k].release = w.release => w.release \in raced'
                 /\ Starting(k) \/ step = "check" => w.release \in raced' /\ on[k].release \in raced',
           step \notin {"supersede", "create"}
    PROVE  RacesNoticed'
  BY Moved DEF RacesNoticed, Works, Starting

\* The releases stay: every other handler sees what it saw.
LEMMA OthersSee ==
    ASSUME TypeOK, RaceInv, NEW h \in Handlers, NEW step \in Steps, NEW w \in Work,
           Moves(h, step, w), raced \subseteq raced', UNCHANGED <<release, instance>>,
           SeesRightly(h)'
    PROVE  OneOccupies' /\ ReadyOwns' /\ \A k \in Handlers : SeesRightly(k)'
<1>1. OneOccupies' /\ ReadyOwns'
  BY DEF RaceInv, OneOccupies, ReadyOwns, Occupies, Owns
<1>2. ASSUME NEW k \in Handlers, k # h PROVE SeesRightly(k)'
  <2>1. SeesRightly(k)
    BY DEF RaceInv
  <2>2. at'[k] = at[k] /\ on'[k] = on[k]
    BY <1>2, Moved
  <2>3. QED
    BY <2>1, <2>2 DEF SeesRightly, Deploys, Occupies, Owns, Active
<1>3. QED
  BY <1>1, <1>2

\* The handler claims nothing new about the releases.
Quiet(h, step, w) ==
    /\ step \in {"deploying", "running", "succeeded", "instance", "ready"} =>
          Deploys(h) /\ w.release = on[h].release
    /\ step \notin {"supersede", "create", "ready"}

\* A handler that claims nothing new still sees the releases rightly.
LEMMA QuietSees ==
    ASSUME TypeOK, RaceInv, NEW h \in Handlers, NEW step \in Steps, NEW w \in Work,
           Moves(h, step, w), raced \subseteq raced', UNCHANGED release, Quiet(h, step, w)
    PROVE  SeesRightly(h)'
<1>1. SeesRightly(h) /\ at'[h] = step /\ on'[h] = w
  BY Moved DEF RaceInv
<1>2. QED
  BY <1>1 DEF SeesRightly, Quiet, Deploys, Occupies

\* The lists of the handlers name tasks there are.
ListsRefer == \A k \in Handlers, t \in Tasks : t \in list[k] => t <= created

\* What the moving handler must hold.
Holds(step, w) ==
    /\ step \in {"idle", "recover", "stale"} => w = NoWork
    /\ step \in {"check", "supersede", "create"} => w.release # 0
    /\ step \notin {"idle", "recover", "stale", "check", "supersede", "create"} => w.task # 0
    /\ w.task # 0 => w.task <= created' /\ (task')[w.task].release = w.release

\* The tasks there are stay those of their releases.
TasksStay ==
    created <= created' /\ \A t \in Tasks : t <= created => (task')[t].release = task[t].release

\* What the handlers hold still names tasks and releases there are.
LEMMA HandlersStillRefer ==
    ASSUME TypeOK, HandlersRefer, NEW h \in Handlers, NEW step \in Steps, NEW w \in Work,
           Moves(h, step, w), created' \in Nat, TasksStay, Holds(step, w), ListsRefer',
           list' \in [Handlers -> SUBSET Tasks]
    PROVE  HandlersRefer'
<1> SUFFICES ASSUME NEW k \in Handlers PROVE HandlerRefers(k)'
  BY DEF HandlersRefer
<1>1. HandlerRefers(k)
  BY DEF HandlersRefer
<1>2. \A t \in list'[k] : t <= created'
  BY DEF ListsRefer
<1>3. CASE k = h
  BY <1>2, <1>3, Moved DEF HandlerRefers, Holds, Waits, Starting
<1>4. CASE k # h
  <2>1. at'[k] = at[k] /\ on'[k] = on[k]
    BY <1>4, Moved
  <2>2. on[k].task # 0 =>
           on[k].task <= created' /\ (task')[on[k].task].release = on[k].release
    BY <1>1, StepsAssumption DEF HandlerRefers, TasksStay, TypeOK, Work, Tasks
  <2>3. QED
    BY <1>1, <1>2, <2>1, <2>2 DEF HandlerRefers, Waits, Starting
<1>5. QED
  BY <1>3, <1>4

\* A stuck release keeps its handler when that one, or another, moves.
LEMMA StillHasHandler ==
    ASSUME TypeOK, NEW h \in Handlers, NEW step \in Steps, NEW w \in Work,
           Moves(h, step, w), cut \subseteq cut', NEW r \in Releases,
           (release')[r] = release[r], HasHandler(r),
           on[h].release = r /\ WillEnd(h) =>
              \/ w.release = r /\ step \in {"fail release", "instance", "ready",
                                            "failed release", "stale release"}
              \/ r \in cut'
    PROVE  HasHandler(r)'
<1>1. CASE r \in cut
  BY <1>1 DEF HasHandler
<1>2. ASSUME NEW k \in Handlers, on[k].release = r, WillEnd(k)
      PROVE  HasHandler(r)'
  <2>1. CASE k = h
    <3>1. at'[h] = step /\ on'[h] = w
      BY Moved
    <3>2. r \in cut' \/ (on'[h].release = r /\ WillEnd(h)')
      BY <1>2, <2>1, <3>1 DEF WillEnd
    <3>3. QED
      BY <3>2 DEF HasHandler
  <2>2. CASE k # h
    <3>1. at'[k] = at[k] /\ on'[k] = on[k]
      BY <2>2, Moved
    <3>2. on'[k].release = r /\ WillEnd(k)'
      BY <1>2, <3>1 DEF WillEnd
    <3>3. QED
      BY <3>2 DEF HasHandler
  <2>3. QED
    BY <2>1, <2>2
<1>3. QED
  BY <1>1, <1>2 DEF HasHandler

\* The rows of releases stay, those of tasks keep their releases, and what is
\* noted down only grows.
RowsStay ==
    /\ UNCHANGED <<release, instance, created>>
    /\ task' \in [Tasks -> [release : Releases \cup {0}, status : {"none", "open", "ended"}]]
    /\ \A t \in Tasks : /\ (task')[t].release = task[t].release
                        /\ (task')[t].status = "none" <=> task[t].status = "none"
    /\ raced \subseteq raced' /\ cut \subseteq cut'
    /\ old' \cup work' \subseteq Tasks /\ raced' \cup cut' \subseteq Releases \cup {0}
    /\ list' \in [Handlers -> SUBSET Tasks] /\ ListsRefer'

\* Rows that stay still refer to each other.
LEMMA RowsStillRefer ==
    ASSUME IInv, RowsStay
    PROVE  RowsRefer' /\ TasksStay
<1>1. RowsRefer'
  <2>1. ASSUME NEW t \in Tasks
        PROVE  /\ (task')[t].release # 0 <=> t <= created'
               /\ (task')[t].status # "none" <=> t <= created'
    BY DEF IInv, RowsRefer, RowsStay
  <2>2. ASSUME NEW r \in Releases
        PROVE  LET t == (release')[r].task IN
               /\ t # 0 => t <= created' /\ (task')[t].release = r
               /\ Occupies(r)' => t # 0
               /\ (release')[r].status = "queued" => t = 0
    BY DEF IInv, TypeOK, RowsRefer, RowsStay, Occupies
  <2>3. QED
    BY <2>1, <2>2 DEF RowsRefer
<1>2. TasksStay
  BY StepsAssumption DEF IInv, TypeOK, RowsStay, TasksStay
<1>3. QED
  BY <1>1, <1>2

\* The lists of the handlers name tasks there are, by HandlersRefer.
LEMMA ListsReferNow ==
    ASSUME IInv
    PROVE  ListsRefer
  BY DEF IInv, HandlersRefer, HandlerRefers, ListsRefer

\* A move over rows that stay keeps the invariant.
LEMMA MoveKeeps ==
    ASSUME IInv, NEW h \in Handlers, NEW step \in Steps, NEW w \in Work, Moves(h, step, w),
           RowsStay, SeesRightly(h)', Holds(step, w), RacesNoticed', StuckHasHandler'
    PROVE  IInv'
<1> USE DEF IInv
<1>1. TypeOK'
  BY Moved DEF RowsStay, TypeOK, Work
<1>2. RowsRefer' /\ TasksStay
  BY RowsStillRefer
<1>3. HandlersRefer'
  <2>1. created' \in Nat
    BY StepsAssumption DEF RowsStay, TypeOK
  <2>2. QED
    BY <1>2, <2>1, HandlersStillRefer DEF RowsStay
<1>4. RaceInv'
  BY OthersSee DEF RaceInv, RowsStay
<1>5. QED
  BY <1>1, <1>2, <1>3, <1>4

\* No task ends and the handler was not to end one.
LEMMA QuietStuck ==
    ASSUME IInv, NEW h \in Handlers, NEW step \in Steps, NEW w \in Work, Moves(h, step, w),
           RowsStay, \A t \in Tasks : (task')[t].status = "ended" => task[t].status = "ended",
           WillEnd(h) => w.release = on[h].release /\ step \in {"fail release", "instance",
                                            "ready", "failed release", "stale release"}
    PROVE  StuckHasHandler'
<1> SUFFICES ASSUME NEW r \in Releases, Active(r)', (task')[(release')[r].task].status = "ended"
             PROVE  HasHandler(r)'
  BY DEF StuckHasHandler
<1>1. release' = release /\ Active(r) /\ cut \subseteq cut'
  BY DEF RowsStay, Active
<1>2. release[r].task \in Tasks
  BY <1>1 DEF IInv, TypeOK, RowsRefer, Active, Occupies
<1>3. task[release[r].task].status = "ended"
  BY <1>1, <1>2
<1>4. HasHandler(r)
  BY <1>1, <1>3 DEF IInv, StuckHasHandler
<1>5. on[h].release = r /\ WillEnd(h) =>
         w.release = r /\ step \in {"fail release", "instance", "ready",
                                   "failed release", "stale release"}
  OBVIOUS
<1>6. TypeOK
  BY DEF IInv
<1>7. QED
  BY <1>1, <1>4, <1>5, <1>6, StillHasHandler

\* A handler that claims nothing, ends nothing and keeps its release.
LEMMA QuietKeeps ==
    ASSUME IInv, NEW h \in Handlers, NEW step \in Steps, NEW w \in Work, Moves(h, step, w),
           RowsStay, Quiet(h, step, w), Holds(step, w), KeepsRelease(h, step, w),
           \A t \in Tasks : (task')[t].status = "ended" => task[t].status = "ended",
           WillEnd(h) => w.release = on[h].release /\ step \in {"fail release", "instance",
                                            "ready", "failed release", "stale release"}
    PROVE  IInv'
<1>1. StuckHasHandler'
  BY QuietStuck
<1>2. RacesNoticed'
  BY PairsKept DEF IInv, RaceInv, RowsStay
<1>3. SeesRightly(h)'
  BY QuietSees DEF IInv, RowsStay
<1>4. QED
  BY <1>1, <1>2, <1>3, MoveKeeps

\* NoWork is a value a handler may hold.
LEMMA NoWorkIsWork == NoWork \in Work
  BY DEF NoWork, Work

\* What a handler holds is not disturbed.
LEMMA StillHeld ==
    ASSUME IInv, RowsStay, NEW h \in Handlers
    PROVE  /\ on[h] \in Work
           /\ on[h].task # 0 =>
                 on[h].task <= created' /\ (task')[on[h].task].release = on[h].release
<1>1. on[h] \in Work /\ (on[h].task # 0 => on[h].task \in Tasks)
  BY DEF IInv, TypeOK, Work
<1>2. QED
  BY <1>1 DEF RowsStay, IInv, HandlersRefer, HandlerRefers

\* A handler that returns without having ended a task.
LEMMA ReturnKeeps ==
    ASSUME IInv, NEW h \in Handlers, Returns(h), ~WillEnd(h), RowsStay,
           \A t \in Tasks : (task')[t].status = "ended" => task[t].status = "ended"
    PROVE  IInv'
<1>1. Moves(h, "idle", NoWork) /\ "idle" \in Steps
  BY DEF Moves, Returns, Steps
<1>2. Quiet(h, "idle", NoWork) /\ Holds("idle", NoWork) /\ KeepsRelease(h, "idle", NoWork)
  BY DEF Quiet, Holds, KeepsRelease, NoWork
<1>3. QED
  BY <1>1, <1>2, NoWorkIsWork, QuietKeeps

----------------------------------------------------------------------------
(* Start and Retry.                                                        *)

\* What Races notes down: the release turned to and those of the others.
LEMMA RacedThen ==
    ASSUME NEW r \in Releases, NEW others, Races(r, others)
    PROVE  /\ raced \subseteq raced'
           /\ \A k \in others : r \in raced' /\ on[k].release \in raced'
           /\ \A x \in raced' :
                 x \in raced \/ \E k \in others : x = r \/ x = on[k].release
<1>1. raced' = raced \cup UNION {{r, on[k].release} : k \in others}
  BY DEF Races
<1>2. ASSUME NEW k \in others PROVE r \in raced' /\ on[k].release \in raced'
  <2>1. {r, on[k].release} \in {{r, on[i].release} : i \in others}
    OBVIOUS
  <2>2. QED
    BY <1>1, <2>1
<1>3. ASSUME NEW x \in raced', x \notin raced
      PROVE  \E k \in others : x = r \/ x = on[k].release
  BY <1>1, <1>3
<1>4. QED
  BY <1>1, <1>2, <1>3

\* Start or Retry reads its release.
LEMMA BeginKeeps ==
    ASSUME IInv, NEW a \in Admins, NEW r \in Releases, Begin(a, r)
    PROVE  IInv'
<1> DEFINE w == [release |-> r, task |-> 0, retry |-> release[r].status = "failed"]
<1>1. a \in Handlers /\ w \in Work /\ "check" \in Steps /\ at[a] = "idle"
  BY DEF Handlers, Work, Begin, MayBegin, Busy, Steps
<1>2. Moves(a, "check", w)
  BY DEF Begin, Moves, Goes
<1>3. RowsStay
  <2>1. raced \subseteq raced' /\ raced' \subseteq Releases \cup {0}
    BY DEF Begin, Races, IInv, TypeOK
  <2>2. QED
    BY <2>1, ListsReferNow DEF Begin, rows, RowsStay, IInv, TypeOK, ListsRefer
<1>4. RacesNoticed'
  <2>1. \A k \in Handlers : on[k].release # 0 => r \in raced' /\ on[k].release \in raced'
    BY DEF Begin, Races
  <2>2. QED
    BY <1>1, <1>2, <1>3, <2>1, PairsNoticed DEF IInv, RaceInv, Works, RowsStay
<1>5. StuckHasHandler'
  BY <1>1, <1>2, <1>3, QuietStuck DEF WillEnd, Begin, rows
<1>6. SeesRightly(a)' /\ Holds("check", w)
  BY <1>1, <1>2, Moved DEF SeesRightly, Deploys, Holds, Releases, IInv
<1>7. QED
  BY <1>1, <1>2, <1>3, <1>4, <1>5, <1>6, MoveKeeps

\* HasActiveRelease and the other checks of Start and Retry.
LEMMA CheckKeeps ==
    ASSUME IInv, NEW a \in Admins, Check(a)
    PROVE  IInv'
<1>1. a \in Handlers /\ on[a] \in Work /\ at[a] = "check"
  BY DEF Handlers, Work, Check, IInv, TypeOK
<1>2. CASE HasNoActiveRelease /\ Goes(a, "supersede") /\ Stays
  <2>1. Moves(a, "supersede", on[a]) /\ "supersede" \in Steps
    BY <1>2 DEF Moves, Goes, Stays, IInv, TypeOK, Steps
  <2>2. RowsStay
    BY <1>2, ListsReferNow DEF Check, Stays, rows, RowsStay, IInv, TypeOK, ListsRefer
  <2>3. StuckHasHandler'
    BY <1>1, <2>1, <2>2, QuietStuck DEF WillEnd, Check, rows
  <2>4. RacesNoticed'
    BY <1>1, <2>1, <2>2, PairsKept DEF IInv, RaceInv, RowsStay, KeepsRelease, Starting
  <2>5. SeesRightly(a)'
    BY <1>1, <1>2, <2>1, <2>2, Moved
    DEF SeesRightly, Deploys, HasNoActiveRelease, Active, RowsStay, IInv
  <2>6. Holds("supersede", on[a])
    BY <1>1, <2>2, StillHeld DEF IInv, HandlersRefer, HandlerRefers, Holds, Starting
  <2>7. QED
    BY <1>1, <2>1, <2>2, <2>3, <2>4, <2>5, <2>6, MoveKeeps
<1>3. CASE Returns(a)
  <2>1. RowsStay
    BY <1>1, <1>3, ListsReferNow DEF Check, Returns, rows, RowsStay, IInv, TypeOK, ListsRefer
  <2>2. QED
    BY <1>1, <1>3, <2>1, ReturnKeeps DEF Check, rows, WillEnd
<1>4. QED
  BY <1>2, <1>3 DEF Check

\* dispatch hands the command to the session.
LEMMA DispatchKeeps ==
    ASSUME IInv, NEW a \in Admins, DispatchTask(a)
    PROVE  IInv'
<1>1. /\ a \in Handlers /\ on[a] \in Work /\ at[a] = "send"
      /\ {"skip", "defer", "fail"} \subseteq Steps
  BY DEF Handlers, Work, DispatchTask, IInv, TypeOK, Steps
<1>2. PICK step \in {"skip", "defer", "fail"} : Moves(a, step, on[a])
  BY DEF DispatchTask, Moves, Goes, Stays, IInv, TypeOK
<1>3. on[a].task # 0 /\ on[a].task \in Tasks
  BY <1>1 DEF IInv, HandlersRefer, HandlerRefers, Waits, Starting, Work
<1>4. RowsStay
  BY <1>1, <1>3, ListsReferNow
  DEF DispatchTask, Arrives, Stays, rows, RowsStay, IInv, TypeOK, ListsRefer
<1>5. Quiet(a, step, on[a]) /\ KeepsRelease(a, step, on[a])
  BY <1>1 DEF Quiet, KeepsRelease
<1>6. Holds(step, on[a])
  BY <1>1, <1>3, <1>4, StillHeld DEF Holds
<1>7. QED
  BY <1>1, <1>2, <1>4, <1>5, <1>6, QuietKeeps DEF DispatchTask, rows, WillEnd

\* A task row is stored: every other column and row stays.
LEMMA TaskStored ==
    ASSUME IInv, NEW t \in Tasks, t <= created, NEW status \in {"open", "ended"},
           StoreTask(t, status),
           UNCHANGED <<release, instance, created, work, raced, cut>>,
           list' \in [Handlers -> SUBSET Tasks], \A k \in Handlers : list'[k] \subseteq list[k]
    PROVE  /\ RowsStay
           /\ (task')[t].status = status /\ \A x \in Tasks : x # t => (task')[x] = task[x]
<1>1. /\ (task')[t].release = task[t].release /\ (task')[t].status = status
      /\ \A x \in Tasks : x # t => (task')[x] = task[x]
      /\ task' \in [Tasks -> [release : Releases \cup {0}, status : {"none", "open", "ended"}]]
  BY DEF StoreTask, IInv, TypeOK
<1>2. task[t].status # "none"
  BY DEF IInv, RowsRefer
<1>3. ListsRefer'
  BY ListsReferNow DEF ListsRefer
<1>4. old' \subseteq Tasks
  BY DEF StoreTask, IInv, TypeOK
<1>5. QED
  BY <1>1, <1>2, <1>3, <1>4 DEF RowsStay, IInv, TypeOK

\* The handler has ended the task and goes on to store the release.
LEMMA EndsTask ==
    ASSUME IInv, NEW h \in Handlers,
           NEW step \in {"fail release", "instance", "failed release", "stale release"},
           Moves(h, step, on[h]), on[h].task # 0,
           at[h] \in {"fail", "succeeded", "failed", "timed out"},
           step = "instance" => at[h] = "succeeded",
           StoreTask(on[h].task, "ended"),
           UNCHANGED <<release, instance, created, list, work, raced, cut>>
    PROVE  IInv'
<1> DEFINE t == on[h].task
<1>1. /\ step \in Steps /\ on[h] \in Work /\ t \in Tasks /\ t <= created
      /\ task[t].release = on[h].release
  BY DEF IInv, TypeOK, Work, Steps, HandlersRefer, HandlerRefers
<1>2. RowsStay /\ \A x \in Tasks : x # t => (task')[x] = task[x]
  BY <1>1, TaskStored DEF IInv, TypeOK
<1>3. StuckHasHandler'
  <2> SUFFICES ASSUME NEW r \in Releases, Active(r)',
                      (task')[(release')[r].task].status = "ended"
               PROVE  HasHandler(r)'
    BY DEF StuckHasHandler
  <2>1. Active(r) /\ release[r].task \in Tasks /\ task[release[r].task].release = r
    BY DEF IInv, TypeOK, RowsRefer, Active, Occupies
  <2>2. CASE release[r].task = t
    <3>1. on[h].release = r
      BY <1>1, <2>1, <2>2
    <3>2. on'[h].release = r /\ WillEnd(h)'
      BY <1>1, <3>1, Moved DEF WillEnd, IInv
    <3>3. QED
      BY <3>2 DEF HasHandler
  <2>3. CASE release[r].task # t
    <3>1. HasHandler(r)
      BY <1>2, <2>1, <2>3 DEF IInv, StuckHasHandler
    <3>2. QED
      BY <1>1, <3>1, StillHasHandler DEF IInv, WillEnd
  <2>4. QED
    BY <2>2, <2>3
<1>4. RacesNoticed'
  BY <1>1, PairsKept DEF KeepsRelease, IInv, RaceInv
<1>5. SeesRightly(h)'
  BY <1>1, QuietSees DEF Quiet, Deploys, IInv
<1>6. Holds(step, on[h])
  BY <1>2, StillHeld DEF Holds
<1>7. QED
  BY <1>1, <1>2, <1>3, <1>4, <1>5, <1>6, MoveKeeps

\* The handler stores its task as open.
LEMMA OpensTask ==
    ASSUME IInv, NEW h \in Handlers, at[h] \in {"mark", "defer", "running", "replayed"},
           NEW step \in {"send", "skip", "idle", "recover"}, NEW w \in {on[h], NoWork},
           step = "send" <=> at[h] = "mark", step = "skip" <=> at[h] = "defer",
           step \in {"send", "skip"} => w = on[h],
           step \notin {"send", "skip"} => w = NoWork,
           Moves(h, step, w), StoreTask(on[h].task, "open"),
           UNCHANGED <<release, instance, created, work, raced, cut>>,
           list' \in [Handlers -> SUBSET Tasks], \A k \in Handlers : list'[k] \subseteq list[k]
    PROVE  IInv'
<1> DEFINE t == on[h].task
<1>1. /\ step \in Steps /\ w \in Work /\ t # 0 /\ t \in Tasks /\ t <= created
      /\ task[t].release = on[h].release
  <2>1. step \in Steps /\ w \in Work /\ on[h] \in Work
    <3>1. on[h] \in Work
      BY DEF IInv, TypeOK, Work
    <3>2. QED
      BY <3>1, NoWorkIsWork DEF Steps
  <2>2. t # 0 /\ t <= created /\ task[t].release = on[h].release
    BY DEF IInv, HandlersRefer, HandlerRefers, Waits, Starting
  <2>3. QED
    BY <2>1, <2>2 DEF Work
<1>2. /\ RowsStay /\ (task')[t].status = "open"
      /\ \A x \in Tasks : x # t => (task')[x] = task[x]
  BY <1>1, TaskStored
<1>3. StuckHasHandler'
  <2> SUFFICES ASSUME NEW r \in Releases, Active(r)',
                      (task')[(release')[r].task].status = "ended"
               PROVE  HasHandler(r)'
    BY DEF StuckHasHandler
  <2>1. Active(r) /\ release[r].task \in Tasks /\ release[r].task # t
    BY <1>2 DEF IInv, TypeOK, RowsRefer, Active, Occupies
  <2>2. HasHandler(r)
    BY <1>2, <2>1 DEF IInv, StuckHasHandler
  <2>3. ~(on[h].release = r /\ WillEnd(h))
    BY <2>1 DEF WillEnd
  <2>4. QED
    BY <1>1, <2>2, <2>3, StillHasHandler DEF IInv
<1>4. RacesNoticed'
  BY <1>1, PairsKept DEF KeepsRelease, IInv, RaceInv, NoWork
<1>5. SeesRightly(h)'
  BY <1>1, QuietSees DEF Quiet, IInv
<1>6. Holds(step, w)
  BY <1>1, <1>2, StillHeld DEF Holds, NoWork
<1>7. QED
  BY <1>1, <1>2, <1>3, <1>4, <1>5, <1>6, MoveKeeps

\* A handler stores its release, as failed or as one that occupies the service,
\* which it was already unless the handler was in a race.
LEMMA StoresRelease ==
    ASSUME IInv, NEW h \in Handlers, NEW step \in Steps, NEW w \in Work, Moves(h, step, w),
           NEW r \in Releases, on[h].release = r, Works(h),
           NEW status \in {"failed", "deploying", "ready"}, NEW t \in Tasks \cup {0},
           StoreRelease(r, status, t), t # 0 => t <= created /\ task[t].release = r,
           status # "failed" => t # 0 /\ (r \in raced \/ Occupies(r)),
           status = "ready" => Owns(r),
           status = "deploying" => w = on[h] /\ step = "running" /\ t = on[h].task,
           step \in {"idle", "running", "stale"}, step # "running" => w = NoWork,
           step = "running" => status = "deploying",
           UNCHANGED <<task, instance, created, old, work, raced, cut>>,
           list' \in [Handlers -> SUBSET Tasks], \A k \in Handlers : list'[k] \subseteq list[k]
    PROVE  IInv'
<1>1. /\ release' \in [Releases -> [status : {"queued", "dispatching", "deploying", "ready",
                                              "completed", "failed", "skipped"},
                                    task : Tasks \cup {0}]]
      /\ (release')[r].status = status /\ (release')[r].task = t
      /\ \A x \in Releases : x # r => (release')[x] = release[x]
  BY DEF StoreRelease, IInv, TypeOK
<1>2. /\ at'[h] = step /\ on'[h] = w
      /\ \A k \in Handlers : k # h => at'[k] = at[k] /\ on'[k] = on[k]
      /\ at' \in [Handlers -> Steps] /\ on' \in [Handlers -> Work]
  BY Moved DEF IInv
<1>3. TypeOK'
  BY <1>1, <1>2 DEF IInv, TypeOK, Work
<1>4. RowsRefer'
  <2>1. ASSUME NEW x \in Releases
        PROVE  LET q == (release')[x].task IN
               /\ q # 0 => q <= created' /\ (task')[q].release = x
               /\ Occupies(x)' => q # 0
               /\ (release')[x].status = "queued" => q = 0
    <3>1. CASE x = r
      BY <1>1, <3>1 DEF Occupies
    <3>2. CASE x # r
      BY <1>1, <3>2 DEF IInv, RowsRefer, Occupies
    <3>3. QED
      BY <3>1, <3>2
  <2>2. QED
    BY <2>1 DEF IInv, RowsRefer
<1>5. HandlersRefer'
  <2>1. created' \in Nat /\ TasksStay
    BY StepsAssumption DEF IInv, TypeOK, TasksStay
  <2>2. ListsRefer'
    BY ListsReferNow DEF ListsRefer
  <2>3. Holds(step, w)
    BY DEF Holds, NoWork, IInv, HandlersRefer, HandlerRefers, Works, Waits, Starting
  <2>4. QED
    BY <2>1, <2>2, <2>3, HandlersStillRefer DEF IInv
<1>6. StuckHasHandler'
  <2> SUFFICES ASSUME NEW x \in Releases, Active(x)',
                      (task')[(release')[x].task].status = "ended"
               PROVE  HasHandler(x)'
    BY DEF StuckHasHandler
  <2>1. CASE x = r
    <3>1. on'[h].release = r /\ WillEnd(h)'
      BY <1>1, <1>2, <2>1 DEF WillEnd, Active
    <3>2. QED
      BY <2>1, <3>1 DEF HasHandler
  <2>2. CASE x # r
    <3>1. HasHandler(x) /\ (release')[x] = release[x]
      BY <1>1, <2>2 DEF IInv, StuckHasHandler, Active
    <3>2. QED
      BY <2>2, <3>1, StillHasHandler DEF IInv
  <2>3. QED
    BY <2>1, <2>2
<1>7. RacesNoticed'
  BY PairsKept DEF KeepsRelease, IInv, RaceInv, NoWork, Works
<1>8. \A x \in Releases : Occupies(x)' => Occupies(x) \/ x \in raced
  BY <1>1 DEF Occupies
<1>9. OneOccupies'
  BY <1>8 DEF IInv, RaceInv, OneOccupies
<1>10. ReadyOwns'
  BY <1>1 DEF IInv, RaceInv, ReadyOwns, Owns
<1>11. ASSUME NEW k \in Handlers PROVE SeesRightly(k)'
  <2>1. SeesRightly(k)
    BY DEF IInv, RaceInv
  <2>2. CASE k = h
    BY <1>1, <1>2, <2>2 DEF SeesRightly, Deploys, Occupies
  <2>3. CASE k # h
    <3>1. at'[k] = at[k] /\ on'[k] = on[k]
      BY <1>2, <2>3
    <3>2. Starting(k) => r \in raced
      BY <2>3 DEF IInv, RaceInv, RacesNoticed, HandlersRefer, HandlerRefers, Works, Starting
    <3>3. Deploys(k) /\ on[k].release = r => r \in raced
      BY <2>3 DEF IInv, RaceInv, RacesNoticed, Deploys, Works
    <3>4. Deploys(k) => on[k].release \in Releases
      BY DEF IInv, TypeOK, RowsRefer, HandlersRefer, HandlerRefers, Deploys, Waits, Starting
    <3>5. Deploys(k)' => on'[k].release \in raced' \/ Occupies(on[k].release)'
      BY <1>1, <2>1, <3>1, <3>3, <3>4 DEF SeesRightly, Deploys, Occupies
    <3>6. at'[k] = "supersede" => \A x \in Releases : Active(x)' => x \in raced'
      BY <1>1, <2>1, <3>1, <3>2 DEF SeesRightly, Active, Starting
    <3>7. at'[k] = "create" =>
             \A x \in Releases : Occupies(x)' => x = on'[k].release \/ x \in raced'
      BY <1>8, <2>1, <3>1 DEF SeesRightly
    <3>8. at'[k] = "ready" => Owns(on[k].release)'
      BY <2>1, <3>1 DEF SeesRightly, Owns
    <3>9. QED
      BY <3>5, <3>6, <3>7, <3>8 DEF SeesRightly
  <2>4. QED
    BY <2>2, <2>3
<1>12. QED
  BY <1>3, <1>4, <1>5, <1>6, <1>7, <1>9, <1>10, <1>11 DEF IInv, RaceInv

\* dispatch stores the task as sent.
LEMMA MarkKeeps ==
    ASSUME IInv, NEW a \in Admins, MarkDispatched(a)
    PROVE  IInv'
<1>1. a \in Handlers /\ at[a] = "mark" /\ Moves(a, "send", on[a])
  BY DEF Handlers, MarkDispatched, Moves, Goes, Stays, IInv, TypeOK
<1>2. QED
  BY <1>1, OpensTask DEF MarkDispatched, Stays, IInv, TypeOK

\* dispatch stores the task of a command that waits for the agent.
LEMMA DeferKeeps ==
    ASSUME IInv, NEW a \in Admins, Deferred(a)
    PROVE  IInv'
<1>1. a \in Handlers /\ at[a] = "defer" /\ Moves(a, "skip", on[a])
  BY DEF Handlers, Deferred, Moves, Goes, Stays, IInv, TypeOK
<1>2. QED
  BY <1>1, OpensTask DEF Deferred, Stays, IInv, TypeOK

\* What a handler at work holds.
LEMMA WorkIsReal ==
    ASSUME IInv, NEW h \in Handlers, ~Waits(h), ~Starting(h)
    PROVE  /\ on[h].task \in Tasks /\ on[h].task # 0 /\ on[h].task <= created
           /\ on[h].release \in Releases /\ task[on[h].task].release = on[h].release
           /\ at[h] # "replayed" => Works(h)
<1>1. on[h].task # 0 /\ on[h].task <= created /\ task[on[h].task].release = on[h].release
  BY DEF IInv, HandlersRefer, HandlerRefers
<1>2. on[h].task \in Tasks
  BY <1>1 DEF IInv, TypeOK
<1>3. on[h].release \in Releases
  BY <1>1, <1>2 DEF IInv, TypeOK, RowsRefer
<1>4. on[h].release # 0
  BY <1>3 DEF Releases
<1>5. QED
  BY <1>1, <1>2, <1>3, <1>4 DEF Works

\* markDispatchFailed stores the task, then the release.
LEMMA FailDispatchKeeps ==
    ASSUME IInv, NEW a \in Admins, markDispatchFailed(a)
    PROVE  IInv'
<1> DEFINE r == on[a].release
<1>1. /\ a \in Handlers /\ at[a] \in {"fail", "fail release"}
      /\ r \in Releases /\ on[a].task # 0 /\ Works(a)
  <2>1. a \in Handlers /\ at[a] \in {"fail", "fail release"}
    BY DEF markDispatchFailed, Handlers
  <2>2. QED
    BY <2>1, WorkIsReal DEF Waits, Starting
<1>2. CASE at[a] = "fail"
  <2>1. Moves(a, "fail release", on[a])
    BY <1>2 DEF markDispatchFailed, Moves, Goes, Stays, IInv, TypeOK
  <2>2. QED
    BY <1>1, <1>2, <2>1, EndsTask DEF markDispatchFailed, Stays
<1>3. CASE at[a] = "fail release"
  <2>1. Moves(a, "idle", NoWork) /\ "idle" \in Steps
    BY <1>3 DEF markDispatchFailed, Moves, Returns, Steps
  <2>2. /\ StoreRelease(r, "failed", release[r].task) /\ Returns(a)
        /\ UNCHANGED <<task, instance, created, old, work, raced, cut>>
    BY <1>3 DEF markDispatchFailed
  <2>3. /\ list' \in [Handlers -> SUBSET Tasks]
        /\ \A k \in Handlers : list'[k] \subseteq list[k]
    BY <2>2 DEF Returns, IInv, TypeOK
  <2>4. release[r].task \in Tasks \cup {0}
    BY <1>1 DEF IInv, TypeOK
  <2>5. release[r].task # 0 => release[r].task <= created /\ task[release[r].task].release = r
    BY <1>1 DEF IInv, RowsRefer
  <2>6. QED
    BY <1>1, <2>1, <2>2, <2>3, <2>4, <2>5, NoWorkIsWork, StoresRelease
<1>4. QED
  BY <1>1, <1>2, <1>3

----------------------------------------------------------------------------
(* Reports.                                                                *)

\* HandleTaskUpdate with a task that runs.
LEMMA RunningKeeps ==
    ASSUME IInv, NEW h \in StreamOwners, HandleRunning(h)
    PROVE  IInv'
<1> DEFINE r == on[h].release  t == on[h].task
<1>1. h \in Handlers /\ at[h] \in {"deploying", "running"}
  BY DEF HandleRunning, Handlers
<1>2. /\ r \in Releases /\ t \in Tasks /\ t <= created /\ task[t].release = r /\ Works(h)
      /\ t # 0 /\ on[h] \in Work
  <2>1. on[h] \in Work
    BY <1>1 DEF IInv, TypeOK, Work
  <2>2. QED
    BY <1>1, <2>1, WorkIsReal DEF Waits, Starting
<1>3. CASE at[h] = "deploying"
  <2>1. Moves(h, "running", on[h]) /\ "running" \in Steps
    BY <1>3 DEF HandleRunning, Moves, Goes, Stays, Steps, IInv, TypeOK
  <2>2. r \in raced \/ Occupies(r)
    BY <1>1, <1>3 DEF IInv, RaceInv, SeesRightly, Deploys
  <2>3. /\ StoreRelease(r, "deploying", t)
        /\ UNCHANGED <<task, instance, created, old, work, raced, cut, list>>
    BY <1>3 DEF HandleRunning, Stays
  <2>4. list \in [Handlers -> SUBSET Tasks]
    BY DEF IInv, TypeOK
  <2>5. QED
    BY <1>1, <1>2, <2>1, <2>2, <2>3, <2>4, StoresRelease
<1>4. CASE at[h] = "running"
  <2>1. Moves(h, "idle", NoWork)
    BY <1>4 DEF HandleRunning, Moves, Returns
  <2>2. /\ list' \in [Handlers -> SUBSET Tasks]
        /\ \A k \in Handlers : list'[k] \subseteq list[k]
    BY <1>4 DEF HandleRunning, Returns, IInv, TypeOK
  <2>3. QED
    BY <1>1, <1>4, <2>1, <2>2, OpensTask DEF HandleRunning
<1>5. QED
  BY <1>1, <1>3, <1>4

\* The instance is stored: what other releases have or owe is told by raced.
LEMMA InstanceKeeps ==
    ASSUME IInv, NEW h \in StreamOwners, at[h] = "instance", HandleSucceeded(h)
    PROVE  IInv'
<1> DEFINE r == on[h].release
<1>1. /\ h \in Handlers /\ r \in Releases /\ Works(h) /\ "ready" \in Steps /\ on[h] \in Work
      /\ on[h].task \in Tasks
  <2>1. h \in Handlers /\ on[h] \in Work
    BY DEF Handlers, IInv, TypeOK, Work
  <2>2. QED
    BY <2>1, WorkIsReal DEF Waits, Starting, Works, Releases, Steps
<1>2. /\ instance' = r /\ Moves(h, "ready", on[h])
      /\ UNCHANGED <<release, task, created, old, work, raced, cut, list>>
  BY DEF HandleSucceeded, Moves, Goes, Stays, IInv, TypeOK
<1>3. /\ at'[h] = "ready" /\ on'[h] = on[h]
      /\ \A k \in Handlers : k # h => at'[k] = at[k] /\ on'[k] = on[k]
      /\ at' \in [Handlers -> Steps] /\ on' \in [Handlers -> Work]
  BY <1>1, <1>2, Moved DEF IInv
<1>4. TypeOK'
  BY <1>1, <1>2, <1>3 DEF IInv, TypeOK, Work
<1>5. RowsRefer'
  BY <1>2 DEF IInv, RowsRefer, Occupies
<1>6. HandlersRefer'
  <2>1. created' \in Nat /\ TasksStay /\ ListsRefer' /\ list' \in [Handlers -> SUBSET Tasks]
    BY <1>2, StepsAssumption, ListsReferNow DEF IInv, TypeOK, TasksStay, ListsRefer
  <2>2. Holds("ready", on[h])
    BY <1>1, <1>2 DEF Holds, Tasks, IInv, HandlersRefer, HandlerRefers
  <2>3. QED
    BY <1>1, <1>2, <2>1, <2>2, HandlersStillRefer DEF IInv
<1>7. StuckHasHandler'
  <2> SUFFICES ASSUME NEW x \in Releases, Active(x), task[release[x].task].status = "ended"
               PROVE  HasHandler(x)'
    BY <1>2 DEF StuckHasHandler, Active
  <2>1. HasHandler(x)
    BY DEF IInv, StuckHasHandler
  <2>2. QED
    BY <1>1, <1>2, <2>1, StillHasHandler DEF IInv
<1>8. RacesNoticed'
  BY <1>1, <1>2, PairsKept DEF KeepsRelease, Works, IInv, RaceInv
<1>9. OneOccupies'
  BY <1>2 DEF IInv, RaceInv, OneOccupies, Occupies
<1>10. r \in raced \/ Occupies(r)
  BY <1>1 DEF IInv, RaceInv, SeesRightly, Deploys
<1>11. \A x \in Releases : x \in raced \/ Occupies(x) => Owns(x)'
  BY <1>1, <1>2, <1>10 DEF IInv, RaceInv, OneOccupies, Owns
<1>12. ReadyOwns'
  BY <1>2, <1>11 DEF ReadyOwns, Occupies
<1>13. ASSUME NEW k \in Handlers PROVE SeesRightly(k)'
  <2>1. SeesRightly(k) /\ SeesRightly(h)
    BY <1>1 DEF IInv, RaceInv
  <2>2. CASE k = h
    <3>1. Owns(r)'
      BY <1>2, <1>3 DEF Owns
    <3>2. QED
      BY <1>2, <1>3, <1>10, <2>2, <3>1 DEF SeesRightly, Deploys, Occupies
  <2>3. CASE k # h
    <3>1. at[k] = "ready" => on[k].release \in Releases
      BY WorkIsReal DEF Waits, Starting
    <3>2. at[k] = "ready" => Owns(on[k].release)'
      BY <1>3, <1>11, <2>1, <2>3, <3>1 DEF SeesRightly, Deploys, Owns
    <3>3. QED
      BY <1>2, <1>3, <2>1, <2>3, <3>2 DEF SeesRightly, Deploys, Occupies, Active
  <2>4. QED
    BY <2>2, <2>3
<1>14. QED
  BY <1>4, <1>5, <1>6, <1>7, <1>8, <1>9, <1>12, <1>13 DEF IInv, RaceInv

\* HandleTaskUpdate with a task that succeeded.
LEMMA SucceededKeeps ==
    ASSUME IInv, NEW h \in StreamOwners, HandleSucceeded(h)
    PROVE  IInv'
<1> DEFINE r == on[h].release  t == on[h].task
<1>1. h \in Handlers /\ at[h] \in {"succeeded", "instance", "ready"}
  BY DEF HandleSucceeded, Handlers
<1>2. /\ r \in Releases /\ t \in Tasks /\ t <= created /\ task[t].release = r /\ Works(h)
      /\ t # 0
  BY <1>1, WorkIsReal DEF Waits, Starting
<1>3. CASE at[h] = "succeeded"
  <2>1. Moves(h, "instance", on[h])
    BY <1>3 DEF HandleSucceeded, Moves, Goes, Stays, IInv, TypeOK
  <2>2. QED
    BY <1>1, <1>2, <1>3, <2>1, EndsTask DEF HandleSucceeded, Stays
<1>4. CASE at[h] = "instance"
  BY <1>4, InstanceKeeps
<1>5. CASE at[h] = "ready"
  <2>1. Moves(h, "idle", NoWork) /\ "idle" \in Steps
    BY <1>5 DEF HandleSucceeded, Moves, Returns, Steps
  <2>2. (r \in raced \/ Occupies(r)) /\ Owns(r)
    BY <1>1, <1>5 DEF IInv, RaceInv, SeesRightly, Deploys
  <2>3. /\ StoreRelease(r, "ready", t) /\ Returns(h)
        /\ UNCHANGED <<task, instance, created, old, work, raced, cut>>
    BY <1>5 DEF HandleSucceeded
  <2>4. /\ list' \in [Handlers -> SUBSET Tasks]
        /\ \A k \in Handlers : list'[k] \subseteq list[k]
    BY <2>3 DEF Returns, IInv, TypeOK
  <2>5. QED
    BY <1>1, <1>2, <2>1, <2>2, <2>3, <2>4, NoWorkIsWork, StoresRelease
<1>6. QED
  BY <1>1, <1>3, <1>4, <1>5

\* HandleTaskUpdate with a task that failed.
LEMMA FailedKeeps ==
    ASSUME IInv, NEW h \in StreamOwners, HandleFailed(h)
    PROVE  IInv'
<1> DEFINE r == on[h].release  t == on[h].task
<1>1. h \in Handlers /\ at[h] \in {"failed", "failed release"}
  BY DEF HandleFailed, Handlers
<1>2. /\ r \in Releases /\ t \in Tasks /\ t <= created /\ task[t].release = r /\ Works(h)
      /\ t # 0
  BY <1>1, WorkIsReal DEF Waits, Starting
<1>3. CASE at[h] = "failed"
  <2>1. Moves(h, "failed release", on[h])
    BY <1>3 DEF HandleFailed, Moves, Goes, Stays, IInv, TypeOK
  <2>2. QED
    BY <1>1, <1>2, <1>3, <2>1, EndsTask DEF HandleFailed, Stays
<1>4. CASE at[h] = "failed release"
  <2>1. Moves(h, "idle", NoWork) /\ "idle" \in Steps
    BY <1>4 DEF HandleFailed, Moves, Returns, Steps
  <2>2. /\ StoreRelease(r, "failed", t) /\ Returns(h)
        /\ UNCHANGED <<task, instance, created, old, work, raced, cut>>
    BY <1>4 DEF HandleFailed
  <2>3. /\ list' \in [Handlers -> SUBSET Tasks]
        /\ \A k \in Handlers : list'[k] \subseteq list[k]
    BY <2>2 DEF Returns, IInv, TypeOK
  <2>4. QED
    BY <1>1, <1>2, <2>1, <2>2, <2>3, NoWorkIsWork, StoresRelease
<1>5. QED
  BY <1>1, <1>3, <1>4

\* FailStaleTasks ends a task and stores its release.
LEMMA FailStaleKeeps ==
    ASSUME IInv, FailStale
    PROVE  IInv'
<1> DEFINE h == Timer  r == on[Timer].release  t == on[Timer].task
<1>1. Timer \in Handlers /\ at[Timer] \in {"timed out", "stale release"}
  BY DEF FailStale, Handlers
<1>2. /\ r \in Releases /\ t \in Tasks /\ t <= created /\ task[t].release = r /\ Works(Timer)
      /\ t # 0
  BY <1>1, WorkIsReal DEF Waits, Starting
<1>3. CASE at[Timer] = "timed out"
  <2>1. Moves(Timer, "stale release", on[Timer])
    BY <1>3 DEF FailStale, Moves, Goes, Stays, IInv, TypeOK
  <2>2. QED
    BY <1>1, <1>2, <1>3, <2>1, EndsTask DEF FailStale, Stays
<1>4. CASE at[Timer] = "stale release"
  <2>1. Moves(Timer, "stale", NoWork) /\ "stale" \in Steps
    BY <1>4 DEF FailStale, Moves, Goes, Steps
  <2>2. /\ StoreRelease(r, "failed", t)
        /\ UNCHANGED <<task, instance, created, old, list, work, raced, cut>>
    BY <1>4 DEF FailStale
  <2>3. list \in [Handlers -> SUBSET Tasks]
    BY DEF IInv, TypeOK
  <2>4. QED
    BY <1>1, <1>2, <2>1, <2>2, <2>3, NoWorkIsWork, StoresRelease
<1>5. QED
  BY <1>1, <1>3, <1>4

\* RecoverAgentTasks stores a task it has sent again.
LEMMA StoreReplayedKeeps ==
    ASSUME IInv, NEW h \in StreamOwners, StoreReplayed(h)
    PROVE  IInv'
<1>1. h \in Handlers /\ at[h] = "replayed" /\ Moves(h, "recover", NoWork)
  BY DEF Handlers, StoreReplayed, Moves, Goes
<1>2. QED
  BY <1>1, OpensTask DEF StoreReplayed, IInv, TypeOK

\* A task that is current is there, and its release is not queued.
LEMMA CurrentIsReal ==
    ASSUME IInv, NEW t \in Tasks, Current(t)
    PROVE  /\ t <= created /\ task[t].release \in Releases /\ t # 0
           /\ release[task[t].release].task = t
           /\ release[task[t].release].status # "queued"
  BY DEF IInv, TypeOK, RowsRefer, Current, Tasks

\* A handler with a list of tasks and no work.
LEMMA ListKeeps ==
    ASSUME IInv, NEW h \in Handlers, at[h] = "idle", NEW step \in {"recover", "stale"},
           NEW ts \in SUBSET Tasks, \A t \in ts : Current(t),
           Goes(h, step), list' = [list EXCEPT ![h] = ts], UNCHANGED <<rows, on, work, raced, cut>>
    PROVE  IInv'
<1>1. on[h] = NoWork /\ step \in Steps
  BY DEF IInv, HandlersRefer, HandlerRefers, Waits, Steps
<1>2. Moves(h, step, NoWork)
  BY <1>1 DEF Moves, Goes, IInv, TypeOK
<1>3. RowsStay
  <2>1. list' \in [Handlers -> SUBSET Tasks]
    BY DEF IInv, TypeOK
  <2>2. ASSUME NEW k \in Handlers, NEW t \in Tasks, t \in list'[k] PROVE t <= created'
    <3>1. CASE k = h
      BY <2>2, <3>1, CurrentIsReal DEF rows, IInv, TypeOK
    <3>2. CASE k # h
      BY <2>2, <3>2, ListsReferNow DEF rows, IInv, TypeOK, ListsRefer
    <3>3. QED
      BY <3>1, <3>2
  <2>3. QED
    BY <2>1, <2>2 DEF RowsStay, rows, IInv, TypeOK, ListsRefer
<1>4. Quiet(h, step, NoWork) /\ Holds(step, NoWork) /\ KeepsRelease(h, step, NoWork)
  BY DEF Quiet, Holds, KeepsRelease, NoWork
<1>5. QED
  BY <1>1, <1>2, <1>3, <1>4, NoWorkIsWork, QuietKeeps DEF rows, WillEnd

\* RecoverAgentTasks lists the open tasks of the agent.
LEMMA ListRecoverableKeeps ==
    ASSUME IInv, NEW h \in StreamOwners, ListRecoverable(h)
    PROVE  IInv'
<1> DEFINE ts == {t \in Tasks : Current(t) /\ Running(t)}
<1>1. ts \in SUBSET Tasks /\ \A t \in ts : Current(t)
  OBVIOUS
<1>2. QED
  BY <1>1, ListKeeps DEF ListRecoverable, MayBegin, Busy, Handlers

\* FailStaleTasks lists the open tasks that are too old.
LEMMA ListActiveKeeps ==
    ASSUME IInv, ListActive
    PROVE  IInv'
<1> DEFINE ts == {t \in old : Current(t) /\ Running(t)}
<1>1. ts \in SUBSET Tasks
  BY DEF IInv, TypeOK
<1>2. QED
  BY <1>1, ListKeeps DEF ListActive, MayBegin, Busy, Handlers

\* A handler has come to the end of its list.
LEMMA AllDoneKeeps ==
    ASSUME IInv, NEW h \in Handlers, AllDone(h)
    PROVE  IInv'
<1>1. RowsStay
  BY ListsReferNow DEF AllDone, Returns, rows, RowsStay, IInv, TypeOK, ListsRefer
<1>2. QED
  BY <1>1, ReturnKeeps DEF AllDone, rows, WillEnd

\* RecoverAgentTasks comes to a task of its list.
LEMMA ReplayKeeps ==
    ASSUME IInv, NEW h \in StreamOwners, NEW t \in Tasks, ReplayTask(h, t)
    PROVE  IInv'
<1>1. h \in Handlers /\ at[h] = "recover" /\ t \in list[h] /\ on[h] = NoWork /\ t <= created
  BY DEF Handlers, ReplayTask, IInv, HandlersRefer, HandlerRefers, Waits
<1>2. RowsStay
  BY ListsReferNow DEF ReplayTask, Arrives, rows, RowsStay, IInv, TypeOK, ListsRefer
<1>3. CASE at' = at /\ on' = on
  <2>1. Moves(h, "recover", NoWork) /\ "recover" \in Steps
    BY <1>1, <1>3 DEF Moves, Steps, IInv, TypeOK
  <2>2. /\ Quiet(h, "recover", NoWork) /\ Holds("recover", NoWork)
        /\ KeepsRelease(h, "recover", NoWork)
    BY DEF Quiet, Holds, KeepsRelease, NoWork
  <2>3. QED
    BY <1>1, <1>2, <2>1, <2>2, NoWorkIsWork, QuietKeeps DEF ReplayTask, rows, WillEnd
<1>4. CASE /\ on' = [on EXCEPT ![h] = [release |-> task[t].release, task |-> t, retry |-> FALSE]]
           /\ Goes(h, "replayed")
  <2> DEFINE w == [release |-> task[t].release, task |-> t, retry |-> FALSE]
  <2>1. Moves(h, "replayed", w) /\ "replayed" \in Steps /\ w \in Work
    BY <1>4 DEF Moves, Goes, Steps, Work, IInv, TypeOK
  <2>2. Quiet(h, "replayed", w) /\ Holds("replayed", w) /\ KeepsRelease(h, "replayed", w)
    BY <1>1 DEF Quiet, Holds, KeepsRelease, ReplayTask, rows, Tasks
  <2>3. QED
    BY <1>1, <1>2, <2>1, <2>2, QuietKeeps DEF ReplayTask, rows, WillEnd
<1>5. QED
  BY <1>3, <1>4 DEF ReplayTask

\* The handler reads task t of release r and turns to it, noting the races.
TurnsTo(h, t, r, step, w, others) ==
    /\ Waits(h) /\ Current(t) /\ r = task[t].release
    /\ step \in {"deploying", "running", "succeeded", "failed", "timed out"}
    /\ step # "timed out" => ~Ends(release[r].status)
    /\ w \in Work /\ w.release = r /\ w.task = t /\ Moves(h, step, w)
    /\ Races(r, others)
    /\ others \in SUBSET Handlers
    /\ \A k \in Handlers : k \in others <=> on[k].release = r \/ Starting(k)
    /\ list' \in [Handlers -> SUBSET Tasks] /\ \A k \in Handlers : list'[k] \subseteq list[k]
    /\ UNCHANGED <<rows, cut>> /\ work' \subseteq Tasks

\* A handler reads what it will work on, and the races are noticed.
LEMMA ReadingKeeps ==
    ASSUME IInv, NEW h \in Handlers, NEW t \in Tasks, NEW r, NEW step, NEW w, NEW others,
           TurnsTo(h, t, r, step, w, others)
    PROVE  IInv'
<1> USE DEF TurnsTo
<1>0. r \in Releases
  BY CurrentIsReal
<1>1. t <= created /\ t # 0 /\ release[r].status # "queued"
  BY CurrentIsReal
<1>2. step \in Steps
  BY DEF Steps
<1>3. /\ \A k \in Handlers : on[k].release = r \/ Starting(k) =>
            r \in raced' /\ on[k].release \in raced'
      /\ raced \subseteq raced' /\ raced' \subseteq Releases \cup {0}
  <2>1. /\ raced \subseteq raced'
        /\ \A k \in others : r \in raced' /\ on[k].release \in raced'
        /\ \A x \in raced' :
              x \in raced \/ \E k \in others : x = r \/ x = on[k].release
    <3>1. raced' = raced \cup UNION {{r, on[k].release} : k \in others}
      BY DEF Races
    <3>2. ASSUME NEW k \in others PROVE r \in raced' /\ on[k].release \in raced'
      <4>1. {r, on[k].release} \in {{r, on[i].release} : i \in others}
        OBVIOUS
      <4>2. QED
        BY <3>1, <4>1
    <3>3. ASSUME NEW x \in raced', x \notin raced
          PROVE  \E k \in others : x = r \/ x = on[k].release
      <4>1. x \in UNION {{r, on[k].release} : k \in others}
        BY <3>1, <3>3
      <4>2. PICK k \in others : x \in {r, on[k].release}
        BY <4>1
      <4>3. QED
        BY <4>2
    <3>4. QED
      BY <3>1, <3>2, <3>3
  <2>2. \A k \in others : on[k].release \in Releases \cup {0}
    BY DEF IInv, TypeOK
  <2>3. raced \subseteq Releases \cup {0}
    BY DEF IInv, TypeOK
  <2>4. QED
    BY <1>0, <2>1, <2>2, <2>3
<1>4. RowsStay
  <2>1. raced \subseteq raced' /\ raced' \subseteq Releases \cup {0}
    BY <1>3
  <2>2. ListsRefer'
    BY ListsReferNow DEF ListsRefer, rows
  <2>3. QED
    BY <2>1, <2>2 DEF RowsStay, rows, IInv, TypeOK
<1>5. RacesNoticed'
  <2>1. \A k \in Handlers :
           k # h /\ Works(k) =>
              /\ on[k].release = w.release => w.release \in raced'
              /\ Starting(k) \/ step = "check" => w.release \in raced' /\ on[k].release \in raced'
    BY <1>3
  <2>2. TypeOK /\ RacesNoticed /\ step \notin {"supersede", "create"} /\ raced \subseteq raced'
    BY <1>3 DEF IInv, RaceInv
  <2>3. QED
    BY <1>2, <2>1, <2>2, PairsNoticed
<1>6. StuckHasHandler'
  BY <1>2, <1>4, QuietStuck DEF rows, WillEnd, Waits
<1>7. SeesRightly(h)'
  <2>1. at'[h] = step /\ on'[h] = w
    BY <1>2, Moved DEF IInv
  <2>2. step # "timed out" => Occupies(r)
    BY <1>0, <1>1 DEF Ends, Occupies, IInv, TypeOK
  <2>3. Deploys(h)' => Occupies(on[h].release)'
    <3>1. on'[h].release = r /\ release' = release
      BY <2>1 DEF rows
    <3>2. Deploys(h)' => step # "timed out"
      BY <2>1 DEF Deploys
    <3>3. QED
      BY <2>2, <3>1, <3>2 DEF Occupies
  <2>4. QED
    BY <2>1, <2>3 DEF SeesRightly
<1>8. Holds(step, w)
  BY <1>1 DEF Holds, rows
<1>9. QED
  BY <1>2, <1>4, <1>5, <1>6, <1>7, <1>8, MoveKeeps

\* The handlers stay where they are.
LEMMA NobodyMoves ==
    ASSUME IInv, RowsStay, UNCHANGED <<at, on, task, raced, cut>>
    PROVE  IInv'
<1> USE DEF RowsStay
<1>1. TypeOK'
  BY DEF IInv, TypeOK
<1>2. RowsRefer'
  BY RowsStillRefer
<1>3. HandlersRefer'
  BY DEF IInv, HandlersRefer, HandlerRefers, ListsRefer, Waits, Starting
<1>4. StuckHasHandler'
  <2>1. \A h \in Handlers : WillEnd(h)' <=> WillEnd(h)
    BY DEF WillEnd
  <2>2. QED
    BY <2>1 DEF IInv, StuckHasHandler, HasHandler, Active
<1>5. RacesNoticed' /\ OneOccupies' /\ ReadyOwns'
  BY DEF IInv, RaceInv, RacesNoticed, OneOccupies, ReadyOwns, Works, Starting, Occupies, Owns
<1>6. \A h \in Handlers : SeesRightly(h)'
  BY DEF IInv, RaceInv, SeesRightly, Deploys, Active, Occupies, Owns
<1>7. QED
  BY <1>1, <1>2, <1>3, <1>4, <1>5, <1>6 DEF IInv, RaceInv

\* HandleTaskUpdate reads the task and its release.
LEMMA ReadKeeps ==
    ASSUME IInv, NEW h \in StreamOwners, NEW t \in Tasks,
           NEW result \in {"running", "succeeded", "failed"}, Reads(h, t, result)
    PROVE  IInv'
<1> DEFINE r == task[t].release
           step == IF result # "running" THEN result
                   ELSE IF release[r].status = "dispatching" THEN "deploying" ELSE "running"
<1>1. h \in Handlers /\ Waits(h) /\ work' \subseteq Tasks /\ UNCHANGED <<rows, cut>>
  BY DEF Handlers, Waits, Reads, MayBegin, Busy, IInv, TypeOK
<1>2. CASE Current(t) /\ Running(t) /\ ~Ends(release[r].status)
  <2> DEFINE others == {k \in Handlers : on[k].release = r \/ Starting(k)}
             w == [release |-> r, task |-> t, retry |-> FALSE]
  <2>1. /\ Goes(h, step) /\ UNCHANGED list
        /\ on' = [on EXCEPT ![h] = w]
        /\ Races(r, others)
    BY <1>2 DEF Reads
  <2>2. step \in {"deploying", "running", "succeeded", "failed", "timed out"}
    OBVIOUS
  <2>3. list' \in [Handlers -> SUBSET Tasks] /\ \A k \in Handlers : list'[k] \subseteq list[k]
    BY <2>1 DEF IInv, TypeOK
  <2>4. r \in Releases
    BY <1>2, CurrentIsReal
  <2>5. w \in Work /\ w.release = r /\ w.task = t /\ Moves(h, step, w)
    BY <2>1, <2>4 DEF Work, Moves, Goes
  <2>6. TurnsTo(h, t, r, step, w, others)
    BY <1>1, <1>2, <2>1, <2>2, <2>3, <2>5 DEF TurnsTo
  <2>7. QED
    BY <1>1, <2>6, ReadingKeeps
<1>3. CASE ~(Current(t) /\ Running(t) /\ ~Ends(release[r].status))
  <2>1. UNCHANGED <<at, on, list, raced>>
    BY <1>3 DEF Reads
  <2>2. RowsStay
    BY <1>1, <2>1, ListsReferNow DEF RowsStay, rows, IInv, TypeOK, ListsRefer
  <2>3. QED
    BY <1>1, <2>1, <2>2, NobodyMoves DEF rows
<1>4. QED
  BY <1>2, <1>3

\* FailStaleTasks reads the release of a task of its list.
LEMMA ReadStaleKeeps ==
    ASSUME IInv, NEW t \in Tasks, ReadStale(t)
    PROVE  IInv'
<1> DEFINE r == task[t].release
<1>1. /\ Timer \in Handlers /\ Waits(Timer) /\ UNCHANGED <<rows, work, cut>>
      /\ list' \in [Handlers -> SUBSET Tasks]
      /\ \A k \in Handlers : list'[k] \subseteq list[k]
  BY DEF Handlers, Waits, ReadStale, IInv, TypeOK
<1>2. CASE Current(t) /\ ~Ends(release[r].status)
  <2> DEFINE others == {k \in Handlers : on[k].release = r \/ Starting(k)}
             w == [release |-> r, task |-> t, retry |-> FALSE]
  <2>1. /\ Goes(Timer, "timed out")
        /\ on' = [on EXCEPT ![Timer] = w]
        /\ Races(r, others)
    BY <1>2 DEF ReadStale
  <2>2. work' \subseteq Tasks
    BY <1>1 DEF IInv, TypeOK
  <2>3. r \in Releases
    BY <1>2, CurrentIsReal
  <2>4. w \in Work /\ w.release = r /\ w.task = t /\ Moves(Timer, "timed out", w)
    BY <2>1, <2>3 DEF Work, Moves, Goes
  <2>5. TurnsTo(Timer, t, r, "timed out", w, others)
    BY <1>1, <1>2, <2>1, <2>2, <2>4 DEF TurnsTo
  <2>6. QED
    BY <1>1, <2>5, ReadingKeeps
<1>3. CASE ~(Current(t) /\ ~Ends(release[r].status))
  <2>1. UNCHANGED <<at, on, raced>>
    BY <1>3 DEF ReadStale
  <2>2. RowsStay
    BY <1>1, <2>1, ListsReferNow DEF RowsStay, rows, IInv, TypeOK, ListsRefer
  <2>3. QED
    BY <1>1, <2>1, <2>2, NobodyMoves DEF rows
<1>4. QED
  BY <1>2, <1>3

\* Time passes, or the agent stops working on a task.
LEMMA AgeKeeps ==
    ASSUME IInv, NEW t \in Tasks, Ages(t) \/ AgentStops(t)
    PROVE  IInv'
<1>1. RowsStay
  BY ListsReferNow DEF Ages, AgentStops, RowsStay, rows, IInv, TypeOK, ListsRefer
<1>2. QED
  BY <1>1, NobodyMoves DEF Ages, AgentStops, rows

\* Nothing happens.
LEMMA StutterKeeps ==
    ASSUME IInv, UNCHANGED vars
    PROVE  IInv'
<1>1. RowsStay
  BY ListsReferNow DEF vars, rows, RowsStay, IInv, TypeOK, ListsRefer
<1>2. QED
  BY <1>1, NobodyMoves DEF vars, rows

----------------------------------------------------------------------------
(* Steps that change the rows of several releases, or create one.          *)

\* completeSupersededRelease closes the candidates that wait.
LEMMA SupersedeKeeps ==
    ASSUME IInv, NEW a \in Admins, completeSupersededRelease(a)
    PROVE  IInv'
<1>1. /\ a \in Handlers /\ at[a] = "supersede" /\ on[a] \in Work /\ "create" \in Steps
      /\ Moves(a, "create", on[a])
      /\ UNCHANGED <<task, instance, created, old, list, work, raced, cut>>
  BY DEF Handlers, completeSupersededRelease, Moves, Goes, Stays, Steps, Work, IInv, TypeOK
<1>2. /\ at'[a] = "create" /\ on'[a] = on[a]
      /\ \A k \in Handlers : k # a => at'[k] = at[k] /\ on'[k] = on[k]
      /\ at' \in [Handlers -> Steps] /\ on' \in [Handlers -> Work]
  BY <1>1, Moved DEF IInv
<1>3. \A x \in Releases :
         IF x # on[a].release /\ release[x].status = "ready"
         THEN (release')[x].task = release[x].task /\ (release')[x].status = "completed"
         ELSE (release')[x] = release[x]
  BY DEF completeSupersededRelease, IInv, TypeOK
<1>4. release' \in [Releases -> [status : {"queued", "dispatching", "deploying", "ready",
                                           "completed", "failed", "skipped"},
                                 task : Tasks \cup {0}]]
  BY DEF completeSupersededRelease, IInv, TypeOK
<1>5. TypeOK'
  BY <1>1, <1>2, <1>4 DEF IInv, TypeOK, Work
<1>6. RowsRefer'
  BY <1>1, <1>3 DEF IInv, RowsRefer, Occupies
<1>7. HandlersRefer'
  <2>1. created' \in Nat /\ TasksStay /\ ListsRefer' /\ list' \in [Handlers -> SUBSET Tasks]
    BY <1>1, StepsAssumption, ListsReferNow DEF IInv, TypeOK, TasksStay, ListsRefer
  <2>2. Holds("create", on[a])
    BY <1>1 DEF Holds, Starting, IInv, HandlersRefer, HandlerRefers
  <2>3. QED
    BY <1>1, <2>1, <2>2, HandlersStillRefer DEF IInv
<1>8. StuckHasHandler'
  <2> SUFFICES ASSUME NEW x \in Releases, Active(x)',
                      (task')[(release')[x].task].status = "ended"
               PROVE  HasHandler(x)'
    BY DEF StuckHasHandler
  <2>1. Active(x) /\ (release')[x] = release[x]
    BY <1>3, <1>4 DEF Active, IInv, TypeOK
  <2>2. HasHandler(x)
    BY <1>1, <2>1 DEF IInv, StuckHasHandler
  <2>3. QED
    BY <1>1, <2>1, <2>2, StillHasHandler DEF IInv, WillEnd
<1>9. RacesNoticed'
  BY <1>1, PairsKept DEF KeepsRelease, Starting, IInv, RaceInv
<1>10. /\ \A x \in Releases : Occupies(x)' => Occupies(x)
       /\ \A x \in Releases : Active(x)' => Active(x)
       /\ \A x \in Releases : (release')[x].status = "ready" => release[x].status = "ready"
  BY <1>3 DEF Occupies, Active
<1>11. OneOccupies' /\ ReadyOwns'
  BY <1>1, <1>10 DEF IInv, RaceInv, OneOccupies, ReadyOwns, Owns
<1>12. ASSUME NEW k \in Handlers PROVE SeesRightly(k)'
  <2>1. SeesRightly(k) /\ SeesRightly(a)
    BY <1>1 DEF IInv, RaceInv
  <2>2. CASE k = a
    <3>1. \A x \in Releases : Occupies(x)' => x = on[a].release \/ Active(x)
      BY <1>3 DEF Occupies, Active
    <3>2. QED
      BY <1>1, <1>2, <2>1, <2>2, <3>1 DEF SeesRightly, Deploys
  <2>3. CASE k # a
    <3>1. at'[k] = at[k] /\ on'[k] = on[k] /\ raced' = raced /\ instance' = instance
      BY <1>1, <1>2, <2>3
    <3>2. Deploys(k) => on[k].release \in raced
      BY <1>1, <2>3
      DEF Deploys, Works, Waits, Starting, IInv, RaceInv, RacesNoticed, HandlersRefer,
          HandlerRefers, RowsRefer, TypeOK
    <3>3. QED
      BY <1>10, <2>1, <3>1, <3>2 DEF SeesRightly, Deploys, Owns
  <2>4. QED
    BY <2>2, <2>3
<1>13. QED
  BY <1>5, <1>6, <1>7, <1>8, <1>9, <1>11, <1>12 DEF IInv, RaceInv

\* autoSkipQueuedBeforeStart skips the older releases that are queued.
LEMMA SkipKeeps ==
    ASSUME IInv, NEW a \in Admins, autoSkipQueuedBeforeStart(a)
    PROVE  IInv'
<1>1. /\ a \in Handlers /\ at[a] = "skip" /\ "idle" \in Steps
      /\ Moves(a, "idle", NoWork)
      /\ UNCHANGED <<task, instance, created, old, work, raced, cut>>
      /\ list' \in [Handlers -> SUBSET Tasks]
      /\ \A k \in Handlers : list'[k] \subseteq list[k]
  BY DEF Handlers, autoSkipQueuedBeforeStart, Moves, Returns, Steps, IInv, TypeOK
<1>2. /\ at'[a] = "idle" /\ on'[a] = NoWork
      /\ \A k \in Handlers : k # a => at'[k] = at[k] /\ on'[k] = on[k]
      /\ at' \in [Handlers -> Steps] /\ on' \in [Handlers -> Work]
  BY <1>1, NoWorkIsWork, Moved DEF IInv
<1>3. \A x \in Releases :
         \/ (release')[x] = release[x]
         \/ /\ release[x].status = "queued" /\ (release')[x].status = "skipped"
            /\ (release')[x].task = release[x].task
  BY DEF autoSkipQueuedBeforeStart, IInv, TypeOK
<1>4. release' \in [Releases -> [status : {"queued", "dispatching", "deploying", "ready",
                                           "completed", "failed", "skipped"},
                                 task : Tasks \cup {0}]]
  BY DEF autoSkipQueuedBeforeStart, IInv, TypeOK
<1>5. TypeOK'
  BY <1>1, <1>2, <1>4 DEF IInv, TypeOK, Work
<1>6. RowsRefer'
  BY <1>1, <1>3 DEF IInv, RowsRefer, Occupies
<1>7. HandlersRefer'
  <2>1. created' \in Nat /\ TasksStay /\ ListsRefer'
    BY <1>1, StepsAssumption, ListsReferNow DEF IInv, TypeOK, TasksStay, ListsRefer
  <2>2. Holds("idle", NoWork)
    BY DEF Holds, NoWork
  <2>3. QED
    BY <1>1, <2>1, <2>2, NoWorkIsWork, HandlersStillRefer DEF IInv
<1>8. StuckHasHandler'
  <2> SUFFICES ASSUME NEW x \in Releases, Active(x)',
                      (task')[(release')[x].task].status = "ended"
               PROVE  HasHandler(x)'
    BY DEF StuckHasHandler
  <2>1. Active(x) /\ (release')[x] = release[x]
    BY <1>3, <1>4 DEF Active, IInv, TypeOK
  <2>2. HasHandler(x)
    BY <1>1, <2>1 DEF IInv, StuckHasHandler
  <2>3. QED
    BY <1>1, <2>1, <2>2, NoWorkIsWork, StillHasHandler DEF IInv, WillEnd
<1>9. RacesNoticed'
  BY <1>1, NoWorkIsWork, PairsKept DEF KeepsRelease, NoWork, IInv, RaceInv
<1>10. /\ \A x \in Releases : Occupies(x)' <=> Occupies(x)
       /\ \A x \in Releases : Active(x)' <=> Active(x)
       /\ \A x \in Releases : (release')[x].status = "ready" <=> release[x].status = "ready"
  BY <1>3 DEF Occupies, Active
<1>11. OneOccupies' /\ ReadyOwns'
  BY <1>1, <1>10 DEF IInv, RaceInv, OneOccupies, ReadyOwns, Owns
<1>12. ASSUME NEW k \in Handlers PROVE SeesRightly(k)'
  <2>1. SeesRightly(k)
    BY DEF IInv, RaceInv
  <2>2. CASE k = a
    BY <1>2, <2>2 DEF SeesRightly, Deploys
  <2>3. CASE k # a
    <3>1. at'[k] = at[k] /\ on'[k] = on[k] /\ raced' = raced /\ instance' = instance
      BY <1>1, <1>2, <2>3
    <3>2. Deploys(k) => on[k].release \in Releases
      BY WorkIsReal DEF Deploys, Waits, Starting
    <3>3. Deploys(k)' => on'[k].release \in raced' \/ Occupies(on[k].release)'
      BY <1>3, <2>1, <3>1, <3>2 DEF SeesRightly, Deploys, Occupies
    <3>4. QED
      BY <1>10, <2>1, <3>1, <3>3 DEF SeesRightly, Deploys, Owns
  <2>4. QED
    BY <2>2, <2>3
<1>13. QED
  BY <1>5, <1>6, <1>7, <1>8, <1>9, <1>11, <1>12 DEF IInv, RaceInv

\* The new task is that of the release, which now occupies the service; who else
\* was about to start one is in a race with it.
LEMMA CreatesKeeps ==
    ASSUME IInv, NEW a \in Admins, at[a] = "create", NEW r \in Releases, r = on[a].release,
           NEW t \in Tasks, t = created + 1, created' = t,
           task' = [task EXCEPT ![t] = [release |-> r, status |-> "open"]],
           NEW w \in Work, w.release = r, w.task = t, Moves(a, "mark", w),
           StoreRelease(r, "dispatching", t),
           UNCHANGED <<instance, old, list, work, raced, cut>>
    PROVE  IInv'
<1>1. a \in Handlers /\ "mark" \in Steps /\ Starting(a) /\ Works(a)
  BY DEF Handlers, Steps, Starting, Works, Releases
<1>2. /\ at'[a] = "mark" /\ on'[a] = w
      /\ \A k \in Handlers : k # a => at'[k] = at[k] /\ on'[k] = on[k]
      /\ at' \in [Handlers -> Steps] /\ on' \in [Handlers -> Work]
  BY <1>1, Moved DEF IInv
<1>3. /\ release' \in [Releases -> [status : {"queued", "dispatching", "deploying", "ready",
                                              "completed", "failed", "skipped"},
                                    task : Tasks \cup {0}]]
      /\ (release')[r].status = "dispatching" /\ (release')[r].task = t
      /\ \A x \in Releases : x # r => (release')[x] = release[x]
  BY DEF StoreRelease, IInv, TypeOK
<1>4. /\ task' \in [Tasks -> [release : Releases \cup {0}, status : {"none", "open", "ended"}]]
      /\ (task')[t].release = r /\ (task')[t].status = "open"
      /\ \A x \in Tasks : x # t => (task')[x] = task[x]
  BY DEF IInv, TypeOK
<1>5. created \in Nat /\ t \in Nat /\ t # 0 /\ t \in 0..MaxTasks /\ Tasks \subseteq Nat
  BY StepsAssumption DEF IInv, TypeOK, Tasks
<1>6. TypeOK'
  BY <1>2, <1>3, <1>4, <1>5 DEF IInv, TypeOK, Work
<1>7. RowsRefer'
  <2>1. ASSUME NEW x \in Tasks
        PROVE  /\ (task')[x].release # 0 <=> x <= created'
               /\ (task')[x].status # "none" <=> x <= created'
    <3>1. CASE x = t
      BY <1>4, <1>5, <3>1 DEF Releases
    <3>2. CASE x # t
      <4>1. x <= created <=> x <= created'
        BY <1>5, <3>2
      <4>2. QED
        BY <1>4, <3>2, <4>1 DEF IInv, RowsRefer
    <3>3. QED
      BY <3>1, <3>2
  <2>2. ASSUME NEW x \in Releases
        PROVE  LET q == (release')[x].task IN
               /\ q # 0 => q <= created' /\ (task')[q].release = x
               /\ Occupies(x)' => q # 0
               /\ (release')[x].status = "queued" => q = 0
    <3>1. CASE x = r
      BY <1>3, <1>4, <1>5, <3>1
    <3>2. CASE x # r
      <4>1. release[x].task \in Tasks \cup {0}
        BY DEF IInv, TypeOK
      <4>2. release[x].task # 0 => release[x].task <= created /\ release[x].task # t
        BY <1>5, <4>1 DEF IInv, RowsRefer
      <4>3. release[x].task # 0 => task[release[x].task].release = x
        BY DEF IInv, RowsRefer
      <4>4. release[x].task # 0 => release[x].task <= created' /\ (task')[release[x].task].release = x
        <5> SUFFICES ASSUME release[x].task # 0
                     PROVE  /\ release[x].task <= created'
                            /\ (task')[release[x].task].release = x
          OBVIOUS
        <5>1. release[x].task \in Tasks /\ release[x].task \in Nat
          BY <1>5, <4>1
        <5>2. release[x].task <= created'
          BY <1>5, <4>2, <5>1
        <5>3. (task')[release[x].task] = task[release[x].task]
          BY <1>4, <4>2, <5>1
        <5>4. QED
          BY <4>3, <5>2, <5>3
      <4>5. /\ Occupies(x) => release[x].task # 0
            /\ release[x].status = "queued" => release[x].task = 0
        BY DEF IInv, RowsRefer
      <4>6. (release')[x] = release[x]
        BY <1>3, <3>2
      <4>7. QED
        BY <4>4, <4>5, <4>6 DEF Occupies
    <3>3. QED
      BY <3>1, <3>2
  <2>3. QED
    BY <2>1, <2>2 DEF RowsRefer
<1>8. HandlersRefer'
  <2>1. created' \in Nat /\ TasksStay
    BY <1>4, <1>5 DEF TasksStay
  <2>2. ListsRefer' /\ list' \in [Handlers -> SUBSET Tasks]
    <3>1. list' = list /\ list \in [Handlers -> SUBSET Tasks]
      BY DEF IInv, TypeOK
    <3>2. QED
      BY <1>5, <3>1, ListsReferNow DEF ListsRefer
  <2>3. Holds("mark", w)
    BY <1>4, <1>5 DEF Holds
  <2>4. QED
    BY <1>1, <2>1, <2>2, <2>3, HandlersStillRefer DEF IInv
<1>9. StuckHasHandler'
  <2> SUFFICES ASSUME NEW x \in Releases, Active(x)',
                      (task')[(release')[x].task].status = "ended"
               PROVE  HasHandler(x)'
    BY DEF StuckHasHandler
  <2>1. x # r /\ (release')[x] = release[x] /\ Active(x)
    BY <1>3, <1>4 DEF Active
  <2>2. release[x].task \in Tasks /\ release[x].task <= created
    BY <2>1 DEF IInv, TypeOK, RowsRefer, Active, Occupies
  <2>3. task[release[x].task].status = "ended"
    BY <1>4, <1>5, <2>1, <2>2
  <2>4. HasHandler(x)
    BY <2>1, <2>3 DEF IInv, StuckHasHandler
  <2>5. QED
    BY <1>1, <2>1, <2>4, StillHasHandler DEF IInv, WillEnd
<1>10. RacesNoticed'
  BY <1>1, PairsKept DEF KeepsRelease, IInv, RaceInv
<1>11. \A x \in Releases : Occupies(x) => x = r \/ x \in raced
  BY <1>1 DEF IInv, RaceInv, SeesRightly
<1>12. \A x \in Releases : x # r => (Occupies(x)' <=> Occupies(x)) /\ (Active(x)' <=> Active(x))
  BY <1>3 DEF Occupies, Active
<1>13. OneOccupies'
  BY <1>11, <1>12 DEF IInv, RaceInv, OneOccupies
<1>14. ReadyOwns'
  BY <1>3 DEF IInv, RaceInv, ReadyOwns, Owns
<1>15. ASSUME NEW k \in Handlers PROVE SeesRightly(k)'
  <2>1. SeesRightly(k)
    BY DEF IInv, RaceInv
  <2>2. CASE k = a
    BY <1>2, <2>2 DEF SeesRightly, Deploys
  <2>3. CASE k # a
    <3>1. at'[k] = at[k] /\ on'[k] = on[k] /\ raced' = raced /\ instance' = instance
      BY <1>2, <2>3
    <3>2. Starting(k) => r \in raced
      BY <1>1, <2>3 DEF IInv, RaceInv, RacesNoticed, HandlersRefer, HandlerRefers, Works, Starting
    <3>3. Deploys(k) => on[k].release \in Releases
      BY WorkIsReal DEF Deploys, Waits, Starting
    <3>4. Occupies(r)'
      BY <1>3 DEF Occupies
    <3>5. Deploys(k)' => on'[k].release \in raced' \/ Occupies(on[k].release)'
      BY <1>12, <2>1, <3>1, <3>3, <3>4 DEF SeesRightly, Deploys
    <3>6. at'[k] = "supersede" => \A x \in Releases : Active(x)' => x \in raced'
      BY <1>12, <2>1, <3>1, <3>2 DEF SeesRightly, Starting
    <3>7. at'[k] = "create" =>
             \A x \in Releases : Occupies(x)' => x = on'[k].release \/ x \in raced'
      BY <1>12, <2>1, <3>1, <3>2 DEF SeesRightly, Starting
    <3>8. at'[k] = "ready" => Owns(on[k].release)'
      BY <2>1, <3>1 DEF SeesRightly, Owns
    <3>9. QED
      BY <3>1, <3>5, <3>6, <3>7, <3>8 DEF SeesRightly, Occupies
  <2>4. QED
    BY <2>2, <2>3
<1>16. QED
  BY <1>6, <1>7, <1>8, <1>9, <1>10, <1>13, <1>14, <1>15 DEF IInv, RaceInv

\* Start and Retry create a task, or give up before.
LEMMA CreateKeeps ==
    ASSUME IInv, NEW a \in Admins, CreateTask(a)
    PROVE  IInv'
<1> DEFINE r == on[a].release  t == created + 1  w == [on[a] EXCEPT !.task = t]
<1>1. a \in Handlers /\ at[a] = "create" /\ on[a] \in Work /\ r \in Releases
  BY DEF Handlers, Work, CreateTask, IInv, TypeOK, HandlersRefer, HandlerRefers, Starting
<1>2. CASE created' = t /\ created < MaxTasks
           /\ task' = [task EXCEPT ![t] = [release |-> r, status |-> "open"]]
           /\ on' = [on EXCEPT ![a].task = t] /\ Goes(a, "mark") /\ UNCHANGED list
           /\ StoreRelease(r, "dispatching", t)
  <2>1. t \in Tasks
    BY <1>2, StepsAssumption DEF IInv, TypeOK, Tasks
  <2>2. w \in Work /\ w.release = r /\ w.task = t
    BY <1>1, <2>1 DEF Work
  <2>3. Moves(a, "mark", w)
    BY <1>2 DEF Moves, Goes
  <2> HIDE DEF r, t, w
  <2>4. r = on[a].release /\ t = created + 1
    BY DEF r, t
  <2>5. UNCHANGED <<instance, old, list, work, raced, cut>>
    BY <1>2 DEF CreateTask
  <2>6. QED
    BY <1>1, <1>2, <2>1, <2>2, <2>3, <2>4, <2>5, CreatesKeeps
<1>3. CASE Returns(a) /\ UNCHANGED <<release, task, created>>
  <2>1. RowsStay
    BY <1>3, ListsReferNow DEF CreateTask, Returns, rows, RowsStay, IInv, TypeOK, ListsRefer
  <2>2. QED
    BY <1>1, <1>3, <2>1, ReturnKeeps DEF WillEnd
<1>4. QED
  BY <1>2, <1>3 DEF CreateTask

----------------------------------------------------------------------------
(* Faults.                                                                 *)

\* The handlers that are gone leave the release between two stores noted in cut.
LEMMA FaultKeeps ==
    ASSUME IInv, NEW gone \in SUBSET Handlers, Fault(gone)
    PROVE  IInv'
<1>1. /\ at' = [h \in Handlers |-> IF h \in gone THEN "idle" ELSE at[h]]
      /\ on' = [h \in Handlers |-> IF h \in gone THEN NoWork ELSE on[h]]
      /\ list' = [h \in Handlers |-> IF h \in gone THEN {} ELSE list[h]]
      /\ UNCHANGED <<release, task, instance, created, old, work, raced>>
  BY DEF Fault, rows
<1>2. \A h \in Handlers :
         IF h \in gone THEN at'[h] = "idle" /\ on'[h] = NoWork /\ list'[h] = {}
         ELSE at'[h] = at[h] /\ on'[h] = on[h] /\ list'[h] = list[h]
  BY <1>1
<1>3. /\ cut \subseteq cut' /\ cut' \subseteq Releases \cup {0}
      /\ \A h \in gone : HalfStored(h) => on[h].release \in cut'
  <2>1. cut' = cut \cup {on[h].release : h \in {x \in gone : HalfStored(x)}}
    BY DEF Fault
  <2>2. \A h \in gone : on[h].release \in Releases \cup {0}
    BY DEF IInv, TypeOK
  <2>3. cut \subseteq Releases \cup {0}
    BY DEF IInv, TypeOK
  <2>4. QED
    BY <2>1, <2>2, <2>3
<1>4. TypeOK'
  <2>1. at' \in [Handlers -> Steps] /\ on' \in [Handlers -> Work]
        /\ list' \in [Handlers -> SUBSET Tasks]
    BY <1>1, NoWorkIsWork DEF IInv, TypeOK, Work, Steps
  <2>2. QED
    BY <1>1, <1>3, <2>1 DEF IInv, TypeOK, Work
<1>5. RowsRefer'
  BY <1>1 DEF IInv, RowsRefer, Occupies
<1>6. ASSUME NEW h \in Handlers PROVE HandlerRefers(h)'
  <2>1. HandlerRefers(h)
    BY DEF IInv, HandlersRefer
  <2>2. CASE h \in gone
    BY <1>2, <2>2 DEF HandlerRefers, Waits, Starting, NoWork
  <2>3. CASE h \notin gone
    <3>1. at'[h] = at[h] /\ on'[h] = on[h] /\ list'[h] = list[h]
      BY <1>2, <2>3
    <3>2. QED
      BY <1>1, <2>1, <3>1 DEF HandlerRefers, Waits, Starting
  <2>4. QED
    BY <2>2, <2>3
<1>7. StuckHasHandler'
  <2> SUFFICES ASSUME NEW r \in Releases, Active(r), task[release[r].task].status = "ended"
               PROVE  HasHandler(r)'
    BY <1>1 DEF StuckHasHandler, Active
  <2>1. HasHandler(r)
    BY DEF IInv, StuckHasHandler
  <2>2. CASE r \in cut
    BY <1>3, <2>2 DEF HasHandler
  <2>3. ASSUME NEW h \in Handlers, on[h].release = r, WillEnd(h)
        PROVE  HasHandler(r)'
    <3>1. CASE h \in gone
      BY <1>3, <2>3, <3>1 DEF HasHandler, WillEnd, HalfStored
    <3>2. CASE h \notin gone
      <4>1. at'[h] = at[h] /\ on'[h] = on[h]
        BY <1>2, <3>2
      <4>2. on'[h].release = r /\ WillEnd(h)'
        BY <1>1, <2>3, <4>1 DEF WillEnd
      <4>3. QED
        BY <4>2 DEF HasHandler
    <3>3. QED
      BY <3>1, <3>2
  <2>4. QED
    BY <2>1, <2>2, <2>3 DEF HasHandler
<1>8. RacesNoticed'
  <2> SUFFICES ASSUME NEW h \in Handlers, NEW k \in Handlers, h # k, Works(h)', Works(k)'
               PROVE  /\ on'[h].release = on'[k].release => on'[h].release \in raced'
                      /\ Starting(h)' => on'[h].release \in raced' /\ on'[k].release \in raced'
    BY DEF RacesNoticed
  <2>1. h \notin gone /\ k \notin gone
    BY <1>2 DEF Works, NoWork
  <2>2. at'[h] = at[h] /\ on'[h] = on[h] /\ at'[k] = at[k] /\ on'[k] = on[k]
    BY <1>2, <2>1
  <2>3. Works(h) /\ Works(k) /\ RacesNoticed
    BY <2>2 DEF Works, IInv, RaceInv
  <2>4. QED
    BY <1>1, <2>2, <2>3 DEF RacesNoticed, Starting
<1>9. OneOccupies' /\ ReadyOwns'
  BY <1>1 DEF IInv, RaceInv, OneOccupies, ReadyOwns, Occupies, Owns
<1>10. ASSUME NEW h \in Handlers PROVE SeesRightly(h)'
  <2>1. SeesRightly(h)
    BY DEF IInv, RaceInv
  <2>2. CASE h \in gone
    BY <1>2, <2>2 DEF SeesRightly, Deploys
  <2>3. CASE h \notin gone
    <3>1. at'[h] = at[h] /\ on'[h] = on[h]
      BY <1>2, <2>3
    <3>2. QED
      BY <1>1, <2>1, <3>1 DEF SeesRightly, Deploys, Active, Occupies, Owns
  <2>4. QED
    BY <2>2, <2>3
<1>11. QED
  BY <1>4, <1>5, <1>6, <1>7, <1>8, <1>9, <1>10 DEF IInv, HandlersRefer, RaceInv

----------------------------------------------------------------------------
(* The theorems.                                                           *)

\* The invariant holds when nothing was started.
LEMMA InitInv ==
    ASSUME Init
    PROVE  IInv
<1>1. TypeOK
  BY StepsAssumption DEF Init, TypeOK, Steps, NoWork
<1>2. RowsRefer
  BY StepsAssumption DEF Init, RowsRefer, Occupies, Tasks
<1>3. HandlersRefer
  BY DEF Init, HandlersRefer, HandlerRefers, Waits, Starting, NoWork
<1>4. StuckHasHandler
  BY DEF Init, StuckHasHandler, Active
<1>5. RaceInv
  BY DEF Init, RaceInv, RacesNoticed, OneOccupies, ReadyOwns, SeesRightly, Works, Deploys,
         Occupies, Active, NoWork
<1>6. QED
  BY <1>1, <1>2, <1>3, <1>4, <1>5 DEF IInv

\* Every step of Start and Retry keeps the invariant.
LEMMA AdminStepKeeps ==
    ASSUME IInv, NEW a \in Admins, AdminStep(a)
    PROVE  IInv'
  BY CheckKeeps, SupersedeKeeps, CreateKeeps, MarkKeeps, DispatchKeeps, DeferKeeps,
     FailDispatchKeeps, SkipKeeps DEF AdminStep

\* Every step of an agent's stream keeps the invariant.
LEMMA StreamStepKeeps ==
    ASSUME IInv, NEW h \in StreamOwners, StreamStep(h)
    PROVE  IInv'
<1>1. h \in Handlers
  BY DEF Handlers
<1>2. QED
  BY <1>1, RunningKeeps, SucceededKeeps, FailedKeeps, ReplayKeeps, StoreReplayedKeeps, AllDoneKeeps
  DEF StreamStep

\* Every step of FailStaleTasks keeps the invariant.
LEMMA TimerStepKeeps ==
    ASSUME IInv, TimerStep
    PROVE  IInv'
<1>1. Timer \in Handlers
  BY DEF Handlers
<1>2. QED
  BY <1>1, ListActiveKeeps, ReadStaleKeeps, FailStaleKeeps, AllDoneKeeps DEF TimerStep

\* Every step keeps the invariant.
LEMMA NextKeeps ==
    ASSUME IInv, [Next]_vars
    PROVE  IInv'
<1>1. CASE \E a \in Admins : AdminStep(a) \/ \E r \in Releases : Begin(a, r)
  BY <1>1, AdminStepKeeps, BeginKeeps
<1>2. CASE \E h \in StreamOwners :
              \/ StreamStep(h) \/ ListRecoverable(h)
              \/ \E t \in Tasks, result \in {"running", "succeeded", "failed"} :
                    Reads(h, t, result)
  BY <1>2, StreamStepKeeps, ListRecoverableKeeps, ReadKeeps
<1>3. CASE TimerStep
  BY <1>3, TimerStepKeeps
<1>4. CASE \E t \in Tasks : Ages(t) \/ AgentStops(t)
  BY <1>4, AgeKeeps
<1>5. CASE Crash
  <2>1. {h \in Handlers : Busy(h)} \in SUBSET Handlers
    OBVIOUS
  <2>2. QED
    BY <1>5, <2>1, FaultKeeps DEF Crash
<1>6. CASE \E h \in Handlers : CallFails(h)
  <2>1. \A h \in Handlers : {h} \in SUBSET Handlers
    OBVIOUS
  <2>2. QED
    BY <1>6, <2>1, FaultKeeps DEF CallFails
<1>7. CASE UNCHANGED vars
  BY <1>7, StutterKeeps
<1>8. QED
  BY <1>1, <1>2, <1>3, <1>4, <1>5, <1>6, <1>7 DEF Next

\* Whatever the order in which administrators, streams and the recovery
\* scheduler come to the rows, and wherever a stop or a failed call ends a
\* handler, the invariant holds: it is what the order of the stores in
\* release/application/service.go establishes without a transaction.
THEOREM Inductive == Spec => []IInv
<1>1. Init => IInv
  BY InitInv
<1>2. IInv /\ [Next]_vars => IInv'
  BY NextKeeps
<1>3. QED
  BY <1>1, <1>2, PTL DEF Spec

\* The rows of releases and tasks and what the handlers hold stay well formed.
THEOREM TypeCorrect == Spec => []TypeOK
<1>1. IInv => TypeOK
  BY DEF IInv
<1>2. QED
  BY <1>1, Inductive, PTL

\* HasActiveRelease in Start and Retry lets two releases of a service be deployed
\* at once only when handlers of one of them and of a start overlap, for any
\* number of administrators.
THEOREM DoubleDeploymentNeedsRace == Spec => []DoubleOnlyByRace
<1>1. IInv => DoubleOnlyByRace
  BY DEF IInv, RaceInv, OneOccupies, Occupies, Active, DoubleOnlyByRace
<1>2. QED
  BY <1>1, Inductive, PTL

\* A release is left behind an ended task only by a stop or a failed call between
\* the store of the task and that of the release.
THEOREM StuckNeedsStop == Spec => []StuckOnlyByStop
<1>1. ASSUME IInv PROVE StuckOnlyByStop
  <2> SUFFICES ASSUME NEW r \in Releases, Active(r), ~Running(release[r].task)
               PROVE  r \in cut \/ \E h \in Handlers : Busy(h) /\ on[h].release = r
    BY DEF StuckOnlyByStop
  <2>1. release[r].task \in Tasks /\ release[r].task <= created
    BY <1>1 DEF IInv, TypeOK, RowsRefer, Active, Occupies
  <2>2. task[release[r].task].status = "ended"
    BY <1>1, <2>1 DEF IInv, TypeOK, RowsRefer, Running
  <2>3. HasHandler(r)
    BY <1>1, <2>2 DEF IInv, StuckHasHandler
  <2>4. QED
    BY <2>3 DEF HasHandler, WillEnd, Busy
<1>2. QED
  BY <1>1, Inductive, PTL

\* applyTaskSuccess stores the instance before the release, so a candidate that
\* waits for its switch owns the instance in the slot unless it was in a race.
THEOREM CandidateOwnsItsSlot == Spec => []CandidateOwnsSlot
<1>1. IInv => CandidateOwnsSlot
  BY DEF IInv, RaceInv, ReadyOwns, Owns, CandidateOwnsSlot
<1>2. QED
  BY <1>1, Inductive, PTL

=============================================================================
