------------------------- MODULE Refinement_proofs -------------------------
(***************************************************************************)
(* Release implements BlueGreen, and Deployment, in which an agent carries *)
(* the releases out, implements Release; what the agent then does to the   *)
(* containers that serve traffic.  For every set of services and images    *)
(* and every bound.                                                        *)
(***************************************************************************)
EXTENDS Rollout, Deployment, Release_proofs

----------------------------------------------------------------------------
(* What is seen of the rows.                                               *)

None == [phase |-> "none", release |-> 0, share |-> 0]
Deploying(r) == [phase |-> "deploying", release |-> r, share |-> 0]
Candidate(r, p) == [phase |-> "candidate", release |-> r, share |-> p]

\* The rollout of a service is its release in progress, if there is one.
LEMMA SeenNow ==
    ASSUME IInv, NEW s \in Services
    PROVE  /\ UnderWay(s) = {} => rollouts[s] = None
           /\ \A r \in UnderWay(s) : rollouts[s] = asRollout(r)
<1>1. UnderWay(s) = {} => rollouts[s] = None
  BY DEF rollouts, None
<1>2. ASSUME NEW r \in UnderWay(s) PROVE rollouts[s] = asRollout(r)
  <2>1. UnderWay(s) = {r}
    BY DEF UnderWay, IInv, OneInProgress
  <2>2. (CHOOSE x \in UnderWay(s) : TRUE) = r
    BY <2>1
  <2>3. QED
    BY <2>1, <2>2 DEF rollouts
<1>3. QED
  BY <1>1, <1>2

\* The same after a step.
LEMMA SeenNext ==
    ASSUME IInv', NEW s \in Services
    PROVE  /\ UnderWay(s)' = {} => rollouts'[s] = None
           /\ \A r \in UnderWay(s)' : rollouts'[s] = asRollout(r)'
<1>1. UnderWay(s)' = {} => rollouts'[s] = None
  BY DEF rollouts, None
<1>2. ASSUME NEW r \in UnderWay(s)' PROVE rollouts'[s] = asRollout(r)'
  <2>1. UnderWay(s)' = {r}
    BY DEF UnderWay, IInv, OneInProgress
  <2>2. (CHOOSE x \in UnderWay(s)' : TRUE) = r
    BY <2>1
  <2>3. QED
    BY <2>1, <2>2 DEF rollouts
<1>3. QED
  BY <1>1, <1>2

\* A release that is in progress as before or not, as before.
Kept(x) ==
    /\ InProgress(x)' <=> InProgress(x)
    /\ InProgress(x) => /\ release'[x].service = release[x].service
                        /\ asRollout(x)' = asRollout(x)

\* The rollout of a service whose releases are kept is kept.
LEMMA RolloutKept ==
    ASSUME IInv, IInv', NEW s \in Services,
           \A x \in ReleaseIds :
              x \in UnderWay(s) \/ x \in UnderWay(s)' => Kept(x)
    PROVE  rollouts'[s] = rollouts[s]
<1>1. UnderWay(s)' = UnderWay(s)
  BY DEF UnderWay, Kept
<1>2. CASE UnderWay(s) = {}
  BY <1>1, <1>2, SeenNow, SeenNext
<1>3. CASE UnderWay(s) # {}
  <2>1. PICK r \in UnderWay(s) : TRUE
    BY <1>3
  <2>2. asRollout(r)' = asRollout(r)
    BY <2>1 DEF UnderWay, Kept
  <2>3. QED
    BY <1>1, <2>1, <2>2, SeenNow, SeenNext
<1>4. QED
  BY <1>2, <1>3

\* A function of the services of which one value is changed.
LEMMA OneValue ==
    ASSUME NEW f, NEW g, f = [q \in Services |-> f[q]], g = [q \in Services |-> g[q]],
           NEW s \in Services, \A q \in Services \ {s} : g[q] = f[q]
    PROVE  g = [f EXCEPT ![s] = g[s]]
OBVIOUS

\* What is seen are functions of the services, before a step and after it.
LEMMA Functions ==
    /\ rollouts = [q \in Services |-> rollouts[q]]
    /\ rollouts' = [q \in Services |-> rollouts'[q]]
    /\ liveRelease = [q \in Services |-> liveRelease[q]]
    /\ liveRelease' = [q \in Services |-> liveRelease'[q]]
<1> DEFINE body(q) == IF UnderWay(q) = {}
                      THEN [phase |-> "none", release |-> 0, share |-> 0]
                      ELSE asRollout(CHOOSE r \in UnderWay(q) : TRUE)
           next(q) == IF UnderWay(q)' = {}
                      THEN [phase |-> "none", release |-> 0, share |-> 0]
                      ELSE (asRollout(CHOOSE r \in UnderWay(q) : TRUE))'
           now(q) == IF spec[q].currentLiveSlot = 0 THEN 0
                     ELSE instance[q][spec[q].currentLiveSlot].release
           then(q) == IF spec'[q].currentLiveSlot = 0 THEN 0
                      ELSE instance'[q][spec'[q].currentLiveSlot].release
<1>1. rollouts = [q \in Services |-> body(q)] /\ rollouts' = [q \in Services |-> next(q)]
  BY DEF rollouts
<1>2. liveRelease = [q \in Services |-> now(q)]
      /\ liveRelease' = [q \in Services |-> then(q)]
  BY DEF liveRelease
<1> HIDE DEF body, next, now, then
<1>3. QED
  BY <1>1, <1>2

\* The rollouts when the releases of one service only are changed.
LEMMA OneRollout ==
    ASSUME IInv, IInv', NEW s \in Services, NEW v, rollouts'[s] = v,
           \A q \in Services \ {s}, x \in ReleaseIds :
              x \in UnderWay(q) \/ x \in UnderWay(q)' => Kept(x)
    PROVE  rollouts' = [rollouts EXCEPT ![s] = v]
<1>1. \A q \in Services \ {s} : rollouts'[q] = rollouts[q]
  BY RolloutKept
<1> DEFINE f == rollouts
           g == rollouts'
<1>2. /\ f = [q \in Services |-> f[q]] /\ g = [q \in Services |-> g[q]]
      /\ g[s] = v
      /\ \A q \in Services \ {s} : g[q] = f[q]
  BY <1>1, Functions
<1> HIDE DEF f, g
<1>3. g = [f EXCEPT ![s] = g[s]] /\ g[s] = v
  BY <1>2, OneValue
<1>4. QED
  BY <1>3 DEF f, g

\* Nothing seen of any service changes.
LEMMA AllKept ==
    ASSUME IInv, IInv', \A x \in ReleaseIds : Kept(x)
    PROVE  rollouts' = rollouts
<1>1. \A s \in Services : rollouts'[s] = rollouts[s]
  BY RolloutKept
<1>2. QED
  BY <1>1 DEF rollouts

\* The live releases are kept when no live slot moves and no live instance is
\* replaced.
LEMMA LiveKept ==
    ASSUME \A s \in Services :
              /\ spec'[s].currentLiveSlot = spec[s].currentLiveSlot
              /\ spec[s].currentLiveSlot # 0 =>
                    instance'[s][spec[s].currentLiveSlot].release
                      = instance[s][spec[s].currentLiveSlot].release
    PROVE  liveRelease' = liveRelease
BY DEF liveRelease

\* A step of the orchestration, seen from above.
Seen == [Abstract!Next]_<<liveRelease, rollouts>>

\* Rows whose service, status and share stay show the same rollout, and so do
\* releases that are not in progress.
LEMMA RowKept ==
    ASSUME NEW x,
           \/ /\ release'[x].service = release[x].service
              /\ release'[x].status = release[x].status
              /\ release'[x].trafficPercent = release[x].trafficPercent
           \/ /\ release'[x].service = release[x].service
              /\ release[x].status \in {"dispatching", "deploying"}
              /\ release'[x].status \in {"dispatching", "deploying"}
           \/ ~InProgress(x) /\ ~InProgress(x)'
    PROVE  Kept(x)
BY DEF Kept, InProgress, asRollout

\* When the releases in R end, so do the rollouts they are.
LEMMA Ended ==
    ASSUME IInv, IInv', NEW R \in SUBSET ReleaseIds,
           \A x \in R : ~InProgress(x)',
           \A x \in ReleaseIds \ R : Kept(x)
    PROVE  \A s \in Services :
              rollouts'[s] = IF R \cap UnderWay(s) = {} THEN rollouts[s] ELSE None
<1> SUFFICES ASSUME NEW s \in Services
             PROVE  rollouts'[s] = IF R \cap UnderWay(s) = {} THEN rollouts[s] ELSE None
  OBVIOUS
<1>1. \A x \in UnderWay(s)' : x \in UnderWay(s) /\ x \notin R /\ Kept(x)
  BY DEF UnderWay, Kept
<1>2. CASE R \cap UnderWay(s) = {}
  <2>1. \A x \in ReleaseIds : x \in UnderWay(s) \/ x \in UnderWay(s)' => Kept(x)
    BY <1>1, <1>2
  <2>2. QED
    BY <1>2, <2>1, RolloutKept
<1>3. CASE R \cap UnderWay(s) # {}
  <2>1. PICK r \in R : r \in UnderWay(s)
    BY <1>3
  <2>2. \A x \in UnderWay(s) : x = r
    BY <2>1 DEF UnderWay, IInv, OneInProgress
  <2>3. UnderWay(s)' = {}
    BY <1>1, <2>1, <2>2
  <2>4. QED
    BY <1>3, <2>3, SeenNext
<1>4. QED
  BY <1>2, <1>3

\* Deployments that fail are rollouts that fail.
LEMMA FailedSeen ==
    ASSUME IInv, IInv', NEW R \in SUBSET ReleaseIds,
           \A x \in R : /\ release[x].status \in {"dispatching", "deploying"}
                        /\ ~InProgress(x)',
           \A x \in ReleaseIds \ R : Kept(x),
           liveRelease' = liveRelease
    PROVE  Seen
<1> DEFINE S == {s \in Services : R \cap UnderWay(s) # {}}
           f == rollouts
           g == rollouts'
<1>1. \A s \in S : rollouts[s].phase = "deploying"
  <2> SUFFICES ASSUME NEW s \in S PROVE rollouts[s].phase = "deploying"
    OBVIOUS
  <2>1. PICK r \in R : r \in UnderWay(s)
    OBVIOUS
  <2>2. rollouts[s] = asRollout(r)
    BY <2>1, SeenNow
  <2>3. asRollout(r).phase = "deploying"
    BY DEF asRollout
  <2>4. QED
    BY <2>2, <2>3
<1>2. \A s \in Services : g[s] = IF s \in S THEN None ELSE f[s]
  BY Ended
<1>3. g = [s \in Services |-> g[s]]
  BY Functions
<1> HIDE DEF f, g, S
<1>4. g = [s \in Services |-> IF s \in S THEN None ELSE f[s]]
  BY <1>2, <1>3
<1>5. S \in SUBSET Services
  BY DEF S
<1>6. Abstract!Failed(S)
  BY <1>1, <1>4 DEF Abstract!Failed, Abstract!NoRollout, None, f, g
<1>7. QED
  BY <1>5, <1>6 DEF Seen, Abstract!Next

\* Candidates of one service that end are a rollout that is abandoned.
LEMMA AbandonSeen ==
    ASSUME IInv, IInv', NEW R \in SUBSET ReleaseIds, NEW s \in Services,
           \A x \in R : /\ release[x].status = "readyToSwitch"
                        /\ release[x].service = s
                        /\ ~InProgress(x)',
           \A x \in ReleaseIds \ R : Kept(x),
           liveRelease' = liveRelease
    PROVE  Seen
<1>1. CASE R = {}
  BY <1>1, AllKept DEF Seen
<1>2. CASE R # {}
  <2>1. PICK r \in R : TRUE
    BY <1>2
  <2>2. r \in UnderWay(s)
    BY <2>1 DEF UnderWay, InProgress
  <2>3. rollouts[s].phase = "candidate"
    <3>1. rollouts[s] = asRollout(r)
      BY <2>2, SeenNow
    <3>2. asRollout(r).phase = "candidate"
      BY <2>1 DEF asRollout
    <3>3. QED
      BY <3>1, <3>2
  <2>4. rollouts'[s] = None
    BY <2>1, <2>2, Ended
  <2>5. \A q \in Services \ {s}, x \in ReleaseIds :
           x \in UnderWay(q) \/ x \in UnderWay(q)' => Kept(x)
    BY DEF UnderWay
  <2>6. rollouts' = [rollouts EXCEPT ![s] = None]
    BY <2>4, <2>5, OneRollout
  <2>7. Abstract!Abandon(s)
    BY <2>3, <2>6 DEF Abstract!Abandon, Abstract!IsCandidate, Abstract!NoRollout, None
  <2>8. QED
    BY <2>7 DEF Seen, Abstract!Next
<1>3. QED
  BY <1>1, <1>2

----------------------------------------------------------------------------
(* The steps of the orchestration.                                         *)

\* Rows that show the same rollouts, and the same live releases.
LEMMA StutterSeen ==
    ASSUME IInv, IInv', \A x \in ReleaseIds : Kept(x), UNCHANGED <<spec, instance>>
    PROVE  Seen
BY AllKept, LiveKept DEF Seen

\* A queued release is not part of a rollout yet.
LEMMA CreateSeen ==
    ASSUME IInv, IInv', NEW s \in Services, NEW i \in Images, CreateFromCI(s, i)
    PROVE  Seen
<1> DEFINE n == [service |-> s, image |-> i, status |-> "queued", trafficPercent |-> 0,
                 targetSlot |-> nextSlot(spec[s].currentLiveSlot),
                 previousLiveSlot |-> spec[s].currentLiveSlot,
                 currentTaskID |-> 0, switchConfirmed |-> FALSE]
<1>1. PICK r \in ReleaseIds : /\ Fresh(release, r)
                              /\ release' = [release EXCEPT ![r] = n]
                              /\ UNCHANGED <<spec, instance>>
  BY DEF CreateFromCI
<1>2. n.status = "queued" /\ release[r].status = "absent"
  BY <1>1 DEF Fresh
<1> HIDE DEF n
<1>3. release'[r] = n /\ \A x \in ReleaseIds \ {r} : release'[x] = release[x]
  BY <1>1 DEF IInv, TypeOK
<1>4. Kept(r)
  BY <1>2, <1>3, RowKept DEF InProgress
<1>5. \A x \in ReleaseIds : Kept(x)
  BY <1>3, <1>4, RowKept
<1>6. QED
  BY <1>1, <1>5, StutterSeen

\* Nor is a skipped one.
LEMMA SkipSeen ==
    ASSUME IInv, IInv', NEW r \in ReleaseIds, Skip(r)
    PROVE  Seen
<1>1. /\ release[r].status = "queued"
      /\ release' = [release EXCEPT ![r] = [release[r] EXCEPT !.status = "skipped"]]
      /\ UNCHANGED <<spec, instance>>
  BY DEF Skip
<1>2. [release[r] EXCEPT !.status = "skipped"].status = "skipped"
  BY StatusRow, Rows DEF IInv, ReleaseStatus
<1>3. /\ release'[r].status = "skipped"
      /\ \A x \in ReleaseIds \ {r} : release'[x] = release[x]
  BY <1>1, <1>2 DEF IInv, TypeOK
<1>4. Kept(r)
  BY <1>1, <1>3, RowKept DEF InProgress
<1>5. \A x \in ReleaseIds : Kept(x)
  BY <1>3, <1>4, RowKept
<1>6. QED
  BY <1>1, <1>5, StutterSeen

\* A running deployment is the deployment it was.
LEMMA TaskRunningSeen ==
    ASSUME IInv, IInv', NEW t \in TaskIds, TaskRunning(t)
    PROVE  Seen
<1> DEFINE r == task[t].release
           st == IF release[r].status = "dispatching" THEN "deploying"
                 ELSE release[r].status
           m == [release[r] EXCEPT !.status = st]
<1>1. release' = [release EXCEPT ![r] = m] /\ UNCHANGED <<spec, instance>>
  BY DEF TaskRunning
<1>2. /\ r \in ReleaseIds /\ release[r] \in ReleaseRow
      /\ release[r].status \in {"dispatching", "deploying"}
  BY AppliesFacts DEF TaskRunning
<1>3. st = "deploying" /\ st \in ReleaseStatus
  BY <1>2 DEF ReleaseStatus
<1>4. m.status = "deploying" /\ m.service = release[r].service
  BY <1>2, <1>3, StatusRow
<1> HIDE DEF m, st, r
<1>5. release'[r] = m /\ \A x \in ReleaseIds \ {r} : release'[x] = release[x]
  BY <1>1, <1>2 DEF IInv, TypeOK
<1>6. Kept(r)
  BY <1>2, <1>4, <1>5, RowKept
<1>7. \A x \in ReleaseIds : Kept(x)
  BY <1>5, <1>6, RowKept
<1>8. QED
  BY <1>1, <1>7, StutterSeen

\* Rows that end by having their status written.
LEMMA StatusEnds ==
    ASSUME IInv, NEW R \in SUBSET ReleaseIds, NEW st \in {"completed", "failed"},
           release' = [x \in ReleaseIds |->
               IF x \in R THEN [release[x] EXCEPT !.status = st] ELSE release[x]]
    PROVE  /\ \A x \in R : ~InProgress(x)'
           /\ \A x \in ReleaseIds \ R : Kept(x)
<1>1. \A x \in R : [release[x] EXCEPT !.status = st].status = st
  BY StatusRow, Rows DEF IInv, ReleaseStatus
<1>2. \A x \in R : release'[x].status = st
  BY <1>1
<1>3. \A x \in ReleaseIds \ R : release'[x] = release[x]
  OBVIOUS
<1>4. QED
  BY <1>2, <1>3, RowKept DEF InProgress

\* The rollout of a failed deployment has failed.
LEMMA TaskFailedSeen ==
    ASSUME IInv, IInv', NEW t \in TaskIds, TaskFailed(t)
    PROVE  Seen
<1> DEFINE R == {task[t].release}
<1>1. /\ R \in SUBSET ReleaseIds
      /\ \A x \in R : release[x].status \in {"dispatching", "deploying"}
  BY AppliesFacts DEF TaskFailed
<1>2. /\ release' = [x \in ReleaseIds |->
            IF x \in R THEN [release[x] EXCEPT !.status = "failed"] ELSE release[x]]
      /\ UNCHANGED <<spec, instance>>
  BY <1>1 DEF TaskFailed, IInv, TypeOK
<1> HIDE DEF R
<1>3. QED
  BY <1>1, <1>2, StatusEnds, FailedSeen, LiveKept

\* So have the rollouts of the deployments that time out together.
LEMMA FailStaleSeen ==
    ASSUME IInv, IInv', NEW T \in SUBSET TaskIds, FailStaleTasks(T)
    PROVE  Seen
<1> DEFINE R == {task[t].release : t \in T}
<1>1. /\ release' = [x \in ReleaseIds |->
            IF x \in R THEN [release[x] EXCEPT !.status = "failed"] ELSE release[x]]
      /\ UNCHANGED <<spec, instance>>
  BY DEF FailStaleTasks
<1>2. \A t \in T : release[task[t].release].status \in {"dispatching", "deploying"}
  <2>1. \A t \in T : TaskIsActive(task[t].status)
    BY DEF FailStaleTasks, ListRecoverableTasksByAgent
  <2>2. QED
    BY <2>1 DEF IInv, WaitsForLiveTask
<1>3. /\ R \in SUBSET ReleaseIds
      /\ \A x \in R : release[x].status \in {"dispatching", "deploying"}
  BY <1>2, Rows DEF IInv
<1> HIDE DEF R
<1>4. QED
  BY <1>1, <1>3, StatusEnds, FailedSeen, LiveKept

\* A deployment that is refused late has completed the candidate already.
LEMMA RefusedSeen ==
    ASSUME IInv, IInv', NEW r \in ReleaseIds, StartOrRetryRefused(r)
    PROVE  Seen
<1> DEFINE s == release[r].service
           R == completeSupersededRelease(r, nextSlot(spec[s].currentLiveSlot))
<1>1. /\ release' = [x \in ReleaseIds |->
            IF x \in R THEN [release[x] EXCEPT !.status = "completed"] ELSE release[x]]
      /\ UNCHANGED <<spec, instance>>
  BY DEF StartOrRetryRefused
<1>2. R \in SUBSET ReleaseIds /\ s \in Services
      /\ \A x \in R : release[x].status = "readyToSwitch" /\ release[x].service = s
  BY Rows DEF completeSupersededRelease, InService, IInv
<1> HIDE DEF R, s
<1>3. QED
  BY <1>1, <1>2, StatusEnds, AbandonSeen, LiveKept

\* A rollback abandons the rollout.
LEMMA RollbackSeen ==
    ASSUME IInv, IInv', NEW r \in ReleaseIds, NEW d \in BOOLEAN, Rollback(r, d)
    PROVE  Seen
<1> DEFINE w == [release[r] EXCEPT !.trafficPercent = 0, !.switchConfirmed = FALSE,
                                   !.status = "rolledBack"]
           m == Updates(release[r], w)
<1>1. release[r].status = "readyToSwitch" /\ release' = [release EXCEPT ![r] = m]
  BY DEF Rollback
<1>2. UNCHANGED <<spec, instance>>
  BY <1>1, LiveUnmoved DEF Rollback
<1>3. m.status = "rolledBack"
  <2>1. release[r] \in ReleaseRow /\ 0 \in 0..100 /\ FALSE \in BOOLEAN
        /\ "rolledBack" \in ReleaseStatus
    BY Rows DEF IInv, ReleaseStatus
  <2>2. w \in ReleaseRow
    BY <2>1, Zenon DEF ReleaseRow
  <2>3. w.status = "rolledBack"
    BY <2>1 DEF ReleaseRow
  <2> HIDE DEF w
  <2>4. QED
    BY <2>1, <2>2, <2>3, UpdatesRow
<1> HIDE DEF m
<1>4. release'[r] = m /\ \A x \in ReleaseIds \ {r} : release'[x] = release[x]
  BY <1>1 DEF IInv, TypeOK
<1>5. ~InProgress(r)' /\ release[r].service \in Services
  BY <1>3, <1>4, Rows DEF InProgress, IInv
<1>6. \A x \in ReleaseIds \ {r} : Kept(x)
  BY <1>4, RowKept
<1>7. liveRelease' = liveRelease
  BY <1>2, LiveKept
<1> DEFINE R == {r}
<1>8. /\ R \in SUBSET ReleaseIds
      /\ \A x \in R : /\ release[x].status = "readyToSwitch"
                       /\ release[x].service = release[r].service
                       /\ ~InProgress(x)'
      /\ \A x \in ReleaseIds \ R : Kept(x)
  BY <1>1, <1>5, <1>6
<1> HIDE DEF R
<1>9. QED
  BY <1>5, <1>7, <1>8, AbandonSeen

\* The rollout of the service when one of its releases is in progress before
\* and after the step, and the other rows are kept.
LEMMA RolloutMoves ==
    ASSUME IInv, IInv', NEW r \in ReleaseIds, InProgress(r), InProgress(r)',
           release'[r].service = release[r].service,
           \A x \in ReleaseIds \ {r} : Kept(x)
    PROVE  /\ release[r].service \in Services
           /\ rollouts[release[r].service] = asRollout(r)
           /\ rollouts' = [rollouts EXCEPT ![release[r].service] = asRollout(r)']
<1> DEFINE s == release[r].service
<1>1. s \in Services
  BY Rows DEF IInv
<1>2. r \in UnderWay(s) /\ r \in UnderWay(s)'
  BY DEF UnderWay
<1>3. rollouts[s] = asRollout(r) /\ rollouts'[s] = asRollout(r)'
  BY <1>1, <1>2, SeenNow, SeenNext
<1>4. \A q \in Services \ {s}, x \in ReleaseIds :
         x \in UnderWay(q) \/ x \in UnderWay(q)' => Kept(x)
  BY DEF UnderWay
<1>5. rollouts' = [rollouts EXCEPT ![s] = asRollout(r)']
  BY <1>1, <1>3, <1>4, OneRollout
<1>6. QED
  BY <1>1, <1>3, <1>5

\* A share of the traffic is given to the candidate that there is; a request
\* for none changes nothing.
LEMMA TrafficSeen ==
    ASSUME IInv, IInv', NEW r \in ReleaseIds, NEW p \in Percents \cup {0},
           NEW d \in BOOLEAN, SetTrafficPercent(r, p, d)
    PROVE  Seen
<1> DEFINE s == release[r].service
           w == [release[r] EXCEPT !.trafficPercent = p, !.switchConfirmed = FALSE]
           m == Updates(release[r], w)
<1>1. release[r].status = "readyToSwitch" /\ release' = [release EXCEPT ![r] = m]
  BY DEF SetTrafficPercent
<1>2. UNCHANGED <<spec, instance>>
  BY <1>1, LiveUnmoved DEF SetTrafficPercent
<1>3. /\ m.status = "readyToSwitch" /\ m.service = s
      /\ m.trafficPercent = IF p = 0 THEN release[r].trafficPercent ELSE p
  <2>1. release[r] \in ReleaseRow /\ p \in 0..100 /\ FALSE \in BOOLEAN
    BY Rows, ReleaseAssumption DEF IInv
  <2>2. w \in ReleaseRow
    BY <2>1, Zenon DEF ReleaseRow
  <2>3. w.status = release[r].status /\ w.trafficPercent = p /\ w.service = s
    BY <2>1 DEF ReleaseRow
  <2> HIDE DEF w
  <2>4. QED
    BY <1>1, <2>1, <2>2, <2>3, UpdatesRow
<1> HIDE DEF m
<1>4. release'[r] = m /\ \A x \in ReleaseIds \ {r} : release'[x] = release[x]
  BY <1>1 DEF IInv, TypeOK
<1>5. \A x \in ReleaseIds \ {r} : Kept(x)
  BY <1>4, RowKept
<1>6. CASE p = 0
  <2>1. Kept(r)
    BY <1>1, <1>3, <1>4, <1>6, RowKept
  <2>2. QED
    BY <1>2, <1>5, <2>1, StutterSeen
<1>7. CASE p # 0
  <2>1. asRollout(r) = Candidate(r, release[r].trafficPercent)
    BY <1>1 DEF asRollout, Candidate
  <2>2. asRollout(r)' = Candidate(r, p)
    BY <1>3, <1>4, <1>7 DEF asRollout, Candidate
  <2>3. /\ s \in Services
        /\ rollouts[s] = Candidate(r, release[r].trafficPercent)
        /\ rollouts' = [rollouts EXCEPT ![s] = Candidate(r, p)]
    BY <1>1, <1>3, <1>4, <1>5, <2>1, <2>2, RolloutMoves DEF InProgress
  <2>4. Candidate(r, p) = [rollouts[s] EXCEPT !.share = p]
    BY <2>3 DEF Candidate
  <2>5. liveRelease' = liveRelease
    BY <1>2, LiveKept
  <2>6. Abstract!GiveShare(s, p)
    BY <2>3, <2>4, <2>5 DEF Abstract!GiveShare, Abstract!IsCandidate, Candidate
  <2>7. QED
    BY <2>3, <2>6 DEF Seen, Abstract!Next
<1>8. QED
  BY <1>6, <1>7

\* A finished deployment is a candidate without traffic; its instance is not the
\* live one.
LEMMA TaskSucceededSeen ==
    ASSUME IInv, IInv', NEW t \in TaskIds, NEW d \in BOOLEAN, TaskSucceeded(t, d),
           NEW r, r = task[t].release
    PROVE  Seen
<1> DEFINE s == release[r].service
           slot == task[t].slot
           w == [release[r] EXCEPT !.status = "readyToSwitch", !.trafficPercent = 0,
                                   !.switchConfirmed = FALSE]
           m == Updates(release[r], w)
           i == [release |-> r, accepting |-> FALSE]
<1>1. /\ release' = [release EXCEPT ![r] = m]
      /\ instance' = [instance EXCEPT ![s][slot] = i]
      /\ UNCHANGED spec
  BY DEF TaskSucceeded
<1>2. /\ r \in ReleaseIds /\ release[r] \in ReleaseRow
      /\ release[r].status \in {"dispatching", "deploying"}
      /\ slot = release[r].targetSlot
  BY AppliesFacts DEF TaskSucceeded
<1>3. s \in Services /\ slot \in Slots /\ slot # spec[s].currentLiveSlot
  BY <1>2, SlotFacts, Rows DEF IInv, SlotsFollowLive, InProgress
<1>4. m.status = "readyToSwitch" /\ m.service = s /\ m.trafficPercent = 0
  <2>1. 0 \in 0..100 /\ FALSE \in BOOLEAN /\ "readyToSwitch" \in ReleaseStatus
    BY DEF ReleaseStatus
  <2>2. w \in ReleaseRow
    BY <1>2, <2>1, Zenon DEF ReleaseRow
  <2>3. w.status = "readyToSwitch" /\ w.trafficPercent = 0 /\ w.service = s
    BY <1>2 DEF ReleaseRow
  <2>4. release[r].trafficPercent = 0
    BY <1>2 DEF IInv, OnlySwitchedAreFull
  <2> HIDE DEF w
  <2>5. QED
    BY <1>2, <2>2, <2>3, <2>4, UpdatesRow
<1> HIDE DEF m
<1>5. release'[r] = m /\ \A x \in ReleaseIds \ {r} : release'[x] = release[x]
  BY <1>1, <1>2 DEF IInv, TypeOK
<1>6. \A x \in ReleaseIds \ {r} : Kept(x)
  BY <1>5, RowKept
<1>7. liveRelease' = liveRelease
  <2> HIDE DEF s, slot, i
  <2>1. \A q \in Services, y \in Slots :
           q # s \/ y # slot => instance'[q][y] = instance[q][y]
    BY <1>1, <1>3 DEF IInv, TypeOK
  <2>2. \A q \in Services : /\ spec'[q].currentLiveSlot = spec[q].currentLiveSlot
                             /\ spec[q].currentLiveSlot \in Slots \cup {0}
    BY <1>1, Rows DEF IInv
  <2>3. QED
    BY <1>3, <2>1, <2>2, LiveKept
<1>8. asRollout(r) = Deploying(r) /\ asRollout(r)' = Candidate(r, 0)
  BY <1>2, <1>4, <1>5 DEF asRollout, Deploying, Candidate
<1>9. /\ rollouts[s] = Deploying(r)
      /\ rollouts' = [rollouts EXCEPT ![s] = Candidate(r, 0)]
  <2>1. InProgress(r) /\ InProgress(r)' /\ release'[r].service = release[r].service
    BY <1>2, <1>4, <1>5 DEF InProgress
  <2>2. QED
    BY <1>2, <1>6, <1>8, <2>1, RolloutMoves
<1>10. Candidate(r, 0) = [rollouts[s] EXCEPT !.phase = "candidate"]
  BY <1>9 DEF Candidate, Deploying
<1>11. Abstract!Deployed(s)
  <2>1. rollouts[s].phase = "deploying"
    BY <1>9 DEF Deploying
  <2>2. rollouts' = [rollouts EXCEPT ![s] = [rollouts[s] EXCEPT !.phase = "candidate"]]
    BY <1>9, <1>10
  <2> HIDE DEF s
  <2>3. QED
    BY <1>7, <2>1, <2>2 DEF Abstract!Deployed
<1>12. QED
  BY <1>3, <1>11 DEF Seen, Abstract!Next

\* A switch promotes the candidate; the release it takes over from was not in
\* progress.
LEMMA ConfirmSeen ==
    ASSUME IInv, IInv', NEW r \in ReleaseIds, NEW d \in BOOLEAN, ConfirmSwitch(r, d)
    PROVE  Seen
<1> DEFINE s == release[r].service
           prev == release[r].previousLiveSlot
           target == release[r].targetSlot
           P == completePreviousLiveRelease(r)
           w == [release[r] EXCEPT !.trafficPercent = 100, !.switchConfirmed = TRUE,
                                   !.status = "completed"]
           v(x) == [release[x] EXCEPT !.trafficPercent = 0, !.status = "completed"]
           n == [spec[s] EXCEPT !.currentLiveSlot = target]
<1>1. /\ release[r].status = "readyToSwitch"
      /\ spec' = [spec EXCEPT ![s] = n]
      /\ instance' = updateTrafficFlags(s, target, prev)
      /\ release' = [x \in ReleaseIds |->
              IF x = r THEN w
              ELSE IF x \in P THEN Updates(release[x], v(x)) ELSE release[x]]
  BY DEF ConfirmSwitch
<1>2. /\ s \in Services /\ release[r] \in ReleaseRow
      /\ target \in Slots /\ instance[s][target].release = r
  BY <1>1, Rows DEF IInv, CandidateIsOwnInstance
<1>3. \A x \in P : x \in ReleaseIds \ {r} /\ ~InProgress(x)
  <2>1. SUFFICES ASSUME NEW x \in P PROVE x \in ReleaseIds \ {r} /\ ~InProgress(x)
    OBVIOUS
  <2>2. prev # 0 /\ x = instance[s][prev].release /\ x # 0 /\ x # r
    BY <2>1 DEF completePreviousLiveRelease
  <2>3. prev = spec[s].currentLiveSlot
    BY <1>1, <1>2 DEF IInv, CandidateIsOwnInstance
  <2>4. prev \in Slots
    BY <1>2, <2>2, <2>3, Rows DEF IInv
  <2>5. x \in ReleaseIds
    BY <1>2, <2>2, <2>4, Rows DEF IInv
  <2>6. release[x].status = "completed"
    <3>1. s \in Services /\ prev = spec[s].currentLiveSlot
      BY <1>2, <2>3
    <3> HIDE DEF s, prev
    <3>2. QED
      BY <2>2, <3>1, LiveFacts
  <2>7. QED
    BY <2>2, <2>5, <2>6 DEF InProgress
<1>4. w.status = "completed"
  BY <1>2 DEF ReleaseRow
<1>5. \A x \in P : Updates(release[x], v(x)).status = "completed"
  <2> SUFFICES ASSUME NEW x \in P PROVE Updates(release[x], v(x)).status = "completed"
    OBVIOUS
  <2>1. release[x] \in ReleaseRow /\ 0 \in 0..100 /\ "completed" \in ReleaseStatus
    BY <1>3, Rows DEF ReleaseStatus, IInv
  <2>2. v(x) \in ReleaseRow
    BY <2>1, Zenon DEF ReleaseRow
  <2>3. v(x).status = "completed"
    BY <2>1 DEF ReleaseRow
  <2> HIDE DEF v
  <2>4. QED
    BY <2>1, <2>2, <2>3, UpdatesRow
<1>6. n.currentLiveSlot = target
  BY <1>2, Rows DEF IInv, SpecRow
<1> HIDE DEF w, v, n, P
<1>7. ~InProgress(r)' /\ \A x \in P : ~InProgress(x)'
  BY <1>1, <1>3, <1>4, <1>5 DEF InProgress
<1>8. \A x \in ReleaseIds \ {r} : Kept(x)
  BY <1>1, <1>3, <1>7, RowKept
<1>9. rollouts[s] = Candidate(r, release[r].trafficPercent)
  <2>1. r \in UnderWay(s)
    BY <1>1 DEF UnderWay, InProgress
  <2>2. asRollout(r) = Candidate(r, release[r].trafficPercent)
    BY <1>1 DEF asRollout, Candidate
  <2>3. QED
    BY <1>2, <2>1, <2>2, SeenNow
<1>10. rollouts' = [rollouts EXCEPT ![s] = None]
  <2> DEFINE R == {r}
  <2>1. /\ R \in SUBSET ReleaseIds /\ R \cap UnderWay(s) # {}
        /\ \A x \in R : ~InProgress(x)'
        /\ \A x \in ReleaseIds \ R : Kept(x)
    BY <1>1, <1>7, <1>8 DEF UnderWay, InProgress
  <2> HIDE DEF R, s
  <2>2. rollouts'[s] = None
    BY <1>2, <2>1, Ended
  <2> USE DEF s
  <2>3. \A q \in Services \ {s}, x \in ReleaseIds :
           x \in UnderWay(q) \/ x \in UnderWay(q)' => Kept(x)
    BY <1>7, <1>8 DEF UnderWay
  <2> HIDE DEF s
  <2>4. QED
    BY <1>2, <2>2, <2>3, OneRollout
<1>11. liveRelease' = [liveRelease EXCEPT ![s] = r]
  <2>1. spec'[s].currentLiveSlot = target /\ \A q \in Services \ {s} : spec'[q] = spec[q]
    BY <1>1, <1>2, <1>6 DEF IInv, TypeOK
  <2>2. \A q \in Services, y \in Slots :
           instance'[q][y].release = instance[q][y].release
    <3>1. TypeOK
      BY DEF IInv
    <3> HIDE DEF s, target, prev
    <3>2. QED
      BY <1>1, <1>2, <3>1, TrafficFlagsType
  <2>3. liveRelease'[s] = r
    BY <1>2, <2>1, <2>2, SlotFacts DEF liveRelease
  <2>4. \A q \in Services \ {s} : liveRelease'[q] = liveRelease[q]
    BY <2>1, <2>2, Rows DEF liveRelease, IInv
  <2> DEFINE f == liveRelease
             g == liveRelease'
  <2>5. /\ f = [q \in Services |-> f[q]] /\ g = [q \in Services |-> g[q]]
        /\ g[s] = r
        /\ \A q \in Services \ {s} : g[q] = f[q]
    BY <2>3, <2>4, Functions
  <2> HIDE DEF f, g, s
  <2>6. g = [f EXCEPT ![s] = g[s]]
    BY <1>2, <2>5, OneValue
  <2>7. QED
    BY <2>5, <2>6 DEF f, g
<1>12. Abstract!Promote(s)
  BY <1>9, <1>10, <1>11
  DEF Abstract!Promote, Abstract!IsCandidate, Abstract!NoRollout, None, Candidate
<1>13. QED
  BY <1>2, <1>12 DEF Seen, Abstract!Next

\* A deployment begins a rollout, in place of a candidate without traffic; one
\* that fails at once only abandons that candidate.
LEMMA DeploySeen ==
    ASSUME IInv, IInv', NEW r \in ReleaseIds, NEW s, s = release[r].service, NEW t \in TaskIds,
           NEW outcome \in {"dispatched", "pending", "failed"},
           NEW skip \in SUBSET ListQueuedBefore(r),
           release[r].status \in {"queued", "skipped", "failed"},
           ~HasActiveRelease(s), BeginDeploy(r, t, outcome, skip)
    PROVE  Seen
<1> DEFINE slot == nextSlot(spec[s].currentLiveSlot)
           row == deployRow(r, t)
           st == IF outcome = "failed" THEN "failed" ELSE "dispatching"
           m == [Updates(release[r], row) EXCEPT !.status = st]
           S == completeSupersededRelease(r, slot)
           K == IF outcome = "failed" THEN {} ELSE skip
           c(x) == [release[x] EXCEPT !.status = "completed"]
           k(x) == [release[x] EXCEPT !.status = "skipped"]
<1>1. row \in ReleaseRow /\ row.targetSlot = slot /\ row.service = s
  <2> DEFINE old == release[r]
             live == spec[s].currentLiveSlot
             w == [old EXCEPT !.previousLiveSlot = live, !.targetSlot = slot,
                              !.trafficPercent = 0, !.switchConfirmed = FALSE,
                              !.currentTaskID = t]
  <2>1. row = w /\ old.service = s
    BY DEF deployRow
  <2>2. old \in ReleaseRow /\ live \in Slots \cup {0} /\ slot \in Slots
        /\ 0 \in 0..100 /\ FALSE \in BOOLEAN
    BY Rows, SlotFacts DEF IInv
  <2> HIDE DEF row, slot, live, old
  <2>3. w \in ReleaseRow
    BY <2>2, Zenon DEF ReleaseRow
  <2>4. w.targetSlot = slot /\ w.service = old.service
    BY <2>2, <2>3 DEF ReleaseRow
  <2> HIDE DEF w
  <2>5. QED
    BY <2>1, <2>3, <2>4
<1>2. m.status = st /\ m.service = s
  <2>1. release[r] \in ReleaseRow /\ st \in ReleaseStatus
    BY Rows DEF IInv, ReleaseStatus
  <2> HIDE DEF row, st
  <2>2. QED
    BY <1>1, <2>1, UpdatesRow, StatusRow
<1>3. /\ release' = [x \in ReleaseIds |->
            IF x = r THEN m ELSE IF x \in S THEN c(x)
            ELSE IF x \in K THEN k(x) ELSE release[x]]
      /\ UNCHANGED <<spec, instance>>
  <2>1. /\ release' = [x \in ReleaseIds |->
              IF x = r THEN m
              ELSE IF x \in completeSupersededRelease(r, row.targetSlot) THEN c(x)
              ELSE IF outcome # "failed" /\ x \in skip THEN k(x)
              ELSE release[x]]
        /\ UNCHANGED <<spec, instance>>
    BY DEF BeginDeploy
  <2>2. row.targetSlot = slot
    BY <1>1
  <2> HIDE DEF row, slot, m, c, k
  <2>3. QED
    BY <2>1, <2>2
<1>4. /\ S \in SUBSET ReleaseIds /\ r \notin S /\ K \in SUBSET ReleaseIds
      /\ \A x \in S : /\ release[x].status = "readyToSwitch"
                       /\ release[x].trafficPercent = 0
                       /\ release[x].service = s
      /\ \A x \in K : release[x].status = "queued"
  BY DEF completeSupersededRelease, ListQueuedBefore, InService
<1>5. \A x \in ReleaseIds : InProgress(x) /\ release[x].service = s => x \in S
  BY AllSuperseded
<1>6. /\ \A x \in S : c(x).status = "completed"
      /\ \A x \in K : k(x).status = "skipped"
  BY <1>4, StatusRow, Rows DEF IInv, ReleaseStatus
<1>7. st \in {"failed", "dispatching"} /\ s \in Services
  BY Rows DEF IInv
<1> HIDE DEF m, c, k, S, K, row, slot
<1>8. /\ release'[r] = m
      /\ \A x \in S : ~InProgress(x)'
      /\ \A x \in ReleaseIds \ (S \cup {r}) : Kept(x)
  <2>1. \A x \in S : release'[x].status = "completed"
    BY <1>3, <1>4, <1>6
  <2>2. \A x \in K \ (S \cup {r}) : release'[x].status = "skipped"
    BY <1>3, <1>4, <1>6
  <2>3. \A x \in ReleaseIds \ (S \cup K \cup {r}) : release'[x] = release[x]
    BY <1>3
  <2>4. \A x \in K \ (S \cup {r}) : ~InProgress(x) /\ ~InProgress(x)'
    BY <1>4, <2>2 DEF InProgress
  <2>5. \A x \in ReleaseIds \ (S \cup {r}) : Kept(x)
    BY <2>3, <2>4, RowKept
  <2>6. QED
    BY <1>3, <2>1, <2>5 DEF InProgress
<1>9. liveRelease' = liveRelease
  BY <1>3, LiveKept
<1>10. CASE outcome = "failed"
  <2>1. ~InProgress(r) /\ ~InProgress(r)'
    BY <1>2, <1>8, <1>10 DEF InProgress
  <2>2. \A x \in ReleaseIds \ S : Kept(x)
    BY <1>8, <2>1, RowKept
  <2>3. QED
    BY <1>4, <1>7, <1>8, <1>9, <2>2, AbandonSeen
<1>11. CASE outcome # "failed"
  <2>1. r \in UnderWay(s)' /\ asRollout(r)' = Deploying(r)
    BY <1>2, <1>8, <1>11 DEF UnderWay, InProgress, asRollout, Deploying
  <2>2. rollouts'[s] = Deploying(r)
    BY <1>7, <2>1, SeenNext
  <2>3. \A q \in Services \ {s}, x \in ReleaseIds :
           x \in UnderWay(q) \/ x \in UnderWay(q)' => Kept(x)
    <3>1. ASSUME NEW q \in Services \ {s}, NEW x \in S \cup {r}
          PROVE  x \notin UnderWay(q) /\ x \notin UnderWay(q)'
      BY <1>2, <1>4, <1>8 DEF UnderWay
    <3>2. QED
      BY <1>8, <3>1
  <2>4. rollouts' = [rollouts EXCEPT ![s] = Deploying(r)]
    BY <1>7, <2>2, <2>3, OneRollout
  <2>5. \/ rollouts[s].phase = "none"
        \/ rollouts[s].phase = "candidate" /\ rollouts[s].share = 0
    <3>1. CASE UnderWay(s) = {}
      BY <1>7, <3>1, SeenNow DEF None
    <3>2. CASE UnderWay(s) # {}
      <4>1. PICK x \in UnderWay(s) : TRUE
        BY <3>2
      <4>2. x \in S
        BY <1>5, <4>1 DEF UnderWay
      <4>3. rollouts[s] = Candidate(x, 0)
        <5>1. rollouts[s] = asRollout(x)
          BY <1>7, <4>1, SeenNow
        <5>2. asRollout(x) = Candidate(x, 0)
          BY <1>4, <4>2 DEF asRollout, Candidate
        <5>3. QED
          BY <5>1, <5>2
      <4>4. QED
        BY <4>3 DEF Candidate
    <3>3. QED
      BY <3>1, <3>2
  <2>6. r # liveRelease[s]
    <3>1. s \in Services /\ r # 0 /\ release[r].status # "completed"
      BY <1>7, IdFacts
    <3>2. CASE spec[s].currentLiveSlot = 0
      BY <3>1, <3>2 DEF liveRelease
    <3>3. CASE spec[s].currentLiveSlot # 0
      <4>1. release[instance[s][spec[s].currentLiveSlot].release].status = "completed"
        BY <3>1, <3>3, LiveFacts
      <4>2. QED
        BY <3>1, <3>3, <4>1 DEF liveRelease
    <3>4. QED
      BY <3>2, <3>3
  <2>7. Abstract!Begin(s, r)
    BY <1>9, <2>4, <2>5, <2>6 DEF Abstract!Begin, Abstract!IsCandidate, Deploying
  <2>8. QED
    BY <1>7, <2>7 DEF Seen, Abstract!Next
<1>12. QED
  BY <1>10, <1>11

\* Steps that do not touch the releases and move no live slot are not seen.
LEMMA RowsUnchangedSeen ==
    ASSUME IInv, IInv', UNCHANGED <<release, instance>>,
           \A s \in Services : spec'[s].currentLiveSlot = spec[s].currentLiveSlot
    PROVE  Seen
<1>1. \A x \in ReleaseIds : Kept(x)
  BY RowKept
<1>2. liveRelease' = liveRelease
  BY LiveKept
<1>3. QED
  BY <1>1, <1>2, AllKept DEF Seen

\* Switching a service on or off moves no live slot.
LEMMA EnabledSeen ==
    ASSUME IInv, IInv', NEW s \in Services, NEW d \in BOOLEAN, SetEnabled(s, d)
    PROVE  Seen
<1> DEFINE b == ~spec[s].enabled
           n == [spec[s] EXCEPT !.enabled = b]
<1>1. spec' = [spec EXCEPT ![s] = n] /\ UNCHANGED <<release, instance>>
  BY DEF SetEnabled
<1>2. n.currentLiveSlot = spec[s].currentLiveSlot
  BY Rows DEF SpecRow, IInv
<1> HIDE DEF n
<1>3. \A q \in Services : spec'[q].currentLiveSlot = spec[q].currentLiveSlot
  BY <1>1, <1>2 DEF IInv, TypeOK
<1>4. QED
  BY <1>1, <1>3, RowsUnchangedSeen

\* Sessions and heartbeats move no release.
LEMMA SessionSeen ==
    ASSUME IInv, IInv', NEW a \in Agents,
           \/ Connect(a) \/ Disconnect(a) \/ MarkOfflineStale(a)
           \/ \E running \in SUBSET SentTasks :
                 \/ Heartbeat(a, running)
                 \/ \E t \in TaskIds : HeartbeatBreaks(a, running, t)
    PROVE  Seen
<1>1. UNCHANGED <<spec, release, instance>>
  BY DEF Connect, Disconnect, MarkOfflineStale, Heartbeat, HeartbeatBreaks
<1>2. QED
  BY <1>1, RowsUnchangedSeen

----------------------------------------------------------------------------
(* The refinement.                                                         *)

\* At first nothing is live and nothing is rolled out.
LEMMA InitSeen == Init => Abstract!Init
<1> SUFFICES ASSUME Init PROVE Abstract!Init
  OBVIOUS
<1>1. liveRelease = [s \in Services |-> 0]
  BY DEF liveRelease, Init
<1>2. \A s \in Services : UnderWay(s) = {}
  BY DEF UnderWay, InProgress, Init, NoRelease
<1>3. rollouts = [s \in Services |-> None]
  BY <1>2 DEF rollouts, None
<1>4. QED
  BY <1>1, <1>3 DEF Abstract!Init, Abstract!NoRollout, None

\* Every handler, report, timeout and reconnection is a step of BlueGreen or
\* changes nothing of what it sees.
LEMMA NextSeen == IInv /\ IInv' /\ [Next]_vars => Seen
<1> SUFFICES ASSUME IInv, IInv', [Next]_vars PROVE Seen
  OBVIOUS
<1>1. CASE UNCHANGED vars
  BY <1>1, RowsUnchangedSeen DEF vars
<1>2. ASSUME NEW r \in ReleaseIds, Start(r) PROVE Seen
  <2>1. PICK t \in TaskIds, outcome \in dispatch(AgentOf[release[r].service]) :
           BeginDeploy(r, t, outcome, ListQueuedBefore(r))
    BY <1>2 DEF Start
  <2>2. outcome \in {"dispatched", "pending", "failed"}
    BY DEF dispatch
  <2>3. /\ release[r].status \in {"queued", "skipped", "failed"}
        /\ ~HasActiveRelease(release[r].service)
    BY <1>2 DEF Start, MayStart, MayDeploy
  <2>4. QED
    BY <2>1, <2>2, <2>3, DeploySeen
<1>3. ASSUME NEW r \in ReleaseIds, Retry(r) PROVE Seen
  <2>1. PICK t \in TaskIds, outcome \in dispatch(AgentOf[release[r].service]) :
           BeginDeploy(r, t, outcome, {})
    BY <1>3 DEF Retry
  <2>2. outcome \in {"dispatched", "pending", "failed"} /\ {} \subseteq ListQueuedBefore(r)
    BY DEF dispatch
  <2>3. /\ release[r].status \in {"queued", "skipped", "failed"}
        /\ ~HasActiveRelease(release[r].service)
    BY <1>3 DEF Retry, MayRetry, MayDeploy
  <2>4. QED
    BY <2>1, <2>2, <2>3, DeploySeen
<1>4. CASE Request
  BY <1>2, <1>3, <1>4, CreateSeen, EnabledSeen, RefusedSeen, SkipSeen, RollbackSeen,
     ConfirmSeen, TrafficSeen DEF Request
<1>5. CASE Environment
  <2>1. ASSUME NEW t \in TaskIds, NEW d \in BOOLEAN, TaskSucceeded(t, d) PROVE Seen
    BY <2>1, TaskSucceededSeen
  <2>2. QED
    BY <1>5, <2>1, TaskRunningSeen, TaskFailedSeen, FailStaleSeen, SessionSeen
    DEF Environment
<1>6. QED
  BY <1>1, <1>4, <1>5 DEF Next

\* The orchestration implements BlueGreen: whatever agents report, however
\* requests interleave, the live release of a service changes only by the
\* promotion of its one deployed candidate, and a candidate that has traffic is
\* not superseded by the next deployment (service.go).
THEOREM Implements == Spec => RefinesBlueGreen
<1>1. QED
  BY InitSeen, NextSeen, Inductive, PTL DEF Spec, RefinesBlueGreen, Abstract!Spec, Seen

----------------------------------------------------------------------------
(* What the steps of Release leave alone.                                  *)

\* Task rows never change their release or slot, and what was sent stays sent.
TaskKept(t) == /\ task'[t].release = task[t].release /\ task'[t].slot = task[t].slot
               /\ task'[t].status # "absent"
               /\ task[t].sent => task'[t].sent

\* The status of a task is written by reports, timeouts and replays, and a row is
\* only created where there was none (HandleTaskUpdate, FailStaleTasks, Start).
LEMMA TaskHistory ==
    ASSUME IInv, Next, NEW t \in TaskIds, task[t].status # "absent"
    PROVE  TaskKept(t)
<1>0. TypeOK /\ task[t] \in TaskRow
  BY DEF IInv, TypeOK
<1> DEFINE stays(st) == [task[t] EXCEPT !.status = st]
           sent == [task[t] EXCEPT !.status = "dispatched", !.sent = TRUE]
<1>1. ASSUME NEW st \in TaskStatus \ {"absent"}, task'[t] = stays(st)
      PROVE  TaskKept(t)
  BY <1>0, <1>1 DEF TaskKept, TaskRow
<1>2. ASSUME task'[t] = sent PROVE TaskKept(t)
  BY <1>0, <1>2 DEF TaskKept, TaskRow
<1>3. ASSUME task'[t] = task[t] PROVE TaskKept(t)
  BY <1>3 DEF TaskKept
<1>4. ASSUME NEW r \in ReleaseIds, Start(r) \/ Retry(r) PROVE TaskKept(t)
  <2>1. PICK u \in TaskIds, outcome \in dispatch(AgentOf[release[r].service]),
             skip \in SUBSET ListQueuedBefore(r) :
           BeginDeploy(r, u, outcome, skip)
    <3>1. {} \in SUBSET ListQueuedBefore(r)
      OBVIOUS
    <3>2. QED
      BY <1>4, <3>1 DEF Start, Retry
  <2>2. u # t
    BY <2>1 DEF BeginDeploy, Fresh
  <2>3. QED
    BY <1>3, <2>1, <2>2 DEF BeginDeploy
<1>5. CASE Request
  BY <1>3, <1>4, <1>5 DEF Request, CreateFromCI, SetEnabled, StartOrRetryRefused, Skip,
                          Rollback, ConfirmSwitch, SetTrafficPercent
<1>6. ASSUME NEW u \in TaskIds,
             TaskRunning(u) \/ TaskFailed(u) \/ \E d \in BOOLEAN : TaskSucceeded(u, d)
      PROVE  TaskKept(t)
  <2>1. \E st \in {"running", "failed", "succeeded"} : task' = [task EXCEPT ![u].status = st]
    BY <1>6 DEF TaskRunning, TaskFailed, TaskSucceeded
  <2>2. task'[t] = task[t] \/ \E st \in {"running", "failed", "succeeded"} : task'[t] = stays(st)
    BY <1>0, <2>1 DEF TypeOK
  <2>3. QED
    BY <1>1, <1>3, <2>2 DEF TaskStatus
<1>7. ASSUME NEW T \in SUBSET TaskIds, FailStaleTasks(T) PROVE TaskKept(t)
  BY <1>1, <1>3, <1>7 DEF FailStaleTasks, TaskStatus
<1>8. ASSUME NEW a, NEW running, NEW bound, RecoverAgentTasks(a, running, bound)
      PROVE  TaskKept(t)
  BY <1>1, <1>2, <1>3, <1>8 DEF RecoverAgentTasks, TaskStatus
<1>9. CASE Environment
  BY <1>3, <1>6, <1>7, <1>8, <1>9 DEF Environment, Connect, Disconnect, MarkOfflineStale,
                                      Heartbeat, HeartbeatBreaks
<1>10. QED
  BY <1>5, <1>9 DEF Next

\* The live release was deployed to the slot that is live.
LiveOnTarget ==
    \A s \in Services :
        LET live == spec[s].currentLiveSlot
        IN  live # 0 => release[instance[s][live].release].targetSlot = live

\* A service whose live slot and live instance stay has its live release where it
\* was, as long as completed releases keep their slots.
LEMMA LiveTargetKept ==
    ASSUME IInv, LiveOnTarget, NEW s \in Services,
           LET live == spec[s].currentLiveSlot IN
           /\ spec'[s].currentLiveSlot = live
           /\ live # 0 => instance'[s][live].release = instance[s][live].release,
           \A z \in ReleaseIds : release[z].status = "completed" =>
              release'[z].targetSlot = release[z].targetSlot
    PROVE  LET live == spec'[s].currentLiveSlot
           IN  live # 0 => release'[instance'[s][live].release].targetSlot = live
<1> DEFINE live == spec[s].currentLiveSlot
           x == instance[s][live].release
<1>1. live # 0 => x \in ReleaseIds /\ release[x].status = "completed"
  BY LiveFacts
<1>2. live # 0 => release[x].targetSlot = live
  BY DEF LiveOnTarget
<1>3. live # 0 => instance'[s][live].release = x /\ spec'[s].currentLiveSlot = live
  OBVIOUS
<1>4. spec'[s].currentLiveSlot = live
  OBVIOUS
<1> HIDE DEF live, x
<1>5. QED
  BY <1>1, <1>2, <1>3, <1>4

\* Most handlers leave slots and instances alone, and completed releases too.
LEMMA LiveTargetStays ==
    ASSUME IInv, LiveOnTarget, UNCHANGED instance,
           \A s \in Services : spec'[s].currentLiveSlot = spec[s].currentLiveSlot,
           \A z \in ReleaseIds : release[z].status = "completed" =>
              release'[z].targetSlot = release[z].targetSlot
    PROVE  LiveOnTarget'
<1>1. ASSUME NEW s \in Services
      PROVE  LET live == spec'[s].currentLiveSlot
             IN  live # 0 => release'[instance'[s][live].release].targetSlot = live
  BY LiveTargetKept
<1>2. QED
  BY <1>1 DEF LiveOnTarget

\* A switch makes the slot live that its release was deployed to (ConfirmSwitch).
LEMMA LiveTargetConfirm ==
    ASSUME IInv, LiveOnTarget, NEW r \in ReleaseIds, NEW d \in BOOLEAN, ConfirmSwitch(r, d)
    PROVE  LiveOnTarget'
<1> DEFINE s == release[r].service
           target == release[r].targetSlot
           prev == release[r].previousLiveSlot
           P == completePreviousLiveRelease(r)
           w == [release[r] EXCEPT !.trafficPercent = 100, !.switchConfirmed = TRUE,
                                   !.status = "completed"]
           v(x) == [release[x] EXCEPT !.trafficPercent = 0, !.status = "completed"]
<1>1. /\ s \in Services /\ target \in Slots /\ release[r] \in ReleaseRow
      /\ instance[s][target].release = r
  BY Rows DEF IInv, CandidateIsOwnInstance, ConfirmSwitch
<1>2. release'[r].targetSlot = target
  BY <1>1 DEF ConfirmSwitch, ReleaseRow
<1>3. \A z \in ReleaseIds : release'[z].targetSlot = release[z].targetSlot
  <2> SUFFICES ASSUME NEW z \in ReleaseIds, z # r
               PROVE  release'[z].targetSlot = release[z].targetSlot
    BY <1>2
  <2>1. CASE z \in P
    <3>1. release'[z] = Updates(release[z], v(z))
      BY <2>1 DEF ConfirmSwitch
    <3>2. release[z] \in ReleaseRow /\ 0 \in 0..100 /\ "completed" \in ReleaseStatus
      BY Rows DEF IInv, ReleaseStatus
    <3>3. v(z) \in ReleaseRow /\ v(z).targetSlot = release[z].targetSlot
      <4>1. v(z) \in ReleaseRow
        BY <3>2, Zenon DEF ReleaseRow
      <4>2. QED
        BY <3>2, <4>1 DEF ReleaseRow
    <3> HIDE DEF v
    <3>4. QED
      BY <3>1, <3>2, <3>3, UpdatesRow
  <2>2. CASE z \notin P
    BY <2>2 DEF ConfirmSwitch
  <2>3. QED
    BY <2>1, <2>2
<1>4. \A q \in Services \ {s} : spec'[q] = spec[q] /\ instance'[q] = instance[q]
  BY DEF ConfirmSwitch, updateTrafficFlags, IInv, TypeOK
<1>5. spec'[s].currentLiveSlot = target
  BY <1>1, Rows DEF ConfirmSwitch, IInv, TypeOK
<1>6. instance'[s][target].release = r
  <2>1. instance' = updateTrafficFlags(s, target, prev)
    BY DEF ConfirmSwitch
  <2>2. instance'[s][target] \in {instance[s][target],
                                  [instance[s][target] EXCEPT !.accepting = TRUE],
                                  [instance[s][target] EXCEPT !.accepting = FALSE]}
    BY <1>1, <2>1 DEF updateTrafficFlags, IInv, TypeOK
  <2>3. instance[s][target] \in Instance
    BY <1>1, Rows DEF IInv
  <2>4. QED
    BY <1>1, <2>2, <2>3 DEF Instance
<1>7. ASSUME NEW q \in Services
      PROVE  LET live == spec'[q].currentLiveSlot
             IN  live # 0 => release'[instance'[q][live].release].targetSlot = live
  <2>1. CASE q = s
    <3> HIDE DEF s, target
    <3>1. QED
      BY <1>2, <1>5, <1>6, <2>1
  <2>2. CASE q # s
    BY <1>3, <1>4, <2>2, LiveTargetKept
  <2>3. QED
    BY <2>1, <2>2
<1>8. QED
  BY <1>7 DEF LiveOnTarget

\* Only a switch makes another slot live, and it takes the candidate's own.
LEMMA LiveTargetNext ==
    ASSUME IInv, LiveOnTarget, Next
    PROVE  LiveOnTarget'
<1>0. TypeOK
  BY DEF IInv
<1>1. ASSUME NEW s \in Services, NEW i \in Images, CreateFromCI(s, i) PROVE LiveOnTarget'
  <2>1. PICK r \in ReleaseIds :
           /\ Fresh(release, r)
           /\ \A x \in ReleaseIds : x # r => release'[x] = release[x]
    BY <1>0, <1>1 DEF CreateFromCI, TypeOK
  <2>2. release[r].status = "absent"
    BY <2>1 DEF Fresh
  <2>3. QED
    BY <1>1, <2>1, <2>2, LiveTargetStays DEF CreateFromCI
<1>2. ASSUME NEW s \in Services, NEW d \in BOOLEAN, SetEnabled(s, d) PROVE LiveOnTarget'
  <2>1. \A q \in Services : spec'[q].currentLiveSlot = spec[q].currentLiveSlot
    BY <1>0, <1>2 DEF SetEnabled, TypeOK
  <2>2. QED
    BY <1>2, <2>1, LiveTargetStays DEF SetEnabled
<1>3. ASSUME NEW r \in ReleaseIds, Start(r) \/ Retry(r) PROVE LiveOnTarget'
  <2>1. PICK t \in TaskIds, outcome \in dispatch(AgentOf[release[r].service]),
             skip \in SUBSET ListQueuedBefore(r) :
           BeginDeploy(r, t, outcome, skip)
    <3>1. {} \in SUBSET ListQueuedBefore(r)
      OBVIOUS
    <3>2. QED
      BY <1>3, <3>1 DEF Start, Retry
  <2>2. \A x \in ReleaseIds : IsTerminal(release[x].status) => x = r \/ release'[x] = release[x]
    BY <1>0, <2>1, DeployKeepsEnded
  <2>3. release[r].status # "completed"
    BY <1>3 DEF Start, MayStart, Retry, MayRetry
  <2>4. QED
    BY <2>1, <2>2, <2>3, LiveTargetStays DEF BeginDeploy, IsTerminal
<1>4. ASSUME NEW r \in ReleaseIds, StartOrRetryRefused(r) \/ Skip(r) PROVE LiveOnTarget'
  <2>1. /\ UNCHANGED <<spec, instance>>
        /\ \A z \in ReleaseIds : release[z].status = "completed" => release'[z] = release[z]
    BY <1>0, <1>4 DEF StartOrRetryRefused, completeSupersededRelease, Skip, TypeOK
  <2>2. QED
    BY <2>1, LiveTargetStays
<1>5. ASSUME NEW r \in ReleaseIds, NEW d \in BOOLEAN,
             Rollback(r, d) \/ \E p \in Percents \cup {0} : SetTrafficPercent(r, p, d)
      PROVE  LiveOnTarget'
  <2>1. /\ release[r].status = "readyToSwitch"
        /\ \A x \in ReleaseIds : x # r => release'[x] = release[x]
    BY <1>0, <1>5 DEF Rollback, SetTrafficPercent, TypeOK
  <2>2. spec' = spec /\ instance' = instance
    BY <1>5, <2>1, LiveUnmoved DEF Rollback, SetTrafficPercent
  <2>3. QED
    BY <2>1, <2>2, LiveTargetStays
<1>6. CASE Request
  BY <1>1, <1>2, <1>3, <1>4, <1>5, <1>6, LiveTargetConfirm DEF Request
<1>7. ASSUME NEW t \in TaskIds, TaskRunning(t) \/ TaskFailed(t) PROVE LiveOnTarget'
  <2>1. /\ UNCHANGED <<spec, instance>>
        /\ \A x \in ReleaseIds : x # task[t].release => release'[x] = release[x]
    BY <1>0, <1>7 DEF TaskRunning, TaskFailed, TypeOK
  <2>2. release[task[t].release].status \in {"dispatching", "deploying"}
    BY <1>7, AppliesFacts DEF TaskRunning, TaskFailed
  <2>3. QED
    BY <2>1, <2>2, LiveTargetStays
<1>8. ASSUME NEW t \in TaskIds, NEW d \in BOOLEAN, TaskSucceeded(t, d) PROVE LiveOnTarget'
  <2> DEFINE r == task[t].release
             s == release[r].service
             slot == task[t].slot
  <2>1. /\ r \in ReleaseIds /\ s \in Services /\ slot \in Slots
        /\ release[r].status \in {"dispatching", "deploying"}
        /\ slot = release[r].targetSlot
    BY <1>0, <1>8, AppliesFacts, Rows DEF TaskSucceeded
  <2>2. slot # spec[s].currentLiveSlot
    <3>1. slot = nextSlot(spec[s].currentLiveSlot)
      BY <2>1 DEF IInv, SlotsFollowLive, InProgress
    <3>2. QED
      BY <1>0, <2>1, <3>1, SlotFacts, Rows
  <2>3. /\ UNCHANGED spec
        /\ \A x \in ReleaseIds : x # r => release'[x] = release[x]
        /\ instance' = [instance EXCEPT ![s][slot] = [release |-> r, accepting |-> FALSE]]
    BY <1>0, <1>8 DEF TaskSucceeded, TypeOK
  <2>4. /\ \A q \in Services : q # s => instance'[q] = instance[q]
        /\ \A y \in Slots : y # slot => instance'[s][y] = instance[s][y]
    <3> HIDE DEF r, s, slot
    <3>1. QED
      BY <1>0, <2>1, <2>3 DEF TypeOK
  <2>5. ASSUME NEW q \in Services
        PROVE  LET live == spec'[q].currentLiveSlot
               IN  live # 0 => release'[instance'[q][live].release].targetSlot = live
    <3>1. spec[q].currentLiveSlot \in Slots \cup {0}
      BY <1>0, Rows
    <3>2. spec[q].currentLiveSlot # 0 =>
             instance'[q][spec[q].currentLiveSlot] = instance[q][spec[q].currentLiveSlot]
      BY <2>2, <2>4, <3>1
    <3>3. \A z \in ReleaseIds : release[z].status = "completed" => release'[z] = release[z]
      BY <2>1, <2>3
    <3>4. QED
      BY <2>3, <3>2, <3>3, LiveTargetKept
  <2>6. QED
    BY <2>5 DEF LiveOnTarget
<1>9. ASSUME NEW T \in SUBSET TaskIds, FailStaleTasks(T) PROVE LiveOnTarget'
  <2>1. \A x \in ReleaseIds : IsTerminal(release[x].status) => release'[x] = release[x]
    BY <1>9 DEF FailStaleTasks
  <2>2. QED
    BY <1>9, <2>1, LiveTargetStays DEF FailStaleTasks, IsTerminal
<1>10. CASE UNCHANGED <<spec, release, instance>>
  BY <1>10, LiveTargetStays
<1>11. CASE Environment
  BY <1>7, <1>8, <1>9, <1>10, <1>11 DEF Environment, Connect, Disconnect, MarkOfflineStale,
                                        Heartbeat, HeartbeatBreaks
<1>12. QED
  BY <1>6, <1>11 DEF Next

----------------------------------------------------------------------------
(* What the agent has of the tasks and the releases.                       *)

\* A command is queued at most once when its task is created and once more when a
\* heartbeat has it replayed; a stream that is gone has no queue.
CommandsCounted ==
    /\ \A t \in TaskIds : command[t] = 0 \/ agent \in session
    /\ \A t \in TaskIds : command[t] \in 0..2 /\ (command[t] = 2 => t \in replayed[agent])

\* The agent only knows tasks that were sent to it.
OnlySentTasks ==
    \A t \in TaskIds : command[t] > 0 \/ job[t].step # "idle" => task[t].sent

\* Every container was created by a task of its release, with the slot of that task.
ContainersOfTasks ==
    \A r \in ReleaseIds : Exists(r) =>
        \E t \in TaskIds : /\ task[t].release = r /\ task[t].status # "absent"
                           /\ task[t].slot = container[r].slot

AgentTypeOK ==
    /\ command \in [TaskIds -> 0..2]
    /\ report \subseteq [task: TaskIds, result: {"succeeded", "failed"}]
    /\ up \in BOOLEAN
    /\ job \in [TaskIds -> Job]
    /\ container \in [ReleaseIds -> Container]
    /\ faults \in 0..MaxFaults

AgentInv == /\ AgentTypeOK
            /\ CommandsCounted
            /\ OnlySentTasks
            /\ ContainersOfTasks

DInv == IInv /\ LiveOnTarget /\ AgentInv

\* The agent of every service is one of the agents.
LEMMA TheAgent == agent \in Agents
BY DeploymentAssumption

\* The tasks that run were sent.
LEMMA RunningWereSent == AgentInv => Running \in SUBSET SentTasks
BY DEF AgentInv, OnlySentTasks, Running, SentTasks

\* A goroutine that does not run and a container that does not exist are typed.
LEMMA IdleIsJob == Idle \in Job /\ NoContainer \in Container /\ Idle.step = "idle"
BY SlotFacts DEF Idle, Job, Steps, NoContainer, Container

\* The goroutines after one of them has gone on.
LEMMA JobsContinue ==
    ASSUME AgentTypeOK, NEW t \in TaskIds, NEW step \in Steps, NEW held \in BOOLEAN, NEW R,
           job' = [Dropped(job, R) EXCEPT ![t].step = step, ![t].held = held]
    PROVE  /\ job' \in [TaskIds -> Job]
           /\ job'[t].step = step
           /\ \A u \in TaskIds : u # t => job'[u].step = job[u].step
<1> DEFINE d == Dropped(job, R)
           n(u) == [job[u] EXCEPT !.held = @ /\ task[u].release \notin R]
           m == [n(t) EXCEPT !.step = step, !.held = held]
<1>1. d = [u \in TaskIds |-> n(u)]
  BY DEF Dropped
<1>2. ASSUME NEW u \in TaskIds PROVE n(u) \in Job /\ n(u).step = job[u].step
  <2>1. job[u] \in Job /\ (job[u].held /\ task[u].release \notin R) \in BOOLEAN
    BY DEF AgentTypeOK, Job
  <2>2. n(u) \in Job
    BY <2>1, Zenon DEF Job
  <2>3. QED
    BY <2>1, <2>2 DEF Job
<1>3. job' = [d EXCEPT ![t] = m]
  BY <1>1
<1>4. m \in Job /\ m.step = step
  <2> HIDE DEF n
  <2>1. n(t) \in Job
    BY <1>2
  <2>2. QED
    BY <2>1 DEF Job
<1> HIDE DEF d, n, m
<1>5. /\ \A u \in TaskIds : d[u] \in Job /\ d[u].step = job[u].step
      /\ d = [u \in TaskIds |-> d[u]]
  BY <1>1, <1>2
<1>6. job'[t] = m /\ \A u \in TaskIds : u # t => job'[u] = d[u]
  BY <1>3, <1>5
<1>7. job' \in [TaskIds -> Job]
  BY <1>3, <1>4, <1>5
<1>8. QED
  BY <1>4, <1>5, <1>6, <1>7

\* The goroutines after the final report of one of them.
LEMMA JobsFinish ==
    ASSUME AgentTypeOK, NEW t \in TaskIds, NEW R,
           job' = [Dropped(job, R) EXCEPT ![t] = Idle]
    PROVE  /\ job' \in [TaskIds -> Job]
           /\ job'[t].step = "idle"
           /\ \A u \in TaskIds : u # t => job'[u].step = job[u].step
<1> DEFINE d == Dropped(job, R)
           n(u) == [job[u] EXCEPT !.held = @ /\ task[u].release \notin R]
<1>1. d = [u \in TaskIds |-> n(u)]
  BY DEF Dropped
<1>2. ASSUME NEW u \in TaskIds PROVE n(u) \in Job /\ n(u).step = job[u].step
  <2>1. job[u] \in Job /\ (job[u].held /\ task[u].release \notin R) \in BOOLEAN
    BY DEF AgentTypeOK, Job
  <2>2. n(u) \in Job
    BY <2>1, Zenon DEF Job
  <2>3. QED
    BY <2>1, <2>2 DEF Job
<1>3. job' = [d EXCEPT ![t] = Idle]
  OBVIOUS
<1> HIDE DEF d, n
<1>4. QED
  BY <1>1, <1>2, <1>3, IdleIsJob

\* After a panic no goroutine is left (an unrecovered panic ends the process).
LEMMA JobsDie ==
    ASSUME AgentTypeOK, AgentDies
    PROVE  up' \in BOOLEAN /\ job' \in [TaskIds -> Job] /\ \A u \in TaskIds : job'[u].step = "idle"
BY IdleIsJob DEF AgentDies

\* The steps of goroutine t leave the other goroutines where they are, or end all.
Moved(t) == /\ up' \in BOOLEAN /\ job' \in [TaskIds -> Job]
            /\ \A u \in TaskIds : job'[u].step # "idle" => job[u].step # "idle"
            /\ job'[t].step # job[t].step

\* A goroutine that goes on, or dies on a closed channel when it reports.
LEMMA ContinueMoves ==
    ASSUME AgentTypeOK, NEW t \in TaskIds, NEW step \in Steps, NEW held \in BOOLEAN, NEW R,
           job[t].step \notin {"idle", step},
           Continue(t, step, held, R) \/ ReportRunning(t, step, held, R)
    PROVE  Moved(t)
<1>1. CASE AgentDies
  BY <1>1, JobsDie DEF Moved
<1>2. CASE Continue(t, step, held, R)
  <2>1. job' = [Dropped(job, R) EXCEPT ![t].step = step, ![t].held = held] /\ up' = up
    BY <1>2 DEF Continue
  <2>2. up' \in BOOLEAN
    BY <2>1 DEF AgentTypeOK
  <2>3. QED
    BY <2>1, <2>2, JobsContinue DEF Moved
<1>3. QED
  BY <1>1, <1>2 DEF ReportRunning

\* A goroutine that ends with its final report, or dies on a closed channel.
LEMMA FinishMoves ==
    ASSUME AgentTypeOK, NEW t \in TaskIds, NEW result \in {"succeeded", "failed"}, NEW R,
           job[t].step # "idle", Finish(t, result, R)
    PROVE  /\ Moved(t)
           /\ report' \subseteq [task: TaskIds, result: {"succeeded", "failed"}]
<1>1. CASE AgentDies /\ UNCHANGED report
  BY <1>1, JobsDie DEF Moved, AgentTypeOK
<1>2. CASE /\ report' = report \cup {[task |-> t, result |-> result]}
           /\ job' = [Dropped(job, R) EXCEPT ![t] = Idle] /\ UNCHANGED up
  <2>1. up' \in BOOLEAN
    BY <1>2 DEF AgentTypeOK
  <2>2. Moved(t)
    BY <1>2, <2>1, JobsFinish DEF Moved
  <2>3. QED
    BY <1>2, <2>2 DEF AgentTypeOK
<1>3. QED
  BY <1>1, <1>2 DEF Finish

\* Removing containers keeps the labels of those that stay.
LEMMA RemoveKeeps ==
    ASSUME AgentTypeOK, NEW R, Remove(R)
    PROVE  /\ container' \in [ReleaseIds -> Container]
           /\ \A r \in ReleaseIds : Exists(r)' => Exists(r) /\ container'[r].slot = container[r].slot
           /\ \A r \in ReleaseIds : Removed(r) => r \in R
<1>1. ASSUME NEW r \in ReleaseIds
      PROVE  /\ container'[r] \in Container
             /\ Exists(r)' => Exists(r) /\ container'[r].slot = container[r].slot
             /\ Removed(r) => r \in R
  <2>1. container[r] \in Container
    BY DEF AgentTypeOK
  <2>2. CASE r \in R
    <3>1. container'[r] = [container[r] EXCEPT !.state = "none"]
      BY <2>2 DEF Remove
    <3>2. container'[r] \in Container /\ container'[r].state = "none"
      BY <2>1, <3>1 DEF Container
    <3>3. QED
      BY <2>2, <3>2 DEF Exists
  <2>3. CASE r \notin R
    <3>1. container'[r] = container[r]
      BY <2>3 DEF Remove
    <3>2. QED
      BY <2>1, <3>1 DEF Exists, Removed
  <2>4. QED
    BY <2>2, <2>3
<1>2. container' = [r \in ReleaseIds |-> container'[r]]
  BY DEF Remove
<1>3. QED
  BY <1>1, <1>2

\* A step of one goroutine that removes the containers of R at most.
Worked(t, R) ==
    /\ Moved(t)
    /\ report' \subseteq [task: TaskIds, result: {"succeeded", "failed"}]
    /\ container' \in [ReleaseIds -> Container]
    /\ \A r \in ReleaseIds : Exists(r)' =>
          \/ Exists(r) /\ container'[r].slot = container[r].slot
          \/ r = task[t].release /\ container'[r].slot = task[t].slot
    /\ \A r \in ReleaseIds : Removed(r) => r \in R

\* A goroutine that leaves the containers alone.
LEMMA ContainersStay ==
    ASSUME AgentTypeOK, UNCHANGED container
    PROVE  /\ container' \in [ReleaseIds -> Container]
           /\ \A r \in ReleaseIds : Exists(r)' => Exists(r) /\ container'[r].slot = container[r].slot
           /\ \A r \in ReleaseIds : ~Removed(r)
BY DEF AgentTypeOK, Exists, Removed

\* The containers that step t of a goroutine may remove while they run.
Removable(t) ==
    {r \in ReleaseIds :
        \/ job[t].step = "clean" /\ r \in StaleOnSlot(t)
        \/ job[t].step = "wait" /\ r = task[t].release}

\* Every step of a goroutine creates or removes containers of its own task, or
\* removes those on the slot it cleans (executor.go, docker_client.go).
LEMMA ExecutorWorks ==
    ASSUME TypeOK, AgentTypeOK, NEW t \in TaskIds, ExecutorStep(t)
    PROVE  Worked(t, Removable(t))
<1> USE DEF Worked
<1>0. /\ UNCHANGED vars
      /\ job[t] \in Job /\ task[t] \in TaskRow /\ task[t].release \in ReleaseIds
  BY DEF ExecutorStep, AgentTypeOK, TypeOK, TaskRow
<1>1. CASE FailsEarly(t)
  <2>1. Finish(t, "failed", {}) /\ UNCHANGED container /\ job[t].step # "idle"
    BY <1>1 DEF FailsEarly
  <2>2. QED
    BY <2>1, FinishMoves, ContainersStay
<1>2. CASE ImagePulled(t)
  <2>1. /\ ReportRunning(t, "find", FALSE, {}) /\ UNCHANGED <<report, container>>
        /\ job[t].step \notin {"idle", "find"} /\ "find" \in Steps
    BY <1>2 DEF ImagePulled, Steps
  <2>2. Moved(t)
    BY <2>1, ContinueMoves
  <2>3. QED
    BY <2>1, <2>2, ContainersStay DEF AgentTypeOK
<1>3. CASE Find(t)
  <2> DEFINE found == Exists(task[t].release)
             step == IF found THEN "inspect" ELSE "clean"
  <2>1. /\ Continue(t, step, found, {}) /\ UNCHANGED <<report, container>>
        /\ job[t].step \notin {"idle", step} /\ step \in Steps
        /\ found \in BOOLEAN
    BY <1>3 DEF Find, Steps, Exists
  <2>2. Moved(t)
    BY <2>1, ContinueMoves
  <2>3. QED
    BY <2>1, <2>2, ContainersStay DEF AgentTypeOK
<1>4. CASE Clean(t)
  <2>1. PICK R : /\ R \subseteq StaleOnSlot(t)
                 /\ Remove(R) /\ Continue(t, "create", FALSE, R) /\ UNCHANGED report
    BY <1>4 DEF Clean
  <2>2. job[t].step = "clean" /\ "create" \in Steps
    BY <1>4 DEF Clean, Steps
  <2>3. Moved(t)
    BY <2>1, <2>2, ContinueMoves
  <2>4. R \subseteq Removable(t)
    BY <2>1, <2>2 DEF Removable, StaleOnSlot
  <2>5. QED
    BY <2>1, <2>3, <2>4, RemoveKeeps DEF AgentTypeOK
<1>5. CASE Inspect(t)
  <2> DEFINE r == task[t].release
  <2>1. job[t].step = "inspect" /\ "wait" \in Steps /\ "create" \in Steps
    BY <1>5 DEF Inspect, Steps
  <2>2. CASE Finish(t, "succeeded", {}) /\ UNCHANGED container
    BY <2>1, <2>2, FinishMoves, ContainersStay
  <2>3. CASE ReportRunning(t, "wait", TRUE, {}) /\ UNCHANGED <<report, container>>
    <3>1. Moved(t)
      BY <2>1, <2>3, ContinueMoves
    <3>2. QED
      BY <2>3, <3>1, ContainersStay DEF AgentTypeOK
  <2>4. CASE /\ container[r].state \in {"created", "exited"}
             /\ Remove({r}) /\ Continue(t, "create", FALSE, {r}) /\ UNCHANGED report
    <3>1. Moved(t)
      BY <2>1, <2>4, ContinueMoves
    <3>2. \A x \in ReleaseIds : ~Removed(x)
      BY <2>4, RemoveKeeps DEF Removed
    <3>3. QED
      BY <2>4, <3>1, <3>2, RemoveKeeps DEF AgentTypeOK
  <2>5. QED
    BY <1>5, <2>2, <2>3, <2>4 DEF Inspect
<1>6. CASE Create(t)
  <2> DEFINE r == task[t].release
             c(state) == [state |-> state, slot |-> task[t].slot]
  <2>1. job[t].step = "create" /\ "wait" \in Steps /\ ~Exists(r)
    BY <1>6 DEF Create, Steps
  <2>2. PICK state \in {"created", "running"} : container' = [container EXCEPT ![r] = c(state)]
    BY <1>6 DEF Create
  <2>3. /\ container' \in [ReleaseIds -> Container]
        /\ container'[r].slot = task[t].slot
        /\ \A x \in ReleaseIds : x # r => container'[x] = container[x]
    BY <1>0, <2>2 DEF AgentTypeOK, Container, TaskRow
  <2>4. \A x \in ReleaseIds : ~Removed(x)
    BY <2>1, <2>3 DEF Removed, Exists
  <2>5. Moved(t) /\ report' \subseteq [task: TaskIds, result: {"succeeded", "failed"}]
    <3>1. CASE Finish(t, "failed", {})
      BY <2>1, <3>1, FinishMoves
    <3>2. CASE ReportRunning(t, "wait", TRUE, {}) /\ UNCHANGED report
      BY <2>1, <3>2, ContinueMoves DEF AgentTypeOK
    <3>3. QED
      BY <1>6, <3>1, <3>2 DEF Create
  <2>6. \A x \in ReleaseIds : Exists(x)' =>
           \/ Exists(x) /\ container'[x].slot = container[x].slot
           \/ x = r /\ container'[x].slot = task[t].slot
    BY <2>3 DEF Exists
  <2>7. QED
    BY <2>3, <2>4, <2>5, <2>6
<1>7. CASE Healthy(t)
  <2>1. Finish(t, "succeeded", {}) /\ UNCHANGED container /\ job[t].step # "idle"
    BY <1>7 DEF Healthy
  <2>2. QED
    BY <2>1, FinishMoves, ContainersStay
<1>8. CASE ProbeReportFails(t)
  <2>1. AgentDies /\ UNCHANGED <<report, container>> /\ job[t].step # "idle"
    BY <1>8 DEF ProbeReportFails
  <2>2. Moved(t)
    BY <2>1, JobsDie DEF Moved
  <2>3. QED
    BY <2>1, <2>2, ContainersStay DEF AgentTypeOK
<1>9. CASE Unhealthy(t)
  <2>1. PICK R \in collectFailureDiagnostic(t) : Remove(R) /\ Finish(t, "failed", R)
    BY <1>9 DEF Unhealthy
  <2>2. job[t].step = "wait" /\ R \subseteq {task[t].release}
    BY <1>9, <2>1 DEF Unhealthy, collectFailureDiagnostic
  <2>3. R \subseteq Removable(t)
    BY <1>0, <2>2 DEF Removable
  <2>4. QED
    BY <2>1, <2>2, <2>3, FinishMoves, RemoveKeeps
<1>10. QED
  BY <1>1, <1>2, <1>3, <1>4, <1>5, <1>6, <1>7, <1>8, <1>9 DEF ExecutorStep

\* Tasks that the control plane has stay as they are known to the agent.
LEMMA TasksKept ==
    ASSUME IInv, [Next]_vars, NEW t \in TaskIds, task[t].status # "absent"
    PROVE  TaskKept(t)
<1>1. CASE UNCHANGED vars
  BY <1>1 DEF vars, TaskKept
<1>2. QED
  BY <1>1, TaskHistory

\* Where commands and goroutines only come from tasks that were sent, they stay so.
LEMMA SentKept ==
    ASSUME IInv, AgentInv, [Next]_vars,
           \A t \in TaskIds : command'[t] > 0 \/ job'[t].step # "idle" =>
              command[t] > 0 \/ job[t].step # "idle" \/ task'[t].sent
    PROVE  OnlySentTasks'
<1> SUFFICES ASSUME NEW t \in TaskIds, command[t] > 0 \/ job[t].step # "idle"
             PROVE  task'[t].sent
  BY DEF OnlySentTasks
<1>1. task[t].sent
  BY DEF AgentInv, OnlySentTasks
<1>2. task[t].status # "absent"
  BY <1>1 DEF IInv, RowsBelong
<1>3. QED
  BY <1>1, <1>2, TasksKept DEF TaskKept

\* Containers that stay, or are those of a task that was sent, have their task.
LEMMA ContainersKept ==
    ASSUME IInv, AgentInv, [Next]_vars,
           \A r \in ReleaseIds : Exists(r)' =>
              \/ Exists(r) /\ container'[r].slot = container[r].slot
              \/ \E t \in TaskIds : /\ task[t].release = r /\ task[t].sent
                                    /\ container'[r].slot = task[t].slot
    PROVE  ContainersOfTasks'
<1> SUFFICES ASSUME NEW r \in ReleaseIds, Exists(r)'
             PROVE  \E t \in TaskIds : /\ task'[t].release = r /\ task'[t].status # "absent"
                                       /\ task'[t].slot = container'[r].slot
  BY DEF ContainersOfTasks
<1>1. PICK t \in TaskIds : /\ task[t].release = r /\ task[t].status # "absent"
                           /\ task[t].slot = container'[r].slot
  BY DEF AgentInv, ContainersOfTasks, IInv, RowsBelong
<1>2. QED
  BY <1>1, TasksKept DEF TaskKept

\* Steps of the control plane that leave the agent and its stream alone.
LEMMA AgentStays ==
    ASSUME IInv, AgentInv, [Next]_vars, UNCHANGED <<agentVars, session, replayed>>
    PROVE  AgentInv'
<1> USE DEF agentVars
<1>1. AgentTypeOK'
  BY DEF AgentInv, AgentTypeOK
<1>2. CommandsCounted'
  BY DEF AgentInv, CommandsCounted
<1>3. OnlySentTasks'
  BY SentKept
<1>4. ContainersOfTasks'
  BY ContainersKept DEF Exists
<1>5. QED
  BY <1>1, <1>2, <1>3, <1>4 DEF AgentInv

\* Start and Retry, with the command of the new task.
LEMMA DispatchedInv ==
    ASSUME IInv, AgentInv, NEW r \in ReleaseIds,
           Dispatched(Start(r)) \/ Dispatched(Retry(r))
    PROVE  AgentInv'
<1> DEFINE new == {t \in TaskIds : task[t].status = "absent" /\ task'[t].status # "absent"}
           sent == agent \in session
<1>1. /\ Start(r) \/ Retry(r)
      /\ \A t \in new : task'[t].status = IF sent THEN "dispatched" ELSE "pending"
      /\ command' = [t \in TaskIds |-> IF t \in new /\ sent THEN 1 ELSE command[t]]
      /\ UNCHANGED <<report, up, job, container, faults>>
  BY DEF Dispatched
<1>2. PICK u \in TaskIds, outcome \in dispatch(AgentOf[release[r].service]),
           skip \in SUBSET ListQueuedBefore(r) :
         BeginDeploy(r, u, outcome, skip)
  <2>1. {} \in SUBSET ListQueuedBefore(r)
    OBVIOUS
  <2>2. QED
    BY <1>1, <2>1 DEF Start, Retry
<1>3. UNCHANGED <<session, replayed>> /\ Next
  BY <1>1, <1>2 DEF BeginDeploy, Next, Request
<1>4. AgentTypeOK'
  BY <1>1 DEF AgentInv, AgentTypeOK
<1>5. CommandsCounted'
  BY <1>1, <1>3 DEF AgentInv, CommandsCounted
<1>6. \A t \in new : sent => task'[t].sent
  <2>1. task'[u] = [release |-> r, status |-> outcome, slot |-> deployRow(r, u).targetSlot,
                    sent |-> outcome = "dispatched"]
    BY <1>2 DEF BeginDeploy, IInv, TypeOK
  <2>2. \A t \in TaskIds : t # u => task'[t] = task[t]
    BY <1>2 DEF BeginDeploy, IInv, TypeOK
  <2>3. new \subseteq {u}
    BY <2>2
  <2>4. task'[u].status = outcome /\ task'[u].sent = (outcome = "dispatched")
    BY <2>1
  <2>5. sent /\ u \in new => outcome = "dispatched"
    BY <1>1, <2>4
  <2>6. QED
    BY <2>3, <2>4, <2>5
<1>7. OnlySentTasks'
  BY <1>1, <1>3, <1>6, SentKept
<1>8. ContainersOfTasks'
  BY <1>1, <1>3, ContainersKept DEF Exists
<1>9. QED
  BY <1>4, <1>5, <1>7, <1>8 DEF AgentInv

\* A goroutine takes a step, or a command reaches the agent.
LEMMA ExecutorInv ==
    ASSUME IInv, AgentInv, NEW t \in TaskIds, ExecutorStep(t)
    PROVE  AgentInv'
<1>1. Worked(t, Removable(t)) /\ UNCHANGED <<vars, command, faults>>
  BY ExecutorWorks DEF IInv, AgentInv, ExecutorStep
<1>2. job[t].step # "idle"
  BY DEF ExecutorStep, FailsEarly, ImagePulled, Find, Clean, Inspect, Create, Healthy,
         ProbeReportFails, Unhealthy
<1>3. AgentTypeOK'
  BY <1>1 DEF AgentInv, AgentTypeOK, Worked, Moved
<1>4. CommandsCounted'
  BY <1>1 DEF AgentInv, CommandsCounted, vars
<1>5. OnlySentTasks'
  BY <1>1, SentKept DEF Worked, Moved
<1>6. task[t].sent
  BY <1>2 DEF AgentInv, OnlySentTasks
<1>7. ContainersOfTasks'
  BY <1>1, <1>6, ContainersKept DEF Worked
<1>8. QED
  BY <1>3, <1>4, <1>5, <1>7 DEF AgentInv

\* A command that reaches the agent is that of a task that was sent (handleTask).
LEMMA DeliverInv ==
    ASSUME IInv, AgentInv, NEW t \in TaskIds, Deliver(t)
    PROVE  AgentInv'
<1> DEFINE first == [step |-> "image", held |-> FALSE, open |-> TRUE]
<1>1. /\ agent \in session /\ command[t] > 0
      /\ command' = [command EXCEPT ![t] = @ - 1]
      /\ UNCHANGED <<vars, report, up, container, faults>>
      /\ job' = job \/ job' = [job EXCEPT ![t] = first]
      /\ task[t].sent
  BY DEF Deliver, AgentInv, OnlySentTasks
<1>2. first \in Job
  BY DEF Job, Steps
<1>3. command' \in [TaskIds -> 0..2] /\ command'[t] < 2
      /\ \A u \in TaskIds : u # t => command'[u] = command[u]
  <2>1. command \in [TaskIds -> 0..2] /\ command[t] - 1 \in 0..2 /\ command[t] - 1 < 2
    BY <1>1 DEF AgentInv, AgentTypeOK
  <2>2. QED
    BY <1>1, <2>1
<1>4. job' \in [TaskIds -> Job] /\ \A u \in TaskIds : u # t => job'[u] = job[u]
  BY <1>1, <1>2 DEF AgentInv, AgentTypeOK
<1>5. AgentTypeOK'
  BY <1>1, <1>3, <1>4 DEF AgentInv, AgentTypeOK
<1>6. CommandsCounted'
  BY <1>1, <1>3 DEF AgentInv, CommandsCounted, vars
<1>7. OnlySentTasks'
  BY <1>1, <1>3, <1>4, SentKept DEF vars
<1>8. ContainersOfTasks'
  BY <1>1, ContainersKept DEF Exists
<1>9. QED
  BY <1>5, <1>6, <1>7, <1>8 DEF AgentInv

\* A heartbeat replays a task at most once in a session.
LEMMA HeartbeatInv ==
    ASSUME IInv, AgentInv, HeartbeatSent
    PROVE  AgentInv' /\ Next
<1> DEFINE R == Replays(Running)
<1>1. /\ agent \in session /\ Heartbeat(agent, Running)
      /\ command' = [t \in TaskIds |-> command[t] + IF t \in R THEN 1 ELSE 0]
      /\ UNCHANGED <<report, up, job, container, faults>>
  BY DEF HeartbeatSent
<1>2. Next
  BY <1>1, TheAgent, RunningWereSent DEF Next, Environment
<1>3. /\ session' = session
      /\ replayed'[agent] = replayed[agent] \cup Unreported(agent, Running)
  BY <1>1, TheAgent DEF Heartbeat, IInv, TypeOK
<1>4. ASSUME NEW t \in TaskIds
      PROVE  command'[t] \in 0..2 /\ (command'[t] = 2 => t \in replayed'[agent])
  <2>1. CASE t \in R
    <3>1. command[t] \in 0..1 /\ t \in replayed'[agent]
      BY <1>3, <2>1 DEF Replays, AgentInv, CommandsCounted
    <3>2. QED
      BY <1>1, <2>1, <3>1
  <2>2. CASE t \notin R
    BY <1>1, <1>3, <2>2 DEF AgentInv, CommandsCounted
  <2>3. QED
    BY <2>1, <2>2
<1>5. AgentTypeOK'
  <2>1. command' \in [TaskIds -> 0..2]
    BY <1>1, <1>4
  <2>2. QED
    BY <1>1, <2>1 DEF AgentInv, AgentTypeOK
<1>6. CommandsCounted'
  BY <1>1, <1>3, <1>4 DEF CommandsCounted
<1>7. \A t \in R : task'[t].sent
  <2>1. ASSUME NEW t \in R PROVE task'[t].sent
    <3>1. /\ t \in TaskIds /\ t < MaxTasks + 1
          /\ t \in ListRecoverableTasksByAgent(agent)
          /\ t \notin Running /\ t \notin replayed[agent]
      BY ReleaseAssumption DEF Replays, Unreported, ListRecoverableTasksByAgent, TaskIds
    <3>2. ~(t >= MaxTasks + 1)
      BY <3>1, ReleaseAssumption DEF TaskIds
    <3>3. task'[t] = [task[t] EXCEPT !.status = "dispatched", !.sent = TRUE]
      BY <1>1, <3>1, <3>2 DEF Heartbeat, RecoverAgentTasks
    <3>4. QED
      BY <3>1, <3>3 DEF IInv, TypeOK, TaskRow
  <2>2. QED
    BY <2>1
<1>8. OnlySentTasks'
  <2>1. \A t \in TaskIds : t \notin R => command'[t] = command[t]
    BY <1>1 DEF AgentInv, AgentTypeOK
  <2>2. QED
    BY <1>1, <1>2, <1>7, <2>1, SentKept
<1>9. ContainersOfTasks'
  BY <1>1, <1>2, ContainersKept DEF Exists
<1>10. QED
  BY <1>2, <1>5, <1>6, <1>8, <1>9 DEF AgentInv

\* The stream opens or ends, the process ends or is restarted.
LEMMA StreamInv ==
    ASSUME IInv, AgentInv, StreamOpens \/ StreamEnds \/ Restart \/ Crash
           \/ \E r \in ReleaseIds : ContainerExits(r)
    PROVE  AgentInv' /\ [Next]_vars
<1>1. CASE StreamOpens
  <2>1. Connect(agent) /\ UNCHANGED agentVars /\ agent \notin session
    BY <1>1 DEF StreamOpens
  <2>2. Next
    BY <2>1, TheAgent DEF Next, Environment
  <2>3. UNCHANGED <<command, report, up, job, container, faults>>
    BY <2>1 DEF agentVars
  <2>4. \A t \in TaskIds : command[t] = 0
    BY <2>1 DEF AgentInv, CommandsCounted
  <2>5. AgentTypeOK' /\ CommandsCounted'
    BY <2>3, <2>4 DEF AgentInv, AgentTypeOK, CommandsCounted
  <2>6. OnlySentTasks' /\ ContainersOfTasks'
    BY <2>2, <2>3, SentKept, ContainersKept DEF Exists
  <2>7. QED
    BY <2>2, <2>5, <2>6 DEF AgentInv
<1>2. CASE StreamEnds
  <2>1. /\ Disconnect(agent) /\ command' = [t \in TaskIds |-> 0] /\ report' = {}
        /\ job' = [t \in TaskIds |-> [job[t] EXCEPT !.open = FALSE]]
        /\ UNCHANGED <<up, container>>
        /\ faults' \in 0..MaxFaults
    BY <1>2, DeploymentAssumption DEF StreamEnds, AgentInv, AgentTypeOK
  <2>2. Next
    BY <2>1, TheAgent DEF Next, Environment
  <2>3. /\ job' \in [TaskIds -> Job]
        /\ \A t \in TaskIds : job'[t].step = job[t].step
    BY <2>1 DEF AgentInv, AgentTypeOK, Job
  <2>4. AgentTypeOK' /\ CommandsCounted'
    BY <2>1, <2>3 DEF AgentInv, AgentTypeOK, CommandsCounted
  <2>5. OnlySentTasks'
    <3>1. \A t \in TaskIds : ~(command'[t] > 0)
      BY <2>1
    <3>2. QED
      BY <2>2, <2>3, <3>1, SentKept
  <2>6. ContainersOfTasks'
    BY <2>1, <2>2, ContainersKept DEF Exists
  <2>7. QED
    BY <2>2, <2>4, <2>5, <2>6 DEF AgentInv
<1>3. CASE Restart
  <2>1. PICK R : Remove(R)
    BY <1>3 DEF Restart
  <2>2. /\ up' = TRUE /\ UNCHANGED <<vars, command, report, job, faults>>
    BY <1>3 DEF Restart
  <2>3. AgentTypeOK' /\ CommandsCounted'
    BY <2>1, <2>2, RemoveKeeps DEF AgentInv, AgentTypeOK, CommandsCounted, vars
  <2>4. OnlySentTasks' /\ ContainersOfTasks'
    BY <2>1, <2>2, RemoveKeeps, SentKept, ContainersKept DEF AgentInv
  <2>5. QED
    BY <2>2, <2>3, <2>4 DEF AgentInv
<1>4. CASE Crash
  <2>1. /\ AgentDies /\ faults' = faults + 1 /\ faults < MaxFaults
        /\ UNCHANGED <<vars, command, report, container>>
    BY <1>4 DEF Crash
  <2>2. AgentTypeOK' /\ CommandsCounted'
    BY <2>1, JobsDie, DeploymentAssumption DEF AgentInv, AgentTypeOK, CommandsCounted, vars
  <2>3. OnlySentTasks' /\ ContainersOfTasks'
    BY <2>1, JobsDie, SentKept, ContainersKept DEF Exists, AgentInv
  <2>4. QED
    BY <2>1, <2>2, <2>3 DEF AgentInv
<1>5. ASSUME NEW r \in ReleaseIds, ContainerExits(r)
      PROVE  AgentInv' /\ [Next]_vars
  <2>1. /\ container[r].state = "running" /\ faults < MaxFaults
        /\ container' = [container EXCEPT ![r].state = "exited"]
        /\ faults' = faults + 1
        /\ UNCHANGED <<vars, command, report, up, job>>
    BY <1>5 DEF ContainerExits
  <2>2. /\ container' \in [ReleaseIds -> Container]
        /\ \A x \in ReleaseIds : Exists(x)' => Exists(x) /\ container'[x].slot = container[x].slot
    BY <2>1 DEF AgentInv, AgentTypeOK, Container, Exists
  <2>3. AgentTypeOK' /\ CommandsCounted'
    BY <2>1, <2>2, DeploymentAssumption DEF AgentInv, AgentTypeOK, CommandsCounted, vars
  <2>4. OnlySentTasks' /\ ContainersOfTasks'
    BY <2>1, <2>2, SentKept, ContainersKept
  <2>5. QED
    BY <2>1, <2>3, <2>4 DEF AgentInv
<1>6. QED
  BY <1>1, <1>2, <1>3, <1>4, <1>5

\* A final report arrives at the control plane.
LEMMA ReportInv ==
    ASSUME IInv, AgentInv, NEW m \in report, ReportArrives(m)
    PROVE  AgentInv' /\ [Next]_vars
<1>1. /\ m.task \in TaskIds /\ report' \subseteq report
      /\ UNCHANGED <<command, up, job, container, faults>>
      /\ \/ TaskSucceeded(m.task, TRUE) \/ TaskFailed(m.task) \/ UNCHANGED vars
  BY DEF ReportArrives, AgentInv, AgentTypeOK
<1>2. [Next]_vars
  BY <1>1 DEF Next, Environment
<1>3. UNCHANGED <<session, replayed>>
  BY <1>1 DEF TaskSucceeded, TaskFailed, vars
<1>4. AgentTypeOK' /\ CommandsCounted'
  BY <1>1, <1>3 DEF AgentInv, AgentTypeOK, CommandsCounted
<1>5. OnlySentTasks' /\ ContainersOfTasks'
  BY <1>1, <1>2, SentKept, ContainersKept DEF Exists
<1>6. QED
  BY <1>2, <1>4, <1>5 DEF AgentInv

\* Every step of the composition is a step of the orchestration or leaves it alone.
LEMMA DeploymentStep ==
    ASSUME IInv, AgentInv, [DeploymentNext]_allVars
    PROVE  AgentInv' /\ [Next]_vars
<1>1. CASE UNCHANGED allVars
  <2>1. UNCHANGED vars /\ UNCHANGED <<agentVars, session, replayed>>
    BY <1>1 DEF allVars, vars, agentVars
  <2>2. QED
    BY <2>1, AgentStays
<1>2. CASE Operate
  <2>1. ASSUME NEW s \in Services, NEW i \in Images, CreateFromCI(s, i), UNCHANGED agentVars
        PROVE  AgentInv' /\ [Next]_vars
    <3>1. Next /\ UNCHANGED <<session, replayed>>
      BY <2>1 DEF Next, Request, CreateFromCI
    <3>2. QED
      BY <2>1, <3>1, AgentStays
  <2>2. ASSUME NEW r \in ReleaseIds, Dispatched(Start(r)) \/ Dispatched(Retry(r))
        PROVE  AgentInv' /\ [Next]_vars
    <3>1. Next
      BY <2>2 DEF Dispatched, Next, Request
    <3>2. QED
      BY <2>2, <3>1, DispatchedInv
  <2>3. ASSUME NEW r \in ReleaseIds, NEW d \in BOOLEAN, ConfirmSwitch(r, d) \/ Rollback(r, d),
               UNCHANGED agentVars
        PROVE  AgentInv' /\ [Next]_vars
    <3>1. Next /\ UNCHANGED <<session, replayed>>
      BY <2>3 DEF Next, Request, ConfirmSwitch, Rollback
    <3>2. QED
      BY <2>3, <3>1, AgentStays
  <2>4. (agent \in session) \in BOOLEAN
    OBVIOUS
  <2>5. QED
    BY <1>2, <2>1, <2>2, <2>3, <2>4 DEF Operate
<1>3. ASSUME NEW t \in TaskIds, TimesOut(t) PROVE AgentInv' /\ [Next]_vars
  <2>1. FailStaleTasks({t}) /\ UNCHANGED agentVars
    BY <1>3 DEF TimesOut
  <2>2. Next /\ UNCHANGED <<session, replayed>>
    BY <2>1 DEF Next, Environment, FailStaleTasks
  <2>3. QED
    BY <2>1, <2>2, AgentStays
<1>4. ASSUME NEW t \in TaskIds, Deliver(t) \/ ExecutorStep(t)
      PROVE  AgentInv' /\ [Next]_vars
  BY <1>4, DeliverInv, ExecutorInv DEF Deliver, ExecutorStep
<1>5. QED
  BY <1>1, <1>2, <1>3, <1>4, HeartbeatInv, StreamInv, ReportInv DEF DeploymentNext, AgentStep

\* The initial tables, with an agent that has nothing.
LEMMA DeploymentInitInv == DeploymentInit => DInv
<1> SUFFICES ASSUME DeploymentInit PROVE DInv
  OBVIOUS
<1>1. IInv
  BY InitInv DEF DeploymentInit
<1>2. LiveOnTarget
  BY DEF DeploymentInit, Init, LiveOnTarget
<1>3. AgentTypeOK
  BY IdleIsJob, DeploymentAssumption DEF DeploymentInit, AgentTypeOK
<1>4. CommandsCounted /\ OnlySentTasks
  BY DEF DeploymentInit, CommandsCounted, OnlySentTasks, Idle
<1>5. ContainersOfTasks
  BY DEF DeploymentInit, ContainersOfTasks, Exists, NoContainer
<1>6. QED
  BY <1>1, <1>2, <1>3, <1>4, <1>5 DEF DInv, AgentInv

\* The invariant is inductive: what the agent knows stays true of what the control
\* plane has become, and the control plane takes only steps of Release.
LEMMA DeploymentNextInv == DInv /\ [DeploymentNext]_allVars => DInv'
<1> SUFFICES ASSUME DInv, [DeploymentNext]_allVars PROVE DInv'
  OBVIOUS
<1>1. AgentInv' /\ [Next]_vars
  BY DeploymentStep DEF DInv
<1>2. IInv'
  BY <1>1, NextInv DEF DInv
<1>3. LiveOnTarget'
  <2>1. CASE UNCHANGED vars
    BY <2>1 DEF vars, LiveOnTarget, DInv
  <2>2. QED
    BY <1>1, <2>1, LiveTargetNext DEF DInv
<1>4. QED
  BY <1>1, <1>2, <1>3 DEF DInv

\* The inductive invariant holds: the tables of Release, the live slot, and what
\* the agent has of tasks and containers (client.go, executor.go).
THEOREM DeploymentInductive == DeploymentSpec => []DInv
<1>1. QED
  BY DeploymentInitInv, DeploymentNextInv, PTL DEF DeploymentSpec

\* The agent, its stream, its crashes and its containers only ever do to the control
\* plane what the arbitrary agent of Release may do.
THEOREM DeploymentImplementsRelease == DeploymentSpec => Spec
<1>1. DeploymentInit => Init
  BY DEF DeploymentInit
<1>2. DInv /\ [DeploymentNext]_allVars => [Next]_vars
  BY DeploymentStep DEF DInv
<1>3. QED
  BY <1>1, <1>2, DeploymentInductive, PTL DEF DeploymentSpec, Spec

\* The tables of the agent keep their types: no command is queued more than twice
\* (client.go handleTask, adapter/grpc/controlplane replays).
THEOREM DeploymentTypeCorrect == DeploymentSpec => []DeploymentTypeOK
<1>1. DInv => DeploymentTypeOK
  BY DEF DInv, IInv, AgentInv, AgentTypeOK, DeploymentTypeOK
<1>2. QED
  BY <1>1, DeploymentInductive, PTL

\* What serves traffic is completed on the live slot, or is the only release in
\* progress of its service.
LEMMA ServingFacts ==
    ASSUME DInv, NEW r \in ReleaseIds, Serving(r)
    PROVE  LET s == release[r].service IN
           \/ release[r].status = "readyToSwitch"
           \/ /\ release[r].status = "completed"
              /\ spec[s].currentLiveSlot # 0
              /\ release[r].targetSlot = spec[s].currentLiveSlot
<1> DEFINE s == release[r].service
           L == spec[s].currentLiveSlot
<1>1. SUFFICES ASSUME Live(r)
               PROVE  /\ release[r].status = "completed" /\ L # 0
                      /\ release[r].targetSlot = L
  BY DEF Serving
<1>2. s \in Services /\ L # 0 /\ instance[s][L].release = r
  <2>1. s \in Services
    BY Rows DEF DInv, IInv
  <2>2. QED
    BY <1>1, <2>1 DEF Live
<1>3. release[r].status = "completed"
  BY <1>2, LiveFacts DEF DInv
<1>4. release[r].targetSlot = L
  BY <1>2 DEF DInv, LiveOnTarget
<1>5. QED
  BY <1>2, <1>3, <1>4

\* A task that the control plane still follows is that of the only release in
\* progress of its service, on the slot that is not live.
LEMMA ActiveTask ==
    ASSUME DInv, NEW t \in TaskIds, TaskIsActive(task[t].status)
    PROVE  LET q == task[t].release
               live == spec[release[q].service].currentLiveSlot
           IN  /\ q \in ReleaseIds
               /\ release[q].status \in {"dispatching", "deploying"}
               /\ task[t].slot = nextSlot(live) /\ nextSlot(live) # live
<1> DEFINE q == task[t].release
           live == spec[release[q].service].currentLiveSlot
<1>1. q \in ReleaseIds /\ release[q].service \in Services /\ live \in Slots \cup {0}
  BY Rows DEF DInv, IInv, TypeOK, TaskRow
<1>2. release[q].status \in {"dispatching", "deploying"} /\ task[t].slot = release[q].targetSlot
  BY DEF DInv, IInv, WaitsForLiveTask, RowsBelong
<1>3. release[q].targetSlot = nextSlot(live)
  BY <1>1, <1>2 DEF DInv, IInv, SlotsFollowLive, InProgress
<1>4. QED
  BY <1>1, <1>2, <1>3, SlotFacts

\* A container that is removed while its release serves traffic.
LostToEnded(r) ==
    \/ \E t \in Running : TaskIsTerminal(task[t].status) /\ job'[t] # job[t]
    \/ \E t \in TaskIds :
          /\ task[t].release = r /\ TaskIsTerminal(task[t].status)
          /\ container[r].slot = task[t].slot
          /\ container[r].slot # release[r].targetSlot

\* A goroutine whose task is still followed by the control plane removes nothing that
\* serves traffic, except a container with the label an ended task gave it.
LEMMA ExecutorKeepsServing ==
    ASSUME DInv, NEW t \in TaskIds, ExecutorStep(t),
           NEW r \in ReleaseIds, Serving(r), Removed(r)
    PROVE  LostToEnded(r)
<1>1. Worked(t, Removable(t))
  BY ExecutorWorks DEF DInv, IInv, AgentInv
<1>2. r \in Removable(t) /\ job'[t] # job[t] /\ Exists(r)
  BY <1>1 DEF Worked, Moved, Removed, Exists
<1>3. job[t].step # "idle" /\ t \in Running
  BY <1>2 DEF Removable, Running
<1>4. task[t].status # "absent" /\ task[t].status \in TaskStatus
  BY <1>3 DEF DInv, AgentInv, OnlySentTasks, IInv, RowsBelong, TypeOK, TaskRow
<1>5. CASE TaskIsTerminal(task[t].status)
  BY <1>2, <1>3, <1>5 DEF LostToEnded
<1>6. CASE TaskIsActive(task[t].status)
  <2> DEFINE q == task[t].release
             live == spec[release[q].service].currentLiveSlot
  <2>1. /\ q \in ReleaseIds /\ release[q].status \in {"dispatching", "deploying"}
        /\ task[t].slot = nextSlot(live) /\ nextSlot(live) # live
    BY <1>6, ActiveTask
  <2>2. r # q
    BY <2>1, ServingFacts
  <2>3. /\ release[r].service = release[q].service
        /\ container[r].slot = task[t].slot
    BY <1>2, <2>2 DEF Removable, StaleOnSlot
  <2>4. release[r].status # "readyToSwitch"
    BY <2>1, <2>2, <2>3 DEF DInv, IInv, OneInProgress, InProgress
  <2>5. release[r].status = "completed" /\ release[r].targetSlot = live
    BY <2>3, <2>4, ServingFacts
  <2>6. PICK u \in TaskIds : /\ task[u].release = r /\ task[u].status # "absent"
                             /\ task[u].slot = container[r].slot
    BY <1>2 DEF DInv, AgentInv, ContainersOfTasks
  <2>7. ~TaskIsActive(task[u].status)
    BY <2>5, <2>6, ActiveTask
  <2>8. TaskIsTerminal(task[u].status)
    BY <2>6, <2>7 DEF DInv, IInv, TypeOK, TaskRow, TaskStatus, TaskIsActive, TaskIsTerminal
  <2>9. QED
    BY <2>1, <2>3, <2>5, <2>6, <2>8 DEF LostToEnded
<1>7. QED
  BY <1>4, <1>5, <1>6 DEF TaskStatus, TaskIsTerminal, TaskIsActive

\* Only goroutines remove running containers: the startup scan takes those that ended.
LEMMA OthersRemoveNothing ==
    ASSUME AgentTypeOK, NEW r \in ReleaseIds, Removed(r), [DeploymentNext]_allVars
    PROVE  \E t \in TaskIds : ExecutorStep(t)
<1>1. container' # container
  BY DEF Removed
<1>2. ~Restart
  <2>1. ASSUME Restart PROVE FALSE
    <3>1. PICK R \in SUBSET {x \in ReleaseIds : shouldRemoveOnStartupScan(x)} : Remove(R)
      BY <2>1 DEF Restart, ReconcileManagedContainersOnStartup
    <3>2. r \in R
      BY <3>1, RemoveKeeps
    <3>3. QED
      BY <3>2 DEF shouldRemoveOnStartupScan, Removed
  <2>2. QED
    BY <2>1
<1>3. \A x \in ReleaseIds : ~ContainerExits(x)
  <2>1. ASSUME NEW x \in ReleaseIds, ContainerExits(x) PROVE FALSE
    <3>1. container' = [container EXCEPT ![x].state = "exited"]
      BY <2>1 DEF ContainerExits
    <3>2. container'[r].state # "none"
      BY <3>1 DEF AgentTypeOK, Container, Removed
    <3>3. QED
      BY <3>2 DEF Removed
  <2>2. QED
    BY <2>1
<1>4. QED
  BY <1>1, <1>2, <1>3 DEF DeploymentNext, AgentStep, Operate, Dispatched, TimesOut, Crash,
     StreamEnds, StreamOpens, HeartbeatSent, ReportArrives, Deliver, agentVars, allVars

\* In whatever order commands, reports, retries and crashes come, the container of a
\* live release or of a candidate is only removed for a task that has ended, or for
\* the label such a task gave it (executor.go, docker_client.go).
THEOREM ServingIsKept == DeploymentSpec => ServingLostOnlyToEndedTasks
<1> DEFINE A == \A r \in ReleaseIds :
                   Serving(r) /\ Removed(r) =>
                      \/ \E t \in Running :
                            TaskIsTerminal(task[t].status) /\ job'[t] # job[t]
                      \/ \E t \in TaskIds :
                            /\ task[t].release = r /\ TaskIsTerminal(task[t].status)
                            /\ container[r].slot = task[t].slot
                            /\ container[r].slot # release[r].targetSlot
<1>1. DInv /\ [DeploymentNext]_allVars => A
  <2> SUFFICES ASSUME DInv, [DeploymentNext]_allVars, NEW r \in ReleaseIds,
                      Serving(r), Removed(r)
               PROVE  LostToEnded(r)
    BY DEF LostToEnded
  <2>1. PICK t \in TaskIds : ExecutorStep(t)
    BY OthersRemoveNothing DEF DInv, AgentInv
  <2>2. QED
    BY <2>1, ExecutorKeepsServing
<1>2. [][A]_allVars => ServingLostOnlyToEndedTasks
  BY DEF ServingLostOnlyToEndedTasks
<1>3. QED
  BY <1>1, <1>2, DeploymentInductive, PTL DEF DeploymentSpec

\* So the composition implements BlueGreen as well.
THEOREM DeploymentImplementsBlueGreen == DeploymentSpec => RefinesBlueGreen
<1>1. QED
  BY DeploymentImplementsRelease, Implements, PTL

=============================================================================
