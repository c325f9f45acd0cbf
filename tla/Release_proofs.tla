--------------------------- MODULE Release_proofs ---------------------------
(***************************************************************************)
(* Theorems about Release, for every set of services, agents and images    *)
(* and every bound.                                                        *)
(***************************************************************************)
EXTENDS Release, TLAPS

SpecRow == [enabled: BOOLEAN, currentLiveSlot: Slots \cup {0}]

----------------------------------------------------------------------------
(* Rows.                                                                   *)

\* Slots are 1 and 2, and nextSlot always names a slot other than its argument.
LEMMA SlotFacts == /\ Blue \in Slots /\ Green \in Slots /\ 0 \notin Slots
                   /\ \A x \in Slots \cup {0} : nextSlot(x) \in Slots /\ nextSlot(x) # x
                   /\ \A x \in Slots \cup {0} : normalizeLiveSlot(x) \in Slots
BY DEF Slots, Blue, Green, nextSlot, normalizeLiveSlot

\* Identifiers of rows are positive, so 0 is no identifier.
LEMMA IdFacts == /\ 0 \notin TaskIds /\ 0 \notin ReleaseIds
                 /\ 1 \in TaskIds /\ 1 \in ReleaseIds
                 /\ 0 \in 0..100 /\ 100 \in 0..100
BY ReleaseAssumption DEF TaskIds, ReleaseIds

\* Writing the status of a release row gives a row that differs only in it.
LEMMA StatusRow ==
    ASSUME NEW row \in ReleaseRow, NEW st \in ReleaseStatus
    PROVE  LET n == [row EXCEPT !.status = st] IN
           /\ n \in ReleaseRow
           /\ n.status = st
           /\ n.service = row.service /\ n.targetSlot = row.targetSlot
           /\ n.previousLiveSlot = row.previousLiveSlot
           /\ n.currentTaskID = row.currentTaskID
           /\ n.trafficPercent = row.trafficPercent
           /\ n.switchConfirmed = row.switchConfirmed
<1>1. [row EXCEPT !.status = st] \in ReleaseRow
  BY Zenon DEF ReleaseRow
<1>2. QED
  BY <1>1 DEF ReleaseRow

\* gorm's Updates keeps a row a row: the field that survives is one of the two.
LEMMA UpdatesRow ==
    ASSUME NEW old \in ReleaseRow, NEW new \in ReleaseRow
    PROVE  LET n == Updates(old, new) IN
           /\ n \in ReleaseRow
           /\ n.status = new.status /\ n.service = new.service
           /\ n.targetSlot = new.targetSlot
           /\ n.switchConfirmed = new.switchConfirmed
           /\ n.trafficPercent = IF new.trafficPercent = 0 THEN old.trafficPercent
                                 ELSE new.trafficPercent
           /\ n.previousLiveSlot = IF new.previousLiveSlot = 0
                                   THEN old.previousLiveSlot ELSE new.previousLiveSlot
           /\ n.currentTaskID = IF new.currentTaskID = 0 THEN old.currentTaskID
                                ELSE new.currentTaskID
<1> DEFINE tp == IF new.trafficPercent = 0 THEN old.trafficPercent
                 ELSE new.trafficPercent
           pl == IF new.previousLiveSlot = 0 THEN old.previousLiveSlot
                 ELSE new.previousLiveSlot
           ct == IF new.currentTaskID = 0 THEN old.currentTaskID ELSE new.currentTaskID
           n == [new EXCEPT !.trafficPercent = tp, !.previousLiveSlot = pl,
                            !.currentTaskID = ct]
<1>1. tp \in 0..100 /\ pl \in Slots \cup {0} /\ ct \in TaskIds \cup {0}
  BY DEF ReleaseRow
<1>2. Updates(old, new) = n
  BY DEF Updates
<1> HIDE DEF tp, pl, ct
<1>3. n \in ReleaseRow
  BY <1>1, Zenon DEF ReleaseRow
<1>4. /\ n.status = new.status /\ n.service = new.service
      /\ n.targetSlot = new.targetSlot /\ n.switchConfirmed = new.switchConfirmed
      /\ n.trafficPercent = tp /\ n.previousLiveSlot = pl /\ n.currentTaskID = ct
  BY DEF ReleaseRow
<1>5. QED
  BY <1>2, <1>3, <1>4 DEF tp, pl, ct

\* The rows that stand for "no row" are well-typed.
LEMMA DefaultRows == /\ NoRelease \in ReleaseRow
                     /\ NoTask \in TaskRow
                     /\ NoInstance \in Instance
                     /\ NoSnapshot \in Snapshot
<1>1. NoRelease \in ReleaseRow
  BY ReleaseAssumption, SlotFacts, IdFacts DEF NoRelease, ReleaseRow, ReleaseStatus
<1>2. NoTask \in TaskRow
  BY SlotFacts, IdFacts DEF NoTask, TaskRow, TaskStatus
<1>3. NoInstance \in Instance
  BY DEF NoInstance, Instance
<1>4. NoSnapshot \in Snapshot
  BY DEF NoSnapshot, Snapshot
<1>5. QED
  BY <1>1, <1>2, <1>3, <1>4

\* A snapshot built from well-typed rows is well-typed.
LEMMA SnapshotType ==
    ASSUME NEW sp \in [Services -> SpecRow],
           NEW rel \in [ReleaseIds -> ReleaseRow],
           NEW inst \in [Services -> [Slots -> Instance]],
           NEW s \in Services
    PROVE  buildProxyConfigSnapshot(sp, rel, inst, s) \in Snapshot
<1> DEFINE live == normalizeLiveSlot(sp[s].currentLiveSlot)
           c == inst[s][nextSlot(live)].release
           visible == c # 0 /\ rel[c].status = "readyToSwitch"
           cand == IF visible THEN c ELSE 0
           pct == IF visible /\ rel[c].trafficPercent \in 1..99
                  THEN rel[c].trafficPercent ELSE 0
<1>1. live \in Slots /\ nextSlot(live) \in Slots
  BY SlotFacts DEF SpecRow
<1>2. inst[s][live].release \in ReleaseIds \cup {0} /\ c \in ReleaseIds \cup {0}
  BY <1>1 DEF Instance
<1>3. cand \in ReleaseIds \cup {0}
  BY <1>2
<1>4. pct \in 0..100
  <2> DEFINE tp == rel[c].trafficPercent
  <2>1. pct = IF visible /\ tp \in 1..99 THEN tp ELSE 0
    OBVIOUS
  <2> HIDE DEF tp, pct, visible
  <2>2. QED
    BY <2>1
<1>5. resolveReleases(sp, rel, inst, s) =
        [present |-> TRUE, live |-> inst[s][live].release, candidate |-> cand,
         percent |-> pct]
  BY DEF resolveReleases
<1> DEFINE l == inst[s][live].release
<1> HIDE DEF cand, pct, l
<1>6. [present |-> TRUE, live |-> l, candidate |-> cand, percent |-> pct] \in Snapshot
  BY <1>2, <1>3, <1>4, Zenon DEF Snapshot, l
<1>7. resolveReleases(sp, rel, inst, s) \in Snapshot
  BY <1>5, <1>6, Zenon DEF l
<1>8. QED
  BY <1>7, DefaultRows DEF buildProxyConfigSnapshot

----------------------------------------------------------------------------
(* Type correctness.                                                       *)

\* Every row of the tables has the fields that its record type says.
LEMMA Rows ==
    ASSUME TypeOK
    PROVE  /\ \A r \in ReleaseIds :
                 /\ release[r] \in ReleaseRow /\ release[r].service \in Services
                 /\ release[r].status \in ReleaseStatus
                 /\ release[r].trafficPercent \in 0..100
                 /\ release[r].targetSlot \in Slots
                 /\ release[r].previousLiveSlot \in Slots \cup {0}
                 /\ release[r].currentTaskID \in TaskIds \cup {0}
                 /\ AgentOf[release[r].service] \in Agents
           /\ \A t \in TaskIds : /\ task[t].release \in ReleaseIds
                                 /\ task[t].status \in TaskStatus
                                 /\ task[t].slot \in Slots
           /\ \A s \in Services : /\ spec[s] \in SpecRow
                                  /\ spec[s].currentLiveSlot \in Slots \cup {0}
           /\ \A s \in Services, slot \in Slots :
                 /\ instance[s][slot] \in Instance
                 /\ instance[s][slot].release \in ReleaseIds \cup {0}
<1>1. \A r \in ReleaseIds :
         /\ release[r] \in ReleaseRow /\ release[r].service \in Services
         /\ release[r].status \in ReleaseStatus
         /\ release[r].trafficPercent \in 0..100
         /\ release[r].targetSlot \in Slots
         /\ release[r].previousLiveSlot \in Slots \cup {0}
         /\ release[r].currentTaskID \in TaskIds \cup {0}
  BY DEF TypeOK, ReleaseRow
<1>2. \A t \in TaskIds : /\ task[t].release \in ReleaseIds
                         /\ task[t].status \in TaskStatus
                         /\ task[t].slot \in Slots
  BY DEF TypeOK, TaskRow
<1>3. \A s \in Services : /\ spec[s] \in SpecRow
                          /\ spec[s].currentLiveSlot \in Slots \cup {0}
  BY DEF TypeOK, SpecRow
<1>4. \A s \in Services, slot \in Slots :
                 /\ instance[s][slot] \in Instance
                 /\ instance[s][slot].release \in ReleaseIds \cup {0}
  BY DEF TypeOK, Instance
<1>5. QED
  BY <1>1, <1>2, <1>3, <1>4, ReleaseAssumption

\* Publishing keeps the published configuration well-typed.
LEMMA PublishType ==
    ASSUME TypeOK, NEW a \in Agents, NEW d \in BOOLEAN, PublishAgent(a, d),
           spec' \in [Services -> SpecRow],
           release' \in [ReleaseIds -> ReleaseRow],
           instance' \in [Services -> [Slots -> Instance]]
    PROVE  published' \in [Services -> Snapshot] /\ unpublished' \subseteq Agents
<1>1. \A s \in Services : buildProxyConfigSnapshot(spec', release', instance', s) \in Snapshot
  BY SnapshotType
<1>2. QED
  BY <1>1 DEF PublishAgent, TypeOK

\* Moving traffic rewrites instance rows only.
LEMMA TrafficFlagsType ==
    ASSUME TypeOK, NEW s \in Services, NEW x, NEW y
    PROVE  /\ updateTrafficFlags(s, x, y) \in [Services -> [Slots -> Instance]]
           /\ \A q \in Services, slot \in Slots :
                 /\ updateTrafficFlags(s, x, y)[q][slot].release = instance[q][slot].release
                 /\ q # s => updateTrafficFlags(s, x, y)[q] = instance[q]
           /\ \A slot \in Slots :
                 \/ /\ instance[s][slot].release # 0 /\ slot \in {x, y}
                    /\ updateTrafficFlags(s, x, y)[s][slot].accepting <=> slot = x
                 \/ /\ ~(instance[s][slot].release # 0 /\ slot \in {x, y})
                    /\ updateTrafficFlags(s, x, y)[s][slot] = instance[s][slot]
<1> DEFINE f == updateTrafficFlags(s, x, y)
           moved(slot) == instance[s][slot].release # 0 /\ slot \in {x, y}
           row(slot) == [instance[s][slot] EXCEPT !.accepting = slot = x]
           new(slot) == IF moved(slot) THEN row(slot) ELSE instance[s][slot]
<1>1. f = [instance EXCEPT ![s] = [slot \in Slots |-> new(slot)]]
  BY DEF updateTrafficFlags
<1>2. ASSUME NEW slot \in Slots
      PROVE  /\ new(slot) \in Instance
             /\ new(slot).release = instance[s][slot].release
             /\ moved(slot) => (new(slot).accepting <=> slot = x)
             /\ ~moved(slot) => new(slot) = instance[s][slot]
  <2> DEFINE b == slot = x
             old == instance[s][slot]
             m == moved(slot)
  <2>1. old \in Instance /\ b \in BOOLEAN
    BY Rows
  <2>2. new(slot) = IF m THEN [old EXCEPT !.accepting = b] ELSE old
    OBVIOUS
  <2> HIDE DEF b, old, new, m
  <2>3. [old EXCEPT !.accepting = b] \in Instance
    BY <2>1, Zenon DEF Instance
  <2>4. /\ [old EXCEPT !.accepting = b].accepting = b
        /\ [old EXCEPT !.accepting = b].release = old.release
    BY <2>1 DEF Instance
  <2>5. /\ new(slot) \in Instance
        /\ new(slot).release = old.release
        /\ m => (new(slot).accepting <=> b)
        /\ ~m => new(slot) = old
    BY <2>1, <2>2, <2>3, <2>4
  <2>6. QED
    BY <2>5, Zenon DEF b, old, m
<1> HIDE DEF f, moved, new
<1>3. /\ f \in [Services -> [Slots -> Instance]]
      /\ \A q \in Services \ {s} : f[q] = instance[q]
      /\ \A slot \in Slots : f[s][slot] = new(slot)
  BY <1>1, <1>2 DEF TypeOK
<1>4. \A q \in Services, slot \in Slots :
         /\ f[q][slot].release = instance[q][slot].release
         /\ q # s => f[q] = instance[q]
  BY <1>2, <1>3
<1>5. ASSUME NEW slot \in Slots
      PROVE  \/ moved(slot) /\ (f[s][slot].accepting <=> slot = x)
             \/ ~moved(slot) /\ f[s][slot] = instance[s][slot]
  <2>1. f[s][slot] = new(slot)
    BY <1>3
  <2>2. CASE moved(slot)
    BY <1>2, <2>1, <2>2, Zenon
  <2>3. CASE ~moved(slot)
    BY <1>2, <2>1, <2>3, Zenon
  <2>4. QED
    BY <2>2, <2>3
<1>6. QED
  BY <1>3, <1>4, <1>5 DEF f, moved

\* Tables whose rows the handlers do not touch stay well-typed.
LEMMA RecoverType ==
    ASSUME TypeOK, NEW a, NEW running, NEW bound, RecoverAgentTasks(a, running, bound)
    PROVE  /\ task' \in [TaskIds -> TaskRow]
           /\ \A t \in TaskIds :
                 /\ task'[t].release = task[t].release /\ task'[t].slot = task[t].slot
                 /\ task'[t].status = "absent" => task'[t] = task[t]
                 /\ TaskIsActive(task'[t].status) <=> TaskIsActive(task[t].status)
<1> DEFINE run(t) == [task[t] EXCEPT !.status = "running"]
           replay(t) == [task[t] EXCEPT !.status = "dispatched", !.sent = TRUE]
<1>1. \A t \in TaskIds : /\ run(t) \in TaskRow /\ replay(t) \in TaskRow
                         /\ run(t).release = task[t].release
                         /\ replay(t).release = task[t].release
                         /\ run(t).slot = task[t].slot /\ replay(t).slot = task[t].slot
                         /\ run(t).status = "running" /\ replay(t).status = "dispatched"
  <2> SUFFICES ASSUME NEW t \in TaskIds
               PROVE  /\ run(t) \in TaskRow /\ replay(t) \in TaskRow
                      /\ run(t).release = task[t].release
                      /\ replay(t).release = task[t].release
                      /\ run(t).slot = task[t].slot /\ replay(t).slot = task[t].slot
                      /\ run(t).status = "running" /\ replay(t).status = "dispatched"
    OBVIOUS
  <2>1. task[t] \in TaskRow /\ TRUE \in BOOLEAN
        /\ "running" \in TaskStatus /\ "dispatched" \in TaskStatus
    BY DEF TypeOK, TaskStatus
  <2>2. run(t) \in TaskRow /\ replay(t) \in TaskRow
    BY <2>1, Zenon DEF TaskRow
  <2>3. QED
    BY <2>1, <2>2 DEF TaskRow
<1>2. \A t \in TaskIds : t \in ListRecoverableTasksByAgent(a) => TaskIsActive(task[t].status)
  BY DEF ListRecoverableTasksByAgent
<1> HIDE DEF run, replay
<1>3. task' = [t \in TaskIds |->
        IF t >= bound \/ t \notin ListRecoverableTasksByAgent(a) THEN task[t]
        ELSE IF t \in running THEN run(t)
        ELSE IF t \in replayed[a] THEN task[t]
        ELSE replay(t)]
  BY DEF RecoverAgentTasks, run, replay
<1>4. QED
  BY <1>1, <1>2, <1>3, Rows DEF TypeOK, TaskIsActive

----------------------------------------------------------------------------
(* The inductive invariant.                                                *)

\* What LiveIsConfirmed says of one service.
LEMMA LiveFacts ==
    ASSUME IInv, NEW q \in Services
    PROVE  LET L == spec[q].currentLiveSlot
               x == instance[q][L].release
           IN  /\ L \in Slots \cup {0}
               /\ L # 0 => /\ L \in Slots /\ x \in ReleaseIds /\ x # 0
                          /\ release[x].service = q
                          /\ release[x].status = "completed"
                          /\ release[x].trafficPercent = 100
                          /\ release[x].switchConfirmed
               /\ \A y \in Slots : instance[q][y].accepting <=> y = L
<1> DEFINE L == spec[q].currentLiveSlot
           x == instance[q][L].release
<1>1. L \in Slots \cup {0}
  BY Rows DEF IInv
<1>2. /\ L # 0 => /\ x # 0
                  /\ release[x].service = q
                  /\ release[x].status = "completed"
                  /\ release[x].trafficPercent = 100
                  /\ release[x].switchConfirmed
      /\ \A y \in Slots : instance[q][y].accepting <=> y = L
  BY DEF IInv, LiveIsConfirmed
<1>3. L \in Slots => x \in ReleaseIds \cup {0}
  BY Rows DEF IInv
<1> HIDE DEF L, x
<1>4. L # 0 => L \in Slots /\ x \in ReleaseIds
  BY <1>1, <1>2, <1>3
<1>5. QED
  BY <1>1, <1>2, <1>4 DEF L, x

\* LiveIsConfirmed, service by service, after a step.
LEMMA LiveNext ==
    ASSUME \A q \in Services :
              LET L == spec'[q].currentLiveSlot
                  x == instance'[q][L].release
              IN  /\ L # 0 => /\ x # 0
                             /\ release'[x].service = q
                             /\ release'[x].status = "completed"
                             /\ release'[x].trafficPercent = 100
                             /\ release'[x].switchConfirmed
                  /\ \A y \in Slots : instance'[q][y].accepting <=> y = L
    PROVE  LiveIsConfirmed'
BY Zenon DEF LiveIsConfirmed

\* A service whose live slot, live instance and traffic flags stay.
LiveKeptOf(q) ==
    LET L == spec[q].currentLiveSlot IN
    /\ spec'[q].currentLiveSlot = L
    /\ L # 0 => instance'[q][L].release = instance[q][L].release
    /\ \A y \in Slots : instance'[q][y].accepting <=> instance[q][y].accepting

\* Of a service that is kept so the live release stays confirmed, as long as
\* completed releases are left alone.
LEMMA LiveStaysOf ==
    ASSUME IInv, NEW q \in Services, LiveKeptOf(q),
           \A z \in ReleaseIds : release[z].status = "completed" =>
              /\ release'[z].service = release[z].service
              /\ release'[z].status = release[z].status
              /\ release'[z].trafficPercent = release[z].trafficPercent
              /\ release'[z].switchConfirmed = release[z].switchConfirmed
    PROVE  LET L == spec'[q].currentLiveSlot
               x == instance'[q][L].release
           IN  /\ L # 0 => /\ x # 0
                          /\ release'[x].service = q
                          /\ release'[x].status = "completed"
                          /\ release'[x].trafficPercent = 100
                          /\ release'[x].switchConfirmed
               /\ \A y \in Slots : instance'[q][y].accepting <=> y = L
<1> DEFINE L == spec[q].currentLiveSlot
           x == instance[q][L].release
           M == spec'[q].currentLiveSlot
           z == instance'[q][M].release
<1>1. /\ M = L
      /\ L # 0 => z = x
      /\ \A y \in Slots : instance'[q][y].accepting <=> instance[q][y].accepting
  BY DEF LiveKeptOf
<1>2. /\ L # 0 => /\ x \in ReleaseIds /\ x # 0
                  /\ release[x].service = q
                  /\ release[x].status = "completed"
                  /\ release[x].trafficPercent = 100
                  /\ release[x].switchConfirmed
      /\ \A y \in Slots : instance[q][y].accepting <=> y = L
  BY LiveFacts
<1> HIDE DEF L, x, M, z
<1>3. L # 0 => /\ z # 0
               /\ release'[z].service = q
               /\ release'[z].status = "completed"
               /\ release'[z].trafficPercent = 100
               /\ release'[z].switchConfirmed
  BY <1>1, <1>2
<1>4. \A y \in Slots : instance'[q][y].accepting <=> y = M
  BY <1>1, <1>2
<1>5. QED
  BY <1>1, <1>3, <1>4 DEF M, z

\* So it is for all services at once.
LEMMA LiveStays ==
    ASSUME IInv, \A q \in Services : LiveKeptOf(q),
           \A z \in ReleaseIds : release[z].status = "completed" =>
              release'[z] = release[z]
    PROVE  LiveIsConfirmed'
BY LiveStaysOf, LiveNext

\* The releases in R ended with status st; of IInv, everything that does not
\* concern tasks holds after the step.
RowsEnded(R, st) ==
    /\ release' \in [ReleaseIds -> ReleaseRow]
    /\ \A x \in ReleaseIds :
          /\ x \in R => release'[x].status = st
          /\ x \notin R => release'[x] = release[x]
          /\ release'[x].currentTaskID = release[x].currentTaskID
          /\ release'[x].targetSlot = release[x].targetSlot
    /\ OneInProgress' /\ SlotsFollowLive' /\ OnlySwitchedAreFull'
    /\ CandidateIsOwnInstance' /\ LiveIsConfirmed'
    /\ \A s \in Services, slot \in Slots :
          LET r == instance'[s][slot].release IN
          r # 0 => release'[r].status # "absent" /\ release'[r].service = s

\* When releases leave progress or the queue for an end, and neither the live
\* slots nor the instances change, what IInv says of releases is preserved.
LEMMA EndRows ==
    ASSUME IInv, NEW R \in SUBSET ReleaseIds, NEW st \in {"completed", "failed", "skipped"},
           \A r \in R : release[r].status \notin {"absent", "completed"},
           st = "skipped" => \A r \in R : release[r].status = "queued",
           st = "failed" => \A r \in R : release[r].status \in {"dispatching", "deploying"},
           release' = [x \in ReleaseIds |->
               IF x \in R THEN [release[x] EXCEPT !.status = st] ELSE release[x]],
           UNCHANGED <<spec, instance>>
    PROVE  RowsEnded(R, st)
<1> USE DEF IInv
<1>1. st \in ReleaseStatus
  BY DEF ReleaseStatus
<1>2. \A x \in R : /\ release'[x] \in ReleaseRow
                   /\ release'[x].status = st
                   /\ release'[x].service = release[x].service
                   /\ release'[x].targetSlot = release[x].targetSlot
                   /\ release'[x].previousLiveSlot = release[x].previousLiveSlot
                   /\ release'[x].currentTaskID = release[x].currentTaskID
                   /\ release'[x].trafficPercent = release[x].trafficPercent
  BY <1>1, Rows, StatusRow
<1>3. \A x \in ReleaseIds \ R : release'[x] = release[x]
  OBVIOUS
<1>4. release' \in [ReleaseIds -> ReleaseRow]
  BY <1>2, <1>3, Rows
<1>5. \A x \in ReleaseIds : /\ release'[x].service = release[x].service
                            /\ InProgress(x)' => InProgress(x)
                            /\ release'[x].status = "readyToSwitch" => x \notin R
                            /\ release'[x].status = "absent" => x \notin R
  BY <1>2, <1>3 DEF InProgress
<1>6. OneInProgress'
  BY <1>5 DEF OneInProgress
<1>7. SlotsFollowLive'
  BY <1>2, <1>3, <1>5 DEF SlotsFollowLive
<1>8. OnlySwitchedAreFull'
  <2>1. \A x \in R : /\ release[x].trafficPercent # 100
                     /\ st \in {"failed", "skipped"} => release[x].trafficPercent = 0
                     /\ st = "skipped" => release[x].currentTaskID = 0
    BY DEF OnlySwitchedAreFull
  <2>2. QED
    BY <1>2, <1>3, <1>5, <2>1 DEF OnlySwitchedAreFull
<1>9. CandidateIsOwnInstance'
  BY <1>3, <1>5 DEF CandidateIsOwnInstance
<1>10. LiveIsConfirmed'
  <2>1. \A q \in Services : LiveKeptOf(q)
    BY Zenon DEF LiveKeptOf
  <2>2. \A z \in ReleaseIds : release[z].status = "completed" => release'[z] = release[z]
    BY <1>3
  <2>3. QED
    BY <2>1, <2>2, LiveStays
<1>11. \A s \in Services, slot \in Slots :
          LET r == instance'[s][slot].release IN
          r # 0 => release'[r].status # "absent" /\ release'[r].service = s
  BY <1>5, <1>3, Rows DEF RowsBelong
<1>12. QED
  BY <1>2, <1>3, <1>4, <1>6, <1>7, <1>8, <1>9, <1>10, <1>11 DEF RowsEnded

\* Steps that leave the four tables alone.
LEMMA TablesKept ==
    ASSUME IInv, TypeOK', UNCHANGED <<spec, release, task, instance>>
    PROVE  IInv'
<1>1. OneInProgress' /\ SlotsFollowLive' /\ OnlySwitchedAreFull'
  BY DEF IInv, OneInProgress, InProgress, SlotsFollowLive, OnlySwitchedAreFull
<1>2. WaitsForLiveTask' /\ RowsBelong' /\ CandidateIsOwnInstance'
  BY DEF IInv, WaitsForLiveTask, RowsBelong, CandidateIsOwnInstance
<1>3. LiveIsConfirmed'
  BY LiveStays DEF LiveKeptOf
<1>4. QED
  BY <1>1, <1>2, <1>3 DEF IInv

\* Steps that only change how far tasks have come.
LEMMA TasksAdvance ==
    ASSUME IInv, TypeOK', UNCHANGED <<spec, release, instance>>,
           \A t \in TaskIds :
              /\ task'[t].release = task[t].release /\ task'[t].slot = task[t].slot
              /\ task'[t].status = "absent" => task'[t] = task[t]
              /\ TaskIsActive(task'[t].status) <=> TaskIsActive(task[t].status)
    PROVE  IInv'
<1>1. /\ OneInProgress' /\ SlotsFollowLive' /\ OnlySwitchedAreFull'
      /\ CandidateIsOwnInstance' /\ LiveIsConfirmed'
  <2>1. OneInProgress' /\ SlotsFollowLive' /\ OnlySwitchedAreFull'
    BY DEF IInv, OneInProgress, InProgress, SlotsFollowLive, OnlySwitchedAreFull
  <2>2. CandidateIsOwnInstance'
    BY DEF IInv, CandidateIsOwnInstance
  <2>3. LiveIsConfirmed'
    BY LiveStays DEF LiveKeptOf
  <2>4. QED
    BY <2>1, <2>2, <2>3
<1>2. WaitsForLiveTask' /\ RowsBelong'
  BY DEF IInv, WaitsForLiveTask, RowsBelong
<1>3. QED
  BY <1>1, <1>2 DEF IInv

\* A release waits for the active tasks of its own only: as long as those end
\* with the releases in R, nobody is left waiting.
LEMMA EndTasks ==
    ASSUME IInv, NEW R \in SUBSET ReleaseIds, NEW st \in ReleaseStatus,
           st \notin {"dispatching", "deploying"}, RowsEnded(R, st),
           task' \in [TaskIds -> TaskRow],
           \A t \in TaskIds :
              /\ task'[t].release = task[t].release /\ task'[t].slot = task[t].slot
              /\ task'[t].status = "absent" => task'[t] = task[t]
              /\ TaskIsActive(task'[t].status) <=>
                    TaskIsActive(task[t].status) /\ task[t].release \notin R
    PROVE  WaitsForLiveTask' /\ RowsBelong'
<1>1. \A t \in TaskIds : task[t].release \in ReleaseIds
  BY Rows DEF IInv
<1>2. WaitsForLiveTask'
  <2>1. ASSUME NEW r \in ReleaseIds, release'[r].status \in {"dispatching", "deploying"}
        PROVE  \E t \in TaskIds : /\ release'[r].currentTaskID = t
                                  /\ task'[t].release = r
                                  /\ TaskIsActive(task'[t].status)
    <3>1. r \notin R /\ release'[r] = release[r]
      BY <2>1 DEF RowsEnded
    <3>2. QED
      BY <2>1, <3>1 DEF IInv, WaitsForLiveTask
  <2>2. ASSUME NEW t \in TaskIds, TaskIsActive(task'[t].status)
        PROVE  LET r == task'[t].release IN
               /\ release'[r].currentTaskID = t
               /\ release'[r].status \in {"dispatching", "deploying"}
    BY <1>1, <2>2 DEF IInv, WaitsForLiveTask, RowsEnded
  <2>3. QED
    BY <2>1, <2>2 DEF WaitsForLiveTask
<1>3. RowsBelong'
  BY <1>1 DEF IInv, RowsBelong, RowsEnded
<1>4. QED
  BY <1>2, <1>3

\* A queued release has no task: it can be skipped.
LEMMA SkipStep ==
    ASSUME IInv, NEW r \in ReleaseIds, Skip(r)
    PROVE  IInv'
<1>1. /\ release' = [x \in ReleaseIds |->
            IF x \in {r} THEN [release[x] EXCEPT !.status = "skipped"] ELSE release[x]]
      /\ UNCHANGED <<spec, instance, task>>
  BY DEF Skip, IInv, TypeOK
<1>2. release[r].status = "queued"
  BY DEF Skip
<1>3. RowsEnded({r}, "skipped")
  BY <1>1, <1>2, EndRows
<1>4. \A t \in TaskIds : TaskIsActive(task[t].status) => task[t].release # r
  BY <1>2 DEF IInv, WaitsForLiveTask
<1>5. WaitsForLiveTask' /\ RowsBelong'
  BY <1>1, <1>3, <1>4, EndTasks DEF IInv, TypeOK, ReleaseStatus
<1>6. TypeOK'
  BY <1>1, <1>3 DEF Skip, IInv, TypeOK, RowsEnded
<1>7. QED
  BY <1>3, <1>5, <1>6 DEF IInv, RowsEnded

\* Completing the superseded candidates leaves no release waiting: they are
\* ready to switch.
LEMMA RefusedStep ==
    ASSUME IInv, NEW r \in ReleaseIds, StartOrRetryRefused(r)
    PROVE  IInv'
<1> DEFINE R == completeSupersededRelease(r, nextSlot(spec[release[r].service].currentLiveSlot))
<1>1. /\ release' = [x \in ReleaseIds |->
            IF x \in R THEN [release[x] EXCEPT !.status = "completed"] ELSE release[x]]
      /\ UNCHANGED <<spec, instance, task>>
  BY DEF StartOrRetryRefused
<1>2. R \in SUBSET ReleaseIds /\ \A x \in R : release[x].status = "readyToSwitch"
  BY DEF completeSupersededRelease
<1> HIDE DEF R
<1>3. RowsEnded(R, "completed")
  BY <1>1, <1>2, EndRows
<1>4. \A t \in TaskIds : TaskIsActive(task[t].status) => task[t].release \notin R
  BY <1>2 DEF IInv, WaitsForLiveTask
<1>5. WaitsForLiveTask' /\ RowsBelong'
  BY <1>1, <1>2, <1>3, <1>4, EndTasks DEF IInv, TypeOK, ReleaseStatus
<1>6. TypeOK'
  BY <1>1, <1>3 DEF StartOrRetryRefused, IInv, TypeOK, RowsEnded
<1>7. QED
  BY <1>3, <1>5, <1>6 DEF IInv, RowsEnded

\* Writing the status of a task row.
LEMMA TaskStatusRow ==
    ASSUME NEW row \in TaskRow, NEW st \in TaskStatus
    PROVE  LET n == [row EXCEPT !.status = st] IN
           /\ n \in TaskRow /\ n.status = st
           /\ n.release = row.release /\ n.slot = row.slot
<1>1. [row EXCEPT !.status = st] \in TaskRow
  BY Zenon DEF TaskRow
<1>2. QED
  BY <1>1 DEF TaskRow

\* A report is applied only while its task is active, which says where its
\* release is.
LEMMA AppliesFacts ==
    ASSUME IInv, NEW t \in TaskIds, Applies(t)
    PROVE  LET r == task[t].release IN
           /\ r \in ReleaseIds /\ release[r] \in ReleaseRow /\ task[t] \in TaskRow
           /\ TaskIsActive(task[t].status)
           /\ release[r].currentTaskID = t
           /\ release[r].status \in {"dispatching", "deploying"}
           /\ task[t].slot = release[r].targetSlot
           /\ \A u \in TaskIds : TaskIsActive(task[u].status) /\ u # t => task[u].release # r
<1>1. task[t].status \in TaskStatus /\ task[t].status # "absent"
  BY Rows DEF Applies, IInv, RowsBelong
<1>2. TaskIsActive(task[t].status)
  BY <1>1 DEF Applies, TaskStatus, TaskIsTerminal, TaskIsActive
<1>3. QED
  BY <1>2, Rows DEF IInv, TypeOK, WaitsForLiveTask, RowsBelong

\* A failed task ends with its release.
LEMMA TaskFailedStep ==
    ASSUME IInv, NEW t \in TaskIds, TaskFailed(t)
    PROVE  IInv'
<1> DEFINE r == task[t].release
<1>1. /\ task' = [task EXCEPT ![t] = [task[t] EXCEPT !.status = "failed"]]
      /\ release' = [x \in ReleaseIds |->
            IF x \in {r} THEN [release[x] EXCEPT !.status = "failed"] ELSE release[x]]
      /\ UNCHANGED <<spec, instance>>
  BY Rows DEF TaskFailed, IInv, TypeOK
<1>2. /\ r \in ReleaseIds /\ release[r].currentTaskID = t
      /\ release[r].status \in {"dispatching", "deploying"}
  BY AppliesFacts DEF TaskFailed
<1>3. RowsEnded({r}, "failed")
  BY <1>1, <1>2, EndRows
<1>4. /\ task' \in [TaskIds -> TaskRow] /\ task'[t].status = "failed"
      /\ \A u \in TaskIds : /\ u # t => task'[u] = task[u]
                            /\ task'[u].release = task[u].release
                            /\ task'[u].slot = task[u].slot
  <2> DEFINE n == [task[t] EXCEPT !.status = "failed"]
  <2>1. task[t] \in TaskRow /\ "failed" \in TaskStatus
    BY DEF IInv, TypeOK, TaskStatus
  <2>2. n \in TaskRow /\ n.status = "failed" /\ n.release = r /\ n.slot = task[t].slot
    BY <2>1, TaskStatusRow
  <2> HIDE DEF n
  <2>3. task' = [task EXCEPT ![t] = n]
    BY <1>1 DEF n
  <2>4. QED
    BY <2>2, <2>3 DEF IInv, TypeOK
<1>5. \A u \in TaskIds : TaskIsActive(task[u].status) /\ u # t => task[u].release # r
  BY <1>2 DEF IInv, WaitsForLiveTask
<1>6. WaitsForLiveTask' /\ RowsBelong'
  BY <1>2, <1>3, <1>4, <1>5, EndTasks DEF ReleaseStatus, TaskIsActive
<1>7. TypeOK'
  BY <1>1, <1>3, <1>4 DEF TaskFailed, IInv, TypeOK, RowsEnded
<1>8. QED
  BY <1>3, <1>6, <1>7 DEF IInv, RowsEnded

\* The timeout ends tasks together with their releases.
LEMMA FailStaleStep ==
    ASSUME IInv, NEW T \in SUBSET TaskIds, FailStaleTasks(T)
    PROVE  IInv'
<1> DEFINE R == {task[t].release : t \in T}
           n(t) == [task[t] EXCEPT !.status = "timedOut"]
<1>1. /\ release' = [x \in ReleaseIds |->
            IF x \in R THEN [release[x] EXCEPT !.status = "failed"] ELSE release[x]]
      /\ UNCHANGED <<spec, instance>>
  BY DEF FailStaleTasks
<1>2. task' = [t \in TaskIds |-> IF t \in T THEN n(t) ELSE task[t]]
  BY DEF FailStaleTasks
<1>3. \A t \in T : /\ release[task[t].release].currentTaskID = t
                   /\ release[task[t].release].status \in {"dispatching", "deploying"}
  <2>1. \A t \in T : TaskIsActive(task[t].status)
    BY DEF FailStaleTasks, ListRecoverableTasksByAgent
  <2>2. QED
    BY <2>1 DEF IInv, WaitsForLiveTask
<1>4. /\ R \in SUBSET ReleaseIds
      /\ \A x \in R : release[x].status \in {"dispatching", "deploying"}
  BY <1>3, Rows DEF IInv
<1>5. \A t \in T : n(t) \in TaskRow /\ n(t).status = "timedOut"
                   /\ n(t).release = task[t].release /\ n(t).slot = task[t].slot
  <2>1. "timedOut" \in TaskStatus /\ \A t \in T : task[t] \in TaskRow
    BY DEF IInv, TypeOK, TaskStatus
  <2>2. QED
    BY <2>1, TaskStatusRow
<1>6. \A t \in TaskIds : TaskIsActive(task[t].status) /\ task[t].release \in R => t \in T
  BY <1>3 DEF IInv, WaitsForLiveTask
<1>7. \A t \in T : task[t].release \in R
  OBVIOUS
<1> HIDE DEF R, n
<1>8. RowsEnded(R, "failed")
  BY <1>1, <1>4, EndRows
<1>9. /\ task' \in [TaskIds -> TaskRow]
      /\ \A t \in TaskIds : /\ t \in T => task'[t].status = "timedOut"
                            /\ t \notin T => task'[t] = task[t]
                            /\ task'[t].release = task[t].release
                            /\ task'[t].slot = task[t].slot
  BY <1>2, <1>5 DEF IInv, TypeOK
<1>10. WaitsForLiveTask' /\ RowsBelong'
  BY <1>4, <1>6, <1>7, <1>8, <1>9, EndTasks DEF ReleaseStatus, TaskIsActive
<1>11. TypeOK'
  BY <1>1, <1>8, <1>9 DEF FailStaleTasks, IInv, TypeOK, RowsEnded
<1>12. QED
  BY <1>8, <1>10, <1>11 DEF IInv, RowsEnded

\* The first report of a running task moves its release on.
LEMMA TaskRunningStep ==
    ASSUME IInv, NEW t \in TaskIds, TaskRunning(t)
    PROVE  IInv'
<1> DEFINE r == task[t].release
           n == [task[t] EXCEPT !.status = "running"]
           m == [release[r] EXCEPT !.status =
                    IF release[r].status = "dispatching" THEN "deploying"
                    ELSE release[r].status]
<1>1. /\ task' = [task EXCEPT ![t] = n]
      /\ release' = [release EXCEPT ![r] = m]
      /\ UNCHANGED <<spec, instance, online, session, replayed, published, unpublished>>
  BY DEF TaskRunning
<1>2. /\ r \in ReleaseIds /\ release[r] \in ReleaseRow /\ task[t] \in TaskRow
      /\ TaskIsActive(task[t].status)
      /\ release[r].currentTaskID = t
      /\ release[r].status \in {"dispatching", "deploying"}
  BY AppliesFacts DEF TaskRunning
<1>3. n \in TaskRow /\ n.status = "running" /\ n.release = r /\ n.slot = task[t].slot
  BY <1>2, TaskStatusRow DEF TaskStatus
<1>4. /\ m \in ReleaseRow
      /\ m.status = "deploying"
      /\ m.service = release[r].service /\ m.targetSlot = release[r].targetSlot
      /\ m.previousLiveSlot = release[r].previousLiveSlot
      /\ m.currentTaskID = release[r].currentTaskID
      /\ m.trafficPercent = release[r].trafficPercent
  <2> DEFINE st == IF release[r].status = "dispatching" THEN "deploying"
                   ELSE release[r].status
  <2>1. st = "deploying" /\ st \in ReleaseStatus
    BY <1>2 DEF ReleaseStatus
  <2>2. QED
    BY <1>2, <2>1, StatusRow
<1> HIDE DEF n, m
<1>5. /\ task' \in [TaskIds -> TaskRow] /\ task'[t] = n
      /\ \A u \in TaskIds \ {t} : task'[u] = task[u]
  BY <1>1, <1>3 DEF IInv, TypeOK
<1>6. /\ release' \in [ReleaseIds -> ReleaseRow] /\ release'[r] = m
      /\ \A x \in ReleaseIds \ {r} : release'[x] = release[x]
  BY <1>1, <1>2, <1>4 DEF IInv, TypeOK
<1>7. TypeOK'
  BY <1>1, <1>5, <1>6 DEF IInv, TypeOK
<1>8. \A x \in ReleaseIds : /\ release'[x].service = release[x].service
                            /\ release'[x].targetSlot = release[x].targetSlot
                            /\ release'[x].previousLiveSlot = release[x].previousLiveSlot
                            /\ release'[x].currentTaskID = release[x].currentTaskID
                            /\ release'[x].trafficPercent = release[x].trafficPercent
                            /\ InProgress(x)' <=> InProgress(x)
                            /\ release'[x].status = "readyToSwitch" => x # r
                            /\ release'[x].status = "absent" => x # r
  BY <1>2, <1>4, <1>6 DEF InProgress
<1>9. OneInProgress' /\ SlotsFollowLive'
  BY <1>1, <1>8 DEF IInv, OneInProgress, SlotsFollowLive
<1>10. OnlySwitchedAreFull'
  BY <1>1, <1>2, <1>4, <1>6, <1>8 DEF IInv, OnlySwitchedAreFull
<1>11. CandidateIsOwnInstance'
  BY <1>1, <1>6, <1>8 DEF IInv, CandidateIsOwnInstance
<1>12. LiveIsConfirmed'
  <2>1. \A q \in Services : LiveKeptOf(q)
    BY <1>1, Zenon DEF LiveKeptOf
  <2>2. \A z \in ReleaseIds : release[z].status = "completed" => release'[z] = release[z]
    BY <1>2, <1>6
  <2>3. QED
    BY <2>1, <2>2, LiveStays
<1>13. WaitsForLiveTask'
  <2>1. \A x \in ReleaseIds : release'[x].status \in {"dispatching", "deploying"}
                              <=> release[x].status \in {"dispatching", "deploying"}
    BY <1>2, <1>4, <1>6
  <2>2. \A u \in TaskIds : /\ task'[u].release = task[u].release
                           /\ TaskIsActive(task'[u].status) <=> TaskIsActive(task[u].status)
                           /\ task[u].release \in ReleaseIds
    BY <1>2, <1>3, <1>5, Rows DEF TaskIsActive, IInv
  <2>3. QED
    BY <1>8, <2>1, <2>2 DEF IInv, WaitsForLiveTask
<1>14. RowsBelong'
  <2>1. \A u \in TaskIds :
           /\ task'[u].sent => task'[u].status # "absent"
           /\ TaskIsActive(task'[u].status) =>
                 task'[u].slot = release'[task'[u].release].targetSlot
    BY <1>2, <1>3, <1>5, <1>8, Rows DEF IInv, RowsBelong
  <2>2. \A s \in Services, slot \in Slots :
           LET q == instance'[s][slot].release IN
           q # 0 => release'[q].status # "absent" /\ release'[q].service = s
    BY <1>1, <1>2, <1>4, <1>6, <1>8, Rows DEF IInv, RowsBelong
  <2>3. QED
    BY <2>1, <2>2 DEF RowsBelong
<1>15. QED
  BY <1>7, <1>9, <1>10, <1>11, <1>12, <1>13, <1>14 DEF IInv

\* A finished deployment puts its release's instance on the slot that is not
\* live and makes the release a candidate.
LEMMA TaskSucceededStep ==
    ASSUME IInv, NEW t \in TaskIds, NEW d \in BOOLEAN, TaskSucceeded(t, d)
    PROVE  IInv'
<1> DEFINE r == task[t].release
           s == release[r].service
           slot == task[t].slot
           n == [task[t] EXCEPT !.status = "succeeded"]
           w == [release[r] EXCEPT !.status = "readyToSwitch", !.trafficPercent = 0,
                                   !.switchConfirmed = FALSE]
           m == Updates(release[r], w)
           i == [release |-> r, accepting |-> FALSE]
<1>1. /\ task' = [task EXCEPT ![t] = n]
      /\ release' = [release EXCEPT ![r] = m]
      /\ instance' = [instance EXCEPT ![s][slot] = i]
      /\ UNCHANGED <<spec, online, session, replayed>>
      /\ PublishAgent(AgentOf[s], d)
  BY DEF TaskSucceeded
<1>2. /\ r \in ReleaseIds /\ release[r] \in ReleaseRow /\ task[t] \in TaskRow
      /\ TaskIsActive(task[t].status)
      /\ release[r].currentTaskID = t
      /\ release[r].status \in {"dispatching", "deploying"}
      /\ slot = release[r].targetSlot
      /\ \A u \in TaskIds : TaskIsActive(task[u].status) /\ u # t => task[u].release # r
  BY AppliesFacts DEF TaskSucceeded
<1>3. n \in TaskRow /\ n.status = "succeeded" /\ n.release = r /\ n.slot = task[t].slot
  BY <1>2, TaskStatusRow DEF TaskStatus
<1>4. w \in ReleaseRow /\ w.status = "readyToSwitch" /\ w.trafficPercent = 0
      /\ w.service = s /\ w.targetSlot = release[r].targetSlot
      /\ w.previousLiveSlot = release[r].previousLiveSlot
      /\ w.currentTaskID = release[r].currentTaskID
  <2>1. 0 \in 0..100 /\ FALSE \in BOOLEAN /\ "readyToSwitch" \in ReleaseStatus
    BY DEF ReleaseStatus
  <2>2. w \in ReleaseRow
    BY <1>2, <2>1, Zenon DEF ReleaseRow
  <2>3. QED
    BY <2>2, <1>2 DEF ReleaseRow
<1>5. /\ m \in ReleaseRow /\ m.status = "readyToSwitch"
      /\ m.service = s /\ m.targetSlot = release[r].targetSlot
      /\ m.previousLiveSlot = release[r].previousLiveSlot
      /\ m.currentTaskID = release[r].currentTaskID
      /\ m.trafficPercent = release[r].trafficPercent
  <2> HIDE DEF w
  <2>1. QED
    BY <1>2, <1>4, UpdatesRow
<1>6. s \in Services /\ slot \in Slots
  BY <1>2, Rows DEF IInv
<1>7. i \in Instance /\ i.release = r /\ ~i.accepting
  BY <1>2 DEF Instance
<1> HIDE DEF n, m, w, i
<1>8. /\ task' \in [TaskIds -> TaskRow] /\ task'[t] = n
      /\ \A u \in TaskIds \ {t} : task'[u] = task[u]
  BY <1>1, <1>3 DEF IInv, TypeOK
<1>9. /\ release' \in [ReleaseIds -> ReleaseRow] /\ release'[r] = m
      /\ \A x \in ReleaseIds \ {r} : release'[x] = release[x]
  BY <1>1, <1>2, <1>5 DEF IInv, TypeOK
<1>10. /\ instance' \in [Services -> [Slots -> Instance]] /\ instance'[s][slot] = i
       /\ \A q \in Services, y \in Slots :
             q # s \/ y # slot => instance'[q][y] = instance[q][y]
  BY <1>1, <1>6, <1>7 DEF IInv, TypeOK
<1>11. TypeOK'
  <2>1. spec' \in [Services -> SpecRow] /\ AgentOf[s] \in Agents
    BY <1>1, <1>6, ReleaseAssumption DEF IInv, TypeOK, SpecRow
  <2>2. published' \in [Services -> Snapshot] /\ unpublished' \subseteq Agents
    BY <1>1, <1>9, <1>10, <2>1, PublishType DEF IInv
  <2>3. QED
    BY <1>1, <1>8, <1>9, <1>10, <2>1, <2>2 DEF IInv, TypeOK, SpecRow
<1>12. \A x \in ReleaseIds : /\ release'[x].service = release[x].service
                             /\ release'[x].targetSlot = release[x].targetSlot
                             /\ release'[x].previousLiveSlot = release[x].previousLiveSlot
                             /\ release'[x].currentTaskID = release[x].currentTaskID
                             /\ release'[x].trafficPercent = release[x].trafficPercent
                             /\ InProgress(x)' <=> InProgress(x)
                             /\ release'[x].status = "absent" <=> release[x].status = "absent"
  BY <1>2, <1>5, <1>9 DEF InProgress
<1>13. /\ release[r].previousLiveSlot = spec[s].currentLiveSlot
       /\ slot = nextSlot(release[r].previousLiveSlot)
       /\ slot # spec[s].currentLiveSlot
  BY <1>2, <1>6, SlotFacts, Rows DEF IInv, SlotsFollowLive, InProgress
<1>14. OneInProgress' /\ SlotsFollowLive'
  BY <1>1, <1>12 DEF IInv, OneInProgress, SlotsFollowLive
<1>15. OnlySwitchedAreFull'
  <2>1. SUFFICES ASSUME NEW x \in ReleaseIds
        PROVE  /\ release'[x].trafficPercent = 100 => release'[x].status = "completed"
               /\ release'[x].trafficPercent # 0
                    => release'[x].status \in {"readyToSwitch", "completed", "rolledBack"}
               /\ release'[x].status \in {"absent", "queued", "skipped"}
                    => release'[x].currentTaskID = 0
               /\ release'[x].status # "absent" /\ release'[x].previousLiveSlot # 0
                    => spec[release'[x].service].currentLiveSlot # 0
    BY <1>1 DEF OnlySwitchedAreFull
  <2>2. /\ release[x].trafficPercent = 100 => release[x].status = "completed"
        /\ release[x].trafficPercent # 0
             => release[x].status \in {"readyToSwitch", "completed", "rolledBack"}
        /\ release[x].status \in {"absent", "queued", "skipped"}
             => release[x].currentTaskID = 0
        /\ release[x].status # "absent" /\ release[x].previousLiveSlot # 0
             => spec[release[x].service].currentLiveSlot # 0
    BY DEF IInv, OnlySwitchedAreFull
  <2>3. CASE x = r
    <3>1. /\ release'[x].status = "readyToSwitch"
          /\ release[x].status \in {"dispatching", "deploying"}
          /\ release'[x].trafficPercent = release[x].trafficPercent
          /\ release'[x].previousLiveSlot = release[x].previousLiveSlot
          /\ release'[x].service = release[x].service
      BY <1>2, <1>5, <1>9, <2>3
    <3>2. QED
      BY <2>2, <3>1
  <2>4. CASE x # r
    <3>1. release'[x] = release[x]
      BY <1>9, <2>4
    <3>2. QED
      BY <2>2, <3>1
  <2>5. QED
    BY <2>3, <2>4
<1>16. CandidateIsOwnInstance'
  <2>1. SUFFICES ASSUME NEW x \in ReleaseIds, release'[x].status = "readyToSwitch"
                 PROVE  LET q == release'[x].service IN
                        /\ instance'[q][release'[x].targetSlot].release = x
                        /\ release'[x].targetSlot # spec'[q].currentLiveSlot
                        /\ release'[x].previousLiveSlot = spec'[q].currentLiveSlot
    BY DEF CandidateIsOwnInstance
  <2>2. CASE x = r
    <3>1. /\ release'[x].service = s /\ release'[x].targetSlot = slot
          /\ release'[x].previousLiveSlot = spec[s].currentLiveSlot
      BY <1>2, <1>5, <1>9, <1>13, <2>2
    <3>2. instance'[s][slot].release = x /\ spec' = spec
      BY <1>1, <1>7, <1>10, <2>2
    <3>3. QED
      BY <1>13, <3>1, <3>2
  <2>3. CASE x # r
    <3>1. release'[x] = release[x] /\ release[x].status = "readyToSwitch"
      BY <1>9, <2>1, <2>3
    <3>2. release[x].service # s
      BY <1>2, <2>3, <3>1 DEF IInv, OneInProgress, InProgress
    <3> DEFINE q == release[x].service
               y == release[x].targetSlot
    <3>3. /\ q \in Services /\ y \in Slots
          /\ instance[q][y].release = x
          /\ y # spec[q].currentLiveSlot
          /\ release[x].previousLiveSlot = spec[q].currentLiveSlot
      BY <3>1, Rows DEF IInv, CandidateIsOwnInstance
    <3>4. instance'[q][y] = instance[q][y] /\ spec' = spec
      BY <1>1, <1>10, <3>2, <3>3
    <3>5. QED
      BY <3>1, <3>3, <3>4
  <2>4. QED
    BY <2>2, <2>3
<1>17. LiveIsConfirmed'
  <2>1. ASSUME NEW q \in Services PROVE LiveKeptOf(q)
    <3> DEFINE L == spec[q].currentLiveSlot
    <3>1. /\ L \in Slots \cup {0} /\ 0 \notin Slots
          /\ \A y \in Slots : instance[q][y].accepting <=> y = L
      BY LiveFacts, SlotFacts
    <3>2. \A y \in Slots : q # s \/ y # slot => instance'[q][y] = instance[q][y]
      BY <1>10
    <3>3. q = s => L # slot /\ instance'[q][slot] = i
      BY <1>10, <1>13
    <3> HIDE DEF L, s, slot, i
    <3>4. /\ L # 0 => instance'[q][L].release = instance[q][L].release
          /\ \A y \in Slots : instance'[q][y].accepting <=> instance[q][y].accepting
      BY <1>6, <1>7, <3>1, <3>2, <3>3
    <3>5. spec'[q].currentLiveSlot = L
      BY <1>1 DEF L
    <3>6. QED
      BY <3>4, <3>5 DEF LiveKeptOf, L
  <2>2. \A z \in ReleaseIds : release[z].status = "completed" => release'[z] = release[z]
    BY <1>2, <1>9
  <2>3. QED
    BY <2>1, <2>2, LiveStays
<1>18. WaitsForLiveTask'
  <2>1. ASSUME NEW x \in ReleaseIds, release'[x].status \in {"dispatching", "deploying"}
        PROVE  \E u \in TaskIds : /\ release'[x].currentTaskID = u
                                  /\ task'[u].release = x
                                  /\ TaskIsActive(task'[u].status)
    <3>1. x # r /\ release'[x] = release[x]
      BY <1>5, <1>9, <2>1
    <3>2. PICK u \in TaskIds : /\ release[x].currentTaskID = u
                               /\ task[u].release = x
                               /\ TaskIsActive(task[u].status)
      BY <2>1, <3>1 DEF IInv, WaitsForLiveTask
    <3>3. u # t
      BY <3>1, <3>2
    <3>4. QED
      BY <1>8, <3>1, <3>2, <3>3
  <2>2. ASSUME NEW u \in TaskIds, TaskIsActive(task'[u].status)
        PROVE  LET x == task'[u].release IN
               /\ release'[x].currentTaskID = u
               /\ release'[x].status \in {"dispatching", "deploying"}
    <3>1. u # t /\ task'[u] = task[u]
      BY <1>3, <1>8, <2>2 DEF TaskIsActive
    <3>2. QED
      BY <1>2, <1>9, <2>2, <3>1, Rows DEF IInv, WaitsForLiveTask
  <2>3. QED
    BY <2>1, <2>2 DEF WaitsForLiveTask
<1>19. RowsBelong'
  <2>1. \A u \in TaskIds :
           /\ task'[u].sent => task'[u].status # "absent"
           /\ TaskIsActive(task'[u].status) =>
                 task'[u].slot = release'[task'[u].release].targetSlot
    BY <1>2, <1>3, <1>8, <1>12, Rows DEF IInv, RowsBelong
  <2>2. \A q \in Services, y \in Slots :
           LET x == instance'[q][y].release IN
           x # 0 => release'[x].status # "absent" /\ release'[x].service = q
    <3>1. SUFFICES ASSUME NEW q \in Services, NEW y \in Slots,
                          instance'[q][y].release # 0
                   PROVE  LET x == instance'[q][y].release IN
                          release'[x].status # "absent" /\ release'[x].service = q
      OBVIOUS
    <3>2. CASE q = s /\ y = slot
      <4>1. instance'[q][y].release = r
        BY <1>7, <1>10, <3>2
      <4>2. release'[r].status = "readyToSwitch" /\ release'[r].service = s
        BY <1>5, <1>9
      <4>3. QED
        BY <3>2, <4>1, <4>2
    <3>3. CASE ~(q = s /\ y = slot)
      <4>1. instance'[q][y] = instance[q][y]
        BY <1>10, <3>3
      <4> DEFINE x == instance[q][y].release
      <4>2. x \in ReleaseIds /\ release[x].status # "absent" /\ release[x].service = q
        <5>1. x \in ReleaseIds \cup {0}
          BY Rows DEF IInv
        <5>2. x # 0
          BY <3>1, <4>1
        <5>3. release[x].status # "absent" /\ release[x].service = q
          BY <5>2 DEF IInv, RowsBelong
        <5>4. QED
          BY <5>1, <5>2, <5>3
      <4> HIDE DEF x
      <4>3. release'[x].status # "absent" /\ release'[x].service = q
        BY <1>12, <4>2
      <4>4. QED
        BY <4>1, <4>3 DEF x
    <3>4. QED
      BY <3>2, <3>3
  <2>3. QED
    BY <2>1, <2>2 DEF RowsBelong
<1>20. QED
  BY <1>11, <1>14, <1>15, <1>16, <1>17, <1>18, <1>19 DEF IInv

\* Below a full share the live slot and the traffic flags are written with the
\* values they have.
LEMMA LiveUnmoved ==
    ASSUME IInv, NEW r \in ReleaseIds, release[r].status = "readyToSwitch"
    PROVE  LET s == release[r].service
               prev == release[r].previousLiveSlot
           IN  /\ [spec EXCEPT ![s].currentLiveSlot = prev] = spec
               /\ updateTrafficFlags(s, prev, release[r].targetSlot) = instance
<1> DEFINE s == release[r].service
           prev == release[r].previousLiveSlot
           row(slot) == [instance[s][slot] EXCEPT !.accepting = slot = prev]
<1>1. s \in Services /\ prev = spec[s].currentLiveSlot /\ prev \in Slots \cup {0}
  BY Rows DEF IInv, SlotsFollowLive, InProgress
<1>2. [spec EXCEPT ![s].currentLiveSlot = prev] = spec
  <2> DEFINE n == [spec[s] EXCEPT !.currentLiveSlot = prev]
  <2>1. n = spec[s]
    BY <1>1, Rows DEF SpecRow, IInv
  <2>2. [spec EXCEPT ![s].currentLiveSlot = prev] = [spec EXCEPT ![s] = n]
    OBVIOUS
  <2> HIDE DEF n
  <2>3. QED
    BY <1>1, <2>1, <2>2 DEF IInv, TypeOK
<1>3. \A slot \in Slots : row(slot) = instance[s][slot]
  <2> SUFFICES ASSUME NEW slot \in Slots PROVE row(slot) = instance[s][slot]
    OBVIOUS
  <2>1. instance[s][slot].accepting <=> slot = prev
    <3>1. s \in Services /\ prev = spec[s].currentLiveSlot
      BY <1>1
    <3> HIDE DEF s, prev
    <3>2. QED
      BY <3>1, LiveFacts
  <2>2. instance[s][slot] \in Instance
    BY <1>1, Rows DEF IInv
  <2>3. instance[s][slot].accepting = (slot = prev)
    BY <2>1, <2>2 DEF Instance
  <2>4. QED
    BY <2>2, <2>3, Zenon DEF Instance
<1> HIDE DEF row
<1>4. updateTrafficFlags(s, prev, release[r].targetSlot) =
        [instance EXCEPT ![s] = [slot \in Slots |->
            IF instance[s][slot].release # 0 /\ slot \in {prev, release[r].targetSlot}
            THEN row(slot) ELSE instance[s][slot]]]
  BY DEF updateTrafficFlags, row
<1>5. [slot \in Slots |->
            IF instance[s][slot].release # 0 /\ slot \in {prev, release[r].targetSlot}
            THEN row(slot) ELSE instance[s][slot]] = instance[s]
  BY <1>1, <1>3 DEF IInv, TypeOK
<1>6. updateTrafficFlags(s, prev, release[r].targetSlot) = instance
  BY <1>1, <1>4, <1>5 DEF IInv, TypeOK
<1>7. QED
  BY <1>2, <1>6

\* A candidate that keeps its slots and is not switched.
LEMMA CandidateRow ==
    ASSUME IInv, NEW r \in ReleaseIds, release[r].status = "readyToSwitch",
           NEW m \in ReleaseRow, m.status \in {"readyToSwitch", "rolledBack"},
           m.service = release[r].service, m.targetSlot = release[r].targetSlot,
           m.previousLiveSlot = release[r].previousLiveSlot,
           m.currentTaskID = release[r].currentTaskID, m.trafficPercent # 100,
           release' = [release EXCEPT ![r] = m], TypeOK',
           UNCHANGED <<spec, instance, task>>
    PROVE  IInv'
<1>1. /\ release'[r] = m
      /\ \A x \in ReleaseIds \ {r} : release'[x] = release[x]
  BY DEF IInv, TypeOK
<1>2. \A x \in ReleaseIds :
         /\ release'[x].service = release[x].service
         /\ release'[x].targetSlot = release[x].targetSlot
         /\ release'[x].previousLiveSlot = release[x].previousLiveSlot
         /\ release'[x].currentTaskID = release[x].currentTaskID
         /\ InProgress(x)' => InProgress(x)
         /\ release'[x].status = "absent" <=> release[x].status = "absent"
         /\ release'[x].status = "readyToSwitch" => release[x].status = "readyToSwitch"
         /\ release'[x].status \in {"dispatching", "deploying"}
               <=> release[x].status \in {"dispatching", "deploying"}
  BY <1>1 DEF InProgress
<1>3. OneInProgress' /\ SlotsFollowLive' /\ CandidateIsOwnInstance'
  BY <1>2 DEF IInv, OneInProgress, SlotsFollowLive, CandidateIsOwnInstance
<1>4. OnlySwitchedAreFull'
  BY <1>1, <1>2 DEF IInv, OnlySwitchedAreFull
<1>5. WaitsForLiveTask'
  BY <1>2, Rows DEF IInv, WaitsForLiveTask
<1>6. RowsBelong'
  BY <1>2, Rows DEF IInv, RowsBelong
<1>7. LiveIsConfirmed'
  <2>1. \A q \in Services : LiveKeptOf(q)
    BY Zenon DEF LiveKeptOf
  <2>2. \A z \in ReleaseIds : release[z].status = "completed" => release'[z] = release[z]
    BY <1>1
  <2>3. QED
    BY <2>1, <2>2, LiveStays
<1>8. QED
  BY <1>3, <1>4, <1>5, <1>6, <1>7 DEF IInv

\* Rolling back ends the candidate and leaves the live release where it is.
LEMMA RollbackStep ==
    ASSUME IInv, NEW r \in ReleaseIds, NEW d \in BOOLEAN, Rollback(r, d)
    PROVE  IInv'
<1> DEFINE w == [release[r] EXCEPT !.trafficPercent = 0, !.switchConfirmed = FALSE,
                                   !.status = "rolledBack"]
           m == Updates(release[r], w)
<1>1. /\ release[r].status = "readyToSwitch"
      /\ release' = [release EXCEPT ![r] = m]
      /\ PublishAgent(AgentOf[release[r].service], d)
      /\ UNCHANGED <<task, online, session, replayed>>
  BY DEF Rollback
<1>2. UNCHANGED <<spec, instance>>
  BY <1>1, LiveUnmoved DEF Rollback
<1>3. release[r] \in ReleaseRow /\ "rolledBack" \in ReleaseStatus
      /\ 0 \in 0..100 /\ FALSE \in BOOLEAN
  BY Rows DEF IInv, ReleaseStatus
<1>4. w \in ReleaseRow /\ w.status = "rolledBack" /\ w.trafficPercent = 0
      /\ w.service = release[r].service /\ w.targetSlot = release[r].targetSlot
      /\ w.previousLiveSlot = release[r].previousLiveSlot
      /\ w.currentTaskID = release[r].currentTaskID
  <2>1. w \in ReleaseRow
    BY <1>3, Zenon DEF ReleaseRow
  <2>2. QED
    BY <1>3, <2>1 DEF ReleaseRow
<1> HIDE DEF w
<1>5. /\ m \in ReleaseRow /\ m.status = "rolledBack"
      /\ m.service = release[r].service /\ m.targetSlot = release[r].targetSlot
      /\ m.previousLiveSlot = release[r].previousLiveSlot
      /\ m.currentTaskID = release[r].currentTaskID
      /\ m.trafficPercent = release[r].trafficPercent
  BY <1>3, <1>4, UpdatesRow
<1>6. m.trafficPercent # 100
  BY <1>1, <1>5 DEF IInv, OnlySwitchedAreFull
<1> HIDE DEF m
<1>7. TypeOK'
  <2>1. /\ release' \in [ReleaseIds -> ReleaseRow]
        /\ spec' \in [Services -> SpecRow]
        /\ instance' \in [Services -> [Slots -> Instance]]
        /\ AgentOf[release[r].service] \in Agents
    BY <1>1, <1>2, <1>5, Rows DEF IInv, TypeOK, SpecRow
  <2>2. published' \in [Services -> Snapshot] /\ unpublished' \subseteq Agents
    BY <1>1, <2>1, PublishType DEF IInv
  <2>3. QED
    BY <1>1, <1>2, <2>1, <2>2 DEF IInv, TypeOK
<1>8. QED
  BY <1>1, <1>2, <1>5, <1>6, <1>7, CandidateRow

\* A share below 100 leaves the candidate a candidate.
LEMMA TrafficStep ==
    ASSUME IInv, NEW r \in ReleaseIds, NEW p \in Percents \cup {0}, NEW d \in BOOLEAN,
           SetTrafficPercent(r, p, d)
    PROVE  IInv'
<1> DEFINE w == [release[r] EXCEPT !.trafficPercent = p, !.switchConfirmed = FALSE]
           m == Updates(release[r], w)
<1>1. /\ release[r].status = "readyToSwitch"
      /\ release' = [release EXCEPT ![r] = m]
      /\ PublishAgent(AgentOf[release[r].service], d)
      /\ UNCHANGED <<task, online, session, replayed>>
  BY DEF SetTrafficPercent
<1>2. UNCHANGED <<spec, instance>>
  BY <1>1, LiveUnmoved DEF SetTrafficPercent
<1>3. release[r] \in ReleaseRow /\ p \in 0..100 /\ p # 100 /\ FALSE \in BOOLEAN
  BY Rows, ReleaseAssumption DEF IInv
<1>4. w \in ReleaseRow /\ w.status = "readyToSwitch" /\ w.trafficPercent = p
      /\ w.service = release[r].service /\ w.targetSlot = release[r].targetSlot
      /\ w.previousLiveSlot = release[r].previousLiveSlot
      /\ w.currentTaskID = release[r].currentTaskID
  <2>1. w \in ReleaseRow
    BY <1>3, Zenon DEF ReleaseRow
  <2>2. QED
    BY <1>1, <1>3, <2>1 DEF ReleaseRow
<1> HIDE DEF w
<1>5. /\ m \in ReleaseRow /\ m.status = "readyToSwitch"
      /\ m.service = release[r].service /\ m.targetSlot = release[r].targetSlot
      /\ m.previousLiveSlot = release[r].previousLiveSlot
      /\ m.currentTaskID = release[r].currentTaskID
      /\ m.trafficPercent = IF p = 0 THEN release[r].trafficPercent ELSE p
  BY <1>3, <1>4, UpdatesRow
<1>6. m.trafficPercent # 100
  BY <1>1, <1>3, <1>5 DEF IInv, OnlySwitchedAreFull
<1> HIDE DEF m
<1>7. TypeOK'
  <2>1. /\ release' \in [ReleaseIds -> ReleaseRow]
        /\ spec' \in [Services -> SpecRow]
        /\ instance' \in [Services -> [Slots -> Instance]]
        /\ AgentOf[release[r].service] \in Agents
    BY <1>1, <1>2, <1>5, Rows DEF IInv, TypeOK, SpecRow
  <2>2. published' \in [Services -> Snapshot] /\ unpublished' \subseteq Agents
    BY <1>1, <2>1, PublishType DEF IInv
  <2>3. QED
    BY <1>1, <1>2, <2>1, <2>2 DEF IInv, TypeOK
<1>8. QED
  BY <1>1, <1>2, <1>5, <1>6, <1>7, CandidateRow

\* A switch makes the candidate's own instance the live one.
LEMMA ConfirmStep ==
    ASSUME IInv, NEW r \in ReleaseIds, NEW d \in BOOLEAN, ConfirmSwitch(r, d)
    PROVE  IInv'
<1> DEFINE s == release[r].service
           prev == release[r].previousLiveSlot
           target == release[r].targetSlot
           P == completePreviousLiveRelease(r)
           w == [release[r] EXCEPT !.trafficPercent = 100, !.switchConfirmed = TRUE,
                                   !.status = "completed"]
           v(x) == [release[x] EXCEPT !.trafficPercent = 0, !.status = "completed"]
           u(x) == Updates(release[x], v(x))
           n == [spec[s] EXCEPT !.currentLiveSlot = target]
<1>1. /\ release[r].status = "readyToSwitch"
      /\ spec' = [spec EXCEPT ![s] = n]
      /\ instance' = updateTrafficFlags(s, target, prev)
      /\ release' = [x \in ReleaseIds |->
              IF x = r THEN w ELSE IF x \in P THEN u(x) ELSE release[x]]
      /\ PublishAgent(AgentOf[s], d)
      /\ UNCHANGED <<task, online, session, replayed>>
  BY DEF ConfirmSwitch
<1>2. /\ s \in Services /\ release[r] \in ReleaseRow
      /\ prev = spec[s].currentLiveSlot /\ prev \in Slots \cup {0}
      /\ target = nextSlot(prev) /\ target \in Slots /\ target # prev
      /\ instance[s][target].release = r
      /\ AgentOf[s] \in Agents
  BY <1>1, Rows, SlotFacts DEF IInv, SlotsFollowLive, InProgress, CandidateIsOwnInstance
<1>3. \A x \in P : /\ x \in ReleaseIds \ {r}
                   /\ release[x].status = "completed"
  <2>1. SUFFICES ASSUME NEW x \in P
                 PROVE  x \in ReleaseIds \ {r} /\ release[x].status = "completed"
    OBVIOUS
  <2>2. prev # 0 /\ x = instance[s][prev].release /\ x # 0 /\ x # r
    BY <2>1 DEF completePreviousLiveRelease
  <2>3. prev = spec[s].currentLiveSlot /\ s \in Services
    BY <1>2
  <2> HIDE DEF prev, s
  <2>4. x \in ReleaseIds /\ release[x].status = "completed"
    BY <2>2, <2>3, LiveFacts
  <2>5. QED
    BY <2>2, <2>4
<1>4. /\ w \in ReleaseRow /\ w.status = "completed" /\ w.trafficPercent = 100
      /\ w.switchConfirmed
      /\ w.service = s /\ w.targetSlot = target /\ w.previousLiveSlot = prev
      /\ w.currentTaskID = release[r].currentTaskID
  <2>1. 100 \in 0..100 /\ TRUE \in BOOLEAN /\ "completed" \in ReleaseStatus
    BY DEF ReleaseStatus
  <2>2. w \in ReleaseRow
    BY <1>2, <2>1, Zenon DEF ReleaseRow
  <2>3. QED
    BY <1>2, <2>2 DEF ReleaseRow
<1>5. \A x \in P : /\ u(x) \in ReleaseRow /\ u(x).status = "completed"
                   /\ u(x).service = release[x].service
                   /\ u(x).targetSlot = release[x].targetSlot
                   /\ u(x).previousLiveSlot = release[x].previousLiveSlot
                   /\ u(x).currentTaskID = release[x].currentTaskID
                   /\ u(x).trafficPercent = release[x].trafficPercent
                   /\ u(x).switchConfirmed = release[x].switchConfirmed
  <2>1. SUFFICES ASSUME NEW x \in P
                 PROVE  /\ u(x) \in ReleaseRow /\ u(x).status = "completed"
                        /\ u(x).service = release[x].service
                        /\ u(x).targetSlot = release[x].targetSlot
                        /\ u(x).previousLiveSlot = release[x].previousLiveSlot
                        /\ u(x).currentTaskID = release[x].currentTaskID
                        /\ u(x).trafficPercent = release[x].trafficPercent
                        /\ u(x).switchConfirmed = release[x].switchConfirmed
    OBVIOUS
  <2>2. release[x] \in ReleaseRow /\ 0 \in 0..100 /\ "completed" \in ReleaseStatus
    BY <1>3, Rows DEF ReleaseStatus, IInv
  <2>3. v(x) \in ReleaseRow
    BY <2>2, Zenon DEF ReleaseRow
  <2>4. /\ v(x).status = "completed" /\ v(x).trafficPercent = 0
        /\ v(x).service = release[x].service
        /\ v(x).targetSlot = release[x].targetSlot
        /\ v(x).previousLiveSlot = release[x].previousLiveSlot
        /\ v(x).currentTaskID = release[x].currentTaskID
        /\ v(x).switchConfirmed = release[x].switchConfirmed
    BY <2>2, <2>3 DEF ReleaseRow
  <2> HIDE DEF v
  <2>5. QED
    BY <2>2, <2>3, <2>4, UpdatesRow
<1>6. n \in SpecRow /\ n.currentLiveSlot = target
  BY <1>2, Rows DEF IInv, SpecRow
<1> HIDE DEF w, u, v, n, P
<1>7. /\ release' \in [ReleaseIds -> ReleaseRow] /\ release'[r] = w
      /\ \A x \in ReleaseIds \ {r} : release'[x] = IF x \in P THEN u(x) ELSE release[x]
  BY <1>1, <1>3, <1>4, <1>5 DEF IInv, TypeOK
<1>8. /\ spec' \in [Services -> SpecRow] /\ spec'[s].currentLiveSlot = target
      /\ \A q \in Services \ {s} : spec'[q] = spec[q]
  BY <1>1, <1>2, <1>6 DEF IInv, TypeOK, SpecRow
<1>9. /\ instance' \in [Services -> [Slots -> Instance]]
      /\ \A q \in Services, slot \in Slots :
            /\ instance'[q][slot].release = instance[q][slot].release
            /\ q # s => instance'[q] = instance[q]
      /\ \A slot \in Slots :
            \/ /\ instance[s][slot].release # 0 /\ slot \in {target, prev}
               /\ instance'[s][slot].accepting <=> slot = target
            \/ /\ ~(instance[s][slot].release # 0 /\ slot \in {target, prev})
               /\ instance'[s][slot] = instance[s][slot]
  <2>1. instance' = updateTrafficFlags(s, target, prev)
    BY <1>1
  <2>2. TypeOK /\ s \in Services
    BY <1>2 DEF IInv
  <2> HIDE DEF s, target, prev
  <2>3. QED
    BY <2>1, <2>2, TrafficFlagsType
<1>10. \A x \in ReleaseIds :
         /\ release'[x].service = release[x].service
         /\ release'[x].targetSlot = release[x].targetSlot
         /\ release'[x].previousLiveSlot = release[x].previousLiveSlot
         /\ release'[x].currentTaskID = release[x].currentTaskID
         /\ x # r => /\ release'[x].status = release[x].status
                     /\ release'[x].trafficPercent = release[x].trafficPercent
                     /\ release'[x].switchConfirmed = release[x].switchConfirmed
  BY <1>3, <1>4, <1>5, <1>7
<1>11. release'[r].status = "completed"
  BY <1>4, <1>7
<1>12. \A x \in ReleaseIds : InProgress(x)' =>
         InProgress(x) /\ x # r /\ release[x].service # s
  <2>1. \A x \in ReleaseIds : InProgress(x)' => InProgress(x) /\ x # r
    BY <1>10, <1>11 DEF InProgress
  <2>2. InProgress(r)
    BY <1>1 DEF InProgress
  <2>3. \A x \in ReleaseIds : InProgress(x) /\ release[x].service = s => x = r
    BY <2>2 DEF IInv, OneInProgress
  <2>4. QED
    BY <2>1, <2>3
<1>13. TypeOK'
  <2>1. published' \in [Services -> Snapshot] /\ unpublished' \subseteq Agents
    <3>1. /\ TypeOK /\ AgentOf[s] \in Agents /\ PublishAgent(AgentOf[s], d)
          /\ spec' \in [Services -> SpecRow]
          /\ release' \in [ReleaseIds -> ReleaseRow]
          /\ instance' \in [Services -> [Slots -> Instance]]
      BY <1>1, <1>2, <1>7, <1>8, <1>9 DEF IInv
    <3> HIDE DEF s
    <3>2. QED
      BY <3>1, PublishType
  <2>2. QED
    BY <1>1, <1>7, <1>8, <1>9, <2>1 DEF IInv, TypeOK, SpecRow
<1>14. OneInProgress'
  BY <1>10, <1>12 DEF IInv, OneInProgress
<1>15. SlotsFollowLive'
  BY <1>8, <1>10, <1>12, Rows DEF IInv, SlotsFollowLive
<1>16. OnlySwitchedAreFull'
  <2>1. target # 0
    BY <1>2, SlotFacts
  <2>2. QED
    BY <1>1, <1>8, <1>10, <1>11, <2>1, Rows DEF IInv, OnlySwitchedAreFull
<1>17. CandidateIsOwnInstance'
  BY <1>8, <1>9, <1>10, <1>11, <1>12, Rows DEF IInv, CandidateIsOwnInstance, InProgress
<1>18. WaitsForLiveTask'
  BY <1>1, <1>10, <1>11, Rows DEF IInv, WaitsForLiveTask
<1>19. RowsBelong'
  <2>1. \A t \in TaskIds :
           /\ task'[t].sent => task'[t].status # "absent"
           /\ TaskIsActive(task'[t].status) =>
                 task'[t].slot = release'[task'[t].release].targetSlot
    BY <1>1, <1>10, Rows DEF IInv, RowsBelong
  <2>2. ASSUME NEW q \in Services, NEW y \in Slots, instance'[q][y].release # 0
        PROVE  LET x == instance'[q][y].release IN
               release'[x].status # "absent" /\ release'[x].service = q
    <3> DEFINE x == instance[q][y].release
    <3>1. instance'[q][y].release = x /\ x \in ReleaseIds
      BY <1>9, <2>2, Rows DEF IInv
    <3>2. release[x].status # "absent" /\ release[x].service = q
      BY <2>2, <3>1 DEF IInv, RowsBelong
    <3> HIDE DEF x
    <3>3. QED
      BY <1>10, <1>11, <3>1, <3>2
  <2>3. QED
    BY <2>1, <2>2 DEF RowsBelong
<1>20. LiveIsConfirmed'
  <2>1. \A z \in ReleaseIds : release[z].status = "completed" =>
           /\ release'[z].service = release[z].service
           /\ release'[z].status = release[z].status
           /\ release'[z].trafficPercent = release[z].trafficPercent
           /\ release'[z].switchConfirmed = release[z].switchConfirmed
    BY <1>1, <1>10
  <2>2. ASSUME NEW q \in Services \ {s} PROVE LiveKeptOf(q)
    <3>1. q \in Services /\ q # s
      OBVIOUS
    <3>2. spec'[q] = spec[q]
      BY <1>8
    <3>3. instance'[q] = instance[q]
      <4>1. target \in Slots
        BY <1>2
      <4>2. QED
        BY <1>9, <3>1, <4>1
    <3>4. QED
      BY <3>2, <3>3 DEF LiveKeptOf
  <2>3. LET L == spec'[s].currentLiveSlot
            x == instance'[s][L].release
        IN  /\ L # 0 => /\ x # 0
                       /\ release'[x].service = s
                       /\ release'[x].status = "completed"
                       /\ release'[x].trafficPercent = 100
                       /\ release'[x].switchConfirmed
            /\ \A y \in Slots : instance'[s][y].accepting <=> y = L
    <3>0. /\ \A y \in Slots : instance[s][y].accepting <=> y = prev
          /\ prev # 0 => instance[s][prev].release # 0
      <4>1. s \in Services /\ prev = spec[s].currentLiveSlot
        BY <1>2
      <4> HIDE DEF s, prev
      <4>2. QED
        BY <4>1, LiveFacts
    <3>1. instance'[s][target].release = r /\ r # 0
      BY <1>2, <1>9, IdFacts
    <3>2. /\ release'[r].service = s
          /\ release'[r].status = "completed"
          /\ release'[r].trafficPercent = 100
          /\ release'[r].switchConfirmed
      BY <1>4, <1>7
    <3>3. ASSUME NEW y \in Slots PROVE instance'[s][y].accepting <=> y = target
      <4>1. instance[s][y].accepting <=> y = prev
        BY <3>0
      <4>2. prev # 0 => instance[s][prev].release # 0
        BY <3>0
      <4>3. CASE instance[s][y].release # 0 /\ y \in {target, prev}
        BY <1>9, <4>3
      <4>4. CASE ~(instance[s][y].release # 0 /\ y \in {target, prev})
        <5>1. y # target
          BY <1>2, <4>4, IdFacts
        <5>2. y # prev
          BY <4>2, <4>4, SlotFacts
        <5>3. instance'[s][y] = instance[s][y]
          BY <1>9, <4>4
        <5>4. QED
          BY <4>1, <5>1, <5>2, <5>3
      <4>5. QED
        BY <4>3, <4>4
    <3>4. spec'[s].currentLiveSlot = target
      BY <1>8
    <3> HIDE DEF s, target
    <3>5. QED
      BY <3>1, <3>2, <3>3, <3>4
  <2> HIDE DEF s
  <2>4. ASSUME NEW q \in Services \ {s}
        PROVE  LET L == spec'[q].currentLiveSlot
                   x == instance'[q][L].release
               IN  /\ L # 0 => /\ x # 0
                              /\ release'[x].service = q
                              /\ release'[x].status = "completed"
                              /\ release'[x].trafficPercent = 100
                              /\ release'[x].switchConfirmed
                   /\ \A y \in Slots : instance'[q][y].accepting <=> y = L
    <3>1. LiveKeptOf(q)
      BY <2>2
    <3>2. QED
      BY <2>1, <3>1, LiveStaysOf
  <2>5. ASSUME NEW q \in Services
        PROVE  LET L == spec'[q].currentLiveSlot
                   x == instance'[q][L].release
               IN  /\ L # 0 => /\ x # 0
                              /\ release'[x].service = q
                              /\ release'[x].status = "completed"
                              /\ release'[x].trafficPercent = 100
                              /\ release'[x].switchConfirmed
                   /\ \A y \in Slots : instance'[q][y].accepting <=> y = L
    <3>1. CASE q = s
      BY <2>3, <3>1
    <3>2. CASE q # s
      BY <2>4, <3>2
    <3>3. QED
      BY <3>1, <3>2
  <2>6. QED
    BY <2>5, LiveNext
<1>21. QED
  BY <1>13, <1>14, <1>15, <1>16, <1>17, <1>18, <1>19, <1>20 DEF IInv

\* A queued release is in nobody's way.
LEMMA CreateStep ==
    ASSUME IInv, NEW s \in Services, NEW i \in Images, CreateFromCI(s, i)
    PROVE  IInv'
<1> DEFINE n == [service |-> s, image |-> i, status |-> "queued", trafficPercent |-> 0,
                 targetSlot |-> nextSlot(spec[s].currentLiveSlot),
                 previousLiveSlot |-> spec[s].currentLiveSlot,
                 currentTaskID |-> 0, switchConfirmed |-> FALSE]
<1>1. PICK r \in ReleaseIds :
         /\ Fresh(release, r)
         /\ release' = [release EXCEPT ![r] = n]
         /\ UNCHANGED <<spec, task, instance, online, session, replayed,
                        published, unpublished>>
  BY DEF CreateFromCI
<1>2. release[r].status = "absent"
  BY <1>1 DEF Fresh
<1>3. n \in ReleaseRow
  <2>1. /\ spec[s].currentLiveSlot \in Slots \cup {0}
        /\ nextSlot(spec[s].currentLiveSlot) \in Slots
        /\ 0 \in 0..100 /\ 0 \in TaskIds \cup {0} /\ "queued" \in ReleaseStatus
    BY Rows, SlotFacts DEF IInv, ReleaseStatus
  <2>2. QED
    BY <2>1 DEF ReleaseRow
<1>4. /\ n.status = "queued" /\ n.service = s /\ n.trafficPercent = 0
      /\ n.previousLiveSlot = spec[s].currentLiveSlot /\ n.currentTaskID = 0
  OBVIOUS
<1> HIDE DEF n
<1>5. /\ release' \in [ReleaseIds -> ReleaseRow] /\ release'[r] = n
      /\ \A x \in ReleaseIds \ {r} : release'[x] = release[x]
  BY <1>1, <1>3 DEF IInv, TypeOK
<1>6. TypeOK'
  BY <1>1, <1>5 DEF IInv, TypeOK
<1>7. OneInProgress' /\ SlotsFollowLive' /\ CandidateIsOwnInstance'
  <2>1. \A x \in ReleaseIds : InProgress(x)' => x # r /\ InProgress(x)
    BY <1>4, <1>5 DEF InProgress
  <2>2. \A x \in ReleaseIds : release'[x].status = "readyToSwitch" => x # r
    BY <1>4, <1>5
  <2>3. QED
    BY <1>1, <1>5, <2>1, <2>2 DEF IInv, OneInProgress, SlotsFollowLive, CandidateIsOwnInstance
<1>8. OnlySwitchedAreFull'
  BY <1>1, <1>4, <1>5 DEF IInv, OnlySwitchedAreFull
<1>9. \A t \in TaskIds : TaskIsActive(task[t].status) => task[t].release # r
  BY <1>2 DEF IInv, WaitsForLiveTask
<1>10. WaitsForLiveTask'
  BY <1>1, <1>4, <1>5, <1>9, Rows DEF IInv, WaitsForLiveTask
<1>11. \A q \in Services, slot \in Slots : instance[q][slot].release # r
  BY <1>2, IdFacts DEF IInv, RowsBelong
<1>12. RowsBelong'
  BY <1>1, <1>5, <1>9, <1>11, Rows DEF IInv, RowsBelong
<1>13. LiveIsConfirmed'
  <2>1. \A q \in Services : LiveKeptOf(q)
    BY <1>1, Zenon DEF LiveKeptOf
  <2>2. \A z \in ReleaseIds : release[z].status = "completed" => release'[z] = release[z]
    BY <1>2, <1>5
  <2>3. QED
    BY <2>1, <2>2, LiveStays
<1>14. QED
  BY <1>6, <1>7, <1>8, <1>10, <1>12, <1>13 DEF IInv

\* Switching a service on or off touches nothing but its configuration.
LEMMA EnabledStep ==
    ASSUME IInv, NEW s \in Services, NEW d \in BOOLEAN, SetEnabled(s, d)
    PROVE  IInv'
<1> DEFINE b == ~spec[s].enabled
           n == [spec[s] EXCEPT !.enabled = b]
<1>1. /\ spec' = [spec EXCEPT ![s] = n]
      /\ UNCHANGED <<release, task, instance, online, session, replayed>>
      /\ PublishAgent(AgentOf[s], d)
  BY DEF SetEnabled
<1>2. n \in SpecRow /\ n.currentLiveSlot = spec[s].currentLiveSlot
  <2>1. spec[s] \in SpecRow /\ b \in BOOLEAN
    BY Rows DEF IInv, SpecRow
  <2> HIDE DEF b
  <2>2. n \in SpecRow
    BY <2>1, Zenon DEF SpecRow
  <2>3. QED
    BY <2>1, <2>2 DEF SpecRow
<1> HIDE DEF n
<1>3. /\ spec' \in [Services -> SpecRow]
      /\ \A q \in Services : spec'[q].currentLiveSlot = spec[q].currentLiveSlot
  BY <1>1, <1>2 DEF IInv, TypeOK, SpecRow
<1>4. TypeOK'
  <2>1. published' \in [Services -> Snapshot] /\ unpublished' \subseteq Agents
    BY <1>1, <1>3, PublishType, ReleaseAssumption DEF IInv, TypeOK
  <2>2. QED
    BY <1>1, <1>3, <2>1 DEF IInv, TypeOK, SpecRow
<1>5. OneInProgress' /\ WaitsForLiveTask' /\ RowsBelong'
  BY <1>1 DEF IInv, OneInProgress, InProgress, WaitsForLiveTask, RowsBelong
<1>6. SlotsFollowLive' /\ OnlySwitchedAreFull' /\ CandidateIsOwnInstance'
  BY <1>1, <1>3, Rows DEF IInv, SlotsFollowLive, InProgress, OnlySwitchedAreFull,
                          CandidateIsOwnInstance
<1>7. LiveIsConfirmed'
  <2>1. \A q \in Services : LiveKeptOf(q)
    BY <1>1, <1>3, Zenon DEF LiveKeptOf
  <2>2. \A z \in ReleaseIds : release[z].status = "completed" => release'[z] = release[z]
    BY <1>1
  <2>3. QED
    BY <2>1, <2>2, LiveStays
<1>8. QED
  BY <1>4, <1>5, <1>6, <1>7 DEF IInv

\* Connections and heartbeats replay tasks, they end none.
LEMMA SessionStep ==
    ASSUME IInv, NEW a \in Agents,
           \/ Connect(a) \/ Disconnect(a) \/ MarkOfflineStale(a)
           \/ \E running \in SUBSET SentTasks :
                \/ Heartbeat(a, running)
                \/ \E t \in TaskIds : HeartbeatBreaks(a, running, t)
    PROVE  IInv'
<1>1. CASE Connect(a)
  <2>1. \A s \in Services : buildProxyConfigSnapshot(spec, release, instance, s) \in Snapshot
    BY SnapshotType DEF IInv, TypeOK, SpecRow
  <2>2. TypeOK'
    BY <1>1, <2>1 DEF Connect, IInv, TypeOK
  <2>3. QED
    BY <1>1, <2>2, TablesKept DEF Connect
<1>2. CASE Disconnect(a)
  <2>1. TypeOK'
    BY <1>2 DEF Disconnect, CloseSession, IInv, TypeOK
  <2>2. QED
    BY <1>2, <2>1, TablesKept DEF Disconnect
<1>3. CASE MarkOfflineStale(a)
  <2>1. TypeOK'
    BY <1>3 DEF MarkOfflineStale, IInv, TypeOK
  <2>2. QED
    BY <1>3, <2>1, TablesKept DEF MarkOfflineStale
<1>4. ASSUME NEW running \in SUBSET SentTasks, Heartbeat(a, running)
      PROVE  IInv'
  <2>1. /\ task' \in [TaskIds -> TaskRow]
        /\ \A t \in TaskIds :
              /\ task'[t].release = task[t].release /\ task'[t].slot = task[t].slot
              /\ task'[t].status = "absent" => task'[t] = task[t]
              /\ TaskIsActive(task'[t].status) <=> TaskIsActive(task[t].status)
    BY <1>4, RecoverType DEF Heartbeat, IInv
  <2>2. Unreported(a, running) \subseteq TaskIds
    BY DEF Unreported, ListRecoverableTasksByAgent
  <2>3. TypeOK'
    BY <1>4, <2>1, <2>2 DEF Heartbeat, IInv, TypeOK
  <2>4. QED
    BY <1>4, <2>1, <2>3, TasksAdvance DEF Heartbeat
<1>5. ASSUME NEW running \in SUBSET SentTasks, NEW u \in TaskIds,
             HeartbeatBreaks(a, running, u)
      PROVE  IInv'
  <2>1. /\ task' \in [TaskIds -> TaskRow]
        /\ \A t \in TaskIds :
              /\ task'[t].release = task[t].release /\ task'[t].slot = task[t].slot
              /\ task'[t].status = "absent" => task'[t] = task[t]
              /\ TaskIsActive(task'[t].status) <=> TaskIsActive(task[t].status)
    BY <1>5, RecoverType DEF HeartbeatBreaks, IInv
  <2>2. TypeOK'
    BY <1>5, <2>1 DEF HeartbeatBreaks, CloseSession, IInv, TypeOK
  <2>3. QED
    BY <1>5, <2>1, <2>2, TasksAdvance DEF HeartbeatBreaks
<1>6. QED
  BY <1>1, <1>2, <1>3, <1>4, <1>5

\* Whatever is in progress when a deployment may begin is a candidate without
\* traffic on the slot the deployment takes: it is superseded.
LEMMA AllSuperseded ==
    ASSUME IInv, NEW r \in ReleaseIds, ~HasActiveRelease(release[r].service),
           release[r].status \in {"queued", "skipped", "failed"},
           NEW x \in ReleaseIds, InProgress(x), release[x].service = release[r].service
    PROVE  x \in completeSupersededRelease(
                    r, nextSlot(spec[release[r].service].currentLiveSlot))
<1>1. InService(x, release[r].service)
  BY DEF InService, InProgress
<1>2. release[x].status = "readyToSwitch" /\ release[x].trafficPercent \notin 1..99
  BY <1>1 DEF HasActiveRelease, InProgress
<1>3. release[x].trafficPercent = 0
  BY <1>2, Rows DEF IInv, OnlySwitchedAreFull
<1>4. release[x].targetSlot = nextSlot(spec[release[r].service].currentLiveSlot)
  BY DEF IInv, SlotsFollowLive
<1>5. QED
  BY <1>1, <1>2, <1>3, <1>4 DEF completeSupersededRelease

\* A deployment begins: the superseded candidate is completed, the older queued
\* releases may be skipped, and r waits for its new task or has already failed.
LEMMA DeployStep ==
    ASSUME IInv, NEW r \in ReleaseIds, NEW t \in TaskIds,
           NEW outcome \in {"dispatched", "pending", "failed"},
           NEW skip \in SUBSET ListQueuedBefore(r),
           release[r].status \in {"queued", "skipped", "failed"},
           ~HasActiveRelease(release[r].service), BeginDeploy(r, t, outcome, skip)
    PROVE  IInv'
<1> DEFINE s == release[r].service
           live == spec[s].currentLiveSlot
           slot == nextSlot(live)
           row == deployRow(r, t)
           u == Updates(release[r], row)
           st == IF outcome = "failed" THEN "failed" ELSE "dispatching"
           m == [u EXCEPT !.status = st]
           S == completeSupersededRelease(r, slot)
           K == IF outcome = "failed" THEN {} ELSE skip \ (S \cup {r})
           n == [release |-> r, status |-> outcome, slot |-> slot,
                 sent |-> outcome = "dispatched"]
           c(x) == [release[x] EXCEPT !.status = "completed"]
           k(x) == [release[x] EXCEPT !.status = "skipped"]
<1>1. /\ s \in Services /\ release[r] \in ReleaseRow
      /\ live \in Slots \cup {0} /\ slot \in Slots
  BY Rows, SlotFacts DEF IInv
<1>2. /\ row \in ReleaseRow /\ row.previousLiveSlot = live /\ row.targetSlot = slot
      /\ row.trafficPercent = 0 /\ row.currentTaskID = t /\ row.service = s
  <2>1. row = [release[r] EXCEPT !.previousLiveSlot = live, !.targetSlot = slot,
                                !.trafficPercent = 0, !.switchConfirmed = FALSE,
                                !.currentTaskID = t]
    BY DEF deployRow
  <2> DEFINE old == release[r]
             w == [old EXCEPT !.previousLiveSlot = live, !.targetSlot = slot,
                              !.trafficPercent = 0, !.switchConfirmed = FALSE,
                              !.currentTaskID = t]
  <2>2. old.service = s /\ row = w
    BY <2>1
  <2> HIDE DEF row, slot, live, old, s
  <2>3. old \in ReleaseRow /\ live \in Slots \cup {0} /\ slot \in Slots
    BY <1>1 DEF old
  <2>4. /\ w \in ReleaseRow /\ w.previousLiveSlot = live /\ w.targetSlot = slot
        /\ w.trafficPercent = 0 /\ w.currentTaskID = t /\ w.service = old.service
    <3>1. 0 \in 0..100 /\ FALSE \in BOOLEAN
      OBVIOUS
    <3>2. w \in ReleaseRow
      BY <2>3, <3>1, Zenon DEF ReleaseRow
    <3>3. QED
      BY <2>3, <3>2 DEF ReleaseRow
  <2> HIDE DEF w
  <2>5. QED
    BY <2>2, <2>4
<1>3. /\ Fresh(task, t)
      /\ release' = [x \in ReleaseIds |->
            IF x = r THEN m
            ELSE IF x \in S THEN c(x)
            ELSE IF x \in K THEN k(x) ELSE release[x]]
      /\ task' = [task EXCEPT ![t] = n]
      /\ UNCHANGED <<spec, instance, online, session, replayed, published, unpublished>>
  <2>1. /\ Fresh(task, t)
        /\ release' = [x \in ReleaseIds |->
              IF x = r
              THEN [Updates(release[r], row) EXCEPT
                       !.status = IF outcome = "failed" THEN "failed" ELSE "dispatching"]
              ELSE IF x \in completeSupersededRelease(r, row.targetSlot)
              THEN [release[x] EXCEPT !.status = "completed"]
              ELSE IF outcome # "failed" /\ x \in skip
              THEN [release[x] EXCEPT !.status = "skipped"]
              ELSE release[x]]
        /\ task' = [task EXCEPT ![t] =
              [release |-> r, status |-> outcome, slot |-> row.targetSlot,
               sent |-> outcome = "dispatched"]]
        /\ UNCHANGED <<spec, instance, online, session, replayed,
                       published, unpublished>>
    BY DEF BeginDeploy
  <2>2. row.targetSlot = slot
    BY <1>2
  <2> HIDE DEF row, slot
  <2>3. QED
    BY <2>1, <2>2
<1>4. /\ u \in ReleaseRow /\ u.service = s /\ u.targetSlot = slot
      /\ u.previousLiveSlot = IF live = 0 THEN release[r].previousLiveSlot ELSE live
      /\ u.currentTaskID = t
      /\ u.trafficPercent = release[r].trafficPercent
  <2>1. t # 0
    BY IdFacts
  <2> HIDE DEF row, slot, live, s
  <2>2. QED
    BY <1>1, <1>2, <2>1, UpdatesRow
<1>5. st \in ReleaseStatus /\ st \in {"failed", "dispatching"}
  BY DEF ReleaseStatus
<1> HIDE DEF u, row
<1>6. /\ m \in ReleaseRow /\ m.status = st /\ m.service = s /\ m.targetSlot = slot
      /\ m.previousLiveSlot = u.previousLiveSlot
      /\ m.currentTaskID = t /\ m.trafficPercent = release[r].trafficPercent
  <2> HIDE DEF st, slot, s
  <2>1. QED
    BY <1>4, <1>5, StatusRow
<1>7. m.previousLiveSlot = live
  <2>1. live = 0 => release[r].previousLiveSlot = 0
    BY DEF IInv, OnlySwitchedAreFull
  <2>2. QED
    BY <1>4, <1>6, <2>1
<1>8. /\ S \subseteq ReleaseIds \ {r} /\ K \subseteq ReleaseIds \ {r} /\ S \cap K = {}
      /\ \A x \in S : release[x].status = "readyToSwitch"
      /\ \A x \in K : release[x].status = "queued"
  BY DEF completeSupersededRelease, ListQueuedBefore
<1>9. \A x \in ReleaseIds : InProgress(x) /\ release[x].service = s => x \in S
  BY AllSuperseded
<1>10. /\ task' \in [TaskIds -> TaskRow] /\ task'[t] = n
       /\ \A v \in TaskIds \ {t} : task'[v] = task[v]
       /\ task[t].status = "absent"
  <2>1. (outcome = "dispatched") \in BOOLEAN
    OBVIOUS
  <2>2. n \in TaskRow
    BY <1>1, <2>1 DEF TaskRow, TaskStatus
  <2> HIDE DEF n
  <2>3. QED
    BY <1>3, <2>2 DEF IInv, TypeOK, Fresh
<1> HIDE DEF m, S, K
<1>11. \A x \in S : /\ c(x) \in ReleaseRow /\ c(x).status = "completed"
                    /\ c(x).service = release[x].service
                    /\ c(x).targetSlot = release[x].targetSlot
                    /\ c(x).previousLiveSlot = release[x].previousLiveSlot
                    /\ c(x).currentTaskID = release[x].currentTaskID
                    /\ c(x).trafficPercent = release[x].trafficPercent
  <2>1. SUFFICES ASSUME NEW x \in S
                 PROVE  /\ c(x) \in ReleaseRow /\ c(x).status = "completed"
                        /\ c(x).service = release[x].service
                        /\ c(x).targetSlot = release[x].targetSlot
                        /\ c(x).previousLiveSlot = release[x].previousLiveSlot
                        /\ c(x).currentTaskID = release[x].currentTaskID
                        /\ c(x).trafficPercent = release[x].trafficPercent
    OBVIOUS
  <2>2. release[x] \in ReleaseRow /\ "completed" \in ReleaseStatus
    BY <1>8, Rows DEF IInv, ReleaseStatus
  <2>3. QED
    BY <2>2, StatusRow
<1>12. \A x \in K : /\ k(x) \in ReleaseRow /\ k(x).status = "skipped"
                    /\ k(x).service = release[x].service
                    /\ k(x).targetSlot = release[x].targetSlot
                    /\ k(x).previousLiveSlot = release[x].previousLiveSlot
                    /\ k(x).currentTaskID = release[x].currentTaskID
                    /\ k(x).trafficPercent = release[x].trafficPercent
  <2>1. SUFFICES ASSUME NEW x \in K
                 PROVE  /\ k(x) \in ReleaseRow /\ k(x).status = "skipped"
                        /\ k(x).service = release[x].service
                        /\ k(x).targetSlot = release[x].targetSlot
                        /\ k(x).previousLiveSlot = release[x].previousLiveSlot
                        /\ k(x).currentTaskID = release[x].currentTaskID
                        /\ k(x).trafficPercent = release[x].trafficPercent
    OBVIOUS
  <2>2. release[x] \in ReleaseRow /\ "skipped" \in ReleaseStatus
    BY <1>8, Rows DEF IInv, ReleaseStatus
  <2>3. QED
    BY <2>2, StatusRow
<1> HIDE DEF c, k
<1>13. /\ release' \in [ReleaseIds -> ReleaseRow] /\ release'[r] = m
       /\ \A x \in S : release'[x] = c(x)
       /\ \A x \in K : release'[x] = k(x)
       /\ \A x \in ReleaseIds \ (S \cup K \cup {r}) : release'[x] = release[x]
  BY <1>3, <1>6, <1>8, <1>11, <1>12, Rows DEF IInv
<1>14. \A x \in ReleaseIds \ {r} :
          /\ release'[x].service = release[x].service
          /\ release'[x].targetSlot = release[x].targetSlot
          /\ release'[x].previousLiveSlot = release[x].previousLiveSlot
          /\ release'[x].currentTaskID = release[x].currentTaskID
          /\ release'[x].trafficPercent = release[x].trafficPercent
          /\ x \in S => release'[x].status = "completed"
          /\ x \in K => release'[x].status = "skipped"
          /\ x \notin S \cup K => release'[x] = release[x]
  BY <1>8, <1>11, <1>12, <1>13
<1>15. TypeOK'
  BY <1>3, <1>10, <1>13 DEF IInv, TypeOK
<1>16. \A x \in ReleaseIds \ {r} : InProgress(x)' =>
          InProgress(x) /\ release'[x] = release[x] /\ release[x].service # s
  BY <1>8, <1>9, <1>14 DEF InProgress
<1>17. OneInProgress'
  BY <1>6, <1>13, <1>16 DEF IInv, OneInProgress
<1>18. SlotsFollowLive'
  BY <1>3, <1>6, <1>7, <1>13, <1>16 DEF IInv, SlotsFollowLive
<1>19. OnlySwitchedAreFull'
  <2>1. ASSUME NEW x \in ReleaseIds \ {r}
        PROVE  /\ release'[x].trafficPercent = 100 => release'[x].status = "completed"
               /\ release'[x].trafficPercent # 0 =>
                     release'[x].status \in {"readyToSwitch", "completed", "rolledBack"}
               /\ release'[x].status \in {"absent", "queued", "skipped"} =>
                     release'[x].currentTaskID = 0
               /\ release'[x].status # "absent" /\ release'[x].previousLiveSlot # 0 =>
                     spec'[release'[x].service].currentLiveSlot # 0
    <3>1. \A y \in K : release[y].currentTaskID = 0 /\ release[y].trafficPercent = 0
      BY <1>8 DEF IInv, OnlySwitchedAreFull
    <3>2. QED
      BY <1>3, <1>8, <1>14, <3>1 DEF IInv, OnlySwitchedAreFull
  <2>2. release[r].trafficPercent = 0
    BY DEF IInv, OnlySwitchedAreFull
  <2>3. QED
    BY <1>3, <1>5, <1>6, <1>7, <1>13, <2>1, <2>2 DEF OnlySwitchedAreFull
<1>20. CandidateIsOwnInstance'
  <2>1. \A x \in ReleaseIds : release'[x].status = "readyToSwitch" =>
           release'[x] = release[x]
    BY <1>5, <1>6, <1>8, <1>13, <1>14
  <2>2. QED
    BY <1>3, <2>1 DEF IInv, CandidateIsOwnInstance
<1>21. \A x \in ReleaseIds : release[x].status = "completed" => release'[x] = release[x]
  BY <1>8, <1>14
<1>22. LiveIsConfirmed'
  <2>1. \A q \in Services : LiveKeptOf(q)
    BY <1>3, Zenon DEF LiveKeptOf
  <2>2. QED
    BY <1>21, <2>1, LiveStays
<1>23. WaitsForLiveTask'
  <2>1. ASSUME NEW x \in ReleaseIds, release'[x].status \in {"dispatching", "deploying"}
        PROVE  \E v \in TaskIds : /\ release'[x].currentTaskID = v
                                  /\ task'[v].release = x
                                  /\ TaskIsActive(task'[v].status)
    <3>1. CASE x = r
      <4>1. outcome # "failed"
        BY <1>6, <1>13, <2>1, <3>1
      <4>2. QED
        BY <1>6, <1>10, <1>13, <3>1, <4>1 DEF TaskIsActive
    <3>2. CASE x # r
      <4>1. release'[x] = release[x]
        BY <1>8, <1>14, <2>1, <3>2
      <4>2. PICK v \in TaskIds : /\ release[x].currentTaskID = v
                                 /\ task[v].release = x
                                 /\ TaskIsActive(task[v].status)
        BY <2>1, <4>1 DEF IInv, WaitsForLiveTask
      <4>3. v # t
        BY <1>10, <4>2 DEF TaskIsActive
      <4>4. QED
        BY <1>10, <4>1, <4>2, <4>3
    <3>3. QED
      BY <3>1, <3>2
  <2>2. ASSUME NEW v \in TaskIds, TaskIsActive(task'[v].status)
        PROVE  LET x == task'[v].release IN
               /\ release'[x].currentTaskID = v
               /\ release'[x].status \in {"dispatching", "deploying"}
    <3>1. CASE v = t
      <4>1. task'[v].release = r /\ outcome # "failed"
        BY <1>10, <2>2, <3>1 DEF TaskIsActive
      <4>2. QED
        BY <1>6, <1>13, <3>1, <4>1
    <3>2. CASE v # t
      <4> DEFINE x == task[v].release
      <4>1. task'[v] = task[v] /\ x \in ReleaseIds
        BY <1>10, <3>2, Rows DEF IInv
      <4>2. release[x].currentTaskID = v /\ release[x].status \in {"dispatching", "deploying"}
        BY <2>2, <4>1 DEF IInv, WaitsForLiveTask
      <4>3. release'[x] = release[x]
        BY <1>8, <1>14, <4>1, <4>2
      <4>4. QED
        BY <4>1, <4>2, <4>3
    <3>3. QED
      BY <3>1, <3>2
  <2>3. QED
    BY <2>1, <2>2 DEF WaitsForLiveTask
<1>24. RowsBelong'
  <2>1. ASSUME NEW v \in TaskIds
        PROVE  /\ task'[v].sent => task'[v].status # "absent"
               /\ TaskIsActive(task'[v].status) =>
                     task'[v].slot = release'[task'[v].release].targetSlot
    <3>1. CASE v = t
      BY <1>6, <1>10, <1>13, <3>1
    <3>2. CASE v # t
      <4>1. task'[v] = task[v] /\ task[v].release \in ReleaseIds
        BY <1>10, <3>2, Rows DEF IInv
      <4>2. TaskIsActive(task[v].status) => task[v].release # r
        BY DEF IInv, WaitsForLiveTask
      <4>3. QED
        BY <1>14, <4>1, <4>2 DEF IInv, RowsBelong
    <3>3. QED
      BY <3>1, <3>2
  <2>2. ASSUME NEW q \in Services, NEW y \in Slots, instance'[q][y].release # 0
        PROVE  LET x == instance'[q][y].release IN
               release'[x].status # "absent" /\ release'[x].service = q
    <3> DEFINE x == instance[q][y].release
    <3>1. instance' = instance /\ x \in ReleaseIds
      BY <1>3, <2>2, Rows DEF IInv
    <3>2. release[x].status # "absent" /\ release[x].service = q
      BY <2>2, <3>1 DEF IInv, RowsBelong
    <3> HIDE DEF x
    <3>3. release'[x].status # "absent" /\ release'[x].service = q
      BY <1>5, <1>6, <1>13, <1>14, <3>1, <3>2
    <3>4. QED
      BY <3>1, <3>3 DEF x
  <2>3. QED
    BY <2>1, <2>2 DEF RowsBelong
<1>25. QED
  BY <1>15, <1>17, <1>18, <1>19, <1>20, <1>22, <1>23, <1>24 DEF IInv

----------------------------------------------------------------------------
(* The theorems.                                                           *)

\* A fresh database, with no release and no slot in use, satisfies the invariant.
LEMMA InitInv == Init => IInv
<1> SUFFICES ASSUME Init PROVE IInv
  OBVIOUS
<1>1. /\ release = [r \in ReleaseIds |-> NoRelease]
      /\ task = [t \in TaskIds |-> NoTask]
      /\ instance = [s \in Services |-> [slot \in Slots |-> NoInstance]]
      /\ spec = [s \in Services |-> [enabled |-> TRUE, currentLiveSlot |-> 0]]
  BY DEF Init
<1>2. /\ NoRelease.status = "absent" /\ NoRelease.trafficPercent = 0
      /\ NoRelease.currentTaskID = 0 /\ NoRelease.previousLiveSlot = 0
      /\ NoTask.status = "absent" /\ ~NoTask.sent
      /\ NoInstance.release = 0 /\ ~NoInstance.accepting
  BY DEF NoRelease, NoTask, NoInstance
<1>3. TypeOK
  <2>1. [enabled |-> TRUE, currentLiveSlot |-> 0] \in SpecRow
    BY DEF SpecRow
  <2>2. QED
    BY <1>1, <2>1, DefaultRows DEF Init, TypeOK, SpecRow
<1>4. OneInProgress /\ SlotsFollowLive /\ OnlySwitchedAreFull /\ CandidateIsOwnInstance
  BY <1>1, <1>2 DEF OneInProgress, SlotsFollowLive, InProgress, OnlySwitchedAreFull,
                    CandidateIsOwnInstance
<1>5. WaitsForLiveTask /\ RowsBelong
  BY <1>1, <1>2 DEF WaitsForLiveTask, RowsBelong, TaskIsActive
<1>6. LiveIsConfirmed
  BY <1>1, <1>2, SlotFacts DEF LiveIsConfirmed
<1>7. QED
  BY <1>3, <1>4, <1>5, <1>6 DEF IInv

\* Every handler of service.go and every report, timeout or reconnection keeps it.
LEMMA NextInv == IInv /\ [Next]_vars => IInv'
<1> SUFFICES ASSUME IInv, [Next]_vars PROVE IInv'
  OBVIOUS
<1>1. CASE UNCHANGED vars
  <2>1. TypeOK'
    BY <1>1 DEF vars, IInv, TypeOK
  <2>2. QED
    BY <1>1, <2>1, TablesKept DEF vars
<1>2. ASSUME NEW s \in Services, NEW i \in Images, CreateFromCI(s, i) PROVE IInv'
  BY <1>2, CreateStep
<1>3. ASSUME NEW s \in Services, NEW d \in BOOLEAN, SetEnabled(s, d) PROVE IInv'
  BY <1>3, EnabledStep
<1>4. ASSUME NEW r \in ReleaseIds, Start(r) PROVE IInv'
  <2>1. PICK t \in TaskIds, outcome \in dispatch(AgentOf[release[r].service]) :
           BeginDeploy(r, t, outcome, ListQueuedBefore(r))
    BY <1>4 DEF Start
  <2>2. outcome \in {"dispatched", "pending", "failed"}
    BY DEF dispatch
  <2>3. /\ release[r].status \in {"queued", "skipped", "failed"}
        /\ ~HasActiveRelease(release[r].service)
    BY <1>4 DEF Start, MayStart, MayDeploy
  <2>4. QED
    BY <2>1, <2>2, <2>3, DeployStep
<1>5. ASSUME NEW r \in ReleaseIds, Retry(r) PROVE IInv'
  <2>1. PICK t \in TaskIds, outcome \in dispatch(AgentOf[release[r].service]) :
           BeginDeploy(r, t, outcome, {})
    BY <1>5 DEF Retry
  <2>2. outcome \in {"dispatched", "pending", "failed"} /\ {} \subseteq ListQueuedBefore(r)
    BY DEF dispatch
  <2>3. /\ release[r].status \in {"queued", "skipped", "failed"}
        /\ ~HasActiveRelease(release[r].service)
    BY <1>5 DEF Retry, MayRetry, MayDeploy
  <2>4. QED
    BY <2>1, <2>2, <2>3, DeployStep
<1>6. ASSUME NEW r \in ReleaseIds,
             \/ StartOrRetryRefused(r) \/ Skip(r)
             \/ \E d \in BOOLEAN :
                  \/ Rollback(r, d)
                  \/ ConfirmSwitch(r, d)
                  \/ \E p \in Percents \cup {0} : SetTrafficPercent(r, p, d)
      PROVE  IInv'
  BY <1>6, RefusedStep, SkipStep, RollbackStep, ConfirmStep, TrafficStep
<1>7. ASSUME NEW t \in TaskIds,
             TaskRunning(t) \/ TaskFailed(t) \/ \E d \in BOOLEAN : TaskSucceeded(t, d)
      PROVE  IInv'
  BY <1>7, TaskRunningStep, TaskFailedStep, TaskSucceededStep
<1>8. ASSUME NEW T \in SUBSET TaskIds, FailStaleTasks(T) PROVE IInv'
  BY <1>8, FailStaleStep
<1>9. ASSUME NEW a \in Agents,
             \/ Connect(a) \/ Disconnect(a) \/ MarkOfflineStale(a)
             \/ \E running \in SUBSET SentTasks :
                  \/ Heartbeat(a, running)
                  \/ \E t \in TaskIds : HeartbeatBreaks(a, running, t)
      PROVE  IInv'
  BY <1>9, SessionStep
<1>10. CASE Request
  BY <1>2, <1>3, <1>4, <1>5, <1>6, <1>10 DEF Request
<1>11. CASE Environment
  BY <1>7, <1>8, <1>9, <1>11 DEF Environment
<1>12. QED
  BY <1>1, <1>10, <1>11 DEF Next

\* The inductive invariant holds in every state of every behaviour.
THEOREM Inductive == Spec => []IInv
<1>1. QED
  BY InitInv, NextInv, PTL DEF Spec

\* Every table keeps rows of its type whatever agents report and in whatever
\* order the handlers run (service.go, repository.go).
THEOREM TypeCorrect == Spec => []TypeOK
<1>1. IInv => TypeOK
  BY DEF IInv
<1>2. QED
  BY <1>1, Inductive, PTL

\* HasActiveRelease together with completeSupersededRelease lets at most one
\* release of a service be in progress.
THEOREM AtMostOneInProgress == Spec => []OneInProgress
<1>1. IInv => OneInProgress
  BY DEF IInv
<1>2. QED
  BY <1>1, Inductive, PTL

\* ConfirmSwitch, Rollback and SetTrafficPercent always find the candidate's own
\* instance on the slot they direct traffic to.
THEOREM CandidateOwnsItsInstance == Spec => []CandidateIsOwnInstance
<1>1. IInv => CandidateIsOwnInstance
  BY DEF IInv
<1>2. QED
  BY <1>1, Inductive, PTL

\* The live slot always runs a release that an operator confirmed.
THEOREM LiveWasConfirmed == Spec => []LiveIsConfirmed
<1>1. IInv => LiveIsConfirmed
  BY DEF IInv
<1>2. QED
  BY <1>1, Inductive, PTL

\* A release that is being deployed has a current task that can still end.
THEOREM NobodyWaitsInVain == Spec => []WaitsForLiveTask
<1>1. IInv => WaitsForLiveTask
  BY DEF IInv
<1>2. QED
  BY <1>1, Inductive, PTL

----------------------------------------------------------------------------
(* Ended rows.                                                             *)

\* The releases whose status an ended one may leave by a request of an operator.
Reopened(r) ==
    release[r].status \in {"failed", "skipped"} /\ (Start(r) \/ Retry(r))

TasksStayEnded ==
    \A t \in TaskIds : TaskIsTerminal(task[t].status) => task'[t] = task[t]
ReleasesStayEnded ==
    \A r \in ReleaseIds :
        IsTerminal(release[r].status) => release'[r].status = release[r].status \/ Reopened(r)

\* A deployment writes a new task row, and status of releases that have not ended,
\* other than that of the release it is for.
LEMMA DeployKeepsEnded ==
    ASSUME TypeOK, NEW r \in ReleaseIds, NEW t \in TaskIds, NEW outcome,
           NEW skip \in SUBSET ListQueuedBefore(r), BeginDeploy(r, t, outcome, skip)
    PROVE  /\ TasksStayEnded
           /\ \A x \in ReleaseIds : IsTerminal(release[x].status) =>
                 x = r \/ release'[x] = release[x]
<1>1. TasksStayEnded
  <2>1. task[t].status = "absent"
    BY DEF BeginDeploy, Fresh
  <2>2. \A u \in TaskIds : u # t => task'[u] = task[u]
    BY DEF BeginDeploy, TypeOK
  <2>3. QED
    BY <2>1, <2>2 DEF TasksStayEnded, TaskIsTerminal
<1>2. ASSUME NEW x \in ReleaseIds, IsTerminal(release[x].status), x # r
      PROVE  release'[x] = release[x]
  <2>1. x \notin completeSupersededRelease(r, deployRow(r, t).targetSlot)
    BY <1>2 DEF completeSupersededRelease, IsTerminal
  <2>2. x \notin skip
    BY <1>2 DEF ListQueuedBefore, IsTerminal
  <2>3. QED
    BY <1>2, <2>1, <2>2 DEF BeginDeploy
<1>3. QED
  BY <1>1, <1>2

\* Requests of operators.
LEMMA RequestKeepsEnded ==
    ASSUME IInv, Request
    PROVE  TasksStayEnded /\ ReleasesStayEnded
<1> USE DEF TasksStayEnded, ReleasesStayEnded
<1>0. TypeOK
  BY DEF IInv
<1>1. ASSUME NEW s \in Services, NEW i \in Images, CreateFromCI(s, i)
      PROVE  TasksStayEnded /\ ReleasesStayEnded
  <2>1. PICK r \in ReleaseIds :
           /\ Fresh(release, r)
           /\ \A x \in ReleaseIds : x # r => release'[x] = release[x]
    BY <1>0, <1>1 DEF CreateFromCI, TypeOK
  <2>2. release[r].status = "absent"
    BY <2>1 DEF Fresh
  <2>3. QED
    BY <1>1, <2>1, <2>2 DEF CreateFromCI, IsTerminal
<1>2. ASSUME NEW s \in Services, NEW d \in BOOLEAN, SetEnabled(s, d)
      PROVE  TasksStayEnded /\ ReleasesStayEnded
  BY <1>2 DEF SetEnabled
<1>3. ASSUME NEW r \in ReleaseIds, Start(r)
      PROVE  TasksStayEnded /\ ReleasesStayEnded
  <2>1. PICK t \in TaskIds, outcome \in dispatch(AgentOf[release[r].service]) :
           BeginDeploy(r, t, outcome, ListQueuedBefore(r))
    BY <1>3 DEF Start
  <2>2. /\ TasksStayEnded
        /\ \A x \in ReleaseIds : IsTerminal(release[x].status) =>
              x = r \/ release'[x] = release[x]
    BY <1>0, <2>1, DeployKeepsEnded
  <2>3. IsTerminal(release[r].status) => Reopened(r)
    BY <1>3 DEF Reopened, Start, MayStart, IsTerminal
  <2>4. QED
    BY <2>2, <2>3
<1>4. ASSUME NEW r \in ReleaseIds, Retry(r)
      PROVE  TasksStayEnded /\ ReleasesStayEnded
  <2>1. PICK t \in TaskIds, outcome \in dispatch(AgentOf[release[r].service]) :
           BeginDeploy(r, t, outcome, {})
    BY <1>4 DEF Retry
  <2>2. /\ TasksStayEnded
        /\ \A x \in ReleaseIds : IsTerminal(release[x].status) =>
              x = r \/ release'[x] = release[x]
    BY <1>0, <2>1, DeployKeepsEnded
  <2>3. IsTerminal(release[r].status) => Reopened(r)
    BY <1>4 DEF Reopened, Retry, MayRetry, IsTerminal
  <2>4. QED
    BY <2>2, <2>3
<1>5. ASSUME NEW r \in ReleaseIds, StartOrRetryRefused(r)
      PROVE  TasksStayEnded /\ ReleasesStayEnded
  <2> DEFINE S == completeSupersededRelease(r, nextSlot(spec[release[r].service].currentLiveSlot))
  <2>1. \A x \in S : ~IsTerminal(release[x].status)
    BY DEF completeSupersededRelease, IsTerminal
  <2>2. \A x \in ReleaseIds : x \notin S => release'[x] = release[x]
    BY <1>5 DEF StartOrRetryRefused
  <2>3. QED
    BY <1>5, <2>1, <2>2 DEF StartOrRetryRefused
<1>6. ASSUME NEW r \in ReleaseIds, Skip(r)
      PROVE  TasksStayEnded /\ ReleasesStayEnded
  BY <1>0, <1>6 DEF Skip, IsTerminal, TypeOK
<1>7. ASSUME NEW r \in ReleaseIds, NEW d \in BOOLEAN,
             Rollback(r, d) \/ \E p \in Percents \cup {0} : SetTrafficPercent(r, p, d)
      PROVE  TasksStayEnded /\ ReleasesStayEnded
  <2>1. /\ release[r].status = "readyToSwitch" /\ UNCHANGED task
        /\ \A x \in ReleaseIds : x # r => release'[x] = release[x]
    BY <1>0, <1>7 DEF Rollback, SetTrafficPercent, TypeOK
  <2>2. QED
    BY <2>1 DEF IsTerminal
<1>8. ASSUME NEW r \in ReleaseIds, NEW d \in BOOLEAN, ConfirmSwitch(r, d)
      PROVE  TasksStayEnded /\ ReleasesStayEnded
  <2>1. release[r].status = "readyToSwitch" /\ UNCHANGED task
    BY <1>8 DEF ConfirmSwitch
  <2> DEFINE P == completePreviousLiveRelease(r)
             v(x) == [release[x] EXCEPT !.trafficPercent = 0, !.status = "completed"]
  <2>2. ASSUME NEW x \in ReleaseIds, x # r, IsTerminal(release[x].status)
        PROVE  release'[x].status = release[x].status
    <3>1. CASE x \in P
      <4>1. release[x].status = "completed"
        BY <2>2, <3>1 DEF completePreviousLiveRelease, IsTerminal
      <4>2. release'[x] = Updates(release[x], v(x))
        BY <1>8, <2>2, <3>1 DEF ConfirmSwitch
      <4>3. release[x] \in ReleaseRow /\ 0 \in 0..100 /\ "completed" \in ReleaseStatus
        BY <1>0, Rows DEF ReleaseStatus
      <4>4. v(x) \in ReleaseRow /\ v(x).status = "completed"
        <5>1. v(x) \in ReleaseRow
          BY <4>3, Zenon DEF ReleaseRow
        <5>2. QED
          BY <4>3, <5>1 DEF ReleaseRow
      <4> HIDE DEF v
      <4>5. QED
        BY <4>1, <4>2, <4>3, <4>4, UpdatesRow
    <3>2. CASE x \notin P
      BY <1>8, <2>2, <3>2 DEF ConfirmSwitch
    <3>3. QED
      BY <3>1, <3>2
  <2>3. QED
    BY <2>1, <2>2 DEF IsTerminal
<1>9. QED
  BY <1>1, <1>2, <1>3, <1>4, <1>5, <1>6, <1>7, <1>8 DEF Request

\* Reports, timeouts and sessions.
LEMMA EnvironmentKeepsEnded ==
    ASSUME IInv, Environment
    PROVE  TasksStayEnded /\ ReleasesStayEnded
<1> USE DEF TasksStayEnded, ReleasesStayEnded
<1>0. TypeOK
  BY DEF IInv
<1>1. ASSUME NEW t \in TaskIds,
             TaskRunning(t) \/ TaskFailed(t) \/ \E d \in BOOLEAN : TaskSucceeded(t, d)
      PROVE  TasksStayEnded /\ ReleasesStayEnded
  <2> DEFINE r == task[t].release
  <2>1. ~TaskIsTerminal(task[t].status) /\ ~IsTerminal(release[r].status)
    BY <1>1 DEF Applies, TaskRunning, TaskFailed, TaskSucceeded
  <2>2. \A u \in TaskIds : u # t => task'[u] = task[u]
    BY <1>0, <1>1 DEF TaskRunning, TaskFailed, TaskSucceeded, TypeOK
  <2>3. \A x \in ReleaseIds : x # r => release'[x] = release[x]
    BY <1>0, <1>1 DEF TaskRunning, TaskFailed, TaskSucceeded, TypeOK
  <2> HIDE DEF r
  <2>4. QED
    BY <2>1, <2>2, <2>3
<1>2. ASSUME NEW T \in SUBSET TaskIds, FailStaleTasks(T)
      PROVE  TasksStayEnded /\ ReleasesStayEnded
  <2>1. \A t \in T : TaskIsActive(task[t].status)
    BY <1>2 DEF FailStaleTasks, ListRecoverableTasksByAgent
  <2>2. TasksStayEnded
    BY <1>2, <2>1 DEF FailStaleTasks, TaskIsActive, TaskIsTerminal
  <2>3. ReleasesStayEnded
    BY <1>2 DEF FailStaleTasks
  <2>4. QED
    BY <2>2, <2>3
<1>3. ASSUME NEW a \in Agents, Connect(a) \/ Disconnect(a) \/ MarkOfflineStale(a)
      PROVE  TasksStayEnded /\ ReleasesStayEnded
  BY <1>3 DEF Connect, Disconnect, MarkOfflineStale
<1>4. ASSUME NEW a \in Agents, NEW running, NEW bound, UNCHANGED release,
             RecoverAgentTasks(a, running, bound)
      PROVE  TasksStayEnded /\ ReleasesStayEnded
  BY <1>4 DEF RecoverAgentTasks, ListRecoverableTasksByAgent, TaskIsActive, TaskIsTerminal
<1>5. ASSUME NEW a \in Agents, NEW running \in SUBSET SentTasks,
             Heartbeat(a, running) \/ \E t \in TaskIds : HeartbeatBreaks(a, running, t)
      PROVE  TasksStayEnded /\ ReleasesStayEnded
  BY <1>4, <1>5 DEF Heartbeat, HeartbeatBreaks
<1>6. QED
  BY <1>1, <1>2, <1>3, <1>5 DEF Environment

\* HandleTaskUpdate, FailStaleTasks and RecoverAgentTasks never write an ended task,
\* and no handler other than an operator's Start or Retry moves an ended release.
THEOREM EndedRowsStay == Spec => EndedStaysEnded
<1> DEFINE A == /\ \A t \in TaskIds : TaskIsTerminal(task[t].status) => task'[t] = task[t]
                /\ \A r \in ReleaseIds : IsTerminal(release[r].status) =>
                      \/ release'[r].status = release[r].status
                      \/ release[r].status \in {"failed", "skipped"} /\ (Start(r) \/ Retry(r))
<1>1. IInv /\ [Next]_vars => [A]_vars
  <2> SUFFICES ASSUME IInv, Next PROVE A
    OBVIOUS
  <2>1. TasksStayEnded /\ ReleasesStayEnded
    BY RequestKeepsEnded, EnvironmentKeepsEnded DEF Next
  <2>2. QED
    BY <2>1 DEF TasksStayEnded, ReleasesStayEnded, Reopened
<1>2. QED
  BY <1>1, Inductive, PTL DEF Spec, EndedStaysEnded

----------------------------------------------------------------------------
(* What the agents were told.                                              *)

Now(s) == buildProxyConfigSnapshot(spec, release, instance, s)
Told(s) == LET now == Now(s) IN
           /\ published[s].present = now.present
           /\ published[s].live = now.live
           /\ published[s].percent = now.percent
           /\ now.percent > 0 => published[s].candidate = now.candidate

\* A release that gets a share of the traffic in the rows rel.
Shares(rel, r) == rel[r].status = "readyToSwitch" /\ rel[r].trafficPercent \in 1..99

\* A step that leaves the slots of a service alone, and the releases on them unless
\* they get no share before nor after it, changes nothing that is told.
LEMMA SameTraffic ==
    ASSUME IInv, NEW s \in Services,
           spec'[s] = spec[s], instance'[s] = instance[s],
           \A slot \in Slots : LET c == instance[s][slot].release IN
              c # 0 => \/ release'[c] = release[c]
                       \/ ~Shares(release, c) /\ ~Shares(release', c)
    PROVE  /\ Now(s)'.present = Now(s).present
           /\ Now(s)'.live = Now(s).live
           /\ Now(s)'.percent = Now(s).percent
           /\ Now(s).percent > 0 => Now(s)'.candidate = Now(s).candidate
<1> DEFINE live == normalizeLiveSlot(spec[s].currentLiveSlot)
           c == instance[s][nextSlot(live)].release
           visible == c # 0 /\ release[c].status = "readyToSwitch"
           seen == c # 0 /\ release'[c].status = "readyToSwitch"
           now == resolveReleases(spec, release, instance, s)
           next == resolveReleases(spec', release', instance', s)
<1>1. /\ live \in Slots /\ nextSlot(live) \in Slots
      /\ normalizeLiveSlot(spec'[s].currentLiveSlot) = live
  BY SlotFacts, Rows DEF IInv
<1>2. /\ now.present = TRUE /\ now.live = instance[s][live].release
      /\ now.candidate = IF visible THEN c ELSE 0
      /\ now.percent = IF visible /\ release[c].trafficPercent \in 1..99
                       THEN release[c].trafficPercent ELSE 0
  BY DEF resolveReleases
<1>3. /\ next.present = TRUE /\ next.live = instance[s][live].release
      /\ next.candidate = IF seen THEN c ELSE 0
      /\ next.percent = IF seen /\ release'[c].trafficPercent \in 1..99
                        THEN release'[c].trafficPercent ELSE 0
  BY <1>1 DEF resolveReleases
<1>4. c # 0 => \/ release'[c] = release[c]
               \/ ~Shares(release, c) /\ ~Shares(release', c)
  BY <1>1
<1> HIDE DEF now, next, c, live
<1>5. /\ next.percent = now.percent
      /\ now.percent > 0 => next.candidate = now.candidate
  <2>1. CASE c # 0 /\ release'[c] = release[c]
    BY <1>2, <1>3, <2>1
  <2>2. CASE c = 0 \/ (~Shares(release, c) /\ ~Shares(release', c))
    <3>1. ~(visible /\ release[c].trafficPercent \in 1..99)
      BY <2>2 DEF Shares
    <3>2. ~(seen /\ release'[c].trafficPercent \in 1..99)
      BY <2>2 DEF Shares
    <3>3. now.percent = 0 /\ next.percent = 0
      BY <1>2, <1>3, <3>1, <3>2
    <3>4. QED
      BY <3>3
  <2>3. QED
    BY <1>4, <2>1, <2>2
<1>6. CASE spec[s].enabled
  <2>1. Now(s) = now /\ Now(s)' = next
    BY <1>6 DEF Now, buildProxyConfigSnapshot, now, next
  <2>2. QED
    BY <1>2, <1>3, <1>5, <2>1
<1>7. CASE ~spec[s].enabled
  <2>1. Now(s) = NoSnapshot /\ Now(s)' = NoSnapshot
    BY <1>7 DEF Now, buildProxyConfigSnapshot
  <2>2. QED
    BY <2>1
<1>8. QED
  BY <1>6, <1>7

\* The releases on the slots of a service.
LEMMA OnSlots ==
    ASSUME IInv, NEW s \in Services, NEW slot \in Slots,
           instance[s][slot].release # 0
    PROVE  LET c == instance[s][slot].release IN
           /\ c \in ReleaseIds /\ release[c].status # "absent" /\ release[c].service = s
  BY Rows DEF IInv, RowsBelong

\* A step that publishes nothing and gives no share to anybody and takes none.
LEMMA QuietStep ==
    ASSUME IInv, PublishedTrafficIsCurrent,
           UNCHANGED <<spec, instance, published, unpublished>>,
           session' \subseteq session,
           \A r \in ReleaseIds : \/ release'[r] = release[r]
                                 \/ release[r].status = "absent"
                                 \/ ~Shares(release, r) /\ ~Shares(release', r)
    PROVE  PublishedTrafficIsCurrent'
<1> SUFFICES ASSUME NEW s \in Services, AgentOf[s] \in session' \ unpublished'
             PROVE  Told(s)'
  BY DEF PublishedTrafficIsCurrent, Told, Now
<1>1. Told(s)
  BY DEF PublishedTrafficIsCurrent, Told, Now
<1>2. \A slot \in Slots : LET c == instance[s][slot].release IN
         c # 0 => \/ release'[c] = release[c]
                  \/ ~Shares(release, c) /\ ~Shares(release', c)
  BY OnSlots
<1>3. /\ Now(s)'.present = Now(s).present
      /\ Now(s)'.live = Now(s).live
      /\ Now(s)'.percent = Now(s).percent
      /\ Now(s).percent > 0 => Now(s)'.candidate = Now(s).candidate
  BY <1>2, SameTraffic
<1>4. QED
  BY <1>1, <1>3 DEF Told

\* A step that changes the rows of one service and publishes them, or fails to.
LEMMA PublishStep ==
    ASSUME IInv, PublishedTrafficIsCurrent, NEW s \in Services, NEW d \in BOOLEAN,
           PublishAgent(AgentOf[s], d), UNCHANGED session,
           \A q \in Services \ {s} : spec'[q] = spec[q] /\ instance'[q] = instance[q],
           \A r \in ReleaseIds : release[r].service # s => release'[r] = release[r]
    PROVE  PublishedTrafficIsCurrent'
<1> SUFFICES ASSUME NEW q \in Services, AgentOf[q] \in session' \ unpublished'
             PROVE  Told(q)'
  BY DEF PublishedTrafficIsCurrent, Told, Now
<1>1. CASE d /\ AgentOf[q] = AgentOf[s]
  <2>1. published'[q] = Now(q)'
    BY <1>1 DEF PublishAgent, Now
  <2>2. QED
    BY <2>1 DEF Told
<1>2. CASE ~d /\ AgentOf[q] = AgentOf[s]
  BY <1>2 DEF PublishAgent
<1>3. CASE AgentOf[q] # AgentOf[s]
  <2>1. /\ published'[q] = published[q] /\ AgentOf[q] \notin unpublished /\ q # s
    BY <1>3 DEF PublishAgent
  <2>2. Told(q)
    BY <2>1 DEF PublishedTrafficIsCurrent, Told, Now
  <2>3. \A slot \in Slots : LET c == instance[q][slot].release IN
           c # 0 => release'[c] = release[c]
    BY <2>1, OnSlots
  <2>4. /\ Now(q)'.present = Now(q).present
        /\ Now(q)'.live = Now(q).live
        /\ Now(q)'.percent = Now(q).percent
        /\ Now(q).percent > 0 => Now(q)'.candidate = Now(q).candidate
    BY <2>1, <2>3, SameTraffic
  <2>5. QED
    BY <2>1, <2>2, <2>4 DEF Told
<1>4. QED
  BY <1>1, <1>2, <1>3

\* A deployment turns to a release that gets no share and completes candidates that
\* have none.
LEMMA DeployKeepsTold ==
    ASSUME IInv, PublishedTrafficIsCurrent, NEW r \in ReleaseIds, NEW t \in TaskIds,
           NEW outcome, NEW skip \in SUBSET ListQueuedBefore(r),
           release[r].status \in {"queued", "skipped", "failed"},
           BeginDeploy(r, t, outcome, skip)
    PROVE  PublishedTrafficIsCurrent'
<1> DEFINE row == deployRow(r, t)
           S == completeSupersededRelease(r, row.targetSlot)
<1>1. UNCHANGED <<spec, instance, published, unpublished, session>>
  BY DEF BeginDeploy
<1>2. ASSUME NEW x \in ReleaseIds, release'[x] # release[x]
      PROVE  ~Shares(release, x) /\ ~Shares(release', x)
  <2>1. CASE x = r
    <3>1. release'[r] = [Updates(release[r], row) EXCEPT
                           !.status = IF outcome = "failed" THEN "failed" ELSE "dispatching"]
      BY DEF BeginDeploy
    <3>2. release'[r].status \in {"failed", "dispatching"}
      BY <3>1 DEF Updates, deployRow
    <3>3. QED
      BY <2>1, <3>2 DEF Shares
  <2>2. CASE x # r /\ x \in S
    <3>1. release[x].trafficPercent = 0
      BY <2>2 DEF completeSupersededRelease
    <3>2. release'[x] = [release[x] EXCEPT !.status = "completed"]
      BY <2>2 DEF BeginDeploy
    <3>3. release'[x].status = "completed"
      BY <3>2, Rows DEF IInv, ReleaseRow
    <3>4. QED
      BY <3>1, <3>3 DEF Shares
  <2>3. CASE x # r /\ x \notin S
    <3>1. outcome # "failed" /\ x \in skip /\ release'[x] = [release[x] EXCEPT !.status = "skipped"]
      BY <1>2, <2>3 DEF BeginDeploy
    <3>2. release[x].status = "queued"
      BY <3>1 DEF ListQueuedBefore
    <3>3. release'[x].status = "skipped"
      BY <3>1, Rows DEF IInv, ReleaseRow
    <3>4. QED
      BY <3>2, <3>3 DEF Shares
  <2>4. QED
    BY <2>1, <2>2, <2>3
<1>3. QED
  BY <1>1, <1>2, QuietStep

\* Requests of operators: those that move traffic publish it.
LEMMA RequestKeepsTold ==
    ASSUME IInv, PublishedTrafficIsCurrent, Request
    PROVE  PublishedTrafficIsCurrent'
<1>0. TypeOK
  BY DEF IInv
<1>1. ASSUME NEW s \in Services, NEW i \in Images, CreateFromCI(s, i)
      PROVE  PublishedTrafficIsCurrent'
  <2>1. PICK r \in ReleaseIds :
           /\ Fresh(release, r)
           /\ \A x \in ReleaseIds : x # r => release'[x] = release[x]
    BY <1>0, <1>1 DEF CreateFromCI, TypeOK
  <2>2. release[r].status = "absent"
    BY <2>1 DEF Fresh
  <2>3. QED
    BY <1>1, <2>1, <2>2, QuietStep DEF CreateFromCI
<1>2. ASSUME NEW s \in Services, NEW d \in BOOLEAN, SetEnabled(s, d)
      PROVE  PublishedTrafficIsCurrent'
  BY <1>0, <1>2, PublishStep DEF SetEnabled, TypeOK
<1>3. ASSUME NEW r \in ReleaseIds, Start(r) PROVE PublishedTrafficIsCurrent'
  <2>1. PICK t \in TaskIds, outcome \in dispatch(AgentOf[release[r].service]) :
           BeginDeploy(r, t, outcome, ListQueuedBefore(r))
    BY <1>3 DEF Start
  <2>2. release[r].status \in {"queued", "skipped", "failed"}
    BY <1>3 DEF Start, MayStart
  <2>3. QED
    BY <2>1, <2>2, DeployKeepsTold
<1>4. ASSUME NEW r \in ReleaseIds, Retry(r) PROVE PublishedTrafficIsCurrent'
  <2>1. PICK t \in TaskIds, outcome \in dispatch(AgentOf[release[r].service]) :
           BeginDeploy(r, t, outcome, {})
    BY <1>4 DEF Retry
  <2>2. release[r].status \in {"queued", "skipped", "failed"}
    BY <1>4 DEF Retry, MayRetry
  <2>3. QED
    BY <2>1, <2>2, DeployKeepsTold
<1>5. ASSUME NEW r \in ReleaseIds, StartOrRetryRefused(r)
      PROVE  PublishedTrafficIsCurrent'
  <2> DEFINE S == completeSupersededRelease(r, nextSlot(spec[release[r].service].currentLiveSlot))
  <2>1. ASSUME NEW x \in ReleaseIds, release'[x] # release[x]
        PROVE  ~Shares(release, x) /\ ~Shares(release', x)
    <3>1. x \in S /\ release'[x] = [release[x] EXCEPT !.status = "completed"]
      BY <1>5, <2>1 DEF StartOrRetryRefused
    <3>2. release[x].trafficPercent = 0
      BY <3>1 DEF completeSupersededRelease
    <3>3. release'[x].status = "completed"
      BY <3>1, Rows DEF IInv, ReleaseRow
    <3>4. QED
      BY <3>2, <3>3 DEF Shares
  <2>2. QED
    BY <1>5, <2>1, QuietStep DEF StartOrRetryRefused
<1>6. ASSUME NEW r \in ReleaseIds, Skip(r) PROVE PublishedTrafficIsCurrent'
  <2>1. /\ release[r].status = "queued" /\ release'[r].status = "skipped"
        /\ \A x \in ReleaseIds : x # r => release'[x] = release[x]
    BY <1>0, <1>6, Rows DEF Skip, TypeOK, ReleaseRow
  <2>2. QED
    BY <1>6, <2>1, QuietStep DEF Skip, Shares
<1>7. ASSUME NEW r \in ReleaseIds, NEW d \in BOOLEAN,
             Rollback(r, d) \/ \E p \in Percents \cup {0} : SetTrafficPercent(r, p, d)
      PROVE  PublishedTrafficIsCurrent'
  <2> DEFINE s == release[r].service
  <2>1. s \in Services
    BY <1>0, Rows
  <2>2. /\ \A q \in Services \ {s} : spec'[q] = spec[q] /\ instance'[q] = instance[q]
        /\ \A x \in ReleaseIds : x # r => release'[x] = release[x]
        /\ PublishAgent(AgentOf[s], d) /\ UNCHANGED session
    BY <1>0, <1>7 DEF Rollback, SetTrafficPercent, TypeOK, updateTrafficFlags
  <2>3. \A x \in ReleaseIds : release[x].service # s => release'[x] = release[x]
    BY <2>2
  <2> HIDE DEF s
  <2>4. QED
    BY <2>1, <2>2, <2>3, PublishStep
<1>8. ASSUME NEW r \in ReleaseIds, NEW d \in BOOLEAN, ConfirmSwitch(r, d)
      PROVE  PublishedTrafficIsCurrent'
  <2> DEFINE s == release[r].service
             P == completePreviousLiveRelease(r)
             prev == release[r].previousLiveSlot
  <2>1. s \in Services /\ prev \in Slots \cup {0}
    BY <1>0, Rows
  <2>2. /\ \A q \in Services \ {s} : spec'[q] = spec[q] /\ instance'[q] = instance[q]
        /\ \A x \in ReleaseIds : x # r /\ x \notin P => release'[x] = release[x]
        /\ PublishAgent(AgentOf[s], d) /\ UNCHANGED session
    BY <1>0, <1>8 DEF ConfirmSwitch, TypeOK, updateTrafficFlags
  <2>3. ASSUME NEW x \in P PROVE release[x].service = s
    <3>1. prev # 0 /\ x = instance[s][prev].release /\ x # 0
      BY <2>3 DEF completePreviousLiveRelease
    <3>2. QED
      BY <2>1, <3>1, OnSlots
  <2>4. \A x \in ReleaseIds : release[x].service # s => release'[x] = release[x]
    BY <2>2, <2>3
  <2> HIDE DEF s, P
  <2>5. QED
    BY <2>1, <2>2, <2>4, PublishStep
<1>9. QED
  BY <1>1, <1>2, <1>3, <1>4, <1>5, <1>6, <1>7, <1>8 DEF Request

\* Reports, timeouts and sessions: only releases that wait for a task are failed, a
\* deployment that succeeded is published, and a new stream gets everything.
LEMMA EnvironmentKeepsTold ==
    ASSUME IInv, PublishedTrafficIsCurrent, Environment
    PROVE  PublishedTrafficIsCurrent'
<1>0. TypeOK
  BY DEF IInv
<1>1. ASSUME NEW t \in TaskIds, TaskRunning(t) \/ TaskFailed(t)
      PROVE  PublishedTrafficIsCurrent'
  <2> DEFINE r == task[t].release
  <2>1. /\ r \in ReleaseIds /\ release[r] \in ReleaseRow
        /\ release[r].status \in {"dispatching", "deploying"}
    BY <1>1, AppliesFacts DEF TaskRunning, TaskFailed
  <2>2. \E st \in {"deploying", "failed"} : release' = [release EXCEPT ![r].status = st]
    BY <1>1, <2>1 DEF TaskRunning, TaskFailed
  <2>3. /\ release'[r].status \in {"deploying", "failed"}
        /\ \A x \in ReleaseIds : x # r => release'[x] = release[x]
    BY <1>0, <2>1, <2>2 DEF TypeOK, ReleaseRow
  <2> HIDE DEF r
  <2>4. QED
    BY <1>1, <2>1, <2>3, QuietStep DEF TaskRunning, TaskFailed, Shares
<1>2. ASSUME NEW t \in TaskIds, NEW d \in BOOLEAN, TaskSucceeded(t, d)
      PROVE  PublishedTrafficIsCurrent'
  <2> DEFINE r == task[t].release
             s == release[r].service
  <2>1. r \in ReleaseIds /\ s \in Services
    BY <1>0, Rows
  <2>2. /\ \A q \in Services \ {s} : spec'[q] = spec[q] /\ instance'[q] = instance[q]
        /\ \A x \in ReleaseIds : x # r => release'[x] = release[x]
        /\ PublishAgent(AgentOf[s], d) /\ UNCHANGED session
    BY <1>0, <1>2 DEF TaskSucceeded, TypeOK
  <2>3. \A x \in ReleaseIds : release[x].service # s => release'[x] = release[x]
    BY <2>2
  <2> HIDE DEF r, s
  <2>4. QED
    BY <2>1, <2>2, <2>3, PublishStep
<1>3. ASSUME NEW T \in SUBSET TaskIds, FailStaleTasks(T)
      PROVE  PublishedTrafficIsCurrent'
  <2>1. ASSUME NEW x \in ReleaseIds, release'[x] # release[x]
        PROVE  ~Shares(release, x) /\ ~Shares(release', x)
    <3>1. PICK t \in T : task[t].release = x
      BY <1>3, <2>1 DEF FailStaleTasks
    <3>2. TaskIsActive(task[t].status)
      BY <1>3 DEF FailStaleTasks, ListRecoverableTasksByAgent
    <3>3. release[x].status \in {"dispatching", "deploying"}
      BY <3>1, <3>2 DEF IInv, WaitsForLiveTask
    <3>4. release'[x] = [release[x] EXCEPT !.status = "failed"]
      BY <1>3, <3>1 DEF FailStaleTasks
    <3>5. release'[x].status = "failed"
      BY <3>4, Rows DEF IInv, ReleaseRow
    <3>6. QED
      BY <3>3, <3>5 DEF Shares
  <2>2. QED
    BY <1>3, <2>1, QuietStep DEF FailStaleTasks
<1>4. ASSUME NEW a \in Agents, Connect(a) PROVE PublishedTrafficIsCurrent'
  <2> SUFFICES ASSUME NEW s \in Services, AgentOf[s] \in session' \ unpublished'
               PROVE  Told(s)'
    BY DEF PublishedTrafficIsCurrent, Told, Now
  <2>1. Now(s)' = Now(s)
    BY <1>4 DEF Connect, Now
  <2>2. CASE AgentOf[s] = a
    <3>1. published'[s] = Now(s)
      BY <1>4, <2>2 DEF Connect, Now
    <3>2. QED
      BY <2>1, <3>1 DEF Told
  <2>3. CASE AgentOf[s] # a
    <3>1. published'[s] = published[s] /\ AgentOf[s] \in session \ unpublished
      BY <1>4, <2>3 DEF Connect
    <3>2. Told(s)
      BY <3>1 DEF PublishedTrafficIsCurrent, Told, Now
    <3>3. QED
      BY <2>1, <3>1, <3>2 DEF Told
  <2>4. QED
    BY <2>2, <2>3
<1>5. ASSUME NEW a \in Agents,
             \/ Disconnect(a) \/ MarkOfflineStale(a)
             \/ \E running \in SUBSET SentTasks :
                  \/ Heartbeat(a, running)
                  \/ \E t \in TaskIds : HeartbeatBreaks(a, running, t)
      PROVE  PublishedTrafficIsCurrent'
  <2>1. /\ UNCHANGED <<spec, release, instance, published, unpublished>>
        /\ session' \subseteq session
    BY <1>5 DEF Disconnect, MarkOfflineStale, Heartbeat, HeartbeatBreaks, CloseSession
  <2>2. QED
    BY <2>1, QuietStep
<1>6. QED
  BY <1>1, <1>2, <1>3, <1>4, <1>5 DEF Environment

\* Every handler that moves live traffic or the candidate's share publishes it
\* (publishAgent): an agent with a session knows them unless a publication to it was
\* dropped.
THEOREM PublishedIsCurrent == Spec => []PublishedTrafficIsCurrent
<1>1. Init => PublishedTrafficIsCurrent
  BY DEF Init, PublishedTrafficIsCurrent
<1>2. IInv /\ PublishedTrafficIsCurrent /\ [Next]_vars => PublishedTrafficIsCurrent'
  <2> SUFFICES ASSUME IInv, PublishedTrafficIsCurrent, [Next]_vars
               PROVE  PublishedTrafficIsCurrent'
    OBVIOUS
  <2>1. CASE UNCHANGED vars
    BY <2>1, QuietStep DEF vars
  <2>2. CASE Next
    BY <2>2, RequestKeepsTold, EnvironmentKeepsTold DEF Next
  <2>3. QED
    BY <2>1, <2>2
<1>3. QED
  BY <1>1, <1>2, Inductive, PTL DEF Spec

=============================================================================
