---------------------------- MODULE MCScheduler ----------------------------
(* Small instances of Scheduler for TLC.                                   *)
EXTENDS Scheduler

CONSTANTS j1, j2

EveryExecutor == [j \in Jobs |-> Executors]
NoExecutor == [j \in Jobs |-> {}]
OneSlotEach == [e \in Executors |-> e]
LeapDays == {<<j2, 1>>}

\* Bound: one job, on a fixed slot or not, and nobody edits it.  One on a cron
\* schedule, which has no fixed slot, is enabled and due at a gap, and nothing
\* switches.
OneJobUnedited ==
    /\ editing = NoEdit
    /\ \A i, j \in Jobs : job[i].status # "absent" /\ job[j].status # "absent" => i = j
    /\ \A j \in Cron : job[j].status # "absent"
                        => job[j].enabled /\ <<j, job[j].next>> \in Gaps /\ live = 1
=============================================================================
