------------------------------ MODULE Rollout ------------------------------
(***************************************************************************)
(* Release seen as BlueGreen: the live release is the one on the live      *)
(* slot, the rollout is the release that is in progress.                   *)
(***************************************************************************)
EXTENDS Release

liveRelease ==
    [s \in Services |-> LET slot == spec[s].currentLiveSlot
                        IN  IF slot = 0 THEN 0 ELSE instance[s][slot].release]

UnderWay(s) == {r \in ReleaseIds : InProgress(r) /\ release[r].service = s}

\* How release r is seen while it is in progress.
asRollout(r) ==
    IF release[r].status = "readyToSwitch"
    THEN [phase |-> "candidate", release |-> r, share |-> release[r].trafficPercent]
    ELSE [phase |-> "deploying", release |-> r, share |-> 0]

rollouts ==
    [s \in Services |-> IF UnderWay(s) = {}
                        THEN [phase |-> "none", release |-> 0, share |-> 0]
                        ELSE asRollout(CHOOSE r \in UnderWay(s) : TRUE)]

Abstract == INSTANCE BlueGreen WITH Releases <- ReleaseIds, Shares <- Percents,
                                    live <- liveRelease, rollout <- rollouts

\* Every step of the orchestration is a step of a rollout or changes none: the
\* live release changes by promoting a deployed candidate only, a release that
\* has traffic is not superseded, and no report of an agent moves traffic.
RefinesBlueGreen == Abstract!Spec
=============================================================================
