---------------------------- MODULE MCDeployment ----------------------------
(* Instances of Deployment: one service of one agent. *)
EXTENDS Deployment, TLC

CONSTANTS s1, a1, i1, i2

MCAgentOf == s1 :> a1

\* Bound: the releases are all created before the first one is deployed, for
\* i1 first (the images are interchangeable), and deployed in their order.
CreatedFirst ==
    /\ release[1].status = "absent" \/ release[1].image = i1
    /\ task[1].status = "absent" \/ task[1].release = 1
    /\ \/ \A t \in TaskIds : task[t].status = "absent"
       \/ \A r \in ReleaseIds : release[r].status # "absent"
=============================================================================
