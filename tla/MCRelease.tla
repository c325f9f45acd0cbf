----------------------------- MODULE MCRelease -----------------------------
(* Small instances of Release for TLC.                                     *)
EXTENDS Rollout

CONSTANTS s1, s2, a1

OneService == [s \in {s1} |-> a1]
TwoServices == [s \in {s1, s2} |-> a1]

\* Bound for the run with three releases: from the first release on, the agent
\* stays connected, nothing sent to it is lost and the service stays enabled.
SteadyAgent ==
    \/ \A r \in ReleaseIds : release[r].status = "absent"
    \/ /\ session = Agents /\ online = Agents /\ unpublished = {}
       /\ \A a \in Agents : replayed[a] = {}
       /\ \A s \in Services : spec[s].enabled

=============================================================================
