----------------------------- MODULE BlueGreen -----------------------------
(***************************************************************************)
(* What the release orchestration promises of each service: one release is *)
(* live, at most one other is being rolled out, and the live one changes   *)
(* only when an operator promotes a release that was deployed.  Slots,     *)
(* tasks, agents and the order of the rows they are kept in are not seen.  *)
(***************************************************************************)
CONSTANTS
    Services,  \* services
    Releases,  \* releases; 0 is none
    Shares     \* partial shares of the traffic

VARIABLES
    live,      \* the release of each service that is live, 0 before the first
    rollout    \* the release that is to follow it

NoRollout == [phase |-> "none", release |-> 0, share |-> 0]

Init ==
    /\ live = [s \in Services |-> 0]
    /\ rollout = [s \in Services |-> NoRollout]

IsCandidate(s) == rollout[s].phase = "candidate"

\* A rollout begins when there is none, or takes the place of a candidate that
\* gets no traffic; the live release is not deployed again.
Begin(s, r) ==
    /\ rollout[s].phase = "none" \/ (IsCandidate(s) /\ rollout[s].share = 0)
    /\ r # live[s]
    /\ rollout' = [rollout EXCEPT ![s] = [phase |-> "deploying", release |-> r, share |-> 0]]
    /\ UNCHANGED live

Deployed(s) ==
    /\ rollout[s].phase = "deploying"
    /\ rollout' = [rollout EXCEPT ![s].phase = "candidate"]
    /\ UNCHANGED live

\* Deployments fail, several at once when they time out.
Failed(S) ==
    /\ \A s \in S : rollout[s].phase = "deploying"
    /\ rollout' = [s \in Services |-> IF s \in S THEN NoRollout ELSE rollout[s]]
    /\ UNCHANGED live

GiveShare(s, p) ==
    /\ IsCandidate(s)
    /\ rollout' = [rollout EXCEPT ![s].share = p]
    /\ UNCHANGED live

Promote(s) ==
    /\ IsCandidate(s)
    /\ live' = [live EXCEPT ![s] = rollout[s].release]
    /\ rollout' = [rollout EXCEPT ![s] = NoRollout]

\* A candidate is rolled back, or makes room for a deployment that fails.
Abandon(s) ==
    /\ IsCandidate(s)
    /\ rollout' = [rollout EXCEPT ![s] = NoRollout]
    /\ UNCHANGED live

Next ==
    \/ \E S \in SUBSET Services : Failed(S)
    \/ \E s \in Services :
          \/ Deployed(s) \/ Promote(s) \/ Abandon(s)
          \/ \E r \in Releases : Begin(s, r)
          \/ \E p \in Shares \cup {0} : GiveShare(s, p)

Spec == Init /\ [][Next]_<<live, rollout>>
=============================================================================
