------------------------------ MODULE MCAgentLink ------------------------------
(***************************************************************************)
(* An instance of AgentLink: two viewers turn up, or a question or a       *)
(* viewer and the request to lock the agent out.                           *)
(***************************************************************************)
EXTENDS AgentLink

Asked == {q \in Requests : request[q] = "new"}
Come == {v \in Viewers : viewer[v] = "away"}

TwoTurnUp ==
    \/ admin = "over" /\ Asked = {} /\ Come = Viewers
    \/ /\ admin = "away" /\ "w" \notin Come
       /\ Cardinality(Asked) + Cardinality(Come) = 1

MCInit == Init /\ TwoTurnUp
MCSpec == MCInit /\ [][Next]_vars /\ Fairness
=============================================================================
