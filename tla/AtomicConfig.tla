--------------------------- MODULE AtomicConfig ---------------------------
(***************************************************************************)
(* What the configuration of a proxy promises, whoever writes it and       *)
(* whatever goes wrong: while the proxy runs it changes in one step from   *)
(* the whole of a snapshot to the whole of the one that was received last, *)
(* and the agent is sure of it only when it is that one.                   *)
(***************************************************************************)
CONSTANTS Snapshots, NoSnapshot, Rendered(_)

VARIABLES wanted,   \* the snapshot that was received last
          config, running,
          sure      \* the agent takes the snapshot for applied

abstractVars == <<wanted, config, running, sure>>

Init ==
    /\ wanted = NoSnapshot /\ config = Rendered(NoSnapshot)
    /\ running = FALSE /\ sure = FALSE

Receive ==
    /\ wanted' \in Snapshots /\ sure' = FALSE
    /\ UNCHANGED <<config, running>>

\* An agent that starts anew knows of no snapshot.
Forget ==
    /\ wanted' = NoSnapshot /\ sure' = FALSE
    /\ UNCHANGED <<config, running>>

Switch ==
    /\ running /\ ~sure /\ wanted \in Snapshots
    /\ config' = Rendered(wanted)
    /\ UNCHANGED <<wanted, running, sure>>

\* Only the files of a proxy that does not run are written over.
StartOver ==
    /\ ~running /\ ~sure
    /\ config' = Rendered(NoSnapshot)
    /\ UNCHANGED <<wanted, running, sure>>

BecomeSure ==
    /\ wanted \in Snapshots /\ config = Rendered(wanted)
    /\ sure' = TRUE
    /\ UNCHANGED <<wanted, config, running>>

BecomeUnsure ==
    /\ sure' = FALSE
    /\ UNCHANGED <<wanted, config, running>>

Stop ==
    /\ running' = FALSE
    /\ UNCHANGED <<wanted, config, sure>>

\* A proxy that did not run is looked at before anything is said of it.
Start ==
    /\ ~sure
    /\ running' = TRUE
    /\ UNCHANGED <<wanted, config, sure>>

Next ==
    \/ Receive \/ Forget \/ Switch \/ StartOver
    \/ BecomeSure \/ BecomeUnsure \/ Stop \/ Start

Spec == Init /\ [][Next]_abstractVars
=============================================================================
