----------------------------- MODULE ProxyStack -----------------------------
(***************************************************************************)
(* The HAProxy container the agent looks after                             *)
(* (internal/agent/infra/runtime/proxy_stack.go), through Docker           *)
(* (docker_admin.go) and the Data Plane API (dataplane_client.go).         *)
(*                                                                         *)
(* Three kinds of handler bring HAProxy to the snapshot the agent was sent *)
(* last: the snapshot's arrival, a deployment that needs the proxy, and a  *)
(* periodic self-heal.  Each holds one mutex from its first call to its    *)
(* last, but every call can fail, the container can stop or disappear and  *)
(* the agent can restart between any two of them.                          *)
(***************************************************************************)
EXTENDS Naturals, Sequences, FiniteSets

CONSTANTS
    Services,
    Releases,     \* what a service may have live
    Pooled,       \* services with a TCP port of the pool reserved at startup
    Dedicated,    \* services with a TCP port outside the pool
    Occupied,     \* those whose dedicated port another program always uses
    MaxFaults,    \* bound: calls that fail, and disturbances of the container
    MaxChanges    \* bound: changes of the catalogue

ASSUME ProxyStackAssumption ==
    /\ Services # {}
    /\ Pooled \cap Dedicated = {} /\ Pooled \cup Dedicated \subseteq Services
    /\ Occupied \subseteq Dedicated
    /\ MaxFaults \in Nat /\ MaxChanges \in Nat

VARIABLES
    \* the agent's memory
    desired,      \* the snapshot to apply, or None
    applied,      \* the one it believes it has applied
    ready,
    life,         \* "starting", "probed" and "up": how far the process has come
    pool,         \* services whose pooled port the first probe found free
    step, op,     \* the handler that holds the mutex, and where it is
    changed,      \* what prepareLocked found
    txn, todo,    \* the open transaction, and the services it still lacks
    \* HAProxy
    proxy, bound, \* its container, and the ports that one was made with
    config,       \* the configuration in the volume
    \* the rest of the world
    catalogue,    \* what the control plane wants of each service
    inbox,        \* snapshots on their way to the agent
    workload,     \* services with a container on this agent
    taken,        \* services whose pooled port another program uses
    faults, changes

agentVars == <<desired, applied, ready, life, pool, step, op, changed, txn, todo>>
proxyVars == <<proxy, bound, config>>
worldVars == <<catalogue, inbox, workload, taken, changes>>
vars == <<desired, applied, ready, life, pool, step, op, changed, txn, todo, proxy, bound,
          config, catalogue, inbox, workload, taken, faults, changes>>

----------------------------------------------------------------------------

\* A service is missing from the snapshot when it is disabled or deleted, and
\* has no backend before its first switch.
Wanted == {"absent", "noRelease"} \cup Releases
Snapshot == [Services -> Wanted]
None == [s \in {} |-> "absent"]

Listed(snap) == {s \in DOMAIN snap : snap[s] # "absent"}

\* A configuration: backends, TCP frontends, and what the HTTP frontend routes.
Backends(snap) == {<<s, snap[s]>> : s \in {x \in Listed(snap) : snap[x] # "noRelease"}}
buildTCPProxyConfigs(snap) == Listed(snap) \cap (Pooled \cup Dedicated)
Rendered(snap) == [backends |-> Backends(snap), tcp |-> buildTCPProxyConfigs(snap),
                   routes |-> Backends(snap)]
BootstrapFiles == [backends |-> {}, tcp |-> {}, routes |-> {}]

\* A container that exists counts as having its ports, also when it is stopped.
boundTCPHostPorts == IF proxy = "absent" THEN {} ELSE bound

\* The ports of the pool a probe container can be started with.
Unoccupied == Pooled \ taken

probeAvailableTCPHostPorts == Unoccupied \cup (boundTCPHostPorts \cap Pooled)

\* The ports are part of the container's specification.
proxySpec(snap) == pool \cup (Listed(snap) \cap Dedicated)
validatePreboundTCPPorts(snap) == Listed(snap) \cap Pooled \subseteq pool

\* The container can be started.
PortsFree(spec) == spec \cap (Occupied \cup taken) = {}

\* "detached" is a container that runs without the network of the agent.
Runs == proxy \in {"detached", "running"}
managedContainerMatches(spec) == proxy # "absent" /\ bound = spec

Steps == {"free", "inspect", "files", "container", "apis", "begin", "services",
          "frontend", "commit", "cleanup"}
Ops == {"startup", "heal", "apply", "ensure"}

----------------------------------------------------------------------------
(* The handlers.                                                           *)

\* Handler o takes the mutex.
Begin(o) ==
    /\ op' = o /\ step' = "inspect" /\ changed' = FALSE
    /\ UNCHANGED <<txn, todo>>

\* Mutant: what was ready stays ready when a new snapshot fails.
FailQuietly(o) ==
    /\ ready' = IF o = "apply" THEN ready ELSE FALSE
    /\ step' = "free" /\ txn' = None /\ todo' = {}
    /\ life' = IF o = "startup" THEN "starting" ELSE life
    /\ UNCHANGED <<desired, applied, pool, op, changed>>

\* A call failed: the transaction is aborted and the mutex released.
Fail(o) ==
    /\ ready' = FALSE
    /\ step' = "free" /\ txn' = None /\ todo' = {}
    /\ life' = IF o = "startup" THEN "starting" ELSE life
    /\ UNCHANGED <<desired, applied, pool, op, changed>>

CallFails ==
    /\ step # "free" /\ step # "cleanup" /\ faults < MaxFaults
    /\ Fail(op)
    /\ faults' = faults + 1
    /\ UNCHANGED <<proxyVars, worldVars>>

\* Reaching the APIs of a proxy that does not run fails without any bound.
ProxyUnreachable ==
    /\ step \in {"apis", "begin", "services", "frontend", "commit"}
    /\ proxy # "running"
    /\ Fail(op)
    /\ UNCHANGED <<proxyVars, worldVars, faults>>

\* Start of the agent: prepareLocked alone; when it fails the process exits
\* and is started again.
Startup ==
    /\ life = "starting" /\ step = "free"
    /\ Begin("startup")
    /\ UNCHANGED <<desired, applied, ready, life, pool, proxyVars, worldVars, faults>>

\* A tick of runSelfHeal.
SelfHeal ==
    /\ life = "up" /\ step = "free"
    /\ Begin("heal")
    /\ UNCHANGED <<desired, applied, ready, life, pool, proxyVars, worldVars, faults>>

\* A snapshot whose pooled ports are not all free is refused.
RefuseSnapshot ==
    /\ life = "up" /\ step = "free" /\ inbox # <<>>
    /\ ~validatePreboundTCPPorts(Head(inbox))
    /\ ready' = FALSE
    /\ inbox' = Tail(inbox)
    /\ UNCHANGED <<desired, applied, life, pool, step, op, changed, txn, todo,
                   proxyVars, catalogue, workload, taken, faults, changes>>

ApplySnapshot ==
    /\ life = "up" /\ step = "free" /\ inbox # <<>>
    /\ validatePreboundTCPPorts(Head(inbox))
    /\ desired' = Head(inbox)
    /\ inbox' = Tail(inbox)
    /\ Begin("apply")
    /\ UNCHANGED <<applied, ready, life, pool, proxyVars, catalogue, workload, taken,
                   faults, changes>>

\* EnsureReady, the first call of a deployment.
EnsureReady ==
    /\ life = "up" /\ step = "free"
    /\ \E s \in Services : catalogue[s] # "absent"
    /\ Begin("ensure")
    /\ UNCHANGED <<desired, applied, ready, life, pool, proxyVars, worldVars, faults>>

----------------------------------------------------------------------------
(* prepareLocked.                                                          *)

\* Images, network, address and the container are inspected; the free ports
\* of the pool are probed once in the life of the agent process.
Inspect ==
    /\ step = "inspect"
    /\ IF life = "starting"
       THEN life' = "probed" /\ pool' = probeAvailableTCPHostPorts
       ELSE UNCHANGED <<life, pool>>
    /\ step' = "files"
    /\ UNCHANGED <<desired, applied, ready, op, changed, txn, todo,
                   proxyVars, worldVars, faults>>

\* The base files are written when there is no running container.
BootstrapFilesWritten ==
    /\ step = "files"
    /\ IF Runs THEN UNCHANGED <<config, changed>>
       ELSE config' = BootstrapFiles /\ changed' = TRUE
    /\ step' = "container"
    /\ UNCHANGED <<desired, applied, ready, life, pool, op, txn, todo,
                   proxy, bound, worldVars, faults>>

\* ensureManagedContainer leaves the container as it is.
ContainerMatches ==
    /\ step = "container"
    /\ managedContainerMatches(proxySpec(desired)) /\ proxy = "running"
    /\ step' = "apis"
    /\ UNCHANGED <<desired, applied, ready, life, pool, op, changed, txn, todo,
                   proxyVars, worldVars, faults>>

\* A container that is missing or made for other ports is made anew, one that
\* is stopped is started, one that lost its network is attached to it.
EnsureManagedContainer ==
    LET spec == proxySpec(desired) IN
    /\ step = "container"
    /\ ~(managedContainerMatches(spec) /\ proxy = "running")
    /\ PortsFree(spec) \/ (managedContainerMatches(spec) /\ proxy = "detached")
    /\ proxy' = "running" /\ bound' = spec
    /\ changed' = TRUE /\ step' = "apis"
    /\ UNCHANGED <<desired, applied, ready, life, pool, op, txn, todo, config,
                   worldVars, faults>>

\* The container cannot be started while another program has one of its ports,
\* or a call of recreateAndValidateManagedContainer fails; the container it
\* replaces has been removed by then.
ContainerDoesNotStart ==
    LET spec == proxySpec(desired) IN
    /\ step = "container"
    /\ ~(managedContainerMatches(spec) /\ Runs)
    /\ \/ /\ ~PortsFree(spec)
          /\ proxy' = "stopped" /\ bound' = spec
          /\ UNCHANGED faults
       \/ /\ faults < MaxFaults /\ faults' = faults + 1
          /\ proxy' = "absent"
          /\ UNCHANGED bound
    /\ Fail(op)
    /\ UNCHANGED <<config, worldVars>>

Unlock(r) ==
    /\ step' = "free" /\ ready' = r
    /\ applied' = IF r /\ op # "startup" THEN desired ELSE applied
    /\ life' = "up"
    /\ UNCHANGED <<desired, pool, op, changed, txn, todo>>

\* Mutant: a heal only reconciles what it has changed itself.
NeedsReconcileIfChanged ==
    /\ desired # None
    /\ op # "heal" \/ changed

\* What follows prepareLocked.
NeedsReconcile ==
    /\ desired # None
    /\ op # "heal" \/ changed \/ ~ready \/ desired # applied

\* Both APIs answer: the proxy is prepared.
Prepared ==
    /\ step = "apis" /\ proxy = "running"
    /\ IF op = "startup" \/ (op = "heal" /\ ~NeedsReconcile) THEN Unlock(ready)
       ELSE IF op = "ensure" /\ desired = None THEN Unlock(FALSE)
       ELSE /\ step' = "begin"
            /\ UNCHANGED <<desired, applied, ready, life, pool, op, changed, txn, todo>>
    /\ UNCHANGED <<proxyVars, worldVars, faults>>

----------------------------------------------------------------------------
(* reconcileLocked: one transaction of the Data Plane API, made from the   *)
(* configuration in use.                                                   *)

InTransaction(from, to) ==
    /\ step = from /\ proxy = "running"
    /\ step' = to
    /\ UNCHANGED <<desired, applied, ready, life, pool, op, changed,
                   proxyVars, worldVars, faults>>

StartTransaction ==
    /\ InTransaction("begin", "services")
    /\ txn' = config
    /\ todo' = Listed(desired)

\* The backends of a service, and its TCP frontend.
EnsureService(s) ==
    /\ s \in todo
    /\ InTransaction("services", "services")
    /\ txn' = [txn EXCEPT !.backends = @ \cup {b \in Backends(desired) : b[1] = s},
                          !.tcp = @ \cup ({s} \cap buildTCPProxyConfigs(desired))]
    /\ todo' = todo \ {s}

ReplaceFrontend ==
    /\ todo = {}
    /\ InTransaction("services", "frontend")
    /\ txn' = [txn EXCEPT !.routes = Backends(desired)]
    /\ UNCHANGED todo

\* Mutant: what the new snapshot no longer has stays.
KeepStale ==
    /\ InTransaction("frontend", "commit")
    /\ UNCHANGED <<txn, todo>>

\* The frontends and backends of the configuration in use that the snapshot
\* does not have are deleted.
DeleteStale ==
    /\ InTransaction("frontend", "commit")
    /\ txn' = [txn EXCEPT
          !.tcp = @ \ (config.tcp \ buildTCPProxyConfigs(desired)),
          !.backends = @ \ (config.backends \ Backends(desired))]
    /\ UNCHANGED todo

CommitTransaction ==
    /\ step = "commit" /\ proxy = "running"
    /\ config' = txn
    /\ txn' = None
    /\ step' = "cleanup"
    /\ UNCHANGED <<desired, applied, ready, life, pool, op, changed, todo, proxy, bound,
                   worldVars, faults>>

\* The answer to the commit is lost.
CommitUnanswered ==
    /\ step = "commit" /\ proxy = "running" /\ faults < MaxFaults
    /\ config' = txn
    /\ Fail(op)
    /\ faults' = faults + 1
    /\ UNCHANGED <<proxy, bound, worldVars>>

\* Mutant: a service without a live release counts as gone.
StaleWithoutBackend(snap) == workload \ {b[1] : b \in Backends(snap)}

\* The containers of services the snapshot does not list.
selectStaleManagedContainers(snap) == workload \ Listed(snap)

\* Each removal can fail on its own and is only logged.
CleanupStaleContainers ==
    /\ step = "cleanup"
    /\ \E S \in SUBSET selectStaleManagedContainers(desired) : workload' = workload \ S
    /\ Unlock(TRUE)
    /\ UNCHANGED <<proxyVars, catalogue, inbox, taken, faults, changes>>

Handler ==
    \/ Inspect \/ BootstrapFilesWritten \/ ContainerMatches \/ EnsureManagedContainer
    \/ ContainerDoesNotStart \/ Prepared \/ ProxyUnreachable
    \/ StartTransaction \/ (\E s \in Services : EnsureService(s))
    \/ ReplaceFrontend \/ DeleteStale \/ CommitTransaction \/ CleanupStaleContainers

----------------------------------------------------------------------------
(* The control plane, the host and the agent process.                      *)

\* The catalogue or a live release changes; the new snapshot is sent unless
\* the agent cannot be reached.
CatalogueChanges(s, w) ==
    /\ changes < MaxChanges /\ catalogue[s] # w
    /\ catalogue' = [catalogue EXCEPT ![s] = w]
    /\ changes' = changes + 1
    /\ inbox' = Append(inbox, catalogue')
    /\ UNCHANGED <<agentVars, proxyVars, workload, taken, faults>>

ChangeNotSent(s, w) ==
    /\ changes < MaxChanges /\ catalogue[s] # w /\ faults < MaxFaults
    /\ catalogue' = [catalogue EXCEPT ![s] = w]
    /\ changes' = changes + 1
    /\ faults' = faults + 1
    /\ UNCHANGED <<agentVars, proxyVars, workload, taken, inbox>>

\* An executor starts a workload of a service the catalogue has.
WorkloadStarts(s) ==
    /\ life = "up" /\ ready /\ catalogue[s] # "absent" /\ s \notin workload
    /\ workload' = workload \cup {s}
    /\ UNCHANGED <<agentVars, proxyVars, catalogue, inbox, taken, faults, changes>>

\* Another program takes a pooled port that HAProxy does not hold now.
PortTaken(s) ==
    /\ s \in Pooled \ taken /\ ~(Runs /\ s \in bound) /\ faults < MaxFaults
    /\ taken' = taken \cup {s}
    /\ faults' = faults + 1
    /\ UNCHANGED <<agentVars, proxyVars, catalogue, inbox, workload, changes>>

\* The container of HAProxy stops, leaves its network, or somebody removes it.
ProxyDisturbed ==
    /\ faults < MaxFaults
    /\ \/ proxy = "running" /\ proxy' \in {"stopped", "detached", "absent"}
       \/ proxy = "stopped" /\ proxy' = "absent"
    /\ faults' = faults + 1
    /\ UNCHANGED <<agentVars, bound, config, worldVars>>

\* Its memory is gone; the first snapshot of the new session is the latest.
AgentRestarts ==
    /\ faults < MaxFaults
    /\ desired' = None /\ applied' = None /\ ready' = FALSE /\ life' = "starting"
    /\ UNCHANGED pool
    /\ step' = "free" /\ txn' = None /\ todo' = {} /\ changed' = FALSE
    /\ op' = "startup"
    /\ inbox' = <<catalogue>>
    /\ faults' = faults + 1
    /\ UNCHANGED <<proxyVars, catalogue, workload, taken, changes>>

----------------------------------------------------------------------------

Init ==
    /\ desired = None /\ applied = None /\ ready = FALSE
    /\ life = "starting" /\ pool = {}
    /\ step = "free" /\ op = "startup" /\ changed = FALSE
    /\ txn = None /\ todo = {}
    /\ proxy = "absent" /\ bound = {} /\ config = BootstrapFiles
    /\ catalogue = [s \in Services |-> "absent"]
    /\ inbox = <<catalogue>>
    /\ workload = {} /\ taken \in SUBSET Pooled
    /\ faults = 0 /\ changes = 0

Next ==
    \/ Startup \/ SelfHeal \/ RefuseSnapshot \/ ApplySnapshot \/ EnsureReady
    \/ Handler \/ CallFails \/ CommitUnanswered
    \/ ProxyDisturbed \/ AgentRestarts
    \/ \E s \in Services :
          \/ WorkloadStarts(s) \/ PortTaken(s)
          \/ \E w \in Wanted : CatalogueChanges(s, w) \/ ChangeNotSent(s, w)

\* The agent receives, its ticker ticks and its handlers end.
Spec ==
    /\ Init /\ [][Next]_vars
    /\ WF_vars(Startup) /\ SF_vars(SelfHeal) /\ SF_vars(ApplySnapshot)
    /\ SF_vars(RefuseSnapshot) /\ WF_vars(Handler)

----------------------------------------------------------------------------
(* Properties.                                                             *)

\* Every variable stays within its type.
TypeOK ==
    /\ desired \in Snapshot \cup {None} /\ applied \in Snapshot \cup {None}
    /\ ready \in BOOLEAN /\ changed \in BOOLEAN
    /\ life \in {"starting", "probed", "up"} /\ pool \subseteq Pooled
    /\ step \in Steps /\ op \in Ops
    /\ todo \subseteq Services
    /\ proxy \in {"absent", "stopped", "detached", "running"}
    /\ bound \subseteq Pooled \cup Dedicated
    /\ catalogue \in Snapshot /\ inbox \in Seq(Snapshot)
    /\ workload \subseteq Services /\ taken \subseteq Pooled
    /\ faults \in 0..MaxFaults /\ changes \in 0..MaxChanges

\* When no handler is at work, a stack that calls itself ready has exactly the
\* snapshot it was sent last in HAProxy's configuration: no partial failure,
\* lost answer, rewritten volume or recreated container goes unnoticed.
ReadyMeansApplied ==
    step = "free" /\ ready => applied = desired /\ config = Rendered(desired)

\* A stack is sure of its snapshot while no handler is at work on it.
Abstract == INSTANCE AtomicConfig WITH
                Snapshots <- Snapshot, NoSnapshot <- None, Rendered <- Rendered,
                wanted <- desired, running <- Runs, sure <- ready /\ step = "free"

\* HAProxy never runs on parts of two snapshots, or on a part of one, and never
\* goes back to an older one: the transaction puts the whole of the newest into
\* use or nothing, whichever call fails, and only the files of a proxy that does
\* not run are written over.
SwitchesAtOnce == Abstract!Spec

\* Once nothing changes any more the proxy runs with the snapshot the agent has,
\* unless that snapshot or the pool needs a port the host does not have.
EventuallyApplied ==
    []<>(desired = None \/ ~PortsFree(proxySpec(desired))
         \/ (ready /\ proxy = "running" /\ config = Rendered(desired)))

\* A workload of a service the control plane still has is only removed by an
\* agent that has not been told: its snapshot is not the current catalogue.
WorkloadLostOnlyWhenOutdated ==
    [][\A s \in Services :
          s \in workload /\ s \notin workload' /\ catalogue[s] # "absent"
             => desired # catalogue]_vars
=============================================================================
