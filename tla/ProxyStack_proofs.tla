-------------------------- MODULE ProxyStack_proofs --------------------------
(***************************************************************************)
(* Theorems about ProxyStack, for every set of services, releases and      *)
(* ports, and every number of faults and changes.                          *)
(***************************************************************************)
EXTENDS ProxyStack, SequenceTheorems, TLAPS

----------------------------------------------------------------------------
(* The inductive invariant.                                                *)

Prep == {"inspect", "files", "container", "apis"}
Reconciling == {"begin", "services", "frontend", "commit", "cleanup"}

\* An agent that is not up yet has begun nothing but its startup, and that only
\* prepares.
StartsUp ==
    /\ life # "up" => op = "startup" /\ ready = FALSE
    /\ op = "startup" /\ step # "free" => life # "up" /\ step \in Prep

\* A stack that calls itself ready was brought to the snapshot it has, and its
\* configuration stays what it was as long as prepareLocked rewrites nothing.
Kept ==
    /\ ready => desired # None
    /\ ready /\ step = "free" => applied = desired
    /\ ready /\ (step = "free" \/ (step \in Prep /\ changed = FALSE)) =>
           config = Rendered(applied)

\* The transaction after some of the services were written into it.
Written(done) ==
    [backends |-> config.backends \cup {b \in Backends(desired) : b[1] \in done},
     tcp |-> config.tcp \cup (buildTCPProxyConfigs(desired) \cap done),
     routes |-> config.routes]

\* The handler of a snapshot that has arrived is at work.
Applies == op = "apply" /\ step # "free"

\* How far the open transaction is.
Reconciles ==
    /\ step \in Reconciling \/ Applies => desired \in Snapshot
    /\ step = "services" => todo \subseteq Listed(desired)
                            /\ txn = Written(Listed(desired) \ todo)
    /\ step = "frontend" =>
           txn = [backends |-> config.backends \cup Backends(desired),
                  tcp |-> config.tcp \cup buildTCPProxyConfigs(desired),
                  routes |-> Backends(desired)]
    /\ step = "commit" => txn = Rendered(desired)
    /\ step = "cleanup" => config = Rendered(desired)

\* What is in the volume is what one snapshot asks for, or the base files.
NeverMixed == \E snap \in Snapshot \cup {None} : config = Rendered(snap)

IInv ==
    /\ TypeOK
    /\ StartsUp
    /\ Kept
    /\ Reconciles
    /\ NeverMixed

----------------------------------------------------------------------------
(* Snapshots and configurations.                                           *)

\* Of no snapshot at all the base files are what is left.
LEMMA RenderedNone == Rendered(None) = BootstrapFiles
BY DEF Rendered, None, BootstrapFiles, Backends, buildTCPProxyConfigs, Listed

\* A snapshot says something of at least one service.
LEMMA NoneIsNoSnapshot == None \notin Snapshot
<1>1. DOMAIN None = {}
    BY DEF None
<1>2. \A snap \in Snapshot : DOMAIN snap = Services
    BY DEF Snapshot
<1> QED
    BY <1>1, <1>2, ProxyStackAssumption

\* Only listed services have a backend or a TCP frontend.
LEMMA OnlyListed ==
    ASSUME NEW snap
    PROVE  /\ \A b \in Backends(snap) : b[1] \in Listed(snap)
           /\ buildTCPProxyConfigs(snap) \subseteq Listed(snap)
BY DEF Backends, buildTCPProxyConfigs

\* What is deleted as stale is all that the snapshot does not have.
LEMMA StaleIsGone ==
    ASSUME NEW C, NEW D
    PROVE  (C \cup D) \ (C \ D) = D
OBVIOUS

\* What is listed is a service, and its ports are of the pool or dedicated.
LEMMA PortsType ==
    ASSUME TypeOK
    PROVE  /\ Listed(desired) \subseteq Services
           /\ proxySpec(desired) \subseteq Pooled \cup Dedicated
           /\ probeAvailableTCPHostPorts \subseteq Pooled
<1>1. desired \in Snapshot \/ DOMAIN desired = {}
    BY DEF TypeOK, None
<1>2. Listed(desired) \subseteq Services
    BY <1>1 DEF Listed, Snapshot
<1> QED
    BY <1>2 DEF proxySpec, probeAvailableTCPHostPorts, Unoccupied, boundTCPHostPorts, TypeOK

----------------------------------------------------------------------------
(* A handler begins, or ends.                                              *)

\* What every step that frees the mutex after a failure has in common.
Freed ==
    /\ step' = "free" /\ ready' = FALSE
    /\ desired' = desired /\ applied' = applied /\ pool' = pool
    /\ op' = op /\ changed' = changed
    /\ life' = IF op = "startup" THEN "starting" ELSE life

\* A failure leaves no claim but that the volume has one snapshot.
LEMMA FreedInv ==
    ASSUME IInv, Freed, TypeOK', NeverMixed'
    PROVE  IInv'
<1>1. StartsUp'
    BY DEF IInv, StartsUp, Freed
<1>2. Kept'
    BY DEF Kept, Freed
<1>3. Reconciles'
    BY DEF Reconciles, Reconciling, Applies, Freed
<1> QED
    BY <1>1, <1>2, <1>3 DEF IInv

\* A call that fails frees the mutex.
LEMMA FailFrees ==
    ASSUME Fail(op)
    PROVE  Freed /\ todo' = {}
BY DEF Fail, Freed

\* Freeing the mutex leaves what the agent knows well formed.
LEMMA FreedType ==
    ASSUME TypeOK, Freed, todo' = {}
    PROVE  /\ desired' \in Snapshot \cup {None} /\ applied' \in Snapshot \cup {None}
           /\ ready' \in BOOLEAN /\ changed' \in BOOLEAN
           /\ life' \in {"starting", "probed", "up"} /\ pool' \subseteq Pooled
           /\ step' \in Steps /\ op' \in Ops /\ todo' \subseteq Services
BY DEF TypeOK, Freed, Steps

\* The steps that fail.
LEMMA FailuresInv ==
    ASSUME IInv,
           CallFails \/ ProxyUnreachable \/ ContainerDoesNotStart \/ CommitUnanswered
    PROVE  IInv'
<1>1. TypeOK
    BY DEF IInv
<1>2. Fail(op)
    BY DEF CallFails, ProxyUnreachable, ContainerDoesNotStart, CommitUnanswered
<1>3. Freed /\ todo' = {}
    BY <1>2, FailFrees
<1>4. /\ proxy' \in {"absent", "stopped", "detached", "running"}
      /\ bound' \subseteq Pooled \cup Dedicated
    BY <1>1, PortsType DEF TypeOK, CallFails, ProxyUnreachable, ContainerDoesNotStart,
        CommitUnanswered, proxyVars
<1>5. /\ catalogue' = catalogue /\ inbox' = inbox /\ workload' = workload
      /\ taken' = taken /\ changes' = changes
    BY DEF CallFails, ProxyUnreachable, ContainerDoesNotStart, CommitUnanswered, worldVars
<1>6. faults' \in 0..MaxFaults
    BY <1>1, ProxyStackAssumption DEF TypeOK, CallFails, ProxyUnreachable,
        ContainerDoesNotStart, CommitUnanswered
<1>7. TypeOK'
    BY <1>1, <1>3, <1>4, <1>5, <1>6, FreedType DEF TypeOK
<1>8. NeverMixed'
  <2>1. CASE config' = config
      BY <2>1 DEF IInv, NeverMixed
  <2>2. CASE CommitUnanswered
    <3>1. config' = Rendered(desired) /\ desired \in Snapshot
        BY <2>2 DEF CommitUnanswered, IInv, Reconciles, Reconciling
    <3> QED
        BY <3>1 DEF NeverMixed
  <2> QED
      BY <2>1, <2>2 DEF CallFails, ProxyUnreachable, ContainerDoesNotStart, proxyVars
<1> QED
    BY <1>3, <1>7, <1>8, FreedInv

\* A handler takes the mutex; a snapshot that arrives is the one to apply.
LEMMA BeginsInv ==
    ASSUME IInv, Startup \/ SelfHeal \/ EnsureReady \/ ApplySnapshot
    PROVE  IInv'
<1>1. TypeOK
    BY DEF IInv
<1>2. /\ step = "free" /\ step' = "inspect" /\ changed' = FALSE
      /\ op' \in Ops /\ (op' = "startup" <=> life # "up")
      /\ applied' = applied /\ ready' = ready /\ life' = life /\ pool' = pool
      /\ todo' = todo /\ proxy' = proxy /\ bound' = bound /\ config' = config
      /\ catalogue' = catalogue /\ workload' = workload /\ taken' = taken
      /\ faults' = faults /\ changes' = changes
  <2>1. CASE Startup
      BY <2>1 DEF Startup, Begin, Ops, proxyVars, worldVars
  <2>2. CASE SelfHeal
      BY <2>2 DEF SelfHeal, Begin, Ops, proxyVars, worldVars
  <2>3. CASE EnsureReady
      BY <2>3 DEF EnsureReady, Begin, Ops, proxyVars, worldVars
  <2>4. CASE ApplySnapshot
      BY <2>4 DEF ApplySnapshot, Begin, Ops, proxyVars
  <2> QED
      BY <2>1, <2>2, <2>3, <2>4
<1>3. /\ inbox' \in Seq(Snapshot)
      /\ desired' = desired \/ desired' \in Snapshot
      /\ op' = "apply" => desired' \in Snapshot
  <2>1. CASE ApplySnapshot
    <3>1. inbox \in Seq(Snapshot) /\ inbox # <<>>
        BY <1>1, <2>1 DEF ApplySnapshot, TypeOK
    <3>2. Head(inbox) \in Snapshot /\ Tail(inbox) \in Seq(Snapshot)
        BY <3>1, HeadTailProperties
    <3> QED
        BY <2>1, <3>2 DEF ApplySnapshot
  <2>2. CASE Startup \/ SelfHeal \/ EnsureReady
      BY <1>1, <2>2 DEF Startup, SelfHeal, EnsureReady, Begin, worldVars, TypeOK
  <2> QED
      BY <2>1, <2>2
<1>4. TypeOK'
    BY <1>1, <1>2, <1>3 DEF TypeOK, Steps
<1>5. StartsUp'
    BY <1>2 DEF IInv, StartsUp, Prep
<1>6. Kept'
  <2>1. ready => desired' # None
      BY <1>3, NoneIsNoSnapshot DEF IInv, Kept
  <2> QED
      BY <1>2, <2>1 DEF IInv, Kept
<1>7. Reconciles'
    BY <1>2, <1>3 DEF Reconciles, Reconciling, Applies
<1>8. NeverMixed'
    BY <1>2 DEF IInv, NeverMixed
<1> QED
    BY <1>4, <1>5, <1>6, <1>7, <1>8 DEF IInv

----------------------------------------------------------------------------
(* prepareLocked.                                                          *)

\* The probe, the base files and the container: whatever they make anew is
\* noticed in changed.
LEMMA PrepInv ==
    ASSUME IInv,
           Inspect \/ BootstrapFilesWritten \/ ContainerMatches \/ EnsureManagedContainer
    PROVE  IInv'
<1>1. TypeOK
    BY DEF IInv
<1>2. /\ step \in Prep /\ step' \in Prep
      /\ desired' = desired /\ applied' = applied /\ ready' = ready /\ op' = op
      /\ todo' = todo /\ catalogue' = catalogue /\ inbox' = inbox
      /\ workload' = workload /\ taken' = taken /\ faults' = faults
      /\ changes' = changes
    BY DEF Inspect, BootstrapFilesWritten, ContainerMatches, EnsureManagedContainer, Prep,
        worldVars, proxyVars
<1>3. /\ life' \in {"starting", "probed", "up"} /\ (life' = "up" <=> life = "up")
      /\ pool' \subseteq Pooled
    BY <1>1, PortsType DEF Inspect, BootstrapFilesWritten, ContainerMatches,
        EnsureManagedContainer, TypeOK
<1>4. \/ config' = config /\ (changed' = changed \/ changed' = TRUE)
      \/ config' = BootstrapFiles /\ changed' = TRUE
    BY DEF Inspect, BootstrapFilesWritten, ContainerMatches, EnsureManagedContainer,
        proxyVars
<1>5. /\ proxy' \in {"absent", "stopped", "detached", "running"}
      /\ bound' \subseteq Pooled \cup Dedicated
    BY <1>1, PortsType DEF TypeOK, Inspect, BootstrapFilesWritten, ContainerMatches,
        EnsureManagedContainer, proxyVars
<1>6. TypeOK'
    BY <1>1, <1>2, <1>3, <1>4, <1>5 DEF TypeOK, Steps, Prep
<1>7. StartsUp'
    BY <1>2, <1>3 DEF IInv, StartsUp, Prep
<1>8. Kept'
  <2>1. ready /\ changed' = FALSE => config' = Rendered(applied)
      BY <1>2, <1>4 DEF IInv, Kept
  <2>2. step' # "free"
      BY <1>2 DEF Prep
  <2> QED
      BY <1>2, <2>1, <2>2 DEF IInv, Kept
<1>9. Reconciles'
    BY <1>2 DEF IInv, Reconciles, Reconciling, Applies, Prep
<1>10. NeverMixed'
    BY <1>4, RenderedNone DEF IInv, NeverMixed
<1> QED
    BY <1>6, <1>7, <1>8, <1>9, <1>10 DEF IInv

\* A proxy that answers is reconciled, or left as it is by a heal that finds it
\* as it should be.
LEMMA PreparedInv ==
    ASSUME IInv, Prepared
    PROVE  IInv'
<1>1. TypeOK /\ StartsUp /\ Kept
    BY DEF IInv
<1>2. /\ step = "apis" /\ desired' = desired /\ pool' = pool /\ op' = op
      /\ changed' = changed /\ todo' = todo /\ proxy' = proxy /\ bound' = bound
      /\ config' = config /\ catalogue' = catalogue /\ inbox' = inbox
      /\ workload' = workload /\ taken' = taken /\ faults' = faults
      /\ changes' = changes
    BY DEF Prepared, Unlock, proxyVars, worldVars
<1>3. NeverMixed'
    BY <1>2 DEF IInv, NeverMixed
<1>4. ASSUME NEW r \in BOOLEAN, Unlock(r),
             r => /\ desired # None /\ op # "startup" /\ config = Rendered(desired)
      PROVE  IInv'
  <2>1. /\ step' = "free" /\ ready' = r /\ life' = "up"
        /\ applied' = IF r /\ op # "startup" THEN desired ELSE applied
      BY <1>4 DEF Unlock
  <2>2. TypeOK'
      BY <1>1, <1>2, <2>1 DEF TypeOK, Steps
  <2>3. StartsUp' /\ Kept' /\ Reconciles'
      BY <1>2, <1>4, <2>1 DEF StartsUp, Kept, Reconciles, Reconciling, Applies
  <2> QED
      BY <1>3, <2>2, <2>3 DEF IInv
<1>5. CASE op = "startup"
  <2>1. ready = FALSE /\ Unlock(ready)
      BY <1>1, <1>2, <1>5 DEF StartsUp, Prepared
  <2> QED
      BY <1>4, <2>1
<1>6. CASE op = "heal" /\ ~NeedsReconcile
  <2>1. Unlock(ready) /\ ready \in BOOLEAN
      BY <1>1, <1>6 DEF Prepared, TypeOK
  <2>2. ready => desired # None /\ changed = FALSE /\ desired = applied
      BY <1>1, <1>6 DEF NeedsReconcile, Kept, TypeOK
  <2>3. ready => config = Rendered(desired)
      BY <1>1, <1>2, <2>2 DEF Kept, Prep
  <2> QED
      BY <1>4, <1>6, <2>1, <2>2, <2>3
<1>7. CASE op = "ensure" /\ desired = None
  <2>1. Unlock(FALSE)
      BY <1>7 DEF Prepared
  <2> QED
      BY <1>4, <2>1
<1>8. CASE /\ op # "startup" /\ ~(op = "heal" /\ ~NeedsReconcile)
           /\ ~(op = "ensure" /\ desired = None)
  <2>1. /\ step' = "begin" /\ applied' = applied /\ ready' = ready /\ life' = life
      BY <1>8 DEF Prepared
  <2>2. TypeOK'
      BY <1>1, <1>2, <2>1 DEF TypeOK, Steps
  <2>3. StartsUp' /\ Kept'
      BY <1>1, <1>2, <1>8, <2>1 DEF StartsUp, Kept, Prep
  <2>4. desired \in Snapshot
    <3>1. CASE op = "heal"
        BY <1>1, <1>8, <3>1 DEF NeedsReconcile, TypeOK
    <3>2. CASE op = "ensure"
        BY <1>1, <1>8, <3>2 DEF TypeOK
    <3>3. CASE op = "apply"
        BY <1>1, <1>2, <3>3 DEF IInv, Reconciles, Applies
    <3> QED
        BY <1>1, <1>8, <3>1, <3>2, <3>3 DEF TypeOK, Ops
  <2>5. Reconciles'
      BY <1>2, <2>1, <2>4 DEF Reconciles
  <2> QED
      BY <1>3, <2>2, <2>3, <2>5 DEF IInv
<1> QED
    BY <1>5, <1>6, <1>7, <1>8

----------------------------------------------------------------------------
(* reconcileLocked.                                                        *)

\* What the steps inside the transaction leave alone.
LEMMA InTransactionKeeps ==
    ASSUME IInv, NEW from \in Reconciling, NEW to \in Reconciling,
           InTransaction(from, to), todo' \subseteq Services, Reconciles'
    PROVE  IInv'
<1>1. /\ step = from /\ step' = to
      /\ desired' = desired /\ applied' = applied /\ ready' = ready /\ life' = life
      /\ pool' = pool /\ op' = op /\ changed' = changed /\ proxy' = proxy
      /\ bound' = bound /\ config' = config /\ catalogue' = catalogue
      /\ inbox' = inbox /\ workload' = workload /\ taken' = taken
      /\ faults' = faults /\ changes' = changes
    BY DEF InTransaction, proxyVars, worldVars
<1>2. from \notin Prep \cup {"free"} /\ to \notin Prep \cup {"free"} /\ to \in Steps
    BY DEF Prep, Reconciling, Steps
<1>3. TypeOK'
    BY <1>1, <1>2 DEF IInv, TypeOK
<1>4. StartsUp' /\ Kept'
    BY <1>1, <1>2 DEF IInv, StartsUp, Kept
<1>5. NeverMixed'
    BY <1>1 DEF IInv, NeverMixed
<1> QED
    BY <1>3, <1>4, <1>5 DEF IInv

\* The transaction is made from the configuration in use, and each service adds
\* its own to it.
LEMMA ServicesInv ==
    ASSUME IInv, StartTransaction \/ \E s \in Services : EnsureService(s)
    PROVE  IInv'
<1>1. TypeOK /\ Reconciles /\ Listed(desired) \subseteq Services
    BY PortsType DEF IInv
<1>2. CASE StartTransaction
  <2>1. /\ InTransaction("begin", "services") /\ txn' = config /\ todo' = Listed(desired)
        /\ desired' = desired /\ config' = config /\ step = "begin"
        /\ step' = "services"
      BY <1>2 DEF StartTransaction, InTransaction, proxyVars
  <2>2. desired \in Snapshot
      BY <1>1, <2>1 DEF Reconciles, Reconciling, Applies
  <2>3. config = Written({})
    <3>1. PICK snap : config = Rendered(snap)
        BY DEF IInv, NeverMixed
    <3> QED
        BY <3>1 DEF Rendered, Written
  <2>4. Reconciles'
    <3>1. Listed(desired) \ todo' = {}
        BY <2>1
    <3>2. txn' = Written(Listed(desired) \ todo)'
        BY <2>1, <2>3, <3>1 DEF Written
    <3> QED
        BY <2>1, <2>2, <3>2 DEF Reconciles, Applies
  <2> QED
      BY <1>1, <2>1, <2>4, InTransactionKeeps DEF Reconciling
<1>3. ASSUME NEW s \in Services, EnsureService(s) PROVE IInv'
  <2>1. /\ InTransaction("services", "services") /\ s \in todo /\ todo' = todo \ {s}
        /\ txn' = [txn EXCEPT
              !.backends = @ \cup {b \in Backends(desired) : b[1] = s},
              !.tcp = @ \cup ({s} \cap buildTCPProxyConfigs(desired))]
        /\ desired' = desired /\ config' = config /\ step = "services"
        /\ step' = "services"
      BY <1>3 DEF EnsureService, InTransaction, proxyVars
  <2>2. /\ desired \in Snapshot /\ todo \subseteq Listed(desired)
        /\ txn = Written(Listed(desired) \ todo)
      BY <1>1, <2>1 DEF Reconciles, Reconciling, Applies
  <2>3. Listed(desired) \ todo' = (Listed(desired) \ todo) \cup {s}
      BY <2>1, <2>2
  <2>4. txn' = Written((Listed(desired) \ todo) \cup {s})
    <3> DEFINE done == Listed(desired) \ todo
    <3>1. /\ txn'.backends = txn.backends \cup {b \in Backends(desired) : b[1] = s}
          /\ txn'.tcp = txn.tcp \cup ({s} \cap buildTCPProxyConfigs(desired))
          /\ txn'.routes = txn.routes
          /\ txn' = [backends |-> txn'.backends, tcp |-> txn'.tcp,
                     routes |-> txn'.routes]
        BY <2>1, <2>2 DEF Written
    <3>2. /\ txn.backends = config.backends \cup {b \in Backends(desired) : b[1] \in done}
          /\ txn.tcp = config.tcp \cup (buildTCPProxyConfigs(desired) \cap done)
          /\ txn.routes = config.routes
        BY <2>2 DEF Written
    <3> HIDE DEF done
    <3>3. /\ txn'.backends =
                config.backends \cup {b \in Backends(desired) : b[1] \in done \cup {s}}
          /\ txn'.tcp =
                config.tcp \cup (buildTCPProxyConfigs(desired) \cap (done \cup {s}))
        BY <3>1, <3>2
    <3>4. txn' = Written(done \cup {s})
        BY <3>1, <3>2, <3>3 DEF Written
    <3> QED
        BY <3>4 DEF done
  <2>5. Reconciles'
    <3>1. txn' = Written(Listed(desired) \ todo)'
        BY <2>1, <2>3, <2>4 DEF Written
    <3> QED
        BY <2>1, <2>2, <3>1 DEF Reconciles, Applies
  <2> QED
      BY <1>1, <2>1, <2>2, <2>5, InTransactionKeeps DEF Reconciling
<1> QED
    BY <1>2, <1>3

\* The routes are replaced and what is stale is deleted: what is left is the
\* snapshot.
LEMMA FrontendInv ==
    ASSUME IInv, ReplaceFrontend \/ DeleteStale
    PROVE  IInv'
<1>1. TypeOK /\ Reconciles
    BY DEF IInv
<1>2. CASE ReplaceFrontend
  <2>1. /\ InTransaction("services", "frontend") /\ todo = {} /\ todo' = todo
        /\ txn' = [txn EXCEPT !.routes = Backends(desired)]
        /\ desired' = desired /\ config' = config /\ step = "services"
        /\ step' = "frontend"
      BY <1>2 DEF ReplaceFrontend, InTransaction, proxyVars
  <2>2. desired \in Snapshot /\ txn = Written(Listed(desired))
      BY <1>1, <2>1 DEF Reconciles, Reconciling, Applies
  <2>3. /\ {b \in Backends(desired) : b[1] \in Listed(desired)} = Backends(desired)
        /\ buildTCPProxyConfigs(desired) \cap Listed(desired) = buildTCPProxyConfigs(desired)
      BY OnlyListed
  <2>4. txn = [backends |-> config.backends \cup Backends(desired),
               tcp |-> config.tcp \cup buildTCPProxyConfigs(desired),
               routes |-> config.routes]
      BY <2>2, <2>3 DEF Written
  <2>5. txn' = [backends |-> config.backends \cup Backends(desired),
                tcp |-> config.tcp \cup buildTCPProxyConfigs(desired),
                routes |-> Backends(desired)]
      BY <2>1, <2>4
  <2>6. Reconciles'
      BY <2>1, <2>2, <2>5 DEF Reconciles
  <2> QED
      BY <1>1, <2>1, <2>6, InTransactionKeeps DEF Reconciling, TypeOK
<1>3. CASE DeleteStale
  <2>1. /\ InTransaction("frontend", "commit") /\ todo' = todo
        /\ txn' = [txn EXCEPT
              !.tcp = @ \ (config.tcp \ buildTCPProxyConfigs(desired)),
              !.backends = @ \ (config.backends \ Backends(desired))]
        /\ desired' = desired /\ config' = config /\ step = "frontend"
        /\ step' = "commit"
      BY <1>3 DEF DeleteStale, InTransaction, proxyVars
  <2>2. /\ desired \in Snapshot
        /\ txn = [backends |-> config.backends \cup Backends(desired),
                  tcp |-> config.tcp \cup buildTCPProxyConfigs(desired),
                  routes |-> Backends(desired)]
      BY <1>1, <2>1 DEF Reconciles, Reconciling, Applies
  <2>3. txn' = [backends |-> (config.backends \cup Backends(desired))
                                 \ (config.backends \ Backends(desired)),
                tcp |-> (config.tcp \cup buildTCPProxyConfigs(desired))
                            \ (config.tcp \ buildTCPProxyConfigs(desired)),
                routes |-> Backends(desired)]
      BY <2>1, <2>2
  <2>4. txn' = Rendered(desired)
      BY <2>3, StaleIsGone DEF Rendered
  <2>5. Reconciles'
      BY <2>1, <2>2, <2>4 DEF Reconciles
  <2> QED
      BY <1>1, <2>1, <2>5, InTransactionKeeps DEF Reconciling, TypeOK
<1> QED
    BY <1>2, <1>3

\* The commit puts the snapshot into use; the handler ends after the cleanup.
LEMMA CommitInv ==
    ASSUME IInv, CommitTransaction \/ CleanupStaleContainers
    PROVE  IInv'
<1>1. TypeOK /\ StartsUp /\ Reconciles
    BY DEF IInv
<1>2. CASE CommitTransaction
  <2>1. /\ step = "commit" /\ step' = "cleanup" /\ config' = Rendered(desired)
        /\ desired' = desired /\ desired \in Snapshot
      BY <1>1, <1>2 DEF CommitTransaction, Reconciles, Reconciling
  <2>2. TypeOK'
      BY <1>1, <1>2 DEF CommitTransaction, TypeOK, Steps, worldVars
  <2>3. StartsUp' /\ Kept'
      BY <1>2 DEF IInv, CommitTransaction, StartsUp, Kept, Prep
  <2>4. Reconciles' /\ NeverMixed'
      BY <2>1 DEF Reconciles, NeverMixed
  <2> QED
      BY <2>2, <2>3, <2>4 DEF IInv
<1>3. CASE CleanupStaleContainers
  <2>1. /\ step = "cleanup" /\ step' = "free" /\ ready' = TRUE /\ life' = "up"
        /\ applied' = IF op # "startup" THEN desired ELSE applied
        /\ desired' = desired /\ pool' = pool /\ op' = op /\ changed' = changed
        /\ todo' = todo /\ proxy' = proxy /\ bound' = bound /\ config' = config
        /\ catalogue' = catalogue /\ inbox' = inbox /\ taken' = taken
        /\ faults' = faults /\ changes' = changes
      BY <1>3 DEF CleanupStaleContainers, Unlock, proxyVars
  <2>2. op # "startup" /\ desired \in Snapshot /\ config = Rendered(desired)
      BY <1>1, <2>1 DEF StartsUp, Reconciles, Reconciling, Prep
  <2>3. workload' \subseteq workload
      BY <1>3 DEF CleanupStaleContainers
  <2>4. TypeOK'
      BY <1>1, <2>1, <2>3 DEF TypeOK, Steps
  <2>5. StartsUp' /\ Reconciles'
      BY <2>1 DEF StartsUp, Reconciles, Reconciling, Applies
  <2>6. Kept'
      BY <2>1, <2>2, NoneIsNoSnapshot DEF Kept
  <2>7. NeverMixed'
      BY <2>1 DEF IInv, NeverMixed
  <2> QED
      BY <2>4, <2>5, <2>6, <2>7 DEF IInv
<1> QED
    BY <1>2, <1>3

----------------------------------------------------------------------------
(* The world.                                                              *)

\* What the control plane, the host and other programs do.
LEMMA WorldInv ==
    ASSUME IInv,
           \/ ProxyDisturbed
           \/ \E s \in Services :
                 \/ WorkloadStarts(s) \/ PortTaken(s)
                 \/ \E w \in Wanted : CatalogueChanges(s, w) \/ ChangeNotSent(s, w)
    PROVE  IInv'
<1>1. TypeOK
    BY DEF IInv
<1>2. /\ desired' = desired /\ applied' = applied /\ ready' = ready /\ life' = life
      /\ pool' = pool /\ step' = step /\ op' = op /\ changed' = changed /\ txn' = txn
      /\ todo' = todo /\ config' = config /\ bound' = bound
    BY DEF ProxyDisturbed, WorkloadStarts, PortTaken, CatalogueChanges, ChangeNotSent,
        agentVars, proxyVars
<1>3. faults' \in 0..MaxFaults /\ changes' \in 0..MaxChanges
    BY <1>1, ProxyStackAssumption DEF TypeOK, ProxyDisturbed, WorkloadStarts, PortTaken,
        CatalogueChanges, ChangeNotSent, worldVars
<1>4. catalogue' \in Snapshot
    BY <1>1 DEF TypeOK, Snapshot, ProxyDisturbed, WorkloadStarts, PortTaken,
        CatalogueChanges, ChangeNotSent, worldVars
<1>5. inbox' \in Seq(Snapshot)
  <2>1. inbox' = inbox \/ inbox' = Append(inbox, catalogue')
      BY DEF ProxyDisturbed, WorkloadStarts, PortTaken, CatalogueChanges, ChangeNotSent,
          worldVars
  <2>2. Append(inbox, catalogue') \in Seq(Snapshot)
      BY <1>1, <1>4, AppendProperties DEF TypeOK
  <2> QED
      BY <1>1, <2>1, <2>2 DEF TypeOK
<1>6. /\ workload' \subseteq Services /\ taken' \subseteq Pooled
      /\ proxy' \in {"absent", "stopped", "detached", "running"}
    BY <1>1 DEF TypeOK, ProxyDisturbed, WorkloadStarts, PortTaken, CatalogueChanges,
        ChangeNotSent, worldVars, proxyVars
<1>7. TypeOK'
    BY <1>1, <1>2, <1>3, <1>4, <1>5, <1>6 DEF TypeOK
<1>8. StartsUp' /\ Kept' /\ NeverMixed'
    BY <1>2 DEF IInv, StartsUp, Kept, NeverMixed
<1>9. Reconciles'
    BY <1>2 DEF IInv, Applies, Reconciles, Written
<1> QED
    BY <1>7, <1>8, <1>9 DEF IInv

\* A snapshot that is refused, and a new process of the agent, leave a stack
\* that is not ready.
LEMMA NotReadyInv ==
    ASSUME IInv, RefuseSnapshot \/ AgentRestarts
    PROVE  IInv'
<1>1. TypeOK
    BY DEF IInv
<1>2. step' = "free" /\ ready' = FALSE /\ config' = config
    BY DEF RefuseSnapshot, AgentRestarts, proxyVars
<1>3. inbox' \in Seq(Snapshot)
  <2>1. CASE RefuseSnapshot
    <3>1. inbox \in Seq(Snapshot) /\ inbox # <<>> /\ inbox' = Tail(inbox)
        BY <1>1, <2>1 DEF RefuseSnapshot, TypeOK
    <3> QED
        BY <3>1, HeadTailProperties
  <2>2. CASE AgentRestarts
      BY <1>1, <2>2 DEF AgentRestarts, TypeOK
  <2> QED
      BY <2>1, <2>2
<1>4. TypeOK'
  <2>1. CASE RefuseSnapshot
      BY <1>1, <1>3, <2>1 DEF RefuseSnapshot, TypeOK, proxyVars
  <2>2. CASE AgentRestarts
    <3>1. faults' \in 0..MaxFaults
        BY <1>1, <2>2, ProxyStackAssumption DEF AgentRestarts, TypeOK
    <3>2. /\ step' \in Steps /\ op' \in Ops /\ todo' \subseteq Services
          /\ ready' \in BOOLEAN /\ changed' \in BOOLEAN
        BY <2>2 DEF AgentRestarts, Steps, Ops
    <3> QED
        BY <1>1, <1>3, <2>2, <3>1, <3>2 DEF AgentRestarts, TypeOK, proxyVars
  <2> QED
      BY <2>1, <2>2
<1>5. StartsUp'
    BY <1>2 DEF IInv, StartsUp, RefuseSnapshot, AgentRestarts
<1>6. Kept' /\ Reconciles' /\ NeverMixed'
    BY <1>2 DEF IInv, Kept, Reconciles, Reconciling, Applies, NeverMixed
<1> QED
    BY <1>4, <1>5, <1>6 DEF IInv

----------------------------------------------------------------------------
(* The theorems.                                                           *)

\* An agent that starts has nothing, and its volume the base files.
LEMMA InitInv == Init => IInv
<1> SUFFICES ASSUME Init PROVE IInv
    OBVIOUS
<1>1. catalogue \in Snapshot /\ inbox = <<catalogue>>
    BY DEF Init, Snapshot, Wanted
<1>2. TypeOK
  <2>1. /\ ready \in BOOLEAN /\ changed \in BOOLEAN
        /\ step \in Steps /\ op \in Ops /\ todo \subseteq Services
      BY DEF Init, Steps, Ops
  <2>2. faults \in 0..MaxFaults /\ changes \in 0..MaxChanges
      BY ProxyStackAssumption DEF Init
  <2>3. /\ pool \subseteq Pooled /\ bound \subseteq Pooled \cup Dedicated
        /\ workload \subseteq Services /\ taken \subseteq Pooled
      BY DEF Init
  <2> QED
      BY <1>1, <2>1, <2>2, <2>3 DEF Init, TypeOK
<1>3. StartsUp /\ Kept /\ Reconciles
    BY DEF Init, StartsUp, Kept, Reconciles, Reconciling, Applies
<1>4. NeverMixed
    BY RenderedNone DEF Init, NeverMixed
<1> QED
    BY <1>2, <1>3, <1>4 DEF IInv

\* Every step of the handlers and of the world keeps the invariant.
LEMMA NextInv == IInv /\ [Next]_vars => IInv'
<1> SUFFICES ASSUME IInv, [Next]_vars PROVE IInv'
    OBVIOUS
<1>1. CASE UNCHANGED vars
    BY <1>1 DEF vars, IInv, TypeOK, StartsUp, Kept, Applies, Reconciles, Written, NeverMixed
<1>2. CASE Handler
    BY <1>2, PrepInv, PreparedInv, ServicesInv, FrontendInv, CommitInv, FailuresInv
    DEF Handler
<1>3. CASE Next /\ ~Handler
    BY <1>3, BeginsInv, NotReadyInv, FailuresInv, WorldInv DEF Next
<1> QED
    BY <1>1, <1>2, <1>3

\* The handlers under the mutex of the stack keep IInv, whatever fails between
\* two of their calls.
THEOREM Inductive == Spec => []IInv
<1>1. Init => IInv
    BY InitInv
<1>2. IInv /\ [Next]_vars => IInv'
    BY NextInv
<1> QED
    BY <1>1, <1>2, PTL DEF Spec

\* The memory of the stack, its container and the snapshots stay well formed.
THEOREM TypeCorrect == Spec => []TypeOK
<1>1. IInv => TypeOK
    BY DEF IInv
<1> QED
    BY <1>1, Inductive, PTL

\* A stack that reports itself ready has applied exactly the snapshot it has
\* (reconcileLocked, prepareLocked and the self-heal).
THEOREM ReadyIsApplied == Spec => []ReadyMeansApplied
<1>1. IInv => ReadyMeansApplied
    BY DEF IInv, Kept, ReadyMeansApplied
<1> QED
    BY <1>1, Inductive, PTL

\* The transaction of the Data Plane API puts whole snapshots into use.
THEOREM OneSnapshot == Spec => []NeverMixed
<1>1. IInv => NeverMixed
    BY DEF IInv
<1> QED
    BY <1>1, Inductive, PTL

\* cleanupStaleContainers removes a workload that the control plane still wants
\* only when the agent's snapshot is not the current one.
THEOREM WorkloadNeedsOutdated == Spec => WorkloadLostOnlyWhenOutdated
<1> DEFINE P == \A s \in Services :
                    s \in workload /\ s \notin workload' /\ catalogue[s] # "absent"
                        => desired # catalogue
<1>1. IInv /\ [Next]_vars => [P]_vars
  <2> SUFFICES ASSUME IInv, Next,
                      NEW s \in Services, s \in workload, s \notin workload',
                      catalogue[s] # "absent", desired = catalogue
               PROVE  FALSE
      OBVIOUS
  <2>1. CleanupStaleContainers
      BY DEF Next, Handler, Startup, SelfHeal, RefuseSnapshot, ApplySnapshot, EnsureReady,
          CallFails, CommitUnanswered, ProxyDisturbed, AgentRestarts, WorkloadStarts,
          PortTaken, CatalogueChanges, ChangeNotSent, Inspect, BootstrapFilesWritten,
          ContainerMatches, EnsureManagedContainer, ContainerDoesNotStart, Prepared,
          ProxyUnreachable, StartTransaction, EnsureService, ReplaceFrontend, DeleteStale,
          CommitTransaction, InTransaction, worldVars
  <2>2. s \notin Listed(desired)
      BY <2>1 DEF CleanupStaleContainers, selectStaleManagedContainers
  <2>3. DOMAIN catalogue = Services
      BY DEF IInv, TypeOK, Snapshot
  <2> QED
      BY <2>2, <2>3 DEF Listed
<1> QED
    BY <1>1, Inductive, PTL DEF Spec, WorkloadLostOnlyWhenOutdated

----------------------------------------------------------------------------
(* The configuration is switched at once.                                  *)

\* The stack is sure of its snapshot.
Sure == ready /\ step = "free"

\* A step that leaves the snapshot, the configuration and the container alone
\* changes no more than what the agent is sure of.
LEMMA OnlyMindChanges ==
    ASSUME IInv', desired' = desired, config' = config, proxy' = proxy
    PROVE  Abstract!Next
<1>1. Runs' = Runs
    BY DEF Runs
<1>2. CASE Sure'
  <2>1. desired' \in Snapshot /\ config' = Rendered(desired')
      BY <1>2 DEF IInv, TypeOK, Kept, Sure
  <2> QED
      BY <1>1, <1>2, <2>1 DEF Abstract!Next, Abstract!BecomeSure, Sure
<1>3. CASE ~Sure'
    BY <1>1, <1>3 DEF Abstract!Next, Abstract!BecomeUnsure, Sure
<1> QED
    BY <1>2, <1>3

\* Most steps do.
LEMMA QuietSteps ==
    ASSUME \/ Startup \/ SelfHeal \/ EnsureReady \/ RefuseSnapshot \/ CallFails
           \/ ProxyUnreachable \/ Inspect \/ ContainerMatches \/ Prepared
           \/ StartTransaction \/ ReplaceFrontend \/ DeleteStale \/ CleanupStaleContainers
           \/ \E s \in Services : \/ EnsureService(s) \/ WorkloadStarts(s) \/ PortTaken(s)
                                  \/ \E w \in Wanted : CatalogueChanges(s, w) \/ ChangeNotSent(s, w)
    PROVE  desired' = desired /\ config' = config /\ proxy' = proxy
<1>1. CASE \/ Startup \/ SelfHeal \/ EnsureReady \/ RefuseSnapshot \/ CallFails
           \/ ProxyUnreachable \/ Inspect \/ ContainerMatches
    BY <1>1 DEF Startup, SelfHeal, EnsureReady, RefuseSnapshot, CallFails, ProxyUnreachable,
        Inspect, ContainerMatches, Fail, proxyVars
<1>2. CASE \/ Prepared \/ StartTransaction \/ ReplaceFrontend \/ DeleteStale
           \/ CleanupStaleContainers \/ \E s \in Services : EnsureService(s)
    BY <1>2 DEF Prepared, Unlock, StartTransaction, ReplaceFrontend, DeleteStale,
        CleanupStaleContainers, EnsureService, InTransaction, proxyVars
<1>3. CASE \E s \in Services : \/ WorkloadStarts(s) \/ PortTaken(s)
                               \/ \E w \in Wanted : CatalogueChanges(s, w) \/ ChangeNotSent(s, w)
    BY <1>3 DEF WorkloadStarts, PortTaken, CatalogueChanges, ChangeNotSent, agentVars, proxyVars
<1> QED
    BY <1>1, <1>2, <1>3

\* Every step of the handlers and of the world is one of AtomicConfig, or none.
LEMMA StepSwitches ==
    ASSUME IInv, IInv', [Next]_vars
    PROVE  [Abstract!Next]_(Abstract!abstractVars)
<1>1. CASE UNCHANGED vars
    BY <1>1 DEF vars, Abstract!abstractVars, Runs
<1>2. CASE desired' = desired /\ config' = config /\ proxy' = proxy
    BY <1>2, OnlyMindChanges
<1>3. CASE ApplySnapshot
  <2>1. desired' \in Snapshot
    <3>1. Reconciles' /\ Applies'
        BY <1>3 DEF IInv, ApplySnapshot, Begin, Applies
    <3> QED
        BY <3>1 DEF Reconciles
  <2>2. ~Sure' /\ config' = config /\ Runs' = Runs
      BY <1>3 DEF ApplySnapshot, Begin, Sure, Runs, proxyVars
  <2> QED
      BY <2>1, <2>2 DEF Abstract!Next, Abstract!Receive, Sure
<1>4. CASE AgentRestarts
  <2>1. desired' = None /\ ~Sure' /\ config' = config /\ Runs' = Runs
      BY <1>4 DEF AgentRestarts, Sure, Runs, proxyVars
  <2> QED
      BY <2>1 DEF Abstract!Next, Abstract!Forget, Sure
<1>5. CASE BootstrapFilesWritten
  <2>1. ~Sure /\ ~Sure' /\ desired' = desired /\ Runs' = Runs
      BY <1>5 DEF BootstrapFilesWritten, Sure, Runs
  <2>2. CASE Runs
      BY <1>5, <2>1, <2>2 DEF BootstrapFilesWritten, Abstract!abstractVars, Sure
  <2>3. CASE ~Runs
    <3>1. config' = Rendered(None)
        BY <1>5, <2>3, RenderedNone DEF BootstrapFilesWritten
    <3> QED
        BY <2>1, <2>3, <3>1 DEF Abstract!Next, Abstract!StartOver, Sure
  <2> QED
      BY <2>2, <2>3
<1>6. CASE EnsureManagedContainer
  <2>1. ~Sure /\ ~Sure' /\ Runs' /\ desired' = desired /\ config' = config
      BY <1>6 DEF EnsureManagedContainer, Sure, Runs
  <2> QED
      BY <2>1 DEF Abstract!Next, Abstract!Start, Sure
<1>7. CASE ContainerDoesNotStart
  <2>1. ~Sure /\ ~Sure' /\ ~Runs' /\ desired' = desired /\ config' = config
      BY <1>7 DEF ContainerDoesNotStart, Fail, Sure, Runs
  <2> QED
      BY <2>1 DEF Abstract!Next, Abstract!Stop, Sure
<1>8. CASE CommitTransaction \/ CommitUnanswered
  <2>1. Runs /\ Runs' /\ ~Sure /\ ~Sure' /\ desired' = desired /\ config' = txn
      BY <1>8 DEF CommitTransaction, CommitUnanswered, Fail, Sure, Runs
  <2>2. desired \in Snapshot /\ txn = Rendered(desired)
    <3>1. step = "commit"
        BY <1>8 DEF CommitTransaction, CommitUnanswered
    <3> QED
        BY <3>1 DEF IInv, Reconciles, Reconciling
  <2> QED
      BY <2>1, <2>2 DEF Abstract!Next, Abstract!Switch, Sure
<1>9. CASE ProxyDisturbed
  <2>1. (Sure' <=> Sure) /\ desired' = desired /\ config' = config
      BY <1>9 DEF ProxyDisturbed, agentVars, Sure
  <2>2. ~Runs' \/ (Runs /\ Runs')
      BY <1>9 DEF ProxyDisturbed, Runs
  <2>3. CASE ~Runs'
      BY <2>1, <2>3 DEF Abstract!Next, Abstract!Stop, Sure
  <2>4. CASE Runs /\ Runs'
      BY <2>1, <2>4 DEF Abstract!abstractVars, Sure
  <2> QED
      BY <2>2, <2>3, <2>4
<1> QED
    BY <1>1, <1>2, <1>3, <1>4, <1>5, <1>6, <1>7, <1>8, <1>9, QuietSteps DEF Next, Handler

\* Whichever call of a handler fails (reconcileLocked, prepareLocked), and whatever
\* stops or removes the container, a running HAProxy goes in one step from the
\* whole of a snapshot to the whole of the one the agent received last.
THEOREM SwitchedAtOnce == Spec => SwitchesAtOnce
<1>1. Init => Abstract!Init
    BY RenderedNone DEF Init, Abstract!Init, Runs
<1>2. IInv /\ IInv' /\ [Next]_vars => [Abstract!Next]_(Abstract!abstractVars)
    BY StepSwitches
<1> QED
    BY <1>1, <1>2, Inductive, PTL DEF Spec, SwitchesAtOnce, Abstract!Spec
=============================================================================
