------------------------------ MODULE Catalogue ------------------------------
(***************************************************************************)
(* The service catalogue (servicecatalog/application/service.go): what an  *)
(* administrator may create, update and delete, the checks that keep the   *)
(* routes and host ports of an agent's services apart, and the row that    *)
(* Update writes back over a switch.  Every check reads the rows before    *)
(* the change is stored; other handlers run in between.                    *)
(*                                                                         *)
(* Of a release only what the catalogue and the proxy see is kept: the     *)
(* instance in each slot, and whether the one beside the live one is a     *)
(* candidate.                                                              *)
(***************************************************************************)
EXTENDS Naturals, Sequences, FiniteSets

CONSTANTS
    Services,         \* services of one agent
    Forms,            \* what a request may ask for: [route, published, tcp, enabled]
    Reserved,         \* host ports of the proxy itself
    Pool,             \* ports of the range the agent binds in advance
    Prebound,         \* those it has bound
    Admins,           \* administrators, each with one request at a time
    MaxReleases       \* bound: releases ever deployed

ASSUME CatalogueAssumption ==
    /\ MaxReleases \in Nat \ {0} /\ Services # {}
    /\ Prebound \subseteq Pool

Blue == 1
Green == 2
Slots == {Blue, Green}
ReleaseIds == 1..MaxReleases

VARIABLES
    row,          \* the stored service: its state, its form and its live slot
    edit,         \* the request of each administrator that is under way
    instance,     \* the release whose instance is in each slot, or 0
    candidate,    \* "none", "ready" or "split"
    target,       \* the slot the candidate was deployed to
    released,     \* releases so far
    confirmed,    \* the slot that was last switched to
    overlapped,   \* its last switch was stored while an update was under way
    raced         \* pairs of services changed at the same time, ever

catalogueVars == <<row, edit, instance, candidate, target, released, confirmed,
                   overlapped, raced>>
releaseVars == <<instance, candidate, target, released>>

NoForm == [route |-> [hosts |-> {}, prefix |-> <<>>], published |-> {}, tcp |-> {},
           enabled |-> FALSE]
NoEdit == [kind |-> "none", service |-> CHOOSE s \in Services : TRUE,
           form |-> NoForm, live |-> 0]

nextSlot(slot) == IF slot = Blue THEN Green ELSE Blue
normalizeLiveSlot(slot) == IF slot = 0 THEN Blue ELSE slot

----------------------------------------------------------------------------
(* The checks of a request.                                                *)

\* validatePublishedPorts, validateTCPProxyPorts and validateHostPortSets.
Valid(f) ==
    /\ f.published \cap Reserved = {} /\ f.tcp \cap Reserved = {}
    /\ f.published \cap f.tcp = {}

Others(s) == {t \in Services : t # s /\ row[t].state = "stored"}

\* Mutant: a route counts as taken only by an enabled service.
RouteAvailableAmongEnabled(s, f) ==
    \A t \in Others(s) :
        row[t].form.enabled /\ row[t].form.route.prefix = f.route.prefix =>
            row[t].form.route.hosts \cap f.route.hosts = {}

\* ensureRouteAvailable: another service of the agent, enabled or not, may not
\* have the same path prefix on one of the hosts.
ensureRouteAvailable(s, f) ==
    \A t \in Others(s) :
        row[t].form.route.prefix = f.route.prefix =>
            row[t].form.route.hosts \cap f.route.hosts = {}

\* ensureHostPortsAvailable: ports the agent has bound in advance are for
\* proxied ports only, and of its range only those; others must be free.
ensureHostPortsAvailable(s, f) ==
    /\ f.published \cap Prebound = {}
    /\ f.tcp \cap Pool \subseteq Prebound
    /\ \A t \in Others(s) :
          (f.published \cup f.tcp) \cap (row[t].form.published \cup row[t].form.tcp) = {}

Acceptable(s, f) ==
    Valid(f) /\ ensureRouteAvailable(s, f) /\ ensureHostPortsAvailable(s, f)

----------------------------------------------------------------------------
(* The handlers.  The first part reads and checks, Store writes; nothing   *)
(* keeps two administrators from changing one service at the same time.    *)

\* Bound: once the last release is deployed, requests come one at a time.
UnderWay == {a \in Admins : edit[a].kind # "none"}
MayBegin == UnderWay = {} \/ released < MaxReleases

\* The services that a row is about to be written for.
Busy == {edit[a].service : a \in {b \in Admins : edit[b].kind \in {"create", "update"}}}

Begin(a, kind, s, f, live) ==
    /\ edit[a].kind = "none" /\ MayBegin
    /\ Acceptable(s, f)
    /\ edit' = [edit EXCEPT ![a] = [kind |-> kind, service |-> s, form |-> f, live |-> live]]
    /\ raced' = raced \cup {{s, t} : t \in Busy \ {s}}
    /\ UNCHANGED <<row, releaseVars, confirmed, overlapped>>

Create(a, s) ==
    row[s].state = "new" /\ \E f \in Forms : Begin(a, "create", s, f, 0)

\* Mutant: an update starts from blue instead of the slot it has read.
UpdateFromBlue(a, s) ==
    row[s].state = "stored" /\ \E f \in Forms : Begin(a, "update", s, f, Blue)

\* Update copies the live slot it has read into the row it is going to save.
Update(a, s) ==
    row[s].state = "stored" /\ \E f \in Forms : Begin(a, "update", s, f, row[s].live)

\* No release of the service may be under way or split its traffic; one that is
\* ready without a share of the traffic does not count (HasActiveRelease).
ensureServiceDeletable(s) == candidate[s] # "split"

\* Delete looks at the releases and not at the other requests.
Delete(a, s) ==
    /\ edit[a].kind = "none" /\ MayBegin
    /\ row[s].state = "stored" /\ ensureServiceDeletable(s)
    /\ edit' = [edit EXCEPT ![a] = [NoEdit EXCEPT !.kind = "delete", !.service = s]]
    /\ UNCHANGED <<row, releaseVars, confirmed, overlapped, raced>>

\* A new row, unless the key is taken by now; the columns of a row that is still
\* there, where a live slot of 0 is a zero value and left out; or no row.
Written(e, old) ==
    CASE e.kind = "create" /\ old.state = "new" ->
            [state |-> "stored", form |-> e.form, live |-> 0]
      [] e.kind = "update" /\ old.state = "stored" ->
            [old EXCEPT !.form = e.form, !.live = IF e.live = 0 THEN @ ELSE e.live]
      [] e.kind = "delete" -> [state |-> "deleted", form |-> NoForm, live |-> 0]
      [] OTHER -> old

Store(a) ==
    /\ edit[a].kind # "none"
    /\ row' = [row EXCEPT ![edit[a].service] = Written(edit[a], @)]
    /\ edit' = [edit EXCEPT ![a] = NoEdit]
    /\ UNCHANGED <<releaseVars, confirmed, overlapped, raced>>

----------------------------------------------------------------------------
(* What the orchestrator of releases does to the catalogue.                *)

\* A release has been deployed beside the live one and is ready.
Deployed(s) ==
    LET slot == nextSlot(row[s].live) IN
    /\ row[s].state = "stored" /\ candidate[s] # "split" /\ released < MaxReleases
    /\ released + 1 = MaxReleases => Cardinality(UnderWay) <= 1   \* bound
    /\ released' = released + 1
    /\ instance' = [instance EXCEPT ![s][slot] = released + 1]
    /\ candidate' = [candidate EXCEPT ![s] = "ready"]
    /\ target' = [target EXCEPT ![s] = slot]
    /\ UNCHANGED <<row, edit, confirmed, overlapped, raced>>

\* SetTrafficPercent between 1 and 99.
Split(s) ==
    /\ row[s].state = "stored" /\ candidate[s] = "ready"
    /\ candidate' = [candidate EXCEPT ![s] = "split"]
    /\ UNCHANGED <<row, edit, instance, target, released, confirmed, overlapped, raced>>

\* UpdateLiveSlot when the switch is confirmed.
Switch(s) ==
    /\ row[s].state = "stored" /\ candidate[s] # "none"
    /\ row' = [row EXCEPT ![s].live = target[s]]
    /\ candidate' = [candidate EXCEPT ![s] = "none"]
    /\ confirmed' = [confirmed EXCEPT ![s] = target[s]]
    /\ overlapped' = [overlapped EXCEPT ![s] =
                        \E a \in Admins : edit[a].kind = "update" /\ edit[a].service = s]
    /\ UNCHANGED <<edit, instance, target, released, raced>>

----------------------------------------------------------------------------

CatalogueInit ==
    /\ row = [s \in Services |-> [state |-> "new", form |-> NoForm, live |-> 0]]
    /\ edit = [a \in Admins |-> NoEdit]
    /\ instance = [s \in Services |-> [i \in Slots |-> 0]]
    /\ candidate = [s \in Services |-> "none"]
    /\ target = [s \in Services |-> 0]
    /\ released = 0
    /\ confirmed = [s \in Services |-> 0]
    /\ overlapped = [s \in Services |-> FALSE]
    /\ raced = {}

Change(a) == Store(a) \/ \E s \in Services : Create(a, s) \/ Update(a, s) \/ Delete(a, s)

Rollout(s) == Deployed(s) \/ Split(s) \/ Switch(s)

CatalogueNext == (\E a \in Admins : Change(a)) \/ (\E s \in Services : Rollout(s))
CatalogueSpec == CatalogueInit /\ [][CatalogueNext]_catalogueVars

----------------------------------------------------------------------------
(* Properties.                                                             *)

Pairs == {{s, t} : s, t \in Services}

CatalogueTypeOK ==
    /\ row \in [Services -> [state : {"new", "stored", "deleted"}, form : Forms \cup {NoForm},
                             live : Slots \cup {0}]]
    /\ edit \in [Admins -> [kind : {"none", "create", "update", "delete"}, service : Services,
                            form : Forms \cup {NoForm}, live : Slots \cup {0}]]
    /\ instance \in [Services -> [Slots -> ReleaseIds \cup {0}]]
    /\ candidate \in [Services -> {"none", "ready", "split"}]
    /\ target \in [Services -> Slots \cup {0}]
    /\ released \in 0..MaxReleases
    /\ confirmed \in [Services -> Slots \cup {0}]
    /\ overlapped \in [Services -> BOOLEAN]
    /\ raced \subseteq Pairs

\* Two services of an agent have a route or a host port in common only if they
\* were once changed at the same time (ensureRouteAvailable and
\* ensureHostPortsAvailable read, then the row is stored): one change after the
\* other never leads there, whatever is disabled, moved or given up in between.
ClashOnlyByRace ==
    \A s, t \in {x \in Services : row[x].state = "stored"} :
        s # t /\ {s, t} \notin raced =>
            /\ row[s].form.route.prefix = row[t].form.route.prefix =>
                  row[s].form.route.hosts \cap row[t].form.route.hosts = {}
            /\ (row[s].form.published \cup row[s].form.tcp)
                  \cap (row[t].form.published \cup row[t].form.tcp) = {}

\* The live slot is the one an administrator switched to last, except after a
\* switch that was confirmed while an update of the service was under way: that
\* update writes the older slot back.
LiveUndoneOnlyByOverlap ==
    \A s \in Services :
        row[s].state = "stored" => row[s].live = confirmed[s] \/ overlapped[s]
=============================================================================
