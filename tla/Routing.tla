------------------------------ MODULE Routing ------------------------------
(***************************************************************************)
(* Who answers a request: the rules that the agent writes into HAProxy's   *)
(* shared frontend for the services the control plane publishes            *)
(* (buildProxyConfigSnapshot; frontendSection, serviceBackendResponseRules,*)
(* normalizeBackendRequestRules and tcpProxyFrontendSection of             *)
(* proxy_stack.go), evaluated for every request in every state that the    *)
(* catalogue and its releases reach.                                       *)
(*                                                                         *)
(* A path is the sequence of its characters after the first slash, so that *)
(* path_beg is IsPrefix.  HAProxy draws rand(100) anew wherever a rule     *)
(* names the split.                                                        *)
(***************************************************************************)
EXTENDS Catalogue, SequencesExt

CONSTANTS
    Characters,  \* what paths are made of
    Hosts,       \* hosts a browser visits
    Pages,       \* business paths it asks for
    Assets,      \* those of them that are static files
    Keys         \* Keys[s]: the order of the service keys

\* What stands below a route prefix for the two paths of a service that no
\* page of its own has.
Special == {"__ep/normalize", "__ep/beta"}

ASSUME RoutingAssumption ==
    /\ IsFiniteSet(Services) /\ "none" \notin Services
    /\ Keys \in Injection(Services, Nat)
    /\ \A f \in Forms : f.route.prefix \in Seq(Characters)
    /\ {"/"} \cup Special \subseteq Characters
    /\ Assets \subseteq Pages
    /\ \A p \in Pages : p \in Seq(Characters) /\ \A i \in DOMAIN p : p[i] \notin Special

----------------------------------------------------------------------------
(* The published services.                                                 *)

\* buildProxyConfigSnapshot: a candidate is announced while it is ready or
\* takes a share of the traffic.
Config(s) ==
    LET live == normalizeLiveSlot(row[s].live)
        other == nextSlot(live)
        visible == candidate[s] # "none" /\ target[s] = other
    IN  [service |-> s, route |-> row[s].form.route,
         live |-> instance[s][live],
         candidate |-> IF visible THEN instance[s][other] ELSE 0,
         percent |-> IF visible /\ candidate[s] = "split" THEN 50 ELSE 0]

\* BuildProxyServiceConfigs leaves disabled services out.
Published == {s \in Services : row[s].state = "stored" /\ row[s].form.enabled}

Configs == {Config(s) : s \in Published}

\* Mutant: the shortest prefix comes first.
GeneralFirst(c, d) ==
    \/ Len(c.route.prefix) < Len(d.route.prefix)
    \/ /\ Len(c.route.prefix) = Len(d.route.prefix)
       /\ Keys[c.service] < Keys[d.service]

\* The rules of the longest prefix come first, then the service key decides
\* (between different hosts the order is of no account).
Before(c, d) ==
    \/ Len(c.route.prefix) > Len(d.route.prefix)
    \/ /\ Len(c.route.prefix) = Len(d.route.prefix)
       /\ Keys[c.service] < Keys[d.service]

\* Of some services the one whose rules come first.
Foremost(some) == CHOOSE c \in some : \A d \in some \ {c} : Before(c, d)

Below(prefix, name) == IF prefix = <<>> THEN <<name>> ELSE prefix \o <<"/", name>>
normalizePath(c) == Below(c.route.prefix, "__ep/normalize")
betaPath(c) == Below(c.route.prefix, "__ep/beta")
splitActive(c) == c.percent \in 1..99

Request(host, path, query) == [host |-> host, path |-> path, query |-> query]
OnRoute(c, q) == q.host \in c.route.hosts /\ IsPrefix(c.route.prefix, q.path)

----------------------------------------------------------------------------
(* The shared frontend.                                                    *)

ToRelease(c, r) == [by |-> "release", service |-> c.service, release |-> r]
ToNormalize == [by |-> "normalize", service |-> "none", release |-> 0]
Nobody == [by |-> "nobody", service |-> "none", release |-> 0]

\* Mutant: the cookie of the live release has no rule, and does not keep its
\* holder out of the draw.
RulesWithoutLiveCookie(c, q, cookie, lots) ==
    LET queryLive == c.live # 0 /\ q.query = c.live
        queryCandidate == c.candidate # 0 /\ q.query = c.candidate
        cookieCandidate == c.candidate # 0 /\ cookie = c.candidate
        special == q.path \in {normalizePath(c), betaPath(c)}
        open == ~special /\ ~queryLive /\ ~queryCandidate
    IN  << [to |-> ToNormalize, on |-> special /\ c.live # 0],
           [to |-> ToRelease(c, c.candidate), on |-> queryCandidate],
           [to |-> ToRelease(c, c.live), on |-> queryLive],
           [to |-> ToRelease(c, c.candidate), on |-> open /\ cookieCandidate],
           [to |-> ToRelease(c, c.candidate), on |-> open /\ splitActive(c) /\ lots[1]],
           [to |-> ToRelease(c, c.live), on |-> open /\ (splitActive(c) => ~lots[2])] >>

\* The backend switching rules of one service in their order, each with the
\* condition for a request on its route; a rule for a release that is not there
\* is never added.  lots are the draws of the two rules that name the split.
Rules(c, q, cookie, lots) ==
    LET normalize == q.path = normalizePath(c)
        beta == q.path = betaPath(c)
        queryLive == c.live # 0 /\ q.query = c.live
        queryCandidate == c.candidate # 0 /\ q.query = c.candidate
        cookieLive == c.live # 0 /\ cookie = c.live
        cookieCandidate == c.candidate # 0 /\ cookie = c.candidate
        noQuery == ~queryLive /\ ~queryCandidate
        baseNoOverride == noQuery /\ ~normalize /\ ~beta /\ ~cookieLive
                             /\ (c.percent > 0 => ~cookieCandidate)
        both == c.live # 0 /\ c.candidate # 0
        live == ToRelease(c, c.live)
        cand == ToRelease(c, c.candidate)
    IN  << [to |-> ToNormalize, on |-> normalize /\ c.live # 0],
           [to |-> ToNormalize, on |-> beta],
           [to |-> cand, on |-> queryCandidate],
           [to |-> live, on |-> queryLive],
           [to |-> cand, on |-> noQuery /\ cookieCandidate /\ c.percent > 0],
           [to |-> live, on |-> noQuery /\ cookieLive],
           [to |-> cand, on |->
               \/ baseNoOverride /\ c.live = 0 /\ c.candidate # 0
               \/ noQuery /\ cookieCandidate /\ both /\ c.percent = 0
               \/ baseNoOverride /\ both /\ c.percent >= 100
               \/ baseNoOverride /\ both /\ splitActive(c) /\ lots[1]],
           [to |-> live, on |->
               \/ baseNoOverride /\ c.live # 0 /\ c.candidate = 0
               \/ baseNoOverride /\ both /\ c.percent = 0
               \/ baseNoOverride /\ both /\ splitActive(c) /\ ~lots[2]] >>

\* The first rule of a list that holds.
Holds(rules) == \E i \in DOMAIN rules : rules[i].on
FirstOf(rules) ==
    CHOOSE i \in DOMAIN rules : rules[i].on /\ \A j \in 1..(i - 1) : ~rules[j].on

NoCookies == [s \in Services |-> 0]
Lots == [{c.service : c \in {x \in Configs : splitActive(x)}} -> BOOLEAN \X BOOLEAN]

\* The first rule of all services that matches; without one the request goes to
\* the default backend, which has no server.
Answer(q, cookies, lots) ==
    LET rules(c) == Rules(c, q, cookies[c.service], lots[c.service])
        hits == {c \in Configs : OnRoute(c, q) /\ Holds(rules(c))}
        first == rules(Foremost(hits))
    IN  IF hits = {} THEN Nobody ELSE first[FirstOf(first)].to

\* What may answer, over all draws.
Answers(q, cookies) == {Answer(q, cookies, lots) : lots \in Lots}

----------------------------------------------------------------------------
(* The sticky cookies.                                                     *)

\* Mutant: the way home leads to the candidate where there is one.
MovedToCandidate(q) ==
    LET of(c) == IF q.path = normalizePath(c) /\ c.candidate # 0 THEN c.candidate
                 ELSE IF q.path = normalizePath(c) THEN c.live
                 ELSE IF q.path = betaPath(c) THEN c.candidate ELSE 0
        hits == {c \in Configs : q.host \in c.route.hosts /\ c.live # 0 /\ of(c) # 0}
        first == Foremost(hits)
    IN  IF hits = {} THEN Nobody ELSE ToRelease(first, of(first))

\* normalizeBackendRequestRules: the release that __ep/normalize or __ep/beta
\* puts into the cookie, or Nobody.
Moved(q) ==
    LET of(c) == IF q.path = normalizePath(c) THEN c.live
                 ELSE IF q.path = betaPath(c) THEN c.candidate ELSE 0
        hits == {c \in Configs : q.host \in c.route.hosts /\ c.live # 0 /\ of(c) # 0}
        first == Foremost(hits)
    IN  IF hits = {} THEN Nobody ELSE ToRelease(first, of(first))

\* Set-Cookie of a response: of the release that answered, unless a static
\* file was asked for, or of the one that the special paths choose.
CookiesAfter(q, cookies, answer) ==
    LET set == IF answer.by = "normalize" THEN Moved(q)
               ELSE IF q.path \in Assets THEN Nobody ELSE answer
    IN  IF set.by = "nobody" THEN cookies
        ELSE [cookies EXCEPT ![set.service] = set.release]

\* The headers that name releases: of a response of release r ...
releaseRoleForTarget(c, r) ==
    IF r = c.live THEN "live" ELSE IF splitActive(c) THEN "canary" ELSE "historical"
Named(c, r) ==
    [current |-> r, live |-> c.live, beta |-> c.candidate, role |-> releaseRoleForTarget(c, r)]

\* ... of __ep/normalize and of __ep/beta; 0 is a header that is missing.
normalizeReturnHeaders(c) == [Named(c, c.live) EXCEPT !.beta = 0]
betaReturnHeaders(c) == Named(c, c.candidate)

\* The release headers of a service's response to a request.
Headers(c, q, answer) ==
    IF answer.by # "normalize" THEN Named(c, answer.release)
    ELSE IF q.path = normalizePath(c) THEN normalizeReturnHeaders(c)
    ELSE IF c.candidate # 0 THEN betaReturnHeaders(c)
    ELSE [current |-> 0, live |-> 0, beta |-> 0, role |-> "none"]

\* The cookie of a service is sent to the paths at or below its prefix: not to
\* /ab for the prefix /a, although path_beg sends that request to the service.
InScope(c, path) ==
    \/ c.route.prefix = <<>> \/ path = c.route.prefix
    \/ IsPrefix(c.route.prefix \o <<"/">>, path)

----------------------------------------------------------------------------
(* A proxied TCP port.                                                     *)

\* Mutant: a port with two releases goes to the candidate unless it is split.
TcpTargetsCandidateFirst(c) ==
    IF c.candidate = 0 THEN {c.live} ELSE IF splitActive(c) THEN {c.live, c.candidate}
    ELSE {c.candidate}

\* tcpProxyFrontendSection: the releases a connection may reach; 0 is the
\* backend of a port that has none.
TcpTargets(c) ==
    LET default == IF c.live # 0 THEN c.live ELSE c.candidate IN
    IF c.live = 0 \/ c.candidate = 0 \/ c.percent = 0 THEN {default}
    ELSE IF c.percent >= 100 THEN {c.candidate}
    ELSE {default, c.candidate}

----------------------------------------------------------------------------

\* The rules follow the rows of the catalogue; they have no state of their own.
Spec == CatalogueSpec

----------------------------------------------------------------------------
(* Properties.                                                             *)

\* The services that should answer a request: those with a release whose route
\* it matches, and of them the ones with the longest prefix.
Owners(q) ==
    LET able == {c \in Configs : OnRoute(c, q) /\ {c.live, c.candidate} # {0}}
    IN  {c \in able : \A d \in able : Len(d.route.prefix) <= Len(c.route.prefix)}

PageRequests == {Request(h, p, 0) : h \in Hosts, p \in Pages}

\* A request for a page is answered by the service with the longest matching
\* prefix that has a release, and by nobody only if there is none, whichever
\* services come, go, move and are switched; a service that splits its traffic
\* is left out (ResponsesNameTheirRelease).
AnsweredByMostSpecific ==
    \A q \in PageRequests :
        LET owners == Owners(q)
            services == {a.service : a \in Answers(q, NoCookies)}
        IN  IF owners = {} THEN services = {"none"}
            ELSE (\A c \in owners : ~splitActive(c)) =>
                     services \subseteq {c.service : c \in owners}

\* Whoever got a page that is not a static file from a release, here by asking
\* for it (the cookie that comes with the page is the same by lot), gets every
\* further page that is the service's alone from the same release, as long as
\* it is published as live or candidate: nobody is sent back and forth between
\* two releases while the traffic is split.
VisitorStays ==
    \A c \in Configs : \A r \in {c.live, c.candidate} \ {0} :
        \A h \in c.route.hosts \cap Hosts, p \in Pages \ Assets :
            LET first == Request(h, p, r)
                served == {a \in Answers(first, NoCookies) : a = ToRelease(c, r)}
            IN  \A a \in served, next \in Pages :
                    LET q == Request(h, next, 0) IN
                    InScope(c, next) /\ Owners(q) = {c} =>
                        Answers(q, CookiesAfter(first, NoCookies, a)) = {a}

\* The cookies of a visitor who was with one release of a service.
Jar(c, r) == [NoCookies EXCEPT ![c.service] = r]

\* What the headers of an answer may say, to a visitor with such cookies.
Says(c, q, cookies) == {Headers(c, q, a) : a \in Answers(q, cookies)}

\* A visit of one of the two paths of a service and the page q after it.
Visits(c, q, path, r) ==
    LET there == Request(q.host, path, 0)
    IN  {[said |-> Headers(c, there, a), next |-> Says(c, q, CookiesAfter(there, Jar(c, r), a))] :
            a \in Answers(there, Jar(c, r))}

\* A page that follows the headers gets where they say: of a service with a live
\* release, __ep/normalize says, and makes true, that further pages come from the
\* release that every response names as live, in that role, and __ep/beta that
\* they come from the one it names as beta, or, if it names none, from the
\* release the visitor was with (docs/edge-pilot-release-headers.md:31-73).  No
\* other service may have taken the page or one of the two paths: nothing keeps
\* a route prefix out of a service's __ep paths.
HeadersLeadThere ==
    \A c \in Configs : \A h \in c.route.hosts \cap Hosts, p \in Pages :
        LET q == Request(h, p, 0)
            alone == \A path \in {p, normalizePath(c), betaPath(c)} :
                         Owners(Request(h, path, 0)) = {c}
        IN  c.live # 0 /\ InScope(c, p) /\ alone =>
                \A r \in {c.live, c.candidate} \ {0} : \A page \in Says(c, q, Jar(c, r)) :
                    /\ \A v \in Visits(c, q, normalizePath(c), r) :
                          /\ v.said.current = page.live /\ v.said.role = "live"
                          /\ \A n \in v.next : n.current = page.live /\ n.role = "live"
                    /\ \A v \in Visits(c, q, betaPath(c), r) :
                          /\ v.said.current = page.beta
                          /\ \A n \in v.next :
                                n.current = (IF page.beta = 0 THEN r ELSE page.beta)

\* A proxied TCP port lets a connection reach exactly the releases that the
\* HTTP rules of the same service let a first visit reach: one switch or one
\* split moves both.
TcpAgreesWithHttp ==
    \A q \in PageRequests : \A c \in Owners(q) :
        Cardinality(Owners(q)) = 1 =>
            TcpTargets(c) = {a.release : a \in {x \in Answers(q, NoCookies) :
                                                  x.service = c.service}}

\* Every page that a service with a live release should answer is answered by
\* one of its releases, whose id the response names
\* (docs/edge-pilot-release-headers.md:15-19).
ResponsesNameTheirRelease ==
    \A q \in PageRequests : \A c \in Owners(q) :
        Cardinality(Owners(q)) = 1 =>
            Answers(q, NoCookies) \subseteq {ToRelease(c, c.live), ToRelease(c, c.candidate)}
=============================================================================
