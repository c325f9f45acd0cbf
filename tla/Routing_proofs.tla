--------------------------- MODULE Routing_proofs ---------------------------
(***************************************************************************)
(* Proofs about the service catalogue and the rules of the shared frontend:*)
(* the invariant of read-check-store in Catalogue, and, in every state it  *)
(* allows, who answers a request by the first rule that holds, for any     *)
(* services, routes, keys and paths (Routing).                             *)
(***************************************************************************)
EXTENDS Routing, FiniteSetTheorems, SequenceTheorems, TLAPS

----------------------------------------------------------------------------
(* The inductive invariant.                                                *)

Stored(s) == row[s].state = "stored"

\* Two forms have neither a route nor a host port in common.
Apart(f, g) ==
    /\ f.route.prefix = g.route.prefix => f.route.hosts \cap g.route.hosts = {}
    /\ (f.published \cup f.tcp) \cap (g.published \cup g.tcp) = {}

\* A request that is going to write a row, and of which service.
Changing(a) == edit[a].kind \in {"create", "update"}
Of(a) == edit[a].service

\* Whatever is changed together has been noticed.
BusyRaced ==
    \A a, b \in Admins :
        Changing(a) /\ Changing(b) /\ Of(a) # Of(b) => {Of(a), Of(b)} \in raced

\* The stored rows are apart, and so is a checked change from the other rows.
StoredApart ==
    \A s, t \in Services :
        s # t /\ Stored(s) /\ Stored(t) /\ {s, t} \notin raced =>
            Apart(row[s].form, row[t].form)
EditApart ==
    \A a \in Admins, t \in Services :
        Changing(a) /\ t # Of(a) /\ Stored(t) /\ {Of(a), t} \notin raced =>
            Apart(edit[a].form, row[t].form)

\* Nobody switches or updates a service before it is created.
NewIsUntouched ==
    /\ \A s \in Services : row[s].state = "new" => confirmed[s] = 0
    /\ \A a \in Admins : edit[a].kind = "update" => row[Of(a)].state # "new"

\* A row has the slot last switched to, and every update under way that of the row.
LiveKept ==
    /\ \A s \in Services : Stored(s) => row[s].live = confirmed[s] \/ overlapped[s]
    /\ \A a \in Admins :
          edit[a].kind = "update" /\ Stored(Of(a)) =>
              edit[a].live = row[Of(a)].live \/ overlapped[Of(a)]

IInv ==
    /\ CatalogueTypeOK
    /\ BusyRaced
    /\ StoredApart
    /\ EditApart
    /\ NewIsUntouched
    /\ LiveKept

----------------------------------------------------------------------------
(* The initial state.                                                      *)

\* No service is stored and none is being changed.
LEMMA InitInv == CatalogueInit => IInv
<1> SUFFICES ASSUME CatalogueInit PROVE IInv
    OBVIOUS
<1>1. CatalogueTypeOK
    BY CatalogueAssumption DEF CatalogueInit, CatalogueTypeOK, NoEdit, NoForm
<1>2. BusyRaced
    BY DEF CatalogueInit, BusyRaced, Changing, NoEdit
<1>3. StoredApart /\ EditApart
    BY DEF CatalogueInit, StoredApart, EditApart, Stored
<1>4. NewIsUntouched
    BY DEF CatalogueInit, NewIsUntouched, NoEdit
<1>5. LiveKept
    BY DEF CatalogueInit, LiveKept, Stored, NoEdit
<1> QED
    BY <1>1, <1>2, <1>3, <1>4, <1>5 DEF IInv

----------------------------------------------------------------------------
(* Lemmas about forms.                                                     *)

\* To be apart is symmetric, and so is a pair of services.
LEMMA ApartSymmetric ==
    ASSUME NEW f, NEW g, Apart(f, g)
    PROVE  Apart(g, f)
BY DEF Apart

\* A form that passes the checks is apart from every other stored row.
LEMMA AcceptableApart ==
    ASSUME NEW s \in Services, NEW f, Acceptable(s, f),
           NEW t \in Services, t # s, Stored(t)
    PROVE  Apart(f, row[t].form)
<1>1. t \in Others(s)
    BY DEF Others, Stored
<1> QED
    BY <1>1 DEF Acceptable, ensureRouteAvailable, ensureHostPortsAvailable, Apart

----------------------------------------------------------------------------
(* A change is checked.                                                    *)

\* What a request holds, and what one holds after a request begins or ends.
Held == [kind : {"none", "create", "update", "delete"}, service : Services,
         form : Forms \cup {NoForm}, live : Slots \cup {0}]
Row == [state : {"new", "stored", "deleted"}, form : Forms \cup {NoForm},
        live : Slots \cup {0}]

LEMMA OneHolds ==
    ASSUME CatalogueTypeOK, NEW a \in Admins, NEW e \in Held,
           edit' = [edit EXCEPT ![a] = e]
    PROVE  /\ edit' \in [Admins -> Held]
           /\ edit'[a] = e
           /\ \A b \in Admins : b # a => edit'[b] = edit[b]
BY DEF CatalogueTypeOK, Held

\* Create and Update are one step on the records: a form that passed the checks,
\* kept with the live slot of the row.
LEMMA BeginInv ==
    ASSUME IInv, NEW a \in Admins, NEW s \in Services, NEW kind, NEW f \in Forms, NEW live,
           Begin(a, kind, s, f, live),
           \/ kind = "create" /\ live = 0
           \/ kind = "update" /\ Stored(s) /\ live = row[s].live
    PROVE  IInv'
<1> DEFINE e == [kind |-> kind, service |-> s, form |-> f, live |-> live]
<1>1. /\ edit' = [edit EXCEPT ![a] = e]
      /\ raced' = raced \cup {{s, t} : t \in Busy \ {s}}
      /\ row' = row /\ confirmed' = confirmed /\ overlapped' = overlapped
      /\ instance' = instance /\ candidate' = candidate /\ target' = target
      /\ released' = released
    BY DEF Begin, releaseVars
<1>2. Acceptable(s, f)
    BY DEF Begin
<1>3. CatalogueTypeOK
    BY DEF IInv
<1>4. live \in Slots \cup {0} /\ kind \in {"create", "update"}
    BY <1>3 DEF CatalogueTypeOK, Stored
<1>5. e \in Held
    BY <1>4 DEF Held
<1>6. /\ edit' \in [Admins -> Held] /\ edit'[a] = e
      /\ \A b \in Admins : b # a => edit'[b] = edit[b]
    BY <1>1, <1>3, <1>5, OneHolds
<1>7. CatalogueTypeOK'
  <2>1. \A t \in Busy : {s, t} \in Pairs
    <3>1. \A b \in Admins : edit[b].service \in Services
        BY <1>3 DEF CatalogueTypeOK
    <3>2. Busy \subseteq Services
        BY <3>1 DEF Busy
    <3> QED
        BY <3>2 DEF Pairs
  <2>2. raced' \subseteq Pairs
      BY <1>1, <1>3, <2>1 DEF CatalogueTypeOK
  <2> QED
      BY <1>1, <1>3, <1>6, <2>2 DEF CatalogueTypeOK, Held
<1>8. BusyRaced'
  <2> SUFFICES ASSUME NEW x \in Admins, NEW y \in Admins,
                      Changing(x)', Changing(y)', Of(x)' # Of(y)'
               PROVE  {Of(x)', Of(y)'} \in raced'
      BY DEF BusyRaced
  <2>1. CASE x # a /\ y # a
      BY <2>1, <1>1, <1>6 DEF IInv, BusyRaced, Changing, Of
  <2>2. CASE x = a
    <3>1. Of(y)' \in Busy /\ Of(x)' = s
        BY <2>2, <1>6 DEF Busy, Changing, Of
    <3> QED
        BY <3>1, <1>1
  <2>3. CASE y = a
    <3>1. Of(x)' \in Busy /\ Of(y)' = s
        BY <2>3, <1>6 DEF Busy, Changing, Of
    <3>2. {Of(x)', Of(y)'} = {s, Of(x)'}
        BY <3>1
    <3> QED
        BY <3>1, <3>2, <1>1
  <2> QED
      BY <2>1, <2>2, <2>3
<1>9. StoredApart'
    BY <1>1 DEF IInv, StoredApart, Stored
<1>10. EditApart'
  <2> SUFFICES ASSUME NEW x \in Admins, NEW t \in Services, Changing(x)', t # Of(x)',
                      Stored(t), {Of(x)', t} \notin raced
               PROVE  Apart(edit'[x].form, row[t].form)
      BY <1>1 DEF EditApart, Stored
  <2>1. CASE x = a
    <3>1. t # s
        BY <2>1, <1>6 DEF Of
    <3>2. Apart(f, row[t].form)
        BY <3>1, <1>2, AcceptableApart
    <3> QED
        BY <3>2, <2>1, <1>6
  <2>2. CASE x # a
      BY <2>2, <1>6 DEF IInv, EditApart, Changing, Of
  <2> QED
      BY <2>1, <2>2
<1>11. NewIsUntouched'
    BY <1>1, <1>6 DEF IInv, NewIsUntouched, Stored, Of
<1>12. LiveKept'
    BY <1>1, <1>6 DEF IInv, LiveKept, Stored, Of
<1> QED
    BY <1>7, <1>8, <1>9, <1>10, <1>11, <1>12 DEF IInv

\* A deletion begins without a form: it is in no other request's way.
LEMMA DeleteInv ==
    ASSUME IInv, NEW a \in Admins, NEW s \in Services, Delete(a, s)
    PROVE  IInv'
<1> DEFINE e == [NoEdit EXCEPT !.kind = "delete", !.service = s]
<1>1. /\ edit' = [edit EXCEPT ![a] = e]
      /\ row' = row /\ confirmed' = confirmed /\ overlapped' = overlapped
      /\ raced' = raced /\ instance' = instance /\ candidate' = candidate
      /\ target' = target /\ released' = released
    BY DEF Delete, releaseVars
<1>2. e \in Held /\ e.kind = "delete"
    BY DEF Held, NoEdit
<1>3. /\ edit' \in [Admins -> Held] /\ edit'[a].kind = "delete"
      /\ \A b \in Admins : b # a => edit'[b] = edit[b]
    BY <1>1, <1>2, OneHolds DEF IInv
<1>4. CatalogueTypeOK'
    BY <1>1, <1>3 DEF IInv, CatalogueTypeOK, Held
<1>5. BusyRaced' /\ EditApart'
    BY <1>1, <1>3 DEF IInv, BusyRaced, EditApart, Changing, Of, Stored
<1>6. StoredApart' /\ NewIsUntouched' /\ LiveKept'
    BY <1>1, <1>3 DEF IInv, StoredApart, NewIsUntouched, LiveKept, Stored, Of
<1> QED
    BY <1>4, <1>5, <1>6 DEF IInv

----------------------------------------------------------------------------
(* A change is stored.                                                     *)

\* What Store makes of a row.
LEMMA WrittenRow ==
    ASSUME NEW e \in Held, NEW old \in Row, e.kind # "none"
    PROVE  /\ Written(e, old) \in Row
           /\ old.state # "new" => Written(e, old).state # "new"
           /\ Written(e, old).state = "new" => Written(e, old) = old /\ e.kind = "update"
           /\ Written(e, old).state = "stored" =>
                 \/ Written(e, old) = old
                 \/ /\ e.kind = "create" /\ old.state = "new"
                    /\ Written(e, old).form = e.form /\ Written(e, old).live = 0
                 \/ /\ e.kind = "update" /\ old.state = "stored"
                    /\ Written(e, old).form = e.form
                    /\ Written(e, old).live = IF e.live = 0 THEN old.live ELSE e.live
<1> DEFINE n == Written(e, old)
<1>1. CASE e.kind = "create" /\ old.state = "new"
  <2>1. n = [state |-> "stored", form |-> e.form, live |-> 0]
      BY <1>1 DEF Written
  <2> QED
      BY <2>1, <1>1 DEF Held, Row
<1>2. CASE e.kind = "update" /\ old.state = "stored"
  <2>1. n = [old EXCEPT !.form = e.form, !.live = IF e.live = 0 THEN old.live ELSE e.live]
      BY <1>2 DEF Written
  <2> QED
      BY <2>1, <1>2 DEF Held, Row
<1>3. CASE e.kind = "delete"
  <2>1. n = [state |-> "deleted", form |-> NoForm, live |-> 0]
      BY <1>3 DEF Written
  <2> QED
      BY <2>1, <1>3 DEF Row
<1>4. CASE /\ ~(e.kind = "create" /\ old.state = "new")
           /\ ~(e.kind = "update" /\ old.state = "stored")
           /\ e.kind # "delete"
  <2>1. n = old
      BY <1>4 DEF Written
  <2> QED
      BY <2>1, <1>4 DEF Held
<1> QED
    BY <1>1, <1>2, <1>3, <1>4

\* The row that a request leaves: another form only for a service that is in
\* nobody else's way, and the older live slot only after an overlap.
LEMMA StoreInv ==
    ASSUME IInv, NEW a \in Admins, Store(a)
    PROVE  IInv'
<1> DEFINE e == edit[a]
           s == edit[a].service
           n == Written(e, row[s])
<1>1. /\ e.kind # "none"
      /\ edit' = [edit EXCEPT ![a] = NoEdit] /\ row' = [row EXCEPT ![s] = n]
      /\ confirmed' = confirmed /\ overlapped' = overlapped /\ raced' = raced
      /\ instance' = instance /\ candidate' = candidate /\ target' = target
      /\ released' = released
    BY DEF Store, releaseVars
<1>2. CatalogueTypeOK
    BY DEF IInv
<1>3. e \in Held /\ s \in Services /\ row \in [Services -> Row] /\ row[s] \in Row
    BY <1>2 DEF CatalogueTypeOK, Held, Row
<1>4. NoEdit \in Held /\ NoEdit.kind = "none"
    BY CatalogueAssumption DEF NoEdit, Held
<1>5. /\ edit' \in [Admins -> Held] /\ edit'[a] = NoEdit
      /\ \A b \in Admins : b # a => edit'[b] = edit[b]
    BY <1>1, <1>2, <1>4, OneHolds
<1>6. /\ n \in Row
      /\ row[s].state # "new" => n.state # "new"
      /\ n.state = "new" => n = row[s] /\ e.kind = "update"
      /\ n.state = "stored" =>
            \/ n = row[s]
            \/ e.kind = "create" /\ row[s].state = "new" /\ n.form = e.form /\ n.live = 0
            \/ /\ e.kind = "update" /\ row[s].state = "stored" /\ n.form = e.form
               /\ n.live = IF e.live = 0 THEN row[s].live ELSE e.live
    BY <1>1, <1>3, WrittenRow
<1> HIDE DEF n, e, s
<1>7. /\ row' \in [Services -> Row] /\ row'[s] = n
      /\ \A t \in Services : t # s => row'[t] = row[t]
    BY <1>1, <1>3, <1>6
<1>8. CatalogueTypeOK'
    BY <1>1, <1>2, <1>5, <1>7 DEF CatalogueTypeOK, Held, Row
<1>9. BusyRaced'
    BY <1>1, <1>4, <1>5 DEF IInv, BusyRaced, Changing, Of
<1>10. n.state = "stored" =>
          n = row[s] \/ (Changing(a) /\ Of(a) = s /\ n.form = edit[a].form)
    BY <1>6 DEF Changing, Of, e, s
<1>11. StoredApart'
  <2>1. ASSUME NEW t \in Services, t # s, n.state = "stored", Stored(t),
               {s, t} \notin raced
        PROVE  Apart(n.form, row[t].form)
    <3>1. CASE n = row[s]
        BY <2>1, <3>1, <1>3 DEF IInv, StoredApart, Stored
    <3>2. CASE Changing(a) /\ Of(a) = s /\ n.form = edit[a].form
        BY <2>1, <3>2 DEF IInv, EditApart
    <3> QED
        BY <2>1, <3>1, <3>2, <1>10
  <2> SUFFICES ASSUME NEW x \in Services, NEW y \in Services, x # y,
                      row'[x].state = "stored", row'[y].state = "stored",
                      {x, y} \notin raced
               PROVE  Apart(row'[x].form, row'[y].form)
      BY <1>1 DEF StoredApart, Stored
  <2>2. CASE x # s /\ y # s
      BY <2>2, <1>7 DEF IInv, StoredApart, Stored
  <2>3. CASE x = s
      BY <2>3, <2>1, <1>7 DEF Stored
  <2>4. CASE y = s
    <3>1. {s, x} \notin raced
      <4>1. {s, x} = {x, y}
          BY <2>4
      <4> QED
          BY <4>1
    <3>2. x # s /\ row'[x] = row[x] /\ row'[y] = n
        BY <2>4, <1>7
    <3>3. Apart(n.form, row[x].form)
        BY <3>1, <3>2, <2>1 DEF Stored
    <3> QED
        BY <3>2, <3>3, ApartSymmetric
  <2> QED
      BY <2>2, <2>3, <2>4
<1>12. EditApart'
  <2> SUFFICES ASSUME NEW x \in Admins, NEW y \in Services, Changing(x)', y # Of(x)',
                      row'[y].state = "stored", {Of(x)', y} \notin raced
               PROVE  Apart(edit'[x].form, row'[y].form)
      BY <1>1 DEF EditApart, Stored
  <2>1. x # a /\ edit'[x] = edit[x] /\ Changing(x) /\ Of(x)' = Of(x)
      BY <1>4, <1>5 DEF Changing, Of
  <2>2. CASE y # s
      BY <2>1, <2>2, <1>7 DEF IInv, EditApart, Stored
  <2>3. CASE y = s /\ n = row[s]
      BY <2>1, <2>3, <1>7 DEF IInv, EditApart, Stored
  <2>4. CASE y = s /\ Changing(a) /\ Of(a) = s
      BY <2>1, <2>4 DEF IInv, BusyRaced
  <2> QED
      BY <2>2, <2>3, <2>4, <1>7, <1>10
<1>13. NewIsUntouched'
  <2>1. ASSUME NEW x \in Services, row'[x].state = "new" PROVE confirmed[x] = 0
      BY <2>1, <1>6, <1>7 DEF IInv, NewIsUntouched
  <2>2. ASSUME NEW b \in Admins, edit'[b].kind = "update" PROVE row'[Of(b)'].state # "new"
    <3>1. b # a /\ edit'[b] = edit[b]
        BY <2>2, <1>4, <1>5
    <3>2. row[Of(b)].state # "new" /\ Of(b) \in Services /\ Of(b)' = Of(b)
        BY <2>2, <3>1, <1>2 DEF IInv, NewIsUntouched, CatalogueTypeOK, Of
    <3> QED
        BY <3>2, <1>6, <1>7
  <2> QED
      BY <2>1, <2>2, <1>1 DEF NewIsUntouched
<1>14. LiveKept'
  <2>1. n.state = "stored" => n.live = confirmed[s] \/ overlapped[s]
    <3> SUFFICES ASSUME n.state = "stored" PROVE n.live = confirmed[s] \/ overlapped[s]
        OBVIOUS
    <3>1. CASE n = row[s]
        BY <3>1, <1>3 DEF IInv, LiveKept, Stored
    <3>2. CASE row[s].state = "new" /\ n.live = 0
        BY <3>2, <1>3 DEF IInv, NewIsUntouched
    <3>3. CASE /\ e.kind = "update" /\ row[s].state = "stored"
               /\ n.live = IF e.live = 0 THEN row[s].live ELSE e.live
        BY <3>3, <1>3 DEF IInv, LiveKept, Stored, Of, e, s
    <3> QED
        BY <1>6, <3>1, <3>2, <3>3
  <2>2. ASSUME NEW b \in Admins, edit[b].kind = "update", Of(b) = s, n.state = "stored"
        PROVE  edit[b].live = n.live \/ overlapped[s]
    <3>1. row[s].state # "new"
        BY <2>2 DEF IInv, NewIsUntouched
    <3>2. row[s].state = "stored"
        BY <2>2, <3>1, <1>6
    <3>3. edit[b].live = row[s].live \/ overlapped[s]
        BY <2>2, <3>2 DEF IInv, LiveKept, Stored
    <3>4. n.live = row[s].live \/ overlapped[s]
      <4>1. CASE n = row[s]
          BY <4>1
      <4>2. CASE /\ e.kind = "update"
                 /\ n.live = IF e.live = 0 THEN row[s].live ELSE e.live
          BY <4>2, <3>2 DEF IInv, LiveKept, Stored, Of, e, s
      <4> QED
          BY <4>1, <4>2, <3>1, <2>2, <1>6
    <3> QED
        BY <3>3, <3>4
  <2>3. ASSUME NEW x \in Services, row'[x].state = "stored"
        PROVE  row'[x].live = confirmed[x] \/ overlapped[x]
      BY <2>1, <2>3, <1>7 DEF IInv, LiveKept, Stored
  <2>4. ASSUME NEW b \in Admins, edit'[b].kind = "update", row'[Of(b)'].state = "stored"
        PROVE  edit'[b].live = row'[Of(b)'].live \/ overlapped[Of(b)']
    <3>1. b # a /\ edit'[b] = edit[b] /\ Of(b)' = Of(b) /\ Of(b) \in Services
        BY <2>4, <1>2, <1>4, <1>5 DEF Of, CatalogueTypeOK
    <3>2. CASE Of(b) = s
        BY <3>1, <3>2, <2>2, <2>4, <1>7
    <3>3. CASE Of(b) # s
        BY <3>1, <3>3, <2>4, <1>7 DEF IInv, LiveKept, Stored
    <3> QED
        BY <3>2, <3>3
  <2> QED
      BY <2>3, <2>4, <1>1 DEF LiveKept, Stored
<1> QED
    BY <1>8, <1>9, <1>11, <1>12, <1>13, <1>14 DEF IInv

----------------------------------------------------------------------------
(* The other actions.                                                      *)

\* A deployment and a split leave the rows and the changes alone.
LEMMA ReleaseInv ==
    ASSUME IInv, NEW s \in Services, Deployed(s) \/ Split(s)
    PROVE  IInv'
<1>1. /\ row' = row /\ edit' = edit /\ confirmed' = confirmed
      /\ overlapped' = overlapped /\ raced' = raced
    BY DEF Deployed, Split
<1>2. CatalogueTypeOK
    BY DEF IInv
<1>3. CatalogueTypeOK'
  <2>1. CASE Deployed(s)
    <3>1. nextSlot(row[s].live) \in Slots
        BY DEF nextSlot, Slots
    <3>2. released + 1 \in ReleaseIds /\ released + 1 \in 0..MaxReleases
        BY <2>1, <1>2, CatalogueAssumption DEF Deployed, CatalogueTypeOK, ReleaseIds
    <3>3. instance' \in [Services -> [Slots -> ReleaseIds \cup {0}]]
        BY <2>1, <3>1, <3>2, <1>2 DEF Deployed, CatalogueTypeOK
    <3>4. /\ candidate' \in [Services -> {"none", "ready", "split"}]
          /\ target' \in [Services -> Slots \cup {0}]
          /\ released' \in 0..MaxReleases
        BY <2>1, <3>1, <3>2, <1>2 DEF Deployed, CatalogueTypeOK
    <3> QED
        BY <3>3, <3>4, <1>1, <1>2 DEF CatalogueTypeOK
  <2>2. CASE Split(s)
      BY <2>2, <1>1, <1>2 DEF Split, CatalogueTypeOK
  <2> QED
      BY <2>1, <2>2
<1>4. BusyRaced' /\ StoredApart' /\ EditApart'
    BY <1>1 DEF IInv, BusyRaced, StoredApart, EditApart, Stored, Changing, Of
<1>5. NewIsUntouched' /\ LiveKept'
    BY <1>1 DEF IInv, NewIsUntouched, LiveKept, Stored, Of
<1> QED
    BY <1>3, <1>4, <1>5 DEF IInv

\* A switch makes its slot live and marks the updates that it overtakes.
LEMMA SwitchInv ==
    ASSUME IInv, NEW s \in Services, Switch(s)
    PROVE  IInv'
<1>1. /\ row' = [row EXCEPT ![s].live = target[s]]
      /\ candidate' = [candidate EXCEPT ![s] = "none"]
      /\ confirmed' = [confirmed EXCEPT ![s] = target[s]]
      /\ overlapped' = [overlapped EXCEPT ![s] =
                            \E a \in Admins : edit[a].kind = "update" /\ edit[a].service = s]
      /\ edit' = edit /\ instance' = instance /\ target' = target
      /\ released' = released /\ raced' = raced /\ Stored(s)
    BY DEF Switch, Stored
<1>2. CatalogueTypeOK
    BY DEF IInv
<1>3. target[s] \in Slots \cup {0}
    BY <1>2 DEF CatalogueTypeOK
<1>4. /\ row'[s].state = row[s].state /\ row'[s].form = row[s].form
      /\ row'[s].live = target[s] /\ confirmed'[s] = target[s]
      /\ \A t \in Services : t # s => row'[t] = row[t] /\ confirmed'[t] = confirmed[t]
    BY <1>1, <1>2 DEF CatalogueTypeOK
<1>5. /\ \A a \in Admins : edit[a].kind = "update" /\ Of(a) = s => overlapped'[s]
      /\ \A t \in Services : t # s => overlapped'[t] = overlapped[t]
    BY <1>1, <1>2 DEF CatalogueTypeOK, Of
<1>6. CatalogueTypeOK'
  <2> DEFINE Rows == [state : {"new", "stored", "deleted"}, form : Forms \cup {NoForm},
                      live : Slots \cup {0}]
             moved == [row[s] EXCEPT !.live = target[s]]
  <2>0. row \in [Services -> Rows]
      BY <1>2 DEF CatalogueTypeOK
  <2>5. row[s] \in Rows
      BY <2>0
  <2>6. moved \in Rows
      BY <1>3, <2>5
  <2>7. row' = [row EXCEPT ![s] = moved]
      BY <1>1
  <2>1. row' \in [Services -> Rows]
    <3> HIDE DEF Rows, moved
    <3> QED
        BY <2>0, <2>6, <2>7
  <2>2. confirmed' \in [Services -> Slots \cup {0}]
      BY <1>1, <1>2, <1>3 DEF CatalogueTypeOK
  <2>3. overlapped' \in [Services -> BOOLEAN]
      BY <1>1, <1>2 DEF CatalogueTypeOK
  <2>4. candidate' \in [Services -> {"none", "ready", "split"}]
      BY <1>1, <1>2 DEF CatalogueTypeOK
  <2> QED
      BY <2>1, <2>2, <2>3, <2>4, <1>1, <1>2 DEF CatalogueTypeOK
<1>7. BusyRaced'
    BY <1>1 DEF IInv, BusyRaced, Changing, Of
<1>8. \A t \in Services : row'[t].state = row[t].state /\ row'[t].form = row[t].form
    BY <1>4
<1>9. StoredApart' /\ EditApart'
  <2>1. StoredApart'
      BY <1>1, <1>8 DEF IInv, StoredApart, Stored
  <2>2. EditApart'
      BY <1>1, <1>8 DEF IInv, EditApart, Stored, Changing, Of
  <2> QED
      BY <2>1, <2>2
<1>10. \A a \in Admins : Of(a)' = Of(a) /\ Of(a) \in Services
    BY <1>1, <1>2 DEF CatalogueTypeOK, Of
<1>11. NewIsUntouched'
    BY <1>1, <1>4, <1>8, <1>10 DEF IInv, NewIsUntouched, Stored
<1>12. LiveKept'
  <2>1. ASSUME NEW x \in Services, row'[x].state = "stored"
        PROVE  row'[x].live = confirmed'[x] \/ overlapped'[x]
      BY <2>1, <1>4, <1>5 DEF IInv, LiveKept, Stored
  <2>2. ASSUME NEW a \in Admins, edit[a].kind = "update", row'[Of(a)].state = "stored"
        PROVE  edit[a].live = row'[Of(a)].live \/ overlapped'[Of(a)]
    <3>1. CASE Of(a) = s
        BY <2>2, <3>1, <1>5
    <3>2. CASE Of(a) # s
        BY <2>2, <3>2, <1>4, <1>5, <1>10 DEF IInv, LiveKept, Stored
    <3> QED
        BY <3>1, <3>2
  <2> QED
      BY <2>1, <2>2, <1>1, <1>10 DEF LiveKept, Stored
<1> QED
    BY <1>6, <1>7, <1>9, <1>11, <1>12 DEF IInv

----------------------------------------------------------------------------
(* The theorems.                                                           *)

\* Every step of every handler keeps the invariant.
LEMMA NextInv == IInv /\ [CatalogueNext]_catalogueVars => IInv'
<1> SUFFICES ASSUME IInv, [CatalogueNext]_catalogueVars PROVE IInv'
    OBVIOUS
<1>1. CASE UNCHANGED catalogueVars
    BY <1>1 DEF catalogueVars, IInv, CatalogueTypeOK, BusyRaced, StoredApart, EditApart,
        NewIsUntouched, LiveKept, Stored, Changing, Of
<1>2. ASSUME NEW a \in Admins, Change(a) PROVE IInv'
  <2>1. ASSUME NEW s \in Services, Create(a, s) PROVE IInv'
    <3>1. PICK f \in Forms : Begin(a, "create", s, f, 0)
        BY <2>1 DEF Create
    <3> QED
        BY <3>1, BeginInv
  <2>2. ASSUME NEW s \in Services, Update(a, s) PROVE IInv'
    <3>1. PICK f \in Forms : Begin(a, "update", s, f, row[s].live)
        BY <2>2 DEF Update
    <3>2. Stored(s)
        BY <2>2 DEF Update, Stored
    <3> QED
        BY <3>1, <3>2, BeginInv
  <2> QED
      BY <2>1, <2>2, <1>2, StoreInv, DeleteInv DEF Change
<1>3. ASSUME NEW s \in Services, Rollout(s) PROVE IInv'
    BY <1>3, ReleaseInv, SwitchInv DEF Rollout
<1> QED
    BY <1>1, <1>2, <1>3 DEF CatalogueNext

\* The checks before the stores of Service.Create and Service.Update, and the
\* stores of the orchestrator between them, keep IInv.
THEOREM Inductive == CatalogueSpec => []IInv
<1>1. CatalogueInit => IInv
    BY InitInv
<1>2. IInv /\ [CatalogueNext]_catalogueVars => IInv'
    BY NextInv
<1> QED
    BY <1>1, <1>2, PTL DEF CatalogueSpec

\* The rows and the changes under way stay well formed: whatever is stored is a
\* form that was asked for, with one of the slots (Service.Update).
THEOREM TypeCorrect == CatalogueSpec => []CatalogueTypeOK
<1>1. IInv => CatalogueTypeOK
    BY DEF IInv
<1> QED
    BY <1>1, Inductive, PTL

\* ensureRouteAvailable and ensureHostPortsAvailable keep services apart that
\* were never changed at the same time, although they read before the store.
THEOREM ClashNeedsRace == CatalogueSpec => []ClashOnlyByRace
<1>1. IInv => ClashOnlyByRace
    BY DEF IInv, StoredApart, ClashOnlyByRace, Apart, Stored
<1> QED
    BY <1>1, Inductive, PTL

\* A switch is undone only by Service.Update storing the row that it had read
\* before the switch.
THEOREM UndoneNeedsOverlap == CatalogueSpec => []LiveUndoneOnlyByOverlap
<1>1. IInv => LiveUndoneOnlyByOverlap
    BY DEF IInv, LiveKept, LiveUndoneOnlyByOverlap, Stored
<1> QED
    BY <1>1, Inductive, PTL

----------------------------------------------------------------------------
(* The order of the services.                                              *)

\* What a published service's configuration is made of.
LEMMA ConfigsTyped ==
    ASSUME CatalogueTypeOK, NEW c \in Configs
    PROVE  /\ c.service \in Services /\ c = Config(c.service)
           /\ c.route.prefix \in Seq(Characters)
           /\ c.percent \in {0, 50}
           /\ c.percent # 0 => splitActive(c)
<1>1. PICK s \in Services : c = Config(s) /\ s \in Published
    BY DEF Configs, Published
<1>2. c.service = s /\ c.route = row[s].form.route /\ c.percent \in {0, 50}
    BY <1>1 DEF Config
<1>3. row[s].form \in Forms \cup {NoForm}
    BY DEF CatalogueTypeOK
<1>4. c.route.prefix \in Seq(Characters)
  <2>1. CASE row[s].form \in Forms
      BY <2>1, <1>2, RoutingAssumption
  <2>2. CASE row[s].form = NoForm
    <3>1. NoForm.route.prefix = <<>>
        BY DEF NoForm
    <3>2. c.route.prefix = <<>>
        BY <3>1, <2>2, <1>2
    <3> QED
        BY <3>2
  <2> QED
      BY <2>1, <2>2, <1>3
<1> QED
    BY <1>1, <1>2, <1>4 DEF splitActive

\* A configuration names its service, and no two name the same.
LEMMA ConfigOfItsService ==
    ASSUME CatalogueTypeOK, NEW c \in Configs, NEW d \in Configs, c.service = d.service
    PROVE  c = d
BY ConfigsTyped

\* Of two services one comes first.
LEMMA BeforeTotal ==
    ASSUME CatalogueTypeOK, NEW c \in Configs, NEW d \in Configs, c # d
    PROVE  Before(c, d) \/ Before(d, c)
<1>1. c.service \in Services /\ d.service \in Services /\ c.service # d.service
    BY ConfigsTyped, ConfigOfItsService
<1>2. Keys[c.service] \in Nat /\ Keys[d.service] \in Nat /\ Keys[c.service] # Keys[d.service]
    BY <1>1, RoutingAssumption DEF Injection, IsInjective
<1>3. Len(c.route.prefix) \in Nat /\ Len(d.route.prefix) \in Nat
    BY ConfigsTyped
<1> QED
    BY <1>2, <1>3 DEF Before

\* The order is strict.
LEMMA BeforeStrict ==
    ASSUME CatalogueTypeOK, NEW c \in Configs, NEW d \in Configs, NEW e \in Configs
    PROVE  /\ ~Before(c, c)
           /\ Before(c, d) /\ Before(d, e) => Before(c, e)
<1>1. Keys[c.service] \in Nat /\ Keys[d.service] \in Nat /\ Keys[e.service] \in Nat
    BY ConfigsTyped, RoutingAssumption DEF Injection
<1>2. /\ Len(c.route.prefix) \in Nat /\ Len(d.route.prefix) \in Nat
      /\ Len(e.route.prefix) \in Nat
    BY ConfigsTyped
<1> DEFINE lc == Len(c.route.prefix)
           ld == Len(d.route.prefix)
           le == Len(e.route.prefix)
           kc == Keys[c.service]
           kd == Keys[d.service]
           ke == Keys[e.service]
<1>3. /\ Before(c, c) <=> lc > lc \/ (lc = lc /\ kc < kc)
      /\ Before(c, d) <=> lc > ld \/ (lc = ld /\ kc < kd)
      /\ Before(d, e) <=> ld > le \/ (ld = le /\ kd < ke)
      /\ Before(c, e) <=> lc > le \/ (lc = le /\ kc < ke)
    BY Zenon DEF Before
<1>4. lc \in Nat /\ ld \in Nat /\ le \in Nat /\ kc \in Nat /\ kd \in Nat /\ ke \in Nat
    BY <1>1, <1>2
<1> HIDE DEF lc, ld, le, kc, kd, ke
<1> QED
    BY <1>3, <1>4

\* Of any services that are published one comes before all others: with the
\* fewest services before it, there are none.
LEMMA ForemostIsFirst ==
    ASSUME CatalogueTypeOK, NEW some \in SUBSET Configs, some # {}
    PROVE  /\ Foremost(some) \in some
           /\ \A d \in some \ {Foremost(some)} : Before(Foremost(some), d)
<1> DEFINE Names == {s \in Services : Config(s) \in some}
           Ahead(c) == {s \in Names : Before(Config(s), c)}
           All == {Ahead(c) : c \in some}
<1>1. IsWellFoundedOn(StrictSubsetOrdering(Services), FiniteSubsetsOf(Services))
    BY FS_StrictSubsetOrderingWellFounded
<1>2. All \subseteq FiniteSubsetsOf(Services)
  <2>1. \A c \in some : Ahead(c) \in SUBSET Services
      OBVIOUS
  <2>2. \A c \in some : IsFiniteSet(Ahead(c))
      BY <2>1, FS_Subset, RoutingAssumption
  <2> HIDE DEF Ahead
  <2> QED
      BY <2>1, <2>2 DEF FiniteSubsetsOf
<1>3. All # {}
    OBVIOUS
<1>4. PICK x \in All : \A y \in All : ~(<<y, x>> \in StrictSubsetOrdering(Services))
  <2> HIDE DEF All
  <2> QED
      BY <1>1, <1>2, <1>3, WFMin
<1>5. PICK c \in some : x = Ahead(c)
    OBVIOUS
<1>6. ASSUME NEW d \in some, d # c
      PROVE  Before(c, d)
  <2> SUFFICES ASSUME Before(d, c) PROVE FALSE
      BY BeforeTotal, <1>6
  <2>1. Ahead(d) \subseteq Ahead(c)
      BY BeforeStrict DEF Configs
  <2>2. d.service \in Ahead(c) \ Ahead(d)
      BY BeforeStrict, ConfigsTyped
  <2>3. Ahead(d) \subseteq Services /\ Ahead(c) \subseteq Services
      OBVIOUS
  <2>4. Ahead(d) \in All
      OBVIOUS
  <2>5. <<Ahead(d), x>> \in StrictSubsetOrdering(Services)
    <3> HIDE DEF Ahead
    <3> QED
      BY <2>1, <2>2, <2>3, <1>5 DEF StrictSubsetOrdering
  <2> QED
      BY <2>4, <2>5, <1>4
<1>7. \E e \in some : \A d \in some \ {e} : Before(e, d)
    BY <1>6
<1> QED
    BY <1>7 DEF Foremost

----------------------------------------------------------------------------
(* The paths.                                                              *)

\* A path below a prefix ends in the name.
LEMMA BelowEnds ==
    ASSUME NEW prefix \in Seq(Characters), NEW name \in Characters
    PROVE  /\ Below(prefix, name) \in Seq(Characters)
           /\ Len(Below(prefix, name)) = IF prefix = <<>> THEN 1 ELSE Len(prefix) + 2
           /\ Below(prefix, name) # <<>>
           /\ Below(prefix, name)[Len(Below(prefix, name))] = name
<1>1. CASE prefix = <<>>
    BY <1>1 DEF Below
<1>2. CASE prefix # <<>>
  <2> DEFINE tail == <<"/", name>>
  <2>1. tail \in Seq(Characters) /\ Len(tail) = 2 /\ tail[2] = name
      BY RoutingAssumption
  <2>2. Below(prefix, name) = prefix \o tail /\ Len(prefix) \in Nat
      BY <1>2 DEF Below
  <2> HIDE DEF tail
  <2>3. /\ prefix \o tail \in Seq(Characters) /\ Len(prefix \o tail) = Len(prefix) + 2
        /\ (prefix \o tail)[Len(prefix) + 2] = name
    <3>1. /\ prefix \o tail \in Seq(Characters)
          /\ Len(prefix \o tail) = Len(prefix) + Len(tail)
          /\ \A i \in 1..(Len(prefix) + Len(tail)) : (prefix \o tail)[i] =
                IF i <= Len(prefix) THEN prefix[i] ELSE tail[i - Len(prefix)]
        BY <2>1, ConcatProperties
    <3> DEFINE i == Len(prefix) + 2
    <3>2. i \in 1..(Len(prefix) + Len(tail)) /\ ~(i <= Len(prefix)) /\ i - Len(prefix) = 2
        BY <2>1, <2>2
    <3> HIDE DEF i
    <3>3. (prefix \o tail)[i] = tail[2]
        BY <3>1, <3>2
    <3> QED
        BY <3>1, <3>3, <2>1 DEF i
  <2> QED
      BY <1>2, <2>2, <2>3
<1> QED
    BY <1>1, <1>2

\* Two paths below prefixes are the same only for the same prefix and name.
LEMMA BelowInjective ==
    ASSUME NEW p \in Seq(Characters), NEW q \in Seq(Characters),
           NEW m \in Characters, NEW n \in Characters, Below(p, m) = Below(q, n)
    PROVE  p = q /\ m = n
<1> DEFINE b == Below(p, m)
<1>0. /\ b[Len(b)] = m /\ b[Len(b)] = n
      /\ Len(b) = IF p = <<>> THEN 1 ELSE Len(p) + 2
      /\ Len(b) = IF q = <<>> THEN 1 ELSE Len(q) + 2
  <2>1. b[Len(b)] = m /\ Len(b) = IF p = <<>> THEN 1 ELSE Len(p) + 2
      BY BelowEnds
  <2>2. b = Below(q, n)
      OBVIOUS
  <2> HIDE DEF b
  <2>3. b[Len(b)] = n /\ Len(b) = IF q = <<>> THEN 1 ELSE Len(q) + 2
      BY <2>2, BelowEnds
  <2> QED
      BY <2>1, <2>3
<1>1. m = n
    BY <1>0
<1>2. Len(p) \in Nat /\ Len(q) \in Nat /\ (p = <<>> <=> Len(p) = 0) /\ (q = <<>> <=> Len(q) = 0)
    OBVIOUS
<1>3. Len(p) = Len(q)
  <2> HIDE DEF b
  <2>1. CASE p = <<>> /\ q = <<>>
      BY <2>1
  <2>2. CASE p # <<>> /\ q # <<>>
      BY <2>2, <1>2, <1>0
  <2>3. CASE p = <<>> /\ q # <<>>
    <3>1. Len(b) = 1
        BY <2>3, <1>0
    <3> DEFINE l == Len(q)
    <3>2. 1 = l + 2
        BY <3>1, <2>3, <1>0
    <3>3. l \in Nat
        BY <1>2
    <3> HIDE DEF l
    <3> QED
        BY <3>2, <3>3
  <2>4. CASE p # <<>> /\ q = <<>>
    <3>1. Len(b) = 1
        BY <2>4, <1>0
    <3> DEFINE l == Len(p)
    <3>2. 1 = l + 2
        BY <3>1, <2>4, <1>0
    <3>3. l \in Nat
        BY <1>2
    <3> HIDE DEF l
    <3> QED
        BY <3>2, <3>3
  <2> QED
      BY <2>1, <2>2, <2>3, <2>4
<1>4. CASE p = <<>>
  <2>1. Len(p) = 0
      BY <1>4
  <2> QED
      BY <2>1, <1>1, <1>2, <1>3, <1>4
<1>5. CASE p # <<>>
  <2>1. p \o <<"/", m>> = q \o <<"/", n>>
      BY <1>5, <1>2, <1>3 DEF Below
  <2>2. \A i \in 1..Len(p) : (p \o <<"/", m>>)[i] = p[i] /\ (q \o <<"/", n>>)[i] = q[i]
      BY <1>3
  <2> QED
      BY <2>1, <2>2, <1>1, <1>3
<1> QED
    BY <1>4, <1>5

\* A service's own paths are no pages, and are those of services with the same
\* prefix only.
LEMMA OwnPaths ==
    ASSUME CatalogueTypeOK, NEW c \in Configs, NEW d \in Configs
    PROVE  /\ normalizePath(c) \notin Pages /\ betaPath(c) \notin Pages
           /\ normalizePath(c) # betaPath(d)
           /\ normalizePath(c) = normalizePath(d) => c.route.prefix = d.route.prefix
           /\ betaPath(c) = betaPath(d) => c.route.prefix = d.route.prefix
<1>1. c.route.prefix \in Seq(Characters) /\ d.route.prefix \in Seq(Characters)
    BY ConfigsTyped
<1>2. ASSUME NEW name \in Special PROVE Below(c.route.prefix, name) \notin Pages
  <2>1. name \in Characters
      BY RoutingAssumption
  <2> DEFINE p == Below(c.route.prefix, name)
  <2>2. p \in Seq(Characters) /\ p # <<>> /\ p[Len(p)] = name
      BY <1>1, <2>1, BelowEnds
  <2>3. Len(p) \in DOMAIN p
      BY <2>2
  <2> HIDE DEF p
  <2> QED
      BY <2>2, <2>3, RoutingAssumption DEF p
<1>3. normalizePath(c) \notin Pages /\ betaPath(c) \notin Pages
    BY <1>2 DEF normalizePath, betaPath, Special
<1>4. {"__ep/normalize", "__ep/beta"} \subseteq Characters
    BY RoutingAssumption DEF Special
<1> DEFINE p == c.route.prefix
           q == d.route.prefix
           N == "__ep/normalize"
           B == "__ep/beta"
<1>5. N \in Characters /\ B \in Characters /\ N # B
    BY <1>4
<1>6. ASSUME NEW m \in {N, B}, NEW n \in {N, B}, Below(p, m) = Below(q, n)
      PROVE  p = q /\ m = n
  <2> HIDE DEF p, q, N, B
  <2> QED
      BY <1>1, <1>5, <1>6, BelowInjective DEF p, q
<1>7. /\ normalizePath(c) = Below(p, N) /\ betaPath(c) = Below(p, B)
      /\ normalizePath(d) = Below(q, N) /\ betaPath(d) = Below(q, B)
    BY DEF normalizePath, betaPath
<1> HIDE DEF N, B
<1> QED
    BY <1>3, <1>5, <1>6, <1>7

----------------------------------------------------------------------------
(* The rules of one service.                                               *)

\* The target of the first rule that holds.
To(rules) == rules[FirstOf(rules)].to

\* Which rule comes first.
LEMMA FirstOfIs ==
    ASSUME NEW rules, DOMAIN rules \subseteq Nat, NEW i \in DOMAIN rules,
           rules[i].on, \A j \in 1..(i - 1) : ~rules[j].on,
           0 \notin DOMAIN rules
    PROVE  Holds(rules) /\ To(rules) = rules[i].to
<1> DEFINE P(n) == rules[n].on /\ \A j \in 1..(n - 1) : ~rules[j].on
           k == FirstOf(rules)
<1>1. P(i)
    OBVIOUS
<1>2. k \in DOMAIN rules /\ P(k)
    BY <1>1 DEF FirstOf
<1>3. k \in Nat /\ i \in Nat /\ k # 0 /\ i # 0
    BY <1>2
<1>4. ~(k < i) /\ ~(i < k)
  <2>1. ASSUME k < i PROVE FALSE
      BY <2>1, <1>2, <1>3
  <2>2. ASSUME i < k PROVE FALSE
      BY <2>2, <1>2, <1>3
  <2> QED
      BY <2>1, <2>2
<1>5. k = i
    BY <1>3, <1>4
<1> QED
    BY <1>5 DEF To, Holds

\* A list of eight.
LEMMA EightRead ==
    ASSUME NEW a, NEW b, NEW c, NEW d, NEW e, NEW f, NEW g, NEW h
    PROVE  LET t == <<a, b, c, d, e, f, g, h>>
           IN  /\ DOMAIN t = 1..8 /\ t[1] = a /\ t[2] = b /\ t[3] = c /\ t[4] = d
               /\ t[5] = e /\ t[6] = f /\ t[7] = g /\ t[8] = h
OBVIOUS

\* A rule.
LEMMA RuleRead ==
    ASSUME NEW t, NEW p
    PROVE  [to |-> t, on |-> p].to = t /\ [to |-> t, on |-> p].on = p
OBVIOUS

\* The rules of a service, one by one.
LEMMA RulesRead ==
    ASSUME NEW c, NEW q, NEW cookie, NEW lots
    PROVE  LET rules == Rules(c, q, cookie, lots)
               normalize == q.path = normalizePath(c)
               beta == q.path = betaPath(c)
               queryLive == c.live # 0 /\ q.query = c.live
               queryCandidate == c.candidate # 0 /\ q.query = c.candidate
               cookieLive == c.live # 0 /\ cookie = c.live
               cookieCandidate == c.candidate # 0 /\ cookie = c.candidate
               noQuery == ~queryLive /\ ~queryCandidate
               base == noQuery /\ ~normalize /\ ~beta /\ ~cookieLive
                           /\ (c.percent > 0 => ~cookieCandidate)
               both == c.live # 0 /\ c.candidate # 0
               o7 == \/ base /\ c.live = 0 /\ c.candidate # 0
                     \/ noQuery /\ cookieCandidate /\ both /\ c.percent = 0
                     \/ base /\ both /\ c.percent >= 100
                     \/ base /\ both /\ splitActive(c) /\ lots[1]
               o8 == \/ base /\ c.live # 0 /\ c.candidate = 0
                     \/ base /\ both /\ c.percent = 0
                     \/ base /\ both /\ splitActive(c) /\ ~lots[2]
           IN  /\ DOMAIN rules = 1..8
               /\ rules[1].on <=> normalize /\ c.live # 0
               /\ rules[2].on <=> beta
               /\ rules[3].on <=> queryCandidate
               /\ rules[4].on <=> queryLive
               /\ rules[5].on <=> noQuery /\ cookieCandidate /\ c.percent > 0
               /\ rules[6].on <=> noQuery /\ cookieLive
               /\ rules[7].on <=> o7
               /\ rules[8].on <=> o8
               /\ rules[1].to = ToNormalize /\ rules[2].to = ToNormalize
               /\ rules[3].to = ToRelease(c, c.candidate) /\ rules[4].to = ToRelease(c, c.live)
               /\ rules[5].to = ToRelease(c, c.candidate) /\ rules[6].to = ToRelease(c, c.live)
               /\ rules[7].to = ToRelease(c, c.candidate) /\ rules[8].to = ToRelease(c, c.live)
<1> DEFINE rules == Rules(c, q, cookie, lots)
           normalize == q.path = normalizePath(c)
           beta == q.path = betaPath(c)
           queryLive == c.live # 0 /\ q.query = c.live
           queryCandidate == c.candidate # 0 /\ q.query = c.candidate
           cookieLive == c.live # 0 /\ cookie = c.live
           cookieCandidate == c.candidate # 0 /\ cookie = c.candidate
           noQuery == ~queryLive /\ ~queryCandidate
           base == noQuery /\ ~normalize /\ ~beta /\ ~cookieLive
                       /\ (c.percent > 0 => ~cookieCandidate)
           both == c.live # 0 /\ c.candidate # 0
           o7 == \/ base /\ c.live = 0 /\ c.candidate # 0
                 \/ noQuery /\ cookieCandidate /\ both /\ c.percent = 0
                 \/ base /\ both /\ c.percent >= 100
                 \/ base /\ both /\ splitActive(c) /\ lots[1]
           o8 == \/ base /\ c.live # 0 /\ c.candidate = 0
                 \/ base /\ both /\ c.percent = 0
                 \/ base /\ both /\ splitActive(c) /\ ~lots[2]
           o1 == normalize /\ c.live # 0
           o5 == noQuery /\ cookieCandidate /\ c.percent > 0
           o6 == noQuery /\ cookieLive
           live == ToRelease(c, c.live)
           cand == ToRelease(c, c.candidate)
           rule(t, p) == [to |-> t, on |-> p]
<1>1. rules = << rule(ToNormalize, o1), rule(ToNormalize, beta), rule(cand, queryCandidate),
                 rule(live, queryLive), rule(cand, o5), rule(live, o6), rule(cand, o7),
                 rule(live, o8) >>
    BY Zenon DEF Rules
<1> HIDE DEF rules, rule, o1, beta, queryCandidate, queryLive, o5, o6, o7, o8, live, cand
<1>2. /\ DOMAIN rules = 1..8
      /\ rules[1] = rule(ToNormalize, o1) /\ rules[2] = rule(ToNormalize, beta)
      /\ rules[3] = rule(cand, queryCandidate) /\ rules[4] = rule(live, queryLive)
      /\ rules[5] = rule(cand, o5) /\ rules[6] = rule(live, o6)
      /\ rules[7] = rule(cand, o7) /\ rules[8] = rule(live, o8)
    BY <1>1, EightRead
<1>3. \A t, p : rule(t, p).to = t /\ rule(t, p).on = p
    BY RuleRead DEF rule
<1>4. /\ rules[1].on = o1 /\ rules[2].on = beta /\ rules[3].on = queryCandidate
      /\ rules[4].on = queryLive /\ rules[5].on = o5 /\ rules[6].on = o6
      /\ rules[7].on = o7 /\ rules[8].on = o8
    BY <1>2, <1>3
<1>5. /\ rules[1].to = ToNormalize /\ rules[2].to = ToNormalize /\ rules[3].to = cand
      /\ rules[4].to = live /\ rules[5].to = cand /\ rules[6].to = live
      /\ rules[7].to = cand /\ rules[8].to = live
    BY <1>2, <1>3
<1> QED
    BY <1>2, <1>4, <1>5, Zenon
       DEF rules, o1, beta, queryCandidate, queryLive, o5, o6, o7, o8, live, cand

\* A service without a release answers nothing but its path __ep/beta.
LEMMA Silent ==
    ASSUME NEW c, c.live = 0, c.candidate = 0, NEW q, NEW cookie, NEW lots,
           q.path # betaPath(c)
    PROVE  ~Holds(Rules(c, q, cookie, lots))
BY RulesRead DEF Holds

\* The release of a service that answers without a split.
Default(c) == IF c.live # 0 THEN c.live ELSE c.candidate

Both(c) == c.live # 0 /\ c.candidate # 0

\* Which of the eight rules of a service comes first.
LEMMA FirstOfEight ==
    ASSUME NEW rules, DOMAIN rules = 1..8, NEW i \in 1..8,
           rules[i].on, \A j \in 1..(i - 1) : ~rules[j].on
    PROVE  Holds(rules) /\ To(rules) = rules[i].to
BY FirstOfIs

\* What a visitor without a cookie gets who asks for a page: with a split the
\* two draws decide, otherwise it is the default release.
LEMMA PlainPage ==
    ASSUME NEW c, c.percent \in {0, 50}, NEW q, NEW lots, q.query = 0,
           q.path # normalizePath(c), q.path # betaPath(c)
    PROVE  LET rules == Rules(c, q, 0, lots)
           IN  /\ ~(Both(c) /\ splitActive(c)) /\ (c.live # 0 \/ c.candidate # 0)
                     => Holds(rules) /\ To(rules) = ToRelease(c, Default(c))
               /\ Both(c) /\ splitActive(c) /\ lots[1]
                     => Holds(rules) /\ To(rules) = ToRelease(c, c.candidate)
               /\ Both(c) /\ splitActive(c) /\ ~lots[1] /\ ~lots[2]
                     => Holds(rules) /\ To(rules) = ToRelease(c, c.live)
               /\ Both(c) /\ splitActive(c) /\ ~lots[1] /\ lots[2] => ~Holds(rules)
<1> DEFINE rules == Rules(c, q, 0, lots)
<1>1. /\ DOMAIN rules = 1..8
      /\ ~rules[1].on /\ ~rules[2].on /\ ~rules[3].on /\ ~rules[4].on
      /\ ~rules[5].on /\ ~rules[6].on
      /\ rules[7].on <=> \/ c.live = 0 /\ c.candidate # 0
                         \/ Both(c) /\ splitActive(c) /\ lots[1]
      /\ rules[8].on <=> \/ c.live # 0 /\ c.candidate = 0
                         \/ Both(c) /\ c.percent = 0
                         \/ Both(c) /\ splitActive(c) /\ ~lots[2]
      /\ rules[7].to = ToRelease(c, c.candidate) /\ rules[8].to = ToRelease(c, c.live)
    BY RulesRead DEF Both, splitActive
<1> HIDE DEF rules
<1>0. DOMAIN rules = 1..8
    BY <1>1
<1>2. rules[7].on => Holds(rules) /\ To(rules) = rules[7].to
  <2>1. 7 \in 1..8 /\ \A j \in 1..(7 - 1) : ~rules[j].on
      BY <1>1
  <2> QED
      BY <1>0, <2>1, FirstOfEight
<1>3. rules[8].on /\ ~rules[7].on => Holds(rules) /\ To(rules) = rules[8].to
    BY <1>1, FirstOfEight
<1>4. ~rules[7].on /\ ~rules[8].on => ~Holds(rules)
    BY <1>1 DEF Holds
<1>5. splitActive(c) <=> c.percent # 0
    BY DEF splitActive
<1> QED
    BY <1>1, <1>2, <1>3, <1>4, <1>5 DEF Default, Both, rules

\* Whoever has the cookie of a release that is published gets a page from it.
LEMMA StickyPage ==
    ASSUME NEW c, c.percent \in {0, 50}, NEW q, NEW lots, q.query = 0,
           q.path # normalizePath(c), q.path # betaPath(c),
           NEW r \in {c.live, c.candidate} \ {0}
    PROVE  Holds(Rules(c, q, r, lots)) /\ To(Rules(c, q, r, lots)) = ToRelease(c, r)
<1> DEFINE rules == Rules(c, q, r, lots)
<1>1. /\ DOMAIN rules = 1..8
      /\ ~rules[1].on /\ ~rules[2].on /\ ~rules[3].on /\ ~rules[4].on
      /\ rules[5].on <=> r = c.candidate /\ c.percent > 0
      /\ rules[6].on <=> r = c.live
      /\ rules[7].on <=> r = c.candidate /\ c.percent = 0 /\ (c.live # 0 \/ c.live # r)
      /\ rules[5].to = ToRelease(c, c.candidate)
      /\ rules[6].to = ToRelease(c, c.live)
      /\ rules[7].to = ToRelease(c, c.candidate)
    BY RulesRead DEF splitActive
<1> HIDE DEF rules
<1>0. DOMAIN rules = 1..8
    BY <1>1
<1>2. CASE rules[5].on
  <2>1. 5 \in 1..8 /\ \A j \in 1..(5 - 1) : ~rules[j].on
      BY <1>1
  <2>2. Holds(rules) /\ To(rules) = rules[5].to
      BY <1>0, <1>2, <2>1, FirstOfEight
  <2> QED
      BY <1>1, <1>2, <2>2 DEF rules
<1>3. CASE ~rules[5].on /\ rules[6].on
  <2>1. 6 \in 1..8 /\ \A j \in 1..(6 - 1) : ~rules[j].on
      BY <1>1, <1>3
  <2>2. Holds(rules) /\ To(rules) = rules[6].to
      BY <1>0, <1>3, <2>1, FirstOfEight
  <2> QED
      BY <1>1, <1>3, <2>2 DEF rules
<1>4. CASE ~rules[5].on /\ ~rules[6].on
  <2>1. 7 \in 1..8 /\ rules[7].on /\ \A j \in 1..(7 - 1) : ~rules[j].on
      BY <1>1, <1>4
  <2>2. Holds(rules) /\ To(rules) = rules[7].to
      BY <1>0, <2>1, FirstOfEight
  <2> QED
      BY <1>1, <1>4, <2>2 DEF rules
<1> QED
    BY <1>2, <1>3, <1>4

\* The two paths of a service lead to the backend that sets the cookie.
LEMMA SpecialPage ==
    ASSUME NEW c, NEW q, NEW cookie, NEW lots,
           (q.path = normalizePath(c) /\ c.live # 0) \/ q.path = betaPath(c)
    PROVE  Holds(Rules(c, q, cookie, lots)) /\ To(Rules(c, q, cookie, lots)) = ToNormalize
<1> DEFINE rules == Rules(c, q, cookie, lots)
<1>1. /\ DOMAIN rules = 1..8
      /\ rules[1].on <=> q.path = normalizePath(c) /\ c.live # 0
      /\ rules[2].on <=> q.path = betaPath(c)
      /\ rules[1].to = ToNormalize /\ rules[2].to = ToNormalize
    BY RulesRead
<1> HIDE DEF rules
<1>0. DOMAIN rules = 1..8
    BY <1>1
<1>2. CASE rules[1].on
    BY <1>1, <1>2, FirstOfEight DEF rules
<1>3. CASE ~rules[1].on
    BY <1>1, <1>3, FirstOfEight DEF rules
<1> QED
    BY <1>2, <1>3

----------------------------------------------------------------------------
(* The services that answer.                                               *)

RulesOf(c, q, cookies, lots) == Rules(c, q, cookies[c.service], lots[c.service])
Hits(q, cookies, lots) ==
    {c \in Configs : OnRoute(c, q) /\ Holds(RulesOf(c, q, cookies, lots))}
Able(q) == {c \in Configs : OnRoute(c, q) /\ (c.live # 0 \/ c.candidate # 0)}

\* The foremost service of those with a rule that holds answers.
LEMMA AnswerRead ==
    ASSUME CatalogueTypeOK, NEW q, NEW cookies, NEW lots
    PROVE  /\ Hits(q, cookies, lots) = {} => Answer(q, cookies, lots) = Nobody
           /\ Hits(q, cookies, lots) # {} =>
                 \E f \in Hits(q, cookies, lots) :
                     /\ \A d \in Hits(q, cookies, lots) : d = f \/ Before(f, d)
                     /\ Answer(q, cookies, lots) = To(RulesOf(f, q, cookies, lots))
<1> DEFINE hits == Hits(q, cookies, lots)
           f == Foremost(hits)
<1>1. Answer(q, cookies, lots) =
          IF hits = {} THEN Nobody ELSE To(RulesOf(f, q, cookies, lots))
    BY DEF Answer, Hits, RulesOf, To
<1>2. hits \in SUBSET Configs
    BY DEF Hits
<1>3. hits # {} => f \in hits /\ \A d \in hits \ {f} : Before(f, d)
  <2> HIDE DEF hits
  <2> QED
      BY <1>2, ForemostIsFirst
<1> HIDE DEF f, hits
<1>4. CASE hits = {}
    BY <1>1, <1>4 DEF hits
<1>5. CASE hits # {}
  <2>1. f \in hits /\ \A d \in hits : d = f \/ Before(f, d)
      BY <1>3, <1>5
  <2>2. Answer(q, cookies, lots) = To(RulesOf(f, q, cookies, lots))
      BY <1>1, <1>5
  <2> QED
      BY <2>1, <2>2, <1>5 DEF hits
<1> QED
    BY <1>4, <1>5

\* The owners of a request are the able services with the longest prefix.
LEMMA OwnersRead ==
    ASSUME NEW q
    PROVE  Owners(q) = {c \in Able(q) :
               \A d \in Able(q) : Len(d.route.prefix) <= Len(c.route.prefix)}
<1>1. Able(q) = {c \in Configs : OnRoute(c, q) /\ {c.live, c.candidate} # {0}}
    BY DEF Able
<1> QED
    BY <1>1 DEF Owners

\* One that comes before an owner has as long a prefix.
LEMMA BeforeOwner ==
    ASSUME CatalogueTypeOK, NEW q, NEW c \in Owners(q), NEW f \in Able(q),
           f = c \/ Before(f, c)
    PROVE  f \in Owners(q)
<1>1. c \in Able(q) /\ \A d \in Able(q) : Len(d.route.prefix) <= Len(c.route.prefix)
    BY OwnersRead
<1>2. Able(q) \subseteq Configs
    BY DEF Able
<1>3. \A d \in Able(q) : Len(d.route.prefix) \in Nat
    BY <1>2, ConfigsTyped
<1>4. Len(c.route.prefix) <= Len(f.route.prefix)
    BY <1>1, <1>3 DEF Before
<1>5. ASSUME NEW d \in Able(q) PROVE Len(d.route.prefix) <= Len(f.route.prefix)
  <2> DEFINE ld == Len(d.route.prefix)
             lc == Len(c.route.prefix)
             lf == Len(f.route.prefix)
  <2>1. ld \in Nat /\ lc \in Nat /\ lf \in Nat /\ ld <= lc /\ lc <= lf
      BY <1>1, <1>3, <1>4
  <2> HIDE DEF ld, lc, lf
  <2>2. ld <= lf
      BY <2>1
  <2> QED
      BY <2>2 DEF ld, lf
<1> QED
    BY <1>5, OwnersRead

\* A request that a service with a release can answer has an owner.
LEMMA OwnerExists ==
    ASSUME CatalogueTypeOK, NEW q, Able(q) # {}
    PROVE  Owners(q) # {}
<1>1. Able(q) \in SUBSET Configs
    BY DEF Able
<1> DEFINE f == Foremost(Able(q))
<1>2. f \in Able(q) /\ \A d \in Able(q) \ {f} : Before(f, d)
    BY <1>1, ForemostIsFirst
<1> HIDE DEF f
<1>3. ASSUME NEW d \in Able(q) PROVE Len(d.route.prefix) <= Len(f.route.prefix)
  <2>1. Len(d.route.prefix) \in Nat /\ Len(f.route.prefix) \in Nat
      BY <1>1, <1>2, ConfigsTyped
  <2>2. d = f \/ Before(f, d)
      BY <1>2
  <2> QED
      BY <2>1, <2>2 DEF Before
<1> QED
    BY <1>2, <1>3, OwnersRead

\* There are draws.
LEMMA LotsExist == Lots # {}
<1> DEFINE S == {c.service : c \in {x \in Configs : splitActive(x)}}
<1>1. [s \in S |-> <<TRUE, TRUE>>] \in [S -> BOOLEAN \X BOOLEAN]
    OBVIOUS
<1> QED
    BY <1>1 DEF Lots

\* A service that answers a request for anything but its own paths has a
\* release.
LEMMA HitsAble ==
    ASSUME NEW q, NEW cookies, NEW lots, NEW c \in Hits(q, cookies, lots),
           q.path # betaPath(c)
    PROVE  c \in Able(q)
BY Silent DEF Hits, Able, RulesOf

\* Pages are nobody's own paths.
LEMMA PageIsNoOwnPath ==
    ASSUME CatalogueTypeOK, NEW q, q.path \in Pages, NEW c \in Configs
    PROVE  q.path # normalizePath(c) /\ q.path # betaPath(c)
BY OwnPaths

\* The service that owns a request alone answers it, if one of its rules holds.
LEMMA OwnerAnswers ==
    ASSUME CatalogueTypeOK, NEW q, NEW cookies, NEW lots, NEW c,
           Owners(q) = {c}, c \in Hits(q, cookies, lots),
           \A d \in Hits(q, cookies, lots) : q.path # betaPath(d)
    PROVE  Answer(q, cookies, lots) = To(RulesOf(c, q, cookies, lots))
<1>1. PICK f \in Hits(q, cookies, lots) :
          /\ \A d \in Hits(q, cookies, lots) : d = f \/ Before(f, d)
          /\ Answer(q, cookies, lots) = To(RulesOf(f, q, cookies, lots))
    BY AnswerRead
<1>2. f \in Able(q)
    BY HitsAble
<1>3. f \in Owners(q)
    BY <1>1, <1>2, BeforeOwner
<1> QED
    BY <1>1, <1>3

----------------------------------------------------------------------------
(* A visit without a cookie.                                               *)

\* What is known of a request for a page.
LEMMA PageRead ==
    ASSUME NEW q \in PageRequests
    PROVE  q.path \in Pages /\ q.query = 0 /\ q.host \in Hosts
BY DEF PageRequests, Request

\* The cookie of a service that was not visited.
LEMMA NoCookie ==
    ASSUME CatalogueTypeOK, NEW c \in Configs
    PROVE  NoCookies[c.service] = 0
BY ConfigsTyped DEF NoCookies

\* What one service makes of a first visit.
LEMMA FirstVisit ==
    ASSUME CatalogueTypeOK, NEW q \in PageRequests, NEW c \in Configs, NEW lots
    PROVE  LET rules == RulesOf(c, q, NoCookies, lots)
               l == lots[c.service]
           IN  /\ ~(Both(c) /\ splitActive(c)) /\ (c.live # 0 \/ c.candidate # 0)
                     => Holds(rules) /\ To(rules) = ToRelease(c, Default(c))
               /\ Both(c) /\ splitActive(c) /\ l[1]
                     => Holds(rules) /\ To(rules) = ToRelease(c, c.candidate)
               /\ Both(c) /\ splitActive(c) /\ ~l[1] /\ ~l[2]
                     => Holds(rules) /\ To(rules) = ToRelease(c, c.live)
               /\ Both(c) /\ splitActive(c) /\ ~l[1] /\ l[2] => ~Holds(rules)
<1>1. RulesOf(c, q, NoCookies, lots) = Rules(c, q, 0, lots[c.service])
    BY NoCookie DEF RulesOf
<1>2. c.percent \in {0, 50} /\ q.query = 0 /\ q.path # normalizePath(c) /\ q.path # betaPath(c)
    BY ConfigsTyped, PageRead, PageIsNoOwnPath
<1> QED
    BY <1>1, <1>2, PlainPage

\* A service that answers a first visit has a release and answers with one.
LEMMA VisitedService ==
    ASSUME CatalogueTypeOK, NEW q \in PageRequests, NEW lots,
           NEW c \in Hits(q, NoCookies, lots)
    PROVE  /\ c \in Able(q)
           /\ To(RulesOf(c, q, NoCookies, lots)) \in {ToRelease(c, c.live), ToRelease(c, c.candidate)}
<1>1. c \in Configs /\ Holds(RulesOf(c, q, NoCookies, lots))
    BY DEF Hits
<1>2. q.path # betaPath(c)
    BY <1>1, PageRead, PageIsNoOwnPath
<1>3. c \in Able(q)
    BY <1>2, HitsAble
<1>4. c.live # 0 \/ c.candidate # 0
    BY <1>3 DEF Able
<1>5. Default(c) \in {c.live, c.candidate}
    BY DEF Default
<1> QED
    BY <1>1, <1>3, <1>4, <1>5, FirstVisit

\* Every page is answered by a service with the longest prefix.
LEMMA MostSpecificAnswers ==
    ASSUME CatalogueTypeOK
    PROVE  AnsweredByMostSpecific
<1> SUFFICES ASSUME NEW q \in PageRequests
             PROVE  LET services == {a.service : a \in Answers(q, NoCookies)}
                    IN  IF Owners(q) = {} THEN services = {"none"}
                        ELSE (\A c \in Owners(q) : ~splitActive(c)) =>
                                 services \subseteq {c.service : c \in Owners(q)}
    BY DEF AnsweredByMostSpecific
<1> DEFINE answer(lots) == Answer(q, NoCookies, lots)
<1>1. CASE Owners(q) = {}
  <2>1. Able(q) = {}
      BY <1>1, OwnerExists
  <2>2. ASSUME NEW lots \in Lots PROVE answer(lots).service = "none"
    <3>1. Hits(q, NoCookies, lots) = {}
        BY <2>1, VisitedService
    <3>2. answer(lots) = Nobody
        BY <3>1, AnswerRead
    <3> QED
        BY <3>2 DEF Nobody
  <2> HIDE DEF answer
  <2>3. {a.service : a \in {answer(lots) : lots \in Lots}} = {"none"}
      BY <2>2, LotsExist
  <2> QED
      BY <2>3, <1>1 DEF Answers, answer
<1>2. ASSUME Owners(q) # {}, \A c \in Owners(q) : ~splitActive(c), NEW lots \in Lots
      PROVE  answer(lots).service \in {c.service : c \in Owners(q)}
  <2>1. PICK c \in Owners(q) : TRUE
      BY <1>2
  <2>2. c \in Configs /\ OnRoute(c, q) /\ (c.live # 0 \/ c.candidate # 0) /\ ~splitActive(c)
      BY <1>2, OwnersRead DEF Able
  <2>3. c \in Hits(q, NoCookies, lots)
      BY <2>2, FirstVisit DEF Hits
  <2>4. PICK f \in Hits(q, NoCookies, lots) :
            /\ \A d \in Hits(q, NoCookies, lots) : d = f \/ Before(f, d)
            /\ answer(lots) = To(RulesOf(f, q, NoCookies, lots))
      BY <2>3, AnswerRead
  <2>5. f \in Owners(q)
      BY <2>3, <2>4, VisitedService, BeforeOwner
  <2>6. answer(lots).service = f.service
      BY <2>4, VisitedService DEF ToRelease
  <2> QED
      BY <2>5, <2>6
<1> QED
    BY <1>1, <1>2 DEF Answers

----------------------------------------------------------------------------
(* TCP ports.                                                              *)

\* Finitely many services are published.
LEMMA ConfigsFinite == IsFiniteSet(Configs)
<1> DEFINE f == [s \in Published |-> Config(s)]
<1>1. IsFiniteSet(Published)
    BY RoutingAssumption, FS_Subset DEF Published
<1>2. f \in Surjection(Published, Configs)
    BY DEF Configs, Surjection
<1> QED
    BY <1>1, <1>2, FS_Surjection

\* An owner that is the only one is named.
LEMMA OnlyOwner ==
    ASSUME NEW q, NEW c \in Owners(q), Cardinality(Owners(q)) = 1
    PROVE  Owners(q) = {c}
<1>1. Owners(q) \in SUBSET Configs
    BY OwnersRead DEF Able
<1>2. IsFiniteSet(Owners(q))
    BY <1>1, ConfigsFinite, FS_Subset
<1>3. \E x : Owners(q) = {x}
    BY <1>2, FS_Singleton
<1> QED
    BY <1>3

\* The service that owns a page alone answers a first visit by its first rule
\* that holds; if none does, another service answers, or nobody.
LEMMA NewcomerAnswered ==
    ASSUME CatalogueTypeOK, NEW q \in PageRequests, NEW c, Owners(q) = {c}, NEW lots
    PROVE  IF Holds(RulesOf(c, q, NoCookies, lots))
           THEN Answer(q, NoCookies, lots) = To(RulesOf(c, q, NoCookies, lots))
           ELSE Answer(q, NoCookies, lots).service # c.service
<1>1. c \in Configs /\ OnRoute(c, q) /\ c.service \in Services
    BY OwnersRead, ConfigsTyped DEF Able
<1>2. CASE Holds(RulesOf(c, q, NoCookies, lots))
  <2>1. c \in Hits(q, NoCookies, lots)
      BY <1>1, <1>2 DEF Hits
  <2>2. \A d \in Hits(q, NoCookies, lots) : q.path # betaPath(d)
      BY PageRead, PageIsNoOwnPath DEF Hits
  <2> QED
      BY <1>2, <2>1, <2>2, OwnerAnswers
<1>3. CASE ~Holds(RulesOf(c, q, NoCookies, lots))
  <2>1. CASE Hits(q, NoCookies, lots) = {}
      BY <1>3, <2>1, <1>1, AnswerRead, RoutingAssumption DEF Nobody
  <2>2. CASE Hits(q, NoCookies, lots) # {}
    <3>1. PICK f \in Hits(q, NoCookies, lots) :
              Answer(q, NoCookies, lots) = To(RulesOf(f, q, NoCookies, lots))
        BY <2>2, AnswerRead
    <3>2. Answer(q, NoCookies, lots).service = f.service
        BY <3>1, VisitedService DEF ToRelease
    <3>3. f \in Configs /\ f # c
        BY <1>3 DEF Hits
    <3> QED
        BY <1>1, <1>3, <3>2, <3>3, ConfigOfItsService
  <2> QED
      BY <2>1, <2>2
<1> QED
    BY <1>2, <1>3

\* The two rules of a split draw anew: the first draw has said no to the
\* candidate and the second says yes to it, which the live rule takes for a no.
DrawsDisagree(c, lots) ==
    Both(c) /\ splitActive(c) /\ ~lots[c.service][1] /\ lots[c.service][2]

\* The first page of a service that owns it alone is answered by one of its
\* releases, except when the two draws of its split disagree.
AstrayOnlyByDraws ==
    \A q \in PageRequests, c \in Configs, lots \in Lots :
        Owners(q) = {c} =>
            (Answer(q, NoCookies, lots) \in {ToRelease(c, r) : r \in {c.live, c.candidate} \ {0}}
                <=> ~DrawsDisagree(c, lots))

\* ... as it is.
LEMMA DrawsLeadAstray ==
    ASSUME CatalogueTypeOK
    PROVE  AstrayOnlyByDraws
<1> SUFFICES ASSUME NEW q \in PageRequests, NEW c \in Configs, NEW lots \in Lots, Owners(q) = {c}
             PROVE  Answer(q, NoCookies, lots)
                       \in {ToRelease(c, r) : r \in {c.live, c.candidate} \ {0}}
                    <=> ~DrawsDisagree(c, lots)
    BY DEF AstrayOnlyByDraws
<1> DEFINE rules == RulesOf(c, q, NoCookies, lots)
           answer == Answer(q, NoCookies, lots)
<1>1. c.live # 0 \/ c.candidate # 0
    BY OwnersRead DEF Able
<1>2. CASE DrawsDisagree(c, lots)
  <2>1. ~Holds(rules)
      BY <1>2, FirstVisit DEF DrawsDisagree
  <2>2. answer.service # c.service
      BY <2>1, NewcomerAnswered
  <2>3. \A r : ToRelease(c, r).service = c.service
      BY DEF ToRelease
  <2> HIDE DEF answer
  <2>4. answer \notin {ToRelease(c, r) : r \in {c.live, c.candidate} \ {0}}
      BY <2>2, <2>3
  <2> QED
      BY <1>2, <2>4 DEF answer
<1>3. CASE ~DrawsDisagree(c, lots)
  <2>1. Holds(rules) /\ \E r \in {c.live, c.candidate} \ {0} : To(rules) = ToRelease(c, r)
    <3>1. CASE ~(Both(c) /\ splitActive(c))
      <4>1. Default(c) \in {c.live, c.candidate} \ {0}
          BY <1>1 DEF Default
      <4>2. Holds(rules) /\ To(rules) = ToRelease(c, Default(c))
          BY <1>1, <3>1, FirstVisit
      <4> QED
          BY <4>1, <4>2
    <3>2. CASE Both(c) /\ splitActive(c)
      <4>1. lots[c.service][1] \/ ~lots[c.service][2]
          BY <1>3, <3>2 DEF DrawsDisagree
      <4>2. c.live \in {c.live, c.candidate} \ {0} /\ c.candidate \in {c.live, c.candidate} \ {0}
          BY <3>2 DEF Both
      <4>3. Holds(rules) /\ To(rules) \in {ToRelease(c, c.live), ToRelease(c, c.candidate)}
          BY <3>2, <4>1, FirstVisit
      <4> QED
          BY <4>2, <4>3
    <3> QED
        BY <3>1, <3>2
  <2>2. answer = To(rules)
      BY <2>1, NewcomerAnswered
  <2> QED
      BY <1>3, <2>1, <2>2
<1> QED
    BY <1>2, <1>3

\* A port reaches the releases that a first visit reaches.
LEMMA TcpReaches ==
    ASSUME CatalogueTypeOK
    PROVE  TcpAgreesWithHttp
<1> SUFFICES ASSUME NEW q \in PageRequests, NEW c \in Owners(q), Owners(q) = {c}
             PROVE  TcpTargets(c) = {a.release : a \in {x \in Answers(q, NoCookies) :
                                                          x.service = c.service}}
    BY OnlyOwner DEF TcpAgreesWithHttp
<1> DEFINE answer(lots) == Answer(q, NoCookies, lots)
           reached == {a.release : a \in {x \in {answer(lots) : lots \in Lots} :
                                            x.service = c.service}}
<1>1. /\ c \in Configs /\ OnRoute(c, q) /\ (c.live # 0 \/ c.candidate # 0)
      /\ c.percent \in {0, 50} /\ c.service \in Services
    BY OwnersRead, ConfigsTyped DEF Able
<1>2. ASSUME NEW lots, Holds(RulesOf(c, q, NoCookies, lots))
      PROVE  answer(lots) = To(RulesOf(c, q, NoCookies, lots))
    BY <1>2, NewcomerAnswered
<1>3. ASSUME NEW lots, ~Holds(RulesOf(c, q, NoCookies, lots))
      PROVE  answer(lots).service # c.service
    BY <1>3, NewcomerAnswered
<1>4. CASE ~(Both(c) /\ splitActive(c))
  <2>1. ASSUME NEW lots PROVE answer(lots) = ToRelease(c, Default(c))
      BY <1>1, <1>2, <1>4, FirstVisit
  <2>2. TcpTargets(c) = {Default(c)}
      BY <1>1, <1>4 DEF TcpTargets, Default, Both, splitActive
  <2>3. ToRelease(c, Default(c)).service = c.service /\ ToRelease(c, Default(c)).release = Default(c)
      BY DEF ToRelease
  <2> HIDE DEF answer
  <2>4. reached = {Default(c)}
      BY <2>1, <2>3, LotsExist
  <2> QED
      BY <2>2, <2>4 DEF Answers, answer
<1>5. CASE Both(c) /\ splitActive(c)
  <2> DEFINE S == {d.service : d \in {x \in Configs : splitActive(x)}}
             candLots == [s \in S |-> <<TRUE, TRUE>>]
             liveLots == [s \in S |-> <<FALSE, FALSE>>]
  <2>1. c.service \in S
      BY <1>1, <1>5
  <2>2. candLots \in Lots /\ liveLots \in Lots
      BY DEF Lots
  <2>3. /\ candLots[c.service][1]
        /\ ~liveLots[c.service][1] /\ ~liveLots[c.service][2]
      BY <2>1
  <2>4. TcpTargets(c) = {c.live, c.candidate}
      BY <1>1, <1>5 DEF TcpTargets, Both, splitActive
  <2> HIDE DEF candLots, liveLots, S
  <2>5. answer(candLots) = ToRelease(c, c.candidate)
      BY <1>1, <1>2, <1>5, <2>3, FirstVisit
  <2>6. answer(liveLots) = ToRelease(c, c.live)
      BY <1>1, <1>2, <1>5, <2>3, FirstVisit
  <2>7. ASSUME NEW lots \in Lots, answer(lots).service = c.service
        PROVE  answer(lots).release \in {c.live, c.candidate}
    <3>1. Holds(RulesOf(c, q, NoCookies, lots))
        BY <1>3, <2>7
    <3>2. c \in Hits(q, NoCookies, lots)
        BY <1>1, <3>1 DEF Hits
    <3> QED
        BY <1>2, <3>1, <3>2, VisitedService DEF ToRelease
  <2>8. \A r : ToRelease(c, r).service = c.service /\ ToRelease(c, r).release = r
      BY DEF ToRelease
  <2> HIDE DEF answer
  <2>9. reached = {c.live, c.candidate}
      BY <2>2, <2>5, <2>6, <2>7, <2>8
  <2> QED
      BY <2>4, <2>9 DEF Answers, answer
<1> QED
    BY <1>4, <1>5

----------------------------------------------------------------------------
(* A visit with a cookie.                                                  *)

\* A cookie that is set again replaces the one before.
LEMMA JarRead ==
    ASSUME CatalogueTypeOK, NEW c \in Configs, NEW r
    PROVE  /\ Jar(c, r)[c.service] = r
           /\ \A x : [Jar(c, r) EXCEPT ![c.service] = x] = Jar(c, x)
BY ConfigsTyped DEF Jar, NoCookies

\* The holder of a cookie gets the pages of the service from its release.
LEMMA StickyAnswers ==
    ASSUME CatalogueTypeOK, NEW q, q.path \in Pages, q.query = 0,
           NEW c, Owners(q) = {c}, NEW r \in {c.live, c.candidate} \ {0}
    PROVE  Answers(q, Jar(c, r)) = {ToRelease(c, r)}
<1>1. c \in Configs /\ OnRoute(c, q)
    BY OwnersRead DEF Able
<1>2. c.percent \in {0, 50} /\ q.path # normalizePath(c) /\ q.path # betaPath(c)
    BY <1>1, ConfigsTyped, PageIsNoOwnPath
<1>3. ASSUME NEW lots PROVE Answer(q, Jar(c, r), lots) = ToRelease(c, r)
  <2>1. RulesOf(c, q, Jar(c, r), lots) = Rules(c, q, r, lots[c.service])
      BY <1>1, JarRead DEF RulesOf
  <2>2. /\ Holds(RulesOf(c, q, Jar(c, r), lots))
        /\ To(RulesOf(c, q, Jar(c, r), lots)) = ToRelease(c, r)
      BY <1>2, <2>1, StickyPage
  <2>3. c \in Hits(q, Jar(c, r), lots)
      BY <1>1, <2>2 DEF Hits
  <2>4. \A d \in Hits(q, Jar(c, r), lots) : q.path # betaPath(d)
      BY PageIsNoOwnPath DEF Hits
  <2> QED
      BY <2>2, <2>3, <2>4, OwnerAnswers
<1> QED
    BY <1>3, LotsExist DEF Answers

\* Whoever got a page from a release stays with it.
LEMMA VisitorsStay ==
    ASSUME CatalogueTypeOK
    PROVE  VisitorStays
<1> SUFFICES ASSUME NEW c \in Configs, NEW r \in {c.live, c.candidate} \ {0},
                    NEW h \in c.route.hosts \cap Hosts, NEW p \in Pages \ Assets,
                    NEW a, a = ToRelease(c, r), NEW next \in Pages,
                    Owners(Request(h, next, 0)) = {c}
             PROVE  Answers(Request(h, next, 0),
                            CookiesAfter(Request(h, p, r), NoCookies, a)) = {a}
    BY DEF VisitorStays
<1>1. CookiesAfter(Request(h, p, r), NoCookies, a) = Jar(c, r)
    BY DEF CookiesAfter, Request, ToRelease, Jar
<1>2. Request(h, next, 0).path \in Pages /\ Request(h, next, 0).query = 0
    BY DEF Request
<1> QED
    BY <1>1, <1>2, StickyAnswers

----------------------------------------------------------------------------
(* The paths of a service.                                                 *)

\* A service with a live release, the prefix of the owner and its host is the
\* owner.
LEMMA SamePrefixIsOwner ==
    ASSUME CatalogueTypeOK, NEW q, NEW c, Owners(q) = {c}, NEW d \in Configs,
           q.host \in d.route.hosts, d.live # 0, d.route.prefix = c.route.prefix
    PROVE  d = c
<1>1. c \in Able(q) /\ \A e \in Able(q) : Len(e.route.prefix) <= Len(c.route.prefix)
    BY OwnersRead
<1>2. d \in Able(q)
    BY <1>1 DEF Able, OnRoute
<1>3. d \in Owners(q)
    BY <1>1, <1>2, OwnersRead
<1> QED
    BY <1>3

\* The foremost of one.
LEMMA ForemostOfOne ==
    ASSUME NEW c
    PROVE  Foremost({c}) = c
BY DEF Foremost

\* __ep/normalize answers and sets the cookie of the live release.
LEMMA NormalizeMoves ==
    ASSUME CatalogueTypeOK, NEW c, c.live # 0, NEW q, q.path = normalizePath(c),
           Owners(q) = {c}, NEW jar
    PROVE  Answers(q, jar) = {ToNormalize} /\ Moved(q) = ToRelease(c, c.live)
<1>1. c \in Configs /\ OnRoute(c, q)
    BY OwnersRead DEF Able
<1>2. \A d \in Configs : q.path # betaPath(d)
    BY <1>1, OwnPaths
<1>3. ASSUME NEW lots PROVE Answer(q, jar, lots) = ToNormalize
  <2>1. /\ Holds(RulesOf(c, q, jar, lots))
        /\ To(RulesOf(c, q, jar, lots)) = ToNormalize
      BY SpecialPage DEF RulesOf
  <2>2. c \in Hits(q, jar, lots)
      BY <1>1, <2>1 DEF Hits
  <2>3. \A d \in Hits(q, jar, lots) : q.path # betaPath(d)
      BY <1>2 DEF Hits
  <2> QED
      BY <2>1, <2>2, <2>3, OwnerAnswers
<1>4. Answers(q, jar) = {ToNormalize}
    BY <1>3, LotsExist DEF Answers
<1> DEFINE of(d) == IF q.path = normalizePath(d) THEN d.live
                    ELSE IF q.path = betaPath(d) THEN d.candidate ELSE 0
           hits == {d \in Configs : q.host \in d.route.hosts /\ d.live # 0 /\ of(d) # 0}
<1>5. hits = {c}
  <2>1. c \in hits
      BY <1>1 DEF OnRoute
  <2>2. ASSUME NEW d \in hits PROVE d = c
    <3>1. d \in Configs /\ q.host \in d.route.hosts /\ d.live # 0 /\ of(d) # 0
        OBVIOUS
    <3>2. normalizePath(d) = normalizePath(c)
        BY <1>2, <3>1
    <3>3. d.route.prefix = c.route.prefix
        BY <1>1, <3>1, <3>2, OwnPaths
    <3> QED
        BY <3>1, <3>3, SamePrefixIsOwner
  <2> QED
      BY <2>1, <2>2
<1>6. of(c) = c.live
    OBVIOUS
<1>7. Moved(q) = IF hits = {} THEN Nobody ELSE ToRelease(Foremost(hits), of(Foremost(hits)))
    BY DEF Moved
<1> HIDE DEF hits, of
<1>8. Moved(q) = ToRelease(c, c.live)
    BY <1>5, <1>6, <1>7, ForemostOfOne
<1> QED
    BY <1>4, <1>8

\* __ep/beta answers and sets the cookie of the candidate, if there is one.
LEMMA BetaMoves ==
    ASSUME CatalogueTypeOK, NEW c, c.live # 0, NEW q, q.path = betaPath(c),
           Owners(q) = {c}, NEW jar
    PROVE  /\ Answers(q, jar) = {ToNormalize}
           /\ Moved(q) = IF c.candidate = 0 THEN Nobody ELSE ToRelease(c, c.candidate)
<1>1. c \in Configs /\ OnRoute(c, q)
    BY OwnersRead DEF Able
<1>2. \A d \in Configs : q.path # normalizePath(d)
    BY <1>1, OwnPaths
<1>3. ASSUME NEW lots PROVE Answer(q, jar, lots) = ToNormalize
  <2>1. Holds(RulesOf(c, q, jar, lots))
      BY SpecialPage DEF RulesOf
  <2>2. c \in Hits(q, jar, lots)
      BY <1>1, <2>1 DEF Hits
  <2>3. PICK f \in Hits(q, jar, lots) :
            /\ \A d \in Hits(q, jar, lots) : d = f \/ Before(f, d)
            /\ Answer(q, jar, lots) = To(RulesOf(f, q, jar, lots))
      BY <2>2, AnswerRead
  <2>4. q.path = betaPath(f)
    <3> SUFFICES ASSUME q.path # betaPath(f) PROVE FALSE
        OBVIOUS
    <3>1. f \in Able(q)
        BY HitsAble
    <3>2. f \in Owners(q)
        BY <2>2, <2>3, <3>1, BeforeOwner
    <3> QED
        BY <3>2
  <2> QED
      BY <2>3, <2>4, SpecialPage DEF RulesOf
<1>4. Answers(q, jar) = {ToNormalize}
    BY <1>3, LotsExist DEF Answers
<1> DEFINE of(d) == IF q.path = normalizePath(d) THEN d.live
                    ELSE IF q.path = betaPath(d) THEN d.candidate ELSE 0
           hits == {d \in Configs : q.host \in d.route.hosts /\ d.live # 0 /\ of(d) # 0}
<1>5. of(c) = c.candidate
    BY <1>1, <1>2
<1>6. hits = IF c.candidate = 0 THEN {} ELSE {c}
  <2>1. c \in hits <=> c.candidate # 0
      BY <1>1, <1>5 DEF OnRoute
  <2>2. ASSUME NEW d \in hits PROVE d = c
    <3>1. d \in Configs /\ q.host \in d.route.hosts /\ d.live # 0 /\ of(d) # 0
        OBVIOUS
    <3>2. betaPath(d) = betaPath(c)
        BY <1>2, <3>1
    <3>3. d.route.prefix = c.route.prefix
        BY <1>1, <3>1, <3>2, OwnPaths
    <3> QED
        BY <3>1, <3>3, SamePrefixIsOwner
  <2> QED
      BY <2>1, <2>2
<1>7. Moved(q) = IF hits = {} THEN Nobody ELSE ToRelease(Foremost(hits), of(Foremost(hits)))
    BY DEF Moved
<1> HIDE DEF hits, of
<1>8. Moved(q) = IF c.candidate = 0 THEN Nobody ELSE ToRelease(c, c.candidate)
    BY <1>5, <1>6, <1>7, ForemostOfOne
<1> QED
    BY <1>4, <1>8

\* What the service's responses say.
LEMMA HeadersRead ==
    ASSUME NEW c, NEW q, NEW r
    PROVE  /\ Headers(c, q, ToRelease(c, r)).current = r
           /\ Headers(c, q, ToRelease(c, r)).live = c.live
           /\ Headers(c, q, ToRelease(c, r)).beta = c.candidate
           /\ r = c.live => Headers(c, q, ToRelease(c, r)).role = "live"
           /\ q.path = normalizePath(c) =>
                 /\ Headers(c, q, ToNormalize).current = c.live
                 /\ Headers(c, q, ToNormalize).role = "live"
           /\ q.path # normalizePath(c) => Headers(c, q, ToNormalize).current = c.candidate
BY DEF Headers, ToRelease, ToNormalize, Named, normalizeReturnHeaders, betaReturnHeaders,
       releaseRoleForTarget

\* The cookies after a visit of one of the service's paths.
LEMMA JarAfter ==
    ASSUME CatalogueTypeOK, NEW c \in Configs, NEW r, NEW q
    PROVE  /\ Moved(q) = Nobody => CookiesAfter(q, Jar(c, r), ToNormalize) = Jar(c, r)
           /\ \A x : Moved(q) = ToRelease(c, x) =>
                 CookiesAfter(q, Jar(c, r), ToNormalize) = Jar(c, x)
<1>1. ToNormalize.by = "normalize" /\ Nobody.by = "nobody"
    BY DEF ToNormalize, Nobody
<1>2. \A x : /\ ToRelease(c, x).by # "nobody" /\ ToRelease(c, x).service = c.service
             /\ ToRelease(c, x).release = x
    BY DEF ToRelease
<1> QED
    BY <1>1, <1>2, JarRead DEF CookiesAfter

\* The headers say where the paths of a service lead.
LEMMA HeadersTell ==
    ASSUME CatalogueTypeOK
    PROVE  HeadersLeadThere
<1> SUFFICES ASSUME NEW c \in Configs, NEW h \in c.route.hosts \cap Hosts, NEW p \in Pages,
                    c.live # 0, Owners(Request(h, p, 0)) = {c},
                    Owners(Request(h, normalizePath(c), 0)) = {c},
                    Owners(Request(h, betaPath(c), 0)) = {c},
                    NEW r \in {c.live, c.candidate} \ {0}
             PROVE  LET q == Request(h, p, 0)
                    IN  \A page \in Says(c, q, Jar(c, r)) :
                          /\ \A v \in Visits(c, q, normalizePath(c), r) :
                                /\ v.said.current = page.live /\ v.said.role = "live"
                                /\ \A n \in v.next : n.current = page.live /\ n.role = "live"
                          /\ \A v \in Visits(c, q, betaPath(c), r) :
                                /\ v.said.current = page.beta
                                /\ \A n \in v.next :
                                      n.current = (IF page.beta = 0 THEN r ELSE page.beta)
    BY DEF HeadersLeadThere
<1> DEFINE q == Request(h, p, 0)
           nq == Request(h, normalizePath(c), 0)
           bq == Request(h, betaPath(c), 0)
           pages(jar) == Says(c, q, jar)
           visit(path) == Visits(c, q, path, r)
<1>1. /\ q.path \in Pages /\ q.query = 0
      /\ nq.path = normalizePath(c) /\ bq.path = betaPath(c)
      /\ bq.path # normalizePath(c) /\ q.host = h
    BY OwnPaths DEF Request
<1>2. ASSUME NEW x \in {c.live, c.candidate} \ {0}
      PROVE  pages(Jar(c, x)) = {Headers(c, q, ToRelease(c, x))}
    BY <1>1, StickyAnswers DEF Says
<1>3. ASSUME NEW page \in pages(Jar(c, r))
      PROVE  page.live = c.live /\ page.beta = c.candidate
    BY <1>2, HeadersRead
<1>4. visit(normalizePath(c)) =
          {[said |-> Headers(c, nq, ToNormalize), next |-> pages(Jar(c, c.live))]}
  <2>1. Answers(nq, Jar(c, r)) = {ToNormalize} /\ Moved(nq) = ToRelease(c, c.live)
      BY <1>1, NormalizeMoves
  <2>2. CookiesAfter(nq, Jar(c, r), ToNormalize) = Jar(c, c.live)
      BY <2>1, JarAfter
  <2> QED
      BY <1>1, <2>1, <2>2 DEF Visits
<1>5. visit(betaPath(c)) =
          {[said |-> Headers(c, bq, ToNormalize),
            next |-> pages(Jar(c, IF c.candidate = 0 THEN r ELSE c.candidate))]}
  <2>1. /\ Answers(bq, Jar(c, r)) = {ToNormalize}
        /\ Moved(bq) = IF c.candidate = 0 THEN Nobody ELSE ToRelease(c, c.candidate)
      BY <1>1, BetaMoves
  <2>2. CookiesAfter(bq, Jar(c, r), ToNormalize)
            = Jar(c, IF c.candidate = 0 THEN r ELSE c.candidate)
      BY <2>1, JarAfter
  <2> QED
      BY <1>1, <2>1, <2>2 DEF Visits
<1>6. ASSUME NEW v \in visit(normalizePath(c))
      PROVE  /\ v.said.current = c.live /\ v.said.role = "live"
             /\ \A n \in v.next : n.current = c.live /\ n.role = "live"
  <2>1. v.said = Headers(c, nq, ToNormalize) /\ v.next = pages(Jar(c, c.live))
    <3> HIDE DEF pages, visit
    <3> QED
        BY <1>4
  <2>2. v.next = {Headers(c, q, ToRelease(c, c.live))}
      BY <2>1, <1>2
  <2> QED
      BY <1>1, <2>1, <2>2, HeadersRead
<1>7. ASSUME NEW v \in visit(betaPath(c))
      PROVE  /\ v.said.current = c.candidate
             /\ \A n \in v.next : n.current = (IF c.candidate = 0 THEN r ELSE c.candidate)
  <2> DEFINE x == IF c.candidate = 0 THEN r ELSE c.candidate
  <2>1. v.said = Headers(c, bq, ToNormalize) /\ v.next = pages(Jar(c, x))
    <3> HIDE DEF pages, visit
    <3> QED
        BY <1>5
  <2>2. v.next = {Headers(c, q, ToRelease(c, x))}
      BY <2>1, <1>2
  <2>3. v.said.current = c.candidate
    <3>1. bq.path # normalizePath(c)
        BY <1>1
    <3> HIDE DEF bq, pages
    <3>2. Headers(c, bq, ToNormalize).current = c.candidate
        BY <3>1, HeadersRead
    <3> QED
        BY <2>1, <3>2
  <2> HIDE DEF x
  <2>4. \A n \in v.next : n.current = x
      BY <2>2, HeadersRead
  <2> QED
      BY <2>3, <2>4 DEF x
<1> QED
    BY <1>3, <1>6, <1>7

----------------------------------------------------------------------------
(* The rules in every state of the catalogue.                              *)

\* frontendSection: whichever services come, go, move and are switched, a page
\* is answered by the service with the longest matching prefix that has a
\* release, and by nobody only if there is none.
THEOREM MostSpecific == Spec => []AnsweredByMostSpecific
BY TypeCorrect, MostSpecificAnswers, PTL DEF Spec

\* frontendSection and serviceBackendResponseRules: the cookie of a release
\* keeps its visitor with it as long as it is published.
THEOREM VisitorKept == Spec => []VisitorStays
BY TypeCorrect, VisitorsStay, PTL DEF Spec

\* normalizeBackendRequestRules: __ep/normalize and __ep/beta lead where the
\* headers of every response say, from either release.
THEOREM HeadersTrue == Spec => []HeadersLeadThere
BY TypeCorrect, HeadersTell, PTL DEF Spec

\* tcpProxyFrontendSection and frontendSection agree on the releases that a
\* newcomer reaches.
THEOREM TcpLikeHttp == Spec => []TcpAgreesWithHttp
BY TypeCorrect, TcpReaches, PTL DEF Spec

\* frontendSection: a page of a service goes astray only by the two draws of its
\* split, and whenever they disagree; without a split every first visit reaches a
\* release (ResponsesNameTheirRelease tells of the others).
THEOREM FirstVisitsReachARelease == Spec => []AstrayOnlyByDraws
BY TypeCorrect, DrawsLeadAstray, PTL DEF Spec
=============================================================================
