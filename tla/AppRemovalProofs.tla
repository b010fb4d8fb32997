--------------------------- MODULE AppRemovalProofs ---------------------------
(***************************************************************************)
(* Theorems about AppRemoval for any instances, databases, names of        *)
(* domains and requests, and any bounds.                                   *)
(***************************************************************************)
EXTENDS AppRemoval, TLAPS

-----------------------------------------------------------------------------
(***************************************************************************)
(* Types                                                                   *)
(***************************************************************************)

LEMMA NoNames == NoRow \in DomainRow /\ NoRow.name \in Fqdn
BY DomainBoundsOK DEF NoRow, DomainRow, Target, Route, None

LEMMA IdleTyped == Idle \in RequestState
BY NoNames DEF Idle, RequestState, Stage, Target, Route, None

LEMMA NoWorkTyped == NoWork \in Work
BY ImageBoundsOK DEF NoWork, Work, Errand, NoBuild

LEMMA NoPassTyped == NoPass \in Collector
BY DEF NoPass, Collector, Phase

LEMMA TypeInit == Init => TypeOK
<1> SUFFICES ASSUME Init PROVE TypeOK
  OBVIOUS
<1>1. TargetsTyped
  BY TargetBoundsOK DEF Init, TargetsInit, TargetsTyped
<1>2. RouteTyped
  <2>1. 1 \in Domain /\ 1 \in Record
    BY DomainBoundsOK DEF Domain, Record
  <2>2. PICK n \in Fqdn, t \in App, given \in BOOLEAN :
            /\ rows = [d \in Domain |-> IF given /\ d = 1
                        THEN [st |-> "live", name |-> n, target |-> t,
                              route |-> "app", rec |-> 1] ELSE NoRow]
            /\ zone = [m \in Record |-> IF given /\ m = 1
                        THEN [st |-> "there", dom |-> 1, acct |-> "project"] ELSE NoRecord]
            /\ ingress = [d \in Domain |-> IF given /\ d = 1 THEN "app" ELSE "none"]
    BY DEF Init, RouteInit
  <2>3. [st |-> "live", name |-> n, target |-> t, route |-> "app", rec |-> 1] \in DomainRow
    BY <2>1 DEF DomainRow, Target, Route
  <2>4. [st |-> "there", dom |-> 1, acct |-> "project"] \in DnsRecord /\ NoRecord \in DnsRecord
    BY <2>1 DEF DnsRecord, NoRecord, None
  <2>5. rows \in [Domain -> DomainRow] /\ zone \in [Record -> DnsRecord]
        /\ ingress \in [Domain -> Proxied \cup {"none"}]
    BY <2>2, <2>3, <2>4, NoNames DEF Proxied
  <2>6. QED
    BY <2>5, IdleTyped DEF Init, RouteInit, RouteTyped
<1>3. ImageTyped
  <2>1. 1 \in Build
    BY ImageBoundsOK DEF Build
  <2>2. PICK i \in App :
            /\ work = [w \in Worker |-> IF w = 1
                        THEN [at |-> "done", inst |-> i, img |-> 1] ELSE NoWork]
            /\ current = [k \in App |-> IF k = i THEN 1 ELSE NoBuild]
            /\ running = current
    BY DEF Init, ImageInit
  <2>3. [at |-> "done", inst |-> i, img |-> 1] \in Work
    BY <2>1 DEF Work, Errand
  <2>4. work \in [Worker -> Work] /\ current \in [App -> Build \cup {NoBuild}]
    BY <2>1, <2>2, <2>3, NoWorkTyped
  <2>5. QED
    BY <2>1, <2>2, <2>4, NoPassTyped DEF Init, ImageInit, ImageTyped, NoJob, Settled
<1>4. QED
  BY <1>1, <1>2, <1>3 DEF TypeOK

LEMMA AccountTyped == \A t : Account(t) \in {"own", "project"}
BY DEF Account

LEMMA EventTyped ==
    ASSUME TypeOK, Ask \/ Mishap \/ AskAmiss \/ UNCHANGED events
    PROVE  events' \in [asks : 0..MaxAsks, mishaps : 0..MaxMishaps]
BY TargetBoundsOK DEF TypeOK, TargetsTyped, Ask, Mishap, AskAmiss

LEMMA HalfwayTyped == \A r : Halfway(r) \subseteq Domain
BY DEF Halfway

\* A request goes on with what it has read, or ends.
LEMMA RequestTyped ==
    ASSUME TypeOK, NEW r \in Request,
           \/ \E l \in Stage : Goto(r, l)
           \/ End(r)
           \/ \E s \in RequestState : req' = [req EXCEPT ![r] = s]
           \/ UNCHANGED req
    PROVE  req' \in [Request -> RequestState]
<1>1. req \in [Request -> RequestState]
  BY DEF TypeOK, RouteTyped
<1>2. ASSUME NEW l \in Stage, Goto(r, l)
      PROVE  req' \in [Request -> RequestState]
  <2>1. [req[r] EXCEPT !.at = l] \in RequestState
    BY <1>1 DEF RequestState
  <2>2. QED
    BY <1>1, <1>2, <2>1 DEF Goto
<1>3. QED
  BY <1>1, <1>2, IdleTyped DEF End

LEMMA ZoneTyped ==
    ASSUME TypeOK, UNCHANGED zone \/ \E n : DeleteFrom(n)
    PROVE  zone' \in [Record -> DnsRecord]
<1>1. zone \in [Record -> DnsRecord]
  BY DEF TypeOK, RouteTyped
<1>2. \A n \in Record : [zone[n] EXCEPT !.st = "gone"] \in DnsRecord
  BY <1>1 DEF DnsRecord
<1>3. QED
  BY <1>1, <1>2 DEF DeleteFrom

LEMMA RouteTypes ==
    ASSUME TypeOK, RouteNext
    PROVE  TargetsTyped' /\ RouteTyped'
<1> USE DEF TypeOK, RouteTyped, TargetsTyped
<1> DEFINE Kept == req' \in [Request -> RequestState]
           Counted == events' \in [asks : 0..MaxAsks, mishaps : 0..MaxMishaps]
<1>1. ASSUME NEW r \in Request, NEW x \in Fqdn, NEW t \in Target, NEW k \in Route,
             AskAdd(r, x, t, k)
      PROVE  TargetsTyped' /\ RouteTyped'
  <2>1. /\ Account(t) \in {"own", "project"}
        /\ (IF Account(t) = "project" THEN "addDns" ELSE "addRow") \in Stage
    BY DEF Account, Stage
  <2>2. PICK d \in Domain : req' = [req EXCEPT ![r] =
            [Idle EXCEPT !.at = IF Account(t) = "project" THEN "addDns" ELSE "addRow",
                         !.dom = d, !.name = x, !.target = t, !.route = k,
                         !.acct = Account(t)]]
    BY <1>1 DEF AskAdd, Unused, Untouched
  <2>3. [Idle EXCEPT !.at = IF Account(t) = "project" THEN "addDns" ELSE "addRow",
                     !.dom = d, !.name = x, !.target = t, !.route = k,
                     !.acct = Account(t)] \in RequestState
    BY <2>1, IdleTyped DEF RequestState
  <2>4. Kept
    BY <2>2, <2>3, RequestTyped
  <2>5. Counted
    BY <1>1, EventTyped DEF AskAdd
  <2>6. QED
    BY <1>1, <2>1, <2>2, <2>3, <2>4, <2>5 DEF AskAdd
<1>2. ASSUME NEW r \in Request, CreateRecord(r)
      PROVE  TargetsTyped' /\ RouteTyped'
  <2>1. req[r] \in RequestState
    OBVIOUS
  <2>2. PICK m \in Fresh : /\ zone' = [zone EXCEPT ![m] =
                             [st |-> "there", dom |-> req[r].dom, acct |-> req[r].acct]]
                       /\ req' = [req EXCEPT ![r].rec = m, ![r].at = IF req[r].at = "addDns"
                                    THEN "addRow" ELSE "checkIngress"]
    BY <1>2 DEF CreateRecord
  <2>3. m \in Record /\ (IF req[r].at = "addDns" THEN "addRow" ELSE "checkIngress") \in Stage
    BY <1>2, <2>2 DEF Fresh, CreateRecord, Stage, Writing
  <2>4. [[req[r] EXCEPT !.rec = m] EXCEPT !.at = IF req[r].at = "addDns"
            THEN "addRow" ELSE "checkIngress"] \in RequestState
    BY <2>1, <2>3 DEF RequestState
  <2>5. Kept
    BY <2>2, <2>4, RequestTyped
  <2>6. [st |-> "there", dom |-> req[r].dom, acct |-> req[r].acct] \in DnsRecord
    BY <2>1 DEF RequestState, DnsRecord
  <2>7. zone' \in [Record -> DnsRecord]
    BY <2>2, <2>6 DEF Fresh
  <2>8. QED
    BY <1>2, <2>1, <2>2, <2>3, <2>4, <2>5, <2>6, <2>7 DEF CreateRecord
<1>3. ASSUME NEW r \in Request, CreateRefused(r)
      PROVE  TargetsTyped' /\ RouteTyped'
  <2>1. Kept
    BY <1>3, RequestTyped DEF CreateRefused
  <2>2. Counted
    BY <1>3, EventTyped DEF CreateRefused
  <2>3. QED
    BY <1>3, <2>1, <2>2 DEF CreateRefused
<1>4. ASSUME NEW r \in Request, CreateLost(r)
      PROVE  TargetsTyped' /\ RouteTyped'
  <2>1. req[r] \in RequestState
    OBVIOUS
  <2>2. [st |-> "there", dom |-> req[r].dom, acct |-> req[r].acct] \in DnsRecord
        /\ req[r].dom \in Domain \cup {None}
    BY <2>1 DEF RequestState, DnsRecord
  <2>3. zone' \in [Record -> DnsRecord]
    BY <1>4, <2>2 DEF Fresh, CreateLost
  <2>4. Kept
    BY <1>4, RequestTyped DEF CreateLost
  <2>5. Counted
    BY <1>4, EventTyped DEF CreateLost
  <2>6. QED
    BY <1>4, <2>1, <2>2, <2>3, <2>4, <2>5 DEF CreateLost, Excuse
<1>5. ASSUME NEW r \in Request, InsertRow(r)
      PROVE  TargetsTyped' /\ RouteTyped'
  <2>1. req[r] \in RequestState
    OBVIOUS
  <2>2. [st |-> "live", name |-> req[r].name, target |-> req[r].target, route |-> req[r].route,
         rec |-> req[r].rec] \in DomainRow /\ req[r].dom \in Domain \cup {None}
    BY <2>1 DEF RequestState, DomainRow
  <2>3. rows' \in [Domain -> DomainRow]
    BY <1>5, <2>2 DEF InsertRow
  <2>4. Kept
    BY <1>5, RequestTyped DEF InsertRow, Stage, Writing
  <2>5. excused' \subseteq Domain \cup {None}
    BY <1>5, <2>2 DEF InsertRow, ExcuseIf, Excuse
  <2>6. QED
    BY <1>5, <2>1, <2>2, <2>3, <2>4, <2>5 DEF InsertRow
<1>6. ASSUME NEW r \in Request, ApplyIngress(r)
      PROVE  TargetsTyped' /\ RouteTyped'
  <2>1. req[r] \in RequestState
    OBVIOUS
  <2>2. req[r].dom \in Domain \cup {None}
    BY <2>1 DEF RequestState
  <2>3. ingress' \in [Domain -> Proxied \cup {"none"}]
    BY <1>6 DEF ApplyIngress, Applied
  <2>4. Kept
    BY <1>6, RequestTyped DEF ApplyIngress, Stage, Writing
  <2>5. excused' \subseteq Domain \cup {None}
    BY <1>6, <2>2 DEF ApplyIngress, ExcuseIf, Excuse
  <2>6. QED
    BY <1>6, <2>1, <2>2, <2>3, <2>4, <2>5 DEF ApplyIngress
<1>7. ASSUME NEW r \in Request, IngressFails(r)
      PROVE  TargetsTyped' /\ RouteTyped'
  <2>1. req[r] \in RequestState
    OBVIOUS
  <2>2. req[r].dom \in Domain \cup {None}
    BY <2>1 DEF RequestState
  <2>3. Kept
    BY <1>7, RequestTyped DEF IngressFails, Stage, Writing
  <2>4. excused' \subseteq Domain \cup {None}
    BY <1>7, <2>2 DEF IngressFails, Excuse
  <2>5. Counted
    BY <1>7, EventTyped DEF IngressFails
  <2>6. QED
    BY <1>7, <2>1, <2>2, <2>3, <2>4, <2>5 DEF IngressFails
<1>8. ASSUME NEW r \in Request, NEW d \in Domain, AskVerify(r, d)
      PROVE  TargetsTyped' /\ RouteTyped'
  <2>1. rows[d] \in DomainRow
    OBVIOUS
  <2>2. [Idle EXCEPT !.at = "checkDns", !.dom = d, !.route = rows[d].route,
                     !.acct = Account(rows[d].target)] \in RequestState
    BY <2>1, IdleTyped, AccountTyped DEF RequestState, DomainRow, Stage, Writing
  <2>3. Kept
    BY <1>8, <2>2, RequestTyped DEF AskVerify
  <2>4. Counted
    BY <1>8, EventTyped DEF AskVerify
  <2>5. QED
    BY <1>8, <2>1, <2>2, <2>3, <2>4 DEF AskVerify, ExcuseIf, Excuse
<1>9. ASSUME NEW r \in Request, NEW d \in Domain, NEW k \in Route, AskUpdate(r, d, k)
      PROVE  TargetsTyped' /\ RouteTyped'
  <2>1. rows[d] \in DomainRow
    OBVIOUS
  <2>2. [Idle EXCEPT !.at = "editIngress", !.dom = d, !.route = k] \in RequestState
    BY <2>1, IdleTyped, AccountTyped DEF RequestState, DomainRow, Stage, Writing
  <2>3. Kept
    BY <1>9, <2>2, RequestTyped DEF AskUpdate
  <2>4. Counted
    BY <1>9, EventTyped DEF AskUpdate
  <2>5. QED
    BY <1>9, <2>1, <2>2, <2>3, <2>4 DEF AskUpdate, ExcuseIf, Excuse
<1>10. ASSUME NEW r \in Request, NEW d \in Domain, AskRemove(r, d)
      PROVE  TargetsTyped' /\ RouteTyped'
  <2>1. rows[d] \in DomainRow
    OBVIOUS
  <2>2. [Idle EXCEPT !.at = "removeDns", !.dom = d, !.target = rows[d].target,
                     !.rec = rows[d].rec, !.acct = Account(rows[d].target)] \in RequestState
    BY <2>1, IdleTyped, AccountTyped DEF RequestState, DomainRow, Stage, Writing
  <2>3. Kept
    BY <1>10, <2>2, RequestTyped DEF AskRemove
  <2>4. Counted
    BY <1>10, EventTyped DEF AskRemove
  <2>5. QED
    BY <1>10, <2>1, <2>2, <2>3, <2>4 DEF AskRemove
<1>11. ASSUME NEW r \in Request, StoreVerified(r)
      PROVE  TargetsTyped' /\ RouteTyped'
  <2>1. req[r] \in RequestState
    OBVIOUS
  <2>2. req[r].dom \in Domain \cup {None} /\ req[r].rec \in Record \cup {None}
        /\ req[r].route \in Route
    BY <2>1 DEF RequestState
  <2>3. req[r].dom \in Domain => [rows[req[r].dom] EXCEPT !.rec = req[r].rec] \in DomainRow
    BY <2>2 DEF DomainRow
  <2>4. rows' \in [Domain -> DomainRow]
    BY <1>11, <2>3 DEF StoreVerified
  <2>5. Kept
    BY <1>11, RequestTyped DEF StoreVerified
  <2>6. QED
    BY <1>11, <2>1, <2>2, <2>3, <2>4, <2>5 DEF StoreVerified, ExcuseIf, Excuse
<1>12. ASSUME NEW r \in Request, StoreUpdated(r)
      PROVE  TargetsTyped' /\ RouteTyped'
  <2>1. req[r] \in RequestState
    OBVIOUS
  <2>2. req[r].dom \in Domain \cup {None} /\ req[r].rec \in Record \cup {None}
        /\ req[r].route \in Route
    BY <2>1 DEF RequestState
  <2>3. req[r].dom \in Domain => [rows[req[r].dom] EXCEPT !.route = req[r].route] \in DomainRow
    BY <2>2 DEF DomainRow
  <2>4. rows' \in [Domain -> DomainRow]
    BY <1>12, <2>3 DEF StoreUpdated
  <2>5. Kept
    BY <1>12, RequestTyped DEF StoreUpdated
  <2>6. QED
    BY <1>12, <2>1, <2>2, <2>3, <2>4, <2>5 DEF StoreUpdated, ExcuseIf, Excuse
<1>13. ASSUME NEW r \in Request, DeleteRecord(r)
      PROVE  TargetsTyped' /\ RouteTyped'
  <2>1. zone' \in [Record -> DnsRecord]
    BY <1>13, ZoneTyped DEF DeleteRecord
  <2>2. Kept
    BY <1>13, RequestTyped DEF DeleteRecord, Stage, Writing
  <2>3. QED
    BY <1>13, <2>1, <2>2 DEF DeleteRecord
<1>14. ASSUME NEW r \in Request, DeleteLost(r)
      PROVE  TargetsTyped' /\ RouteTyped'
  <2>1. zone' \in [Record -> DnsRecord]
    BY <1>14, ZoneTyped DEF DeleteLost
  <2>2. req[r] \in RequestState
    OBVIOUS
  <2>3. req[r].dom \in Domain \cup {None}
    BY <2>2 DEF RequestState
  <2>4. Kept
    BY <1>14, RequestTyped DEF DeleteLost
  <2>5. Counted
    BY <1>14, EventTyped DEF DeleteLost
  <2>6. QED
    BY <1>14, <2>1, <2>2, <2>3, <2>4, <2>5 DEF DeleteLost, Excuse
<1>15. ASSUME NEW r \in Request, DropRow(r)
      PROVE  TargetsTyped' /\ RouteTyped'
  <2>1. req[r] \in RequestState
    OBVIOUS
  <2>2. req[r].dom \in Domain \cup {None}
    BY <2>1 DEF RequestState
  <2>3. rows' \in [Domain -> DomainRow]
    BY <1>15 DEF DropRow, DomainRow
  <2>4. Kept
    BY <1>15, RequestTyped DEF DropRow
  <2>5. Counted
    BY <1>15, EventTyped DEF DropRow
  <2>6. pending' \subseteq Domain \cup {None} /\ excused' \subseteq Domain \cup {None}
    BY <1>15, <2>2 DEF DropRow, ExcuseIf, Excuse
  <2>7. QED
    BY <1>15, <2>1, <2>2, <2>3, <2>4, <2>5, <2>6 DEF DropRow
<1>16. ASSUME NEW r \in Request, NEW t \in live, AskDrop(r, t)
      PROVE  TargetsTyped' /\ RouteTyped'
  <2>1. [Idle EXCEPT !.at = "purge", !.targets = {t}] \in RequestState
    <3>1. {t} \in SUBSET (App \cup Database) /\ "purge" \in Stage
      BY DEF Stage
    <3>2. QED
      BY <3>1, IdleTyped DEF RequestState
  <2>2. Kept
    BY <1>16, <2>1, RequestTyped DEF AskDrop
  <2>3. Counted
    BY <1>16, EventTyped DEF AskDrop
  <2>4. QED
    BY <1>16, <2>1, <2>2, <2>3 DEF AskDrop, Doom
<1>17. ASSUME NEW r \in Request, NEW i \in App, AskCloseBranch(r, i)
      PROVE  TargetsTyped' /\ RouteTyped'
  <2>1. [Idle EXCEPT !.at = "branch", !.targets = {i}] \in RequestState
    BY IdleTyped DEF RequestState, Stage, Writing
  <2>2. Kept
    BY <1>17, <2>1, RequestTyped DEF AskCloseBranch
  <2>3. Counted
    BY <1>17, EventTyped DEF AskCloseBranch
  <2>4. QED
    BY <1>17, <2>1, <2>2, <2>3 DEF AskCloseBranch, Doom
<1>18. ASSUME NEW r \in Request, AskDropProject(r)
      PROVE  TargetsTyped' /\ RouteTyped'
  <2>1. \A S : DomainsOf(S) \in SUBSET (Domain \X (Record \cup {None}))
    BY DEF DomainsOf, On, DomainRow
  <2>2. [Idle EXCEPT !.at = "tearDown", !.targets = live, !.whole = TRUE,
                     !.read = DomainsOf(live), !.todo = DomainsOf(live)] \in RequestState
    BY <2>1, IdleTyped DEF RequestState, Stage, Writing
  <2>3. Kept
    BY <1>18, <2>2, RequestTyped DEF AskDropProject
  <2>4. Counted
    BY <1>18, EventTyped DEF AskDropProject
  <2>5. QED
    BY <1>18, <2>1, <2>2, <2>3, <2>4 DEF AskDropProject, Doom
<1>19. ASSUME NEW r \in Request, ReadDomains(r)
      PROVE  TargetsTyped' /\ RouteTyped'
  <2>1. \A S : DomainsOf(S) \in SUBSET (Domain \X (Record \cup {None}))
    BY DEF DomainsOf, On, DomainRow
  <2>2. req[r] \in RequestState
    OBVIOUS
  <2>3. PICK found \in {DomainsOf(req[r].targets), {}} :
            /\ req' = [req EXCEPT ![r].at = "tearDown", ![r].read = found, ![r].todo = found]
            /\ IF found = DomainsOf(req[r].targets) THEN UNCHANGED events ELSE Mishap
    BY <1>19 DEF ReadDomains
  <2>4. [[[req[r] EXCEPT !.at = "tearDown"] EXCEPT !.read = found] EXCEPT !.todo = found]
            \in RequestState
    BY <2>1, <2>2 DEF RequestState, Stage, Writing
  <2>5. Kept
    BY <2>3, <2>4, RequestTyped
  <2>6. Counted
    BY <2>3, EventTyped
  <2>7. QED
    BY <1>19, <2>5, <2>6 DEF ReadDomains
<1>20. ASSUME NEW r \in Request, TearDown(r)
      PROVE  TargetsTyped' /\ RouteTyped'
  <2>1. req[r] \in RequestState
    OBVIOUS
  <2>2. req[r].todo \subseteq Domain \X (Record \cup {None})
    BY <2>1 DEF RequestState
  <2>3. PICK x \in req[r].todo : /\ req' = [req EXCEPT ![r].todo = @ \ {x}]
                                 /\ torn' = torn \cup {x[1]}
                                 /\ ingress' \in {ingress, [ingress EXCEPT ![x[1]] = "none"]}
                                 /\ excused' \in {excused, excused \cup {x[1]}, excused \cup {}}
                                 /\ zone' \in {zone, [zone EXCEPT ![x[2]].st = "gone"]}
                                 /\ Mishap \/ UNCHANGED events
    BY <1>20 DEF TearDown, DeleteFrom, ExcuseIf, Excuse
  <2>4. x[1] \in Domain
    BY <2>2
  <2>5. [req[r] EXCEPT !.todo = @ \ {x}] \in RequestState
    BY <2>1, <2>2 DEF RequestState
  <2>6. Kept
    BY <2>3, <2>5, RequestTyped
  <2>7. zone' \in [Record -> DnsRecord]
    BY <2>3 DEF DnsRecord
  <2>8. Counted
    BY <2>3, EventTyped
  <2>9. QED
    BY <1>20, <2>1, <2>2, <2>3, <2>4, <2>5, <2>6, <2>7, <2>8 DEF TearDown
<1>21. ASSUME NEW r \in Request, PurgeRows(r)
      PROVE  TargetsTyped' /\ RouteTyped'
  <2>1. rows' \in [Domain -> DomainRow]
    BY <1>21 DEF PurgeRows, DropRows, DomainRow
  <2>2. excused' \subseteq Domain \cup {None}
    BY <1>21, HalfwayTyped DEF PurgeRows, DropRows, On, Excuse
  <2>3. Kept
    BY <1>21, RequestTyped DEF PurgeRows, Stage, Writing
  <2>4. Counted
    BY <1>21, EventTyped DEF PurgeRows, DropRows
  <2>5. QED
    BY <1>21, <2>1, <2>2, <2>3, <2>4 DEF PurgeRows, DropRows
<1>22. ASSUME NEW d \in Domain, DeleteIngress(d)
      PROVE  TargetsTyped' /\ RouteTyped'
  <2>1. Counted
    BY <1>22, EventTyped DEF DeleteIngress
  <2>2. QED
    BY <1>22, <2>1 DEF DeleteIngress, Excuse
<1>23. ASSUME ChangeCredential
      PROVE  TargetsTyped' /\ RouteTyped'
  <2>1. Counted
    BY <1>23, EventTyped DEF ChangeCredential
  <2>2. QED
    BY <1>23, <2>1 DEF ChangeCredential
<1>24. ASSUME NEW r \in Request, Cut(r)
      PROVE  TargetsTyped' /\ RouteTyped'
  <2>1. Kept
    BY <1>24, RequestTyped DEF Cut
  <2>2. Counted
    BY <1>24, EventTyped DEF Cut
  <2>3. excused' \subseteq Domain \cup {None}
    BY <1>24, HalfwayTyped DEF Cut, Excuse
  <2>4. QED
    BY <1>24, <2>1, <2>2, <2>3 DEF Cut
<1>25. ASSUME NEW r \in Request, LookUpFails(r)
      PROVE  TargetsTyped' /\ RouteTyped'
  <2>1. req[r] \in RequestState
    OBVIOUS
  <2>2. PICK l \in Stage :
            req' = [req EXCEPT ![r] = [[req[r] EXCEPT !.acct = "own"] EXCEPT !.at = l]]
    <3>1. req[r].at \in Stage /\ "addRow" \in Stage
      BY <2>1 DEF RequestState, Stage
    <3>2. QED
      BY <1>25, <3>1 DEF LookUpFails
  <2>3. Kept
    <3>1. [[req[r] EXCEPT !.acct = "own"] EXCEPT !.at = l] \in RequestState
      BY <2>1, <2>2 DEF RequestState
    <3>2. QED
      BY <2>2, <3>1, RequestTyped
  <2>4. Counted
    BY <1>25, EventTyped DEF LookUpFails
  <2>5. QED
    BY <1>25, <2>3, <2>4 DEF LookUpFails
<1>26. QED
  BY <1>1, <1>2, <1>3, <1>4, <1>5, <1>6, <1>7, <1>8, <1>9, <1>10, <1>11, <1>12, <1>13,
     <1>14, <1>15, <1>16, <1>17, <1>18, <1>19, <1>20, <1>21, <1>22, <1>23, <1>24, <1>25
     DEF RouteNext

\* A worker goes on, or is set to work on another image.
LEMMA WorkTyped ==
    ASSUME TypeOK, NEW w \in Worker,
           \/ \E l \in Errand : Step(w, l)
           \/ \E s \in Work : work' = [work EXCEPT ![w] = s]
           \/ UNCHANGED work
    PROVE  work' \in [Worker -> Work]
<1>1. work \in [Worker -> Work]
  BY DEF TypeOK, ImageTyped
<1>2. ASSUME NEW l \in Errand, Step(w, l)
      PROVE  work' \in [Worker -> Work]
  <2>1. [work[w] EXCEPT !.at = l] \in Work
    BY <1>1 DEF Work
  <2>2. QED
    BY <1>1, <1>2, <2>1 DEF Step
<1>3. QED
  BY <1>1, <1>2

\* The collector passes to another phase, with what it has yet to do.
LEMMA PassTyped ==
    ASSUME TypeOK, NEW T \in SUBSET Build, NEW l \in Phase,
           \/ gc' = [gc EXCEPT !.at = l, !.todo = T]
           \/ \E u \in BOOLEAN : gc' = [gc EXCEPT !.unlinked = u, !.todo = T]
           \/ gc' = [gc EXCEPT !.at = l, !.known = T]
           \/ \E u \in BOOLEAN : gc' = [gc EXCEPT !.at = l, !.known = T, !.unlinked = u]
    PROVE  gc' \in Collector
BY DEF TypeOK, ImageTyped, Collector

LEMMA ImageTypes ==
    ASSUME TypeOK, ImageNext
    PROVE  TargetsTyped' /\ ImageTyped'
<1> USE DEF TypeOK, ImageTyped, TargetsTyped
<1> DEFINE Working == work' \in [Worker -> Work]
           Passing == gc' \in Collector
           Rows == builds' \in [Build -> Settled \cup {"none", "active", "gone"}]
           Counted == events' \in [asks : 0..MaxAsks, mishaps : 0..MaxMishaps]
<1>0. \A b \in Build : b \in Worker
  BY DEF Build, Worker
<1>1. ASSUME NEW i \in App, StartBuild(i)
      PROVE  TargetsTyped' /\ ImageTyped'
  <2>1. PICK b \in Build : /\ \/ builds' = [builds EXCEPT ![b] = "active"]
                              \/ builds' = [builds EXCEPT ![b] = "gone"]
                           /\ work' = [work EXCEPT ![b] = [at |-> "build", inst |-> i, img |-> b]]
    BY <1>1 DEF StartBuild
  <2>2. [at |-> "build", inst |-> i, img |-> b] \in Work
    BY DEF Work, Errand
  <2>3. Working
    BY <1>0, <2>1, <2>2, WorkTyped
  <2>4. Rows
    BY <2>1
  <2>5. Counted
    BY <1>1, EventTyped DEF StartBuild
  <2>6. QED
    BY <1>1, <2>1, <2>2, <2>3, <2>4, <2>5 DEF StartBuild
<1>2. ASSUME NEW b \in Build, PushBlobs(b)
      PROVE  TargetsTyped' /\ ImageTyped'
  <2>1. Working
    BY <1>2, <1>0, WorkTyped DEF PushBlobs, Errand
  <2>2. QED
    BY <1>2, <2>1 DEF PushBlobs
<1>3. ASSUME NEW b \in Build, PushManifest(b)
      PROVE  TargetsTyped' /\ ImageTyped'
  <2>1. Working
    BY <1>3, <1>0, WorkTyped DEF PushManifest, Errand
  <2>2. QED
    BY <1>3, <2>1 DEF PushManifest
<1>4. ASSUME NEW b \in Build, FailBuild(b)
      PROVE  TargetsTyped' /\ ImageTyped'
  <2>1. Working
    BY <1>4, <1>0, WorkTyped DEF FailBuild, Errand
  <2>2. Rows
    BY <1>4 DEF FailBuild, Judged, Settled
  <2>3. Counted
    BY <1>4, EventTyped DEF FailBuild
  <2>4. QED
    BY <1>4, <2>1, <2>2, <2>3 DEF FailBuild
<1>5. ASSUME NEW b \in Build, Verdict(b)
      PROVE  TargetsTyped' /\ ImageTyped'
  <2>1. Working
    BY <1>5, <1>0, WorkTyped DEF Verdict, Errand
  <2>2. Rows
    BY <1>5 DEF Verdict, Judged, Settled
  <2>3. Counted
    BY <1>5, EventTyped DEF Verdict
  <2>4. QED
    BY <1>5, <2>1, <2>2, <2>3 DEF Verdict
<1>6. ASSUME NEW b \in Build, AskRollback(b)
      PROVE  TargetsTyped' /\ ImageTyped'
  <2>1. 0 \in Worker /\ work[b].inst \in App
    BY <1>0, ImageBoundsOK DEF Worker, Work
  <2>2. [at |-> "point", inst |-> work[b].inst, img |-> b] \in Work
    BY <2>1 DEF Work, Errand
  <2>3. Working
    BY <1>6, <2>1, <2>2, WorkTyped DEF AskRollback
  <2>4. Counted
    BY <1>6, EventTyped DEF AskRollback
  <2>5. QED
    BY <1>6, <2>1, <2>2, <2>3, <2>4 DEF AskRollback
<1>7. ASSUME NEW w \in Worker, PointInstance(w)
      PROVE  TargetsTyped' /\ ImageTyped'
  <2>1. work[w].inst \in App /\ work[w].img \in Build \cup {NoBuild}
    BY DEF Work
  <2>2. Working
    BY <1>7, <1>0, WorkTyped DEF PointInstance, Finish, Errand
  <2>3. current' \in [App -> Build \cup {NoBuild}]
    BY <1>7, <2>1 DEF PointInstance
  <2>4. spared' \subseteq Build \cup {NoBuild}
    BY <1>7, <2>1 DEF PointInstance, SpareIfCondemned, Spare
  <2>5. Counted
    BY <1>7, EventTyped DEF PointInstance
  <2>6. QED
    BY <1>7, <2>1, <2>2, <2>3, <2>4, <2>5 DEF PointInstance
<1>8. ASSUME NEW w \in Worker, ReadInstance(w)
      PROVE  TargetsTyped' /\ ImageTyped'
  <2>1. Working
    BY <1>8, <1>0, WorkTyped DEF ReadInstance, Finish, Errand
  <2>2. Counted
    BY <1>8, EventTyped DEF ReadInstance
  <2>3. QED
    BY <1>8, <2>1, <2>2 DEF ReadInstance
<1>9. ASSUME NEW w \in Worker, ApplyDeployment(w)
      PROVE  TargetsTyped' /\ ImageTyped'
  <2>1. work[w].inst \in App /\ work[w].img \in Build \cup {NoBuild}
    BY DEF Work
  <2>2. Working
    BY <1>9, <1>0, WorkTyped DEF ApplyDeployment, Finish, Errand
  <2>3. Counted
    BY <1>9, EventTyped DEF ApplyDeployment
  <2>4. running' \in [App -> Build \cup {NoBuild}] /\ strays' \subseteq App
    BY <1>9, <2>1 DEF ApplyDeployment
  <2>5. spared' \subseteq Build \cup {NoBuild}
    BY <1>9, <2>1 DEF ApplyDeployment, SpareIfCondemned, Spare
  <2>6. QED
    BY <1>9, <2>1, <2>2, <2>3, <2>4, <2>5 DEF ApplyDeployment
<1>10. ASSUME NEW i \in App, SweepInstance(i)
      PROVE  TargetsTyped' /\ ImageTyped'
  <2>1. Counted
    BY <1>10, EventTyped DEF SweepInstance
  <2>2. QED
    BY <1>10, <2>1 DEF SweepInstance
<1>11. ASSUME SelectOutdated
      PROVE  TargetsTyped' /\ ImageTyped'
  <2>1. PICK found \in {Outdated, {}} :
            /\ IF found = Outdated THEN UNCHANGED events ELSE Mishap
            /\ gc' = [NoPass EXCEPT !.at = "outdated", !.todo = found]
            /\ Spare({b \in found : InUse(b) /\ b \notin Pointed})
    BY <1>11 DEF SelectOutdated
  <2>2. found \in SUBSET Build
    BY DEF Outdated
  <2>3. Passing
    BY <2>1, <2>2 DEF NoPass, Collector, Phase
  <2>4. Counted
    BY <2>1, EventTyped
  <2>5. spared' \subseteq Build \cup {NoBuild}
    BY <2>1, <2>2 DEF Spare
  <2>6. QED
    BY <1>11, <2>3, <2>4, <2>5 DEF SelectOutdated
<1>12. ASSUME NEW b \in Build, PruneImage(b)
      PROVE  TargetsTyped' /\ ImageTyped'
  <2>1. (gc.unlinked \/ b \in manifests) \in BOOLEAN
    OBVIOUS
  <2>2. {b} \in SUBSET Build /\ "row" \in Phase
    BY DEF Phase
  <2>3. \/ gc' = [gc EXCEPT !.at = "row", !.known = {b},
                           !.unlinked = (gc.unlinked \/ b \in manifests)]
        \/ gc' = [gc EXCEPT !.at = "row", !.known = {b}]
    BY <1>12 DEF PruneImage
  <2>4. Passing
    BY <2>1, <2>2, <2>3, PassTyped
  <2>5. Counted
    BY <1>12, EventTyped DEF PruneImage
  <2>6. QED
    BY <1>12, <2>4, <2>5 DEF PruneImage
<1>13. ASSUME PruneRow
      PROVE  TargetsTyped' /\ ImageTyped'
  <2>1. Passing
    BY <1>13, NoPassTyped DEF PruneRow, Collector, Phase
  <2>2. Rows
    BY <1>13 DEF PruneRow
  <2>3. Counted
    BY <1>13, EventTyped DEF PruneRow
  <2>4. spared' \subseteq Build \cup {NoBuild}
    BY <1>13 DEF PruneRow, Spare, Collector
  <2>5. QED
    BY <1>13, <2>1, <2>2, <2>3, <2>4 DEF PruneRow
<1>14. ASSUME ListTags
      PROVE  TargetsTyped' /\ ImageTyped'
  <2>1. Passing
    BY <1>14, NoPassTyped DEF ListTags, Collector, Phase
  <2>2. Counted
    BY <1>14, EventTyped DEF ListTags
  <2>3. QED
    BY <1>14, <2>1, <2>2 DEF ListTags
<1>15. ASSUME KeepBuilt
      PROVE  TargetsTyped' /\ ImageTyped'
  <2>1. Unreferenced(gc.todo) \in SUBSET Build
    BY DEF Unreferenced, Collector
  <2>2. Passing
    BY <1>15, <2>1, PassTyped DEF KeepBuilt, Phase
  <2>3. Counted
    BY <1>15, EventTyped DEF KeepBuilt
  <2>4. QED
    BY <1>15, <2>1, <2>2, <2>3 DEF KeepBuilt
<1>16. ASSUME KeepCurrent
      PROVE  TargetsTyped' /\ ImageTyped'
  <2>1. gc.todo \ Pointed \in SUBSET Build /\ gc.todo \in SUBSET Build
    BY DEF Collector
  <2>2. gc' = [gc EXCEPT !.at = "orphans"] => Passing
    BY DEF Collector, Phase
  <2>3. "orphans" \in Phase
    BY DEF Phase
  <2>4. gc' = [gc EXCEPT !.at = "orphans", !.todo = gc.todo \ Pointed] => Passing
    BY <2>1, <2>3, PassTyped
  <2>5. Passing
    BY <1>16, <2>2, <2>4 DEF KeepCurrent
  <2>6. Counted
    BY <1>16, EventTyped DEF KeepCurrent
  <2>7. QED
    BY <1>16, <2>1, <2>2, <2>3, <2>4, <2>5, <2>6 DEF KeepCurrent
<1>17. ASSUME NEW b \in Build, UnlinkOrphan(b)
      PROVE  TargetsTyped' /\ ImageTyped'
  <2>1. (gc.unlinked \/ b \in manifests) \in BOOLEAN
    OBVIOUS
  <2>2. gc.todo \ {b} \in SUBSET Build /\ gc.at \in Phase
    BY DEF Collector
  <2>3. \/ gc' = [gc EXCEPT !.unlinked = (gc.unlinked \/ b \in manifests), !.todo = gc.todo \ {b}]
        \/ gc' = [gc EXCEPT !.todo = gc.todo \ {b}]
    BY <1>17 DEF UnlinkOrphan, Unlink
  <2>4. gc' = [gc EXCEPT !.todo = gc.todo \ {b}] => Passing
    BY <2>2 DEF Collector
  <2>5. Passing
    BY <2>1, <2>2, <2>3, <2>4, PassTyped
  <2>6. Counted
    BY <1>17, EventTyped DEF UnlinkOrphan
  <2>7. QED
    BY <1>17, <2>1, <2>2, <2>3, <2>4, <2>5, <2>6 DEF UnlinkOrphan, Unlink
<1>18. ASSUME CollectBlobs
      PROVE  TargetsTyped' /\ ImageTyped'
  <2>1. StartJob => Passing /\ job' = [at |-> "mark", marked |-> {}]
    BY DEF StartJob, Collector, Phase
  <2>2. Passing
    BY <1>18, <2>1, NoPassTyped DEF CollectBlobs
  <2>3. job' = [at |-> "mark", marked |-> {}] \/ UNCHANGED job
    BY <1>18, <2>1 DEF CollectBlobs
  <2>4. Counted
    BY <1>18, EventTyped DEF CollectBlobs
  <2>5. QED
    BY <1>18, <2>2, <2>3, <2>4 DEF CollectBlobs
<1>19. ASSUME MarkBlobs
      PROVE  TargetsTyped' /\ ImageTyped'
  BY <1>19 DEF MarkBlobs
<1>20. ASSUME SweepBlobs
      PROVE  TargetsTyped' /\ ImageTyped'
  BY <1>20 DEF SweepBlobs, Spare
<1>21. ASSUME EndPass
      PROVE  TargetsTyped' /\ ImageTyped'
  <2>1. Counted
    BY <1>21, EventTyped DEF EndPass
  <2>2. Passing
    BY <1>21, NoPassTyped DEF EndPass, Collector, Phase
  <2>3. QED
    BY <1>21, <2>1, <2>2 DEF EndPass, NoJob
<1>22. QED
  BY <1>1, <1>2, <1>3, <1>4, <1>5, <1>6, <1>7, <1>8, <1>9, <1>10, <1>11, <1>12, <1>13,
     <1>14, <1>15, <1>16, <1>17, <1>18, <1>19, <1>20, <1>21 DEF ImageNext, Collecting

\* The steps of both: the row of a target goes, the process crashes.
LEMMA JointTypes ==
    ASSUME TypeOK, Crash \/ \E r \in Request : DropTargets(r)
    PROVE  TypeOK'
<1> USE DEF TypeOK, TargetsTyped
<1>1. ASSUME NEW r \in Request, DropTargets(r)
      PROVE  TypeOK'
  <2>1. rows' \in [Domain -> DomainRow]
    BY <1>1 DEF RouteTyped, DropTargets, DropTarget, DropProject, CloseBranch, DropRows,
                DomainRow
  <2>2. excused' \subseteq Domain \cup {None}
    BY <1>1 DEF RouteTyped, DropTargets, DropTarget, DropProject, CloseBranch, DropRows, On,
                Excuse
  <2>3. req' \in [Request -> RequestState]
    BY <1>1, RequestTyped DEF DropTargets, DropTarget, DropProject, CloseBranch
  <2>4. ImageTyped'
    BY <1>1 DEF ImageTyped, DropTargets, Cascade
  <2>5. TargetsTyped' /\ RouteTyped'
    BY <1>1, <2>1, <2>2, <2>3 DEF RouteTyped, DropTargets, DropTarget, DropProject,
       CloseBranch,
                            DropRows
  <2>6. QED
    BY <2>4, <2>5
<1>2. ASSUME Crash
      PROVE  TypeOK'
  <2>2. excused' \subseteq Domain \cup {None}
    BY <1>2, HalfwayTyped DEF RouteTyped, Crash, RoutesCrash, Excuse
  <2>3. RouteTyped'
    BY <1>2, <2>2, IdleTyped DEF RouteTyped, Crash, RoutesCrash
  <2>4. \A w \in Worker : [work[w] EXCEPT !.at = "done"] \in Work
    BY DEF ImageTyped, Work, Errand
  <2>5. work' \in [Worker -> Work]
    BY <1>2, <2>4, NoWorkTyped DEF ImageTyped, Crash, ImagesCrash
  <2>6. spared' \subseteq Build \cup {NoBuild}
    BY <1>2 DEF ImageTyped, Crash, ImagesCrash, Spare, Collector
  <2>7. ImageTyped'
    BY <1>2, <2>5, <2>6, NoPassTyped DEF ImageTyped, Crash, ImagesCrash, Settled
  <2>8. TargetsTyped'
    BY <1>2, EventTyped DEF Crash, RoutesCrash
  <2>9. QED
    BY <2>3, <2>7, <2>8
<1>3. QED
  BY <1>1, <1>2

LEMMA TypeNext == TypeOK /\ [Next]_vars => TypeOK'
<1> SUFFICES ASSUME TypeOK, [Next]_vars PROVE TypeOK'
  OBVIOUS
<1>1. CASE RouteNext /\ UNCHANGED imageVars
  BY <1>1, RouteTypes DEF TypeOK, ImageTyped, imageVars
<1>2. CASE ImageNext /\ UNCHANGED routeVars
  BY <1>2, ImageTypes DEF TypeOK, RouteTyped, routeVars
<1>3. CASE UNCHANGED vars
  BY <1>3 DEF TypeOK, TargetsTyped, RouteTyped, ImageTyped, vars, targetVars, routeVars,
              imageVars
<1>4. QED
  BY <1>1, <1>2, <1>3, JointTypes DEF Next

\* Whatever the instances, domains, builds and bounds: every variable of the domains'
\* requests, of the builds and of the garbage collector keeps its type.
THEOREM TypeCorrect == Spec => []TypeOK
BY TypeInit, TypeNext, PTL DEF Spec

-----------------------------------------------------------------------------
(***************************************************************************)
(* Nothing is left in the cluster                                          *)
(***************************************************************************)

\* What will have been deleted, has been, or was kept by a named mishap
Ended == doomed \cup swept \cup strays

\* An instance without a row, and one whose row a request is about to delete, is among
\* those; and one that was deleted from the cluster runs nothing
Deleting ==
    /\ App \ live \subseteq Ended
    /\ \A r \in Request : req[r].targets \cap App \subseteq Ended
    /\ \A i \in swept \ strays : running[i] = NoBuild

LEMMA DeletingInit == Init => Deleting
BY DEF Init, TargetsInit, RouteInit, ImageInit, Idle, Deleting, Ended


\* A request that goes on or ends has no other targets than it had.
LEMMA NoOtherTargets ==
    ASSUME TypeOK, NEW r \in Request, End(r) \/ \E l \in Stage : Goto(r, l)
    PROVE  \A q \in Request : req'[q].targets \subseteq req[q].targets
<1>1. req \in [Request -> RequestState] /\ req[r] \in RequestState
  BY DEF TypeOK, RouteTyped
<1>2. CASE End(r)
  BY <1>1, <1>2 DEF End, Idle
<1>3. ASSUME NEW l \in Stage, Goto(r, l)
      PROVE  \A q \in Request : req'[q].targets \subseteq req[q].targets
  <2>1. [req[r] EXCEPT !.at = l].targets = req[r].targets
    BY <1>1 DEF RequestState
  <2>2. QED
    BY <1>1, <1>3, <2>1 DEF Goto
<1>4. QED
  BY <1>2, <1>3

\* The steps of requests keep the rows, and a request comes to have no target but those
\* it had and those whose deletion it has spawned.
LEMMA RouteTargets ==
    ASSUME TypeOK, RouteNext
    PROVE  /\ live' = live /\ doomed \subseteq doomed'
           /\ \A q \in Request : req'[q].targets \cap App \subseteq req[q].targets \cup doomed'
<1> DEFINE Spawned == \A q \in Request :
                          req'[q].targets \cap App \subseteq req[q].targets \cup doomed'
           Kept == live' = live /\ doomed \subseteq doomed'
<1>0. req \in [Request -> RequestState] /\ \A q \in Request : req[q] \in RequestState
  BY DEF TypeOK, RouteTyped
<1>1. ASSUME NEW r \in Request,
             \/ CreateRefused(r) \/ CreateLost(r) \/ StoreVerified(r) \/ StoreUpdated(r)
             \/ DropRow(r) \/ DeleteLost(r) \/ Cut(r)
      PROVE  Kept /\ Spawned
  BY <1>0, <1>1, NoOtherTargets DEF CreateRefused, CreateLost, StoreVerified,
     StoreUpdated, DropRow, DeleteLost, Cut
<1>2. ASSUME NEW r \in Request, InsertRow(r) \/ DeleteRecord(r)
      PROVE  Kept /\ Spawned
  BY <1>0, <1>2, NoOtherTargets DEF InsertRow, DeleteRecord, Stage, Writing
<1>3. ASSUME NEW r \in Request, ApplyIngress(r) \/ IngressFails(r)
      PROVE  Kept /\ Spawned
  BY <1>0, <1>3, NoOtherTargets DEF ApplyIngress, IngressFails, Stage, Writing
<1>4. ASSUME NEW r \in Request, PurgeRows(r)
      PROVE  Kept /\ Spawned
  BY <1>0, <1>4, NoOtherTargets DEF PurgeRows, DropRows, Stage, Writing
<1>5. ASSUME NEW r \in Request, CreateRecord(r)
      PROVE  Kept /\ Spawned
  BY <1>0, <1>5 DEF CreateRecord, RequestState
<1>6. ASSUME NEW r \in Request, ReadDomains(r)
      PROVE  Kept /\ Spawned
  BY <1>0, <1>6 DEF ReadDomains, RequestState
<1>7. ASSUME NEW r \in Request, TearDown(r)
      PROVE  Kept /\ Spawned
  BY <1>0, <1>7 DEF TearDown, RequestState
<1>8. ASSUME NEW r \in Request, NEW x \in Fqdn, NEW t \in Target, NEW k \in Route,
             AskAdd(r, x, t, k)
      PROVE  Kept /\ Spawned
  BY <1>0, <1>8 DEF AskAdd, Idle
<1>9. ASSUME NEW r \in Request, NEW d \in Domain, AskVerify(r, d) \/ AskRemove(r, d)
      PROVE  Kept /\ Spawned
  <2>1. CASE AskVerify(r, d)
    BY <1>0, <2>1 DEF AskVerify, Idle
  <2>2. CASE AskRemove(r, d)
    BY <1>0, <2>2 DEF AskRemove, Idle
  <2>3. QED
    BY <1>9, <2>1, <2>2
<1>10. ASSUME NEW r \in Request, NEW d \in Domain, NEW k \in Route, AskUpdate(r, d, k)
      PROVE  Kept /\ Spawned
  BY <1>0, <1>10 DEF AskUpdate, Idle
<1>11. ASSUME NEW r \in Request, NEW t \in live, AskDrop(r, t)
      PROVE  Kept /\ Spawned
  BY <1>0, <1>11 DEF AskDrop, Doom, Idle
<1>12. ASSUME NEW r \in Request, AskDropProject(r)
      PROVE  Kept /\ Spawned
  <2>1. live' = live /\ doomed' = doomed \cup (live \cap App)
    BY <1>12 DEF AskDropProject, Doom
  <2>2. req'[r].targets = live
    BY <1>0, <1>12 DEF AskDropProject, Idle
  <2>3. \A q \in Request \ {r} : req'[q] = req[q]
    BY <1>0, <1>12 DEF AskDropProject
  <2>4. QED
    BY <2>1, <2>2, <2>3
<1>13. ASSUME NEW r \in Request, NEW i \in App, AskCloseBranch(r, i)
      PROVE  Kept /\ Spawned
  BY <1>0, <1>13 DEF AskCloseBranch, Doom, Idle
<1>14. ASSUME ChangeCredential \/ \E d \in Domain : DeleteIngress(d)
      PROVE  Kept /\ Spawned
  BY <1>0, <1>14 DEF ChangeCredential, DeleteIngress
<1>15. ASSUME NEW r \in Request, LookUpFails(r)
      PROVE  Kept /\ Spawned
  BY <1>0, <1>15 DEF LookUpFails, RequestState
<1>16. QED
  BY <1>1, <1>2, <1>3, <1>4, <1>5, <1>6, <1>7, <1>8, <1>9, <1>10, <1>11, <1>12, <1>13,
     <1>14, <1>15 DEF RouteNext

\* The steps of images add to what has been deleted, and a deployment that comes after
\* the deletion is a named mishap.
LEMMA ImageDeletions ==
    ASSUME TypeOK, Deleting, ImageNext
    PROVE  /\ live' = live /\ Ended \subseteq Ended'
           /\ \A i \in swept' \ strays' : running'[i] = NoBuild
<1> USE DEF Ended, Deleting
<1>1. ASSUME NEW w \in Worker, ApplyDeployment(w)
      PROVE  /\ live' = live /\ Ended \subseteq Ended'
             /\ \A i \in swept' \ strays' : running'[i] = NoBuild
  BY <1>1 DEF ApplyDeployment, TypeOK, ImageTyped
<1>2. ASSUME NEW i \in App, SweepInstance(i)
      PROVE  /\ live' = live /\ Ended \subseteq Ended'
             /\ \A k \in swept' \ strays' : running'[k] = NoBuild
  BY <1>2 DEF SweepInstance, TypeOK, ImageTyped
<1>3. ASSUME UNCHANGED <<live, doomed, running, swept, strays>>
      PROVE  /\ live' = live /\ Ended \subseteq Ended'
             /\ \A i \in swept' \ strays' : running'[i] = NoBuild
  BY <1>3
<1>4. ASSUME NEW i \in App, StartBuild(i)
      PROVE  UNCHANGED <<live, doomed, running, swept, strays>>
  BY <1>4 DEF StartBuild
<1>5. ASSUME NEW b \in Build,
             \/ PushBlobs(b) \/ PushManifest(b) \/ FailBuild(b) \/ Verdict(b)
             \/ AskRollback(b) \/ PruneImage(b) \/ UnlinkOrphan(b)
      PROVE  UNCHANGED <<live, doomed, running, swept, strays>>
  BY <1>5 DEF PushBlobs, PushManifest, FailBuild, Verdict, AskRollback, PruneImage,
     UnlinkOrphan
<1>6. ASSUME NEW w \in Worker, PointInstance(w) \/ ReadInstance(w)
      PROVE  UNCHANGED <<live, doomed, running, swept, strays>>
  BY <1>6 DEF PointInstance, ReadInstance
<1>7. ASSUME \/ SelectOutdated \/ PruneRow \/ ListTags \/ KeepBuilt \/ KeepCurrent
             \/ CollectBlobs \/ MarkBlobs \/ SweepBlobs \/ EndPass
      PROVE  UNCHANGED <<live, doomed, running, swept, strays>>
  BY <1>7 DEF SelectOutdated, PruneRow, ListTags, KeepBuilt, KeepCurrent, CollectBlobs,
              MarkBlobs, SweepBlobs, EndPass
<1>8. QED
  BY <1>1, <1>2, <1>3, <1>4, <1>5, <1>6, <1>7 DEF ImageNext, Collecting

LEMMA DeletingNext == TypeOK /\ Deleting /\ [Next]_vars => Deleting'
<1> SUFFICES ASSUME TypeOK, Deleting, [Next]_vars PROVE Deleting'
  OBVIOUS
<1> USE DEF Deleting, Ended
<1>1. CASE RouteNext /\ UNCHANGED imageVars
  BY <1>1, RouteTargets DEF imageVars
<1>2. CASE ImageNext /\ UNCHANGED routeVars
  BY <1>2, ImageDeletions DEF routeVars
<1>3. ASSUME NEW r \in Request, DropTargets(r)
      PROVE  Deleting'
  <2>1. req \in [Request -> RequestState]
    BY DEF TypeOK, RouteTyped
  <2>2. /\ live' = live \ req[r].targets /\ End(r)
        /\ UNCHANGED <<doomed, swept, strays, running>>
    BY <1>3 DEF DropTargets, DropTarget, DropProject, CloseBranch, DropRows, Cascade
  <2>3. \A q \in Request : req'[q].targets \subseteq req[q].targets
    BY <2>1, <2>2 DEF End, Idle
  <2>4. QED
    BY <2>2, <2>3
<1>4. CASE Crash
  <2>1. /\ live' = live /\ doomed' = {} /\ strays' = strays \cup doomed
        /\ UNCHANGED <<swept, running>>
    BY <1>4 DEF Crash, RoutesCrash, ImagesCrash
  <2>2. \A r \in Request : req'[r].targets = {}
    BY <1>4 DEF Crash, RoutesCrash, Idle
  <2>3. QED
    BY <2>1, <2>2
<1>5. CASE UNCHANGED vars
  BY <1>5 DEF vars, targetVars, routeVars, imageVars
<1>6. QED
  BY <1>1, <1>2, <1>3, <1>4, <1>5 DEF Next

\* Whatever the instances, requests, builds and bounds: once the deletions that were
\* spawned are over, an instance without a row runs nothing, unless the deletion of its
\* workload failed, or was lost in a crash, or a deploy was applied after it.
THEOREM WorkloadsEndAlways == Spec => []WorkloadsEnd
<1>1. Deleting => WorkloadsEnd
  BY DEF Deleting, Ended, WorkloadsEnd
<1>2. QED
  BY <1>1, TypeInit, TypeNext, DeletingInit, DeletingNext, PTL DEF Spec
-----------------------------------------------------------------------------
(***************************************************************************)
(* The collector takes no image that is wanted                             *)
(***************************************************************************)

\* The collector has removed the image and is about to delete its row
Leaving(b) == gc.at = "row" /\ b \in gc.known

\* The pass is to remove the image
Chosen(b) == gc.at \in {"outdated", "row"} /\ b \in gc.todo

\* A build that succeeded can be rolled back to
Offered == \A b \in Build \ spared : builds[b] = "succeeded" =>
    b \in blobs /\ (~Leaving(b) => b \in manifests)

\* What is in use has a row, can be pulled, and is not to be removed
Needed == \A b \in Build \ spared : InUse(b) => HasRow(b) /\ Pullable(b) /\ ~Chosen(b)

\* While a build is active, be it for want of its verdict, what its worker has pushed is
\* there
Pushed == \A b \in Build \ spared : builds[b] = "active" =>
    /\ work[b].at = "push" => b \in blobs
    /\ work[b].at \in {"verdict", "point", "deploy", "apply"} => Pullable(b)

\* A worker that builds has a row that nobody else settles, and one that deploys has the
\* image of a build of its instance that has succeeded, or that it has itself made
AtWork ==
    /\ \A b \in Build : work[b].at \in {"build", "push", "verdict"} =>
            builds[b] \in {"active", "gone"} /\ work[b].img = b
    /\ \A w \in Worker : work[w].at \in {"point", "deploy", "apply"} =>
            /\ work[w].img \in Build
            /\ \/ builds[work[w].img] \in {"succeeded", "gone"}
               \/ builds[work[w].img] = "active" /\ work[w].img = w
            /\ work[work[w].img].inst = work[w].inst

\* An instance points at, and runs, images of its own builds
Placed == \A i \in App, b \in Build :
    current[i] = b \/ running[i] = b => builds[b] # "none" /\ work[b].inst = i

\* What the collector has in hand: builds that are over, or images without a row
InHand ==
    /\ IF gc.at = "row" THEN gc.known \subseteq gc.todo ELSE gc.known = {}
    /\ \A b \in manifests : builds[b] # "none"
    /\ \A b \in gc.todo :
        /\ gc.at \in {"outdated", "row"} => builds[b] \in Settled \cup {"gone"}
        /\ gc.at = "builds" => builds[b] # "none"
        /\ gc.at \in {"instances", "orphans"} => builds[b] = "gone"

Safe == Offered /\ Needed /\ Pushed /\ AtWork /\ Placed /\ InHand

LEMMA SafeInit == Init => Safe
<1> SUFFICES ASSUME Init PROVE Safe
  OBVIOUS
<1>1. PICK i \in App :
          /\ work = [w \in Worker |-> IF w = 1
                      THEN [at |-> "done", inst |-> i, img |-> 1] ELSE NoWork]
          /\ current = [k \in App |-> IF k = i THEN 1 ELSE NoBuild]
          /\ running = current
  BY DEF Init, ImageInit
<1>2. /\ \A b \in Build : b \in Worker /\ b # NoBuild /\ builds[b] \in {"succeeded", "none"}
      /\ \A b \in Build : builds[b] = "succeeded" <=> b = 1
      /\ manifests = {1} /\ blobs = {1} /\ gc = NoPass /\ Instances \subseteq App
  BY DEF Init, ImageInit, Build, Worker, NoBuild, Instances
<1>3. \A w \in Worker : work[w].at \in {"idle", "done"}
  BY <1>1 DEF NoWork
<1>4. Offered /\ Pushed
  BY <1>2 DEF Offered, Pushed, Pullable
<1>5. Needed
  BY <1>1, <1>2 DEF Needed, InUse, Pointed, Chosen, NoPass, HasRow, Settled, Pullable
<1>6. AtWork
  BY <1>2, <1>3 DEF AtWork
<1>7. Placed
  BY <1>1, <1>2 DEF Placed
<1>8. InHand
  BY <1>2, ImageBoundsOK DEF InHand, NoPass, Build
<1>9. QED
  BY <1>4, <1>5, <1>6, <1>7, <1>8 DEF Safe

\* What is wanted can be pulled.
LEMMA SafeKeeps == Safe => ImagesKept
BY DEF Safe, Offered, Needed, Leaving, ImagesKept, Pullable

\* A worker that moves on keeps its instance and its image.
LEMMA StepKeeps ==
    ASSUME TypeOK, NEW w \in Worker, NEW l, Step(w, l)
    PROVE  /\ work'[w].at = l
           /\ \A v \in Worker : work'[v].inst = work[v].inst /\ work'[v].img = work[v].img
           /\ \A v \in Worker \ {w} : work'[v] = work[v]
BY DEF TypeOK, ImageTyped, Work, Step

\* The workers' steps before the verdict.
LEMMA SafeBuilds ==
    ASSUME TypeOK, Safe,
           NEW b \in Build, PushBlobs(b) \/ PushManifest(b) \/ FailBuild(b) \/ Verdict(b)
    PROVE  Safe'
<1> USE DEF Safe
<1>0. /\ b \in Worker /\ Build \subseteq Worker
      /\ builds \in [Build -> Settled \cup {"none", "active", "gone"}]
  BY DEF Build, Worker, TypeOK, ImageTyped
<1>1. CASE PushBlobs(b)
  <2>1. Step(b, "push") /\ blobs' = blobs \cup {b}
        /\ UNCHANGED <<live, builds, current, running, manifests, gc, spared>>
    BY <1>1 DEF PushBlobs
  <2>2. Offered' /\ Needed' /\ Placed' /\ InHand'
    BY <2>1, <1>0, StepKeeps DEF Offered, Needed, Placed, InHand, Leaving, Chosen, Pullable, InUse,
       Pointed, Instances, HasRow
  <2>3. Pushed' /\ AtWork'
    BY <2>1, <1>0, <1>1, StepKeeps DEF Pushed, AtWork, Pullable, PushBlobs
  <2>4. QED
    BY <2>2, <2>3
<1>2. CASE PushManifest(b)
  <2>1. Step(b, "verdict") /\ manifests' = manifests \cup {b}
        /\ UNCHANGED <<live, builds, current, running, blobs, gc, spared>>
    BY <1>2 DEF PushManifest
  <2>2. Offered' /\ Needed' /\ Placed' /\ InHand'
    BY <2>1, <1>0, <1>2, StepKeeps DEF Offered, Needed, Placed, InHand, Leaving, Chosen, Pullable,
       InUse, Pointed, Instances, HasRow, AtWork, PushManifest
  <2>3. Pushed' /\ AtWork'
    BY <2>1, <1>0, <1>2, StepKeeps DEF Pushed, AtWork, Pullable, PushManifest
  <2>4. QED
    BY <2>2, <2>3
<1>3. ASSUME NEW l \in {"point", "done"}, Step(b, l),
             work[b].at \in {"build", "push", "verdict"},
             l = "point" => work[b].at = "verdict",
             \/ UNCHANGED builds
             \/ l = "point" /\ Judged(b, "succeeded")
             \/ l = "done" /\ Judged(b, "failed"),
             UNCHANGED <<live, current, running, manifests, blobs, gc, spared>>
      PROVE  Safe'
  <2>1. /\ builds[b] \in {"active", "gone"}
        /\ \/ builds'[b] = builds[b]
           \/ builds[b] = "active" /\ l = "point" /\ builds'[b] = "succeeded"
           \/ builds[b] = "active" /\ l = "done" /\ builds'[b] = "failed"
        /\ \A c \in Build \ {b} : builds'[c] = builds[c]
    BY <1>0, <1>3 DEF AtWork, Judged, HasRow, Settled
  <2>2. Offered'
    BY <2>1, <1>0, <1>3 DEF Offered, Pushed, Pullable, Leaving, Settled
  <2>3. Needed'
    BY <2>1, <1>0, <1>3 DEF Needed, InUse, Pointed, Instances, Chosen, HasRow, Pullable,
       Settled
  <2>4. Pushed'
    BY <2>1, <1>0, <1>3, StepKeeps DEF Pushed, Pullable, Settled
  <2>5. AtWork'
    <3>1. work[b].img = b /\ work'[b].at = l
      BY <1>0, <1>3, StepKeeps DEF AtWork
    <3>2. QED
      BY <2>1, <3>1, <1>0, <1>3, StepKeeps DEF AtWork, Settled
  <2>6. Placed'
    BY <2>1, <1>0, <1>3, StepKeeps DEF Placed, Settled
  <2>7. InHand'
    <3>1. \A c \in Build : builds'[c] = builds[c] \/ (builds[c] = "active"
                                                     /\ builds'[c] \in Settled)
      BY <2>1 DEF Settled
    <3>2. manifests \subseteq Build /\ gc.todo \subseteq Build
      BY DEF TypeOK, ImageTyped, Collector
    <3>3. QED
      BY <3>1, <3>2, <1>3 DEF InHand, Settled
  <2>8. QED
    BY <2>2, <2>3, <2>4, <2>5, <2>6, <2>7
<1>4. CASE FailBuild(b)
  BY <1>4, <1>3 DEF FailBuild
<1>5. CASE Verdict(b)
  BY <1>5, <1>3 DEF Verdict
<1>6. QED
  BY <1>1, <1>2, <1>4, <1>5

\* A new build, and a rollback.
LEMMA SafeAsks ==
    ASSUME TypeOK, Safe,
           (\E i \in App : StartBuild(i)) \/ (\E b \in Build : AskRollback(b))
    PROVE  Safe'
<1> USE DEF Safe
<1>0. /\ Build \subseteq Worker /\ 0 \in Worker /\ 0 \notin Build
      /\ builds \in [Build -> Settled \cup {"none", "active", "gone"}]
      /\ work \in [Worker -> Work]
  BY ImageBoundsOK DEF Build, Worker, TypeOK, ImageTyped
<1>1. ASSUME NEW i \in App, StartBuild(i)
      PROVE  Safe'
  <2>1. PICK b \in Build :
            /\ builds[b] = "none"
            /\ \/ builds' = [builds EXCEPT ![b] = "active"]
               \/ builds' = [builds EXCEPT ![b] = "gone"]
            /\ work' = [work EXCEPT ![b] = [at |-> "build", inst |-> i, img |-> b]]
    BY <1>1 DEF StartBuild
  <2>2. UNCHANGED <<live, current, running, manifests, blobs, gc, spared>>
    BY <1>1 DEF StartBuild
  <2>3. /\ builds'[b] \in {"active", "gone"}
        /\ \A c \in Build \ {b} : builds'[c] = builds[c]
        /\ work'[b] = [at |-> "build", inst |-> i, img |-> b]
        /\ \A w \in Worker \ {b} : work'[w] = work[w]
    BY <2>1, <1>0
  <2>4. Offered' /\ Needed'
    BY <2>1, <2>2, <2>3 DEF Offered, Needed, Pullable, Leaving, Chosen, InUse, Pointed,
       Instances, HasRow, Settled
  <2>5. Pushed'
    BY <2>1, <2>2, <2>3, <1>0 DEF Pushed, Pullable
  <2>6. AtWork'
    BY <2>1, <2>3, <1>0 DEF AtWork
  <2>7. Placed'
    BY <2>1, <2>2, <2>3, <1>0 DEF Placed, Settled
  <2>8. InHand'
    <3>1. manifests \subseteq Build /\ gc.todo \subseteq Build
      BY DEF TypeOK, ImageTyped, Collector
    <3>2. QED
      BY <2>1, <2>2, <2>3, <3>1 DEF InHand, Settled
  <2>9. QED
    BY <2>4, <2>5, <2>6, <2>7, <2>8
<1>2. ASSUME NEW b \in Build, AskRollback(b)
      PROVE  Safe'
  <2>1. /\ builds[b] = "succeeded"
        /\ work' = [work EXCEPT ![0] = [at |-> "point", inst |-> work[b].inst, img |-> b]]
        /\ UNCHANGED <<live, builds, current, running, manifests, blobs, gc, spared>>
    BY <1>2 DEF AskRollback
  <2>2. /\ work'[0] = [at |-> "point", inst |-> work[b].inst, img |-> b]
        /\ \A w \in Worker \ {0} : work'[w] = work[w]
    BY <2>1, <1>0
  <2>3. Offered' /\ Needed' /\ InHand'
    BY <2>1 DEF Offered, Needed, InHand, Pullable, Leaving, Chosen, InUse, Pointed,
       Instances, HasRow
  <2>4. Pushed' /\ AtWork' /\ Placed'
    BY <2>1, <2>2, <1>0 DEF Pushed, AtWork, Placed, Pullable
  <2>5. QED
    BY <2>3, <2>4
<1>3. QED
  BY <1>1, <1>2

\* A deploy makes its image the instance's, or its pods'; an image that is condemned by
\* then is one that the named mishap may take.
LEMMA SafeDeploys ==
    ASSUME TypeOK, Safe, NEW w \in Worker,
           PointInstance(w) \/ ReadInstance(w) \/ ApplyDeployment(w)
    PROVE  Safe'
<1> USE DEF Safe
<1> DEFINE i == work[w].inst
           b == work[w].img
           l == work'[w].at
<1>0. /\ Build \subseteq Worker /\ builds \in [Build -> Settled \cup {"none", "active", "gone"}]
      /\ work \in [Worker -> Work] /\ i \in App /\ Instances \subseteq App
      /\ current \in [App -> Build \cup {NoBuild}] /\ running \in [App -> Build \cup {NoBuild}]
  BY DEF Build, Worker, TypeOK, ImageTyped, Work, Instances
<1>1. /\ work[w].at \in {"point", "deploy", "apply"}
      /\ b \in Build /\ work[b].inst = i
      /\ builds[b] \in {"succeeded", "gone"} \/ (builds[b] = "active" /\ b = w)
  BY DEF AtWork, PointInstance, ReadInstance, ApplyDeployment
<1>2. /\ UNCHANGED <<live, builds, manifests, blobs, gc>>
      /\ Step(w, "deploy") \/ Step(w, "apply") \/ Step(w, "done") \/ Step(w, "idle")
      /\ spared' = spared \/ (SpareIfCondemned(b) /\ work[w].at # "deploy")
  BY DEF PointInstance, ReadInstance, ApplyDeployment, Finish
<1>3. /\ \A v \in Worker : work'[v].inst = work[v].inst /\ work'[v].img = work[v].img
      /\ \A v \in Worker \ {w} : work'[v] = work[v]
      /\ l \in {"deploy", "apply", "done", "idle"}
      /\ spared \subseteq spared'
  BY <1>2, StepKeeps DEF SpareIfCondemned, Spare
<1>4. Offered'
  BY <1>2, <1>3 DEF Offered, Pullable, Leaving
<1>5. Pushed' /\ AtWork'
  BY <1>0, <1>1, <1>2, <1>3 DEF Pushed, AtWork, Pullable
<1>6. InHand'
  BY <1>2 DEF InHand
<1>7. /\ \A k \in App : current'[k] = current[k] \/ (k = i /\ current'[k] = b)
      /\ \A k \in App : running'[k] = running[k] \/ (k = i /\ running'[k] = b)
      /\ UNCHANGED <<current, running>> \/ SpareIfCondemned(b)
  <2>1. CASE PointInstance(w)
    BY <2>1, <1>0 DEF PointInstance
  <2>2. CASE ReadInstance(w)
    BY <2>2 DEF ReadInstance
  <2>3. CASE ApplyDeployment(w)
    BY <2>3, <1>0 DEF ApplyDeployment
  <2>4. QED
    BY <2>1, <2>2, <2>3
<1>8. Placed'
  BY <1>0, <1>1, <1>2, <1>3, <1>7 DEF Placed
<1>9. Needed'
  <2> SUFFICES ASSUME NEW c \in Build \ spared', InUse(c)'
               PROVE  HasRow(c) /\ Pullable(c) /\ ~Chosen(c)
    BY <1>2 DEF Needed, Chosen, HasRow, Pullable
  <2>1. InUse(c) \/ (c = b /\ SpareIfCondemned(b))
    BY <1>0, <1>2, <1>7 DEF InUse, Pointed, Instances
  <2>2. CASE InUse(c)
    BY <2>2, <1>3 DEF Needed
  <2>3. CASE c = b /\ SpareIfCondemned(b)
    <3>1. ~Condemned(b)
      BY <2>3 DEF SpareIfCondemned, Spare
    <3>2. builds[b] \in {"succeeded", "active"} /\ b \in manifests /\ b \notin spared
      BY <2>3, <3>1, <1>1, <1>3 DEF Condemned, HasRow, Settled
    <3>3. b \in blobs
      BY <3>2, <1>1 DEF Offered, Pushed, Pullable
    <3>4. QED
      BY <2>3, <3>1, <3>2, <3>3 DEF Condemned, Chosen, Pullable
  <2>4. QED
    BY <2>1, <2>2, <2>3
<1>10. QED
  BY <1>4, <1>5, <1>6, <1>8, <1>9

\* Fewer instances, or fewer images that they use.
LEMMA SafeSweeps ==
    ASSUME TypeOK, Safe, NEW i \in App, SweepInstance(i)
    PROVE  Safe'
<1> USE DEF Safe
<1>1. /\ UNCHANGED <<live, builds, work, current, manifests, blobs, gc, spared>>
      /\ \A k \in App : running'[k] \in {running[k], NoBuild}
  BY DEF SweepInstance, TypeOK, ImageTyped
<1>2. \A b \in Build : b # NoBuild
  BY DEF Build, NoBuild
<1>3. Needed' /\ Placed'
  BY <1>1, <1>2 DEF Needed, Placed, InUse, Pointed, Instances, Chosen, HasRow, Pullable
<1>4. Offered' /\ Pushed' /\ AtWork' /\ InHand'
  BY <1>1 DEF Offered, Pushed, AtWork, InHand, Pullable, Leaving
<1>5. QED
  BY <1>3, <1>4

\* The passes of the collector remove manifests and rows of images that nobody needs, and
\* its job the blobs of images without a manifest.
LEMMA SafePrunes ==
    ASSUME TypeOK, Safe,
           \/ SelectOutdated \/ PruneRow
           \/ \E b \in Build : PruneImage(b) \/ UnlinkOrphan(b)
    PROVE  Safe'
<1> USE DEF Safe
<1>0. /\ builds \in [Build -> Settled \cup {"none", "active", "gone"}] /\ gc \in Collector
      /\ gc.todo \subseteq Build /\ gc.known \subseteq Build
  BY DEF TypeOK, ImageTyped, Collector
<1>1. CASE SelectOutdated
  <2>1. /\ gc.at = "idle" /\ gc'.at = "outdated" /\ gc'.todo \subseteq Outdated
        /\ gc'.known = {}
        /\ spared' = spared \cup {b \in gc'.todo : InUse(b) /\ b \notin Pointed}
        /\ UNCHANGED <<live, builds, work, current, running, manifests, blobs>>
    BY <1>1 DEF SelectOutdated, Spare, NoPass
  <2>2. \A b \in Outdated : b \in Build /\ builds[b] \in Settled /\ b \notin Pointed
    BY DEF Outdated
  <2>3. Offered' /\ Pushed' /\ AtWork' /\ Placed'
    BY <2>1 DEF Offered, Pushed, AtWork, Placed, Pullable, Leaving
  <2>4. Needed'
    BY <2>1, <2>2 DEF Needed, Chosen, InUse, Pointed, Instances, HasRow, Pullable
  <2>5. InHand'
    BY <2>1, <2>2 DEF InHand
  <2>6. QED
    BY <2>3, <2>4, <2>5
<1>2. ASSUME NEW b \in Build, PruneImage(b)
      PROVE  Safe'
  <2>1. /\ gc.at = "outdated" /\ b \in gc.todo
        /\ gc'.at = "row" /\ gc'.todo = gc.todo /\ gc'.known = {b}
        /\ manifests' \in {manifests, manifests \ {b}}
        /\ UNCHANGED <<live, builds, work, current, running, blobs, spared>>
    <3>1. CASE gc' = [gc EXCEPT !.at = "row", !.known = {b}]
      <4>1. gc'.at = "row" /\ gc'.todo = gc.todo /\ gc'.known = {b}
        BY <1>0, <3>1, Zenon DEF Collector
      <4>2. QED
        BY <1>2, <4>1, Zenon DEF PruneImage
    <3>2. CASE gc' = [gc EXCEPT !.at = "row", !.known = {b},
                                !.unlinked = (gc.unlinked \/ b \in manifests)]
      <4>1. gc'.at = "row" /\ gc'.todo = gc.todo /\ gc'.known = {b}
        BY <1>0, <3>2, Zenon DEF Collector
      <4>2. QED
        BY <1>2, <4>1, Zenon DEF PruneImage
    <3>3. QED
      BY <1>2, <3>1, <3>2, Zenon DEF PruneImage
  <2>2. builds[b] \in Settled \cup {"gone"}
    BY <2>1 DEF InHand
  <2>3. Offered'
    BY <2>1 DEF Offered, Pullable, Leaving
  <2>4. Needed' /\ AtWork' /\ Placed'
    BY <2>1 DEF Needed, AtWork, Placed, Chosen, InUse, Pointed, Instances, HasRow, Pullable
  <2>5. Pushed'
    BY <2>1, <2>2 DEF Pushed, Pullable, Settled
  <2>6. InHand'
    BY <2>1 DEF InHand
  <2>7. QED
    BY <2>3, <2>4, <2>5, <2>6
<1>3. CASE PruneRow
  <2>1. /\ gc.at = "row" /\ gc.known \subseteq gc.todo
        /\ gc'.at = "outdated" /\ gc'.todo = gc.todo \ gc.known /\ gc'.known = {}
        /\ UNCHANGED <<live, work, current, running, manifests, blobs>>
    BY <1>0, <1>3 DEF PruneRow, Collector, InHand
  <2>2. \A b \in gc.known : builds[b] \in Settled \cup {"gone"}
    BY <2>1 DEF InHand
  <2>3. \/ /\ \A b \in Build : builds'[b] = IF b \in gc.known THEN "gone" ELSE builds[b]
           /\ UNCHANGED spared
        \/ UNCHANGED builds /\ spared' = spared \cup (gc.known \ manifests)
    BY <1>0, <1>3 DEF PruneRow, Spare
  <2>4. /\ spared \subseteq spared'
        /\ \A b \in Build : builds'[b] = builds[b] \/ (b \in gc.known /\ builds'[b] = "gone")
        /\ \A b \in Build \ spared' :
                b \in gc.known => builds'[b] = "gone" \/ b \in manifests
    BY <2>3
  <2>5. Offered' /\ Pushed'
    BY <2>1, <2>4 DEF Offered, Pushed, Pullable, Leaving
  <2>6. Needed'
    BY <2>1, <2>4 DEF Needed, Chosen, InUse, Pointed, Instances, HasRow, Pullable
  <2>7. AtWork' /\ Placed'
    BY <2>1, <2>2, <2>4 DEF AtWork, Placed, Settled
  <2>8. \A b \in manifests' : builds'[b] # "none"
    BY <1>0, <2>1, <2>4 DEF InHand, TypeOK, ImageTyped
  <2>9. InHand'
    BY <1>0, <2>1, <2>4, <2>8 DEF InHand
  <2>10. QED
    BY <2>5, <2>6, <2>7, <2>9
<1>4. ASSUME NEW b \in Build, UnlinkOrphan(b)
      PROVE  Safe'
  <2>1. /\ gc.at = "orphans" /\ b \in gc.todo
        /\ gc'.at = "orphans" /\ gc'.todo = gc.todo \ {b} /\ gc'.known = gc.known
        /\ manifests' \in {manifests, manifests \ {b}}
        /\ UNCHANGED <<live, builds, work, current, running, blobs, spared>>
    <3>1. CASE gc' = [gc EXCEPT !.todo = gc.todo \ {b}]
      <4>1. gc'.at = gc.at /\ gc'.todo = gc.todo \ {b} /\ gc'.known = gc.known
        BY <1>0, <3>1, Zenon DEF Collector
      <4>2. QED
        BY <1>4, <4>1, Zenon DEF UnlinkOrphan, Unlink
    <3>2. CASE gc' = [gc EXCEPT !.unlinked = (gc.unlinked \/ b \in manifests),
                                !.todo = gc.todo \ {b}]
      <4>1. gc'.at = gc.at /\ gc'.todo = gc.todo \ {b} /\ gc'.known = gc.known
        BY <1>0, <3>2, Zenon DEF Collector
      <4>2. QED
        BY <1>4, <4>1, Zenon DEF UnlinkOrphan, Unlink
    <3>3. QED
      BY <1>4, <3>1, <3>2, Zenon DEF UnlinkOrphan, Unlink
  <2>2. builds[b] = "gone"
    BY <2>1 DEF InHand
  <2>3. Offered' /\ Pushed'
    BY <2>1, <2>2 DEF Offered, Pushed, Pullable, Leaving
  <2>4. Needed' /\ AtWork' /\ Placed'
    BY <2>1, <2>2 DEF Needed, AtWork, Placed, Chosen, InUse, Pointed, Instances, HasRow,
       Pullable, Settled
  <2>5. InHand'
    BY <2>1 DEF InHand
  <2>6. QED
    BY <2>3, <2>4, <2>5
<1>5. QED
  BY <1>1, <1>2, <1>3, <1>4

LEMMA SafeReads ==
    ASSUME TypeOK, Safe,
           ListTags \/ KeepBuilt \/ KeepCurrent \/ CollectBlobs \/ EndPass \/ MarkBlobs
    PROVE  Safe'
<1> USE DEF Safe
<1>1. UNCHANGED <<live, builds, work, current, running, manifests, blobs, spared>>
  BY DEF ListTags, KeepBuilt, KeepCurrent, CollectBlobs, EndPass, MarkBlobs
<1>2. gc \in Collector /\ gc.todo \subseteq Build
      /\ builds \in [Build -> Settled \cup {"none", "active", "gone"}]
  BY DEF TypeOK, ImageTyped, Collector
<1>3. UNCHANGED gc \/ (gc.at # "row" /\ gc'.at \notin {"outdated", "row"} /\ InHand')
  <2>1. CASE ListTags
    BY <1>1, <1>2, <2>1 DEF ListTags, InHand, Collector
  <2>2. CASE KeepBuilt
    <3>1. \A b \in Unreferenced(gc.todo) : b \in gc.todo /\ builds[b] \in {"none", "gone"}
      BY <1>2 DEF Unreferenced, HasRow
    <3>2. QED
      BY <1>1, <1>2, <2>2, <3>1 DEF KeepBuilt, InHand, Collector
  <2>3. CASE KeepCurrent
    BY <1>1, <1>2, <2>3 DEF KeepCurrent, InHand, Collector
  <2>4. CASE CollectBlobs
    <3>1. gc' = NoPass \/ (gc' = [gc EXCEPT !.at = "await"])
      BY <2>4 DEF CollectBlobs, StartJob
    <3>2. /\ gc.at = "orphans" /\ gc.known = {}
          /\ gc'.at \in {"idle", "await"} /\ gc'.known = {}
      <4>0. gc.at = "orphans" /\ gc.known = {}
        BY <2>4 DEF CollectBlobs, InHand
      <4>1. CASE gc' = NoPass
        BY <4>0, <4>1 DEF NoPass
      <4>2. CASE gc' = [gc EXCEPT !.at = "await"]
        BY <1>2, <4>0, <4>2 DEF Collector
      <4>3. QED
        BY <3>1, <4>1, <4>2
    <3>3. QED
      BY <1>1, <3>2 DEF InHand
  <2>5. CASE EndPass
    BY <1>1, <2>5 DEF EndPass, NoPass, InHand
  <2>6. CASE MarkBlobs
    BY <2>6 DEF MarkBlobs
  <2>7. QED
    BY <2>1, <2>2, <2>3, <2>4, <2>5, <2>6
<1>4. Offered' /\ Pushed' /\ AtWork' /\ Placed'
  BY <1>1, <1>3 DEF Offered, Pushed, AtWork, Placed, Pullable, Leaving
<1>5. Needed' /\ InHand'
  BY <1>1, <1>3 DEF Needed, InHand, Chosen, InUse, Pointed, Instances, HasRow, Pullable
<1>6. QED
  BY <1>4, <1>5

LEMMA SafeJob ==
    ASSUME TypeOK, Safe, SweepBlobs
    PROVE  Safe'
<1> USE DEF Safe
<1>1. /\ spared' = spared \cup {b \in blobs \ job.marked : HasRow(b)}
      /\ blobs' = blobs \cap job.marked
      /\ UNCHANGED <<live, builds, work, current, running, manifests, gc>>
  BY DEF SweepBlobs, Spare
<1>2. \A b \in Build \ spared' : b \in blobs /\ HasRow(b) => b \in blobs'
  BY <1>1
<1>3. Offered'
  BY <1>1, <1>2 DEF Offered, Leaving, HasRow, Settled
<1>4. Pushed'
  BY <1>1, <1>2 DEF Pushed, Pullable, HasRow, Settled
<1>5. Needed'
  BY <1>1, <1>2 DEF Needed, Chosen, InUse, Pointed, Instances, HasRow, Pullable
<1>6. AtWork' /\ Placed' /\ InHand'
  BY <1>1 DEF AtWork, Placed, InHand
<1>7. QED
  BY <1>3, <1>4, <1>5, <1>6

\* The rows of builds that go with those of their instances are those of images that no
\* other instance uses.
LEMMA SafeDrops ==
    ASSUME TypeOK, Safe, NEW r \in Request, DropTargets(r)
    PROVE  Safe'
<1> USE DEF Safe
<1> DEFINE S == req[r].targets
<1>0. builds \in [Build -> Settled \cup {"none", "active", "gone"}] /\ gc.todo \subseteq Build
      /\ manifests \subseteq Build
  BY DEF TypeOK, ImageTyped, Collector
<1>1. /\ live' = live \ S
      /\ \A b \in Build : builds'[b] = IF b \in Owned(S) THEN "gone" ELSE builds[b]
      /\ UNCHANGED <<work, current, running, manifests, blobs, gc, spared>>
  BY DEF DropTargets, DropTarget, DropProject, CloseBranch, DropRows, Cascade
<1>2. \A b \in Build : b \in Owned(S) <=> HasRow(b) /\ work[b].inst \in S
  BY DEF Owned
<1>3. Offered' /\ Pushed'
  BY <1>1 DEF Offered, Pushed, Pullable, Leaving
<1>4. Needed'
  <2> SUFFICES ASSUME NEW b \in Build \ spared', InUse(b)'
               PROVE  HasRow(b)' /\ Pullable(b) /\ ~Chosen(b)
    BY <1>1 DEF Needed, Chosen, Pullable
  <2>1. PICK i \in App \cap live' : current[i] = b \/ running[i] = b
    BY <1>1 DEF InUse, Pointed, Instances
  <2>2. InUse(b) /\ i \notin S
    BY <1>1, <2>1 DEF InUse, Pointed, Instances
  <2>3. work[b].inst = i
    BY <2>1 DEF Placed
  <2>4. QED
    BY <1>1, <1>2, <2>2, <2>3 DEF Needed, HasRow
<1>5. AtWork' /\ Placed'
  BY <1>1 DEF AtWork, Placed
<1>6. InHand'
  BY <1>0, <1>1 DEF InHand
<1>7. QED
  BY <1>3, <1>4, <1>5, <1>6

\* A crash fails the builds that were active.
LEMMA SafeCrash ==
    ASSUME TypeOK, Safe, Crash
    PROVE  Safe'
<1> USE DEF Safe
<1>0. /\ Build \subseteq Worker /\ 0 \in Worker /\ 0 \notin Build
      /\ builds \in [Build -> Settled \cup {"none", "active", "gone"}]
      /\ work \in [Worker -> Work] /\ manifests \subseteq Build
  BY ImageBoundsOK DEF Build, Worker, TypeOK, ImageTyped
<1>1. /\ \A b \in Build : builds'[b] = IF builds[b] = "active" THEN "failed" ELSE builds[b]
      /\ gc' = NoPass
      /\ spared' = spared \cup (IF gc.at = "row" THEN gc.known \ manifests ELSE {})
      /\ UNCHANGED <<live, current, running, manifests, blobs>>
  BY DEF Crash, RoutesCrash, ImagesCrash, Spare
<1>2. /\ work'[0].at = "idle"
      /\ \A w \in Build : /\ work'[w].inst = work[w].inst /\ work'[w].img = work[w].img
                          /\ work'[w].at = IF builds[w] = "none" THEN work[w].at ELSE "done"
  <2>1. work'[0] = NoWork
    BY <1>0 DEF Crash, ImagesCrash
  <2>2. \A w \in Build : work'[w] = IF builds[w] = "none" THEN work[w]
                                    ELSE [work[w] EXCEPT !.at = "done"]
    BY <1>0 DEF Crash, ImagesCrash
  <2>3. \A w \in Build : [work[w] EXCEPT !.at = "done"].at = "done"
                         /\ [work[w] EXCEPT !.at = "done"].inst = work[w].inst
                         /\ [work[w] EXCEPT !.at = "done"].img = work[w].img
    BY <1>0 DEF Work
  <2>4. \A w \in Build : /\ work'[w].inst = work[w].inst /\ work'[w].img = work[w].img
                        /\ work'[w].at = IF builds[w] = "none" THEN work[w].at ELSE "done"
    BY <2>2, <2>3
  <2>5. QED
    BY <2>1, <2>4 DEF NoWork
<1>3. Offered'
  BY <1>1 DEF Offered, Pullable, Leaving, NoPass
<1>4. Needed'
  BY <1>1 DEF Needed, Chosen, InUse, Pointed, Instances, NoPass, HasRow, Pullable, Settled
<1>5. Pushed'
  BY <1>0, <1>1 DEF Pushed
<1>6. AtWork'
  <2>1. \A w \in Worker : w = 0 \/ w \in Build
    BY DEF Worker, Build
  <2>2. QED
    BY <2>1, <1>1, <1>2 DEF AtWork
<1>7. Placed'
  BY <1>0, <1>1, <1>2 DEF Placed
<1>8. InHand'
  BY <1>0, <1>1 DEF InHand, NoPass
<1>9. QED
  BY <1>3, <1>4, <1>5, <1>6, <1>7, <1>8

LEMMA SafeNext == TypeOK /\ Safe /\ [Next]_vars => Safe'
<1> SUFFICES ASSUME TypeOK, Safe, [Next]_vars PROVE Safe'
  OBVIOUS
<1>1. ASSUME live' = live, UNCHANGED imageVars
      PROVE  Safe'
  BY <1>1 DEF imageVars, Safe, Offered, Needed, Pushed, AtWork, Placed, InHand, Pullable, Leaving,
     Chosen, InUse, Pointed, Instances, HasRow
<1>2. CASE RouteNext /\ UNCHANGED imageVars
  BY <1>1, <1>2, RouteTargets
<1>3. CASE ImageNext /\ UNCHANGED routeVars
  BY <1>3, SafeBuilds, SafeAsks, SafeDeploys, SafeSweeps, SafePrunes, SafeReads, SafeJob
     DEF ImageNext, Collecting
<1>4. ASSUME NEW r \in Request, DropTargets(r)
      PROVE  Safe'
  BY <1>4, SafeDrops
<1>5. CASE Crash
  BY <1>5, SafeCrash
<1>6. CASE UNCHANGED vars
  BY <1>1, <1>6 DEF vars, targetVars
<1>7. QED
  BY <1>2, <1>3, <1>4, <1>5, <1>6 DEF Next

\* Whatever the instances, builds, requests and bounds: but for the images that a named
\* mishap may have taken, no pass of the garbage collector, in any order with builds,
\* rollbacks, deletions and crashes, takes an image that an instance points at or runs, or
\* that a rollback is offered.
THEOREM ImagesKeptAlways == Spec => []ImagesKept
BY TypeInit, TypeNext, SafeInit, SafeNext, SafeKeeps, PTL DEF Spec

-----------------------------------------------------------------------------
(***************************************************************************)
(* Routes match the rows                                                   *)
(***************************************************************************)

\* The record that a row or a request knows as a domain's is one
Known(n, d) == n # None => zone[n].dom = d /\ zone[n].st # "none"

Adding == {"addDns", "addRow"}
Removing == {"removeDns", "removeRow"}

\* What makes a record has it to itself until the row has its id
Making == {"addRow", "checkIngress", "checkRow"}
Private(r) == req[r].at \in Making /\ req[r].rec # None =>
    /\ There(req[r].rec)
    /\ \A d \in Domain : rows[d].rec # req[r].rec
    /\ \A q \in Request : /\ q # r => req[q].rec # req[r].rec
                          /\ \A x \in req[q].read : x[2] # req[r].rec

\* A request that adds a domain is alone with it; any other finds that it has, or has
\* had, a row, and a removal that has come to the row is done with its record
Started(r) ==
    LET d == req[r].dom
    IN  /\ Known(req[r].rec, d)
        /\ req[r].at \in Adding \cup Removing \cup Writing => d # None
        /\ req[r].at \in Adding =>
            /\ rows[d].st = "none" /\ \A q \in Request \ {r} : req[q].dom # d
            /\ req[r].target \in Database => req[r].route = "static"
            /\ req[r].at = "addDns" => req[r].rec = None
        /\ d # None /\ req[r].at \notin Adding => rows[d].st # "none"
        /\ req[r].at \in Removing => req[r].target = rows[d].target
        /\ req[r].at = "removeRow" => ~There(req[r].rec)
        /\ req[r].at \in Writing =>
            /\ rows[d].target \in Database => req[r].route = "static"
            /\ /\ req[r].at \in {"addIngress", "checkDns", "checkIngress", "checkRow"}
               /\ Live(d) /\ d \notin excused
               => req[r].route = rows[d].route

\* The domains that a purge has read are those of its targets, and what it has torn down
\* is gone
Torn(r) ==
    /\ req[r].todo \subseteq req[r].read
    /\ \A x \in req[r].read :
        /\ Known(x[2], x[1])
        /\ rows[x[1]].st # "none" /\ rows[x[1]].target \in req[r].targets
        /\ x \notin req[r].todo => x[1] \in torn /\ (x[1] \in excused \/ ~There(x[2]))

Requested == \A r \in Request : Private(r) /\ Started(r) /\ Torn(r)

Writes(q, d) == req[q].dom = d /\ req[q].at \in Writing

\* A request that has deleted the record, or torn down the domain, is about to delete
\* the row
Ending(d) == \E r \in Request :
    \/ req[r].dom = d /\ req[r].at = "removeRow" /\ req[r].rec # None
    \/ req[r].at = "tearDown" /\ \E x \in req[r].read \ req[r].todo : x[1] = d

Wanted(k) == IF k \in Proxied THEN k ELSE "none"

\* The Ingress of a domain with a row, as the request left it that is writing it
Shown(d) ==
    /\ \A q \in Request : Writes(q, d) =>
        ingress[d] = CASE req[q].at = "addIngress" -> "none"
                       [] req[q].at = "editRow" -> Wanted(req[q].route)
                       [] OTHER -> Wanted(rows[d].route)
    /\ (\A q \in Request : ~Writes(q, d)) => ingress[d] = Wanted(rows[d].route)

\* Who knows of a record of the domain
Traced(d) == \A n \in Record : There(n) /\ zone[n].dom = d =>
    \/ Live(d) /\ rows[d].rec = n
    \/ \E q \in Request : req[q].dom = d /\ req[q].at \in Making /\ req[q].rec = n

\* The record of the row is there
Intact(d) == rows[d].rec # None => There(rows[d].rec)

Matching(d) ==
    /\ \A q, p \in Request : Writes(q, d) /\ Writes(p, d) => q = p
    /\ d \in pending => rows[d].st = "gone"
    /\ d \in torn => rows[d].st # "none" /\ ingress[d] = "none"
    /\ rows[d].st = "gone" => d \in torn \cup pending \/ rows[d].target \in Database
    /\ Live(d) => /\ rows[d].target \in live \cup {NoTarget}
                  /\ \/ Ending(d)
                     \/ d \notin torn /\ Intact(d)
                  /\ d \in torn \/ Shown(d)
    /\ Traced(d)

\* A domain that points at a database has no Ingress; one to which no named mishap has
\* happened is as its row says, but for what the requests under way have still to do
Right(d) ==
    /\ Known(rows[d].rec, d)
    /\ rows[d].st # "none" /\ rows[d].target \in Database => rows[d].route = "static"
    /\ rows[d].st = "none" \/ rows[d].target \in Database => ingress[d] = "none"
    /\ d \in excused \/ Matching(d)

\* A record that has not been made is nobody's
Blank == \A n \in Record : zone[n].st = "none" => zone[n].dom = None

Routed == Requested /\ Blank /\ \A d \in Domain : Right(d)

\* Once no request is under way, what there is is what the rows say.
LEMMA RoutedMatches == TypeOK /\ Routed => RoutesMatchRows
<1> SUFFICES ASSUME TypeOK, Routed, RoutesAtRest, NEW d \in Domain \ excused
             PROVE  /\ {n \in Record : There(n) /\ zone[n].dom = d} =
                            IF Live(d) THEN {rows[d].rec} \ {None} ELSE {}
                    /\ ingress[d] = IF Live(d) /\ rows[d].route \in Proxied
                                    THEN rows[d].route ELSE "none"
                    /\ Live(d) => rows[d].target \in live \cup {NoTarget}
  BY DEF RoutesMatchRows
<1>1. /\ pending = {} /\ Right(d) /\ Matching(d)
      /\ \A r \in Request : req[r].at = "idle"
      /\ rows[d].rec \in Record \cup {None} /\ rows[d].st \in {"none", "live", "gone"}
      /\ None \notin Record
  BY DEF Routed, Right, RoutesAtRest, Idle, TypeOK, RouteTyped, DomainRow, Record, None
<1>2. ~Ending(d) /\ \A q \in Request : ~Writes(q, d)
  BY <1>1 DEF Ending, Writes, Writing
<1>3. \A n \in Record : There(n) /\ zone[n].dom = d => Live(d) /\ rows[d].rec = n
  BY <1>1 DEF Matching, Traced, Making
<1>4. Live(d) => /\ d \notin torn /\ ingress[d] = Wanted(rows[d].route)
                 /\ rows[d].rec # None => There(rows[d].rec) /\ zone[rows[d].rec].dom = d
                 /\ rows[d].target \in live \cup {NoTarget}
  BY <1>1, <1>2 DEF Matching, Shown, Right, Known, Intact
<1>5. ~Live(d) => ingress[d] = "none"
  BY <1>1 DEF Matching, Right, Live
<1>6. {n \in Record : There(n) /\ zone[n].dom = d} =
            IF Live(d) THEN {rows[d].rec} \ {None} ELSE {}
  BY <1>1, <1>3, <1>4
<1>7. QED
  BY <1>4, <1>5, <1>6 DEF Wanted

LEMMA RoutedInit == Init => Routed
<1> SUFFICES ASSUME Init PROVE Routed
  OBVIOUS
<1>0. 1 \in Domain /\ 1 \in Record /\ None # 1 /\ None \notin Domain
  BY DomainBoundsOK DEF Domain, Record, None
<1>1. PICK n \in Fqdn, t \in App, given \in BOOLEAN :
          /\ rows = [d \in Domain |-> IF given /\ d = 1
                      THEN [st |-> "live", name |-> n, target |-> t,
                            route |-> "app", rec |-> 1] ELSE NoRow]
          /\ zone = [m \in Record |-> IF given /\ m = 1
                      THEN [st |-> "there", dom |-> 1, acct |-> "project"] ELSE NoRecord]
          /\ ingress = [d \in Domain |-> IF given /\ d = 1 THEN "app" ELSE "none"]
  BY DEF Init, RouteInit
<1>2. /\ pending = {} /\ torn = {} /\ excused = {} /\ live = App \cup Database
      /\ \A r \in Request : req[r] = Idle
  BY DEF Init, RouteInit, TargetsInit
<1>3. \A r \in Request : /\ req[r].at = "idle" /\ req[r].dom = None /\ req[r].rec = None
                         /\ req[r].read = {} /\ req[r].todo = {}
  BY <1>2 DEF Idle
<1>4. Requested
  BY <1>3 DEF Requested, Private, Started, Torn, Known, Making, Adding, Removing, Writing
<1>5. ASSUME NEW d \in Domain PROVE Right(d)
  <2>1. \A q \in Request : ~Writes(q, d)
    BY <1>3 DEF Writes, Writing
  <2>2. CASE given /\ d = 1
    <3>1. /\ rows[d] = [st |-> "live", name |-> n, target |-> t, route |-> "app", rec |-> 1]
          /\ zone[1] = [st |-> "there", dom |-> 1, acct |-> "project"]
          /\ \A m \in Record \ {1} : zone[m].st = "none"
          /\ ingress[d] = "app" /\ t \notin Database
      BY <1>0, <1>1, <2>2, TargetsDisjoint DEF NoRecord
    <3>2. There(1) /\ Traced(d)
      BY <1>0, <3>1, <2>2 DEF There, Traced, Live
    <3>3. Matching(d)
      BY <1>2, <2>1, <2>2, <3>1, <3>2 DEF Matching, Live, Shown, Wanted, Proxied, Intact
    <3>4. QED
      BY <2>2, <3>1, <3>3 DEF Right, Known
  <2>3. CASE ~(given /\ d = 1)
    <3>1. rows[d] = NoRow /\ ingress[d] = "none" /\ \A m \in Record : There(m) => zone[m].dom # d
      BY <1>0, <1>1, <2>3 DEF There, NoRecord
    <3>2. Matching(d)
      BY <1>2, <2>1, <3>1 DEF Matching, NoRow, Live, Traced
    <3>3. QED
      BY <3>1, <3>2 DEF Right, Known, NoRow
  <2>4. QED
    BY <2>2, <2>3
<1>6. Blank
  BY <1>1 DEF Blank, NoRecord
<1>7. QED
  BY <1>4, <1>5, <1>6 DEF Routed

LEMMA RequestFields ==
    ASSUME TypeOK
    PROVE  /\ req \in [Request -> RequestState] /\ rows \in [Domain -> DomainRow]
           /\ zone \in [Record -> DnsRecord] /\ None \notin Domain /\ None \notin Record
           /\ \A r \in Request :
                 /\ req[r].at \in Stage /\ req[r].dom \in Domain \cup {None}
                 /\ req[r].rec \in Record \cup {None}
                 /\ req[r].todo \in SUBSET (Domain \X (Record \cup {None}))
                 /\ \A x \in req[r].read : x[1] \in Domain /\ x[2] \in Record \cup {None}
           /\ \A d \in Domain : /\ rows[d].rec \in Record \cup {None} /\ rows[d].route \in Route
                                /\ rows[d].st \in {"none", "live", "gone"}
           /\ \A n \in Record : zone[n].st \in {"none", "there", "gone"}
<1>1. /\ req \in [Request -> RequestState] /\ rows \in [Domain -> DomainRow]
      /\ zone \in [Record -> DnsRecord] /\ None \notin Domain /\ None \notin Record
  BY DEF TypeOK, RouteTyped, Domain, Record, None
<1>2. ASSUME NEW r \in Request
      PROVE  /\ req[r].at \in Stage /\ req[r].dom \in Domain \cup {None}
             /\ req[r].rec \in Record \cup {None}
             /\ req[r].todo \in SUBSET (Domain \X (Record \cup {None}))
             /\ \A x \in req[r].read : x[1] \in Domain /\ x[2] \in Record \cup {None}
  <2>1. req[r] \in RequestState
    BY <1>1
  <2>2. QED
    BY <2>1 DEF RequestState
<1>3. ASSUME NEW d \in Domain
      PROVE  /\ rows[d].rec \in Record \cup {None} /\ rows[d].route \in Route
             /\ rows[d].st \in {"none", "live", "gone"}
  BY <1>1 DEF DomainRow
<1>4. ASSUME NEW n \in Record
      PROVE  zone[n].st \in {"none", "there", "gone"}
  BY <1>1 DEF DnsRecord
<1>5. QED
  BY <1>1, <1>2, <1>3, <1>4

\* A request that goes on keeps what it has read; one that ends knows nothing.
LEMMA GoesOn ==
    ASSUME TypeOK, NEW r \in Request, NEW l, Goto(r, l)
    PROVE  /\ req'[r].at = l
           /\ req'[r].dom = req[r].dom /\ req'[r].target = req[r].target
           /\ req'[r].route = req[r].route /\ req'[r].rec = req[r].rec
           /\ req'[r].targets = req[r].targets /\ req'[r].read = req[r].read
           /\ req'[r].todo = req[r].todo
           /\ \A q \in Request \ {r} : req'[q] = req[q]
BY DEF TypeOK, RouteTyped, RequestState, Goto

LEMMA Ends ==
    ASSUME TypeOK, NEW r \in Request, End(r)
    PROVE  /\ req'[r].at = "idle" /\ req'[r].dom = None /\ req'[r].rec = None
           /\ req'[r].read = {} /\ req'[r].todo = {}
           /\ \A q \in Request \ {r} : req'[q] = req[q]
BY DEF TypeOK, RouteTyped, Idle, End

\* A request that is idle, or is about targets and not a domain, has nothing to keep.
LEMMA EndedKeeps ==
    ASSUME NEW r \in Request, req'[r].dom = None, req'[r].rec = None,
           req'[r].at \notin Adding \cup Removing \cup Writing,
           req'[r].read = {}, req'[r].todo = {}
    PROVE  Private(r)' /\ Started(r)' /\ Torn(r)'
BY DEF Private, Started, Torn, Known, Making, Adding, Removing, Writing

\* What a step of request r leaves alone
RowKept(r, d) ==
    /\ rows'[d].rec \in {rows[d].rec, req[r].rec}
    /\ rows[d].st # "none" => /\ rows'[d].st \in {rows[d].st, "gone"}
                              /\ rows'[d].target = rows[d].target
    /\ rows[d].st = "none" => rows'[d] = rows[d] \/ (d = req[r].dom /\ req[r].at \in Adding)
    /\ \/ rows'[d].route = rows[d].route
       \/ d = req[r].dom /\ req[r].at \in Adding \cup {"editRow"}

RecordKept(r, n) ==
    \/ zone'[n] = zone[n]
    \/ zone[n].st = "none" /\ zone'[n].st = "there"
    \/ /\ zone'[n].dom = zone[n].dom /\ zone'[n].st = "gone"
       /\ n = req[r].rec \/ \E x \in req[r].read : x[2] = n

Learnt(r) ==
    /\ \/ req'[r].dom \in {req[r].dom, None} \cup Unused
       \/ req'[r].dom \in Domain /\ Live(req'[r].dom)
    /\ \/ req'[r].rec \in {req[r].rec, None} \cup Fresh
       \/ \E d \in Domain : req'[r].rec = rows[d].rec
    /\ \A x \in req'[r].read :
        x \in req[r].read \/ (x[1] \in Domain /\ x[2] = rows[x[1]].rec)

Steps(r) ==
    /\ \A q \in Request \ {r} : req'[q] = req[q]
    /\ \A d \in Domain : RowKept(r, d)
    /\ \A n \in Record : RecordKept(r, n)
    /\ torn \subseteq torn' /\ excused \subseteq excused'
    /\ Learnt(r)

\* The other requests find things as they left them.
LEMMA OthersKeep ==
    ASSUME TypeOK, Routed, NEW r \in Request, Steps(r), NEW p \in Request \ {r}
    PROVE  Private(p)' /\ Started(p)' /\ Torn(p)'
<1>0. /\ Private(p) /\ Started(p) /\ Torn(p) /\ Started(r)
      /\ req'[p] = req[p] /\ \A q \in Request \ {r} : req'[q] = req[q]
      /\ torn \subseteq torn' /\ excused \subseteq excused'
  BY DEF Routed, Requested, Steps
<1>1. \A n \in Record : RecordKept(r, n)
  BY DEF Steps
<1>2. \A d \in Domain : RowKept(r, d)
  BY DEF Steps
<1>3. \A n \in Record \cup {None} : \A d : Known(n, d) => Known(n, d)'
  BY <1>1, RequestFields DEF RecordKept, Known
<1>4. \A n \in Record \cup {None} : \A d : Known(n, d) /\ ~There(n) => ~There(n)'
  BY <1>1, RequestFields DEF RecordKept, Known, There
<1>5. Private(p)'
  <2> SUFFICES ASSUME req[p].at \in Making, req[p].rec # None
               PROVE  /\ There(req[p].rec)'
                      /\ \A d \in Domain : rows'[d].rec # req[p].rec
                      /\ \A q \in Request : /\ q # p => req'[q].rec # req[p].rec
                                            /\ \A x \in req'[q].read : x[2] # req[p].rec
    BY <1>0, Zenon DEF Private
  <2>0. /\ There(req[p].rec) /\ req[p].rec \in Record
        /\ \A d \in Domain : rows[d].rec # req[p].rec
        /\ \A q \in Request : /\ q # p => req[q].rec # req[p].rec
                              /\ \A x \in req[q].read : x[2] # req[p].rec
    BY <1>0, RequestFields DEF Private
  <2>1. There(req[p].rec)'
    BY <1>0, <1>1, <2>0, RequestFields DEF RecordKept, There
  <2>2. \A d \in Domain : rows'[d].rec # req[p].rec
    BY <1>2, <2>0 DEF RowKept
  <2>3. req[p].rec \notin Fresh
    BY <2>0 DEF There, Fresh
  <2>4. Learnt(r)
    BY DEF Steps
  <2>5. req'[r].rec # req[p].rec /\ \A x \in req'[r].read : x[2] # req[p].rec
    BY <2>0, <2>3, <2>4 DEF Learnt
  <2>6. QED
    BY <1>0, <2>0, <2>1, <2>2, <2>5
<1>6. Torn(p)'
  <2>1. ASSUME NEW x \in req[p].read
        PROVE  /\ Known(x[2], x[1])'
               /\ rows'[x[1]].st # "none" /\ rows'[x[1]].target \in req[p].targets
               /\ x \notin req[p].todo => x[1] \in torn' /\ (x[1] \in excused' \/ ~There(x[2])')
    <3>1. /\ x[1] \in Domain /\ x[2] \in Record \cup {None} /\ Known(x[2], x[1])
          /\ rows[x[1]].st # "none" /\ rows[x[1]].target \in req[p].targets
          /\ x \notin req[p].todo => x[1] \in torn /\ (x[1] \in excused \/ ~There(x[2]))
      BY <1>0, RequestFields DEF Torn
    <3>2. Known(x[2], x[1])'
      BY <1>3, <3>1
    <3>3. rows'[x[1]].st # "none" /\ rows'[x[1]].target \in req[p].targets
      BY <1>2, <3>1 DEF RowKept
    <3>4. ~There(x[2]) => ~There(x[2])'
      BY <1>4, <3>1
    <3>5. QED
      BY <1>0, <3>1, <3>2, <3>3, <3>4
  <2>2. req[p].todo \subseteq req[p].read
    BY <1>0 DEF Torn
  <2>3. QED
    BY <1>0, <2>1, <2>2 DEF Torn
<1>7. Started(p)'
  <2> DEFINE d == req[p].dom
             at == req[p].at
  <2>0. d \in Domain \cup {None} /\ req[p].rec \in Record \cup {None} /\ at \in Stage
        /\ Known(req[p].rec, d)
    BY <1>0, RequestFields DEF Started
  <2>1. Known(req[p].rec, d)'
    BY <1>0, <1>3, <2>0
  <2>2. at \in Adding \cup Removing \cup Writing => d # None
    BY <1>0 DEF Started
  <2>3. at \in Adding => /\ rows'[d].st = "none"
                         /\ \A q \in Request \ {p} : req'[q].dom # d
    <3> SUFFICES ASSUME at \in Adding
                 PROVE  rows'[d].st = "none" /\ \A q \in Request \ {p} : req'[q].dom # d
      OBVIOUS
    <3>1. /\ d \in Domain /\ rows[d].st = "none" /\ \A q \in Request \ {p} : req[q].dom # d
      BY <1>0, <2>0 DEF Started
    <3>2. rows'[d] = rows[d]
      BY <1>2, <3>1 DEF RowKept
    <3>3. d \notin Unused /\ ~Live(d)
      BY <3>1 DEF Unused, Untouched, Live
    <3>4. req'[r].dom # d
      BY <3>1, <3>3, RequestFields DEF Learnt, Steps
    <3>5. QED
      BY <1>0, <3>1, <3>2, <3>4
  <2>4. at \notin Adding /\ d # None => rows[d].st # "none" /\ rows'[d].st # "none"
                                         /\ rows'[d].target = rows[d].target
    BY <1>0, <1>2, <2>0 DEF Started, RowKept
  <2>5. at = "removeRow" => ~There(req[p].rec)'
    BY <1>0, <1>4, <2>0 DEF Started
  <2>6. ASSUME at \in {"addIngress", "checkDns", "checkIngress", "checkRow"},
               Live(d)', d \notin excused'
        PROVE  req[p].route = rows'[d].route
    <3>1. at \in Writing /\ at \notin Adding /\ d \in Domain
      BY <2>0, <2>2, <2>6 DEF Writing, Adding
    <3>2. Live(d) /\ d \notin excused /\ req[p].route = rows[d].route
      BY <1>0, <1>2, <2>4, <2>6, <3>1 DEF Live, RowKept, Started
    <3>3. Matching(d) /\ Writes(p, d)
      BY <3>1, <3>2 DEF Routed, Right, Writes
    <3>4. ~(d = req[r].dom /\ req[r].at \in Adding \cup {"editRow"})
      BY <1>0, <3>2, <3>3 DEF Matching, Writes, Writing, Started, Live
    <3>5. QED
      BY <1>2, <3>1, <3>2, <3>4 DEF RowKept
  <2>7. Writing \cap Adding = {} /\ Removing \cap Adding = {}
    BY DEF Writing, Adding, Removing
  <2>8. QED
    BY <1>0, <2>0, <2>1, <2>2, <2>3, <2>4, <2>5, <2>6, <2>7 DEF Started
<1>8. QED
  BY <1>5, <1>6, <1>7

\* A step of request r has nothing to do with domain e
Spares(r, e) ==
    /\ \A q \in Request \ {r} : req'[q] = req[q]
    /\ req[r].dom # e /\ req'[r].dom # e
    /\ rows'[e] = rows[e] /\ ingress'[e] = ingress[e]
    /\ (e \in pending' <=> e \in pending) /\ (e \in torn' <=> e \in torn)
    /\ e \in excused => e \in excused'
    /\ e \notin excused' => \/ ~Live(e)
                            \/ rows[e].target \in live \cup {NoTarget}
                                    => rows[e].target \in live' \cup {NoTarget}
    /\ \A x \in req[r].read \ req[r].todo : req[r].at = "tearDown" /\ x[1] = e
            => req'[r].at = "tearDown" /\ x \in req'[r].read \ req'[r].todo
    /\ \A n \in Record : zone[n].dom = e \/ zone'[n].dom = e => zone'[n] = zone[n]

LEMMA SparedKeeps ==
    ASSUME TypeOK, NEW r \in Request, NEW e \in Domain, Right(e), Spares(r, e)
    PROVE  Right(e)'
<1>0. /\ \A q \in Request \ {r} : req'[q] = req[q]
      /\ req[r].dom # e /\ req'[r].dom # e
      /\ rows'[e] = rows[e] /\ ingress'[e] = ingress[e]
      /\ (e \in pending' <=> e \in pending) /\ (e \in torn' <=> e \in torn)
      /\ e \in excused => e \in excused'
      /\ \A n \in Record : zone[n].dom = e \/ zone'[n].dom = e => zone'[n] = zone[n]
  BY DEF Spares
<1>1. Known(rows[e].rec, e)'
  BY <1>0, RequestFields DEF Right, Known
<1>2. \A q \in Request : Writes(q, e) <=> Writes(q, e)'
  BY <1>0 DEF Writes
<1>3. Live(e)' <=> Live(e)
  BY <1>0 DEF Live
<1>4. ASSUME e \notin excused'
      PROVE  Matching(e)'
  <2>1. Matching(e)
    BY <1>0, <1>4 DEF Right
  <2>2. Live(e) /\ Ending(e) => Ending(e)'
    BY <1>0 DEF Ending, Spares
  <2>3. Intact(e) => Intact(e)'
    BY <1>0, RequestFields DEF There, Right, Known, Intact
  <2>4. Traced(e) => Traced(e)'
    <3> SUFFICES ASSUME Traced(e), NEW n \in Record, There(n)', zone'[n].dom = e
                 PROVE  \/ Live(e) /\ rows[e].rec = n
                        \/ \E q \in Request : req'[q].dom = e /\ req'[q].at \in Making
                                              /\ req'[q].rec = n
      BY <1>0, <1>3 DEF Traced
    <3>1. There(n) /\ zone[n].dom = e
      BY <1>0 DEF There
    <3>2. CASE \E q \in Request : req[q].dom = e /\ req[q].at \in Making /\ req[q].rec = n
      BY <1>0, <3>2
    <3>3. QED
      BY <3>1, <3>2 DEF Traced
  <2>5. Shown(e) => Shown(e)'
    <3>1. \A q \in Request : Writes(q, e) => req'[q] = req[q]
      BY <1>0 DEF Writes
    <3>2. QED
      BY <1>0, <1>2, <3>1 DEF Shown
  <2>6. \A q, p \in Request : Writes(q, e)' /\ Writes(p, e)' => q = p
    BY <1>2, <2>1 DEF Matching
  <2>7. Live(e) => rows[e].target \in live' \cup {NoTarget}
    BY <1>4, <2>1 DEF Matching, Spares
  <2>8. Live(e)' => \/ Ending(e)'
                    \/ e \notin torn' /\ Intact(e)'
    BY <1>0, <1>3, <2>1, <2>2, <2>3 DEF Matching
  <2>9. QED
    BY <1>0, <1>3, <2>1, <2>4, <2>5, <2>6, <2>7, <2>8 DEF Matching
<1>5. QED
  BY <1>0, <1>1, <1>4 DEF Right

\* The step of a request, with what it does to the domain it is about.
LEMMA RoutedStep ==
    ASSUME TypeOK, Routed, NEW r \in Request, Steps(r),
           Private(r)', Started(r)', Torn(r)',
           \A e \in Domain : Spares(r, e) \/ Right(e)'
    PROVE  Routed'
<1>1. Requested'
  BY OthersKeep DEF Requested
<1>2. ASSUME NEW e \in Domain PROVE Right(e)'
  BY <1>2, SparedKeeps DEF Routed
<1>3. Blank'
  BY RequestFields DEF Routed, Blank, Steps, RecordKept
<1>4. QED
  BY <1>1, <1>2, <1>3 DEF Routed

\* The steps that change nothing but the request.
LEMMA RoutedQuiet ==
    ASSUME TypeOK, Routed, NEW r \in Request,
           UNCHANGED <<rows, zone, ingress, pending, torn, live>>, excused \subseteq excused',
           \A q \in Request \ {r} : req'[q] = req[q], Learnt(r),
           Private(r)', Started(r)', Torn(r)',
           req[r].at # "tearDown",
           \A e \in Domain : e \in {req[r].dom, req'[r].dom} => Right(e)'
    PROVE  Routed'
<1>1. Steps(r)
  BY DEF Steps, RowKept, RecordKept
<1>2. \A e \in Domain : e \notin {req[r].dom, req'[r].dom} => Spares(r, e)
  BY DEF Spares
<1>3. QED
  BY <1>1, <1>2, RoutedStep

\* A domain whose requests change, and nothing else of it.
LEMMA QuietDomain ==
    ASSUME TypeOK, NEW d \in Domain, Right(d),
           UNCHANGED <<rows, zone, ingress, pending, torn, live>>, excused \subseteq excused',
           d \notin excused' /\ Matching(d) =>
               /\ \A q, p \in Request : Writes(q, d)' /\ Writes(p, d)' => q = p
               /\ Live(d) /\ Ending(d) => Ending(d)'
               /\ Live(d) /\ d \notin torn => Shown(d)'
               /\ Traced(d)'
    PROVE  Right(d)'
<1>1. Known(rows[d].rec, d)' /\ (Intact(d) => Intact(d)') /\ (Live(d)' <=> Live(d))
  BY DEF Right, Known, Intact, There, Live
<1>2. d \notin excused' => Matching(d)'
  BY <1>1 DEF Right, Matching
<1>3. QED
  BY <1>1, <1>2 DEF Right

LEMMA RoutedAskAdd ==
    ASSUME TypeOK, Routed, NEW r \in Request, NEW n \in Fqdn, NEW t \in Target, NEW k \in Route,
           AskAdd(r, n, t, k)
    PROVE  Routed'
<1>1. PICK d \in Unused :
          req' = [req EXCEPT ![r] =
            [Idle EXCEPT !.at = IF Account(t) = "project" THEN "addDns" ELSE "addRow",
                         !.dom = d, !.name = n, !.target = t, !.route = k,
                         !.acct = Account(t)]]
  BY DEF AskAdd
<1>2. /\ d \in Domain /\ rows[d].st = "none" /\ d \notin excused
      /\ \A q \in Request : req[q].dom # d
      /\ \A m \in Record : zone[m].dom # d
  BY DEF Unused, Untouched
<1>3. /\ req[r] = Idle /\ k \in RoutesOf(t)
      /\ UNCHANGED <<rows, zone, ingress, pending, torn, live, excused>>
  BY DEF AskAdd
<1>4. /\ \A q \in Request \ {r} : req'[q] = req[q]
      /\ req'[r].at \in Adding /\ req'[r].dom = d /\ req'[r].target = t /\ req'[r].route = k
      /\ req'[r].rec = None /\ req'[r].read = {} /\ req'[r].todo = {}
      /\ req[r].at = "idle" /\ req[r].dom = None
  BY <1>1, <1>3, RequestFields DEF Idle, Adding
<1>5. Adding \cap Writing = {} /\ Adding \cap Removing = {}
  BY DEF Adding, Writing, Removing
<1>6. t \in Database => k = "static"
  BY <1>3, TargetsDisjoint DEF RoutesOf
<1>7. Private(r)' /\ Started(r)' /\ Torn(r)'
  BY <1>2, <1>3, <1>4, <1>5, <1>6 DEF Private, Started, Torn, Known, There, Adding, Removing
<1>8. Learnt(r)
  BY <1>4 DEF Learnt
<1>9. Right(d)'
  <2>1. Right(d) /\ ~Live(d)
    BY <1>2 DEF Routed, Live
  <2>2. \A q \in Request : ~Writes(q, d)'
    BY <1>2, <1>4, <1>5 DEF Writes
  <2>3. Traced(d)'
    BY <1>2, <1>3 DEF Traced
  <2>4. QED
    BY <1>2, <1>3, <2>1, <2>2, <2>3, QuietDomain
<1>10. QED
  BY <1>3, <1>4, <1>7, <1>8, <1>9, RequestFields, RoutedQuiet

\* Another writer of the domain is a named mishap.
LEMMA RoutedAskWrite ==
    ASSUME TypeOK, Routed, NEW r \in Request, NEW d \in Domain,
           AskVerify(r, d) \/ \E k \in Route : AskUpdate(r, d, k)
    PROVE  Routed'
<1>1. /\ req[r] = Idle /\ Live(d)
      /\ UNCHANGED <<rows, zone, ingress, pending, torn, live>> /\ ExcuseIf(Contended(d, r), d)
  BY DEF AskVerify, AskUpdate
<1>2. /\ \A q \in Request \ {r} : req'[q] = req[q]
      /\ req'[r].dom = d /\ req'[r].rec = None /\ req'[r].read = {} /\ req'[r].todo = {}
      /\ \/ req'[r].at = "checkDns" /\ req'[r].route = rows[d].route
         \/ req'[r].at = "editIngress" /\ rows[d].target \notin Database
  <2>1. CASE AskVerify(r, d)
    BY <2>1, RequestFields DEF AskVerify, Idle
  <2>2. ASSUME NEW k \in Route, AskUpdate(r, d, k)
        PROVE  /\ \A q \in Request \ {r} : req'[q] = req[q]
               /\ req'[r].dom = d /\ req'[r].rec = None /\ req'[r].read = {} /\ req'[r].todo = {}
               /\ req'[r].at = "editIngress" /\ rows[d].target \notin Database
    BY <2>2, RequestFields DEF AskUpdate, Idle
  <2>3. QED
    BY <2>1, <2>2
<1>3. req[r].at = "idle" /\ req[r].dom = None
  BY <1>1 DEF Idle
<1>4. excused \subseteq excused' /\ (d \notin excused' => ~Contended(d, r))
  BY <1>1 DEF ExcuseIf, Excuse
<1>5. Right(d) /\ rows[d].st = "live"
  BY <1>1 DEF Routed, Live
<1>6. Private(r)'
  BY <1>2 DEF Private
<1>7. Started(r)'
  BY <1>1, <1>2, <1>5, RequestFields DEF Started, Known, Adding, Removing, Writing, Right
<1>8. Torn(r)' /\ Learnt(r)
  BY <1>1, <1>2 DEF Torn, Learnt
<1>9. Right(d)'
  <2> SUFFICES ASSUME d \notin excused', Matching(d)
               PROVE  /\ \A q, p \in Request : Writes(q, d)' /\ Writes(p, d)' => q = p
                      /\ Live(d) /\ Ending(d) => Ending(d)'
                      /\ Live(d) /\ d \notin torn => Shown(d)'
                      /\ Traced(d)'
    BY <1>1, <1>4, <1>5, QuietDomain
  <2>1. \A q \in Request \ {r} : ~Writes(q, d) /\ ~Writes(q, d)'
    BY <1>2, <1>4 DEF Contended, Writes
  <2>2. ~Writes(r, d)
    BY <1>3, RequestFields DEF Writes
  <2>3. Ending(d) => Ending(d)'
    BY <1>1, <1>2, <1>3 DEF Ending
  <2>4. d \notin torn => ingress[d] = Wanted(rows[d].route)
    BY <1>1, <2>1, <2>2 DEF Matching, Shown
  <2>5. d \notin torn => Shown(d)'
    BY <1>1, <1>2, <2>1, <2>4 DEF Shown, Writes
  <2>6. Traced(d)'
    BY <1>1, <1>2, <1>3 DEF Matching, Traced, There, Live, Making
  <2>7. QED
    BY <2>1, <2>3, <2>5, <2>6
<1>10. QED
  BY <1>1, <1>2, <1>3, <1>4, <1>6, <1>7, <1>8, <1>9, RequestFields, RoutedQuiet

LEMMA RoutedAskRemove ==
    ASSUME TypeOK, Routed, NEW r \in Request, NEW d \in Domain, AskRemove(r, d)
    PROVE  Routed'
<1>1. /\ req[r] = Idle /\ Live(d)
      /\ UNCHANGED <<rows, zone, ingress, pending, torn, live, excused>>
  BY DEF AskRemove
<1>2. /\ \A q \in Request \ {r} : req'[q] = req[q]
      /\ req'[r].at = "removeDns" /\ req'[r].dom = d /\ req'[r].rec = rows[d].rec
      /\ req'[r].target = rows[d].target /\ req'[r].read = {} /\ req'[r].todo = {}
  BY RequestFields DEF AskRemove, Idle
<1>3. req[r].at = "idle" /\ req[r].dom = None
  BY <1>1 DEF Idle
<1>4. Right(d) /\ rows[d].st = "live"
  BY <1>1 DEF Routed, Live
<1>5. Private(r)' /\ Torn(r)' /\ Learnt(r)
  BY <1>1, <1>2 DEF Private, Making, Torn, Learnt
<1>6. Started(r)'
  BY <1>1, <1>2, <1>4, RequestFields DEF Started, Known, Adding, Removing, Writing, Right
<1>7. \A q \in Request : Writes(q, d) <=> Writes(q, d)'
  BY <1>2, <1>3 DEF Writes, Writing
<1>8. Right(d)'
  <2>1. Ending(d) => Ending(d)'
    BY <1>1, <1>2, <1>3 DEF Ending
  <2>2. Shown(d) => Shown(d)'
    <3>1. \A q \in Request : Writes(q, d) => req'[q] = req[q]
      BY <1>2, <1>3 DEF Writes, Writing
    <3>2. QED
      BY <1>1, <1>7, <3>1 DEF Shown
  <2>3. Traced(d) => Traced(d)'
    BY <1>1, <1>2, <1>3 DEF Traced, There, Live, Making
  <2>4. QED
    BY <1>1, <1>4, <1>7, <2>1, <2>2, <2>3, QuietDomain DEF Matching
<1>9. QED
  BY <1>1, <1>2, <1>3, <1>5, <1>6, <1>8, RequestFields, RoutedQuiet

\* Requests that delete targets: they are about no domain yet.
LEMMA RoutedAskDrop ==
    ASSUME TypeOK, Routed, NEW r \in Request,
           \/ \E t \in live : AskDrop(r, t)
           \/ \E i \in App : AskCloseBranch(r, i)
           \/ AskDropProject(r)
           \/ ReadDomains(r)
    PROVE  Routed'
<1> DEFINE AskedOnly ==
        /\ \A q \in Request \ {r} : req'[q] = req[q]
        /\ req'[r].dom = req[r].dom /\ req'[r].rec = req[r].rec
        /\ req'[r].at \in {"purge", "branch", "tearDown"}
        /\ req'[r].todo = req'[r].read
        /\ req'[r].read \subseteq DomainsOf(req'[r].targets)
<1>1. /\ UNCHANGED <<rows, zone, ingress, pending, torn, live, excused>>
      /\ req[r] = Idle \/ req[r].at = "purge"
  BY DEF AskDrop, AskCloseBranch, AskDropProject, ReadDomains
<1>2. req[r].at \in {"idle", "purge"}
  BY <1>1 DEF Idle
<1>3. AskedOnly
  <2>1. ASSUME NEW t \in live, AskDrop(r, t) PROVE AskedOnly
    BY <2>1, RequestFields DEF AskDrop, Idle
  <2>2. ASSUME NEW i \in App, AskCloseBranch(r, i) PROVE AskedOnly
    BY <2>2, RequestFields DEF AskCloseBranch, Idle
  <2>3. CASE AskDropProject(r)
    BY <2>3, RequestFields DEF AskDropProject, Idle
  <2>4. CASE ReadDomains(r)
    BY <2>4, RequestFields DEF ReadDomains, RequestState
  <2>5. QED
    BY <2>1, <2>2, <2>3, <2>4
<1>4. \A x \in req'[r].read : /\ x[1] \in Domain /\ x[2] = rows[x[1]].rec
                              /\ Live(x[1]) /\ rows[x[1]].target \in req'[r].targets
  BY <1>3 DEF DomainsOf, On
<1>5. Learnt(r)
  BY <1>3, <1>4 DEF Learnt
<1>6. Torn(r)'
  BY <1>1, <1>3, <1>4 DEF Torn, Routed, Right, Known, Live
<1>7. Private(r)' /\ Started(r)'
  BY <1>1, <1>2, <1>3 DEF Routed, Requested, Private, Started, Known, Making, Adding, Removing,
     Writing
<1>8. ASSUME NEW d \in Domain, d = req[r].dom
      PROVE  Right(d)'
  <2>0. Right(d)
    BY DEF Routed
  <2>1. Ending(d) => Ending(d)'
    BY <1>1, <1>2, <1>3 DEF Ending
  <2>2. \A q \in Request : (Writes(q, d) <=> Writes(q, d)') /\ (Writes(q, d) => req'[q] = req[q])
    BY <1>2, <1>3 DEF Writes, Writing
  <2>3. Shown(d) => Shown(d)'
    BY <1>1, <2>2 DEF Shown
  <2>4. Traced(d) => Traced(d)'
    BY <1>1, <1>2, <1>3 DEF Traced, There, Live, Making
  <2>5. QED
    BY <1>1, <2>0, <2>1, <2>2, <2>3, <2>4, QuietDomain DEF Matching
<1>9. QED
  BY <1>1, <1>2, <1>3, <1>5, <1>6, <1>7, <1>8, RoutedQuiet

\* The record is the request's own until a row has its id.
LEMMA RoutedCreate ==
    ASSUME TypeOK, Routed, NEW r \in Request, CreateRecord(r)
    PROVE  Routed'
<1>a. /\ Private(r) /\ Started(r) /\ Torn(r) /\ req[r].at \in {"addDns", "checkDns"}
      /\ req[r].dom \in Domain
      /\ UNCHANGED <<live, rows, ingress, pending, torn, excused>>
  BY RequestFields DEF CreateRecord, Routed, Requested, Started, Adding, Removing, Writing
<1>b. PICK d \in Domain : d = req[r].dom
  BY <1>a
<1>0. /\ Private(r) /\ Started(r) /\ Torn(r) /\ req[r].at \in {"addDns", "checkDns"}
      /\ d = req[r].dom /\ Right(d)
      /\ UNCHANGED <<live, rows, ingress, pending, torn, excused>>
  BY <1>a, <1>b DEF Routed
<1>1. PICK m \in Fresh :
          /\ zone' = [zone EXCEPT ![m] = [st |-> "there", dom |-> d, acct |-> req[r].acct]]
          /\ req' = [req EXCEPT ![r].rec = m,
                ![r].at = IF req[r].at = "addDns" THEN "addRow" ELSE "checkIngress"]
  BY <1>0 DEF CreateRecord
<1>2. m \in Record /\ m # None /\ zone[m].st = "none"
  BY RequestFields DEF Fresh
<1>3. /\ zone'[m].st = "there" /\ zone'[m].dom = d
      /\ \A n \in Record \ {m} : zone'[n] = zone[n]
  BY <1>1, <1>2, RequestFields
<1>4. /\ \A q \in Request \ {r} : req'[q] = req[q]
      /\ req'[r].at = IF req[r].at = "addDns" THEN "addRow" ELSE "checkIngress"
      /\ req'[r].rec = m /\ req'[r].dom = d /\ req'[r].target = req[r].target
      /\ req'[r].route = req[r].route /\ req'[r].read = req[r].read
      /\ req'[r].todo = req[r].todo /\ req'[r].targets = req[r].targets
  <2>1. \A l : req' = [req EXCEPT ![r].rec = m, ![r].at = l] =>
            /\ \A q \in Request \ {r} : req'[q] = req[q]
            /\ req'[r].at = l /\ req'[r].rec = m /\ req'[r].dom = req[r].dom
            /\ req'[r].target = req[r].target /\ req'[r].route = req[r].route
            /\ req'[r].read = req[r].read /\ req'[r].todo = req[r].todo
            /\ req'[r].targets = req[r].targets
    BY RequestFields DEF RequestState
  <2>2. QED
    BY <1>0, <1>1, <2>1
\* Nobody knows of the record
<1>5. /\ \A e \in Domain : rows[e].rec # m
      /\ \A q \in Request : req[q].rec # m /\ \A x \in req[q].read : x[2] # m
  BY <1>2, RequestFields DEF Routed, Requested, Right, Started, Torn, Known
<1>6. Steps(r)
  BY <1>0, <1>1, <1>2, <1>3, <1>4 DEF Steps, RowKept, RecordKept, Learnt
<1>7. Private(r)'
  BY <1>0, <1>2, <1>3, <1>4, <1>5 DEF Private, There
<1>8. Torn(r)'
  <2>1. \A x \in req[r].read : (Known(x[2], x[1]) => Known(x[2], x[1])')
                               /\ (~There(x[2]) => ~There(x[2])')
    BY <1>3, <1>5, RequestFields DEF Known, There
  <2>2. QED
    BY <1>0, <1>4, <2>1 DEF Torn
<1>9. Started(r)'
  <2>1. Known(m, d)'
    BY <1>2, <1>3 DEF Known
  <2>2. CASE req[r].at = "addDns"
    BY <1>0, <1>4, <2>1, <2>2 DEF Started, Adding, Removing, Writing
  <2>3. CASE req[r].at = "checkDns"
    BY <1>0, <1>4, <2>1, <2>3 DEF Started, Adding, Removing, Writing, Live
  <2>4. QED
    BY <1>0, <2>2, <2>3
<1>10. \A e \in Domain : e # d => Spares(r, e)
  BY <1>0, <1>2, <1>3, <1>4, RequestFields DEF Spares, Routed, Blank
<1>11. Right(d)'
  <2>1. Known(rows[d].rec, d)' /\ (Intact(d) => Intact(d)')
    BY <1>0, <1>3, <1>5, RequestFields DEF Right, Known, Intact, There
  <2>2. \A q \in Request : (Writes(q, d)' => Writes(q, d) \/ req[r].at = "addDns")
                           /\ (Writes(q, d) => Writes(q, d)')
    BY <1>0, <1>4 DEF Writes, Writing
  <2>3. CASE req[r].at = "addDns"
    <3>1. /\ ~Live(d) /\ \A q \in Request \ {r} : req[q].dom # d
          /\ rows[d].st = "none"
      BY <1>0, <2>3 DEF Started, Adding, Live
    <3>2. \A q \in Request : ~Writes(q, d)'
      BY <1>4, <2>3, <3>1 DEF Writes, Writing
    <3>3. Traced(d) => Traced(d)'
      BY <1>0, <1>3, <1>4, <2>3, <3>1 DEF Traced, There, Making
    <3>4. Matching(d) => Matching(d)'
      BY <1>0, <3>1, <3>2, <3>3 DEF Matching, Live
    <3>5. QED
      BY <1>0, <2>1, <3>4 DEF Right
  <2>4. CASE req[r].at = "checkDns"
    <3>1. \A q \in Request : Writes(q, d) <=> Writes(q, d)'
      BY <2>2, <2>4
    <3>2. Shown(d) => Shown(d)'
      <4>1. \A q \in Request : /\ req'[q].route = req[q].route
                               /\ \/ req'[q].at = req[q].at
                                  \/ req[q].at = "checkDns" /\ req'[q].at = "checkIngress"
        BY <1>4, <2>4
      <4>2. QED
        BY <1>0, <3>1, <4>1 DEF Shown
    <3>3. Ending(d) => Ending(d)'
      BY <1>0, <1>4, <2>4 DEF Ending
    <3>4. Traced(d) => Traced(d)'
      <4> SUFFICES ASSUME Traced(d), NEW n \in Record, There(n)', zone'[n].dom = d
                   PROVE  \/ Live(d) /\ rows[d].rec = n
                          \/ \E q \in Request : req'[q].dom = d /\ req'[q].at \in Making
                                                /\ req'[q].rec = n
        BY <1>0 DEF Traced, Live
      <4>1. CASE n = m
        BY <1>4, <2>4, <4>1 DEF Making
      <4>2. CASE n # m
        BY <1>3, <1>4, <2>4, <4>2 DEF Traced, There, Making
      <4>3. QED
        BY <4>1, <4>2
    <3>5. Matching(d) => Matching(d)'
      BY <1>0, <2>1, <3>1, <3>2, <3>3, <3>4 DEF Matching, Live
    <3>6. QED
      BY <1>0, <2>1, <3>5 DEF Right
  <2>5. QED
    BY <1>0, <2>3, <2>4
<1>12. QED
  BY <1>6, <1>7, <1>8, <1>9, <1>10, <1>11, RoutedStep

\* A request that ends without having done anything.
LEMMA RoutedRefused ==
    ASSUME TypeOK, Routed, NEW r \in Request, CreateRefused(r)
    PROVE  Routed'
<1>a. /\ Started(r) /\ req[r].at \in {"addDns", "checkDns"} /\ End(r)
      /\ req[r].dom \in Domain
      /\ UNCHANGED <<rows, zone, ingress, pending, torn, live, excused>>
  BY RequestFields DEF CreateRefused, Routed, Requested, Started, Adding, Removing, Writing
<1>b. PICK d \in Domain : d = req[r].dom
  BY <1>a
<1>0. /\ Started(r) /\ req[r].at \in {"addDns", "checkDns"} /\ End(r)
      /\ d = req[r].dom /\ Right(d)
      /\ UNCHANGED <<rows, zone, ingress, pending, torn, live, excused>>
  BY <1>a, <1>b DEF Routed
<1>1. /\ req'[r].at = "idle" /\ req'[r].dom = None /\ req'[r].rec = None
      /\ req'[r].read = {} /\ req'[r].todo = {}
      /\ \A q \in Request \ {r} : req'[q] = req[q]
  BY <1>0, Ends
<1>2. Private(r)' /\ Started(r)' /\ Torn(r)'
  BY <1>1, EndedKeeps DEF Adding, Removing, Writing
<1>3. Right(d)'
  <2>1. \A q \in Request : /\ Writes(q, d)' <=> Writes(q, d) /\ q # r
                           /\ q # r => req'[q] = req[q]
    BY <1>0, <1>1, RequestFields DEF Writes
  <2>2. Ending(d) => Ending(d)'
    BY <1>0, <1>1 DEF Ending
  <2>3. Matching(d) /\ Live(d) /\ d \notin torn => Shown(d)'
    <3> SUFFICES ASSUME Matching(d), Live(d), d \notin torn PROVE Shown(d)'
      OBVIOUS
    <3>1. Writes(r, d) /\ req[r].at = "checkDns"
      BY <1>0 DEF Writes, Writing, Started, Live, Adding
    <3>2. ingress[d] = Wanted(rows[d].route)
      BY <3>1 DEF Matching, Shown
    <3>3. \A q \in Request : ~Writes(q, d)'
      BY <2>1, <3>1 DEF Matching
    <3>4. QED
      BY <1>0, <3>2, <3>3 DEF Shown
  <2>4. Traced(d) => Traced(d)'
    BY <1>0, <1>1 DEF Traced, There, Live, Making
  <2>5. Matching(d) => \A q, p \in Request : Writes(q, d)' /\ Writes(p, d)' => q = p
    BY <2>1 DEF Matching
  <2>6. QED
    BY <1>0, <2>2, <2>3, <2>4, <2>5, QuietDomain DEF Matching
<1>4. QED
  BY <1>0, <1>1, <1>2, <1>3, RequestFields, RoutedQuiet DEF Learnt

\* A domain to which a named mishap happens has but its types to keep.
LEMMA ExcusedKeeps ==
    ASSUME TypeOK, NEW r \in Request, NEW d \in Domain, Right(d), d \in excused',
           rows'[d] = rows[d], ingress'[d] \in {ingress[d], "none"},
           \A n \in Record : RecordKept(r, n)
    PROVE  Right(d)'
<1>1. Known(rows[d].rec, d)'
  BY RequestFields DEF Right, Known, RecordKept
<1>2. QED
  BY <1>1 DEF Right

\* The mishaps of a request about a domain.
LEMMA RoutedFails ==
    ASSUME TypeOK, Routed, NEW r \in Request,
           CreateLost(r) \/ IngressFails(r) \/ DeleteLost(r)
    PROVE  Routed'
<1>a. /\ Started(r) /\ req[r].dom \in Domain /\ req[r].at \in Adding \cup Removing \cup Writing
      /\ excused' = excused \cup {req[r].dom}
      /\ UNCHANGED <<live, rows, ingress, pending, torn>>
  BY RequestFields DEF CreateLost, IngressFails, DeleteLost, Excuse, Routed, Requested, Started,
     Adding, Removing, Writing
<1>b. PICK d \in Domain : d = req[r].dom
  BY <1>a
<1>0. /\ Private(r) /\ Started(r) /\ Torn(r) /\ d = req[r].dom /\ Right(d)
      /\ d \in excused' /\ excused \subseteq excused'
      /\ UNCHANGED <<live, rows, ingress, pending, torn>>
      /\ req[r].at # "tearDown"
  BY <1>a, <1>b DEF Routed, Requested, Adding, Removing, Writing
<1>1. \A n \in Record : \/ zone'[n] = zone[n]
                        \/ zone[n].st = "none" /\ zone'[n].st = "there" /\ zone'[n].dom = d
                        \/ n = req[r].rec /\ zone'[n].st = "gone" /\ zone'[n].dom = zone[n].dom
  <2>1. CASE CreateLost(r)
    BY <1>0, <2>1, RequestFields DEF CreateLost, Fresh
  <2>2. CASE IngressFails(r)
    BY <2>2 DEF IngressFails
  <2>3. CASE DeleteLost(r)
    <3>1. \A n \in Record : [zone[n] EXCEPT !.st = "gone"].st = "gone"
                            /\ [zone[n] EXCEPT !.st = "gone"].dom = zone[n].dom
      BY RequestFields DEF DnsRecord
    <3>2. QED
      BY <2>3, <3>1, RequestFields DEF DeleteLost, DeleteFrom
  <2>4. QED
    BY <2>1, <2>2, <2>3
<1>2. \A q \in Request \ {r} : req'[q] = req[q]
  BY Ends, GoesOn DEF CreateLost, IngressFails, DeleteLost
<1>3. \/ /\ req'[r].at = "idle" /\ req'[r].dom = None /\ req'[r].rec = None
         /\ req'[r].read = {} /\ req'[r].todo = {}
      \/ /\ IngressFails(r) /\ UNCHANGED zone
         /\ req'[r].dom = d /\ req'[r].rec = req[r].rec /\ req'[r].route = req[r].route
         /\ req'[r].read = req[r].read /\ req'[r].todo = req[r].todo
         /\ \/ req[r].at = "checkIngress" /\ req'[r].at = "checkRow"
            \/ req[r].at = "editIngress" /\ req'[r].at = "editRow"
  BY <1>0, Ends, GoesOn DEF CreateLost, IngressFails, DeleteLost
<1>4. Steps(r)
  BY <1>0, <1>1, <1>2, <1>3 DEF Steps, RowKept, RecordKept, Learnt
<1>5. Private(r)' /\ Started(r)' /\ Torn(r)'
  <2>1. CASE req'[r].at = "idle"
    BY <1>3, <2>1, EndedKeeps DEF Adding, Removing, Writing
  <2>2. CASE req'[r].at # "idle"
    <3>1. /\ UNCHANGED <<zone, rows, torn>>
          /\ req'[r].dom = d /\ req'[r].rec = req[r].rec /\ req'[r].route = req[r].route
          /\ req'[r].read = req[r].read /\ req'[r].todo = req[r].todo
          /\ req'[r].targets = req[r].targets
          /\ req[r].at \in Writing /\ req'[r].at \in Writing
          /\ req'[r].at \in Making => req[r].at \in Making
          /\ req'[r].at \notin Adding \cup Removing /\ req[r].at \notin Adding \cup Removing
      BY <1>0, <1>3, <2>2, GoesOn DEF IngressFails, Making, Adding, Removing, Writing
    <3>2. Private(r)'
      BY <1>0, <1>2, <3>1 DEF Private, There
    <3>3. Started(r)'
      <4>1. rows[d].st # "none" /\ (rows[d].target \in Database => req[r].route = "static")
            /\ Known(req[r].rec, d) /\ Known(req[r].rec, d)'
        BY <1>0, <3>1 DEF Started, Known
      <4>2. req'[r].at # "removeRow"
        BY <3>1 DEF Removing
      <4>3. QED
        BY <1>0, <3>1, <4>1, <4>2 DEF Started, Known
    <3>4. Torn(r)'
      BY <1>0, <3>1 DEF Torn, Known, There
    <3>5. QED
      BY <3>2, <3>3, <3>4
  <2>3. QED
    BY <2>1, <2>2
<1>6. Right(d)'
  BY <1>0, <1>4, ExcusedKeeps DEF Steps
<1>7. ASSUME NEW e \in Domain, e # d PROVE Spares(r, e)
  <2>1. \A n \in Record : zone[n].dom = e \/ zone'[n].dom = e => zone'[n] = zone[n]
    BY <1>0, <1>1, <1>7, RequestFields DEF Routed, Blank, Started, Known
  <2>2. QED
    BY <1>0, <1>2, <1>3, <1>7, <2>1, RequestFields DEF Spares
<1>8. QED
  BY <1>4, <1>5, <1>6, <1>7, RoutedStep

\* The request that adds a domain is alone with it.
LEMMA RoutedInsert ==
    ASSUME TypeOK, Routed, NEW r \in Request, InsertRow(r)
    PROVE  Routed'
<1>a. /\ Started(r) /\ req[r].dom \in Domain /\ req[r].at = "addRow"
      /\ UNCHANGED <<live, zone, ingress, pending, torn>>
  BY RequestFields DEF InsertRow, Routed, Requested, Started, Adding, Removing, Writing
<1>b. PICK d \in Domain : d = req[r].dom
  BY <1>a
<1>0. /\ Private(r) /\ Started(r) /\ Torn(r) /\ d = req[r].dom /\ Right(d)
      /\ req[r].at = "addRow" /\ rows[d].st = "none"
      /\ \A q \in Request \ {r} : req[q].dom # d
      /\ req[r].target \in Database => req[r].route = "static"
      /\ ingress[d] = "none"
      /\ UNCHANGED <<live, zone, ingress, pending, torn>>
  BY <1>a, <1>b DEF Routed, Requested, Started, Adding, Right
<1>1. /\ excused \subseteq excused' /\ \A q \in Request \ {r} : req'[q] = req[q]
      /\ \A e \in Domain \ {d} : rows'[e] = rows[e]
  BY <1>0, Ends, GoesOn, RequestFields DEF InsertRow, ExcuseIf, Excuse
<1>2. CASE Registered(req[r].name)
  <2>1. UNCHANGED rows /\ End(r) /\ (d \in excused' \/ req[r].rec = None)
    BY <1>0, <1>2 DEF InsertRow, ExcuseIf, Excuse
  <2>2. /\ req'[r].at = "idle" /\ req'[r].dom = None /\ req'[r].rec = None
        /\ req'[r].read = {} /\ req'[r].todo = {}
    BY <2>1, Ends
  <2>3. Private(r)' /\ Started(r)' /\ Torn(r)'
    BY <2>2, EndedKeeps DEF Adding, Removing, Writing
  <2>4. Right(d)'
    <3>1. \A q \in Request : ~Writes(q, d)'
      BY <1>0, <1>1, <2>2, RequestFields DEF Writes
    <3>2. d \notin excused' /\ Traced(d) => Traced(d)'
      BY <1>0, <1>1, <2>1, RequestFields DEF Traced, There, Live
    <3>3. ~Live(d)
      BY <1>0 DEF Live
    <3>4. QED
      BY <1>0, <1>1, <2>1, <3>1, <3>2, <3>3, QuietDomain DEF Matching
  <2>5. req[r].at # "tearDown" /\ Learnt(r)
    BY <1>0, <2>2 DEF Learnt
  <2>6. QED
    BY <1>0, <1>1, <2>1, <2>2, <2>3, <2>4, <2>5, RequestFields, RoutedQuiet
<1>3. CASE ~Registered(req[r].name)
  <2>1. /\ rows'[d] = [st |-> "live", name |-> req[r].name, target |-> req[r].target,
                       route |-> req[r].route, rec |-> req[r].rec]
        /\ d \notin excused' => req[r].target \in live \cup {NoTarget}
        /\ IF req[r].route \in Proxied THEN Goto(r, "addIngress") ELSE End(r)
    BY <1>0, <1>3, RequestFields DEF InsertRow, ExcuseIf, Excuse
  <2>2. /\ rows'[d].st = "live" /\ rows'[d].target = req[r].target
        /\ rows'[d].route = req[r].route /\ rows'[d].rec = req[r].rec
    BY <2>1
  <2>3. \/ /\ req'[r].at = "idle" /\ req'[r].dom = None /\ req'[r].rec = None
           /\ req'[r].read = {} /\ req'[r].todo = {} /\ req[r].route \notin Proxied
        \/ /\ req'[r].at = "addIngress" /\ req[r].route \in Proxied
           /\ req'[r].dom = d /\ req'[r].rec = req[r].rec /\ req'[r].route = req[r].route
           /\ req'[r].read = req[r].read /\ req'[r].todo = req[r].todo
           /\ req'[r].targets = req[r].targets
    BY <1>0, <2>1, Ends, GoesOn
  <2>4. Steps(r)
    BY <1>0, <1>1, <2>2, <2>3 DEF Steps, RowKept, RecordKept, Learnt, Adding
  <2>5. Private(r)'
    BY <2>3 DEF Private, Making
  <2>6. Started(r)'
    <3>1. req[r].rec # None => zone'[req[r].rec].dom = d /\ zone'[req[r].rec].st # "none"
      BY <1>0 DEF Started, Known
    <3>2. CASE req'[r].at = "idle"
      BY <2>3, <3>1, <3>2, EndedKeeps DEF Adding, Removing, Writing
    <3>3. CASE req'[r].at = "addIngress"
      BY <1>0, <2>2, <2>3, <3>1, <3>3, RequestFields DEF Started, Known, Adding, Removing, Writing,
         Live
    <3>4. QED
      BY <2>3, <3>2, <3>3
  <2>7. Torn(r)'
    <3>1. \A x \in req[r].read : rows[x[1]].st # "none" /\ rows'[x[1]] = rows[x[1]]
      BY <1>0, <1>1, RequestFields DEF Torn
    <3>2. CASE req'[r].at = "idle"
      BY <2>3, <3>2, EndedKeeps DEF Adding, Removing, Writing
    <3>3. CASE req'[r].at = "addIngress"
      BY <1>0, <1>1, <2>3, <3>1, <3>3 DEF Torn, Known, There
    <3>4. QED
      BY <2>3, <3>2, <3>3
  <2>8. Right(d)'
    <3>1. Known(rows[d].rec, d)'
      BY <1>0, <2>2 DEF Started, Known
    <3>2. \A q \in Request : Writes(q, d)' => q = r /\ req'[r].at = "addIngress"
      BY <1>0, <1>1, <2>3, RequestFields DEF Writes, Writing
    <3>3. Shown(d)'
      <4>1. ingress'[d] = "none" /\ rows'[d].route = req[r].route
        BY <1>0, <2>2
      <4>2. CASE req'[r].at = "addIngress"
        <5>1. Writes(r, d)'
          BY <2>3, <4>2 DEF Writes, Writing
        <5>2. QED
          BY <3>2, <4>1, <4>2, <5>1 DEF Shown
      <4>3. CASE req'[r].at = "idle"
        <5>1. req[r].route \notin Proxied /\ \A q \in Request : ~Writes(q, d)'
          BY <2>3, <3>2, <4>3
        <5>2. QED
          BY <4>1, <5>1 DEF Shown, Wanted
      <4>4. QED
        BY <2>3, <4>2, <4>3
    <3>4. Intact(d)'
      <4>1. req[r].rec # None => There(req[r].rec)
        BY <1>0 DEF Private, Making
      <4>2. QED
        BY <1>0, <2>2, <4>1 DEF Intact, There
    <3>5. Traced(d) => Traced(d)'
      BY <1>0, <1>1, <2>2, RequestFields DEF Traced, There, Live, Making
    <3>6. Matching(d) => d \notin pending /\ d \notin torn
      BY <1>0 DEF Matching
    <3>7. d \notin excused' => Matching(d)'
      BY <1>0, <1>1, <2>1, <2>2, <3>2, <3>3, <3>4, <3>5, <3>6 DEF Matching, Right, Live
    <3>8. QED
      BY <1>0, <2>2, <3>1, <3>7 DEF Right
  <2>9. \A e \in Domain : e # d => Spares(r, e)
    BY <1>0, <1>1, <2>3, RequestFields DEF Spares
  <2>10. QED
    BY <2>4, <2>5, <2>6, <2>7, <2>8, <2>9, RoutedStep
<1>4. QED
  BY <1>2, <1>3

\* The Ingress of a row that is being written is what its writer makes it; one of a row
\* that is torn down, or gone, stays away, or a named mishap has brought it back.
LEMMA RoutedApply ==
    ASSUME TypeOK, Routed, NEW r \in Request, ApplyIngress(r)
    PROVE  Routed'
<1>a. /\ Started(r) /\ req[r].dom \in Domain
      /\ req[r].at \in {"addIngress", "checkIngress", "editIngress"}
      /\ UNCHANGED <<live, rows, zone, pending, torn>>
  BY RequestFields DEF ApplyIngress, Routed, Requested, Started, Adding, Removing, Writing
<1>b. PICK d \in Domain : d = req[r].dom
  BY <1>a
<1>0. /\ Private(r) /\ Started(r) /\ Torn(r) /\ d = req[r].dom /\ Right(d)
      /\ req[r].at \in {"addIngress", "checkIngress", "editIngress"} /\ rows[d].st # "none"
      /\ rows[d].target \in Database => req[r].route = "static" /\ ingress[d] = "none"
      /\ UNCHANGED <<live, rows, zone, pending, torn>>
      /\ Writes(r, d)
  BY <1>a, <1>b DEF Routed, Requested, Started, Adding, Writing, Right, Writes
<1>1. /\ \A e \in Domain \ {d} : ingress'[e] = ingress[e]
      /\ ingress'[d] = Applied(req[r], ingress[d])
  BY <1>0 DEF ApplyIngress, TypeOK, RouteTyped
<1>2. /\ excused \subseteq excused'
      /\ d \notin excused' => /\ req[r].route \in Proxied => d \notin torn
                              /\ req[r].route = "bare" => ingress[d] = "none"
  BY <1>0 DEF ApplyIngress, ExcuseIf, Excuse
<1>3. /\ \A q \in Request \ {r} : req'[q] = req[q]
      /\ \/ /\ req'[r].at = "idle" /\ req'[r].dom = None /\ req'[r].rec = None
            /\ req'[r].read = {} /\ req'[r].todo = {} /\ req[r].at = "addIngress"
         \/ /\ \/ req[r].at = "checkIngress" /\ req'[r].at = "checkRow"
               \/ req[r].at = "editIngress" /\ req'[r].at = "editRow"
            /\ req'[r].dom = d /\ req'[r].rec = req[r].rec /\ req'[r].route = req[r].route
            /\ req'[r].read = req[r].read /\ req'[r].todo = req[r].todo
            /\ req'[r].targets = req[r].targets
  BY <1>0, Ends, GoesOn DEF ApplyIngress
<1>4. Steps(r)
  BY <1>0, <1>2, <1>3 DEF Steps, RowKept, RecordKept, Learnt
<1>5. Private(r)' /\ Started(r)' /\ Torn(r)'
  <2>1. CASE req'[r].at = "idle"
    BY <1>3, <2>1, EndedKeeps DEF Adding, Removing, Writing
  <2>2. CASE req'[r].at # "idle"
    <3>1. Private(r)'
      BY <1>0, <1>3, <2>2 DEF Private, There, Making
    <3>2. Torn(r)'
      BY <1>0, <1>2, <1>3, <2>2 DEF Torn, Known, There
    <3>3. req[r].rec # None => zone'[req[r].rec].dom = d /\ zone'[req[r].rec].st # "none"
      BY <1>0 DEF Started, Known
    <3>4. Started(r)'
      <4>1. CASE req'[r].at = "checkRow"
        BY <1>0, <1>2, <1>3, <2>2, <3>3, <4>1 DEF Started, Known, Adding, Removing, Writing, Live
      <4>2. CASE req'[r].at = "editRow"
        BY <1>0, <1>2, <1>3, <2>2, <3>3, <4>2 DEF Started, Known, Adding, Removing, Writing, Live
      <4>3. QED
        BY <1>3, <2>2, <4>1, <4>2
    <3>5. QED
      BY <3>1, <3>2, <3>4
  <2>3. QED
    BY <2>1, <2>2
<1>6. \A e \in Domain : e # d => Spares(r, e)
  BY <1>0, <1>1, <1>2, <1>3, RequestFields DEF Spares
<1>7. Right(d)'
  <2>1. Known(rows[d].rec, d)' /\ (Intact(d) => Intact(d)')
    BY <1>0 DEF Right, Known, Intact, There
  <2>2. rows[d].target \in Database => ingress'[d] = "none"
    BY <1>0, <1>1 DEF Applied, Proxied
  <2>3. ASSUME d \notin excused', Matching(d)
        PROVE  Matching(d)'
    <3>1. d \in torn => ingress'[d] = "none"
      BY <1>0, <1>1, <1>2, <2>3 DEF Matching, Applied
    <3>2. \A q \in Request : (Writes(q, d)' => q = r) /\ (Writes(q, d) => q = r)
      BY <1>0, <1>3, <2>3 DEF Matching, Writes, Writing
    <3>3. Live(d) /\ d \notin torn => Shown(d)'
      <4> SUFFICES ASSUME Live(d), d \notin torn PROVE Shown(d)'
        OBVIOUS
      <4>1. d \notin excused /\ Shown(d) /\ req[r].route \in Route
        BY <1>0, <1>2, <2>3 DEF Matching, RequestState, TypeOK, RouteTyped
      <4>2. CASE req[r].at = "addIngress"
        <5>1. ingress[d] = "none" /\ req[r].route = rows[d].route
          BY <1>0, <4>1, <4>2 DEF Shown, Started, Writing
        <5>2. ingress'[d] = Wanted(rows[d].route)
          BY <1>1, <4>2, <5>1 DEF Applied, Wanted
        <5>3. \A q \in Request : ~Writes(q, d)'
          BY <1>3, <3>2, <4>2 DEF Writes, Writing
        <5>4. QED
          BY <1>0, <5>2, <5>3 DEF Shown
      <4>3. CASE req[r].at = "checkIngress"
        <5>1. ingress[d] = Wanted(rows[d].route) /\ req[r].route = rows[d].route
          BY <1>0, <4>1, <4>3 DEF Shown, Started, Writing
        <5>2. ingress'[d] = Wanted(rows[d].route)
          BY <1>1, <4>3, <5>1 DEF Applied, Wanted
        <5>3. req'[r].at = "checkRow" /\ Writes(r, d)'
          BY <1>3, <4>3 DEF Writes, Writing
        <5>4. QED
          BY <1>0, <3>2, <5>2, <5>3 DEF Shown
      <4>4. CASE req[r].at = "editIngress"
        <5>1. ingress'[d] = Wanted(req[r].route)
          BY <1>1, <1>2, <2>3, <4>1, <4>4 DEF Applied, Wanted, Route, Proxied
        <5>2. req'[r].at = "editRow" /\ Writes(r, d)' /\ req'[r].route = req[r].route
          BY <1>3, <4>4 DEF Writes, Writing
        <5>3. QED
          BY <1>0, <3>2, <5>1, <5>2 DEF Shown
      <4>5. QED
        BY <1>0, <4>2, <4>3, <4>4
    <3>4. Ending(d) => Ending(d)'
      BY <1>0, <1>3 DEF Ending
    <3>5. Traced(d)'
      BY <1>0, <1>3, <2>3 DEF Matching, Traced, There, Live, Making
    <3>6. QED
      BY <1>0, <2>1, <2>3, <3>1, <3>2, <3>3, <3>4, <3>5 DEF Matching, Live
  <2>4. QED
    BY <1>0, <1>2, <2>1, <2>2, <2>3 DEF Right
<1>8. QED
  BY <1>4, <1>5, <1>6, <1>7, RoutedStep

\* The writer of a row, if it is alone, leaves the row as it has left the rest.
LEMMA RoutedStore ==
    ASSUME TypeOK, Routed, NEW r \in Request, StoreVerified(r) \/ StoreUpdated(r)
    PROVE  Routed'
<1>a. /\ Started(r) /\ req[r].dom \in Domain /\ req[r].at \in {"checkRow", "editRow"} /\ End(r)
      /\ UNCHANGED <<live, zone, ingress, pending, torn>>
  BY RequestFields DEF StoreVerified, StoreUpdated, Routed, Requested, Started, Adding, Removing,
     Writing
<1>b. PICK d \in Domain : d = req[r].dom
  BY <1>a
<1>0. /\ Private(r) /\ Started(r) /\ Torn(r) /\ d = req[r].dom /\ Right(d)
      /\ req[r].at \in {"checkRow", "editRow"} /\ rows[d].st # "none"
      /\ rows[d].target \in Database => req[r].route = "static"
      /\ UNCHANGED <<live, zone, ingress, pending, torn>>
      /\ Writes(r, d)
  BY <1>a, <1>b DEF Routed, Requested, Started, Adding, Writing, Writes
<1>1. /\ req'[r].at = "idle" /\ req'[r].dom = None /\ req'[r].rec = None
      /\ req'[r].read = {} /\ req'[r].todo = {}
      /\ \A q \in Request \ {r} : req'[q] = req[q]
  BY <1>a, Ends
<1>2. /\ \A e \in Domain \ {d} : rows'[e] = rows[e]
      /\ rows'[d].st = rows[d].st /\ rows'[d].target = rows[d].target
      /\ rows'[d].rec \in {rows[d].rec, req[r].rec}
      /\ rows'[d].rec # rows[d].rec => req[r].at = "checkRow"
      /\ rows'[d].route = IF Live(d) /\ req[r].at = "editRow" THEN req[r].route ELSE rows[d].route
      /\ excused \subseteq excused'
      /\ req[r].at = "checkRow" /\ d \notin excused' =>
            Live(d) /\ ~There(rows[d].rec) /\ rows'[d].rec = req[r].rec
  <2>1. /\ \A v : [rows[d] EXCEPT !.rec = v].rec = v /\ [rows[d] EXCEPT !.rec = v].st = rows[d].st
                  /\ [rows[d] EXCEPT !.rec = v].target = rows[d].target
                  /\ [rows[d] EXCEPT !.rec = v].route = rows[d].route
        /\ \A v : [rows[d] EXCEPT !.route = v].route = v
                  /\ [rows[d] EXCEPT !.route = v].st = rows[d].st
                  /\ [rows[d] EXCEPT !.route = v].target = rows[d].target
                  /\ [rows[d] EXCEPT !.route = v].rec = rows[d].rec
    BY RequestFields DEF DomainRow
  <2>2. CASE StoreVerified(r)
    <3>1. /\ rows' = IF Live(d) THEN [rows EXCEPT ![d].rec = req[r].rec] ELSE rows
          /\ req[r].at = "checkRow" /\ ExcuseIf(~Live(d) \/ There(rows[d].rec), d)
      BY <1>0, <2>2 DEF StoreVerified
    <3>2. excused \subseteq excused' /\ (d \notin excused' => Live(d) /\ ~There(rows[d].rec))
      BY <3>1 DEF ExcuseIf, Excuse
    <3>3. QED
      BY <2>1, <3>1, <3>2, RequestFields
  <2>3. CASE StoreUpdated(r)
    <3>1. /\ rows' = IF Live(d) THEN [rows EXCEPT ![d].route = req[r].route] ELSE rows
          /\ req[r].at = "editRow" /\ UNCHANGED excused
      BY <1>0, <2>3 DEF StoreUpdated
    <3>2. QED
      BY <2>1, <3>1, RequestFields
  <2>4. QED
    BY <2>2, <2>3
<1>3. Steps(r)
  <2>1. \A e \in Domain : RowKept(r, e)
    BY <1>0, <1>2, RequestFields DEF RowKept, Adding
  <2>2. QED
    BY <1>0, <1>1, <1>2, <2>1 DEF Steps, RecordKept, Learnt
<1>4. Private(r)' /\ Started(r)' /\ Torn(r)'
  BY <1>1, EndedKeeps DEF Adding, Removing, Writing
<1>5. \A e \in Domain : e # d => Spares(r, e)
  BY <1>0, <1>1, <1>2, RequestFields DEF Spares
<1>6. Right(d)'
  <2>1. Known(rows[d].rec, d)'
    BY <1>0, <1>2 DEF Right, Started, Known
  <2>2. rows[d].target \in Database => rows'[d].route = "static" /\ ingress'[d] = "none"
    BY <1>0, <1>2 DEF Right
  <2>3. ASSUME d \notin excused', Matching(d)
        PROVE  Matching(d)'
    <3>1. \A q \in Request : ~Writes(q, d)' /\ (Writes(q, d) => q = r)
      BY <1>0, <1>1, <2>3, RequestFields DEF Matching, Writes
    <3>2. Ending(d) => Ending(d)'
      BY <1>0, <1>1, <1>2 DEF Ending
    <3>3. (Live(d)' <=> Live(d)) /\ d \notin excused
      BY <1>2, <2>3 DEF Live
    <3>4. Live(d) /\ d \notin torn => Shown(d)'
      <4> SUFFICES ASSUME Live(d), d \notin torn PROVE Shown(d)'
        OBVIOUS
      <4>1. ingress[d] = IF req[r].at = "editRow" THEN Wanted(req[r].route)
                                                  ELSE Wanted(rows[d].route)
        BY <1>0, <2>3 DEF Matching, Shown
      <4>2. QED
        BY <1>0, <1>2, <3>1, <4>1 DEF Shown
    <3>5. Intact(d) => Intact(d)'
      BY <1>0, <1>2 DEF Intact, There, Private, Making
    <3>6. Traced(d)'
      <4> SUFFICES ASSUME NEW n \in Record, There(n), zone[n].dom = d
                   PROVE  \/ Live(d) /\ rows'[d].rec = n
                          \/ \E q \in Request : req'[q].dom = d /\ req'[q].at \in Making
                                                /\ req'[q].rec = n
        BY <1>0, <3>3 DEF Traced, There
      <4>1. CASE Live(d) /\ rows[d].rec = n
        BY <1>0, <1>2, <2>3, <4>1
      <4>2. ASSUME NEW q \in Request, req[q].dom = d, req[q].at \in Making, req[q].rec = n
            PROVE  \/ Live(d) /\ rows'[d].rec = n
                   \/ req'[q].dom = d /\ req'[q].at \in Making /\ req'[q].rec = n
        <5>1. CASE q = r
          BY <1>0, <1>2, <2>3, <4>2, <5>1 DEF Making
        <5>2. CASE q # r
          BY <1>1, <4>2, <5>2
        <5>3. QED
          BY <5>1, <5>2
      <4>3. QED
        BY <2>3, <4>1, <4>2 DEF Matching, Traced
    <3>7. QED
      BY <1>0, <1>2, <2>3, <3>1, <3>2, <3>3, <3>4, <3>5, <3>6 DEF Matching
  <2>4. QED
    BY <1>0, <1>2, <2>1, <2>2, <2>3 DEF Right
<1>7. QED
  BY <1>3, <1>4, <1>5, <1>6, RoutedStep

\* The record goes before the row.
LEMMA RoutedDelete ==
    ASSUME TypeOK, Routed, NEW r \in Request, DeleteRecord(r)
    PROVE  Routed'
<1>a. /\ Started(r) /\ req[r].dom \in Domain /\ req[r].at = "removeDns"
      /\ UNCHANGED <<live, rows, ingress, pending, torn, excused>>
  BY RequestFields DEF DeleteRecord, Routed, Requested, Started, Adding, Removing, Writing
<1>b. PICK d \in Domain : d = req[r].dom
  BY <1>a
<1>0. /\ Started(r) /\ Torn(r) /\ d = req[r].dom /\ Right(d)
      /\ req[r].at = "removeDns" /\ rows[d].st # "none" /\ Known(req[r].rec, d)
      /\ req[r].target = rows[d].target
      /\ UNCHANGED <<live, rows, ingress, pending, torn, excused>>
  BY <1>a, <1>b DEF Routed, Requested, Started, Adding, Removing
<1>1. \A n \in Record : \/ zone'[n] = zone[n]
                        \/ n = req[r].rec /\ zone'[n].st = "gone" /\ zone'[n].dom = zone[n].dom
  <2>1. \A n \in Record : [zone[n] EXCEPT !.st = "gone"].st = "gone"
                          /\ [zone[n] EXCEPT !.st = "gone"].dom = zone[n].dom
    BY RequestFields DEF DnsRecord
  <2>2. QED
    BY <2>1, RequestFields DEF DeleteRecord, DeleteFrom
<1>2. /\ \A q \in Request \ {r} : req'[q] = req[q]
      /\ \/ /\ req'[r].at = "idle" /\ req'[r].dom = None /\ req'[r].rec = None
            /\ req'[r].read = {} /\ req'[r].todo = {} /\ UNCHANGED zone
         \/ /\ req'[r].at = "removeRow" /\ ~There(req[r].rec)'
            /\ req'[r].dom = d /\ req'[r].rec = req[r].rec /\ req'[r].target = req[r].target
            /\ req'[r].read = req[r].read /\ req'[r].todo = req[r].todo
            /\ req'[r].targets = req[r].targets
  <2>1. CASE req[r].rec = None
    BY <1>0, <2>1, GoesOn DEF DeleteRecord, Deletable, There
  <2>2. CASE Deletable(req[r].rec, req[r].acct) /\ DeleteFrom(req[r].rec) /\ Goto(r, "removeRow")
    <3>1. req[r].rec \in Record /\ zone'[req[r].rec].st = "gone"
      BY <2>2, RequestFields DEF Deletable, DeleteFrom, There, DnsRecord
    <3>2. QED
      BY <1>0, <2>2, <3>1, GoesOn DEF There
  <2>3. CASE End(r) /\ UNCHANGED zone
    BY <2>3, Ends
  <2>4. QED
    BY <2>1, <2>2, <2>3 DEF DeleteRecord
<1>3. Steps(r)
  BY <1>0, <1>1, <1>2 DEF Steps, RowKept, RecordKept, Learnt
<1>4. \A n \in Record \cup {None} : (Known(n, d) => Known(n, d)') /\ (There(n)' => There(n))
  BY <1>1, RequestFields DEF Known, There
<1>5. Private(r)' /\ Started(r)' /\ Torn(r)'
  <2>1. CASE req'[r].at = "idle"
    BY <1>2, <2>1, EndedKeeps DEF Adding, Removing, Writing
  <2>2. CASE req'[r].at = "removeRow"
    <3>1. Private(r)'
      BY <2>2 DEF Private, Making
    <3>2. Started(r)'
      <4>1. req[r].rec # None => zone'[req[r].rec].dom = d /\ zone'[req[r].rec].st # "none"
        BY <1>0, <1>1, RequestFields DEF Known
      <4>2. QED
        BY <1>0, <1>2, <2>2, <4>1 DEF Started, Known, Adding, Removing, Writing
    <3>3. Torn(r)'
      <4>1. \A x \in req[r].read : (Known(x[2], x[1]) => Known(x[2], x[1])')
                                   /\ (~There(x[2]) => ~There(x[2])')
        BY <1>1, RequestFields DEF Known, There
      <4>2. QED
        BY <1>0, <1>2, <2>2, <4>1 DEF Torn
    <3>4. QED
      BY <3>1, <3>2, <3>3
  <2>3. QED
    BY <1>2, <2>1, <2>2
<1>6. \A e \in Domain : e # d => Spares(r, e)
  <2>1. \A n \in Record, e \in Domain :
            e # d /\ (zone[n].dom = e \/ zone'[n].dom = e) => zone'[n] = zone[n]
    BY <1>0, <1>1, RequestFields DEF Known
  <2>2. QED
    BY <1>0, <1>2, <2>1, RequestFields DEF Spares
<1>7. Right(d)'
  <2>1. Known(rows[d].rec, d)'
    BY <1>0, <1>1, RequestFields DEF Right, Known
  <2>2. ASSUME Matching(d)
        PROVE  Matching(d)'
    <3>1. \A q \in Request : (Writes(q, d)' <=> Writes(q, d)) /\ (Writes(q, d) => req'[q] = req[q])
      BY <1>0, <1>2, RequestFields DEF Writes, Writing
    <3>2. Shown(d) => Shown(d)'
      BY <1>0, <3>1 DEF Shown
    <3>3. Ending(d) => Ending(d)'
      BY <1>0, <1>2 DEF Ending
    <3>4. Ending(d)' \/ (Intact(d) => Intact(d)')
      <4>1. CASE req'[r].at = "removeRow" /\ req[r].rec # None
        BY <1>0, <1>2, <4>1 DEF Ending
      <4>2. CASE UNCHANGED zone
        BY <1>0, <4>2 DEF Intact, There
      <4>3. CASE req[r].rec = None
        BY <1>0, <1>1, <4>3, RequestFields DEF Intact, There
      <4>4. QED
        BY <1>2, <4>1, <4>2, <4>3
    <3>5. Traced(d)'
      <4>1. \A n \in Record : There(n)' /\ zone'[n].dom = d => There(n) /\ zone[n].dom = d
        BY <1>1 DEF There
      <4>2. \A q \in Request : req[q].at \in Making => req'[q] = req[q]
        BY <1>0, <1>2 DEF Making
      <4>3. QED
        BY <1>0, <2>2, <4>1, <4>2 DEF Matching, Traced, Live
    <3>6. QED
      BY <1>0, <2>2, <3>1, <3>2, <3>3, <3>4, <3>5 DEF Matching, Live
  <2>3. QED
    BY <1>0, <2>1, <2>2 DEF Right
<1>8. QED
  BY <1>3, <1>5, <1>6, <1>7, RoutedStep

\* The row goes, and its Ingress is to follow.
LEMMA RoutedDropRow ==
    ASSUME TypeOK, Routed, NEW r \in Request, DropRow(r)
    PROVE  Routed'
<1>a. /\ Started(r) /\ req[r].dom \in Domain /\ req[r].at = "removeRow" /\ End(r)
      /\ UNCHANGED <<live, zone, ingress, torn>>
  BY RequestFields DEF DropRow, Routed, Requested, Started, Adding, Removing, Writing
<1>b. PICK d \in Domain : d = req[r].dom
  BY <1>a
<1>0. /\ d = req[r].dom /\ Right(d)
      /\ req[r].at = "removeRow" /\ rows[d].st # "none" /\ ~There(req[r].rec)
      /\ req[r].target = rows[d].target
      /\ UNCHANGED <<live, zone, ingress, torn>>
  BY <1>a, <1>b DEF Routed, Requested, Started, Adding, Removing
<1>1. /\ req'[r].at = "idle" /\ req'[r].dom = None /\ req'[r].rec = None
      /\ req'[r].read = {} /\ req'[r].todo = {}
      /\ \A q \in Request \ {r} : req'[q] = req[q]
  BY <1>a, Ends
<1>2. /\ pending' = IF rows[d].target \in Database THEN pending ELSE pending \cup {d}
      /\ excused \subseteq excused'
      /\ \A e \in Domain \ {d} : rows'[e] = rows[e]
      /\ rows'[d].target = rows[d].target /\ rows'[d].rec = rows[d].rec
      /\ rows'[d].route = rows[d].route /\ rows'[d].st \in {rows[d].st, "gone"}
      /\ d \notin excused' => rows'[d].st = "gone" /\ (Live(d) => rows[d].rec = req[r].rec)
  <2>1. [rows[d] EXCEPT !.st = "gone"].st = "gone"
        /\ [rows[d] EXCEPT !.st = "gone"].rec = rows[d].rec
        /\ [rows[d] EXCEPT !.st = "gone"].target = rows[d].target
        /\ [rows[d] EXCEPT !.st = "gone"].route = rows[d].route
    BY RequestFields DEF DomainRow
  <2>2. /\ pending' = IF rows[d].target \in Database THEN pending ELSE pending \cup {d}
        /\ \/ /\ rows' = [rows EXCEPT ![d].st = "gone"]
              /\ ExcuseIf(Live(d) /\ rows[d].rec # req[r].rec, d)
           \/ UNCHANGED rows /\ Excuse({d})
    BY <1>0 DEF DropRow
  <2>3. QED
    BY <2>1, <2>2, RequestFields DEF ExcuseIf, Excuse
<1>3. Steps(r)
  <2>1. \A e \in Domain : RowKept(r, e)
    BY <1>0, <1>2, RequestFields DEF RowKept
  <2>2. QED
    BY <1>0, <1>1, <1>2, <2>1 DEF Steps, RecordKept, Learnt
<1>4. Private(r)' /\ Started(r)' /\ Torn(r)'
  BY <1>1, EndedKeeps DEF Adding, Removing, Writing
<1>5. \A e \in Domain : e # d => Spares(r, e)
  BY <1>0, <1>1, <1>2, RequestFields DEF Spares
<1>6. Right(d)'
  <2>1. Known(rows[d].rec, d)'
    BY <1>0, <1>2 DEF Right, Known
  <2>2. ASSUME d \notin excused', Matching(d)
        PROVE  Matching(d)'
    <3>1. \A q \in Request : Writes(q, d)' => Writes(q, d)
      BY <1>1, RequestFields DEF Writes
    <3>2. Traced(d)'
      <4>1. \A n \in Record : There(n) /\ zone[n].dom = d => ~(Live(d) /\ rows[d].rec = n)
        BY <1>0, <1>2, <2>2
      <4>2. \A q \in Request : req[q].at \in Making => req'[q] = req[q]
        BY <1>0, <1>1 DEF Making
      <4>3. QED
        BY <1>0, <2>2, <4>1, <4>2 DEF Matching, Traced, There
    <3>3. QED
      BY <1>0, <1>2, <2>2, <3>1, <3>2 DEF Matching, Live
  <2>3. QED
    BY <1>0, <1>2, <2>1, <2>2 DEF Right
<1>7. QED
  BY <1>3, <1>4, <1>5, <1>6, RoutedStep

\* What a purge tears down is what it has read, and the rows follow.
LEMMA RoutedTearDown ==
    ASSUME TypeOK, Routed, NEW r \in Request, TearDown(r)
    PROVE  Routed'
<1>a. PICK x \in req[r].todo :
          LET token == Account(rows[x[1]].target)
          IN  /\ req' = [req EXCEPT ![r].todo = @ \ {x}]
              /\ torn' = torn \cup {x[1]}
              /\ \/ /\ IF Deletable(x[2], token) THEN DeleteFrom(x[2]) ELSE UNCHANGED zone
                    /\ ingress' = [ingress EXCEPT ![x[1]] = "none"]
                    /\ ExcuseIf(There(x[2]) /\ ~Deletable(x[2], token), x[1])
                 \/ /\ Excuse({x[1]})
                    /\ (Deletable(x[2], token) /\ DeleteFrom(x[2])) \/ UNCHANGED zone
                    /\ ingress' \in {ingress, [ingress EXCEPT ![x[1]] = "none"]}
  BY DEF TearDown
<1>b. x \in req[r].read /\ x[1] \in Domain /\ x[2] \in Record \cup {None}
  BY RequestFields DEF Routed, Requested, Torn
<1>c. PICK d \in Domain, n \in Record \cup {None} : d = x[1] /\ n = x[2]
  BY <1>b
<1>0. /\ Private(r) /\ Started(r) /\ Torn(r) /\ Right(d) /\ req[r].at = "tearDown"
      /\ Known(n, d) /\ rows[d].st # "none" /\ rows[d].target \in req[r].targets
      /\ UNCHANGED <<live, rows, pending>>
  BY <1>b, <1>c DEF Routed, Requested, Torn, TearDown
<1>1. /\ \A q \in Request \ {r} : req'[q] = req[q]
      /\ req'[r].todo = req[r].todo \ {x} /\ req'[r].at = "tearDown" /\ req'[r].dom = req[r].dom
      /\ req'[r].rec = req[r].rec /\ req'[r].read = req[r].read
      /\ req'[r].targets = req[r].targets
  <2>1. [req[r] EXCEPT !.todo = @ \ {x}].todo = req[r].todo \ {x}
        /\ [req[r] EXCEPT !.todo = @ \ {x}].at = req[r].at
        /\ [req[r] EXCEPT !.todo = @ \ {x}].dom = req[r].dom
        /\ [req[r] EXCEPT !.todo = @ \ {x}].rec = req[r].rec
        /\ [req[r] EXCEPT !.todo = @ \ {x}].read = req[r].read
        /\ [req[r] EXCEPT !.todo = @ \ {x}].targets = req[r].targets
    BY RequestFields DEF RequestState
  <2>2. QED
    BY <1>0, <1>a, <2>1, RequestFields
<1>2. /\ \A m \in Record : \/ zone'[m] = zone[m]
                           \/ m = n /\ zone'[m].st = "gone" /\ zone'[m].dom = zone[m].dom
      /\ \A e \in Domain \ {d} : ingress'[e] = ingress[e]
      /\ ingress'[d] \in {ingress[d], "none"}
      /\ torn' = torn \cup {d} /\ excused \subseteq excused'
      /\ d \notin excused' => ingress'[d] = "none" /\ ~There(n)'
  <2>1. \A m \in Record : [zone[m] EXCEPT !.st = "gone"].st = "gone"
                          /\ [zone[m] EXCEPT !.st = "gone"].dom = zone[m].dom
    BY RequestFields DEF DnsRecord
  <2>2. CASE /\ Excuse({d})
             /\ (Deletable(n, Account(rows[d].target)) /\ DeleteFrom(n)) \/ UNCHANGED zone
             /\ ingress' \in {ingress, [ingress EXCEPT ![d] = "none"]}
    <3>1. /\ \A e \in Domain \ {d} : ingress'[e] = ingress[e]
          /\ ingress'[d] \in {ingress[d], "none"}
          /\ d \in excused' /\ excused \subseteq excused'
      BY <2>2 DEF TypeOK, RouteTyped, Excuse
    <3>2. \A m \in Record : \/ zone'[m] = zone[m]
                            \/ m = n /\ zone'[m].st = "gone" /\ zone'[m].dom = zone[m].dom
      BY <2>1, <2>2, RequestFields DEF DeleteFrom
    <3>3. QED
      BY <1>a, <1>c, <3>1, <3>2
  <2>3. CASE /\ IF Deletable(n, Account(rows[d].target)) THEN DeleteFrom(n) ELSE UNCHANGED zone
             /\ ingress' = [ingress EXCEPT ![d] = "none"]
             /\ ExcuseIf(There(n) /\ ~Deletable(n, Account(rows[d].target)), d)
    <3>1. /\ ingress'[d] = "none" /\ \A e \in Domain \ {d} : ingress'[e] = ingress[e]
          /\ excused \subseteq excused'
      BY <2>3 DEF TypeOK, RouteTyped, ExcuseIf, Excuse
    <3>2. CASE Deletable(n, Account(rows[d].target))
      <4>1. n \in Record /\ zone' = [zone EXCEPT ![n].st = "gone"]
        BY <2>3, <3>2 DEF Deletable, There, DeleteFrom
      <4>2. zone'[n] = [zone[n] EXCEPT !.st = "gone"] /\ \A m \in Record \ {n} : zone'[m] = zone[m]
        BY <4>1, RequestFields
      <4>3. ~There(n)' /\ zone'[n].st = "gone" /\ zone'[n].dom = zone[n].dom
        BY <2>1, <4>1, <4>2 DEF There
      <4>4. QED
        BY <1>a, <1>c, <3>1, <4>2, <4>3
    <3>3. CASE ~Deletable(n, Account(rows[d].target))
      <4>1. UNCHANGED zone /\ (d \notin excused' => ~There(n))
        BY <2>3, <3>3 DEF ExcuseIf, Excuse
      <4>2. QED
        BY <1>a, <1>c, <3>1, <4>1 DEF There
    <3>4. QED
      BY <3>2, <3>3
  <2>4. QED
    BY <1>a, <1>c, <2>2, <2>3
<1>3. Steps(r)
  <2>1. \A m \in Record : RecordKept(r, m)
    BY <1>2, <1>b, <1>c DEF RecordKept
  <2>2. QED
    BY <1>0, <1>1, <1>2, <2>1 DEF Steps, RowKept, Learnt
<1>4. Private(r)'
  BY <1>1 DEF Private, Making
<1>5. Started(r)'
  <2>1. req[r].rec # None => /\ zone[req[r].rec].dom = req[r].dom
                             /\ zone'[req[r].rec].dom = req[r].dom
                             /\ zone'[req[r].rec].st # "none"
    BY <1>0, <1>2, RequestFields DEF Started, Known
  <2>2. req[r].dom # None => rows[req[r].dom].st # "none"
    BY <1>0 DEF Started, Adding
  <2>3. QED
    BY <1>0, <1>1, <2>1, <2>2 DEF Started, Known, Adding, Removing, Writing
<1>6. Torn(r)'
  <2> SUFFICES ASSUME NEW y \in req[r].read
               PROVE  /\ Known(y[2], y[1])'
                      /\ rows[y[1]].st # "none" /\ rows[y[1]].target \in req[r].targets
                      /\ y \notin req[r].todo \ {x} =>
                            y[1] \in torn' /\ (y[1] \in excused' \/ ~There(y[2])')
    BY <1>0, <1>1 DEF Torn
  <2>1. /\ Known(y[2], y[1]) /\ rows[y[1]].st # "none" /\ rows[y[1]].target \in req[r].targets
        /\ y \notin req[r].todo => y[1] \in torn /\ (y[1] \in excused \/ ~There(y[2]))
        /\ y[2] \in Record \cup {None}
    BY <1>0, RequestFields DEF Torn
  <2>2. Known(y[2], y[1])' /\ (~There(y[2]) => ~There(y[2])')
    BY <1>2, <2>1 DEF Known, There
  <2>3. CASE y = x
    BY <1>2, <1>c, <2>1, <2>2, <2>3
  <2>4. CASE y # x
    BY <1>2, <2>1, <2>2, <2>4
  <2>5. QED
    BY <2>3, <2>4
<1>7. \A e \in Domain : e # d => Spares(r, e) \/ Right(e)'
  <2> SUFFICES ASSUME NEW e \in Domain, e # d PROVE Spares(r, e) \/ Right(e)'
    OBVIOUS
  <2>1. \A m \in Record : zone[m].dom = e \/ zone'[m].dom = e => zone'[m] = zone[m]
    BY <1>0, <1>2, RequestFields DEF Known
  <2>2. CASE req[r].dom # e
    BY <1>0, <1>1, <1>2, <2>1, <2>2, RequestFields DEF Spares
  <2>3. CASE req[r].dom = e
    <3>0. Right(e)
      BY DEF Routed
    <3>1. \A q \in Request : (Writes(q, e)' <=> Writes(q, e)) /\ (Writes(q, e) => req'[q] = req[q])
      BY <1>0, <1>1 DEF Writes, Writing
    <3>2. Known(rows[e].rec, e)' /\ (Intact(e) => Intact(e)')
      BY <1>0, <2>1, <3>0, RequestFields DEF Right, Known, Intact, There
    <3>3. Shown(e) => Shown(e)'
      BY <1>0, <1>2, <3>1 DEF Shown
    <3>4. Ending(e) => Ending(e)'
      BY <1>0, <1>1 DEF Ending
    <3>5. Traced(e) => Traced(e)'
      <4>1. \A q \in Request : req[q].at \in Making => req'[q] = req[q]
        BY <1>0, <1>1 DEF Making
      <4>2. QED
        BY <1>0, <2>1, <4>1 DEF Traced, There, Live
    <3>6. Matching(e) => Matching(e)'
      BY <1>0, <1>2, <3>1, <3>2, <3>3, <3>4, <3>5 DEF Matching, Live
    <3>7. QED
      BY <1>0, <1>2, <3>0, <3>2, <3>6 DEF Right
  <2>4. QED
    BY <2>2, <2>3
<1>8. Right(d)'
  <2>1. Known(rows[d].rec, d)'
    BY <1>0, <1>2, RequestFields DEF Right, Known
  <2>2. ASSUME d \notin excused', Matching(d)
        PROVE  Matching(d)'
    <3>1. \A q \in Request : Writes(q, d)' <=> Writes(q, d)
      BY <1>0, <1>1 DEF Writes, Writing
    <3>2. Ending(d)'
      <4>1. x \in req'[r].read \ req'[r].todo /\ x[1] = d
        BY <1>1, <1>b, <1>c
      <4>2. QED
        BY <1>1, <4>1 DEF Ending
    <3>3. Traced(d)'
      <4>1. \A q \in Request : req[q].at \in Making => req'[q] = req[q]
        BY <1>0, <1>1 DEF Making
      <4>2. \A m \in Record : There(m)' /\ zone'[m].dom = d => There(m) /\ zone[m].dom = d
        BY <1>2 DEF There
      <4>3. QED
        BY <1>0, <2>2, <4>1, <4>2 DEF Matching, Traced, Live
    <3>4. QED
      BY <1>0, <1>2, <2>2, <3>1, <3>2, <3>3 DEF Matching, Live
  <2>3. QED
    BY <1>0, <1>2, <2>1, <2>2 DEF Right
<1>9. QED
  BY <1>3, <1>4, <1>5, <1>6, <1>7, <1>8, RoutedStep

\* The rows of the targets go, when all that was read of them is torn down; those that
\* have come since are a named mishap.
LEMMA RoutedPurge ==
    ASSUME TypeOK, Routed, NEW r \in Request,
           (PurgeRows(r) /\ DropRows(r)) \/ DropProject(r)
    PROVE  Routed'
<1> DEFINE S == req[r].targets
<1>1. /\ req[r].at = "tearDown" /\ req[r].todo = {}
      /\ rows' = [e \in Domain |-> IF e \in On(S) THEN [rows[e] EXCEPT !.st = "gone"]
                                                    ELSE rows[e]]
      /\ excused' = excused \cup {e \in On(S) : <<e, rows[e].rec>> \notin req[r].read}
      /\ UNCHANGED <<zone, ingress, pending, torn>>
      /\ live' \in {live, live \ S}
      /\ Private(r) /\ Started(r) /\ Torn(r)
  BY DEF PurgeRows, DropProject, DropRows, Excuse, Routed, Requested
<1>2. \A e \in Domain : /\ rows'[e].rec = rows[e].rec /\ rows'[e].target = rows[e].target
                        /\ rows'[e].route = rows[e].route
                        /\ rows'[e].st = IF e \in On(S) THEN "gone" ELSE rows[e].st
                        /\ e \notin On(S) => rows'[e] = rows[e]
                        /\ e \in On(S) <=> Live(e) /\ rows[e].target \in S
  <2>1. \A e \in Domain : /\ [rows[e] EXCEPT !.st = "gone"].rec = rows[e].rec
                          /\ [rows[e] EXCEPT !.st = "gone"].target = rows[e].target
                          /\ [rows[e] EXCEPT !.st = "gone"].route = rows[e].route
                          /\ [rows[e] EXCEPT !.st = "gone"].st = "gone"
    BY RequestFields DEF DomainRow
  <2>2. QED
    BY <1>1, <2>1 DEF On
<1>3. /\ \A q \in Request \ {r} : req'[q] = req[q]
      /\ \/ /\ req'[r].at = "idle" /\ req'[r].dom = None /\ req'[r].rec = None
            /\ req'[r].read = {} /\ req'[r].todo = {}
         \/ /\ req'[r].at = "target" /\ req'[r].dom = req[r].dom /\ req'[r].rec = req[r].rec
            /\ req'[r].read = req[r].read /\ req'[r].todo = req[r].todo
            /\ req'[r].targets = req[r].targets
  BY Ends, GoesOn DEF PurgeRows, DropProject
<1>4. Steps(r)
  <2>1. \A e \in Domain : RowKept(r, e)
    BY <1>2 DEF RowKept, Live
  <2>2. QED
    BY <1>1, <1>3, <2>1 DEF Steps, RecordKept, Learnt
<1>5. Private(r)' /\ Started(r)' /\ Torn(r)'
  <2>1. CASE req'[r].at = "idle"
    BY <1>3, <2>1, EndedKeeps DEF Adding, Removing, Writing
  <2>2. CASE req'[r].at = "target"
    <3>1. Private(r)'
      BY <2>2 DEF Private, Making
    <3>2. Started(r)'
      <4>1. req[r].rec # None => zone[req[r].rec].dom = req[r].dom /\ zone[req[r].rec].st # "none"
        BY <1>1 DEF Started, Known
      <4>2. req[r].dom # None => rows[req[r].dom].st # "none" /\ rows'[req[r].dom].st # "none"
        BY <1>1, <1>2, RequestFields DEF Started, Adding
      <4>3. QED
        BY <1>1, <1>3, <2>2, <4>1, <4>2 DEF Started, Known, Adding, Removing, Writing
    <3>3. Torn(r)'
      <4>1. \A x \in req[r].read : /\ x[1] \in Domain /\ rows'[x[1]].st # "none"
                                   /\ rows'[x[1]].target = rows[x[1]].target
        BY <1>1, <1>2, RequestFields DEF Torn
      <4>2. QED
        BY <1>1, <1>3, <2>2, <4>1 DEF Torn, Known, There
    <3>4. QED
      BY <3>1, <3>2, <3>3
  <2>3. QED
    BY <1>3, <2>1, <2>2
<1>6. ASSUME NEW e \in Domain PROVE Right(e)'
  <2>0. Right(e)
    BY DEF Routed
  <2>1. Known(rows[e].rec, e)'
    BY <1>1, <1>2, <2>0 DEF Right, Known
  <2>2. ASSUME e \notin excused', Matching(e)
        PROVE  Matching(e)'
    <3>1. \A q \in Request : (Writes(q, e)' <=> Writes(q, e)) /\ (Writes(q, e) => req'[q] = req[q])
      BY <1>1, <1>3, RequestFields DEF Writes, Writing
    <3>2. \A q \in Request : req[q].at \in Making => req'[q] = req[q]
      BY <1>1, <1>3 DEF Making
    <3>3. CASE e \in On(S)
      <4>1. e \in torn /\ ~There(rows[e].rec)
        <5>1. <<e, rows[e].rec>> \in req[r].read
          BY <1>1, <2>2, <3>3
        <5>2. QED
          BY <1>1, <2>2, <5>1 DEF Torn
      <4>2. Traced(e)'
        BY <1>1, <2>2, <3>2, <4>1 DEF Matching, Traced, There
      <4>3. rows'[e].st = "gone" /\ ~Live(e)' /\ Live(e)
        BY <1>2, <3>3 DEF Live
      <4>4. e \in torn' /\ ingress'[e] = "none"
        BY <1>1, <2>2, <4>1 DEF Matching
      <4>5. \A q, p \in Request : Writes(q, e)' /\ Writes(p, e)' => q = p
        BY <2>2, <3>1 DEF Matching
      <4>6. QED
        BY <4>2, <4>3, <4>4, <4>5 DEF Matching
    <3>4. CASE e \notin On(S)
      <4>1. rows'[e] = rows[e] /\ (Live(e)' <=> Live(e)) /\ (Live(e) => rows[e].target \notin S)
        BY <1>2, <3>4 DEF Live
      <4>2. Shown(e) => Shown(e)'
        BY <1>1, <3>1, <4>1 DEF Shown
      <4>3. Live(e) /\ Ending(e) => Ending(e)'
        BY <1>1, <1>3, <4>1 DEF Ending, Torn
      <4>4. Intact(e) => Intact(e)'
        BY <1>1, <4>1 DEF Intact, There
      <4>5. Traced(e) => Traced(e)'
        BY <1>1, <3>2, <4>1 DEF Traced, There
      <4>6. Live(e) => rows[e].target \in live' \cup {NoTarget}
        BY <1>1, <2>2, <4>1 DEF Matching
      <4>7. QED
        BY <1>1, <2>2, <3>1, <4>1, <4>2, <4>3, <4>4, <4>5, <4>6 DEF Matching
    <3>5. QED
      BY <3>3, <3>4
  <2>3. rows'[e].st = "none" <=> rows[e].st = "none"
    BY <1>2 DEF Live
  <2>4. e \in excused => e \in excused'
    BY <1>1
  <2>5. rows'[e].target = rows[e].target /\ rows'[e].route = rows[e].route
        /\ ingress'[e] = ingress[e]
    BY <1>1, <1>2
  <2>6. QED
    BY <2>0, <2>1, <2>2, <2>3, <2>4, <2>5 DEF Right
<1>7. QED
  BY <1>4, <1>5, <1>6, RoutedStep

\* Requests that end, or pass to the row of the target, leave a domain with which they are
\* not halfway through as its row says.
LEMMA LeftWhole ==
    ASSUME TypeOK, Routed, NEW e \in Domain, Matching(e), NEW S \in SUBSET Request,
           \A r \in S : /\ e \notin Halfway(r)
                        /\ req'[r].at \in {"idle", "target"}
                        /\ req[r].at = "tearDown" \/ req'[r].dom = None,
           \A r \in Request \ S : req'[r] = req[r],
           UNCHANGED <<live, rows, zone, ingress, torn>>, e \in pending' <=> e \in pending
    PROVE  Matching(e)'
<1>1. \A q \in Request : Writes(q, e)' <=> Writes(q, e) /\ q \notin S
  BY DEF Writes, Writing
<1>2. \A q \in S : Writes(q, e) => req[q].at \in {"checkDns", "editIngress"}
  BY DEF Writes, Writing, Halfway
<1>3. Live(e) /\ e \notin torn => Shown(e)'
  <2> SUFFICES ASSUME Live(e), e \notin torn PROVE Shown(e)'
    OBVIOUS
  <2>1. Shown(e)
    BY DEF Matching
  <2>2. ASSUME NEW q \in S, Writes(q, e)
        PROVE  Shown(e)'
    <3>1. ingress[e] = Wanted(rows[e].route)
      BY <1>2, <2>1, <2>2 DEF Shown
    <3>2. \A p \in Request : ~Writes(p, e)'
      BY <1>1, <2>2 DEF Matching
    <3>3. QED
      BY <3>1, <3>2 DEF Shown
  <2>3. CASE \A q \in S : ~Writes(q, e)
    BY <1>1, <2>1, <2>3 DEF Shown
  <2>4. QED
    BY <2>2, <2>3
<1>4. Ending(e) => Ending(e)'
  BY DEF Ending, Halfway
<1>5. Traced(e)'
  <2> SUFFICES ASSUME NEW n \in Record, There(n), zone[n].dom = e, ~(Live(e) /\ rows[e].rec = n)
               PROVE  \E q \in Request : req'[q].dom = e /\ req'[q].at \in Making
                                       /\ req'[q].rec = n
    BY DEF Traced, There, Live
  <2>1. PICK q \in Request : req[q].dom = e /\ req[q].at \in Making /\ req[q].rec = n
    BY DEF Matching, Traced
  <2>2. q \notin S
    BY <2>1, RequestFields DEF Halfway, Making
  <2>3. QED
    BY <2>1, <2>2
<1>6. QED
  BY <1>1, <1>3, <1>4, <1>5 DEF Matching, Live, Intact, There

\* A request that is cut off excuses the domains with which it is halfway through.
LEMMA RoutedCut ==
    ASSUME TypeOK, Routed, NEW r \in Request, Cut(r)
    PROVE  Routed'
<1>1. /\ UNCHANGED <<live, rows, zone, ingress, pending, torn>>
      /\ excused' = excused \cup Halfway(r) /\ End(r)
  BY DEF Cut, Excuse
<1>2. /\ req'[r].at = "idle" /\ req'[r].dom = None /\ req'[r].rec = None
      /\ req'[r].read = {} /\ req'[r].todo = {}
      /\ \A q \in Request \ {r} : req'[q] = req[q]
  BY <1>1, Ends
<1>3. Steps(r)
  BY <1>1, <1>2 DEF Steps, RowKept, RecordKept, Learnt
<1>4. Private(r)' /\ Started(r)' /\ Torn(r)'
  BY <1>2, EndedKeeps DEF Adding, Removing, Writing
<1>5. ASSUME NEW e \in Domain PROVE Right(e)'
  <2>1. Right(e)
    BY DEF Routed
  <2>2. e \notin excused' => Matching(e)'
    <3> SUFFICES ASSUME e \notin excused' PROVE Matching(e)'
      OBVIOUS
    <3>1. Matching(e) /\ e \notin Halfway(r)
      BY <1>1, <2>1 DEF Right
    <3>2. {r} \in SUBSET Request
      OBVIOUS
    <3>3. QED
      BY <1>1, <1>2, <3>1, <3>2, LeftWhole
  <2>3. Known(rows[e].rec, e)'
    BY <1>1, <2>1 DEF Right, Known
  <2>4. QED
    BY <1>1, <2>1, <2>2, <2>3 DEF Right
<1>6. QED
  BY <1>3, <1>4, <1>5, RoutedStep

\* A purge whose DELETE fails excuses what it has torn down.
LEMMA RoutedPurgeFails ==
    ASSUME TypeOK, Routed, NEW r \in Request, PurgeRows(r), ~DropRows(r)
    PROVE  Routed'
<1>1. /\ UNCHANGED <<live, rows, zone, ingress, pending, torn>>
      /\ excused' = excused \cup Halfway(r) /\ Goto(r, "target") /\ req[r].at = "tearDown"
      /\ Private(r) /\ Started(r) /\ Torn(r)
  BY DEF PurgeRows, Excuse, Routed, Requested
<1>2. /\ req'[r].at = "target" /\ req'[r].dom = req[r].dom /\ req'[r].rec = req[r].rec
      /\ req'[r].read = req[r].read /\ req'[r].todo = req[r].todo
      /\ req'[r].targets = req[r].targets
      /\ \A q \in Request \ {r} : req'[q] = req[q]
  BY <1>1, GoesOn
<1>3. Steps(r)
  BY <1>1, <1>2 DEF Steps, RowKept, RecordKept, Learnt
<1>4. Private(r)'
  BY <1>2 DEF Private, Making
<1>5. Started(r)'
  <2>1. /\ req[r].rec # None => /\ zone[req[r].rec].dom = req[r].dom
                               /\ zone[req[r].rec].st # "none"
        /\ req[r].dom # None => rows[req[r].dom].st # "none"
    BY <1>1 DEF Started, Known, Adding
  <2>2. QED
    BY <1>1, <1>2, <2>1 DEF Started, Known, Adding, Removing, Writing
<1>6. Torn(r)'
  BY <1>1, <1>2 DEF Torn, Known, There
<1>7. ASSUME NEW e \in Domain PROVE Right(e)'
  <2>1. Right(e)
    BY DEF Routed
  <2>2. e \notin excused' => Matching(e)'
    <3> SUFFICES ASSUME e \notin excused' PROVE Matching(e)'
      OBVIOUS
    <3>1. Matching(e) /\ e \notin Halfway(r)
      BY <1>1, <2>1 DEF Right
    <3>2. {r} \in SUBSET Request
      OBVIOUS
    <3>3. QED
      BY <1>1, <1>2, <3>1, <3>2, LeftWhole
  <2>3. Known(rows[e].rec, e)'
    BY <1>1, <2>1 DEF Right, Known
  <2>4. QED
    BY <1>1, <2>1, <2>2, <2>3 DEF Right
<1>8. QED
  BY <1>3, <1>4, <1>5, <1>6, <1>7, RoutedStep

\* A request goes on with the other account, or without a record.
LEMMA RoutedLookUp ==
    ASSUME TypeOK, Routed, NEW r \in Request, LookUpFails(r)
    PROVE  Routed'
<1>1. /\ UNCHANGED <<rows, zone, ingress, pending, torn, live, excused>>
      /\ req[r].at \in {"addDns", "checkDns", "removeDns"}
      /\ Private(r) /\ Started(r) /\ Torn(r)
  BY DEF LookUpFails, Routed, Requested
<1>2. /\ \A q \in Request \ {r} : req'[q] = req[q]
      /\ req'[r].at = IF req[r].at = "addDns" THEN "addRow" ELSE req[r].at
      /\ req'[r].dom = req[r].dom /\ req'[r].rec = req[r].rec
      /\ req'[r].target = req[r].target /\ req'[r].route = req[r].route
      /\ req'[r].read = req[r].read /\ req'[r].todo = req[r].todo
      /\ req'[r].targets = req[r].targets
  <2>1. \A l : req' = [req EXCEPT ![r].acct = "own", ![r].at = l] =>
            /\ \A q \in Request \ {r} : req'[q] = req[q]
            /\ req'[r].at = l /\ req'[r].rec = req[r].rec /\ req'[r].dom = req[r].dom
            /\ req'[r].target = req[r].target /\ req'[r].route = req[r].route
            /\ req'[r].read = req[r].read /\ req'[r].todo = req[r].todo
            /\ req'[r].targets = req[r].targets
    BY RequestFields DEF RequestState
  <2>2. req' = [req EXCEPT ![r].acct = "own",
                           ![r].at = IF req[r].at = "addDns" THEN "addRow" ELSE req[r].at]
    BY RequestFields DEF LookUpFails, RequestState
  <2>3. QED
    BY <2>1, <2>2
<1>3. req[r].at = "addDns" => req[r].rec = None
  BY <1>1 DEF Started, Adding
<1>4. Private(r)' /\ Torn(r)' /\ Learnt(r)
  BY <1>1, <1>2, <1>3 DEF Private, Making, Torn, Known, There, Learnt
<1>5. Started(r)'
  <2>1. req[r].rec # None => /\ zone[req[r].rec].dom = req[r].dom
                             /\ zone[req[r].rec].st # "none"
    BY <1>1 DEF Started, Known
  <2>2. CASE req[r].at = "addDns"
    BY <1>1, <1>2, <2>1, <2>2 DEF Started, Known, Adding, Removing, Writing
  <2>3. CASE req[r].at # "addDns"
    <3>1. req'[r].at = req[r].at
      BY <1>2, <2>3
    <3>2. QED
      BY <1>1, <1>2, <2>1, <2>3, <3>1 DEF Started, Known, Adding, Removing, Writing, Live
  <2>4. QED
    BY <2>2, <2>3
<1>6. ASSUME NEW d \in Domain, d = req[r].dom
      PROVE  Right(d)'
  <2>0. Right(d)
    BY DEF Routed
  <2>1. Ending(d) => Ending(d)'
    BY <1>1, <1>2 DEF Ending
  <2>2. \A q \in Request : /\ Writes(q, d) <=> Writes(q, d)'
                           /\ Writes(q, d) => req'[q].at = req[q].at /\ req'[q].route = req[q].route
    BY <1>1, <1>2 DEF Writes, Writing
  <2>3. Shown(d) => Shown(d)'
    BY <1>1, <2>2 DEF Shown
  <2>4. Traced(d) => Traced(d)'
    BY <1>1, <1>2 DEF Traced, There, Live, Making
  <2>5. QED
    BY <1>1, <2>0, <2>1, <2>2, <2>3, <2>4, QuietDomain DEF Matching
<1>7. QED
  BY <1>1, <1>2, <1>4, <1>5, <1>6, RoutedQuiet

\* The row of a target goes, and the domains that still point at it are a named mishap.
LEMMA RoutedDropTarget ==
    ASSUME TypeOK, Routed, NEW r \in Request, DropTarget(r) \/ CloseBranch(r)
    PROVE  Routed'
<1>1. /\ req[r].at \in {"target", "branch"}
      /\ live' = live \ req[r].targets /\ excused' = excused \cup On(req[r].targets)
      /\ UNCHANGED <<rows, zone, ingress, pending, torn>>
  BY DEF DropTarget, CloseBranch, Excuse
<1>2. /\ req'[r].at = "idle" /\ req'[r].dom = None /\ req'[r].rec = None
      /\ req'[r].read = {} /\ req'[r].todo = {}
      /\ \A q \in Request \ {r} : req'[q] = req[q]
  BY Ends DEF DropTarget, CloseBranch
<1>3. Steps(r)
  BY <1>1, <1>2 DEF Steps, RowKept, RecordKept, Learnt
<1>4. Private(r)' /\ Started(r)' /\ Torn(r)'
  BY <1>2, EndedKeeps DEF Adding, Removing, Writing
<1>5. ASSUME NEW e \in Domain PROVE Right(e)'
  <2>0. Right(e)
    BY DEF Routed
  <2>1. Known(rows[e].rec, e)'
    BY <1>1, <2>0 DEF Right, Known
  <2>2. ASSUME e \notin excused', Matching(e)
        PROVE  Matching(e)'
    <3>1. \A q \in Request : (Writes(q, e)' <=> Writes(q, e)) /\ (Writes(q, e) => req'[q] = req[q])
      BY <1>1, <1>2, RequestFields DEF Writes, Writing
    <3>2. Shown(e) => Shown(e)'
      BY <1>1, <3>1 DEF Shown
    <3>3. Ending(e) => Ending(e)'
      BY <1>1, <1>2 DEF Ending
    <3>4. Intact(e) => Intact(e)'
      BY <1>1 DEF Intact, There
    <3>5. Traced(e)'
      <4>1. \A q \in Request : req[q].at \in Making => req'[q] = req[q]
        BY <1>1, <1>2 DEF Making
      <4>2. QED
        BY <1>1, <2>2, <4>1 DEF Matching, Traced, There, Live
    <3>6. Live(e) => rows[e].target \in live' \cup {NoTarget}
      BY <1>1, <2>2 DEF Matching, On
    <3>7. \A q, p \in Request : Writes(q, e)' /\ Writes(p, e)' => q = p
      BY <2>2, <3>1 DEF Matching
    <3>8. QED
      BY <1>1, <2>2, <3>2, <3>3, <3>4, <3>5, <3>6, <3>7 DEF Matching, Live
  <2>3. QED
    BY <1>1, <2>0, <2>1, <2>2 DEF Right
<1>6. QED
  BY <1>3, <1>4, <1>5, RoutedStep

\* The task that was spawned deletes the Ingress of a row that is gone.
LEMMA RoutedUnroute ==
    ASSUME TypeOK, Routed, NEW d \in Domain, DeleteIngress(d)
    PROVE  Routed'
<1>1. /\ UNCHANGED <<live, rows, zone, req>>
      /\ d \in pending /\ pending' = pending \ {d} /\ torn' = torn \cup {d}
      /\ excused \subseteq excused'
      /\ \A e \in Domain \ {d} : ingress'[e] = ingress[e]
      /\ ingress'[d] \in {ingress[d], "none"}
      /\ d \notin excused' => ingress'[d] = "none"
  BY DEF DeleteIngress, Excuse, TypeOK, RouteTyped
<1>2. ASSUME NEW r \in Request PROVE Private(r)' /\ Started(r)' /\ Torn(r)'
  <2>1. Private(r) /\ Started(r) /\ Torn(r)
    BY DEF Routed, Requested
  <2>2. Private(r)'
    BY <1>1, <2>1 DEF Private, There
  <2>3. Started(r)'
    BY <1>1, <2>1 DEF Started, Known, There, Live
  <2>4. Torn(r)'
    BY <1>1, <2>1 DEF Torn, Known, There
  <2>5. QED
    BY <2>2, <2>3, <2>4
<1>3. ASSUME NEW e \in Domain PROVE Right(e)'
  <2>0. Right(e)
    BY DEF Routed
  <2>1. Known(rows[e].rec, e)'
    BY <1>1, <2>0 DEF Right, Known
  <2>2. ASSUME e \notin excused', Matching(e)
        PROVE  Matching(e)'
    <3>1. (Traced(e) => Traced(e)') /\ (Intact(e) => Intact(e)') /\ (Ending(e) => Ending(e)')
      BY <1>1 DEF Traced, Intact, Ending, There, Live
    <3>2. \A q \in Request : Writes(q, e)' <=> Writes(q, e)
      BY <1>1 DEF Writes
    <3>3. CASE e = d
      BY <1>1, <2>2, <3>1, <3>2, <3>3 DEF Matching, Live
    <3>4. CASE e # d
      <4>1. Shown(e) => Shown(e)'
        BY <1>1, <3>2, <3>4 DEF Shown
      <4>2. QED
        BY <1>1, <2>2, <3>1, <3>2, <3>4, <4>1 DEF Matching, Live
    <3>5. QED
      BY <3>3, <3>4
  <2>3. QED
    BY <1>1, <2>0, <2>1, <2>2 DEF Right
<1>4. QED
  BY <1>1, <1>2, <1>3 DEF Routed, Requested, Blank

\* Of what a crash interrupts, the domains are a named mishap.
LEMMA RoutedCrash ==
    ASSUME TypeOK, Routed, RoutesCrash
    PROVE  Routed'
<1>1. /\ UNCHANGED <<live, rows, zone, ingress, torn>> /\ pending' = {}
      /\ excused' = excused \cup (pending \cup UNION {Halfway(r) : r \in Request})
  BY DEF RoutesCrash, Excuse
<1>2. \A r \in Request : /\ req'[r].at = "idle" /\ req'[r].dom = None /\ req'[r].rec = None
                         /\ req'[r].read = {} /\ req'[r].todo = {}
  BY DEF RoutesCrash, Idle
<1>3. ASSUME NEW r \in Request PROVE Private(r)' /\ Started(r)' /\ Torn(r)'
  BY <1>2, EndedKeeps DEF Adding, Removing, Writing
<1>4. ASSUME NEW e \in Domain PROVE Right(e)'
  <2>0. Right(e)
    BY DEF Routed
  <2>1. Known(rows[e].rec, e)'
    BY <1>1, <2>0 DEF Right, Known
  <2>2. ASSUME e \notin excused', Matching(e)
        PROVE  Matching(e)'
    <3>1. e \notin pending /\ \A r \in Request : e \notin Halfway(r)
      BY <1>1, <2>2
    <3>2. Request \in SUBSET Request
      OBVIOUS
    <3>3. QED
      BY <1>1, <1>2, <2>2, <3>1, <3>2, LeftWhole
  <2>3. QED
    BY <1>1, <2>0, <2>1, <2>2 DEF Right
<1>5. QED
  BY <1>1, <1>3, <1>4 DEF Routed, Requested, Blank

\* What happens to images, and to the credential, leaves the domains as they are.
LEMMA RoutedStays ==
    ASSUME Routed, UNCHANGED <<live, rows, zone, ingress, pending, req, torn, excused>>
    PROVE  Routed'
<1>1. ASSUME NEW r \in Request PROVE Private(r)' /\ Started(r)' /\ Torn(r)'
  <2>1. Private(r) /\ Started(r) /\ Torn(r)
    BY DEF Routed, Requested
  <2>2. Private(r)'
    BY <2>1 DEF Private, There
  <2>3. Started(r)'
    BY <2>1 DEF Started, Known, There, Live
  <2>4. Torn(r)'
    BY <2>1 DEF Torn, Known, There
  <2>5. QED
    BY <2>2, <2>3, <2>4
<1>2. ASSUME NEW e \in Domain PROVE Right(e)'
  <2>1. Right(e)
    BY DEF Routed
  <2>2. Known(rows[e].rec, e)'
    BY <2>1 DEF Right, Known
  <2>3. (Traced(e) => Traced(e)') /\ (Intact(e) => Intact(e)') /\ (Ending(e) => Ending(e)')
    BY DEF Traced, Intact, Ending, There, Live
  <2>4. \A q \in Request : Writes(q, e)' <=> Writes(q, e)
    BY DEF Writes
  <2>5. Shown(e) => Shown(e)'
    BY <2>4 DEF Shown
  <2>6. Matching(e) => Matching(e)'
    BY <2>3, <2>4, <2>5 DEF Matching, Live
  <2>7. QED
    BY <2>1, <2>2, <2>6 DEF Right
<1>3. QED
  BY <1>1, <1>2 DEF Routed, Requested, Blank

LEMMA RoutedNext == TypeOK /\ Deleting /\ Routed /\ [Next]_vars => Routed'
<1> SUFFICES ASSUME TypeOK, Deleting, Routed, [Next]_vars PROVE Routed'
  OBVIOUS
<1>1. ASSUME RouteNext PROVE Routed'
  <2>1. ASSUME NEW r \in Request,
               \/ \E n \in Fqdn, t \in Target, k \in Route : AskAdd(r, n, t, k)
               \/ \E d \in Domain : AskVerify(r, d) \/ AskRemove(r, d)
               \/ \E d \in Domain, k \in Route : AskUpdate(r, d, k)
               \/ \E t \in live : AskDrop(r, t)
               \/ AskDropProject(r) \/ ReadDomains(r)
               \/ \E i \in App : AskCloseBranch(r, i)
        PROVE  Routed'
    BY <2>1, RoutedAskAdd, RoutedAskWrite, RoutedAskRemove, RoutedAskDrop
  <2>2. ASSUME NEW r \in Request,
               \/ CreateRecord(r) \/ CreateRefused(r) \/ CreateLost(r)
               \/ InsertRow(r) \/ ApplyIngress(r) \/ IngressFails(r)
               \/ StoreVerified(r) \/ StoreUpdated(r)
               \/ Cut(r) \/ LookUpFails(r)
        PROVE  Routed'
    BY <2>2, RoutedCut, RoutedLookUp, RoutedCreate, RoutedRefused, RoutedFails, RoutedInsert, RoutedApply, RoutedStore
  <2>3. ASSUME NEW r \in Request,
               \/ DeleteRecord(r) \/ DeleteLost(r) \/ DropRow(r)
               \/ TearDown(r) \/ PurgeRows(r)
        PROVE  Routed'
    BY <2>3, RoutedDelete, RoutedFails, RoutedDropRow, RoutedTearDown, RoutedPurge,
       RoutedPurgeFails
  <2>4. ASSUME NEW d \in Domain, DeleteIngress(d) PROVE Routed'
    BY <2>4, RoutedUnroute
  <2>5. CASE ChangeCredential
    BY <2>5, RoutedStays DEF ChangeCredential
  <2>6. QED
    BY <1>1, <2>1, <2>2, <2>3, <2>4, <2>5 DEF RouteNext
<1>2. CASE ImageNext /\ UNCHANGED routeVars
  BY <1>2, ImageDeletions, RoutedStays DEF routeVars
<1>3. ASSUME NEW r \in Request, DropTargets(r) PROVE Routed'
  BY <1>3, RoutedDropTarget, RoutedPurge DEF DropTargets
<1>4. CASE Crash
  BY <1>4, RoutedCrash DEF Crash
<1>5. CASE UNCHANGED vars
  BY <1>5, RoutedStays DEF vars, targetVars, routeVars
<1>6. QED
  BY <1>1, <1>2, <1>3, <1>4, <1>5 DEF Next

\* Whatever the targets, names, requests and bounds: once no request is under way, every
\* domain to which no named mishap has happened points at something that exists, and has
\* the record and the Ingress that its row describes, or neither if it has no row.
THEOREM RoutesMatchRowsAlways == Spec => []RoutesMatchRows
BY TypeInit, TypeNext, DeletingInit, DeletingNext, RoutedInit, RoutedNext, RoutedMatches,
   PTL DEF Spec

=============================================================================
