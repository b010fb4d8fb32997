--------------------------- MODULE DomainRouting ---------------------------
(***************************************************************************)
(* The domains of a workspace (controllers/domain_controller.rs): a row,   *)
(* an A record at Cloudflare (utils/cloudflare.rs) and an Ingress named    *)
(* after the row (utils/k8s.rs), made and removed by requests that hold no *)
(* lock and drop most errors.  One action is one statement or one call.    *)
(*                                                                         *)
(* A record belongs to the account whose token made it: that of the        *)
(* credential linked to the target's project, or the platform's own.  A    *)
(* domain's id is drawn when it is asked for, so that the record made      *)
(* before its row can be told from others.                                 *)
(***************************************************************************)
EXTENDS Targets

CONSTANTS
    Fqdn,        \* names of domains
    Request,     \* requests in flight at one time
    NumDomains,  \* bound: domains asked for
    NumRecords   \* bound: records made at Cloudflare

ASSUME DomainBoundsOK ==
    Fqdn # {} /\ NumDomains \in Nat \ {0} /\ NumRecords \in Nat \ {0}

VARIABLES
    rows,       \* rows[d]: the row of domain d
    zone,       \* zone[n]: record n at Cloudflare
    ingress,    \* ingress[d]: the service behind Ingress domain-<d>
    pending,    \* domains whose Ingress remove_domain spawned the deletion of
    linked,     \* the project is linked to its Cloudflare credential
    req,        \* req[r]: where a request is and what it has read
    torn,       \* ghost: domains whose Ingress was deleted with their row to follow
    excused     \* ghost: domains to which one of the named mishaps happened

routeVars == <<rows, zone, ingress, pending, linked, req, torn, excused>>

Domain == 1..NumDomains
Record == 1..NumRecords
None == 0
NoTarget == "none"
Target == App \cup Database \cup {NoTarget}

\* What the edge does for a domain: forwards to its target's service ("app") or to
\* another ("other"), nothing for want of a host ("bare"), or is no proxy ("static")
Route == {"app", "other", "bare", "static"}
Proxied == {"app", "other"}
RoutesOf(t) == IF t \in App THEN {"app"}
               ELSE IF t \in Database THEN {"static"} ELSE {"other", "bare", "static"}

NoRow == [st |-> "none", name |-> CHOOSE n \in Fqdn : TRUE, target |-> NoTarget,
          route |-> "static", rec |-> None]
NoRecord == [st |-> "none", dom |-> None, acct |-> "own"]
Idle == [at |-> "idle", dom |-> None, name |-> NoRow.name, target |-> NoTarget,
         route |-> "static", rec |-> None, acct |-> "own", targets |-> {},
         whole |-> FALSE, read |-> {}, todo |-> {}]

Live(d) == rows[d].st = "live"
Registered(n) == \E d \in Domain : Live(d) /\ rows[d].name = n
On(S) == {d \in Domain : Live(d) /\ rows[d].target \in S}
There(n) == n # None /\ zone[n].st = "there"

\* Nothing yet, or one domain of an instance as add_domain leaves it
RouteInit ==
    /\ \E n \in Fqdn, t \in App, given \in BOOLEAN :
        /\ rows = [d \in Domain |-> IF given /\ d = 1
                    THEN [st |-> "live", name |-> n, target |-> t,
                          route |-> "app", rec |-> 1]
                    ELSE NoRow]
        /\ zone = [m \in Record |-> IF given /\ m = 1
                    THEN [st |-> "there", dom |-> 1, acct |-> "project"]
                    ELSE NoRecord]
        /\ ingress = [d \in Domain |-> IF given /\ d = 1 THEN "app" ELSE "none"]
    /\ pending = {} /\ linked = TRUE
    /\ req = [r \in Request |-> Idle]
    /\ torn = {} /\ excused = {}

-----------------------------------------------------------------------------
(***************************************************************************)
(* Helpers                                                                 *)
(***************************************************************************)

Goto(r, l) == req' = [req EXCEPT ![r].at = l]
End(r) == req' = [req EXCEPT ![r] = Idle]
Excuse(S) == excused' = excused \cup S
ExcuseIf(harm, d) == Excuse(IF harm THEN {d} ELSE {})

Untouched == {d \in Domain \ excused : /\ rows[d].st = "none"
                                       /\ \A r \in Request : req[r].dom # d
                                       /\ \A m \in Record : zone[m].dom # d}
Unused == {d \in Untouched : \A e \in Untouched : d <= e}
Fresh == {m \in Record : zone[m].st = "none" /\ \A k \in 1..(m - 1) : zone[k].st # "none"}

\* Requests that write the Ingress and the row of a domain from what they have read
Writing == {"addIngress", "checkDns", "checkIngress", "checkRow", "editIngress", "editRow"}
Contended(d, r) == \E q \in Request \ {r} : req[q].dom = d /\ req[q].at \in Writing

\* resolve_project_cf finds the project through the row of the target
Account(t) == IF linked /\ t \in live THEN "project" ELSE "own"

\* The domains that a request leaves otherwise than their rows say if it ends here: the
\* record is made or deleted, or the Ingress changed, and the row is not
Halfway(r) == {d \in Domain :
    \/ req[r].dom = d /\ req[r].at \in {"addIngress", "checkIngress", "checkRow", "editRow"}
    \/ req[r].dom = d /\ req[r].at \in {"addRow", "removeRow"} /\ req[r].rec # None
    \/ req[r].at = "tearDown" /\ \E x \in req[r].read \ req[r].todo : x[1] = d}

\* A statement fails that ends the request (with ?, or the last of the webhook's task),
\* or the client leaves
Cut(r) ==
    /\ req[r].at # "idle"
    /\ Mishap
    /\ Excuse(Halfway(r))
    /\ End(r)
    /\ UNCHANGED <<live, doomed, rows, zone, ingress, pending, linked, torn>>

\* A look-up of resolve_project_cf fails, and passes for a project without credential
LookUpFails(r) ==
    /\ req[r].at \in {"addDns", "checkDns", "removeDns"} /\ req[r].acct = "project"
    /\ Mishap
    /\ req' = [req EXCEPT ![r].acct = "own",
                          ![r].at = IF req[r].at = "addDns" THEN "addRow" ELSE @]
    /\ UNCHANGED <<live, doomed, rows, zone, ingress, pending, linked, torn, excused>>

-----------------------------------------------------------------------------
(***************************************************************************)
(* add_domain: the record, the row, the Ingress                            *)
(***************************************************************************)

AskAdd(r, n, t, k) ==
    /\ req[r] = Idle
    /\ Ask
    /\ ~Registered(n)
    /\ t \in live \cup {NoTarget} /\ k \in RoutesOf(t)
    /\ \E d \in Unused : req' = [req EXCEPT ![r] =
        [Idle EXCEPT !.at = IF Account(t) = "project" THEN "addDns" ELSE "addRow",
                     !.dom = d, !.name = n, !.target = t, !.route = k,
                     !.acct = Account(t)]]
    /\ UNCHANGED <<live, doomed, rows, zone, ingress, pending, linked, torn, excused>>

\* create_dns_record, also for verify_and_sync_domain
CreateRecord(r) ==
    /\ req[r].at \in {"addDns", "checkDns"}
    /\ \E m \in Fresh :
        /\ zone' = [zone EXCEPT ![m] =
                [st |-> "there", dom |-> req[r].dom, acct |-> req[r].acct]]
        /\ req' = [req EXCEPT ![r].rec = m,
                ![r].at = IF req[r].at = "addDns" THEN "addRow" ELSE "checkIngress"]
    /\ UNCHANGED <<live, doomed, events, rows, ingress, pending, linked, torn, excused>>

\* Cloudflare is free to refuse a record identical to one it has
CreateRefused(r) ==
    /\ req[r].at \in {"addDns", "checkDns"}
    /\ IF req[r].at = "checkDns" THEN UNCHANGED events ELSE Mishap
    /\ End(r)
    /\ UNCHANGED <<live, doomed, rows, zone, ingress, pending, linked, torn, excused>>

\* The answer is lost: the record is there and nothing knows its id
CreateLost(r) ==
    /\ req[r].at \in {"addDns", "checkDns"}
    /\ Mishap
    /\ \E m \in Fresh : zone' = [zone EXCEPT ![m] =
            [st |-> "there", dom |-> req[r].dom, acct |-> req[r].acct]]
    /\ Excuse({req[r].dom})
    /\ End(r)
    /\ UNCHANGED <<live, doomed, rows, ingress, pending, linked, torn>>

\* The name is UNIQUE in the workspace; nothing ties the row to its target's
InsertRow(r) ==
    /\ req[r].at = "addRow"
    /\ LET q == req[r]
           taken == Registered(q.name)
       IN  /\ rows' = IF taken THEN rows ELSE [rows EXCEPT ![q.dom] =
                [st |-> "live", name |-> q.name, target |-> q.target,
                 route |-> q.route, rec |-> q.rec]]
           /\ ExcuseIf(IF taken THEN q.rec # None
                       ELSE q.target \notin live \cup {NoTarget}, q.dom)
           /\ IF ~taken /\ q.route \in Proxied THEN Goto(r, "addIngress") ELSE End(r)
    /\ UNCHANGED <<live, doomed, events, zone, ingress, pending, linked, torn>>

\* Mutant: what has ceased to be a proxy keeps its Ingress
Applied_Stale(q, was) == IF q.route \in Proxied THEN q.route ELSE was

Applied(q, was) ==
    IF q.route \in Proxied THEN q.route
    ELSE IF q.at = "editIngress" /\ q.route = "static" THEN "none" ELSE was

\* deploy_ingress, or delete_ingress for what has ceased to be a proxy, of
\* add_domain, verify_and_sync_domain and update_domain
ApplyIngress(r) ==
    /\ req[r].at \in {"addIngress", "checkIngress", "editIngress"}
    /\ LET q == req[r]
       IN  /\ ingress' = [ingress EXCEPT ![q.dom] = Applied(q, @)]
           /\ ExcuseIf(\/ q.route \in Proxied /\ q.dom \in torn
                       \/ q.route = "bare" /\ ingress[q.dom] # "none", q.dom)
           /\ CASE q.at = "addIngress" -> End(r)
                [] q.at = "checkIngress" -> Goto(r, "checkRow")
                [] q.at = "editIngress" -> Goto(r, "editRow")
    /\ UNCHANGED <<live, doomed, events, rows, zone, pending, linked, torn>>

\* The error is dropped
IngressFails(r) ==
    /\ req[r].at \in {"addIngress", "checkIngress", "editIngress"}
    /\ Mishap
    /\ Excuse({req[r].dom})
    /\ CASE req[r].at = "addIngress" -> End(r)
         [] req[r].at = "checkIngress" -> Goto(r, "checkRow")
         [] req[r].at = "editIngress" -> Goto(r, "editRow")
    /\ UNCHANGED <<live, doomed, rows, zone, ingress, pending, linked, torn>>

-----------------------------------------------------------------------------
(***************************************************************************)
(* verify_and_sync_domain and update_domain                                *)
(***************************************************************************)

AskVerify(r, d) ==
    /\ req[r] = Idle /\ Live(d)
    /\ Ask
    /\ req' = [req EXCEPT ![r] =
        [Idle EXCEPT !.at = "checkDns", !.dom = d, !.route = rows[d].route,
                     !.acct = Account(rows[d].target)]]
    /\ ExcuseIf(Contended(d, r), d)
    /\ UNCHANGED <<live, doomed, rows, zone, ingress, pending, linked, torn>>

\* Another record is made however many there are: the id of the last one is forgotten
StoreVerified(r) ==
    /\ req[r].at = "checkRow"
    /\ LET d == req[r].dom
       IN  /\ rows' = IF Live(d) THEN [rows EXCEPT ![d].rec = req[r].rec] ELSE rows
           /\ ExcuseIf(~Live(d) \/ There(rows[d].rec), d)
    /\ End(r)
    /\ UNCHANGED <<live, doomed, events, zone, ingress, pending, linked, torn>>

AskUpdate(r, d, k) ==
    /\ req[r] = Idle /\ Live(d) /\ rows[d].target \notin Database
    /\ Ask
    /\ req' = [req EXCEPT ![r] =
        [Idle EXCEPT !.at = "editIngress", !.dom = d, !.route = k]]
    /\ ExcuseIf(Contended(d, r), d)
    /\ UNCHANGED <<live, doomed, rows, zone, ingress, pending, linked, torn>>

StoreUpdated(r) ==
    /\ req[r].at = "editRow"
    /\ LET d == req[r].dom
       IN rows' = IF Live(d) THEN [rows EXCEPT ![d].route = req[r].route] ELSE rows
    /\ End(r)
    /\ UNCHANGED <<live, doomed, events, zone, ingress, pending, linked, torn, excused>>

-----------------------------------------------------------------------------
(***************************************************************************)
(* remove_domain                                                           *)
(***************************************************************************)

AskRemove(r, d) ==
    /\ req[r] = Idle /\ Live(d)
    /\ Ask
    /\ req' = [req EXCEPT ![r] =
        [Idle EXCEPT !.at = "removeDns", !.dom = d, !.target = rows[d].target,
                     !.rec = rows[d].rec, !.acct = Account(rows[d].target)]]
    /\ UNCHANGED <<live, doomed, rows, zone, ingress, pending, linked, torn, excused>>

\* Whether delete_dns_record succeeds, with the token of an account
Deletable(n, acct) == There(n) /\ zone[n].acct = acct
DeleteFrom(n) == zone' = [zone EXCEPT ![n].st = "gone"]

\* A record that is not there, or is another account's, ends the request
DeleteRecord(r) ==
    /\ req[r].at = "removeDns"
    /\ LET n == req[r].rec
       IN  \/ n = None /\ Goto(r, "removeRow") /\ UNCHANGED zone
           \/ Deletable(n, req[r].acct) /\ DeleteFrom(n) /\ Goto(r, "removeRow")
           \/ n # None /\ ~Deletable(n, req[r].acct) /\ End(r) /\ UNCHANGED zone
    /\ UNCHANGED <<live, doomed, events, rows, ingress, pending, linked, torn, excused>>

\* The answer is lost, and every removal after this one is refused
DeleteLost(r) ==
    /\ req[r].at = "removeDns" /\ Deletable(req[r].rec, req[r].acct)
    /\ Mishap
    /\ DeleteFrom(req[r].rec)
    /\ Excuse({req[r].dom})
    /\ End(r)
    /\ UNCHANGED <<live, doomed, rows, ingress, pending, linked, torn>>

\* The deletion of the Ingress is spawned, and the row deleted
DropRow(r) ==
    /\ req[r].at = "removeRow"
    /\ LET d == req[r].dom
       IN  /\ pending' = IF req[r].target \in Database THEN pending ELSE pending \cup {d}
           /\ \/ /\ rows' = [rows EXCEPT ![d].st = "gone"]
                 /\ ExcuseIf(Live(d) /\ rows[d].rec # req[r].rec, d)
                 /\ UNCHANGED events
              \/ /\ Mishap    \* the DELETE fails
                 /\ Excuse({d})
                 /\ UNCHANGED rows
    /\ End(r)
    /\ UNCHANGED <<live, doomed, zone, ingress, linked, torn>>

\* The spawned task
DeleteIngress(d) ==
    /\ d \in pending
    /\ pending' = pending \ {d}
    /\ torn' = torn \cup {d}
    /\ \/ ingress' = [ingress EXCEPT ![d] = "none"] /\ UNCHANGED <<events, excused>>
       \/ Mishap /\ Excuse({d}) /\ UNCHANGED ingress
    /\ UNCHANGED <<live, doomed, rows, zone, linked, req>>

-----------------------------------------------------------------------------
(***************************************************************************)
(* delete_app_instance, delete_database and the deletion of the project:   *)
(* purge_domains_for_target, then the row of what the domains point at     *)
(***************************************************************************)

\* Mutant: the row is all that goes
Doom_Rows(S) == doomed' = doomed

\* A task is spawned that deletes the workload of each
Doom(S) == doomed' = doomed \cup S

DomainsOf(S) == {<<d, rows[d].rec>> : d \in On(S)}

AskDrop(r, t) ==
    /\ req[r] = Idle
    /\ Ask
    /\ Doom({t} \cap App)
    /\ req' = [req EXCEPT ![r] = [Idle EXCEPT !.at = "purge", !.targets = {t}]]
    /\ UNCHANGED <<live, rows, zone, ingress, pending, linked, torn, excused>>

\* A SELECT that fails finds none
ReadDomains(r) ==
    /\ req[r].at = "purge"
    /\ \E found \in {DomainsOf(req[r].targets), {}} :
        /\ IF found = DomainsOf(req[r].targets) THEN UNCHANGED events ELSE Mishap
        /\ req' = [req EXCEPT ![r].at = "tearDown", ![r].read = found, ![r].todo = found]
    /\ UNCHANGED <<live, doomed, rows, zone, ingress, pending, linked, torn, excused>>

\* delete_project reads the domains before it spawns the task
AskDropProject(r) ==
    /\ req[r] = Idle /\ live # {}
    /\ Ask
    /\ Doom(live \cap App)
    /\ req' = [req EXCEPT ![r] =
        [Idle EXCEPT !.at = "tearDown", !.targets = live, !.whole = TRUE,
                     !.read = DomainsOf(live), !.todo = DomainsOf(live)]]
    /\ UNCHANGED <<live, rows, zone, ingress, pending, linked, torn, excused>>

\* teardown_domain_resources: every error is dropped
TearDown(r) ==
    /\ req[r].at = "tearDown"
    /\ \E x \in req[r].todo :
        LET d == x[1]
            n == x[2]
            token == Account(rows[d].target)
        IN  /\ req' = [req EXCEPT ![r].todo = @ \ {x}]
            /\ torn' = torn \cup {d}
            /\ \/ /\ IF Deletable(n, token) THEN DeleteFrom(n) ELSE UNCHANGED zone
                  /\ ingress' = [ingress EXCEPT ![d] = "none"]
                  /\ ExcuseIf(There(n) /\ ~Deletable(n, token), d)
                  /\ UNCHANGED events
               \/ /\ Mishap
                  /\ Excuse({d})
                  /\ (Deletable(n, token) /\ DeleteFrom(n)) \/ UNCHANGED zone
                  /\ ingress' \in {ingress, [ingress EXCEPT ![d] = "none"]}
    /\ UNCHANGED <<live, doomed, rows, pending, linked>>

\* The rows are deleted by target, those that were added since with the others
DropRows(r) ==
    /\ LET S == On(req[r].targets)
       IN  /\ rows' = [d \in Domain |-> IF d \in S THEN [rows[d] EXCEPT !.st = "gone"]
                                                   ELSE rows[d]]
           /\ Excuse({d \in S : <<d, rows[d].rec>> \notin req[r].read})
    /\ UNCHANGED <<doomed, events, zone, ingress, pending, linked, torn>>

\* A DELETE that fails leaves the rows of what is torn down
PurgeRows(r) ==
    /\ req[r].at = "tearDown" /\ req[r].todo = {}
    /\ ~req[r].whole
    /\ \/ DropRows(r)
       \/ /\ Mishap
          /\ Excuse(Halfway(r))
          /\ UNCHANGED <<doomed, rows, zone, ingress, pending, linked, torn>>
    /\ Goto(r, "target")
    /\ UNCHANGED live

\* Both in the transaction of the project's deletion
DropProject(r) ==
    /\ req[r].at = "tearDown" /\ req[r].todo = {}
    /\ req[r].whole
    /\ DropRows(r)
    /\ live' = live \ req[r].targets
    /\ End(r)

\* A domain added after the purge is left to point at nothing
DropTarget(r) ==
    /\ req[r].at = "target"
    /\ live' = live \ req[r].targets
    /\ Excuse(On(req[r].targets))
    /\ End(r)
    /\ UNCHANGED <<doomed, events, rows, zone, ingress, pending, linked, torn>>

\* A closed pull request or a deleted branch: the webhook's task waits for the
\* cluster, deletes the row, and knows nothing of domains
AskCloseBranch(r, i) ==
    /\ req[r] = Idle /\ i \in Instances
    /\ Ask
    /\ Doom({i})
    /\ req' = [req EXCEPT ![r] = [Idle EXCEPT !.at = "branch", !.targets = {i}]]
    /\ UNCHANGED <<live, rows, zone, ingress, pending, linked, torn, excused>>

CloseBranch(r) ==
    /\ req[r].at = "branch" /\ req[r].targets \cap doomed = {}
    /\ live' = live \ req[r].targets
    /\ Excuse(On(req[r].targets))
    /\ End(r)
    /\ UNCHANGED <<doomed, events, rows, zone, ingress, pending, linked, torn>>

-----------------------------------------------------------------------------
\* The project's settings, or the deletion of the credential
ChangeCredential ==
    /\ Ask
    /\ linked' = ~linked
    /\ UNCHANGED <<live, doomed, rows, zone, ingress, pending, req, torn, excused>>

\* The part of a crash that concerns domains
RoutesCrash ==
    /\ req' = [r \in Request |-> Idle]
    /\ pending' = {}
    /\ Excuse(pending \cup UNION {Halfway(r) : r \in Request})
    /\ UNCHANGED <<live, rows, zone, ingress, linked, torn>>

\* Every step but those that take a target's row away, in which others take part
RouteNext ==
    \/ \E r \in Request :
        \/ \E n \in Fqdn, t \in Target, k \in Route : AskAdd(r, n, t, k)
        \/ CreateRecord(r) \/ CreateRefused(r) \/ CreateLost(r)
        \/ InsertRow(r) \/ ApplyIngress(r) \/ IngressFails(r)
        \/ Cut(r) \/ LookUpFails(r)
        \/ \E d \in Domain : AskVerify(r, d) \/ AskRemove(r, d)
        \/ \E d \in Domain, k \in Route : AskUpdate(r, d, k)
        \/ StoreVerified(r) \/ StoreUpdated(r)
        \/ DeleteRecord(r) \/ DeleteLost(r) \/ DropRow(r)
        \/ \E t \in live : AskDrop(r, t)
        \/ AskDropProject(r)
        \/ ReadDomains(r) \/ TearDown(r) \/ PurgeRows(r)
        \/ \E i \in App : AskCloseBranch(r, i)
    \/ \E d \in Domain : DeleteIngress(d)
    \/ ChangeCredential

DomainRow == [st : {"none", "live", "gone"}, name : Fqdn, target : Target, route : Route,
              rec : Record \cup {None}]
DnsRecord == [st : {"none", "there", "gone"}, dom : Domain \cup {None},
              acct : {"own", "project"}]
Stage == {"idle", "addDns", "addRow", "removeDns", "removeRow", "purge", "tearDown",
          "target", "branch"} \cup Writing
RequestState ==
    [at : Stage, dom : Domain \cup {None}, name : Fqdn, target : Target, route : Route,
     rec : Record \cup {None}, acct : {"own", "project"},
     targets : SUBSET (App \cup Database), whole : BOOLEAN,
     read : SUBSET (Domain \X (Record \cup {None})),
     todo : SUBSET (Domain \X (Record \cup {None}))]

RouteTyped ==
    /\ rows \in [Domain -> DomainRow] /\ zone \in [Record -> DnsRecord]
    /\ ingress \in [Domain -> Proxied \cup {"none"}]
    /\ pending \subseteq Domain \cup {None} /\ linked \in BOOLEAN
    /\ torn \subseteq Domain /\ excused \subseteq Domain \cup {None}
    /\ req \in [Request -> RequestState]

RoutesAtRest == pending = {} /\ \A r \in Request : req[r] = Idle

\* Whenever no request is under way, and but for the domains to which one of the
\* named mishaps happened: a domain with a row points at something that exists, has
\* the one record that is in its name at Cloudflare, if any, and the Ingress its row
\* describes; a domain without a row has neither record nor Ingress.  That is what
\* add_domain, verify_and_sync_domain, update_domain, remove_domain and the purges of
\* deleted targets promise together, in whatever order they overlap.
RoutesMatchRows == RoutesAtRest => \A d \in Domain \ excused :
    /\ {n \in Record : There(n) /\ zone[n].dom = d} =
            IF Live(d) THEN {rows[d].rec} \ {None} ELSE {}
    /\ ingress[d] = IF Live(d) /\ rows[d].route \in Proxied THEN rows[d].route ELSE "none"
    /\ Live(d) => rows[d].target \in live \cup {NoTarget}
=============================================================================
