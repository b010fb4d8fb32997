----------------------------- MODULE AppRemoval -----------------------------
(***************************************************************************)
(* Domains and images together, over the rows they belong to: what is left *)
(* in the cluster, at Cloudflare and in the registry while instances and   *)
(* databases are deleted, built, rolled back and given domains, and while  *)
(* the garbage collector passes.  The requests and failures of both draw   *)
(* on one budget, and a crash of the process interrupts both.              *)
(***************************************************************************)
EXTENDS DomainRouting, ImageGC

vars == <<targetVars, routeVars, imageVars>>

Init == TargetsInit /\ RouteInit /\ ImageInit

\* The rows of the targets go, and with those of instances the rows of their builds
DropTargets(r) ==
    /\ DropTarget(r) \/ DropProject(r) \/ CloseBranch(r)
    /\ Cascade(req[r].targets)

Crash ==
    /\ Mishap
    /\ doomed' = {}
    /\ RoutesCrash
    /\ ImagesCrash

Next ==
    \/ RouteNext /\ UNCHANGED imageVars
    \/ ImageNext /\ UNCHANGED routeVars
    \/ \E r \in Request : DropTargets(r)
    \/ Crash

\* The collector's loop, and the job that it creates in the cluster, go on
Spec == Init /\ [][Next]_vars /\ WF_vars(Collecting /\ UNCHANGED routeVars)

TypeOK == TargetsTyped /\ RouteTyped /\ ImageTyped
=============================================================================
