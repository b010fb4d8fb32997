--------------------------- MODULE InstanceRuntime ---------------------------
(***************************************************************************)
(* ONE deployed application instance while it runs: the workers that       *)
(* watch it (utils/health.rs), put it to sleep (utils/cron.rs), reconcile  *)
(* it (utils/builder.rs) and end its chaos experiments (utils/chaos.rs),   *)
(* and the requests that start, stop and disturb it                        *)
(* (controllers/app_controller.rs, chaos_controller.rs,                    *)
(* incident_controller.rs).                                                *)
(*                                                                         *)
(* They share the instance's row, its incidents, its experiments and its   *)
(* Deployment, and lock none of them: one action is one statement or call  *)
(* between two awaits.  The workers run in the leader, which LeaderLease   *)
(* models; builds and their deploys are in BuildPipeline.  Times are       *)
(* abstracted: a window may elapse at any moment.                          *)
(***************************************************************************)
EXTENDS Integers

CONSTANTS
    Prober,       \* health probes that can be in flight at one time
    User,         \* requests that can be in flight at one time
    Min,          \* app_instances.replicas_min
    Autoscaled,   \* whether replicas_max > replicas_min, so that an HPA exists
    Threshold,    \* HERMES_HEALTH_FAILURE_THRESHOLD
    MaxExps,      \* bound: experiments recorded
    MaxEvents     \* bound: requests, sleeps, faults, crashes and repairs

ASSUME RuntimeConstantsOK ==
    /\ Min \in Nat \ {0}
    /\ Autoscaled \in BOOLEAN
    /\ Threshold \in Nat \ {0}
    /\ MaxExps \in Nat
    /\ MaxEvents \in Nat

VARIABLES
    status,      \* app_instances.status
    failures,    \* consecutive_health_failures, counted to Threshold + 1
    open,        \* open[k]: incidents of kind k that are not resolved
    exps,        \* exps[e]: the rows of chaos_experiments
    replicas,    \* the replicas of the Deployment's spec, Gone without one
    ready,       \* one of its replicas is Ready
    app,         \* what the application does when it runs
    full,        \* its memory is at or over the alert's threshold
    probe,       \* probe[p]: where a health probe is
    metric,      \* where the metric alert worker is
    sleeper,     \* where the auto-sleep task is
    reconciler,  \* where reconcile_instance is
    reverter,    \* where the chaos worker is, and with which experiment
    user,        \* user[u]: where a request is, and with which experiment
    events,      \* events so far
    contested    \* ghost: others were acting on the instance when last stopped

row == <<status, failures>>
cluster == <<replicas, ready, app, full>>
workers == <<probe, metric, sleeper, reconciler, reverter>>
vars == <<row, open, exps, cluster, workers, user, events, contested>>

Gone == -1
Exp == 1..MaxExps
NoExp == 0
Kind == {"scale_down", "cpu_stress", "pod_kill"}
Incident == {"DOWN", "HIGH_MEMORY", "CHAOS"}
NoIncident == [k \in Incident |-> 0]
Status == {"running", "stopped", "failed", "crashed"}

Probed == {"running", "failed", "crashed"}

Idle == [at |-> "idle", exp |-> NoExp]
Task(l, e) == [at |-> l, exp |-> e]
Active == \E e \in Exp : exps[e].state = "running"

\* The instance runs, or its last deploy ended in a crash loop
Init ==
    /\ \/ /\ status = "running" /\ app = "serves" /\ ready = TRUE
          /\ open = NoIncident
       \/ /\ status = "crashed" /\ app = "crashes" /\ ready = FALSE
          /\ open = [NoIncident EXCEPT !["DOWN"] = 1]
    /\ failures = 0 /\ full = FALSE /\ replicas = Min
    /\ exps = [e \in Exp |-> [kind |-> "scale_down", state |-> "absent"]]
    /\ probe = [p \in Prober |-> "idle"]
    /\ metric = "idle" /\ sleeper = "idle" /\ reconciler = "idle"
    /\ reverter = Idle
    /\ user = [u \in User |-> Idle]
    /\ events = 0 /\ contested = FALSE

Event == events < MaxEvents /\ events' = events + 1

-----------------------------------------------------------------------------
(***************************************************************************)
(* The health probes.  The UPDATEs of a probe name the instance's id only, *)
(* whatever its status has become since the probe was sent.                *)
(***************************************************************************)

ProbeGoto(p, l) ==
    /\ probe' = [probe EXCEPT ![p] = l]
    /\ UNCHANGED <<metric, sleeper, reconciler, reverter>>

ProbeSend(p) ==
    /\ probe[p] = "idle"
    /\ status \in Probed
    /\ ProbeGoto(p, "sent")
    /\ UNCHANGED <<row, open, exps, cluster, user, events, contested>>

\* The application answers with a status below 500
ProbeAnswered(p) ==
    /\ probe[p] = "sent"
    /\ ready /\ app = "serves"
    /\ ProbeGoto(p, "clear")
    /\ UNCHANGED <<row, open, exps, cluster, user, events, contested>>

\* The request is lost, but Kubernetes says that a replica is Ready
ProbeFallsBack(p) ==
    /\ probe[p] = "sent"
    /\ ready
    /\ Event
    /\ ProbeGoto(p, "clear")
    /\ UNCHANGED <<row, open, exps, cluster, user, contested>>

\* A status of 500 or more; or no answer, and no replica is Ready
ProbeFails(p) ==
    /\ probe[p] = "sent"
    /\ ~ready \/ app # "serves"
    /\ ProbeGoto(p, "count")
    /\ UNCHANGED <<row, open, exps, cluster, user, events, contested>>

\* The request and the question to Kubernetes are both lost
ProbeBlips(p) ==
    /\ probe[p] = "sent"
    /\ Event
    /\ ProbeGoto(p, "count")
    /\ UNCHANGED <<row, open, exps, cluster, user, contested>>

\* resolve_active_incidents
ClearStreak(p) ==
    /\ probe[p] = "clear"
    /\ failures' = 0
    /\ ProbeGoto(p, "resolve")
    /\ UNCHANGED <<status, open, exps, cluster, user, events, contested>>

ResolveAll(p) ==
    /\ probe[p] = "resolve"
    /\ open' = NoIncident
    /\ ProbeGoto(p, "rise")
    /\ UNCHANGED <<row, exps, cluster, user, events, contested>>

Rise(p) ==
    /\ probe[p] = "rise"
    /\ status' = "running"
    /\ ProbeGoto(p, "idle")
    /\ UNCHANGED <<failures, open, exps, cluster, user, events, contested>>

\* Mutant: the alarm is raised once only
Alarming_Once(count) == count = Threshold

\* record_health_failure
Alarming(count) == count >= Threshold

CountFailure(p) ==
    /\ probe[p] = "count"
    /\ failures' = IF failures > Threshold THEN failures ELSE failures + 1
    /\ ProbeGoto(p, IF Alarming(failures') THEN "look" ELSE "idle")
    /\ UNCHANGED <<status, open, exps, cluster, user, events, contested>>

\* trigger_incident: an open incident of any kind counts as logged
AlreadyLogged == \E k \in Incident : open[k] > 0

LookForOpen(p) ==
    /\ probe[p] = "look"
    /\ ProbeGoto(p, IF AlreadyLogged THEN "idle" ELSE "log")
    /\ UNCHANGED <<row, open, exps, cluster, user, events, contested>>

LogIncident(p) ==
    /\ probe[p] = "log"
    /\ open' = [open EXCEPT !["DOWN"] = @ + 1]
    /\ ProbeGoto(p, "fall")
    /\ UNCHANGED <<row, exps, cluster, user, events, contested>>

Fall(p) ==
    /\ probe[p] = "fall"
    /\ status' = "failed"
    /\ ProbeGoto(p, "idle")
    /\ UNCHANGED <<failures, open, exps, cluster, user, events, contested>>

\* What a probe does without an accident
Probing(p) ==
    \/ ProbeSend(p) \/ ProbeAnswered(p) \/ ProbeFails(p)
    \/ ClearStreak(p) \/ ResolveAll(p) \/ Rise(p)
    \/ CountFailure(p) \/ LookForOpen(p) \/ LogIncident(p) \/ Fall(p)

-----------------------------------------------------------------------------
(***************************************************************************)
(* The metric alerts.  Without a running replica Prometheus has no sample, *)
(* or an old one.                                                          *)
(***************************************************************************)

MetricGoto(l) ==
    /\ metric' = l
    /\ UNCHANGED <<probe, sleeper, reconciler, reverter>>

Sample ==
    /\ metric = "idle"
    /\ status = "running"
    /\ replicas > 0
    /\ \E high \in IF ready THEN {full} ELSE BOOLEAN :
            MetricGoto(IF high THEN "high" ELSE "low")
    /\ UNCHANGED <<row, open, exps, cluster, user, events, contested>>

LookAtAlert ==
    /\ metric \in {"high", "low"}
    /\ MetricGoto(CASE metric = "high" /\ open["HIGH_MEMORY"] = 0 -> "raise"
                    [] metric = "low" /\ open["HIGH_MEMORY"] > 0 -> "settle"
                    [] OTHER -> "idle")
    /\ UNCHANGED <<row, open, exps, cluster, user, events, contested>>

RaiseAlert ==
    /\ metric = "raise"
    /\ open' = [open EXCEPT !["HIGH_MEMORY"] = @ + 1]
    /\ MetricGoto("idle")
    /\ UNCHANGED <<row, exps, cluster, user, events, contested>>

SettleAlert ==
    /\ metric = "settle"
    /\ open' = [open EXCEPT !["HIGH_MEMORY"] = 0]
    /\ MetricGoto("idle")
    /\ UNCHANGED <<row, exps, cluster, user, events, contested>>

Alerting == Sample \/ LookAtAlert \/ RaiseAlert \/ SettleAlert

-----------------------------------------------------------------------------
(***************************************************************************)
(* Stopping and starting, by a request or by the auto-sleep worker: the    *)
(* Deployment is scaled first, the status written afterwards.  Scaling     *)
(* fails when there is no Deployment.                                      *)
(***************************************************************************)

UserGoto(u, l, e) == user' = [user EXCEPT ![u] = Task(l, e)]

SleeperGoto(l) ==
    /\ sleeper' = l
    /\ UNCHANGED <<probe, metric, reconciler, reverter>>

\* scale_deployment, and whether it succeeds
Scalable == replicas # Gone
ScaleTo(n) == replicas' = n /\ UNCHANGED <<ready, app, full>>

\* Who can still scale the Deployment up when the instance is marked stopped
Restoring(task) == task.at = "restore"
Contenders ==
    \/ replicas > 0
    \/ reconciler # "idle"
    \/ \E e \in Exp : exps[e].state \in {"chosen", "running"}
    \/ Restoring(reverter)
    \/ \E u \in User : Restoring(user[u]) \/ user[u].at \in {"lift", "launch"}

MarkStopped == status' = "stopped" /\ contested' = Contenders

AskStop(u) ==
    /\ user[u] = Idle
    /\ Event
    /\ UserGoto(u, "lower", NoExp)
    /\ UNCHANGED <<row, open, exps, cluster, workers, contested>>

Lower(u) ==
    /\ user[u].at = "lower"
    /\ IF Scalable THEN ScaleTo(0) /\ UserGoto(u, "halt", NoExp)
                   ELSE UserGoto(u, "idle", NoExp) /\ UNCHANGED cluster
    /\ UNCHANGED <<row, open, exps, workers, events, contested>>

Halt(u) ==
    /\ user[u].at = "halt"
    /\ MarkStopped
    /\ UserGoto(u, "idle", NoExp)
    /\ UNCHANGED <<failures, open, exps, cluster, workers, events>>

FallAsleep ==
    /\ sleeper = "idle"
    /\ status = "running"
    /\ Event
    /\ SleeperGoto("lower")
    /\ UNCHANGED <<row, open, exps, cluster, user, contested>>

LowerAsleep ==
    /\ sleeper = "lower"
    /\ IF Scalable THEN ScaleTo(0) /\ SleeperGoto("halt")
                   ELSE SleeperGoto("idle") /\ UNCHANGED cluster
    /\ UNCHANGED <<row, open, exps, user, events, contested>>

HaltAsleep ==
    /\ sleeper = "halt"
    /\ MarkStopped
    /\ SleeperGoto("idle")
    /\ UNCHANGED <<failures, open, exps, cluster, user, events>>

Sleeping == LowerAsleep \/ HaltAsleep

AskStart(u) ==
    /\ user[u] = Idle
    /\ Event
    /\ UserGoto(u, "lift", NoExp)
    /\ UNCHANGED <<row, open, exps, cluster, workers, contested>>

Lift(u) ==
    /\ user[u].at = "lift"
    /\ IF Scalable THEN ScaleTo(Min) /\ UserGoto(u, "launch", NoExp)
                   ELSE UserGoto(u, "idle", NoExp) /\ UNCHANGED cluster
    /\ UNCHANGED <<row, open, exps, workers, events, contested>>

Launch(u) ==
    /\ user[u].at = "launch"
    /\ status' = "running"
    /\ UserGoto(u, "idle", NoExp)
    /\ UNCHANGED <<failures, open, exps, cluster, workers, events, contested>>

ResolveIncident ==
    /\ Event
    /\ \E k \in Incident :
        /\ open[k] > 0
        /\ open' = [open EXCEPT ![k] = @ - 1]
    /\ UNCHANGED <<row, exps, cluster, workers, user, contested>>

-----------------------------------------------------------------------------
(***************************************************************************)
(* The reconcile loop.                                                     *)
(***************************************************************************)

ReconcilerGoto(l) ==
    /\ reconciler' = l
    /\ UNCHANGED <<probe, metric, sleeper, reverter>>

\* Mutant: every deployed instance is reconciled
Reconciled_All == Status

Reconciled == {"running"}  \* the statuses the loop takes charge of

ReadInstance ==
    /\ reconciler = "idle"
    /\ status \in Reconciled
    /\ ReconcilerGoto("guard")
    /\ UNCHANGED <<row, open, exps, cluster, user, events, contested>>

CheckChaos ==
    /\ reconciler = "guard"
    /\ ReconcilerGoto(IF Active THEN "idle" ELSE "apply")
    /\ UNCHANGED <<row, open, exps, cluster, user, events, contested>>

\* has_active_experiment answers no when its query fails
CheckChaosFails ==
    /\ reconciler = "guard"
    /\ Event
    /\ ReconcilerGoto("apply")
    /\ UNCHANGED <<row, open, exps, cluster, user, contested>>

\* deploy_app leaves the replicas to the HPA if there is one
DeployApp ==
    /\ reconciler = "apply"
    /\ ScaleTo(IF Autoscaled /\ replicas # Gone THEN replicas ELSE Min)
    /\ ReconcilerGoto("idle")
    /\ UNCHANGED <<row, open, exps, user, events, contested>>

Reconciling == ReadInstance \/ CheckChaos \/ DeployApp

-----------------------------------------------------------------------------
(***************************************************************************)
(* Chaos experiments.  An experiment that a request has chosen has no row  *)
(* yet: the row is inserted last.                                          *)
(***************************************************************************)

SetExp(e, s) == exps' = [exps EXCEPT ![e].state = s]

StartChaos(u) ==
    /\ user[u] = Idle
    /\ status = "running"
    /\ Event
    /\ \E e \in Exp, k \in Kind :
        /\ exps[e].state = "absent"
        /\ exps' = [exps EXCEPT ![e] = [kind |-> k, state |-> "chosen"]]
        /\ UserGoto(u, "fault", e)
    /\ UNCHANGED <<row, open, cluster, workers, contested>>

KindOf(u) == exps[user[u].exp].kind

\* The Deployment is scaled to the number asked for, 0 by default
ScaleDown(u) ==
    /\ user[u].at = "fault" /\ KindOf(u) = "scale_down" /\ Scalable
    /\ \E n \in 0..Min : ScaleTo(n)
    /\ UserGoto(u, "announce", user[u].exp)
    /\ UNCHANGED <<row, open, exps, workers, events, contested>>

StressCpu(u) ==
    /\ user[u].at = "fault" /\ KindOf(u) = "cpu_stress" /\ replicas > 0
    /\ UserGoto(u, "announce", user[u].exp)
    /\ UNCHANGED <<row, open, exps, cluster, workers, events, contested>>

KillPods(u) ==
    /\ user[u].at = "fault" /\ KindOf(u) = "pod_kill" /\ replicas > 0
    /\ ready' \in {ready, FALSE}
    /\ UserGoto(u, "record", user[u].exp)
    /\ UNCHANGED <<row, open, exps, replicas, app, full, workers, events,
                   contested>>

\* No Deployment to scale, or no pod
FaultFails(u) ==
    /\ user[u].at = "fault"
    /\ IF KindOf(u) = "scale_down" THEN ~Scalable ELSE replicas <= 0
    /\ SetExp(user[u].exp, "absent")
    /\ UserGoto(u, "idle", NoExp)
    /\ UNCHANGED <<row, open, cluster, workers, events, contested>>

OpenIncident(u) ==
    /\ user[u].at = "announce"
    /\ open' = [open EXCEPT !["CHAOS"] = @ + 1]
    /\ UserGoto(u, "record", user[u].exp)
    /\ UNCHANGED <<row, exps, cluster, workers, events, contested>>

Record(u) ==
    /\ user[u].at = "record"
    /\ SetExp(user[u].exp, IF KindOf(u) = "pod_kill" THEN "ended" ELSE "running")
    /\ UserGoto(u, "idle", NoExp)
    /\ UNCHANGED <<row, open, cluster, workers, events, contested>>

AskCancel(u) ==
    /\ user[u] = Idle
    /\ Event
    /\ \E e \in Exp :
        /\ exps[e].state = "running"
        /\ UserGoto(u, "restore", e)
    /\ UNCHANGED <<row, open, exps, cluster, workers, contested>>

ReverterGoto(l, e) ==
    /\ reverter' = Task(l, e)
    /\ UNCHANGED <<probe, metric, sleeper, reconciler>>

\* Mutant: only the experiments of running instances are reverted
Due_WhileRunning(e) == exps[e].state = "running" /\ status = "running"

\* revert_at may have passed at any moment after the start
Due(e) == exps[e].state = "running"

FindDue ==
    /\ reverter = Idle
    /\ \E e \in Exp : Due(e) /\ ReverterGoto("restore", e)
    /\ UNCHANGED <<row, open, exps, cluster, user, events, contested>>

\* revert_experiment restores the replicas whatever the instance's status is
Reverted(e) ==
    IF exps[e].kind = "scale_down" /\ Scalable THEN Min ELSE replicas

Restore ==
    /\ Restoring(reverter)
    /\ ScaleTo(Reverted(reverter.exp))
    /\ ReverterGoto("close", reverter.exp)
    /\ UNCHANGED <<row, open, exps, user, events, contested>>

\* The scaling fails, and its error is dropped
RestoreFails ==
    /\ Restoring(reverter)
    /\ Event
    /\ ReverterGoto("close", reverter.exp)
    /\ UNCHANGED <<row, open, exps, cluster, user, contested>>

Close ==
    /\ reverter.at = "close"
    /\ SetExp(reverter.exp, "ended")
    /\ ReverterGoto("appease", reverter.exp)
    /\ UNCHANGED <<row, open, cluster, user, events, contested>>

Appease ==
    /\ reverter.at = "appease"
    /\ open' = [open EXCEPT !["CHAOS"] = 0]
    /\ ReverterGoto("idle", NoExp)
    /\ UNCHANGED <<row, exps, cluster, user, events, contested>>

Reverting == FindDue \/ Restore \/ Close \/ Appease

\* The same steps in the request of cancel_chaos
RestoreNow(u) ==
    /\ Restoring(user[u])
    /\ ScaleTo(Reverted(user[u].exp))
    /\ UserGoto(u, "close", user[u].exp)
    /\ UNCHANGED <<row, open, exps, workers, events, contested>>

CloseNow(u) ==
    /\ user[u].at = "close"
    /\ SetExp(user[u].exp, "ended")
    /\ UserGoto(u, "appease", user[u].exp)
    /\ UNCHANGED <<row, open, cluster, workers, events, contested>>

AppeaseNow(u) ==
    /\ user[u].at = "appease"
    /\ open' = [open EXCEPT !["CHAOS"] = 0]
    /\ UserGoto(u, "idle", NoExp)
    /\ UNCHANGED <<row, exps, cluster, workers, events, contested>>

\* What a request does once it has begun
Requesting(u) ==
    \/ Lower(u) \/ Halt(u) \/ Lift(u) \/ Launch(u)
    \/ ScaleDown(u) \/ StressCpu(u) \/ KillPods(u) \/ FaultFails(u)
    \/ OpenIncident(u) \/ Record(u)
    \/ RestoreNow(u) \/ CloseNow(u) \/ AppeaseNow(u)

-----------------------------------------------------------------------------
(***************************************************************************)
(* Kubernetes, the application, and crashes.                               *)
(***************************************************************************)

Serving == replicas > 0 /\ app # "crashes"

Converge ==
    /\ ready # Serving
    /\ ready' = Serving
    /\ UNCHANGED <<row, open, exps, replicas, app, full, workers, user, events,
                   contested>>

\* The application starts to answer 5xx, to crash, or to serve again
Change ==
    /\ Event
    /\ app' \in {"serves", "errs", "crashes"} \ {app}
    /\ UNCHANGED <<row, open, exps, replicas, ready, full, workers, user,
                   contested>>

Fill ==
    /\ Event
    /\ full' = ~full
    /\ UNCHANGED <<row, open, exps, replicas, ready, app, workers, user,
                   contested>>

\* The Deployment is deleted by another hand than the platform's
Drift ==
    /\ Event
    /\ Scalable
    /\ ScaleTo(Gone)
    /\ UNCHANGED <<row, open, exps, workers, user, contested>>

\* The leader dies with the tasks it has in flight; another takes over
LeaderDies ==
    /\ Event
    /\ probe' = [p \in Prober |-> "idle"]
    /\ metric' = "idle" /\ sleeper' = "idle" /\ reconciler' = "idle"
    /\ reverter' = Idle
    /\ UNCHANGED <<row, open, exps, cluster, user, contested>>

\* A request ends where it is: its process dies, or a call fails
RequestDies(u) ==
    /\ user[u] # Idle
    /\ Event
    /\ UserGoto(u, "idle", NoExp)
    /\ exps' = [e \in Exp |->
                    IF e = user[u].exp /\ exps[e].state = "chosen"
                    THEN [exps[e] EXCEPT !.state = "absent"] ELSE exps[e]]
    /\ contested' = (contested \/ user[u].at = "launch")
    /\ UNCHANGED <<row, open, cluster, workers>>

Next ==
    \/ \E p \in Prober : Probing(p) \/ ProbeFallsBack(p) \/ ProbeBlips(p)
    \/ Alerting
    \/ FallAsleep \/ Sleeping
    \/ Reconciling \/ CheckChaosFails
    \/ Reverting \/ RestoreFails
    \/ \E u \in User :
        \/ AskStop(u) \/ AskStart(u) \/ StartChaos(u) \/ AskCancel(u)
        \/ Requesting(u) \/ RequestDies(u)
    \/ ResolveIncident
    \/ Converge \/ Change \/ Fill \/ Drift \/ LeaderDies

Spec == Init /\ [][Next]_vars

\* The workers loop, a request runs to its end, Kubernetes converges.  Nothing
\* is assumed of Prometheus, nor that anything untoward happens or is repaired.
FairSpec ==
    /\ Spec
    /\ \A p \in Prober : WF_vars(Probing(p))
    /\ \A u \in User : WF_vars(Requesting(u))
    /\ WF_vars(Sleeping)
    /\ WF_vars(Reconciling)
    /\ WF_vars(Reverting)
    /\ WF_vars(Converge)

-----------------------------------------------------------------------------
(***************************************************************************)
(* Properties.                                                             *)
(***************************************************************************)

ProbeAt == {"idle", "sent", "clear", "resolve", "rise", "count", "look", "log",
            "fall"}
RevertAt == {"restore", "close", "appease"}
UserAt == {"lower", "halt", "lift", "launch", "fault", "announce", "record"}
          \cup RevertAt
TaskAt(labels) == [at : {"idle"} \cup labels, exp : Exp \cup {NoExp}]

\* Type correctness of the row, of the cluster and of the workers' places.
TypeOK ==
    /\ status \in Status
    /\ failures \in 0..(Threshold + 1)
    /\ open \in [Incident -> Nat]
    /\ exps \in [Exp -> [kind : Kind,
                         state : {"absent", "chosen", "running", "ended"}]]
    /\ replicas \in {Gone} \cup 0..Min
    /\ ready \in BOOLEAN /\ full \in BOOLEAN
    /\ app \in {"serves", "errs", "crashes"}
    /\ probe \in [Prober -> ProbeAt]
    /\ metric \in {"idle", "high", "low", "raise", "settle"}
    /\ sleeper \in {"idle", "lower", "halt"}
    /\ reconciler \in {"idle", "guard", "apply"}
    /\ reverter \in TaskAt(RevertAt)
    /\ user \in [User -> TaskAt(UserAt)]
    /\ events \in 0..MaxEvents
    /\ contested \in BOOLEAN

\* A stopped instance stays at zero replicas (builder.rs 2597-2600, its desired
\* state) if nobody was acting on it when it was marked stopped: no experiment
\* was open, no reconciliation or start under way.  A start between its two
\* writes is the exception.
StopHolds ==
    status = "stopped" /\ ~contested =>
        replicas <= 0 \/ \E u \in User : user[u].at = "launch"

\* An instance that is and stays marked running has all its replicas in the end,
\* whatever was deleted, scaled or left half done (the reconcile loop, builder.rs
\* 2667-2685); with an HPA the loop leaves the number alone.
RunningIsServed ==
    <>[](status = "running" /\ ~Autoscaled => replicas = Min)

Down == ~ready \/ app = "errs"

\* An instance that stays marked running while it has no replica Ready, or
\* answers 5xx, has an open incident again and again (health.rs 192-276), although
\* users and other workers may close its incidents at any moment.
DownIsNoticed == <>[](status = "running" /\ Down) => []<>AlreadyLogged

\* An instance that serves again and is not stopped is marked running in the end,
\* with the incidents of its failure and of its experiments closed (health.rs
\* 278-323).
RecoveryIsSeen ==
    <>[](ready /\ app = "serves" /\ status # "stopped" =>
            /\ status = "running"
            /\ open["DOWN"] = 0 /\ open["CHAOS"] = 0)

\* Every experiment is reverted and closed, across restarts (chaos.rs 238-261).
ExperimentsEnd == <>[](~Active)

\* Replicas, status and incidents of an instance settle to what its application does.
Heals == RunningIsServed /\ DownIsNoticed /\ RecoveryIsSeen
=============================================================================
