------------------------ MODULE InstanceRuntimeProofs ------------------------
(***************************************************************************)
(* Theorems about InstanceRuntime, for any number of probes and requests   *)
(* in flight, any replicas_min, with and without an HPA; about the lease   *)
(* under which its workers run, LeaderLease, for any set of processes, any *)
(* intervals and any number of faults; and about the environment it runs   *)
(* with, EnvPool, for any number of requests, reloads and variables.       *)
(***************************************************************************)
EXTENDS InstanceRuntime, LeaderLease, EnvPool, TLAPS, FiniteSetTheorems

LEMMA InitTyped == Init => TypeOK
<1> SUFFICES ASSUME Init PROVE TypeOK
  OBVIOUS
<1> USE RuntimeConstantsOK
<1>1. /\ status \in Status /\ app \in {"serves", "errs", "crashes"}
      /\ open \in [Incident -> Nat]
  BY DEF Init, Status, NoIncident, Incident
<1>6. ready \in BOOLEAN
  BY DEF Init
<1>2. /\ failures \in 0..(Threshold + 1) /\ replicas \in {Gone} \cup 0..Min
      /\ events \in 0..MaxEvents
  BY DEF Init
<1>5. full \in BOOLEAN /\ contested \in BOOLEAN
  BY DEF Init
<1>3. exps \in [Exp -> [kind : Kind,
                        state : {"absent", "chosen", "running", "ended"}]]
  BY DEF Init, Kind
<1>4. /\ reverter \in TaskAt(RevertAt) /\ user \in [User -> TaskAt(UserAt)]
      /\ probe \in [Prober -> ProbeAt]
  BY DEF Init, TaskAt, Idle, ProbeAt
<1> QED BY <1>1, <1>2, <1>3, <1>4, <1>5, <1>6 DEF Init, TypeOK

\* What the assignments to one request and to one experiment preserve.
LEMMA UserGotoTyped ==
    ASSUME TypeOK, NEW u \in User, NEW l \in {"idle"} \cup UserAt,
           NEW e \in Exp \cup {NoExp}, UserGoto(u, l, e)
    PROVE  user' \in [User -> TaskAt(UserAt)]
BY DEF TypeOK, UserGoto, Task, TaskAt

LEMMA SetExpTyped ==
    ASSUME TypeOK, NEW e, NEW s \in {"absent", "running", "ended"}, SetExp(e, s)
    PROVE  exps' \in [Exp -> [kind : Kind,
                             state : {"absent", "chosen", "running", "ended"}]]
BY DEF TypeOK, SetExp

LEMMA ProbingTyped ==
    ASSUME TypeOK, NEW p \in Prober,
           Probing(p) \/ ProbeFallsBack(p) \/ ProbeBlips(p)
    PROVE  TypeOK'
<1> USE RuntimeConstantsOK
<1>1. CASE ProbeSend(p) \/ ProbeAnswered(p) \/ ProbeFails(p) \/ LookForOpen(p)
  BY <1>1 DEF TypeOK, ProbeAt, ProbeGoto, ProbeSend, ProbeAnswered, ProbeFails,
              LookForOpen, row, cluster
<1>2. CASE ProbeFallsBack(p) \/ ProbeBlips(p)
  BY <1>2 DEF TypeOK, ProbeAt, ProbeGoto, ProbeFallsBack, ProbeBlips, Event,
              row, cluster
<1>3. CASE ClearStreak(p) \/ CountFailure(p)
  BY <1>3 DEF TypeOK, ProbeAt, ProbeGoto, ClearStreak, CountFailure, cluster
<1>4. CASE ResolveAll(p) \/ LogIncident(p)
  BY <1>4 DEF TypeOK, ProbeAt, ProbeGoto, ResolveAll, LogIncident, NoIncident,
              Incident, row, cluster
<1>5. CASE Rise(p) \/ Fall(p)
  BY <1>5 DEF TypeOK, ProbeAt, ProbeGoto, Rise, Fall, Status, cluster
<1> QED BY <1>1, <1>2, <1>3, <1>4, <1>5 DEF Probing

LEMMA WorkersTyped ==
    ASSUME TypeOK,
           \/ Alerting \/ FallAsleep \/ Sleeping
           \/ Reconciling \/ CheckChaosFails
           \/ Reverting \/ RestoreFails
    PROVE  TypeOK'
<1> USE RuntimeConstantsOK
<1>1. CASE Sample \/ LookAtAlert
  BY <1>1 DEF TypeOK, Sample, LookAtAlert, MetricGoto, row, cluster
<1>2. CASE RaiseAlert \/ SettleAlert
  BY <1>2 DEF TypeOK, RaiseAlert, SettleAlert, MetricGoto, Incident, row,
              cluster
<1>3. CASE FallAsleep \/ LowerAsleep
  BY <1>3 DEF TypeOK, FallAsleep, LowerAsleep, Event, SleeperGoto, Scalable,
              ScaleTo, Gone, row, cluster
<1>4. CASE HaltAsleep
  <2>1. contested' \in BOOLEAN
    BY <1>4 DEF HaltAsleep, MarkStopped, Contenders
  <2> QED BY <1>4, <2>1 DEF TypeOK, HaltAsleep, MarkStopped, SleeperGoto, Status,
                            cluster
<1>5. CASE ReadInstance \/ CheckChaos \/ CheckChaosFails
  BY <1>5 DEF TypeOK, ReadInstance, CheckChaos, CheckChaosFails, Event,
              ReconcilerGoto, row, cluster
<1>6. CASE DeployApp
  BY <1>6 DEF TypeOK, DeployApp, ScaleTo, ReconcilerGoto, Gone, row
<1>7. CASE FindDue \/ RestoreFails
  BY <1>7 DEF TypeOK, FindDue, RestoreFails, Event, ReverterGoto, Task, TaskAt,
              RevertAt, row, cluster
<1>8. CASE Restore
  BY <1>8 DEF TypeOK, Restore, Restoring, ScaleTo, Reverted, Gone, ReverterGoto,
              Task, TaskAt, RevertAt, row
<1>9. CASE Close
  <2>1. exps' \in [Exp -> [kind : Kind,
                           state : {"absent", "chosen", "running", "ended"}]]
    BY <1>9, SetExpTyped DEF Close
  <2>2. reverter' \in TaskAt(RevertAt)
    BY <1>9 DEF TypeOK, Close, ReverterGoto, Task, TaskAt, RevertAt
  <2> QED BY <1>9, <2>1, <2>2 DEF TypeOK, Close, ReverterGoto, row, cluster
<1>10. CASE Appease
  BY <1>10 DEF TypeOK, Appease, ReverterGoto, Task, TaskAt, RevertAt, Incident,
               NoExp, row, cluster
<1> QED BY <1>1, <1>2, <1>3, <1>4, <1>5, <1>6, <1>7, <1>8, <1>9, <1>10
        DEF Alerting, Sleeping, Reconciling, Reverting

LEMMA RequestingTyped ==
    ASSUME TypeOK, NEW u \in User,
           \/ AskStop(u) \/ AskStart(u) \/ StartChaos(u) \/ AskCancel(u)
           \/ Requesting(u) \/ RequestDies(u)
    PROVE  TypeOK'
<1> USE RuntimeConstantsOK DEF workers
<1>1. CASE AskStop(u) \/ AskStart(u) \/ AskCancel(u)
  BY <1>1 DEF TypeOK, AskStop, AskStart, AskCancel, Event, UserGoto, Task,
              TaskAt, UserAt, RevertAt, NoExp, row, cluster
<1>2. CASE Lower(u) \/ Lift(u)
  BY <1>2 DEF TypeOK, Lower, Lift, Scalable, ScaleTo, Gone, UserGoto, Task,
              TaskAt, UserAt, NoExp, row, cluster
<1>3. CASE Halt(u)
  <2>1. contested' \in BOOLEAN
    BY <1>3 DEF Halt, MarkStopped, Contenders
  <2> QED BY <1>3, <2>1 DEF TypeOK, Halt, MarkStopped, Status, UserGoto, Task,
                            TaskAt, NoExp, cluster
<1>4. CASE Launch(u)
  BY <1>4 DEF TypeOK, Launch, Status, UserGoto, Task, TaskAt, NoExp, cluster
<1>5. CASE StartChaos(u)
  BY <1>5 DEF TypeOK, StartChaos, Event, UserGoto, Task, TaskAt, UserAt, row,
              cluster
<1>6. CASE ScaleDown(u) \/ StressCpu(u)
  BY <1>6 DEF TypeOK, ScaleDown, StressCpu, ScaleTo, UserGoto, Task,
              TaskAt, UserAt, row, cluster
<1>11. CASE KillPods(u)
  <2>1. ready' \in BOOLEAN
    BY <1>11 DEF TypeOK, KillPods
  <2> QED BY <1>11, <2>1 DEF TypeOK, KillPods, UserGoto, Task, TaskAt, UserAt,
                             row
<1>7. CASE FaultFails(u) \/ Record(u) \/ CloseNow(u)
  <2>1. /\ UNCHANGED <<row, open, cluster, workers, events, contested>>
        /\ \E s \in {"absent", "running", "ended"} : SetExp(user[u].exp, s)
        /\ \/ UserGoto(u, "idle", NoExp)
           \/ UserGoto(u, "appease", user[u].exp)
    BY <1>7 DEF FaultFails, Record, CloseNow
  <2>2. user[u].exp \in Exp \cup {NoExp}
    BY DEF TypeOK, TaskAt
  <2>3. user' \in [User -> TaskAt(UserAt)]
    BY <2>1, <2>2, UserGotoTyped DEF UserAt, RevertAt
  <2>4. exps' \in [Exp -> [kind : Kind,
                           state : {"absent", "chosen", "running", "ended"}]]
    BY <2>1, SetExpTyped
  <2> QED BY <2>1, <2>3, <2>4 DEF TypeOK, row, cluster
<1>8. CASE OpenIncident(u) \/ AppeaseNow(u)
  BY <1>8 DEF TypeOK, OpenIncident, AppeaseNow, Incident, UserGoto, Task,
              TaskAt, UserAt, NoExp, row, cluster
<1>9. CASE RestoreNow(u)
  BY <1>9 DEF TypeOK, RestoreNow, Reverted, ScaleTo, UserGoto, Task, TaskAt,
              UserAt, RevertAt, row
<1>10. CASE RequestDies(u)
  <2>1. contested' \in BOOLEAN
    BY <1>10 DEF RequestDies
  <2>2. exps' \in [Exp -> [kind : Kind,
                           state : {"absent", "chosen", "running", "ended"}]]
    BY <1>10 DEF TypeOK, RequestDies
  <2> QED BY <1>10, <2>1, <2>2 DEF TypeOK, RequestDies, Event, UserGoto, Task,
                                   TaskAt, NoExp, row, cluster
<1> QED BY <1>1, <1>2, <1>3, <1>4, <1>5, <1>6, <1>7, <1>8, <1>9, <1>10, <1>11
        DEF Requesting

LEMMA WorldTyped ==
    ASSUME TypeOK,
           ResolveIncident \/ Converge \/ Change \/ Fill \/ Drift \/ LeaderDies
    PROVE  TypeOK'
<1> USE RuntimeConstantsOK DEF workers
<1>1. CASE ResolveIncident
  BY <1>1 DEF TypeOK, ResolveIncident, Event, Incident, row, cluster
<1>2. CASE Converge \/ Fill
  <2>1. ready' \in BOOLEAN /\ full' \in BOOLEAN
    BY <1>2 DEF TypeOK, Converge, Serving, Fill
  <2> QED BY <1>2, <2>1 DEF TypeOK, Converge, Fill, Event, row
<1>5. CASE Change
  BY <1>5 DEF TypeOK, Change, Event, row
<1>3. CASE Drift
  BY <1>3 DEF TypeOK, Drift, ScaleTo, Event, row
<1>4. CASE LeaderDies
  BY <1>4 DEF TypeOK, LeaderDies, Event, ProbeAt, TaskAt, Idle, NoExp, row,
              cluster
<1> QED BY <1>1, <1>2, <1>3, <1>4, <1>5

LEMMA NextTyped == TypeOK /\ [Next]_vars => TypeOK'
<1> SUFFICES ASSUME TypeOK, [Next]_vars PROVE TypeOK'
  OBVIOUS
<1>1. CASE UNCHANGED vars
  BY <1>1 DEF TypeOK, vars, row, cluster, workers
<1> QED BY <1>1, ProbingTyped, WorkersTyped, RequestingTyped, WorldTyped
        DEF Next

\* Every variable keeps its type, the bound on failures, which are counted to one
\* more than the threshold, and on the replicas, from none to replicas_min,
\* included.
THEOREM TypeCorrect == Spec => []TypeOK
BY InitTyped, NextTyped, PTL DEF Spec

-----------------------------------------------------------------------------
(***************************************************************************)
(* A stopped instance.  An experiment that was chosen or is recorded, and  *)
(* a reversal under way, are what could scale it up although every task    *)
(* that begins while it is stopped looks at its status first.  So the      *)
(* invariant keeps track of which experiment every task is about.          *)
(***************************************************************************)

Chooser == {"fault", "announce", "record"}

\* The experiment a task is about is in the state its label says
Tracked ==
    /\ \A u \in User :
        /\ user[u].at \in Chooser =>
            user[u].exp \in Exp /\ exps[user[u].exp].state = "chosen"
        /\ user[u].at \in RevertAt =>
            user[u].exp \in Exp /\ exps[user[u].exp].state \in {"running", "ended"}
        /\ user[u].at \notin Chooser \cup RevertAt => user[u].exp = NoExp
    /\ reverter.at \in RevertAt =>
        reverter.exp \in Exp /\ exps[reverter.exp].state \in {"running", "ended"}

\* Two requests never record the same experiment
Sole == \A u, v \in User :
    u # v /\ user[u].at \in Chooser /\ user[v].at \in Chooser
        => user[u].exp # user[v].exp

\* Nothing is left that could scale the instance up but a start
Undisturbed ==
    /\ reconciler = "idle"
    /\ \A e \in Exp : exps[e].state \notin {"chosen", "running"}
    /\ ~Restoring(reverter)
    /\ \A u \in User : ~Restoring(user[u])
    /\ replicas <= 0 \/ \E u \in User : user[u].at = "launch"

Rest == status = "stopped" /\ ~contested => Undisturbed

Book == Tracked /\ Sole

\* The steps of everybody who has nothing to do with requests and experiments
Bystanders ==
    \/ \E p \in Prober : Probing(p) \/ ProbeFallsBack(p) \/ ProbeBlips(p)
    \/ Alerting \/ FallAsleep \/ Sleeping \/ Reconciling \/ CheckChaosFails
    \/ ResolveIncident \/ Converge \/ Change \/ Fill \/ Drift

LEMMA BystandersKeep == Bystanders => UNCHANGED <<exps, user, reverter>>
<1>1. ASSUME NEW p \in Prober,
             Probing(p) \/ ProbeFallsBack(p) \/ ProbeBlips(p)
      PROVE  UNCHANGED <<exps, user, reverter>>
  BY <1>1 DEF Probing, ProbeFallsBack, ProbeBlips, ProbeSend, ProbeAnswered,
              ProbeFails, ClearStreak, ResolveAll, Rise, CountFailure,
              LookForOpen, LogIncident, Fall, ProbeGoto
<1>2. Alerting \/ FallAsleep \/ Sleeping => UNCHANGED <<exps, user, reverter>>
  BY DEF Alerting, Sample, LookAtAlert, RaiseAlert, SettleAlert, MetricGoto,
         FallAsleep, Sleeping, LowerAsleep, HaltAsleep, SleeperGoto
<1>3. Reconciling \/ CheckChaosFails => UNCHANGED <<exps, user, reverter>>
  BY DEF Reconciling, ReadInstance, CheckChaos, DeployApp, CheckChaosFails,
         ReconcilerGoto
<1>4. ResolveIncident \/ Converge \/ Change \/ Fill \/ Drift
        => UNCHANGED <<exps, user, reverter>>
  BY DEF ResolveIncident, Converge, Change, Fill, Drift, workers
<1> QED BY <1>1, <1>2, <1>3, <1>4 DEF Bystanders

LEMMA ReverterKeepsBook ==
    ASSUME TypeOK, Book, Reverting \/ RestoreFails \/ LeaderDies
    PROVE  Book'
<1> USE DEF TypeOK, Book, Tracked, Sole, Chooser, RevertAt, Task
<1>1. CASE LeaderDies
  BY <1>1 DEF LeaderDies, Idle
<1>2. CASE FindDue
  BY <1>2 DEF FindDue, Due, ReverterGoto
<1>3. CASE Restore \/ RestoreFails
  BY <1>3 DEF Restore, RestoreFails, Restoring, ReverterGoto
<1>4. CASE Close
  BY <1>4 DEF Close, SetExp, ReverterGoto
<1>5. CASE Appease
  BY <1>5 DEF Appease, ReverterGoto
<1> QED BY <1>1, <1>2, <1>3, <1>4, <1>5 DEF Reverting

LEMMA RequestsKeepBook ==
    ASSUME TypeOK, Book, NEW u \in User,
           \/ AskStop(u) \/ AskStart(u) \/ StartChaos(u) \/ AskCancel(u)
           \/ Requesting(u) \/ RequestDies(u)
    PROVE  Book'
<1> USE DEF TypeOK, Book, Tracked, Sole, Chooser, RevertAt, Task, UserGoto,
            workers, TaskAt, UserAt, NoExp
<1>1. CASE AskStop(u) \/ AskStart(u) \/ Lower(u) \/ Halt(u) \/ Lift(u)
           \/ Launch(u)
  <2>1. /\ UNCHANGED <<exps, reverter>>
        /\ \E l \in {"idle", "lower", "halt", "lift", "launch"} :
                user' = [user EXCEPT ![u] = [at |-> l, exp |-> NoExp]]
    BY <1>1 DEF AskStop, AskStart, Lower, Halt, Lift, Launch
  <2> QED BY <2>1
<1>2. CASE StartChaos(u)
  BY <1>2 DEF StartChaos, Idle
<1>3. CASE AskCancel(u)
  BY <1>3 DEF AskCancel
<1>4. CASE ScaleDown(u) \/ StressCpu(u) \/ KillPods(u) \/ OpenIncident(u)
  <2>1. /\ UNCHANGED <<exps, reverter>>
        /\ user[u].at \in Chooser
        /\ \E l \in Chooser :
                user' = [user EXCEPT ![u] = [at |-> l, exp |-> user[u].exp]]
    BY <1>4 DEF ScaleDown, StressCpu, KillPods, OpenIncident
  <2> QED BY <2>1
<1>5. CASE FaultFails(u)
  BY <1>5 DEF FaultFails, SetExp
<1>6. CASE Record(u)
  BY <1>6 DEF Record, SetExp
<1>7. CASE RestoreNow(u) \/ AppeaseNow(u)
  <2>1. /\ UNCHANGED <<exps, reverter>>
        /\ \/ /\ user[u].at \in RevertAt
              /\ \E l \in RevertAt :
                    user' = [user EXCEPT ![u] = [at |-> l, exp |-> user[u].exp]]
           \/ user' = [user EXCEPT ![u] = [at |-> "idle", exp |-> NoExp]]
    BY <1>7 DEF RestoreNow, AppeaseNow, Restoring
  <2>2. \A v \in User : v # u => user'[v] = user[v]
    BY <2>1
  <2>3. /\ user'[u].at \notin Chooser
        /\ user'[u].at \in RevertAt =>
              /\ user'[u].exp \in Exp
              /\ exps[user'[u].exp].state \in {"running", "ended"}
        /\ user'[u].at \notin RevertAt => user'[u].exp = NoExp
    BY <2>1
  <2> QED BY <2>1, <2>2, <2>3
<1>8. CASE CloseNow(u)
  BY <1>8 DEF CloseNow, SetExp
<1>9. CASE RequestDies(u)
  <2>1. /\ UNCHANGED reverter
        /\ user' = [user EXCEPT ![u] = [at |-> "idle", exp |-> NoExp]]
    BY <1>9 DEF RequestDies
  <2>2. ASSUME NEW e \in Exp, e # user[u].exp \/ exps[e].state # "chosen"
        PROVE  exps'[e] = exps[e]
    BY <1>9, <2>2 DEF RequestDies
  <2>3. ASSUME NEW v \in User, v # u
        PROVE  /\ user'[v] = user[v]
               /\ user[v].at \in Chooser \cup RevertAt =>
                    exps'[user[v].exp] = exps[user[v].exp]
    <3>1. user'[v] = user[v]
      BY <2>1, <2>3
    <3>2. ASSUME user[v].at \in Chooser
          PROVE  user[v].exp \in Exp /\ user[v].exp # user[u].exp
      <4>1. user[v].exp \in Exp /\ exps[user[v].exp].state = "chosen"
        BY <3>2
      <4>2. CASE user[u].at \in Chooser
        BY <2>3, <3>2, <4>1, <4>2
      <4>3. CASE user[u].at \in RevertAt
        BY <4>1, <4>3
      <4>4. CASE user[u].at \notin Chooser \cup RevertAt
        BY <4>1, <4>4 DEF Exp
      <4> QED BY <4>2, <4>3, <4>4
    <3>3. ASSUME user[v].at \in RevertAt
          PROVE  user[v].exp \in Exp /\ exps[user[v].exp].state # "chosen"
      BY <3>3
    <3> QED BY <2>2, <3>1, <3>2, <3>3
  <2>4. reverter.at \in RevertAt => exps'[reverter.exp] = exps[reverter.exp]
    BY <2>2
  <2> QED BY <2>1, <2>3, <2>4
<1> QED BY <1>1, <1>2, <1>3, <1>4, <1>5, <1>6, <1>7, <1>8, <1>9 DEF Requesting

LEMMA BookNext == TypeOK /\ Book /\ [Next]_vars => Book'
<1> SUFFICES ASSUME TypeOK, Book, [Next]_vars PROVE Book'
  OBVIOUS
<1>1. CASE UNCHANGED <<exps, user, reverter>>
  BY <1>1 DEF Book, Tracked, Sole
<1> QED BY <1>1, BystandersKeep, ReverterKeepsBook, RequestsKeepBook
        DEF Next, Bystanders, vars, workers

-----------------------------------------------------------------------------
\* One lemma per group of steps: Rest survives each of them.  A step that leaves
\* the status or the ghost such that the instance is not stopped and uncontested
\* has nothing to show.
LEMMA BystandersKeepRest ==
    ASSUME TypeOK, Rest, Bystanders
    PROVE  Rest'
<1> USE RuntimeConstantsOK DEF Rest, Undisturbed
<1>0. UNCHANGED <<exps, user, reverter>>
  BY BystandersKeep
<1>1. ASSUME NEW p \in Prober,
             Probing(p) \/ ProbeFallsBack(p) \/ ProbeBlips(p)
      PROVE  Rest'
  <2>1. UNCHANGED <<replicas, reconciler, contested>>
    BY <1>1 DEF Probing, ProbeFallsBack, ProbeBlips, ProbeSend, ProbeAnswered,
                ProbeFails, ClearStreak, ResolveAll, Rise, CountFailure,
                LookForOpen, LogIncident, Fall, ProbeGoto, cluster
  <2>2. status' = status \/ status' # "stopped"
    BY <1>1 DEF Probing, ProbeFallsBack, ProbeBlips, ProbeSend, ProbeAnswered,
                ProbeFails, ClearStreak, ResolveAll, Rise, CountFailure,
                LookForOpen, LogIncident, Fall, row
  <2> QED BY <1>0, <2>1, <2>2 DEF Restoring
<1>2. CASE Alerting \/ FallAsleep \/ ResolveIncident \/ Converge \/ Change
           \/ Fill
  <2>1. UNCHANGED <<status, replicas, reconciler, contested>>
    BY <1>2 DEF Alerting, Sample, LookAtAlert, RaiseAlert, SettleAlert,
                MetricGoto, FallAsleep, SleeperGoto, ResolveIncident, Converge,
                Change, Fill, row, cluster, workers
  <2> QED BY <1>0, <2>1 DEF Restoring
<1>3. CASE LowerAsleep \/ Drift
  <2>1. /\ UNCHANGED <<status, reconciler, contested>>
        /\ replicas' = replicas \/ replicas' \in {0, Gone}
    BY <1>3 DEF LowerAsleep, Drift, ScaleTo, SleeperGoto, row, cluster, workers
  <2> QED BY <1>0, <2>1 DEF Restoring, Gone
<1>4. CASE HaltAsleep
  <2>1. /\ UNCHANGED <<replicas, reconciler>>
        /\ contested' = Contenders
    BY <1>4 DEF HaltAsleep, MarkStopped, SleeperGoto, cluster
  <2> QED BY <1>0, <2>1 DEF Contenders, Restoring, TypeOK, Gone
<1>5. CASE Reconciling \/ CheckChaosFails
  <2>1. UNCHANGED <<status, contested>>
    BY <1>5 DEF Reconciling, ReadInstance, CheckChaos, DeployApp,
                CheckChaosFails, row
  <2>2. reconciler # "idle" \/ status = "running"
    BY <1>5 DEF Reconciling, ReadInstance, CheckChaos, DeployApp,
                CheckChaosFails, Reconciled
  <2> QED BY <2>1, <2>2
<1> QED BY <1>1, <1>2, <1>3, <1>4, <1>5 DEF Bystanders, Sleeping

LEMMA ReverterKeepsRest ==
    ASSUME TypeOK, Book, Rest, Reverting \/ RestoreFails \/ LeaderDies
    PROVE  Rest'
<1> USE DEF Rest, Undisturbed, Restoring
<1>0. UNCHANGED <<status, user, contested>>
  BY DEF Reverting, FindDue, Restore, Close, Appease, RestoreFails, LeaderDies,
         row
<1>1. CASE FindDue
  BY <1>0, <1>1 DEF FindDue, Due
<1>2. CASE Restore \/ RestoreFails
  BY <1>0, <1>2 DEF Restore, RestoreFails
<1>3. CASE Close
  <2>1. UNCHANGED <<replicas, reconciler>> /\ reverter'.at = "appease"
    BY <1>3 DEF Close, ReverterGoto, Task, cluster
  <2>2. ASSUME NEW e \in Exp
        PROVE  exps'[e].state \in {exps[e].state, "ended"}
    BY <1>3 DEF Close, SetExp, TypeOK
  <2> QED BY <1>0, <2>1, <2>2
<1>4. CASE Appease
  BY <1>0, <1>4 DEF Appease, ReverterGoto, Task, cluster
<1>5. CASE LeaderDies
  BY <1>0, <1>5 DEF LeaderDies, Idle, cluster
<1> QED BY <1>1, <1>2, <1>3, <1>4, <1>5 DEF Reverting

LEMMA RequestsKeepRest ==
    ASSUME TypeOK, Book, Rest, NEW u \in User,
           \/ AskStop(u) \/ AskStart(u) \/ StartChaos(u) \/ AskCancel(u)
           \/ Requesting(u) \/ RequestDies(u)
    PROVE  Rest'
<1> USE DEF Rest, Undisturbed, Restoring, UserGoto, Task, TypeOK, workers
<1>1. CASE AskStop(u) \/ AskStart(u)
  BY <1>1 DEF AskStop, AskStart, Idle, row, cluster
<1>2. CASE StartChaos(u)
  BY <1>2 DEF StartChaos, row
<1>3. CASE AskCancel(u)
  BY <1>3 DEF AskCancel, row
<1>4. CASE Lower(u)
  BY <1>4 DEF Lower, ScaleTo, row, cluster
<1>5. CASE Halt(u)
  BY <1>5 DEF Halt, MarkStopped, Contenders, Gone, cluster
<1>6. CASE Lift(u)
  BY <1>6 DEF Lift, ScaleTo, row, cluster
<1>7. CASE Launch(u)
  BY <1>7 DEF Launch
<1>8. CASE \/ ScaleDown(u) \/ StressCpu(u) \/ KillPods(u) \/ FaultFails(u)
           \/ OpenIncident(u) \/ Record(u)
  <2>1. user[u].at \in Chooser /\ UNCHANGED <<status, contested>>
    BY <1>8 DEF ScaleDown, StressCpu, KillPods, FaultFails, OpenIncident,
                Record, Chooser, row
  <2>2. user[u].exp \in Exp /\ exps[user[u].exp].state = "chosen"
    BY <2>1 DEF Book, Tracked
  <2> QED BY <2>1, <2>2
<1>9. CASE RestoreNow(u)
  BY <1>9 DEF RestoreNow, row
<1>10. CASE CloseNow(u)
  <2>1. /\ UNCHANGED <<status, contested, replicas, reconciler, reverter>>
        /\ user[u].at = "close"
        /\ user' = [user EXCEPT ![u] = [at |-> "appease", exp |-> user[u].exp]]
    BY <1>10 DEF CloseNow, row, cluster
  <2>2. ASSUME NEW e \in Exp
        PROVE  exps'[e].state \in {exps[e].state, "ended"}
    BY <1>10 DEF CloseNow, SetExp
  <2> QED BY <2>1, <2>2
<1>11. CASE AppeaseNow(u)
  BY <1>11 DEF AppeaseNow, row, cluster
<1>12. CASE RequestDies(u)
  <2>1. /\ UNCHANGED <<status, replicas, reconciler, reverter>>
        /\ contested' = (contested \/ user[u].at = "launch")
        /\ user' = [user EXCEPT ![u] = [at |-> "idle", exp |-> NoExp]]
    BY <1>12 DEF RequestDies, row, cluster
  <2>2. ASSUME NEW e \in Exp
        PROVE  exps'[e].state \in {exps[e].state, "absent"}
    BY <1>12 DEF RequestDies
  <2> QED BY <2>1, <2>2
<1> QED BY <1>1, <1>2, <1>3, <1>4, <1>5, <1>6, <1>7, <1>8, <1>9, <1>10, <1>11,
           <1>12 DEF Requesting

LEMMA RestNext == TypeOK /\ Book /\ Rest /\ [Next]_vars => Rest'
<1> SUFFICES ASSUME TypeOK, Book, Rest, [Next]_vars PROVE Rest'
  OBVIOUS
<1>1. CASE UNCHANGED vars
  BY <1>1 DEF Rest, Undisturbed, Restoring, vars, row, cluster, workers
<1> QED BY <1>1, BystandersKeepRest, ReverterKeepsRest, RequestsKeepRest
        DEF Next, Bystanders

\* A stopped instance that nobody was acting on when it was marked stopped stays
\* at zero replicas until it is started again, however many requests and probes
\* are in flight and whatever fails: every way up asks for the status first, or
\* belongs to an experiment that did.
THEOREM StopHoldsAlways == Spec => []StopHolds
<1>1. Init => Book /\ Rest
  BY DEF Init, Book, Tracked, Sole, Rest, Chooser, RevertAt, Idle
<1>2. Rest => StopHolds
  BY DEF Rest, Undisturbed, StopHolds
<1> QED BY <1>1, <1>2, TypeCorrect, BookNext, RestNext, PTL DEF Spec

-----------------------------------------------------------------------------
(***************************************************************************)
(* The lease.  InstanceRuntime has one of each of the workers that only    *)
(* the leader runs: what follows says when there is one.                   *)
(***************************************************************************)

LEMMA LeaseTypeInit == LeaseInit => LeaseTypeOK
BY LeaseConstantsOK DEF LeaseInit, LeaseTypeOK, Query

LEMMA LeaseTypeNext == LeaseTypeOK /\ [LeaseNext]_leaseVars => LeaseTypeOK'
<1> SUFFICES ASSUME LeaseTypeOK, [LeaseNext]_leaseVars
             PROVE  LeaseTypeOK'
  OBVIOUS
<1> USE LeaseConstantsOK DEF LeaseTypeOK, Query, lease, elector
<1>1. ASSUME NEW r \in Replica, Send(r)
      PROVE  LeaseTypeOK'
  BY <1>1 DEF Send
<1>2. ASSUME NEW r \in Replica, Upsert(r)
      PROVE  LeaseTypeOK'
  BY <1>2 DEF Upsert
<1>3. ASSUME NEW r \in Replica, Answer(r)
      PROVE  LeaseTypeOK'
  BY <1>3 DEF Answer, Settle
<1>4. ASSUME NEW r \in Replica, QueryFails(r)
      PROVE  LeaseTypeOK'
  BY <1>4 DEF QueryFails, Settle
<1>5. ASSUME NEW r \in Replica, StartPass(r) \/ EndPass(r)
      PROVE  LeaseTypeOK'
  BY <1>5 DEF StartPass, EndPass
<1>6. ASSUME NEW r \in Replica, Crash(r)
      PROVE  LeaseTypeOK'
  BY <1>6 DEF Crash
<1>7. ASSUME NEW r \in Replica, Restart(r)
      PROVE  LeaseTypeOK'
  BY <1>7 DEF Restart
<1>8. CASE Tick
  BY <1>8 DEF Tick
<1>9. CASE UNCHANGED leaseVars
  BY <1>9 DEF leaseVars
<1>10. QED
  BY <1>1, <1>2, <1>3, <1>4, <1>5, <1>6, <1>7, <1>8, <1>9 DEF LeaseNext

\* The lease row and the electors are well typed in every reachable state.
THEOREM LeaseTypeCorrect == LeaseSpec => []LeaseTypeOK
BY LeaseTypeInit, LeaseTypeNext, PTL DEF LeaseSpec

-----------------------------------------------------------------------------
LEMMA CoveredInit == LeaseInit => Covered
BY DEF LeaseInit, Covered

LEMMA CoveredNext ==
    ASSUME LeaseMargin
    PROVE  LeaseTypeOK /\ Covered /\ [LeaseNext]_leaseVars => Covered'
<1> SUFFICES ASSUME LeaseTypeOK, Covered, [LeaseNext]_leaseVars
             PROVE  Covered'
  OBVIOUS
<1> USE LeaseConstantsOK DEF LeaseTypeOK, Query, lease, elector
<1>1. ASSUME NEW r \in Replica, Send(r)
      PROVE  Covered'
  BY <1>1 DEF Send, Covered
<1>2. ASSUME NEW r \in Replica, Upsert(r)
      PROVE  Covered'
  <2>1. CASE ~MayTake(r)
    BY <1>2, <2>1 DEF Upsert, Covered, MayTake, Expired
  <2>2. CASE MayTake(r)
    <3>1. \A s \in Replica \ {r} : ~flag[s] /\ query[s] # "won"
      BY <2>2 DEF Covered, MayTake, Expired, LeaseMargin
    <3>2. QED
      BY <1>2, <2>2, <3>1 DEF Upsert, Covered
  <2>3. QED
    BY <2>1, <2>2
<1>3. ASSUME NEW r \in Replica, Answer(r)
      PROVE  Covered'
  <2>1. query[r] = "won" => left >= MaxLag /\ left >= due[r] + MaxLag
    BY DEF Covered, LeaseMargin
  <2>2. QED
    BY <1>3, <2>1 DEF Answer, Settle, Covered
<1>4. ASSUME NEW r \in Replica, QueryFails(r)
      PROVE  Covered'
  BY <1>4 DEF QueryFails, Settle, Covered
<1>5. ASSUME NEW r \in Replica, StartPass(r) \/ EndPass(r)
      PROVE  Covered'
  BY <1>5 DEF StartPass, EndPass, Covered
<1>6. ASSUME NEW r \in Replica, Crash(r)
      PROVE  Covered'
  BY <1>6 DEF Crash, Covered
<1>7. ASSUME NEW r \in Replica, Restart(r)
      PROVE  Covered'
  BY <1>7 DEF Restart, Covered
<1>8. CASE Tick
  BY <1>8 DEF Tick, Covered, LeaseMargin
<1>9. CASE UNCHANGED leaseVars
  BY <1>9 DEF leaseVars, Covered
<1>10. QED
  BY <1>1, <1>2, <1>3, <1>4, <1>5, <1>6, <1>7, <1>8, <1>9 DEF LeaseNext

LEMMA CoveredInvariant ==
    ASSUME LeaseMargin
    PROVE  LeaseSpec => [](LeaseTypeOK /\ Covered)
<1>1. LeaseTypeOK /\ Covered /\ [LeaseNext]_leaseVars => Covered'
  BY CoveredNext
<1>2. QED
  BY <1>1, CoveredInit, LeaseTypeCorrect, PTL DEF LeaseSpec

\* A process that believes it leads owns an unexpired lease, when the outcome
\* of a query arrives within the margin.
THEOREM LeaderHoldsLeaseAlways ==
    ASSUME LeaseMargin
    PROVE  LeaseSpec => []LeaderHoldsLease
<1>1. LeaseTypeOK /\ Covered => LeaderHoldsLease
  BY LeaseConstantsOK DEF LeaseTypeOK, Covered, LeaderHoldsLease, Expired, Query, LeaseMargin
<1>2. QED
  BY <1>1, CoveredInvariant, PTL

\* Two processes never both believe they lead.
THEOREM AtMostOneLeaderAlways ==
    ASSUME LeaseMargin
    PROVE  LeaseSpec => []AtMostOneLeader
<1>1. Covered => AtMostOneLeader
  BY DEF Covered, AtMostOneLeader
<1>2. QED
  BY <1>1, CoveredInvariant, PTL

\* A step that starts a pass finds the flag set.
LEMMA PassNeedsFlag ==
    ASSUME LeaseTypeOK, [LeaseNext]_leaseVars, NEW r \in Replica, pass'[r], ~pass[r]
    PROVE  flag[r]
<1> USE DEF LeaseTypeOK
<1>1. ASSUME NEW s \in Replica, StartPass(s)
      PROVE  flag[r]
  BY <1>1 DEF StartPass
<1>2. ASSUME NEW s \in Replica, EndPass(s) \/ Crash(s)
      PROVE  FALSE
  BY <1>2 DEF EndPass, Crash
<1>3. ASSUME NEW s \in Replica, Send(s) \/ Upsert(s) \/ Answer(s) \/ QueryFails(s) \/ Restart(s)
      PROVE  FALSE
  BY <1>3 DEF Send, Upsert, Answer, QueryFails, Restart
<1>4. CASE Tick
  BY <1>4 DEF Tick
<1>5. CASE UNCHANGED leaseVars
  BY <1>5 DEF leaseVars
<1>6. QED
  BY <1>1, <1>2, <1>3, <1>4, <1>5 DEF LeaseNext

\* A pass of the singleton workers starts only under an unexpired lease.
THEOREM PassesStartUnderLeaseAlways ==
    ASSUME LeaseMargin
    PROVE  LeaseSpec => PassesStartUnderLease
<1> DEFINE Started == \A r \in Replica : pass'[r] /\ ~pass[r] => holder = r /\ ~Expired
<1>1. LeaseTypeOK /\ LeaderHoldsLease /\ [LeaseNext]_leaseVars => [Started]_leaseVars
  BY PassNeedsFlag DEF LeaderHoldsLease
<1>2. QED
  BY <1>1, LeaseTypeCorrect, LeaderHoldsLeaseAlways, PTL DEF LeaseSpec, PassesStartUnderLease

-----------------------------------------------------------------------------
(***************************************************************************)
(* The environment of an instance                                          *)
(***************************************************************************)

PoolStage == {"idle", "reload", "linked", "deletePool", "rename", "dropLocal", "link",
              "store", "clean", "start", "wait", "read", "restart", "published", "find",
              "refresh", "insert", "bound", "consumers"}
PoolRequest == [at : PoolStage, var : Var \cup {0}, key : Key, val : Val, old : Val,
                tell : BOOLEAN]
PoolTask == [at : {"idle", "links", "own", "write", "patch"}, env : [Key -> Val],
             roll : BOOLEAN]

\* A key names one variable of the pool
OneVar == \A u, v \in Var : There(u) /\ pool[u].key = pool[v].key => u = v

\* The types, with those of requests and tasks
PoolTyped ==
    /\ kind \in Resource /\ bound \in BOOLEAN
    /\ stored \in Val /\ engine \in Val /\ made \in Val
    /\ job \in [st : {"none", "running", "succeeded", "failed"}, old : Val, val : Val]
    /\ pool \in [Var -> [key : Key \cup {"none"}, val : Val, by : {"manual", "resource"}]]
    /\ OneVar
    /\ links \subseteq {v \in Var : There(v)}
    /\ own \in [Key -> Val] /\ secret \in [Key -> Val] /\ pods \in [Key -> Val]
    /\ appStatus \in {"running", "deploying", "stopped"}
    /\ rolling \in BOOLEAN /\ untidy \in BOOLEAN
    /\ pending \in Nat /\ poolEvents \in 0..MaxPoolEvents
    /\ req \in [Request -> PoolRequest] /\ reload \in [Reload -> PoolTask]

\* A change of the environment that a reload is still to be spawned for
Telling(r) ==
    \/ req[r].at \in {"reload", "link"}
    \/ req[r].at = "linked" /\ req[r].var \in links
    \/ req[r].at \in {"bound", "consumers"} /\ Consumes
Owed == pending > 0 \/ \E r \in Request : Telling(r)

\* A task that has yet to read the environment, and will replace the pods
WillRead == \E t \in Reload : reload[t].at = "links" /\ reload[t].roll

\* What a task has read of a key is as the rows are now
Current(t, k) ==
    \/ reload[t].at = "own" /\ (own[k] # None \/ reload[t].env[k] = Linked(k))
    \/ reload[t].at = "write" /\ reload[t].env[k] = Effective[k]

\* A task is on its way to the Secret with it
Carried(k) == \E t \in Reload : reload[t].roll /\ Current(t, k)

\* The Secret has it and nothing is about to undo that; the pods have it or will
Kept(k) ==
    /\ secret[k] = Effective[k]
    /\ \/ rolling \/ pods[k] = Effective[k]
       \/ \E t \in Reload : reload[t].at = "patch" /\ reload[t].roll
    /\ \A t \in Reload : reload[t].at \in HasRead => Current(t, k)

Followed ==
    \/ Owed \/ WillRead
    \/ \A k \in Key : Effective[k] # None => Carried(k) \/ Kept(k)

\* One task at a time is between reading and writing
OneCarries == \A t, q \in Reload :
    reload[t].at \in HasRead /\ reload[q].at \in HasRead => t = q

\* While the instance is being deployed there is a task that does it
Deploys == appStatus = "deploying" =>
    \E t \in Reload : reload[t].at # "idle" /\ reload[t].roll

\* What the published variable says
Publishes(val) == \A v \in Published : pool[v].val = val

\* How far the one rotation is
RotationAt(r) ==
    LET q == req[r]
    IN  /\ q.at \in {"clean", "start", "wait", "read"} => kind = "sql"
        /\ q.at = "restart" => kind = "redis"
        /\ q.at \notin {"wait", "read"} => job.st # "running"
        /\ q.at \in {"clean", "start", "wait", "read", "store"} =>
            stored = q.old /\ Publishes(q.old)
        /\ q.at \in {"clean", "start"} \/ (q.at = "store" /\ kind # "sql") => engine = q.old
        /\ q.at = "wait" => /\ job.st # "none" /\ job.old = q.old /\ job.val = q.val
                            /\ engine = IF job.st = "succeeded" THEN q.val ELSE q.old
        /\ q.at = "read" => /\ job.st \in {"succeeded", "failed"}
                            /\ engine = IF job.st = "succeeded" THEN q.val ELSE q.old
        /\ q.at = "store" /\ kind = "sql" => engine = q.val
        /\ q.at = "restart" => stored = q.val
        /\ q.at \in {"published", "find", "refresh", "insert", "bound", "consumers"} =>
            stored = q.val /\ engine = q.val
        /\ q.at = "insert" => Published = {}
        /\ q.at \in {"bound", "consumers"} => Publishes(q.val)

Agreed ==
    /\ \A r, q \in Rotating : r = q
    /\ \A u, v \in Published : u = v
    /\ Rotating = {} => job.st # "running" /\ stored = engine /\ Publishes(engine)
    /\ \A r \in Rotating : RotationAt(r)

PoolInv == PoolTyped /\ (~untidy => Deploys /\ OneCarries /\ Followed /\ Agreed)

-----------------------------------------------------------------------------
\* A key of the pool names at most one variable.
LEMMA PoolTypes == PoolTyped => PoolTypeOK
<1> SUFFICES ASSUME PoolTyped PROVE PoolTypeOK
  OBVIOUS
<1>1. ASSUME NEW k \in Key PROVE Cardinality(WithKey(k)) <= 1
  <2>1. CASE WithKey(k) = {}
    <3>1. Cardinality(WithKey(k)) = 0
      BY <2>1, FS_EmptySet
    <3>2. QED
      BY <3>1
  <2>2. ASSUME NEW v \in WithKey(k) PROVE Cardinality(WithKey(k)) <= 1
    <3>1. WithKey(k) = {v}
      BY <2>2 DEF PoolTyped, OneVar, WithKey, There, Key
    <3>2. Cardinality(WithKey(k)) = 1
      BY <3>1, FS_Singleton
    <3>3. QED
      BY <3>2
  <2>3. QED
    BY <2>1, <2>2
<1>2. QED
  BY <1>1 DEF PoolTyped, PoolTypeOK

LEMMA PoolFields ==
    ASSUME PoolTyped
    PROVE  /\ req \in [Request -> PoolRequest] /\ reload \in [Reload -> PoolTask]
           /\ \A r \in Request : /\ req[r] \in PoolRequest /\ req[r].at \in PoolStage
                                 /\ req[r].val \in Val /\ req[r].old \in Val /\ req[r].key \in Key
           /\ \A t \in Reload : /\ reload[t] \in PoolTask /\ reload[t].env \in [Key -> Val]
                                /\ reload[t].at \in {"idle", "links", "own", "write", "patch"}
                                /\ reload[t].roll \in BOOLEAN
           /\ \A v \in Var : /\ pool[v].key \in Key \cup {"none"} /\ pool[v].val \in Val
                             /\ pool[v].by \in {"manual", "resource"}
           /\ None \in Val
<1>1. req \in [Request -> PoolRequest] /\ reload \in [Reload -> PoolTask]
      /\ pool \in [Var -> [key : Key \cup {"none"}, val : Val, by : {"manual", "resource"}]]
  BY DEF PoolTyped
<1>2. None \in Val
  BY PoolConstantsOK DEF None, Val
<1>3. QED
  BY <1>1, <1>2 DEF PoolRequest, PoolTask

\* Where a request goes, and what it keeps.
LEMMA PoolGoto ==
    ASSUME PoolTyped, NEW r \in Request, NEW l \in PoolStage, Goto(r, l)
    PROVE  /\ req' \in [Request -> PoolRequest]
           /\ \A q \in Request \ {r} : req'[q] = req[q]
           /\ req'[r].at = l /\ req'[r].var = req[r].var /\ req'[r].key = req[r].key
           /\ req'[r].val = req[r].val /\ req'[r].old = req[r].old /\ req'[r].tell = req[r].tell
BY PoolFields DEF PoolRequest, Goto

LEMMA PoolEnd ==
    ASSUME PoolTyped, NEW r \in Request, End(r)
    PROVE  /\ req' \in [Request -> PoolRequest]
           /\ \A q \in Request \ {r} : req'[q] = req[q]
           /\ req'[r].at = "idle"
BY PoolFields DEF PoolRequest, End, NoRequest, Key, PoolStage, None

LEMMA PoolBegin ==
    ASSUME PoolTyped, NEW r \in Request, NEW state \in PoolRequest, Begin(r, state)
    PROVE  /\ req' \in [Request -> PoolRequest]
           /\ \A q \in Request \ {r} : req'[q] = req[q]
           /\ req'[r] = state /\ req[r].at = "idle" /\ poolEvents' \in 0..MaxPoolEvents
<1>1. req' = [req EXCEPT ![r] = state] /\ req[r] = NoRequest /\ PoolEvent
  BY DEF Begin
<1>2. poolEvents' \in 0..MaxPoolEvents
  BY <1>1, PoolConstantsOK DEF PoolEvent, PoolTyped
<1>3. QED
  BY <1>1, <1>2, PoolFields DEF NoRequest

\* What the first statement of a request leaves it with.
LEMMA PoolStates ==
    ASSUME PoolTyped
    PROVE  /\ NoRequest \in PoolRequest
           /\ [NoRequest EXCEPT !.at = "reload"] \in PoolRequest
           /\ \A v \in Var : /\ [NoRequest EXCEPT !.at = "linked", !.var = v] \in PoolRequest
                             /\ \A b \in BOOLEAN :
                                  [NoRequest EXCEPT !.at = "deletePool", !.var = v, !.tell = b]
                                        \in PoolRequest
                             /\ \A k \in Key : \A l \in {"rename", "dropLocal"} :
                                  [NoRequest EXCEPT !.at = l, !.var = v, !.key = k]
                                        \in PoolRequest
           /\ \A w, z \in Val : \A l \in {"clean", "store"} :
                  [NoRequest EXCEPT !.at = l, !.old = w, !.val = z] \in PoolRequest
BY PoolFields DEF PoolRequest, NoRequest, Key, PoolStage

LEMMA PoolMakeUp == PoolTyped /\ MakeUp => made' \in Val /\ made' # None
BY PoolConstantsOK DEF PoolTyped, MakeUp, Val, None

LEMMA PoolEvents == PoolTyped /\ PoolEvent => poolEvents' \in 0..MaxPoolEvents
BY PoolConstantsOK DEF PoolEvent, PoolTyped

\* What is inserted or updated under a key is what the key names.
LEMMA PoolUpsert ==
    ASSUME PoolTyped, NEW v \in Var, NEW k \in Key, NEW val \in Val,
           NEW by \in {"manual", "resource"}, UpsertVar(v, k, val, by)
    PROVE  /\ pool' \in [Var -> [key : Key \cup {"none"}, val : Val, by : {"manual", "resource"}]]
           /\ OneVar'
           /\ \A u \in Var : There(u) => There(u)'
           /\ \A u \in Var \ {v} : pool'[u] = pool[u]
           /\ pool'[v].key = k /\ pool'[v].val = val /\ pool'[v].by = by
<1>1. /\ pool' = [pool EXCEPT ![v] = [key |-> k, val |-> val, by |-> by]]
      /\ pool \in [Var -> [key : Key \cup {"none"}, val : Val, by : {"manual", "resource"}]]
      /\ pool[v].key = k \/ WithKey(k) = {}
  BY DEF UpsertVar, PoolTyped
<1>2. /\ pool' \in [Var -> [key : Key \cup {"none"}, val : Val, by : {"manual", "resource"}]]
      /\ \A u \in Var \ {v} : pool'[u] = pool[u]
      /\ pool'[v].key = k /\ pool'[v].val = val /\ pool'[v].by = by
  BY <1>1
<1>3. \A u \in Var : There(u) => There(u)'
  BY <1>2 DEF There, Key
<1>4. \A u \in Var \ {v} : pool[u].key # k
  BY <1>1 DEF WithKey, PoolTyped, OneVar, There, Key
<1>5. OneVar'
  BY <1>2, <1>4 DEF OneVar, There, PoolTyped
<1>6. QED
  BY <1>2, <1>3, <1>5

LEMMA PoolTypedInit == PoolInit => PoolTyped
<1> SUFFICES ASSUME PoolInit PROVE PoolTyped
  OBVIOUS
<1>0. 1 \in Var /\ 1 \in Val /\ None \in Val
  BY PoolConstantsOK DEF Var, Val, None
<1>1. /\ pool \in [Var -> [key : Key \cup {"none"}, val : Val, by : {"manual", "resource"}]]
      /\ \A v \in Var : There(v) => v = 1
      /\ There(1) /\ links \subseteq {1}
  BY <1>0 DEF PoolInit, NoVar, Key, There
<1>2. own \in [Key -> Val]
  BY <1>0 DEF PoolInit
<1>3. \A k \in Key : Linked(k) \in Val
  <2> SUFFICES ASSUME NEW k \in Key PROVE Linked(k) \in Val
    OBVIOUS
  <2>1. {v \in links : pool[v].key = k} # {} =>
            (CHOOSE v \in {v \in links : pool[v].key = k} : TRUE) \in Var
    BY <1>0, <1>1
  <2>2. QED
    BY <1>0, <1>1, <2>1 DEF Linked
<1>4. secret \in [Key -> Val] /\ pods \in [Key -> Val]
  BY <1>2, <1>3 DEF PoolInit, Effective, Over
<1>5. req \in [Request -> PoolRequest] /\ reload \in [Reload -> PoolTask]
  BY <1>0 DEF PoolInit, PoolRequest, PoolTask, NoRequest, NoTask, PoolStage, Key
<1>6. /\ kind \in Resource /\ bound \in BOOLEAN
      /\ job \in [st : {"none", "running", "succeeded", "failed"}, old : Val, val : Val]
  <2>1. bound \in BOOLEAN
    BY DEF PoolInit
  <2>2. QED
    BY <1>0, <2>1 DEF PoolInit, NoJob
<1>9. OneVar /\ links \subseteq {v \in Var : There(v)}
  <2>1. OneVar
    BY <1>1 DEF OneVar, There
  <2>2. QED
    BY <1>0, <1>1, <2>1
<1>7. stored \in Val /\ engine \in Val /\ made \in Val /\ pending \in Nat
      /\ poolEvents \in 0..MaxPoolEvents
  BY <1>0, PoolConstantsOK DEF PoolInit
<1>8. QED
  BY <1>1, <1>2, <1>4, <1>5, <1>6, <1>7, <1>9 DEF PoolInit, PoolTyped

-----------------------------------------------------------------------------
\* The steps of requests keep to the types.
LEMMA PoolAsksTyped ==
    ASSUME PoolTyped, NEW r \in Request,
           \/ \E k \in Key : SetOwn(r, k) \/ DeleteOwn(r, k) \/ SetPool(r, k)
           \/ \E given \in SUBSET Key : SetOwnBulk(r, given)
           \/ \E v \in Var :
               \/ AskDeletePool(r, v) \/ AskLink(r, v) \/ Unlink(r, v)
               \/ \E k \in Key : AskRename(r, v, k)
           \/ AskRotate(r)
    PROVE  PoolTyped'
<1> USE DEF deployed, resource, variables
<1>1. ASSUME NEW state \in PoolRequest, Begin(r, state)
      PROVE  req' \in [Request -> PoolRequest] /\ poolEvents' \in 0..MaxPoolEvents
  BY <1>1, PoolBegin
<1>2. ASSUME NEW k \in Key, SetOwn(r, k) \/ DeleteOwn(r, k) PROVE PoolTyped'
  <2>1. own' \in [Key -> Val] /\ made' \in Val
    BY <1>2, PoolMakeUp, PoolFields DEF SetOwn, DeleteOwn, PoolTyped
  <2>2. Begin(r, [NoRequest EXCEPT !.at = "reload"])
    BY <1>2 DEF SetOwn, DeleteOwn
  <2>3. UNCHANGED <<kind, bound, stored, engine, job, pool, links, secret, pods, rolling,
                    appStatus, pending, reload, untidy>>
    BY <1>2 DEF SetOwn, DeleteOwn
  <2>4. QED
    BY <1>1, <2>1, <2>2, <2>3, PoolStates DEF PoolTyped, OneVar, There
<1>3. ASSUME NEW given \in SUBSET Key, SetOwnBulk(r, given) PROVE PoolTyped'
  <2>1. own' \in [Key -> Val] /\ made' \in Val
    BY <1>3, PoolMakeUp, PoolFields DEF SetOwnBulk, PoolTyped
  <2>2. Begin(r, [NoRequest EXCEPT !.at = "reload"])
    BY <1>3 DEF SetOwnBulk
  <2>3. UNCHANGED <<kind, bound, stored, engine, job, pool, links, secret, pods, rolling,
                    appStatus, pending, reload, untidy>>
    BY <1>3 DEF SetOwnBulk
  <2>4. QED
    BY <1>1, <2>1, <2>2, <2>3, PoolStates DEF PoolTyped, OneVar, There
<1>4. ASSUME NEW k \in Key, SetPool(r, k) PROVE PoolTyped'
  <2>1. PICK v \in Var : /\ Begin(r, [NoRequest EXCEPT !.at = "linked", !.var = v])
                         /\ UpsertVar(v, k, made', "manual")
    BY <1>4 DEF SetPool
  <2>2. made' \in Val
    BY <1>4, PoolMakeUp DEF SetPool
  <2>3. /\ pool' \in [Var -> [key : Key \cup {"none"}, val : Val, by : {"manual", "resource"}]]
        /\ OneVar' /\ \A u \in Var : There(u) => There(u)'
    BY <2>1, <2>2, PoolUpsert
  <2>4. UNCHANGED <<kind, bound, stored, engine, job, own, links, secret, pods, rolling,
                    appStatus, pending, reload, untidy>>
    BY <1>4 DEF SetPool
  <2>5. QED
    BY <1>1, <2>1, <2>2, <2>3, <2>4, PoolStates DEF PoolTyped
<1>5. ASSUME NEW v \in Var, Unlink(r, v) PROVE PoolTyped'
  BY <1>1, <1>5, PoolStates DEF Unlink, PoolTyped, OneVar, There
<1>6. ASSUME NEW v \in Var,
             AskDeletePool(r, v) \/ AskLink(r, v) \/ \E k \in Key : AskRename(r, v, k)
      PROVE  PoolTyped'
  <2>1. \E state \in PoolRequest : Begin(r, state)
    <3>1. CASE AskDeletePool(r, v)
      <4>1. PICK b \in {(v \in links), FALSE} :
                Begin(r, [NoRequest EXCEPT !.at = "deletePool", !.var = v, !.tell = b])
        BY <3>1 DEF AskDeletePool
      <4>2. b \in BOOLEAN
        <5>1. (v \in links) \in BOOLEAN /\ FALSE \in BOOLEAN
          OBVIOUS
        <5>2. QED
          BY <4>1, <5>1, Zenon
      <4>3. QED
        BY <4>1, <4>2, PoolStates
    <3>2. CASE AskLink(r, v)
      <4>1. pool[v].key \in Key
        BY <3>2, PoolFields DEF AskLink, There
      <4>2. QED
        BY <3>2, <4>1, PoolStates DEF AskLink
    <3>3. CASE \E k \in Key : AskRename(r, v, k)
      BY <3>3, PoolStates DEF AskRename
    <3>4. QED
      BY <1>6, <3>1, <3>2, <3>3
  <2>2. UNCHANGED <<resource, variables, deployed, appStatus, pending, reload, made, untidy>>
    BY <1>6 DEF AskDeletePool, AskLink, AskRename
  <2>3. QED
    BY <1>1, <2>1, <2>2 DEF PoolTyped, OneVar, There
<1>7. ASSUME AskRotate(r) PROVE PoolTyped'
  <2>1. made' \in Val
    BY <1>7, PoolMakeUp DEF AskRotate
  <2>2. PICK l \in {"clean", "store"} :
            Begin(r, [NoRequest EXCEPT !.at = l, !.old = stored, !.val = made'])
    BY <1>7 DEF AskRotate
  <2>3. req' \in [Request -> PoolRequest] /\ poolEvents' \in 0..MaxPoolEvents
    BY <1>1, <2>1, <2>2, PoolStates DEF PoolTyped
  <2>4. untidy' \in BOOLEAN
    BY <1>7 DEF AskRotate, Untidy, PoolTyped
  <2>5. QED
    BY <1>7, <2>1, <2>3, <2>4 DEF AskRotate, PoolTyped, OneVar, There
<1>8. QED
  BY <1>2, <1>3, <1>4, <1>5, <1>6, <1>7

LEMMA PoolChangesTyped ==
    ASSUME PoolTyped, NEW r \in Request, Changing(r)
    PROVE  PoolTyped'
<1> USE DEF deployed, resource, variables, bookkeeping
<1>1. ASSUME SpawnReload(r) PROVE PoolTyped'
  BY <1>1, PoolEnd DEF SpawnReload, PoolTyped, OneVar, There
<1>2. ASSUME ReloadLinked(r) PROVE PoolTyped'
  BY <1>2, PoolEnd DEF ReloadLinked, PoolTyped, OneVar, There
<1>3. ASSUME DeletePool(r) PROVE PoolTyped'
  <2>1. /\ pool' = [pool EXCEPT ![req[r].var] = NoVar] /\ links' = links \ {req[r].var}
        /\ untidy' \in BOOLEAN
    BY <1>3 DEF DeletePool, Untidy, PoolTyped
  <2>2. NoVar \in [key : Key \cup {"none"}, val : Val, by : {"manual", "resource"}]
        /\ NoVar.key = "none"
    BY PoolFields DEF NoVar
  <2>3. /\ pool' \in [Var -> [key : Key \cup {"none"}, val : Val, by : {"manual", "resource"}]]
        /\ \A u \in Var : u # req[r].var => pool'[u] = pool[u]
        /\ req[r].var \in Var => pool'[req[r].var].key = "none"
    BY <2>1, <2>2 DEF PoolTyped
  <2>4. OneVar' /\ \A u \in Var : u # req[r].var => (There(u) <=> There(u)')
    BY <2>3 DEF OneVar, There, PoolTyped
  <2>5. req' \in [Request -> PoolRequest]
    BY <1>3, PoolEnd, PoolGoto DEF DeletePool, PoolStage
  <2>6. QED
    BY <1>3, <2>1, <2>3, <2>4, <2>5 DEF DeletePool, PoolTyped
<1>4. ASSUME Rename(r) PROVE PoolTyped'
  <2>1. req' \in [Request -> PoolRequest]
    BY <1>4, PoolEnd, PoolGoto DEF Rename, PoolStage
  <2>2. CASE UNCHANGED pool
    BY <1>4, <2>1, <2>2 DEF Rename, PoolTyped, OneVar, There
  <2>3. CASE /\ There(req[r].var) /\ WithKey(req[r].key) \subseteq {req[r].var}
             /\ pool' = [pool EXCEPT ![req[r].var].key = req[r].key]
    <3>1. PICK v \in Var, k \in Key : v = req[r].var /\ k = req[r].key
      BY <2>3, PoolFields DEF There
    <3>2. /\ pool' \in [Var -> [key : Key \cup {"none"}, val : Val,
                                by : {"manual", "resource"}]]
          /\ \A u \in Var : u # v => pool'[u] = pool[u]
          /\ pool'[v].key = k
      BY <2>3, <3>1 DEF PoolTyped
    <3>3. OneVar' /\ \A u \in Var : There(u) => There(u)'
      BY <2>3, <3>1, <3>2 DEF OneVar, There, PoolTyped, WithKey, Key
    <3>4. QED
      BY <1>4, <2>1, <3>2, <3>3 DEF Rename, PoolTyped
  <2>4. QED
    BY <1>4, <2>2, <2>3 DEF Rename
<1>5. ASSUME DropLocal(r) PROVE PoolTyped'
  <2>1. own' \in [Key -> Val] /\ req' \in [Request -> PoolRequest]
    BY <1>5, PoolGoto, PoolFields DEF DropLocal, PoolStage, PoolTyped
  <2>2. QED
    BY <1>5, <2>1 DEF DropLocal, PoolTyped, OneVar, There
<1>6. ASSUME Link(r) PROVE PoolTyped'
  <2>1. req' \in [Request -> PoolRequest]
    BY <1>6, PoolEnd, PoolGoto DEF Link, PoolStage
  <2>2. links' \subseteq {v \in Var : There(v)} /\ untidy' \in BOOLEAN
    BY <1>6 DEF Link, Linkable, There, PoolTyped
  <2>3. QED
    BY <1>6, <2>1, <2>2 DEF Link, PoolTyped, OneVar, There
<1>7. QED
  BY <1>1, <1>2, <1>3, <1>4, <1>5, <1>6 DEF Changing

LEMMA PoolRotationTyped ==
    ASSUME PoolTyped, NEW r \in Request, Rotation(r)
    PROVE  PoolTyped'
<1> USE DEF deployed, resource, variables, bookkeeping
<1>1. ASSUME NEW l \in PoolStage, Goto(r, l) \/ End(r)
      PROVE  req' \in [Request -> PoolRequest]
  BY <1>1, PoolGoto, PoolEnd
<1>2. ASSUME Store(r) PROVE PoolTyped'
  <2>1. stored' \in Val /\ engine' \in Val
    BY <1>2, PoolFields DEF Store, PoolTyped
  <2>2. req' \in [Request -> PoolRequest]
    <3>1. Goto(r, "published") \/ Goto(r, "restart") \/ Goto(r, "find")
      BY <1>2, PoolConstantsOK DEF Store, PoolTyped
    <3>2. QED
      BY <1>1, <3>1 DEF PoolStage
  <2>3. QED
    BY <1>2, <2>1, <2>2 DEF Store, PoolTyped, OneVar, There
<1>3. ASSUME RestartRedis(r) PROVE PoolTyped'
  <2>1. engine' \in Val /\ untidy' \in BOOLEAN /\ poolEvents' \in 0..MaxPoolEvents
    BY <1>3, PoolFields, PoolEvents DEF RestartRedis, PoolTyped
  <2>2. req' \in [Request -> PoolRequest]
    BY <1>1, <1>3 DEF RestartRedis, PoolStage
  <2>3. QED
    BY <1>3, <2>1, <2>2 DEF RestartRedis, PoolTyped, OneVar, There
<1>4. ASSUME \/ CleanJob(r) \/ StartJob(r) \/ LookAtJob(r) \/ ReadExit(r) PROVE PoolTyped'
  <2>1. job' \in [st : {"none", "running", "succeeded", "failed"}, old : Val, val : Val]
    BY <1>4, PoolFields DEF CleanJob, StartJob, LookAtJob, ReadExit, NoJob, PoolTyped
  <2>2. untidy' \in BOOLEAN /\ poolEvents' \in 0..MaxPoolEvents
    BY <1>4, PoolEvents DEF CleanJob, StartJob, LookAtJob, ReadExit, PoolTyped
  <2>3. req' \in [Request -> PoolRequest]
    BY <1>1, <1>4 DEF CleanJob, StartJob, LookAtJob, ReadExit, PoolStage
  <2>4. UNCHANGED <<kind, bound, stored, engine, pool, links, own, secret, pods, rolling,
                    appStatus, pending, reload, made>>
    BY <1>4 DEF CleanJob, StartJob, LookAtJob, ReadExit
  <2>5. QED
    BY <2>1, <2>2, <2>3, <2>4 DEF PoolTyped, OneVar, There
<1>5. ASSUME AlreadyPublished(r) \/ FindPublished(r) \/ ReloadConsumers(r) PROVE PoolTyped'
  <2>1. CASE AlreadyPublished(r) \/ ReloadConsumers(r)
    <3>1. req' \in [Request -> PoolRequest]
      BY <1>1, <2>1 DEF AlreadyPublished, ReloadConsumers, PoolStage
    <3>2. QED
      BY <2>1, <3>1 DEF AlreadyPublished, ReloadConsumers, PoolTyped, OneVar, There
  <2>2. CASE FindPublished(r)
    <3>1. ASSUME NEW v \in Var
          PROVE  [req EXCEPT ![r].at = "refresh", ![r].var = v] \in [Request -> PoolRequest]
      <4>1. [req[r] EXCEPT !.at = "refresh", !.var = v] \in PoolRequest
        BY PoolFields DEF PoolRequest, PoolStage
      <4>2. QED
        BY <4>1, PoolFields
    <3>2. req' \in [Request -> PoolRequest]
      BY <1>1, <2>2, <3>1 DEF FindPublished, Mine, Published, PoolStage
    <3>3. QED
      BY <2>2, <3>2 DEF FindPublished, PoolTyped, OneVar, There
  <2>3. QED
    BY <1>5, <2>1, <2>2
<1>6. AfterPublish \in PoolStage
  BY DEF AfterPublish, PoolStage
<1>7. ASSUME Refresh(r) PROVE PoolTyped'
  <2>1. req' \in [Request -> PoolRequest] /\ untidy' \in BOOLEAN
    BY <1>1, <1>6, <1>7 DEF Refresh, Untidy, PoolTyped
  <2>2. CASE There(req[r].var)
    <3>1. PICK v \in Var, val \in Val : v = req[r].var /\ val = req[r].val
      BY <2>2, PoolFields DEF There
    <3>2. pool' = [pool EXCEPT ![v].val = val]
      BY <1>7, <2>2, <3>1 DEF Refresh
    <3>3. /\ pool' \in [Var -> [key : Key \cup {"none"}, val : Val,
                                by : {"manual", "resource"}]]
          /\ \A u \in Var : pool'[u].key = pool[u].key
      BY <3>2 DEF PoolTyped
    <3>4. OneVar' /\ \A u \in Var : There(u) <=> There(u)'
      BY <3>3 DEF OneVar, There, PoolTyped
    <3>5. QED
      BY <1>7, <2>1, <3>3, <3>4 DEF Refresh, PoolTyped
  <2>3. CASE ~There(req[r].var)
    BY <1>7, <2>1, <2>3 DEF Refresh, PoolTyped, OneVar, There
  <2>4. QED
    BY <2>2, <2>3
<1>8. ASSUME InsertPublished(r) PROVE PoolTyped'
  <2>1. PICK v \in Var : UpsertVar(v, "URL", req[r].val, "resource")
    BY <1>8 DEF InsertPublished
  <2>2. /\ pool' \in [Var -> [key : Key \cup {"none"}, val : Val, by : {"manual", "resource"}]]
        /\ OneVar' /\ \A u \in Var : There(u) => There(u)'
    BY <2>1, PoolUpsert, PoolFields DEF Key
  <2>3. req' \in [Request -> PoolRequest]
    BY <1>1, <1>6, <1>8 DEF InsertPublished
  <2>4. QED
    BY <1>8, <2>2, <2>3 DEF InsertPublished, PoolTyped
<1>9. ASSUME SyncBound(r) PROVE PoolTyped'
  <2>1. own' \in [Key -> Val]
    BY <1>9, PoolFields DEF SyncBound, PoolTyped
  <2>2. req' \in [Request -> PoolRequest]
    BY <1>1, <1>9 DEF SyncBound, PoolStage
  <2>3. QED
    BY <1>9, <2>1, <2>2 DEF SyncBound, PoolTyped, OneVar, There
<1>10. QED
  BY <1>2, <1>3, <1>4, <1>5, <1>7, <1>8, <1>9 DEF Rotation

\* What a variable has linked is a value.
LEMMA LinkedVal ==
    ASSUME PoolTyped, NEW k \in Key
    PROVE  Linked(k) \in Val
<1>1. {v \in links : pool[v].key = k} # {} =>
          (CHOOSE v \in {v \in links : pool[v].key = k} : TRUE) \in Var
  BY DEF PoolTyped
<1>2. QED
  BY <1>1, PoolFields DEF Linked

\* So do those of the tasks.
LEMMA PoolTasksTyped ==
    ASSUME PoolTyped, NEW t \in Reload,
           BeginDeploy(t) \/ BeginReconcile(t) \/ Carry(t) \/ CarryAmiss(t)
    PROVE  PoolTyped'
<1> USE DEF deployed, resource, variables, bookkeeping, SetTask
<1>1. NoTask \in PoolTask
  BY PoolFields DEF NoTask, PoolTask
<1>2. \A b \in BOOLEAN : [NoTask EXCEPT !.at = "links", !.roll = b] \in PoolTask
  BY PoolFields DEF NoTask, PoolTask
<1>3. ASSUME BeginReload(t) PROVE PoolTyped'
  <2>1. reload' \in [Reload -> PoolTask]
    BY <1>2, <1>3 DEF BeginReload, PoolTyped
  <2>2. pending' \in Nat
    BY <1>3 DEF BeginReload, PoolTyped
  <2>3. untidy' \in BOOLEAN
    BY <1>3 DEF BeginReload, PoolTyped, Untidy
  <2>4. QED
    BY <1>3, <2>1, <2>2, <2>3 DEF BeginReload, PoolTyped, OneVar, There
<1>4. ASSUME BeginDeploy(t) PROVE PoolTyped'
  <2>1. reload' \in [Reload -> PoolTask] /\ poolEvents' \in 0..MaxPoolEvents
    BY <1>2, <1>4, PoolEvents DEF BeginDeploy, PoolTyped
  <2>2. QED
    BY <1>4, <2>1 DEF BeginDeploy, PoolTyped, OneVar, There
<1>5. ASSUME BeginReconcile(t) PROVE PoolTyped'
  <2>1. [NoTask EXCEPT !.at = "links"] \in PoolTask
    BY PoolFields DEF NoTask, PoolTask
  <2>2. reload' \in [Reload -> PoolTask] /\ poolEvents' \in 0..MaxPoolEvents
    BY <2>1, <1>5, PoolEvents DEF BeginReconcile, PoolTyped
  <2>3. QED
    BY <1>5, <2>2 DEF BeginReconcile, PoolTyped, OneVar, There
<1>6. ASSUME ReadLinked(t) PROVE PoolTyped'
  <2>1. [k \in Key |-> Linked(k)] \in [Key -> Val]
    BY LinkedVal
  <2>2. PICK e \in [Key -> Val] : e = [k \in Key |-> Linked(k)]
    BY <2>1
  <2>3. [reload[t] EXCEPT !.at = "own", !.env = e] \in PoolTask
    BY PoolFields DEF PoolTask
  <2>4. reload' = [reload EXCEPT ![t] = [reload[t] EXCEPT !.at = "own", !.env = e]]
    BY <1>6, <2>2 DEF ReadLinked
  <2>5. reload' \in [Reload -> PoolTask] /\ untidy' \in BOOLEAN
    BY <1>6, <2>3, <2>4 DEF ReadLinked, PoolTyped, Untidy
  <2>6. QED
    BY <1>6, <2>5 DEF ReadLinked, PoolTyped, OneVar, There
<1>7. ASSUME ReadOwn(t) PROVE PoolTyped'
  <2>1. PICK e : e = Over(own, reload[t].env)
    OBVIOUS
  <2>2. e \in [Key -> Val]
    BY <2>1, PoolFields DEF Over, PoolTyped
  <2>3. [reload[t] EXCEPT !.at = "write", !.env = e] \in PoolTask
    BY <2>2, PoolFields DEF PoolTask
  <2>4. reload' = [reload EXCEPT ![t] = [reload[t] EXCEPT !.at = "write", !.env = e]]
    BY <1>7, <2>1 DEF ReadOwn
  <2>5. reload' \in [Reload -> PoolTask]
    BY <2>3, <2>4 DEF PoolTyped
  <2>6. QED
    BY <1>7, <2>5 DEF ReadOwn, PoolTyped, OneVar, There
<1>8. ASSUME WriteSecret(t) PROVE PoolTyped'
  <2>1. secret' \in [Key -> Val]
    BY <1>8, PoolFields DEF WriteSecret, PoolTyped
  <2>2. [reload[t] EXCEPT !.at = "patch"] \in PoolTask
    BY PoolFields DEF PoolTask
  <2>3. reload' \in [Reload -> PoolTask]
    BY <1>8, <2>2 DEF WriteSecret, Step, PoolTyped
  <2>4. QED
    BY <1>8, <2>1, <2>3 DEF WriteSecret, PoolTyped, OneVar, There
<1>9. ASSUME Patch(t) PROVE PoolTyped'
  <2>1. reload' \in [Reload -> PoolTask]
    BY <1>1, <1>9 DEF Patch, PoolTyped
  <2>2. rolling' \in BOOLEAN /\ appStatus' \in {"running", "deploying", "stopped"}
    BY <1>9 DEF Patch, PoolTyped
  <2>3. QED
    BY <1>9, <2>1, <2>2 DEF Patch, PoolTyped, OneVar, There
<1>10. ASSUME CarryFails(t) PROVE PoolTyped'
  <2>1. reload' \in [Reload -> PoolTask] /\ poolEvents' \in 0..MaxPoolEvents
    BY <1>1, <1>10, PoolEvents DEF CarryFails, PoolTyped
  <2>2. secret' \in [Key -> Val]
    BY <1>10, PoolFields DEF CarryFails, PoolTyped
  <2>3. rolling' \in BOOLEAN
    <3>1. \A b, c \in BOOLEAN : (b \/ c) \in BOOLEAN
      OBVIOUS
    <3>2. rolling \in BOOLEAN /\ (reload[t].at = "patch" /\ reload[t].roll) \in BOOLEAN
      BY PoolFields DEF PoolTyped
    <3>3. (rolling \/ (reload[t].at = "patch" /\ reload[t].roll)) \in BOOLEAN
      BY <3>1, <3>2
    <3>4. QED
      BY <1>10, <3>2, <3>3 DEF CarryFails
  <2>4. appStatus' \in {"running", "deploying", "stopped"}
    BY <1>10 DEF CarryFails, PoolTyped
  <2>5. untidy' \in BOOLEAN /\ UNCHANGED <<kind, bound, stored, engine, job, pool, links, own,
                                           pods, pending, req, made>>
    BY <1>10 DEF CarryFails
  <2>6. QED
    BY <2>1, <2>2, <2>3, <2>4, <2>5 DEF PoolTyped, OneVar, There
<1>11. ASSUME ReadAmiss(t) PROVE PoolTyped'
  <2>1. PICK lost \in SUBSET Key :
            reload' = [reload EXCEPT ![t] =
                IF reload[t].at = "links"
                THEN [reload[t] EXCEPT !.at = "own",
                         !.env = [k \in Key |-> IF k \in lost THEN None ELSE Linked(k)]]
                ELSE [reload[t] EXCEPT !.at = "write",
                         !.env = Over([k \in Key |-> IF k \in lost THEN None ELSE own[k]],
                                      reload[t].env)]]
    BY <1>11 DEF ReadAmiss
  <2>2. PICK e, f : /\ e = [k \in Key |-> IF k \in lost THEN None ELSE Linked(k)]
                    /\ f = Over([k \in Key |-> IF k \in lost THEN None ELSE own[k]],
                                reload[t].env)
    OBVIOUS
  <2>3. e \in [Key -> Val]
    BY <2>2, LinkedVal, PoolFields
  <2>4. f \in [Key -> Val]
    BY <2>2, PoolFields DEF Over, PoolTyped
  <2>5. /\ [reload[t] EXCEPT !.at = "own", !.env = e] \in PoolTask
        /\ [reload[t] EXCEPT !.at = "write", !.env = f] \in PoolTask
    BY <2>3, <2>4, PoolFields DEF PoolTask
  <2>6. reload' \in [Reload -> PoolTask]
    BY <2>1, <2>2, <2>5 DEF PoolTyped
  <2>7. QED
    BY <1>11, <2>6, PoolEvents DEF ReadAmiss, PoolTyped, OneVar, There
<1>12. QED
  BY <1>3, <1>4, <1>5, <1>6, <1>7, <1>8, <1>9, <1>10, <1>11 DEF Carry, CarryAmiss

LEMMA PoolTypedNext == PoolTyped /\ [PoolNext]_poolVars => PoolTyped'
<1> SUFFICES ASSUME PoolTyped, [PoolNext]_poolVars PROVE PoolTyped'
  OBVIOUS
<1> USE DEF deployed, resource, variables, bookkeeping
<1>1. ASSUME NEW r \in Request, RequestAmiss(r) PROVE PoolTyped'
  <2>1. PICK l \in PoolStage : Goto(r, l) \/ End(r)
    BY <1>1 DEF RequestAmiss, ExitMisread, PublishLost, TellLost, Abandon, AfterPublish, PoolStage
  <2>2. req' \in [Request -> PoolRequest]
    BY <2>1, PoolGoto, PoolEnd
  <2>3. poolEvents' \in 0..MaxPoolEvents /\ untidy' \in BOOLEAN
    BY <1>1, PoolEvents DEF RequestAmiss, ExitMisread, PublishLost, TellLost, Abandon
  <2>4. job' \in [st : {"none", "running", "succeeded", "failed"}, old : Val, val : Val]
    BY <1>1, PoolFields DEF RequestAmiss, ExitMisread, PublishLost, TellLost, Abandon, NoJob,
       PoolTyped
  <2>5. UNCHANGED <<kind, bound, stored, engine, pool, links, own, secret, pods, rolling,
                    appStatus, pending, reload, made>>
    BY <1>1 DEF RequestAmiss, ExitMisread, PublishLost, TellLost, Abandon
  <2>6. QED
    BY <2>2, <2>3, <2>4, <2>5 DEF PoolTyped, OneVar, There
<1>7. CASE JobFails
  <2>1. job' \in [st : {"none", "running", "succeeded", "failed"}, old : Val, val : Val]
        /\ engine' \in Val /\ untidy' \in BOOLEAN
    BY <1>7 DEF JobFails, PoolTyped, Untidy
  <2>2. QED
    BY <1>7, <2>1, PoolEvents DEF JobFails, PoolTyped, OneVar, There
<1>8. CASE ReloadLost
  BY <1>8, PoolEvents DEF ReloadLost, PoolTyped, OneVar, There
<1>2. CASE RunJob
  <2>1. job' \in [st : {"none", "running", "succeeded", "failed"}, old : Val, val : Val]
        /\ engine' \in Val
    BY <1>2 DEF RunJob, PoolTyped
  <2>2. QED
    BY <1>2, <2>1 DEF RunJob, PoolTyped, OneVar, There
<1>3. CASE Roll \/ Stop \/ Start
  BY <1>3, PoolEvents DEF Roll, Stop, Start, PoolTyped, OneVar, There
<1>4. CASE PoolCrash
  <2>1. req' \in [Request -> PoolRequest] /\ reload' \in [Reload -> PoolTask]
    BY <1>4, PoolStates, PoolFields DEF PoolCrash, NoTask, PoolTask
  <2>2. poolEvents' \in 0..MaxPoolEvents /\ untidy' \in BOOLEAN /\ pending' \in Nat
    BY <1>4, PoolEvents DEF PoolCrash, Untidy, PoolTyped
  <2>3. appStatus' \in {"running", "deploying", "stopped"}
    BY <1>4 DEF PoolCrash, PoolTyped
  <2>4. QED
    BY <1>4, <2>1, <2>2, <2>3 DEF PoolCrash, PoolTyped, OneVar, There
<1>5. CASE UNCHANGED poolVars
  BY <1>5 DEF poolVars, PoolTyped, OneVar, There
<1>6. QED
  BY <1>1, <1>2, <1>3, <1>4, <1>5, <1>7, <1>8, PoolAsksTyped, PoolChangesTyped,
     PoolRotationTyped, PoolTasksTyped DEF PoolNext

-----------------------------------------------------------------------------
\* What the environment says of a key.
LEMMA EffectiveAt ==
    ASSUME NEW k \in Key
    PROVE  Effective[k] = IF own[k] # None THEN own[k] ELSE Linked(k)
BY DEF Effective, Over

\* A variable that is not linked is not in the environment.
LEMMA LinkedKept ==
    ASSUME PoolTyped, links' = links, \A v \in links : pool'[v] = pool[v]
    PROVE  \A k \in Key : Linked(k)' = Linked(k)
<1> SUFFICES ASSUME NEW k \in Key PROVE Linked(k)' = Linked(k)
  OBVIOUS
<1> DEFINE S == {v \in links : pool[v].key = k}
           T == {v \in links' : pool'[v].key = k}
<1>1. S = T
  OBVIOUS
<1>2. Linked(k) = IF S = {} THEN None ELSE pool[CHOOSE v \in S : TRUE].val
  BY DEF Linked
<1>3. Linked(k)' = IF T = {} THEN None ELSE pool'[CHOOSE v \in T : TRUE].val
  BY DEF Linked
<1>4. S # {} => (CHOOSE v \in S : TRUE) \in links
  OBVIOUS
<1>5. QED
  BY <1>1, <1>2, <1>3, <1>4

\* The environment is as it was
SameEnv == \A k \in Key : own'[k] = own[k] /\ Linked(k)' = Linked(k)

LEMMA EffectiveKept ==
    ASSUME SameEnv
    PROVE  \A k \in Key : Effective'[k] = Effective[k]
<1>1. \A k \in Key : Effective'[k] = IF own'[k] # None THEN own'[k] ELSE Linked(k)'
  BY DEF Effective, Over
<1>2. QED
  BY <1>1, EffectiveAt DEF SameEnv

\* A step of a request that tells of what it changes leaves the rest to the tasks.
LEMMA FollowedTold ==
    ASSUME Followed, UNCHANGED <<reload, secret, pods, rolling>>,
           Owed' \/ (SameEnv /\ (Owed => Owed'))
    PROVE  Followed'
<1>1. CASE Owed'
  BY <1>1 DEF Followed
<1>2. CASE SameEnv /\ ~Owed
  <2>1. \A k \in Key : /\ Effective'[k] = Effective[k]
                       /\ \A t \in Reload : Current(t, k) => Current(t, k)'
    BY <1>2, EffectiveKept DEF Current, SameEnv
  <2>2. WillRead => WillRead'
    BY DEF WillRead
  <2>3. \A k \in Key : (Carried(k) => Carried(k)') /\ (Kept(k) => Kept(k)')
    BY <2>1 DEF Carried, Kept
  <2>4. QED
    BY <1>2, <2>1, <2>2, <2>3 DEF Followed
<1>3. QED
  BY <1>1, <1>2

\* Nothing that is linked is touched, and what is due stays due.
LEMMA DueKept ==
    ASSUME PoolTyped, NEW r \in Request, UNCHANGED <<links, bound, pending>>,
           \A v \in links : pool'[v] = pool[v],
           \A q \in Request \ {r} : req'[q] = req[q],
           Telling(r) => Telling(r)'
    PROVE  /\ \A k \in Key : Linked(k)' = Linked(k)
           /\ Owed => Owed'
<1>1. Consumes => Consumes'
  <2>1. \A v \in links \cap Published : v \in links' \cap Published'
    BY DEF Published, There, PoolTyped
  <2>2. QED
    BY <2>1 DEF Consumes
<1>2. \A q \in Request \ {r} : Telling(q) => Telling(q)'
  BY <1>1 DEF Telling
<1>3. QED
  BY <1>2, LinkedKept DEF Owed

\* The requests that ask for a change, and those that make it, tell of it.
LEMMA ChangesTold ==
    ASSUME PoolTyped, NEW r \in Request, Changing(r), ~untidy'
    PROVE  Owed' \/ (SameEnv /\ (Owed => Owed'))
<1> USE DEF resource, variables, bookkeeping
<1>1. CASE SpawnReload(r)
  <2>1. pending' > 0
    BY <1>1 DEF SpawnReload, PoolTyped
  <2>2. QED
    BY <2>1 DEF Owed
<1>2. CASE ReloadLinked(r)
  <2>1. CASE req[r].var \in links
    <3>1. pending' > 0
      BY <1>2, <2>1 DEF ReloadLinked, PoolTyped
    <3>2. QED
      BY <3>1 DEF Owed
  <2>2. CASE req[r].var \notin links
    <3>1. ~Telling(r) /\ pending' = pending
      BY <1>2, <2>2 DEF ReloadLinked, Telling, PoolTyped
    <3>2. QED
      BY <1>2, <3>1, PoolEnd, DueKept DEF ReloadLinked, SameEnv
  <2>3. QED
    BY <2>1, <2>2
<1>3. CASE DeletePool(r)
  <2>1. PICK v : v = req[r].var
    OBVIOUS
  <2>2. /\ pool' = [pool EXCEPT ![v] = NoVar] /\ links' = links \ {v}
        /\ UNCHANGED <<bound, pending, own>> /\ req[r].at = "deletePool"
        /\ ~(v \in links /\ ~req[r].tell)
        /\ IF There(v) /\ req[r].tell THEN Goto(r, "reload") ELSE End(r)
    BY <1>3, <2>1 DEF DeletePool, Untidy
  <2>3. CASE v \in links
    <3>1. req'[r].at = "reload"
      BY <2>2, <2>3, PoolGoto DEF PoolTyped, PoolStage
    <3>2. QED
      BY <3>1 DEF Owed, Telling
  <2>4. CASE v \notin links
    <3>1. links' = links /\ \A u \in links : pool'[u] = pool[u]
      BY <2>2, <2>4 DEF PoolTyped
    <3>2. \A q \in Request \ {r} : req'[q] = req[q]
      BY <2>2, PoolGoto, PoolEnd DEF PoolStage
    <3>3. ~Telling(r)
      BY <2>2 DEF Telling
    <3>4. QED
      BY <2>2, <3>1, <3>2, <3>3, DueKept DEF SameEnv
  <2>5. QED
    BY <2>3, <2>4
<1>4. CASE Rename(r)
  <2>1. PICK v : v = req[r].var
    OBVIOUS
  <2>2. ~Telling(r) /\ UNCHANGED <<links, bound, pending, own>>
    BY <1>4 DEF Rename, Telling
  <2>3. CASE UNCHANGED pool /\ End(r)
    BY <2>2, <2>3, PoolEnd, DueKept DEF SameEnv
  <2>4. CASE /\ There(v) /\ pool' = [pool EXCEPT ![v].key = req[r].key]
             /\ Goto(r, "linked")
    <3>1. req'[r].at = "linked" /\ req'[r].var = v /\ \A q \in Request \ {r} : req'[q] = req[q]
      BY <2>1, <2>4, PoolGoto DEF PoolStage
    <3>2. CASE v \in links
      BY <2>2, <3>1, <3>2 DEF Owed, Telling
    <3>3. CASE v \notin links
      <4>1. \A u \in links : pool'[u] = pool[u]
        BY <2>4, <3>3 DEF PoolTyped
      <4>2. QED
        BY <2>2, <3>1, <4>1, DueKept DEF SameEnv
    <3>4. QED
      BY <3>2, <3>3
  <2>5. QED
    BY <1>4, <2>1, <2>3, <2>4 DEF Rename
<1>5. CASE DropLocal(r)
  <2>1. req'[r].at = "link"
    BY <1>5, PoolGoto DEF DropLocal, PoolStage
  <2>2. QED
    BY <2>1 DEF Owed, Telling
<1>6. CASE Link(r)
  <2>1. req'[r].at = "reload"
    BY <1>6, PoolGoto DEF Link, PoolStage
  <2>2. QED
    BY <2>1 DEF Owed, Telling
<1>7. QED
  BY <1>1, <1>2, <1>3, <1>4, <1>5, <1>6 DEF Changing

LEMMA AsksTold ==
    ASSUME PoolTyped, NEW r \in Request,
           \/ \E k \in Key : SetOwn(r, k) \/ DeleteOwn(r, k) \/ SetPool(r, k)
           \/ \E given \in SUBSET Key : SetOwnBulk(r, given)
           \/ \E v \in Var :
               \/ AskDeletePool(r, v) \/ AskLink(r, v) \/ Unlink(r, v)
               \/ \E k \in Key : AskRename(r, v, k)
           \/ AskRotate(r)
    PROVE  Owed' \/ (SameEnv /\ (Owed => Owed'))
<1> USE DEF resource, variables
<1>1. CASE \/ \E k \in Key : SetOwn(r, k) \/ DeleteOwn(r, k)
           \/ \E given \in SUBSET Key : SetOwnBulk(r, given)
           \/ \E v \in Var : Unlink(r, v)
  <2>1. Begin(r, [NoRequest EXCEPT !.at = "reload"])
    BY <1>1 DEF SetOwn, DeleteOwn, SetOwnBulk, Unlink
  <2>2. req'[r] = [NoRequest EXCEPT !.at = "reload"]
    BY <2>1, PoolBegin, PoolStates
  <2>3. req'[r].at = "reload"
    BY <2>2 DEF NoRequest
  <2>4. QED
    BY <2>3 DEF Owed, Telling
<1>2. ASSUME NEW k \in Key, SetPool(r, k) PROVE Owed' \/ (SameEnv /\ (Owed => Owed'))
  <2>1. PICK v \in Var : /\ Begin(r, [NoRequest EXCEPT !.at = "linked", !.var = v])
                         /\ UpsertVar(v, k, made', "manual")
    BY <1>2 DEF SetPool
  <2>2. \A u \in Var \ {v} : pool'[u] = pool[u]
    BY <2>1, <1>2, PoolMakeUp, PoolUpsert DEF SetPool
  <2>3. /\ req'[r] = [NoRequest EXCEPT !.at = "linked", !.var = v] /\ req[r].at = "idle"
        /\ \A q \in Request \ {r} : req'[q] = req[q]
    BY <2>1, PoolBegin, PoolStates
  <2>4. req'[r].at = "linked" /\ req'[r].var = v /\ ~Telling(r)
    BY <2>3 DEF NoRequest, Telling
  <2>5. UNCHANGED <<links, bound, pending, own>>
    BY <1>2 DEF SetPool
  <2>6. CASE v \in links
    BY <2>4, <2>5, <2>6 DEF Owed, Telling
  <2>7. CASE v \notin links
    <3>1. \A u \in links : pool'[u] = pool[u]
      BY <2>2, <2>7 DEF PoolTyped
    <3>2. QED
      BY <2>3, <2>4, <2>5, <3>1, DueKept DEF SameEnv
  <2>8. QED
    BY <2>6, <2>7
<1>3. CASE \/ \E v \in Var : \/ AskDeletePool(r, v) \/ AskLink(r, v)
                             \/ \E k \in Key : AskRename(r, v, k)
           \/ AskRotate(r)
  <2>1. UNCHANGED <<links, bound, pending, own, pool>>
    BY <1>3 DEF AskDeletePool, AskLink, AskRename, AskRotate
  <2>2. \E state : Begin(r, state)
    BY <1>3 DEF AskDeletePool, AskLink, AskRename, AskRotate
  <2>3. /\ req[r].at = "idle" /\ \A q \in Request \ {r} : req'[q] = req[q]
    BY <2>2, PoolFields DEF Begin, NoRequest
  <2>4. ~Telling(r)
    BY <2>3 DEF Telling
  <2>5. QED
    BY <2>1, <2>3, <2>4, DueKept DEF SameEnv
<1>4. QED
  BY <1>1, <1>2, <1>3

LEMMA RotationTold ==
    ASSUME PoolTyped, NEW r \in Request, Rotation(r), ~untidy'
    PROVE  Owed' \/ (SameEnv /\ (Owed => Owed'))
<1> USE DEF resource, variables
<1>1. CASE \/ Store(r) \/ RestartRedis(r) \/ CleanJob(r) \/ StartJob(r) \/ LookAtJob(r)
           \/ ReadExit(r) \/ AlreadyPublished(r) \/ FindPublished(r)
  <2>1. UNCHANGED <<links, bound, pending, own, pool>>
    BY <1>1 DEF Store, RestartRedis, CleanJob, StartJob, LookAtJob, ReadExit, AlreadyPublished,
       FindPublished
  <2>2. ~Telling(r)
    BY <1>1 DEF Store, RestartRedis, CleanJob, StartJob, LookAtJob, ReadExit, AlreadyPublished,
       FindPublished, Telling
  <2>3. \A q \in Request \ {r} : req'[q] = req[q]
    BY <1>1, PoolFields DEF Store, RestartRedis, CleanJob, StartJob, LookAtJob, ReadExit,
       AlreadyPublished, FindPublished, Goto, End
  <2>4. QED
    BY <2>1, <2>2, <2>3, DueKept DEF SameEnv
<1>2. AfterPublish \in {"bound", "consumers"} /\ AfterPublish \in PoolStage
  BY DEF AfterPublish, PoolStage
<1>3. CASE Refresh(r)
  <2>1. PICK v : v = req[r].var
    OBVIOUS
  <2>2. /\ v \in Published /\ pool' = [pool EXCEPT ![v].val = req[r].val]
        /\ Goto(r, AfterPublish) /\ ~Telling(r)
        /\ UNCHANGED <<links, bound, pending, own>>
    BY <1>3, <2>1 DEF Refresh, Untidy, Published, Telling
  <2>3. /\ req'[r].at \in {"bound", "consumers"} /\ \A q \in Request \ {r} : req'[q] = req[q]
    BY <1>2, <2>2, PoolGoto
  <2>4. CASE v \in links
    <3>1. pool'[v].key = pool[v].key /\ pool'[v].by = pool[v].by
      BY <2>2 DEF PoolTyped, Published
    <3>2. v \in links' \cap Published'
      BY <2>2, <2>4, <3>1 DEF Published, There
    <3>3. QED
      BY <2>3, <3>2 DEF Owed, Telling, Consumes
  <2>5. CASE v \notin links
    <3>1. \A u \in links : pool'[u] = pool[u]
      BY <2>2, <2>5 DEF PoolTyped
    <3>2. QED
      BY <2>2, <2>3, <3>1, DueKept DEF SameEnv
  <2>6. QED
    BY <2>4, <2>5
<1>4. CASE InsertPublished(r)
  <2>1. PICK v \in Var : UpsertVar(v, "URL", req[r].val, "resource")
    BY <1>4 DEF InsertPublished
  <2>2. pool'[v].key = "URL" /\ pool'[v].by = "resource"
        /\ \A u \in Var \ {v} : pool'[u] = pool[u]
    BY <2>1, PoolUpsert, PoolFields DEF Key
  <2>3. /\ req'[r].at \in {"bound", "consumers"} /\ \A q \in Request \ {r} : req'[q] = req[q]
    BY <1>2, <1>4, PoolGoto DEF InsertPublished
  <2>4. ~Telling(r) /\ UNCHANGED <<links, bound, pending, own>>
    BY <1>4 DEF InsertPublished, Telling
  <2>5. CASE v \in links
    <3>1. v \in links' \cap Published'
      BY <2>2, <2>4, <2>5 DEF Published, There
    <3>2. QED
      BY <2>3, <3>1 DEF Owed, Telling, Consumes
  <2>6. CASE v \notin links
    <3>1. \A u \in links : pool'[u] = pool[u]
      BY <2>2, <2>6 DEF PoolTyped
    <3>2. QED
      BY <2>3, <2>4, <3>1, DueKept DEF SameEnv
  <2>7. QED
    BY <2>5, <2>6
<1>5. CASE SyncBound(r)
  <2>1. /\ req'[r].at = "consumers" /\ \A q \in Request \ {r} : req'[q] = req[q]
    BY <1>5, PoolGoto DEF SyncBound, PoolStage
  <2>2. UNCHANGED <<links, bound, pending, pool>> /\ req[r].at = "bound"
        /\ (~bound => own' = own)
    BY <1>5 DEF SyncBound
  <2>3. CASE bound
    BY <2>1, <2>2, <2>3 DEF Owed, Telling, Consumes
  <2>4. CASE ~bound
    <3>1. Consumes' <=> Consumes
      BY <2>2 DEF Consumes, Published, There
    <3>2. Telling(r) => Telling(r)'
      BY <2>1, <2>2, <3>1 DEF Telling
    <3>3. QED
      BY <2>1, <2>2, <2>4, <3>2, DueKept DEF SameEnv
  <2>5. QED
    BY <2>3, <2>4
<1>6. CASE ReloadConsumers(r)
  <2>1. CASE Consumes
    <3>1. req'[r].at = "reload"
      BY <1>6, <2>1, PoolGoto DEF ReloadConsumers, PoolStage
    <3>2. QED
      BY <3>1 DEF Owed, Telling
  <2>2. CASE ~Consumes
    <3>1. ~Telling(r) /\ UNCHANGED <<links, bound, pending, pool, own>> /\ End(r)
      BY <1>6, <2>2 DEF ReloadConsumers, Telling
    <3>2. QED
      BY <3>1, PoolEnd, DueKept DEF SameEnv
  <2>3. QED
    BY <2>1, <2>2
<1>7. QED
  BY <1>1, <1>3, <1>4, <1>5, <1>6 DEF Rotation

\* A mishap is never forgotten.
LEMMA UntidyKept == PoolTyped /\ [PoolNext]_poolVars => (untidy => untidy')
<1> SUFFICES ASSUME PoolTyped, [PoolNext]_poolVars, untidy PROVE untidy'
  OBVIOUS
<1> USE DEF deployed, resource, variables, bookkeeping, Untidy
<1>1. ASSUME NEW r \in Request,
             \/ \E k \in Key : SetOwn(r, k) \/ DeleteOwn(r, k) \/ SetPool(r, k)
             \/ \E given \in SUBSET Key : SetOwnBulk(r, given)
             \/ \E v \in Var :
                 \/ AskDeletePool(r, v) \/ AskLink(r, v) \/ Unlink(r, v)
                 \/ \E k \in Key : AskRename(r, v, k)
             \/ AskRotate(r)
      PROVE  untidy'
  BY <1>1 DEF SetOwn, DeleteOwn, SetPool, SetOwnBulk, AskDeletePool, AskLink, Unlink, AskRename,
     AskRotate
<1>2. ASSUME NEW r \in Request, Changing(r) PROVE untidy'
  BY <1>2 DEF Changing, SpawnReload, ReloadLinked, DeletePool, Rename, DropLocal, Link
<1>3. ASSUME NEW r \in Request, Rotation(r) PROVE untidy'
  <2>1. CASE \/ Store(r) \/ RestartRedis(r) \/ CleanJob(r) \/ StartJob(r)
             \/ LookAtJob(r) \/ ReadExit(r)
    BY <2>1 DEF Store, RestartRedis, CleanJob, StartJob, LookAtJob, ReadExit
  <2>2. CASE \/ AlreadyPublished(r) \/ FindPublished(r) \/ Refresh(r) \/ InsertPublished(r)
             \/ SyncBound(r) \/ ReloadConsumers(r)
    BY <2>2 DEF AlreadyPublished, FindPublished, Refresh, InsertPublished, SyncBound,
       ReloadConsumers
  <2>3. QED
    BY <1>3, <2>1, <2>2 DEF Rotation
<1>4. ASSUME NEW r \in Request, RequestAmiss(r) PROVE untidy'
  BY <1>4 DEF RequestAmiss, ExitMisread, PublishLost, TellLost, Abandon
<1>5. ASSUME NEW t \in Reload, BeginDeploy(t) \/ BeginReconcile(t) \/ Carry(t) \/ CarryAmiss(t)
      PROVE  untidy'
  BY <1>5 DEF BeginDeploy, BeginReconcile, Carry, BeginReload, ReadLinked, ReadOwn, WriteSecret,
     Patch, CarryAmiss, ReadAmiss, CarryFails
<1>6. CASE \/ RunJob \/ JobFails \/ ReloadLost \/ Roll \/ Stop \/ Start \/ PoolCrash
           \/ UNCHANGED poolVars
  BY <1>6 DEF RunJob, JobFails, ReloadLost, Roll, Stop, Start, PoolCrash, poolVars
<1>7. QED
  BY <1>1, <1>2, <1>3, <1>4, <1>5, <1>6 DEF PoolNext

\* What a task's step leaves alone.
LEMMA PoolTaskStep ==
    ASSUME PoolTyped, NEW t \in Reload, NEW task \in PoolTask, SetTask(t, task)
    PROVE  reload'[t] = task /\ \A q \in Reload \ {t} : reload'[q] = reload[q]
BY PoolFields DEF SetTask

\* The tasks, one by one.
LEMMA PoolTaskSteps ==
    ASSUME PoolTyped, NEW t \in Reload
    PROVE  /\ (BeginReload(t) /\ appStatus = "running") \/ BeginDeploy(t) =>
                reload'[t].at = "links" /\ reload'[t].roll
           /\ BeginReconcile(t) => reload'[t].at = "links"
           /\ ReadLinked(t) => /\ reload'[t].at = "own" /\ reload'[t].roll = reload[t].roll
                               /\ \A k \in Key : reload'[t].env[k] = Linked(k)
           /\ ReadOwn(t) => /\ reload'[t].at = "write" /\ reload'[t].roll = reload[t].roll
                            /\ \A k \in Key : reload'[t].env[k] =
                                  IF own[k] # None THEN own[k] ELSE reload[t].env[k]
           /\ WriteSecret(t) => reload'[t].at = "patch" /\ reload'[t].roll = reload[t].roll
           /\ Patch(t) => reload'[t].at = "idle"
           /\ BeginReload(t) \/ BeginDeploy(t) \/ BeginReconcile(t) => reload[t].at = "idle"
<1> USE DEF SetTask
<1>1. (BeginReload(t) /\ appStatus = "running") \/ BeginDeploy(t) =>
          reload'[t].at = "links" /\ reload'[t].roll
  BY PoolFields DEF BeginReload, BeginDeploy, NoTask
<1>2. BeginReconcile(t) => reload'[t].at = "links"
  BY PoolFields DEF BeginReconcile, NoTask
<1>3. ASSUME ReadLinked(t)
      PROVE  /\ reload'[t].at = "own" /\ reload'[t].roll = reload[t].roll
             /\ \A k \in Key : reload'[t].env[k] = Linked(k)
  <2>1. PICK e : e = [k \in Key |-> Linked(k)]
    OBVIOUS
  <2>2. reload' = [reload EXCEPT ![t] = [reload[t] EXCEPT !.at = "own", !.env = e]]
    BY <1>3, <2>1 DEF ReadLinked
  <2>3. /\ reload'[t].at = "own" /\ reload'[t].roll = reload[t].roll
        /\ reload'[t].env = e
    BY <2>2, PoolFields DEF PoolTask
  <2>4. QED
    BY <2>1, <2>3
<1>4. ASSUME ReadOwn(t)
      PROVE  /\ reload'[t].at = "write" /\ reload'[t].roll = reload[t].roll
             /\ \A k \in Key : reload'[t].env[k] =
                   IF own[k] # None THEN own[k] ELSE reload[t].env[k]
  <2>1. PICK e : e = Over(own, reload[t].env)
    OBVIOUS
  <2>2. reload' = [reload EXCEPT ![t] = [reload[t] EXCEPT !.at = "write", !.env = e]]
    BY <1>4, <2>1 DEF ReadOwn
  <2>3. /\ reload'[t].at = "write" /\ reload'[t].roll = reload[t].roll
        /\ reload'[t].env = e
    BY <2>2, PoolFields DEF PoolTask
  <2>4. QED
    BY <2>1, <2>3 DEF Over
<1>5. WriteSecret(t) => reload'[t].at = "patch" /\ reload'[t].roll = reload[t].roll
  BY PoolFields DEF WriteSecret, Step, PoolTask
<1>6. Patch(t) => reload'[t].at = "idle"
  BY PoolFields DEF Patch, NoTask
<1>7. BeginReload(t) \/ BeginDeploy(t) \/ BeginReconcile(t) => reload[t].at = "idle"
  <2>1. BeginReload(t) \/ BeginDeploy(t) \/ BeginReconcile(t) => reload[t] = NoTask
    BY DEF BeginReload, BeginDeploy, BeginReconcile
  <2>2. NoTask.at = "idle"
    BY DEF NoTask
  <2>3. QED
    BY <2>1, <2>2
<1>8. QED
  BY <1>1, <1>2, <1>3, <1>4, <1>5, <1>6, <1>7

\* A task's step is its own.
LEMMA PoolTasksApart ==
    ASSUME PoolTyped, NEW t \in Reload,
           BeginDeploy(t) \/ BeginReconcile(t) \/ Carry(t) \/ CarryAmiss(t)
    PROVE  \A q \in Reload \ {t} : reload'[q] = reload[q]
BY PoolFields DEF BeginDeploy, BeginReconcile, Carry, BeginReload, ReadLinked, ReadOwn,
   WriteSecret, Patch, CarryAmiss, ReadAmiss, CarryFails, Step, SetTask

\* Nothing but a task's step and the end of the process touches the tasks.
LEMMA ReloadUntouched ==
    ASSUME NEW r \in Request,
           \/ \E k \in Key : SetOwn(r, k) \/ DeleteOwn(r, k) \/ SetPool(r, k)
           \/ \E given \in SUBSET Key : SetOwnBulk(r, given)
           \/ \E v \in Var :
               \/ AskDeletePool(r, v) \/ AskLink(r, v) \/ Unlink(r, v)
               \/ \E k \in Key : AskRename(r, v, k)
           \/ Changing(r) \/ AskRotate(r) \/ Rotation(r) \/ RequestAmiss(r)
    PROVE  UNCHANGED <<reload, secret, pods, rolling, appStatus>>
<1> USE DEF deployed
<1>1. CASE \/ \E k \in Key : SetOwn(r, k) \/ DeleteOwn(r, k) \/ SetPool(r, k)
           \/ \E given \in SUBSET Key : SetOwnBulk(r, given)
           \/ \E v \in Var :
               \/ AskDeletePool(r, v) \/ AskLink(r, v) \/ Unlink(r, v)
               \/ \E k \in Key : AskRename(r, v, k)
           \/ AskRotate(r) \/ RequestAmiss(r)
  BY <1>1 DEF SetOwn, DeleteOwn, SetPool, SetOwnBulk, AskDeletePool, AskLink, Unlink, AskRename,
     AskRotate, RequestAmiss, ExitMisread, PublishLost, TellLost, Abandon
<1>2. CASE Changing(r)
  BY <1>2 DEF Changing, SpawnReload, ReloadLinked, DeletePool, Rename, DropLocal, Link
<1>3. CASE Rotation(r)
  <2>1. CASE \/ Store(r) \/ RestartRedis(r) \/ CleanJob(r) \/ StartJob(r)
             \/ LookAtJob(r) \/ ReadExit(r)
    BY <2>1 DEF Store, RestartRedis, CleanJob, StartJob, LookAtJob, ReadExit
  <2>2. CASE \/ AlreadyPublished(r) \/ FindPublished(r) \/ Refresh(r) \/ InsertPublished(r)
             \/ SyncBound(r) \/ ReloadConsumers(r)
    BY <2>2 DEF AlreadyPublished, FindPublished, Refresh, InsertPublished, SyncBound,
       ReloadConsumers
  <2>3. QED
    BY <1>3, <2>1, <2>2 DEF Rotation
<1>4. QED
  BY <1>1, <1>2, <1>3

\* The task of a deploy is there until the deploy ends.
LEMMA DeploysKept ==
    ASSUME PoolTyped, Deploys, [PoolNext]_poolVars, ~untidy'
    PROVE  Deploys'
<1>1. ASSUME NEW t \in Reload, BeginDeploy(t) \/ BeginReconcile(t) \/ Carry(t) \/ CarryAmiss(t)
      PROVE  Deploys'
  <2> SUFFICES ASSUME appStatus' = "deploying"
               PROVE  \E q \in Reload : reload'[q].at # "idle" /\ reload'[q].roll
    BY DEF Deploys
  <2>1. CASE BeginDeploy(t)
    BY <2>1, PoolTaskSteps
  <2>2. CASE ~BeginDeploy(t)
    <3>1. appStatus = "deploying" /\ ~Patch(t) /\ ~CarryAmiss(t) /\ ~BeginReconcile(t)
      BY <1>1, <2>2 DEF BeginReconcile, Carry, BeginReload, ReadLinked, ReadOwn, WriteSecret,
         Patch, CarryAmiss, ReadAmiss, CarryFails
    <3>2. PICK q \in Reload : reload[q].at # "idle" /\ reload[q].roll
      BY <3>1 DEF Deploys
    <3>3. CASE q = t
      <4>1. ReadLinked(t) \/ ReadOwn(t) \/ WriteSecret(t)
        BY <1>1, <2>2, <3>1, <3>2, <3>3, PoolTaskSteps DEF Carry
      <4>2. QED
        BY <3>2, <3>3, <4>1, PoolTaskSteps
    <3>4. CASE q # t
      BY <1>1, <3>2, <3>4, PoolTasksApart
    <3>5. QED
      BY <3>3, <3>4
  <2>3. QED
    BY <2>1, <2>2
<1>2. CASE UNCHANGED <<reload, appStatus>>
  BY <1>2 DEF Deploys
<1>3. CASE RunJob \/ JobFails \/ Roll \/ Stop \/ Start \/ PoolCrash \/ UNCHANGED poolVars
  BY <1>3 DEF RunJob, JobFails, Roll, Stop, Start, PoolCrash, poolVars, Deploys, PoolTyped
<1>5. ~ReloadLost
  BY DEF ReloadLost
<1>4. QED
  BY <1>1, <1>2, <1>3, <1>5, ReloadUntouched DEF PoolNext

\* No two tasks are between reading and writing, unless one saw the other there.
LEMMA OneCarriesKept ==
    ASSUME PoolTyped, OneCarries, [PoolNext]_poolVars, ~untidy'
    PROVE  OneCarries'
<1>1. ASSUME NEW t \in Reload, BeginDeploy(t) \/ BeginReconcile(t) \/ Carry(t) \/ CarryAmiss(t)
      PROVE  OneCarries'
  <2>1. \A q \in Reload \ {t} : reload'[q] = reload[q]
    BY <1>1, PoolTasksApart
  <2>2. CASE ReadLinked(t)
    <3>1. \A q \in Reload \ {t} : reload[q].at \notin HasRead
      BY <2>2 DEF ReadLinked, Untidy, Overlapped
    <3>2. QED
      BY <2>1, <3>1 DEF OneCarries
  <2>3. CASE reload'[t].at \in HasRead => reload[t].at \in HasRead
    BY <2>1, <2>3 DEF OneCarries
  <2>4. CASE BeginDeploy(t) \/ BeginReconcile(t) \/ WriteSecret(t) \/ Patch(t)
             \/ (BeginReload(t) /\ appStatus = "running")
    BY <2>3, <2>4, PoolTaskSteps DEF HasRead
  <2>5. CASE ReadOwn(t)
    BY <2>3, <2>5 DEF HasRead, ReadOwn
  <2>6. CASE BeginReload(t) /\ appStatus # "running"
    BY <2>3, <2>6 DEF BeginReload
  <2>7. ~CarryAmiss(t)
    BY DEF CarryAmiss, ReadAmiss, CarryFails
  <2>8. QED
    BY <1>1, <2>2, <2>4, <2>5, <2>6, <2>7 DEF Carry
<1>2. CASE UNCHANGED <<reload, appStatus>>
  BY <1>2 DEF OneCarries
<1>3. CASE RunJob \/ JobFails \/ ReloadLost \/ Roll \/ Stop \/ Start \/ UNCHANGED poolVars
  BY <1>3 DEF RunJob, JobFails, ReloadLost, Roll, Stop, Start, poolVars, OneCarries
<1>4. CASE PoolCrash
  BY <1>4 DEF PoolCrash, Untidy, OneCarries, NoTask, HasRead
<1>5. QED
  BY <1>1, <1>2, <1>3, <1>4, ReloadUntouched DEF PoolNext

\* When no row and no request changes, the environment and what is told of stay.
LEMMA EnvKept ==
    ASSUME PoolTyped, UNCHANGED <<pool, links, own, bound, req>>
    PROVE  /\ SameEnv
           /\ \A k \in Key : Effective'[k] = Effective[k]
           /\ \A r \in Request : Telling(r) => Telling(r)'
<1>1. SameEnv
  BY LinkedKept DEF SameEnv
<1>2. \A r \in Request : Telling(r) => Telling(r)'
  BY DEF Telling, Consumes, Published, There
<1>3. QED
  BY <1>1, <1>2, EffectiveKept

\* A task that goes on, or begins, carries what it or another was to carry.
LEMMA TasksFollow ==
    ASSUME PoolTyped, Deploys, OneCarries, Followed, NEW t \in Reload, ~untidy',
           BeginDeploy(t) \/ BeginReconcile(t) \/ Carry(t) \/ CarryAmiss(t)
    PROVE  Followed'
<1> USE DEF deployed, resource, variables, bookkeeping
<1>0. UNCHANGED <<pool, links, own, bound, req>>
  BY DEF BeginDeploy, BeginReconcile, Carry, BeginReload, ReadLinked, ReadOwn, WriteSecret,
     Patch, CarryAmiss, ReadAmiss, CarryFails
<1>1. /\ \A q \in Reload \ {t} : reload'[q] = reload[q]
      /\ SameEnv /\ \A k \in Key : Effective'[k] = Effective[k]
      /\ \A r \in Request : Telling(r) => Telling(r)'
  BY <1>0, PoolTasksApart, EnvKept
<1>2. \A q \in Reload \ {t} : \A k \in Key : Current(q, k) <=> Current(q, k)'
  BY <1>0, <1>1 DEF Current, SameEnv
<1>3. pending' = pending => (Owed => Owed')
  BY <1>1 DEF Owed
<1>4. CASE BeginDeploy(t) \/ (BeginReload(t) /\ appStatus = "running")
  BY <1>4, PoolTaskSteps DEF Followed, WillRead
<1>5. CASE BeginReload(t) /\ appStatus # "running"
  <2>1. /\ UNCHANGED reload /\ appStatus = "deploying"
        /\ \A q \in Reload : reload[q].at \notin HasRead \cup {"patch"}
    BY <1>5 DEF BeginReload, Untidy, PoolTyped
  <2>2. PICK q \in Reload : reload[q].at # "idle" /\ reload[q].roll
    BY <2>1 DEF Deploys
  <2>3. reload[q].at = "links"
    BY <2>1, <2>2, PoolFields DEF HasRead
  <2>4. QED
    BY <2>1, <2>2, <2>3 DEF Followed, WillRead
<1>6. CASE BeginReconcile(t)
  <2>1. reload[t].at = "idle" /\ reload'[t].at = "links" /\ UNCHANGED <<secret, pods, rolling>>
    BY <1>6, PoolTaskSteps DEF BeginReconcile
  <2>2. WillRead => WillRead'
    BY <1>1, <2>1 DEF WillRead
  <2>3. \A k \in Key : Carried(k) => Carried(k)'
    BY <1>1, <1>2, <2>1 DEF Carried, Current
  <2>4. \A k \in Key : Kept(k) => Kept(k)'
    BY <1>1, <1>2, <2>1 DEF Kept, HasRead
  <2>5. pending' = pending
    BY <1>6 DEF BeginReconcile
  <2>6. QED
    BY <1>1, <1>3, <2>2, <2>3, <2>4, <2>5 DEF Followed
<1>7. CASE ReadLinked(t)
  <2>1. /\ reload[t].at = "links" /\ reload'[t].at = "own" /\ reload'[t].roll = reload[t].roll
        /\ \A k \in Key : reload'[t].env[k] = Linked(k)
        /\ UNCHANGED <<secret, pods, rolling>>
    BY <1>7, PoolTaskSteps DEF ReadLinked
  <2>2. \A k \in Key : Current(t, k)'
    BY <1>1, <2>1 DEF Current, SameEnv
  <2>3. CASE reload[t].roll
    BY <2>1, <2>2, <2>3 DEF Followed, Carried
  <2>4. CASE ~reload[t].roll
    <3>1. WillRead => WillRead'
      BY <1>1, <2>1, <2>4 DEF WillRead
    <3>2. \A k \in Key : Carried(k) => Carried(k)'
      BY <1>1, <1>2, <2>1, <2>4 DEF Carried
    <3>3. \A k \in Key : Kept(k) => Kept(k)'
      BY <1>1, <1>2, <2>1, <2>2 DEF Kept
    <3>4. pending' = pending
      BY <1>7 DEF ReadLinked
    <3>5. QED
      BY <1>1, <1>3, <3>1, <3>2, <3>3, <3>4 DEF Followed
  <2>5. QED
    BY <2>3, <2>4
<1>8. CASE ReadOwn(t)
  <2>1. /\ reload[t].at = "own" /\ reload'[t].at = "write" /\ reload'[t].roll = reload[t].roll
        /\ \A k \in Key : reload'[t].env[k] = IF own[k] # None THEN own[k] ELSE reload[t].env[k]
        /\ UNCHANGED <<secret, pods, rolling>>
    BY <1>8, PoolTaskSteps DEF ReadOwn
  <2>2. \A k \in Key : Current(t, k) => Current(t, k)'
    BY <1>1, <2>1, EffectiveAt DEF Current, SameEnv
  <2>3. WillRead => WillRead'
    BY <1>1, <2>1 DEF WillRead
  <2>4. \A k \in Key : Carried(k) => Carried(k)'
    BY <1>1, <1>2, <2>1, <2>2 DEF Carried
  <2>5. \A k \in Key : Kept(k) => Kept(k)'
    BY <1>1, <1>2, <2>1, <2>2 DEF Kept, HasRead
  <2>6. pending' = pending
    BY <1>8 DEF ReadOwn
  <2>7. QED
    BY <1>1, <1>3, <2>3, <2>4, <2>5, <2>6 DEF Followed
<1>9. CASE WriteSecret(t)
  <2>1. /\ reload[t].at = "write" /\ reload'[t].at = "patch" /\ reload'[t].roll = reload[t].roll
        /\ UNCHANGED <<pods, rolling>>
    BY <1>9, PoolTaskSteps DEF WriteSecret
  <2>2. \A k \in Key : reload[t].env[k] # None => secret'[k] = reload[t].env[k]
    BY <1>9 DEF WriteSecret
  <2>3. \A q \in Reload \ {t} : reload[q].at \notin HasRead
    BY <2>1 DEF OneCarries, HasRead
  <2>4. ASSUME NEW k \in Key, Effective[k] # None, Carried(k) \/ Kept(k) PROVE Kept(k)'
    <3>1. Current(t, k)
      BY <2>1, <2>3, <2>4 DEF Carried, Current, Kept, HasRead
    <3>2. secret'[k] = Effective'[k]
      BY <1>1, <2>1, <2>2, <2>4, <3>1 DEF Current
    <3>3. \A q \in Reload : reload'[q].at \notin HasRead
      BY <1>1, <2>1, <2>3 DEF HasRead
    <3>4. CASE Carried(k)
      <4>1. reload[t].roll
        BY <2>3, <3>4 DEF Carried, Current, HasRead
      <4>2. QED
        BY <2>1, <3>2, <3>3, <4>1 DEF Kept
    <3>5. CASE Kept(k)
      BY <1>1, <2>1, <3>2, <3>3, <3>5 DEF Kept
    <3>6. QED
      BY <2>4, <3>4, <3>5
  <2>5. WillRead => WillRead'
    BY <1>1, <2>1 DEF WillRead
  <2>6. pending' = pending
    BY <1>9 DEF WriteSecret
  <2>7. QED
    BY <1>1, <1>3, <2>4, <2>5, <2>6 DEF Followed
<1>10. CASE Patch(t)
  <2>1. /\ reload[t].at = "patch" /\ reload'[t].at = "idle" /\ UNCHANGED <<secret, pods>>
        /\ rolling' = (rolling \/ reload[t].roll)
    BY <1>10, PoolTaskSteps DEF Patch
  <2>2. WillRead => WillRead'
    BY <1>1, <2>1 DEF WillRead
  <2>3. \A k \in Key : Carried(k) => Carried(k)'
    BY <1>1, <1>2, <2>1 DEF Carried, Current
  <2>4. ASSUME NEW k \in Key, Kept(k) PROVE Kept(k)'
    <3>1. \/ rolling' \/ pods[k] = Effective[k]
          \/ \E q \in Reload : reload'[q].at = "patch" /\ reload'[q].roll
      BY <1>1, <2>1, <2>4 DEF Kept
    <3>2. \A q \in Reload : reload'[q].at \in HasRead => Current(q, k)'
      BY <1>1, <1>2, <2>1, <2>4 DEF Kept, HasRead
    <3>3. QED
      BY <1>1, <2>1, <2>4, <3>1, <3>2 DEF Kept
  <2>5. pending' = pending
    BY <1>10 DEF Patch
  <2>6. QED
    BY <1>1, <1>3, <2>2, <2>3, <2>4, <2>5 DEF Followed
<1>11. ~CarryAmiss(t)
  BY DEF CarryAmiss, ReadAmiss, CarryFails
<1>12. QED
  BY <1>4, <1>5, <1>6, <1>7, <1>8, <1>9, <1>10, <1>11 DEF Carry

LEMMA FollowedKept ==
    ASSUME PoolTyped, Deploys, OneCarries, Followed, [PoolNext]_poolVars, ~untidy'
    PROVE  Followed'
<1> USE DEF deployed, resource, variables, bookkeeping
<1>1. ASSUME NEW r \in Request,
             \/ \E k \in Key : SetOwn(r, k) \/ DeleteOwn(r, k) \/ SetPool(r, k)
             \/ \E given \in SUBSET Key : SetOwnBulk(r, given)
             \/ \E v \in Var :
                 \/ AskDeletePool(r, v) \/ AskLink(r, v) \/ Unlink(r, v)
                 \/ \E k \in Key : AskRename(r, v, k)
             \/ AskRotate(r)
      PROVE  Followed'
  BY <1>1, ReloadUntouched, AsksTold, FollowedTold
<1>2. ASSUME NEW r \in Request, Changing(r) PROVE Followed'
  BY <1>2, ReloadUntouched, ChangesTold, FollowedTold
<1>3. ASSUME NEW r \in Request, Rotation(r) PROVE Followed'
  BY <1>3, ReloadUntouched, RotationTold, FollowedTold
<1>4. ASSUME NEW r \in Request PROVE ~RequestAmiss(r)
  BY DEF RequestAmiss, ExitMisread, PublishLost, TellLost, Abandon
<1>9. ~ReloadLost
  BY DEF ReloadLost
<1>5. ASSUME NEW t \in Reload, BeginDeploy(t) \/ BeginReconcile(t) \/ Carry(t) \/ CarryAmiss(t)
      PROVE  Followed'
  BY <1>5, TasksFollow
<1>6. CASE RunJob \/ JobFails \/ Stop \/ PoolCrash \/ UNCHANGED poolVars
  <2>1. UNCHANGED <<pool, links, own, bound, secret, pods, rolling>>
    BY <1>6 DEF RunJob, JobFails, Stop, PoolCrash, poolVars
  <2>2. UNCHANGED <<req, reload>> /\ pending' = pending
    <3>1. CASE RunJob \/ JobFails \/ Stop \/ UNCHANGED poolVars
      BY <3>1 DEF RunJob, JobFails, Stop, poolVars
    <3>2. CASE PoolCrash
      <4>1. /\ ~(pending > 0) /\ reload = [t \in Reload |-> NoTask]
            /\ req = [r \in Request |-> NoRequest]
        BY <3>2 DEF PoolCrash, Untidy
      <4>2. pending = 0
        BY <4>1 DEF PoolTyped
      <4>3. QED
        BY <3>2, <4>1, <4>2 DEF PoolCrash
    <3>3. QED
      BY <1>6, <3>1, <3>2
  <2>3. QED
    BY <2>1, <2>2, EnvKept, FollowedTold DEF Owed
<1>7. CASE Roll \/ Start
  <2>1. /\ UNCHANGED <<pool, links, own, bound, req, reload, pending, secret>> /\ pods' = secret
        /\ Roll \/ Start
    BY <1>7 DEF Roll, Start
  <2>2. /\ \A k \in Key : Effective'[k] = Effective[k]
        /\ \A t \in Reload : \A k \in Key : Current(t, k) <=> Current(t, k)'
    BY <2>1, EnvKept DEF Current, SameEnv
  <2>3. (Owed => Owed') /\ (WillRead => WillRead')
    BY <2>1, EnvKept DEF Owed, WillRead
  <2>4. \A k \in Key : (Carried(k) => Carried(k)') /\ (Kept(k) => Kept(k)')
    BY <2>1, <2>2 DEF Carried, Kept
  <2>5. QED
    BY <2>2, <2>3, <2>4 DEF Followed
<1>8. QED
  BY <1>1, <1>2, <1>3, <1>4, <1>5, <1>6, <1>7, <1>9 DEF PoolNext

\* Quiet, the pods of a running instance have what the rows say.
LEMMA FollowedShows == PoolTyped /\ (~untidy => Followed) => PodsFollowRows
<1> SUFFICES ASSUME PoolTyped, Followed, AtRest, NEW k \in Key, Effective[k] # None
             PROVE  pods[k] = Effective[k]
  BY DEF PodsFollowRows
<1>1. /\ \A r \in Request : req[r].at = "idle"
      /\ \A t \in Reload : reload[t].at = "idle"
      /\ pending = 0 /\ ~rolling
  BY DEF AtRest, NoRequest, NoTask
<1>2. ~Owed /\ ~WillRead
  BY <1>1 DEF Owed, Telling, WillRead
<1>3. ~Carried(k)
  BY <1>1 DEF Carried, Current
<1>4. QED
  BY <1>1, <1>2, <1>3 DEF Followed, Kept

\* What does not touch the rotation and publishes nothing leaves it as it was.
LEMMA AgreedKept ==
    ASSUME Agreed, UNCHANGED <<kind, stored, engine, job>>, NEW r \in Request,
           \A q \in Request \ {r} : req'[q] = req[q], r \notin Rotating, r \notin Rotating',
           \A v \in Published' : v \in Published /\ pool'[v].val = pool[v].val
    PROVE  Agreed'
<1>1. Rotating' = Rotating
  BY DEF Rotating
<1>2. \A val : Publishes(val) => \A v \in Published' : pool'[v].val = val
  BY DEF Publishes
<1>3. ASSUME NEW q \in Rotating PROVE RotationAt(q)'
  <2>1. req'[q] = req[q] /\ RotationAt(q)
    BY <1>3 DEF Rotating, Agreed
  <2>2. Publishes(req[q].old) => Publishes(req[q].old)'
    BY <2>1, <1>2 DEF Publishes
  <2>3. Publishes(req[q].val) => Publishes(req[q].val)'
    BY <2>1, <1>2 DEF Publishes
  <2>4. Published = {} => Published' = {}
    OBVIOUS
  <2>5. QED
    BY <2>1, <2>2, <2>3, <2>4 DEF RotationAt
<1>4. Publishes(engine) => Publishes(engine)'
  BY <1>2 DEF Publishes
<1>5. QED
  BY <1>1, <1>3, <1>4 DEF Agreed

\* A step of the one rotation.
LEMMA AgreedBy ==
    ASSUME NEW r \in Request, \A q \in Rotating : q = r,
           \A q \in Request \ {r} : req'[q] = req[q],
           \A u, v \in Published' : u = v,
           r \in Rotating' => RotationAt(r)',
           r \notin Rotating' =>
               job'.st # "running" /\ stored' = engine' /\ Publishes(engine)'
    PROVE  Agreed'
<1>1. \A q \in Rotating' : q = r
  BY DEF Rotating
<1>2. QED
  BY <1>1 DEF Agreed

\* Requests that ask for a change do not publish.
LEMMA AsksAgree ==
    ASSUME PoolTyped, Agreed, NEW r \in Request,
           \/ \E k \in Key : SetOwn(r, k) \/ DeleteOwn(r, k) \/ SetPool(r, k)
           \/ \E given \in SUBSET Key : SetOwnBulk(r, given)
           \/ \E v \in Var :
               \/ AskDeletePool(r, v) \/ AskLink(r, v) \/ Unlink(r, v)
               \/ \E k \in Key : AskRename(r, v, k)
    PROVE  Agreed'
<1> USE DEF resource, variables
<1>1. UNCHANGED <<kind, stored, engine, job>>
  BY DEF SetOwn, DeleteOwn, SetPool, SetOwnBulk, AskDeletePool, AskLink, Unlink, AskRename
<1>2. PICK state \in PoolRequest :
         Begin(r, state) /\ state.at \in {"reload", "linked", "deletePool", "dropLocal", "rename"}
  <2>1. CASE \/ \E k \in Key : SetOwn(r, k) \/ DeleteOwn(r, k)
             \/ \E given \in SUBSET Key : SetOwnBulk(r, given)
             \/ \E v \in Var : Unlink(r, v)
    <3>1. Begin(r, [NoRequest EXCEPT !.at = "reload"])
      BY <2>1 DEF SetOwn, DeleteOwn, SetOwnBulk, Unlink
    <3>2. [NoRequest EXCEPT !.at = "reload"].at = "reload"
      BY DEF NoRequest
    <3>3. QED
      BY <3>1, <3>2, PoolStates
  <2>2. ASSUME NEW k \in Key, SetPool(r, k)
        PROVE  \E state \in PoolRequest : Begin(r, state) /\ state.at = "linked"
    <3>1. PICK v \in Var : Begin(r, [NoRequest EXCEPT !.at = "linked", !.var = v])
      BY <2>2 DEF SetPool
    <3>2. [NoRequest EXCEPT !.at = "linked", !.var = v].at = "linked"
      BY DEF NoRequest
    <3>3. QED
      BY <3>1, <3>2, PoolStates
  <2>3. ASSUME NEW v \in Var, AskDeletePool(r, v)
        PROVE  \E state \in PoolRequest : Begin(r, state) /\ state.at = "deletePool"
    <3>1. PICK b \in BOOLEAN :
              Begin(r, [NoRequest EXCEPT !.at = "deletePool", !.var = v, !.tell = b])
      <4>1. PICK b \in {(v \in links), FALSE} :
                Begin(r, [NoRequest EXCEPT !.at = "deletePool", !.var = v, !.tell = b])
        BY <2>3 DEF AskDeletePool
      <4>2. b \in BOOLEAN
        <5>1. (v \in links) \in BOOLEAN /\ FALSE \in BOOLEAN
          OBVIOUS
        <5>2. QED
          BY <4>1, <5>1, Zenon
      <4>3. QED
        BY <4>1, <4>2
    <3>2. [NoRequest EXCEPT !.at = "deletePool", !.var = v, !.tell = b].at = "deletePool"
      BY DEF NoRequest
    <3>3. QED
      BY <3>1, <3>2, PoolStates
  <2>4. ASSUME NEW v \in Var, AskLink(r, v)
        PROVE  \E state \in PoolRequest : Begin(r, state) /\ state.at = "dropLocal"
    <3>1. PICK k : k = pool[v].key
      OBVIOUS
    <3>2. k \in Key /\ Begin(r, [NoRequest EXCEPT !.at = "dropLocal", !.var = v, !.key = k])
      BY <2>4, <3>1, PoolFields DEF AskLink, There
    <3>3. [NoRequest EXCEPT !.at = "dropLocal", !.var = v, !.key = k].at = "dropLocal"
      BY DEF NoRequest
    <3>4. QED
      BY <3>2, <3>3, PoolStates
  <2>5. ASSUME NEW v \in Var, NEW k \in Key, AskRename(r, v, k)
        PROVE  \E state \in PoolRequest : Begin(r, state) /\ state.at = "rename"
    <3>1. Begin(r, [NoRequest EXCEPT !.at = "rename", !.var = v, !.key = k])
      BY <2>5 DEF AskRename
    <3>2. [NoRequest EXCEPT !.at = "rename", !.var = v, !.key = k].at = "rename"
      BY DEF NoRequest
    <3>3. QED
      BY <3>1, <3>2, PoolStates
  <2>6. QED
    BY <2>1, <2>2, <2>3, <2>4, <2>5
<1>3. /\ \A q \in Request \ {r} : req'[q] = req[q]
      /\ r \notin Rotating /\ r \notin Rotating'
  BY <1>2, PoolBegin DEF Rotating
<1>4. \A v \in Published' : v \in Published /\ pool'[v].val = pool[v].val
  <2>1. ASSUME NEW k \in Key, SetPool(r, k)
        PROVE  \A v \in Published' : v \in Published /\ pool'[v].val = pool[v].val
    <3>1. PICK v \in Var : UpsertVar(v, k, made', "manual")
      BY <2>1 DEF SetPool
    <3>2. /\ \A u \in Var \ {v} : pool'[u] = pool[u]
          /\ pool'[v].by = "manual"
      BY <2>1, <3>1, PoolMakeUp, PoolUpsert DEF SetPool
    <3>3. QED
      BY <3>2 DEF Published, There
  <2>2. CASE UNCHANGED pool
    BY <2>2 DEF Published, There
  <2>3. QED
    BY <2>1, <2>2 DEF SetOwn, DeleteOwn, SetOwnBulk, AskDeletePool, AskLink, Unlink, AskRename
<1>5. QED
  BY <1>1, <1>3, <1>4, AgreedKept

\* Nor do those that make it.
LEMMA ChangesAgree ==
    ASSUME PoolTyped, Agreed, NEW r \in Request, Changing(r)
    PROVE  Agreed'
<1> USE DEF resource, variables
<1>1. UNCHANGED <<kind, stored, engine, job>>
  BY DEF Changing, SpawnReload, ReloadLinked, DeletePool, Rename, DropLocal, Link
<1>2. /\ \A q \in Request \ {r} : req'[q] = req[q]
      /\ r \notin Rotating /\ r \notin Rotating'
  <2>1. \/ End(r) \/ Goto(r, "reload") \/ Goto(r, "linked") \/ Goto(r, "link")
    BY DEF Changing, SpawnReload, ReloadLinked, DeletePool, Rename, DropLocal, Link
  <2>2. \A q \in Request \ {r} : req'[q] = req[q]
    BY <2>1, PoolGoto, PoolEnd DEF PoolStage
  <2>3. req'[r].at \in {"idle", "reload", "linked", "link"}
    BY <2>1, PoolGoto, PoolEnd DEF PoolStage
  <2>4. req[r].at \in {"reload", "linked", "deletePool", "rename", "dropLocal", "link"}
    BY DEF Changing, SpawnReload, ReloadLinked, DeletePool, Rename, DropLocal, Link
  <2>5. QED
    BY <2>2, <2>3, <2>4 DEF Rotating
<1>3. \A v \in Published' : v \in Published /\ pool'[v].val = pool[v].val
  <2>1. CASE UNCHANGED pool
    BY <2>1 DEF Published, There
  <2>2. PICK v : v = req[r].var
    OBVIOUS
  <2>3. CASE pool' = [pool EXCEPT ![v] = NoVar]
    BY <2>3 DEF Published, There, PoolTyped, NoVar
  <2>4. CASE There(v) /\ pool' = [pool EXCEPT ![v].key = req[r].key]
    <3>1. \A u \in Var : pool'[u].by = pool[u].by /\ pool'[u].val = pool[u].val
      BY <2>4 DEF PoolTyped
    <3>2. \A u \in Var \ {v} : pool'[u].key = pool[u].key
      BY <2>4 DEF PoolTyped
    <3>3. QED
      BY <2>4, <3>1, <3>2 DEF Published, There
  <2>5. \/ UNCHANGED pool \/ pool' = [pool EXCEPT ![v] = NoVar]
        \/ There(v) /\ pool' = [pool EXCEPT ![v].key = req[r].key]
    BY <2>2 DEF Changing, SpawnReload, ReloadLinked, DeletePool, Rename, DropLocal, Link
  <2>6. QED
    BY <2>1, <2>3, <2>4, <2>5
<1>4. QED
  BY <1>1, <1>2, <1>3, AgreedKept

\* The next rotation starts from where the last one ended.
LEMMA AskAgrees ==
    ASSUME PoolTyped, Agreed, NEW r \in Request, AskRotate(r), ~untidy'
    PROVE  Agreed'
<1> USE DEF resource, variables
<1>1. Rotating = {}
  BY DEF AskRotate, Untidy
<1>2. job.st # "running" /\ stored = engine /\ Publishes(engine)
  BY <1>1 DEF Agreed
<1>3. UNCHANGED <<kind, stored, engine, job, pool>>
  BY DEF AskRotate
<1>4. PICK l \in {"clean", "store"} :
          /\ Begin(r, [NoRequest EXCEPT !.at = l, !.old = stored, !.val = made'])
          /\ l = "clean" <=> kind = "sql"
  BY DEF AskRotate
<1>5. /\ req'[r] = [NoRequest EXCEPT !.at = l, !.old = stored, !.val = made']
      /\ \A q \in Request \ {r} : req'[q] = req[q]
  BY <1>4, PoolFields DEF Begin, AskRotate
<1>6. req'[r].at = l /\ req'[r].old = stored
  BY <1>5 DEF NoRequest
<1>7. Publishes(stored)'
  BY <1>2, <1>3 DEF Publishes, Published, There
<1>8. RotationAt(r)'
  BY <1>2, <1>3, <1>4, <1>6, <1>7 DEF RotationAt, Publishes
<1>9. \A u, v \in Published' : u = v
  BY <1>3 DEF Published, There, Agreed
<1>10. r \in Rotating'
  BY <1>6 DEF Rotating
<1>11. QED
  BY <1>1, <1>5, <1>8, <1>9, <1>10, AgreedBy

\* A step of the rotation that does not write the pool.
LEMMA RotationAgreesApart ==
    ASSUME PoolTyped, Agreed, NEW r \in Request, ~untidy',
           \/ Store(r) \/ RestartRedis(r) \/ CleanJob(r) \/ StartJob(r) \/ LookAtJob(r)
           \/ ReadExit(r) \/ AlreadyPublished(r) \/ FindPublished(r) \/ SyncBound(r)
           \/ ReloadConsumers(r)
    PROVE  Agreed'
<1> USE DEF resource, variables
<1>1. r \in Rotating
  BY DEF Store, RestartRedis, CleanJob, StartJob, LookAtJob, ReadExit, AlreadyPublished,
     FindPublished, SyncBound, ReloadConsumers, Rotating
<1>2. RotationAt(r) /\ \A q \in Rotating : q = r
  BY <1>1 DEF Agreed
<1>3. UNCHANGED <<kind, pool>>
  BY DEF Store, RestartRedis, CleanJob, StartJob, LookAtJob, ReadExit, AlreadyPublished,
     FindPublished, SyncBound, ReloadConsumers
<1>4. /\ \A u, v \in Published' : u = v
      /\ \A val : Publishes(val) => \A v \in Published' : pool'[v].val = val
      /\ Published' = Published
  BY <1>3 DEF Published, There, Agreed, Publishes
<1>5. \A q \in Request \ {r} : req'[q] = req[q]
  BY PoolFields DEF Store, RestartRedis, CleanJob, StartJob, LookAtJob, ReadExit,
     AlreadyPublished, FindPublished, SyncBound, ReloadConsumers, Goto, End
<1>6. ASSUME NEW l \in PoolStage, Goto(r, l)
      PROVE  req'[r].at = l /\ req'[r].val = req[r].val /\ req'[r].old = req[r].old
  BY <1>6, PoolGoto
<1>7. ASSUME End(r) PROVE r \notin Rotating'
  BY <1>7, PoolEnd DEF Rotating
<1>8. SUFFICES (r \in Rotating' => RotationAt(r)') /\
               (r \notin Rotating' =>
                   job'.st # "running" /\ stored' = engine' /\ Publishes(engine)')
  BY <1>2, <1>4, <1>5, AgreedBy
<1>9. CASE Store(r)
  <2>1. /\ req[r].at = "store" /\ stored' = req[r].val /\ UNCHANGED job /\ job.st # "running"
        /\ engine' = IF kind = "bucket" THEN req[r].val ELSE engine
    BY <1>2, <1>9 DEF Store, RotationAt
  <2>2. PICK l \in {"published", "restart", "find"} :
            /\ Goto(r, l) /\ (l = "restart" => kind = "redis")
            /\ (l = "published" => kind = "sql") /\ (l = "find" => kind = "bucket")
    BY <1>9, PoolConstantsOK DEF Store, PoolTyped
  <2>3. req'[r].at = l /\ req'[r].val = req[r].val /\ r \in Rotating'
    BY <1>6, <2>2 DEF PoolStage, Rotating
  <2>4. kind = "sql" => engine = req[r].val
    BY <1>2, <2>1 DEF RotationAt
  <2>5. RotationAt(r)'
    BY <1>3, <2>1, <2>2, <2>3, <2>4 DEF RotationAt
  <2>6. QED
    BY <2>3, <2>5
<1>10. CASE RestartRedis(r)
  <2>1. /\ req[r].at = "restart" /\ Goto(r, "published") /\ engine' = req[r].val
        /\ UNCHANGED <<stored, job>>
    BY <1>10 DEF RestartRedis
  <2>2. req'[r].at = "published" /\ req'[r].val = req[r].val /\ r \in Rotating'
    BY <1>6, <2>1 DEF PoolStage, Rotating
  <2>3. RotationAt(r)'
    BY <1>2, <2>1, <2>2 DEF RotationAt
  <2>4. QED
    BY <2>2, <2>3
<1>11. CASE CleanJob(r)
  <2>1. /\ req[r].at = "clean" /\ Goto(r, "start") /\ UNCHANGED <<stored, engine>>
        /\ job'.st # "running"
    BY <1>2, <1>11 DEF CleanJob, RotationAt, NoJob
  <2>2. req'[r].at = "start" /\ req'[r].old = req[r].old /\ r \in Rotating'
    BY <1>6, <2>1 DEF PoolStage, Rotating
  <2>3. RotationAt(r)'
    BY <1>2, <1>3, <1>4, <2>1, <2>2 DEF RotationAt, Publishes
  <2>4. QED
    BY <2>2, <2>3
<1>12. CASE StartJob(r)
  <2>1. req[r].at = "start" /\ UNCHANGED <<stored, engine>>
    BY <1>12 DEF StartJob
  <2>5. CASE job # NoJob
    <3>1. End(r) /\ UNCHANGED job
      BY <1>12, <2>5 DEF StartJob
    <3>2. /\ stored = req[r].old /\ engine = req[r].old /\ Publishes(req[r].old)
          /\ job.st # "running"
      BY <1>2, <2>1 DEF RotationAt
    <3>3. Publishes(engine)'
      BY <1>4, <2>1, <3>2 DEF Publishes
    <3>4. QED
      BY <1>7, <2>1, <3>1, <3>2, <3>3
  <2> SUFFICES ASSUME job = NoJob
               PROVE  (r \in Rotating' => RotationAt(r)') /\
                      (r \notin Rotating' =>
                          job'.st # "running" /\ stored' = engine' /\ Publishes(engine)')
    BY <2>5
  <2>6. Goto(r, "wait") /\ job' = [st |-> "running", old |-> req[r].old, val |-> req[r].val]
    BY <1>12 DEF StartJob
  <2>2. /\ req'[r].at = "wait" /\ req'[r].old = req[r].old /\ req'[r].val = req[r].val
        /\ r \in Rotating'
    BY <1>6, <2>6 DEF PoolStage, Rotating
  <2>3. RotationAt(r)'
    BY <1>2, <1>3, <1>4, <2>1, <2>2, <2>6 DEF RotationAt, Publishes
  <2>4. QED
    BY <2>2, <2>3
<1>13. CASE LookAtJob(r)
  <2>1. /\ req[r].at = "wait" /\ UNCHANGED <<stored, engine, job>>
        /\ job.st # "running" /\ job.st # "none"
    BY <1>2, <1>13 DEF LookAtJob, RotationAt
  <2>2. Goto(r, "read") /\ job.st \in {"succeeded", "failed"}
    BY <1>13, <2>1 DEF LookAtJob, NoJob, PoolTyped
  <2>3. /\ req'[r].at = "read" /\ req'[r].old = req[r].old /\ req'[r].val = req[r].val
        /\ r \in Rotating'
    BY <1>6, <2>2 DEF PoolStage, Rotating
  <2>4. RotationAt(r)'
    BY <1>2, <1>3, <1>4, <2>1, <2>2, <2>3 DEF RotationAt, Publishes
  <2>5. QED
    BY <2>3, <2>4
<1>14. CASE ReadExit(r)
  <2>1. /\ req[r].at = "read" /\ UNCHANGED <<stored, engine>>
        /\ job'.st # "running"
    BY <1>2, <1>14 DEF ReadExit, RotationAt, NoJob
  <2>2. CASE job.st = "succeeded"
    <3>1. Goto(r, "store")
      BY <1>14, <2>2 DEF ReadExit
    <3>2. /\ req'[r].at = "store" /\ req'[r].old = req[r].old /\ req'[r].val = req[r].val
          /\ r \in Rotating'
      BY <1>6, <3>1 DEF PoolStage, Rotating
    <3>3. RotationAt(r)'
      BY <1>2, <1>3, <1>4, <2>1, <2>2, <3>2 DEF RotationAt, Publishes
    <3>4. QED
      BY <3>2, <3>3
  <2>3. CASE job.st # "succeeded"
    <3>1. End(r)
      BY <1>14, <2>3 DEF ReadExit
    <3>2. stored = req[r].old /\ engine = req[r].old /\ Publishes(req[r].old)
      BY <1>2, <2>1, <2>3 DEF RotationAt
    <3>3. Publishes(engine)'
      BY <1>4, <2>1, <3>2 DEF Publishes
    <3>4. QED
      BY <1>7, <2>1, <3>1, <3>2, <3>3
  <2>4. QED
    BY <2>2, <2>3
<1>15. CASE AlreadyPublished(r)
  <2>1. req[r].at = "published" /\ UNCHANGED <<stored, engine, job>>
    BY <1>15 DEF AlreadyPublished
  <2>2. PICK l \in {"find", "bound"} : Goto(r, l) /\ (l = "bound" => Published = {})
    BY <1>15 DEF AlreadyPublished
  <2>3. req'[r].at = l /\ req'[r].val = req[r].val /\ r \in Rotating'
    BY <1>6, <2>2 DEF PoolStage, Rotating
  <2>4. l = "bound" => \A val : Publishes(val)'
    BY <1>4, <2>2 DEF Publishes
  <2>5. RotationAt(r)'
    BY <1>2, <2>1, <2>3, <2>4 DEF RotationAt, Publishes
  <2>6. QED
    BY <2>3, <2>5
<1>16. CASE FindPublished(r)
  <2>1. req[r].at = "find" /\ UNCHANGED <<stored, engine, job>>
    BY <1>16 DEF FindPublished
  <2>2. /\ req'[r].at \in {"insert", "refresh"} /\ req'[r].val = req[r].val
        /\ (req'[r].at = "insert" => Published = {}) /\ r \in Rotating'
    <3>1. CASE Mine = {}
      BY <1>6, <1>16, <3>1 DEF FindPublished, PoolStage, Rotating, Mine
    <3>2. CASE Mine # {}
      <4>1. PICK v \in Mine : req' = [req EXCEPT ![r].at = "refresh", ![r].var = v]
        BY <1>16, <3>2 DEF FindPublished
      <4>2. QED
        BY <4>1, PoolFields DEF PoolRequest, Rotating
    <3>3. QED
      BY <3>1, <3>2
  <2>3. RotationAt(r)'
    BY <1>2, <1>4, <2>1, <2>2 DEF RotationAt
  <2>4. QED
    BY <2>2, <2>3
<1>17. CASE SyncBound(r)
  <2>1. req[r].at = "bound" /\ UNCHANGED <<stored, engine, job>> /\ Goto(r, "consumers")
    BY <1>17 DEF SyncBound
  <2>2. req'[r].at = "consumers" /\ req'[r].val = req[r].val /\ r \in Rotating'
    BY <1>6, <2>1 DEF PoolStage, Rotating
  <2>3. RotationAt(r)'
    BY <1>2, <1>4, <2>1, <2>2 DEF RotationAt, Publishes
  <2>4. QED
    BY <2>2, <2>3
<1>18. CASE ReloadConsumers(r)
  <2>1. req[r].at = "consumers" /\ UNCHANGED <<stored, engine, job>>
    BY <1>18 DEF ReloadConsumers
  <2>2. r \notin Rotating'
    <3>1. Goto(r, "reload") \/ End(r)
      BY <1>18 DEF ReloadConsumers
    <3>2. QED
      BY <1>6, <1>7, <3>1 DEF PoolStage, Rotating
  <2>3. /\ job'.st # "running" /\ stored' = engine' /\ Publishes(engine)
    BY <1>2, <2>1 DEF RotationAt
  <2>4. Publishes(engine)'
    BY <1>4, <2>1, <2>3 DEF Publishes
  <2>5. QED
    BY <2>2, <2>3, <2>4
<1>19. QED
  BY <1>9, <1>10, <1>11, <1>12, <1>13, <1>14, <1>15, <1>16, <1>17, <1>18

\* The rotation writes the one variable that is published, or publishes the first.
LEMMA RotationAgreesPool ==
    ASSUME PoolTyped, Agreed, NEW r \in Request, ~untidy', Refresh(r) \/ InsertPublished(r)
    PROVE  Agreed'
<1> USE DEF resource, variables
<1>1. r \in Rotating
  BY DEF Refresh, InsertPublished, Rotating
<1>2. RotationAt(r) /\ \A q \in Rotating : q = r
  BY <1>1 DEF Agreed
<1>3. UNCHANGED <<kind, stored, engine, job>> /\ Goto(r, AfterPublish)
  BY DEF Refresh, InsertPublished
<1>4. AfterPublish \in {"bound", "consumers"} /\ AfterPublish \in PoolStage
  BY DEF AfterPublish, PoolStage
<1>5. /\ req'[r].at \in {"bound", "consumers"} /\ req'[r].val = req[r].val /\ r \in Rotating'
      /\ \A q \in Request \ {r} : req'[q] = req[q]
  BY <1>3, <1>4, PoolGoto DEF Rotating
<1>6. /\ \A u, v \in Published' : u = v
      /\ \A v \in Published' : pool'[v].val = req[r].val
  <2>1. CASE Refresh(r)
    <3>1. PICK v : v = req[r].var
      OBVIOUS
    <3>2. v \in Published /\ pool' = [pool EXCEPT ![v].val = req[r].val]
      BY <2>1, <3>1 DEF Refresh, Untidy, Published
    <3>3. Published = {v}
      BY <3>2 DEF Agreed
    <3>4. \A u \in Var : pool'[u].key = pool[u].key /\ pool'[u].by = pool[u].by
      BY <3>2 DEF PoolTyped
    <3>5. Published' = {v}
      BY <3>3, <3>4 DEF Published, There
    <3>6. pool'[v].val = req[r].val
      BY <3>2 DEF PoolTyped, Published
    <3>7. QED
      BY <3>5, <3>6
  <2>2. CASE InsertPublished(r)
    <3>1. PICK v \in Var : UpsertVar(v, "URL", req[r].val, "resource")
      BY <2>2 DEF InsertPublished
    <3>2. /\ pool'[v].val = req[r].val /\ \A u \in Var \ {v} : pool'[u] = pool[u]
      BY <3>1, PoolUpsert, PoolFields DEF Key
    <3>3. Published = {}
      BY <1>2, <2>2 DEF RotationAt, InsertPublished
    <3>4. \A u \in Published' : u = v
      BY <3>2, <3>3 DEF Published, There
    <3>5. QED
      BY <3>2, <3>4
  <2>3. QED
    BY <2>1, <2>2
<1>7. RotationAt(r)'
  BY <1>2, <1>3, <1>5, <1>6 DEF RotationAt, Publishes, Refresh, InsertPublished
<1>8. QED
  BY <1>2, <1>5, <1>6, <1>7, AgreedBy

\* The Job changes the password while its rotation waits for it.
LEMMA JobAgrees == PoolTyped /\ Agreed /\ ~untidy' /\ (RunJob \/ JobFails) => Agreed'
<1> SUFFICES ASSUME PoolTyped, Agreed, ~untidy', RunJob \/ JobFails PROVE Agreed'
  OBVIOUS
<1>1. job.st = "running" /\ UNCHANGED <<kind, stored, pool, req>>
  BY DEF RunJob, JobFails, variables
<1>2. PICK r \in Rotating : RotationAt(r) /\ \A q \in Rotating : q = r
  BY <1>1 DEF Agreed
<1>3. r \in Request /\ req[r].at = "wait"
  BY <1>1, <1>2 DEF RotationAt, Rotating
<1>4. /\ job.old = req[r].old /\ job.val = req[r].val /\ engine = req[r].old
  BY <1>1, <1>2, <1>3 DEF RotationAt
<1>5. /\ job'.old = job.old /\ job'.val = job.val
      /\ \/ job'.st = "succeeded" /\ engine' = job.val
         \/ job'.st = "failed" /\ engine' = engine
  <2>1. CASE RunJob
    <3>1. engine' = job.val /\ job' = [job EXCEPT !.st = "succeeded"]
      BY <1>4, <2>1 DEF RunJob
    <3>2. QED
      BY <3>1 DEF PoolTyped
  <2>2. CASE JobFails
    BY <2>2 DEF JobFails, Untidy, PoolTyped
  <2>3. QED
    BY <2>1, <2>2
<1>6. /\ \A u, v \in Published' : u = v
      /\ Publishes(req[r].old) => \A v \in Published' : pool'[v].val = req[r].old
  BY <1>1 DEF Published, There, Agreed, Publishes
<1>7. RotationAt(r)'
  BY <1>1, <1>2, <1>3, <1>4, <1>5, <1>6 DEF RotationAt, Publishes
<1>8. r \in Rotating'
  BY <1>1, <1>2 DEF Rotating
<1>9. QED
  BY <1>1, <1>2, <1>3, <1>6, <1>7, <1>8, AgreedBy

LEMMA AgreedNext ==
    ASSUME PoolTyped, Agreed, [PoolNext]_poolVars, ~untidy'
    PROVE  Agreed'
<1> USE DEF resource, variables, bookkeeping
<1>1. ASSUME NEW r \in Request, Rotation(r) PROVE Agreed'
  BY <1>1, RotationAgreesApart, RotationAgreesPool DEF Rotation
<1>2. ASSUME NEW t \in Reload, BeginDeploy(t) \/ BeginReconcile(t) \/ Carry(t) \/ CarryAmiss(t)
      PROVE  UNCHANGED <<kind, stored, engine, job, pool, req>>
  BY <1>2 DEF BeginDeploy, BeginReconcile, Carry, BeginReload, ReadLinked, ReadOwn, WriteSecret,
     Patch, CarryAmiss, ReadAmiss, CarryFails
<1>3. CASE Roll \/ Stop \/ Start \/ PoolCrash \/ UNCHANGED poolVars
  <2>1. CASE Roll \/ Stop \/ Start \/ UNCHANGED poolVars
    BY <2>1 DEF Roll, Stop, Start, poolVars, Agreed, Rotating, RotationAt, Published, There,
       Publishes
  <2>2. CASE PoolCrash
    <3>1. req' = req /\ UNCHANGED <<kind, stored, engine, job, pool>>
      BY <2>2 DEF PoolCrash, Untidy
    <3>2. QED
      BY <3>1 DEF Agreed, Rotating, RotationAt, Published, There, Publishes
  <2>3. QED
    BY <1>3, <2>1, <2>2
<1>4. CASE UNCHANGED <<kind, stored, engine, job, pool, req>>
  BY <1>4 DEF Agreed, Rotating, RotationAt, Published, There, Publishes
<1>5. ASSUME NEW r \in Request PROVE ~RequestAmiss(r)
  BY DEF RequestAmiss, ExitMisread, PublishLost, TellLost, Abandon
<1>7. ~ReloadLost
  BY DEF ReloadLost
<1>6. QED
  BY <1>1, <1>2, <1>3, <1>4, <1>5, <1>7, AsksAgree, ChangesAgree, AskAgrees, JobAgrees DEF PoolNext

-----------------------------------------------------------------------------
LEMMA PoolInvInit == PoolInit => PoolInv
<1> SUFFICES ASSUME PoolInit PROVE PoolInv
  OBVIOUS
<1>1. PoolTyped
  BY PoolTypedInit
<1>2. /\ \A r \in Request : req[r].at = "idle"
      /\ \A t \in Reload : reload[t].at = "idle"
  BY DEF PoolInit, NoRequest, NoTask
<1>3. Deploys /\ OneCarries
  BY <1>2 DEF PoolInit, Deploys, OneCarries, HasRead
<1>4. \A k \in Key : Kept(k)
  BY <1>2 DEF PoolInit, Kept, HasRead
<1>5. \A v \in Published : v = 1 /\ pool[v].val = 1
  BY DEF PoolInit, Published, There, NoVar
<1>6. Agreed
  BY <1>2, <1>5 DEF PoolInit, Agreed, Rotating, Publishes, NoJob
<1>7. QED
  BY <1>1, <1>3, <1>4, <1>6 DEF PoolInv, Followed

LEMMA PoolInvNext == PoolInv /\ [PoolNext]_poolVars => PoolInv'
BY UntidyKept, PoolTypedNext, DeploysKept, OneCarriesKept, FollowedKept, AgreedNext DEF PoolInv

\* At rest no rotation is under way.
LEMMA AgreedShows == PoolInv => PasswordsAgree
<1> SUFFICES ASSUME Agreed, AtRest
             PROVE  stored = engine /\ \A v \in Published : pool[v].val = engine
  BY DEF PoolInv, PasswordsAgree
<1>1. Rotating = {}
  BY DEF AtRest, Rotating, NoRequest
<1>2. QED
  BY <1>1 DEF Agreed, Publishes

LEMMA PoolInvAlways == PoolSpec => []PoolInv
BY PoolInvInit, PoolInvNext, PTL DEF PoolSpec

\* The types, that a key names one variable of the pool, and that links are to variables
\* that exist, for any number of requests, tasks and variables (app_env.rs,
\* project_env_controller.rs).
THEOREM PoolTypeCorrect == PoolSpec => []PoolTypeOK
<1>1. PoolInv => PoolTypeOK
  BY PoolTypes DEF PoolInv
<1>2. QED
  BY <1>1, PoolInvAlways, PTL

\* Unless a named mishap happened, a running instance at rest runs with the environment
\* its rows say, however requests, reloads, deploys, stops and starts overlapped
\* (hot_reload_if_running and its callers in env_variable_controller.rs,
\* project_env_controller.rs, database_controller.rs and storage_controller.rs).
THEOREM PodsFollowRowsAlways == PoolSpec => []PodsFollowRows
<1>1. PoolInv => PodsFollowRows
  BY FollowedShows DEF PoolInv
<1>2. QED
  BY <1>1, PoolInvAlways, PTL

\* Unless a named mishap happened, at rest the password in the row and in the published
\* variable is the one the resource accepts (rotate_database_password,
\* rotate_bucket_credentials).
THEOREM PasswordsAgreeAlways == PoolSpec => []PasswordsAgree
BY AgreedShows, PoolInvAlways, PTL
=============================================================================
