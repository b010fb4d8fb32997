------------------------ MODULE BuildPipelineProofs ------------------------
(***************************************************************************)
(* Theorems about BuildPipeline for any number of worker loops, slots,     *)
(* builds and events.                                                      *)
(***************************************************************************)
EXTENDS BuildPipeline, FiniteSetTheorems, TLAPS

\* Where only the handler of a build job can be
BuildOnly == (Slotted \ {"deploy", "monitor"}) \cup {"inserted", "waiting"}

QueuedJob == [kind : {"build", "deploy"}, tag : Tag]

\* What a handler's place says of what it has in hand: an idle loop has nothing, the
\* handler of a build has a row, and one whose pod has ended has its outcome.
InPlace ==
    \A w \in Worker :
        /\ pc[w] = "idle" => job[w] = NoJob /\ outcome[w] = "none"
        /\ pc[w] # "idle" => job[w].kind # "none"
        /\ pc[w] \in BuildOnly => job[w].kind = "build"
        /\ job[w].kind = "build" => job[w] = BuildJob /\ mine[w] \in Begun
        /\ pc[w] \in {"ended", "settle"} => outcome[w] \in Verdict

\* The rows are the builds up to the latest, a pod that is there and a request to cancel
\* belong to a row.
Numbered ==
    /\ \E n \in 0..NumBuilds : Begun = 1..n
    /\ pod.state # "none" => pod.owner \in Build
    /\ request.op = "cancel" => request.arg \in Begun

Holders == {w \in Worker : Holding(w)}
Conserved == Cardinality(Holders) + unlocking = locked

LEMMA BegunCount ==
    ASSUME Numbered
    PROVE  Count \in 0..NumBuilds /\ Begun = 1..Count
<1>1. PICK n \in 0..NumBuilds : Begun = 1..n
  BY DEF Numbered
<1>2. NumBuilds \in Nat
  BY BuildConstantsOK
<1>3. Cardinality(1..n) = n
  BY <1>1, <1>2, FS_Interval
<1>4. QED
  BY <1>1, <1>2, <1>3 DEF Count

LEMMA HoldersFinite == IsFiniteSet(Holders) /\ Cardinality(Holders) \in Nat
<1>1. Holders \subseteq Worker
  BY DEF Holders
<1>2. QED
  BY <1>1, BuildConstantsOK, FS_Subset, FS_CardinalityType

LEMMA TodoTyped ==
    ASSUME todo \in Seq(QueuedJob)
    PROVE  /\ todo # <<>> => Head(todo) \in QueuedJob /\ Tail(todo) \in Seq(QueuedJob)
           /\ \A j \in QueuedJob : Append(todo, j) \in Seq(QueuedJob)
           /\ \A j \in QueuedJob : <<j>> \o todo \in Seq(QueuedJob)
<1>1. todo # <<>> => Head(todo) \in QueuedJob /\ Tail(todo) \in Seq(QueuedJob)
  OBVIOUS
<1>2. \A j \in QueuedJob : Append(todo, j) \in Seq(QueuedJob)
  OBVIOUS
<1>3. \A j \in QueuedJob : <<j>> \in Seq(QueuedJob)
  OBVIOUS
<1>4. \A j \in QueuedJob : <<j>> \o todo \in Seq(QueuedJob)
  BY <1>3
<1>5. QED
  BY <1>1, <1>2, <1>4

LEMMA TypeInit == Init => TypeOK /\ InPlace /\ Numbered /\ Conserved
<1> SUFFICES ASSUME Init PROVE TypeOK /\ InPlace /\ Numbered /\ Conserved
  OBVIOUS
<1>1. NumBuilds \in Nat /\ 1 <= NumBuilds /\ 1 \in Build /\ MaxEvents \in Nat /\ 1 <= MaxEvents
  BY BuildConstantsOK DEF Build
<1>2. BuildJob \in QueuedJob
  BY <1>1 DEF BuildJob, QueuedJob, Tag, LegacyTag, None
<1>3. TypeOK
  <2>0. <<BuildJob>> \in Seq(QueuedJob) /\ <<>> \in Seq(QueuedJob)
    BY <1>2
  <2>1. todo \in Seq(QueuedJob)
    BY <2>0 DEF Init
  <2>2. status \in [Build -> RowStatus] /\ stop \subseteq Build
    BY DEF Init, RowStatus, InFlight, Verdict
  <2>3. /\ image \in None..NumBuilds /\ deployed \in Tag
        /\ pushed \subseteq Build /\ secrets \subseteq Build
    BY <1>1 DEF Init, None, Tag, LegacyTag
  <2>4. pod \in [owner : None..NumBuilds, state : {"none", "running", "succeeded", "failed"},
                 doomed : BOOLEAN]
    BY <1>1 DEF Init, NoPod, None
  <2>5. /\ job \in [Worker -> [kind : {"none", "build", "deploy"}, tag : Tag]]
        /\ mine \in [Worker -> Tag]
    BY <1>1 DEF Init, NoJob, None, Tag, LegacyTag
  <2>6. /\ pc \in [Worker -> Slotted \cup {"idle", "inserted", "waiting"}]
        /\ outcome \in [Worker -> Verdict \cup {"none"}]
        /\ boot \in [Worker -> {"down", "fresh", "found", "done"}]
    BY DEF Init
  <2>7. /\ request \in [op : {"none", "redeploy", "rollback", "cancel", "stop"},
                        arg : None..NumBuilds]
        /\ events \in 0..MaxEvents
    BY <1>1 DEF Init, NoRequest, None
  <2>8. QED
    BY <2>1, <2>2, <2>3, <2>4, <2>5, <2>6, <2>7 DEF Init, TypeOK, QueuedJob
<1>4. InPlace
  BY DEF Init, InPlace, BuildOnly, Slotted, NoJob
<1>5. Begun = {} \/ Begun = {1}
  BY <1>1 DEF Init, Begun
<1>6. Begun = 1..0 \/ Begun = 1..1
  BY <1>5
<1>7. Numbered
  <2>1. 0 \in 0..NumBuilds /\ 1 \in 0..NumBuilds
    BY <1>1
  <2>2. \E n \in 0..NumBuilds : Begun = 1..n
    BY <1>6, <2>1
  <2>3. QED
    BY <2>2 DEF Init, Numbered, NoPod, NoRequest
<1>8. Holders = {}
  BY DEF Init, Holders, Holding, Slotted
<1>9. Conserved
  BY <1>8, FS_EmptySet DEF Init, Conserved
<1>10. QED
  BY <1>3, <1>4, <1>7, <1>9

-----------------------------------------------------------------------------
(***************************************************************************)
(* Slots: who holds one, and how a step changes that.                      *)
(***************************************************************************)

\* Steps that neither take nor drop a slot
KeepsSlots ==
    /\ UNCHANGED <<locked, unlocking>>
    /\ \A w \in Worker : Holding(w)' <=> Holding(w)

DropsSlot(w) ==
    /\ Holding(w) /\ ~Holding(w)'
    /\ \A v \in Worker \ {w} : Holding(v)' <=> Holding(v)

LEMMA Returning ==
    ASSUME TypeOK, NEW w \in Worker, Return(w)
    PROVE  \/ ~Holding(w) /\ KeepsSlots
           \/ DropsSlot(w) /\ locked' = locked /\ unlocking' = unlocking + 1
BY DEF TypeOK, Return, Goto, Holding, Slotted, KeepsSlots, DropsSlot, NoJob

LEMMA BuildSlots ==
    ASSUME TypeOK, InPlace, NEW w \in Worker, BuildStep(w) \/ TimeOut(w), ~AcquireSlot(w)
    PROVE  Return(w) \/ KeepsSlots
<1> USE DEF TypeOK, KeepsSlots, Holding, Slotted, Goto, slots, loop
<1>1. CASE BuildAborted(w)
  BY <1>1 DEF BuildAborted, Claim
<1>2. CASE StartBuild(w)
  BY <1>2 DEF StartBuild, Claim
<1>3. CASE Supersede(w)
  BY <1>3 DEF Supersede
<1>4. CASE CheckQueued(w)
  BY <1>4 DEF CheckQueued
<1>5. CASE Promote(w)
  BY <1>5 DEF Promote
<1>6. CASE CreatePod(w)
  BY <1>6 DEF CreatePod
<1>7. CASE CreatePodFails(w)
  BY <1>7 DEF CreatePodFails
<1>8. CASE Poll(w)
  BY <1>8 DEF Poll
<1>9. CASE LookAtPod(w)
  BY <1>9 DEF LookAtPod, Ended
<1>10. CASE Record(w)
  BY <1>10 DEF Record
<1>11. CASE Settle(w)
  BY <1>11 DEF Settle
<1>12. CASE TimeOut(w)
  BY <1>12 DEF TimeOut, Ended
<1>13. QED
  BY <1>1, <1>2, <1>3, <1>4, <1>5, <1>6, <1>7, <1>8, <1>9, <1>10, <1>11, <1>12 DEF BuildStep

LEMMA DeploySlots ==
    ASSUME TypeOK, InPlace, NEW w \in Worker, DeployStep(w)
    PROVE  Return(w) \/ KeepsSlots
<1> USE DEF TypeOK, KeepsSlots, Holding, Slotted, Goto, slots, loop
<1>1. CASE StartDeploy(w)
  <2>1. pc[w] = "idle" /\ job'[w].kind = "deploy"
    BY <1>1 DEF StartDeploy, Claim
  <2>2. QED
    BY <1>1, <2>1 DEF StartDeploy
<1>2. CASE Deploy(w)
  BY <1>2 DEF Deploy
<1>3. CASE DeployFails(w) \/ Monitor(w)
  BY <1>3 DEF DeployFails, Monitor
<1>4. QED
  BY <1>1, <1>2, <1>3 DEF DeployStep

\* Steps of pods, requests and reconcilers
Elsewhere ==
    \/ \E w \in Worker : Restart(w) \/ FindStuck(w) \/ ReconcileAtBoot(w)
    \/ PodSucceeds \/ PodFails \/ PodGone
    \/ AskRedeploy \/ (\E b \in Build : AskRollback(b) \/ AskCancel(b))
    \/ Redeploy \/ Rollback \/ Cancel \/ CancelStops \/ RequestFails \/ KillPod
    \/ Push \/ Reload \/ FindOverdue \/ ReconcileOverdue \/ SkipOverdue

LEMMA ElsewhereSlots == Elsewhere => UNCHANGED <<slots, loop>>
BY DEF Elsewhere, Restart, FindStuck, ReconcileAtBoot, ReconcileStuck, PodSucceeds, PodFails,
       PodGone, AskRedeploy, AskRollback, AskCancel, Ask, Redeploy, Rollback, Cancel,
       CancelStops, RequestFails, KillPod, Push, Reload, FindOverdue, ReconcileOverdue, SkipOverdue

LEMMA OneHolderLess ==
    ASSUME NEW w \in Worker, DropsSlot(w)
    PROVE  Cardinality(Holders') = Cardinality(Holders) - 1 /\ Cardinality(Holders) > 0
<1>1. Holders' = Holders \ {w} /\ w \in Holders
  BY DEF DropsSlot, Holders
<1>2. QED
  BY <1>1, HoldersFinite, FS_RemoveElement, FS_EmptySet

LEMMA SlotsStep ==
    ASSUME TypeOK, InPlace, Conserved, [Next]_vars
    PROVE  /\ cap' = cap /\ locked' \in Nat /\ unlocking' \in Nat
           /\ Conserved'
           /\ locked <= cap => locked' <= cap'
<1> DEFINE Goal == /\ cap' = cap /\ locked' \in Nat /\ unlocking' \in Nat
                   /\ Conserved'
                   /\ locked <= cap => locked' <= cap'
<1>0. locked \in Nat /\ unlocking \in Nat /\ cap \in Nat /\ Cardinality(Holders) \in Nat
  BY HoldersFinite, BuildConstantsOK DEF TypeOK
<1>a. cap' = cap
  BY ElsewhereSlots DEF Next, vars, slots, Elsewhere, BuildStep, DeployStep, BuildAborted, StartBuild,
     Supersede, AcquireSlot, CheckQueued, Promote, CreatePod, CreatePodFails, Poll, LookAtPod,
     Record, Settle, Return, TimeOut, StartDeploy, Deploy, DeployFails, Monitor, Crash, Unlock
<1>b. ASSUME KeepsSlots PROVE Goal
  <2>1. Holders' = Holders
    BY <1>b DEF KeepsSlots, Holders
  <2>2. QED
    BY <1>a, <1>b, <1>0, <2>1 DEF KeepsSlots, Conserved
<1>c. ASSUME NEW w \in Worker, Return(w) PROVE Goal
  <2>1. CASE KeepsSlots
    BY <2>1, <1>b
  <2>2. CASE DropsSlot(w) /\ locked' = locked /\ unlocking' = unlocking + 1
    BY <1>a, <1>0, <2>2, OneHolderLess DEF Conserved
  <2>3. QED
    BY <2>1, <2>2, <1>c, Returning
<1>1. ASSUME NEW w \in Worker, BuildStep(w) \/ TimeOut(w), ~AcquireSlot(w) PROVE Goal
  BY <1>1, <1>b, <1>c, BuildSlots
<1>2. ASSUME NEW w \in Worker, AcquireSlot(w) PROVE Goal
  <2>1. ~Holding(w) /\ Holding(w)' /\ \A v \in Worker \ {w} : Holding(v)' <=> Holding(v)
    BY <1>2 DEF AcquireSlot, Goto, Holding, Slotted, TypeOK, InPlace, BuildOnly
  <2>2. Holders' = Holders \cup {w} /\ w \notin Holders
    BY <2>1 DEF Holders
  <2>3. Cardinality(Holders') = Cardinality(Holders) + 1
    BY <2>2, HoldersFinite, FS_AddElement
  <2>4. locked' = locked + 1 /\ unlocking' = unlocking /\ locked < cap
    BY <1>2 DEF AcquireSlot, SlotFree
  <2>5. QED
    BY <1>a, <1>0, <2>3, <2>4 DEF Conserved
<1>3. ASSUME NEW w \in Worker, DeployStep(w) PROVE Goal
  BY <1>3, <1>b, <1>c, DeploySlots
<1>4. ASSUME NEW w \in Worker, Crash(w) PROVE Goal
  <2>1. CASE Holding(w)
    <3>1. DropsSlot(w) /\ locked' = locked - 1 /\ unlocking' = unlocking
      BY <1>4, <2>1 DEF Crash, Goto, Holding, Slotted, DropsSlot, TypeOK
    <3>2. QED
      BY <1>a, <1>0, <3>1, OneHolderLess DEF Conserved
  <2>2. CASE ~Holding(w)
    BY <1>4, <2>2, <1>b DEF Crash, Goto, Holding, Slotted, KeepsSlots, TypeOK
  <2>3. QED
    BY <2>1, <2>2
<1>5. CASE Unlock
  <2>1. Holders' = Holders
    BY <1>5 DEF Unlock, Holders, Holding, loop
  <2>2. unlocking > 0 /\ unlocking' = unlocking - 1 /\ locked' = locked - 1
    BY <1>5 DEF Unlock
  <2>3. QED
    BY <1>a, <1>0, <2>1, <2>2 DEF Conserved
<1>6. CASE Elsewhere \/ UNCHANGED vars
  BY <1>6, <1>b, ElsewhereSlots DEF KeepsSlots, vars, slots, loop, Holding
<1>7. QED
  BY <1>1, <1>2, <1>3, <1>4, <1>5, <1>6 DEF Next, Elsewhere, BuildStep

-----------------------------------------------------------------------------
(***************************************************************************)
(* Types.                                                                  *)
(***************************************************************************)

\* The parts of TypeOK that no lemma above is about
RowsTyped == status \in [Build -> RowStatus] /\ stop \subseteq Build
InstanceTyped ==
    /\ istatus \in {"building", "running", "failed", "crashed", "stopped"}
    /\ image \in None..NumBuilds
ClusterTyped ==
    /\ deployed \in Tag
    /\ pod \in [owner : None..NumBuilds,
                state : {"none", "running", "succeeded", "failed"},
                doomed : BOOLEAN]
    /\ secrets \subseteq Build /\ pushed \subseteq Build
LoopTyped ==
    /\ todo \in Seq(QueuedJob)
    /\ job \in [Worker -> [kind : {"none", "build", "deploy"}, tag : Tag]]
    /\ pc \in [Worker -> Slotted \cup {"idle", "inserted", "waiting"}]
    /\ mine \in [Worker -> Tag]
    /\ outcome \in [Worker -> Verdict \cup {"none"}]
OthersTyped ==
    /\ boot \in [Worker -> {"down", "fresh", "found", "done"}]
    /\ sweep \in BOOLEAN
    /\ request \in [op : {"none", "redeploy", "rollback", "cancel", "stop"},
                    arg : None..NumBuilds]
    /\ kills \in Nat
    /\ events \in 0..MaxEvents
    /\ lost \subseteq Build
    /\ history \subseteq {"overlap", "abort", "unsettled"}
Typed == RowsTyped /\ InstanceTyped /\ ClusterTyped /\ LoopTyped /\ OthersTyped

LEMMA TypedParts == TypeOK <=> Typed /\ cap \in Caps /\ locked \in Nat /\ unlocking \in Nat
BY DEF TypeOK, Typed, RowsTyped, InstanceTyped, ClusterTyped, LoopTyped, OthersTyped, QueuedJob

LEMMA Constants ==
    /\ NumBuilds \in Nat /\ MaxEvents \in Nat /\ None \in None..NumBuilds /\ None \in Tag
    /\ Build \subseteq None..NumBuilds /\ None..NumBuilds \subseteq Tag
    /\ LegacyTag \in Tag
BY BuildConstantsOK DEF Build, None, Tag, LegacyTag

LEMMA NamedTyped ==
    /\ NoJob \in [kind : {"none", "build", "deploy"}, tag : Tag] /\ NoJob.kind = "none"
    /\ BuildJob \in QueuedJob /\ BuildJob.kind = "build"
    /\ \A t \in Tag : DeployJob(t) \in QueuedJob /\ DeployJob(t).kind = "deploy"
    /\ NoPod \in [owner : None..NumBuilds, state : {"none", "running", "succeeded", "failed"},
                  doomed : BOOLEAN] /\ NoPod.state = "none"
    /\ NoRequest \in [op : {"none", "redeploy", "rollback", "cancel", "stop"},
                      arg : None..NumBuilds] /\ NoRequest.op = "none"
BY Constants DEF NoJob, BuildJob, QueuedJob, DeployJob, NoPod, NoRequest

LEMMA EventTyped ==
    ASSUME Typed, events < MaxEvents
    PROVE  events + 1 \in 0..MaxEvents
BY Constants DEF Typed, OthersTyped

LEMMA DeletedPodTyped ==
    ASSUME Typed, Numbered
    PROVE  /\ DeletedPod \in [owner : None..NumBuilds,
                              state : {"none", "running", "succeeded", "failed"},
                              doomed : BOOLEAN]
           /\ DeletedPod.state # "none" => DeletedPod.owner \in Build
BY NamedTyped DEF Typed, ClusterTyped, Numbered, DeletedPod

\* A handler that goes on, with the job and row it has
LEMMA GoesOn ==
    ASSUME Typed, InPlace, NEW w \in Worker, NEW l \in Slotted \cup {"waiting"}, Goto(w, l),
           UNCHANGED <<todo, job, mine>>,
           pc[w] # "idle", l \in BuildOnly => job[w].kind = "build",
           \/ UNCHANGED outcome /\ l \notin {"ended", "settle"}
           \/ \E v \in Verdict : outcome' = [outcome EXCEPT ![w] = v],
           Begun' = Begun
    PROVE  LoopTyped' /\ InPlace'
<1>1. l # "idle"
  BY DEF Slotted
<1>2. LoopTyped'
  BY DEF Typed, LoopTyped, Goto
<1>3. \A v \in Worker : pc'[v] = IF v = w THEN l ELSE pc[v]
  BY DEF Typed, LoopTyped, Goto
<1>4. \A v \in Worker : v # w => outcome'[v] = outcome[v]
  BY DEF Typed, LoopTyped
<1>5. l \in {"ended", "settle"} => outcome'[w] \in Verdict
  BY DEF Typed, LoopTyped
<1>6. InPlace'
  BY <1>1, <1>3, <1>4, <1>5 DEF InPlace, BuildOnly
<1>7. QED
  BY <1>2, <1>6

\* A handler that returns
LEMMA Returned ==
    ASSUME Typed, InPlace, NEW w \in Worker, Return(w), UNCHANGED todo, Begun' = Begun
    PROVE  LoopTyped' /\ InPlace'
BY Constants, NamedTyped DEF Typed, LoopTyped, InPlace, Return, Goto, BuildOnly, Slotted

LEMMA LoopsAlone ==
    ASSUME Typed, InPlace, UNCHANGED loop, todo' \in Seq(QueuedJob), Begun' = Begun
    PROVE  LoopTyped' /\ InPlace'
BY DEF Typed, LoopTyped, InPlace, loop

\* Begun are written, none is made
LEMMA SameRows ==
    ASSUME \A b \in Build : status'[b] = "absent" <=> status[b] = "absent"
    PROVE  Begun' = Begun
BY DEF Begun

\* An UPDATE of a row, and one of the instance, whether they succeed or fail
LEMMA UpdateTyped ==
    ASSUME Typed, NEW b, NEW s \in RowStatus \ {"absent"}, Update(b, s)
    PROVE  status' \in [Build -> RowStatus] /\ stop' \subseteq Build /\ Begun' = Begun
<1>1. status \in [Build -> RowStatus] /\ stop \subseteq Build
  BY DEF Typed, RowsTyped
<1>2. CASE UNCHANGED rows
  BY <1>1, <1>2 DEF rows, Begun
<1>3. CASE b \in Rows /\ status' = [status EXCEPT ![b] = s] /\ stop' = stop \ {b}
  <2>1. b \in Build /\ status[b] # "absent"
    BY <1>3 DEF Rows, Begun
  <2>2. QED
    BY <1>1, <1>3, <2>1, SameRows
<1>4. QED
  BY <1>2, <1>3 DEF Update

LEMMA UpdateInstanceTyped ==
    ASSUME Typed, NEW s, UpdateInstance(s)
    PROVE  istatus' \in {istatus, s} /\ history' \subseteq {"overlap", "abort", "unsettled"}
BY DEF UpdateInstance, Typed, OthersTyped

LEMMA NumberedStill ==
    ASSUME Typed, Numbered, Begun' = Begun,
           UNCHANGED pod \/ pod' = NoPod \/ DeletePod \/ pod'.owner \in Build,
           UNCHANGED request \/ request'.op # "cancel" \/ request'.arg \in Begun
    PROVE  Numbered'
BY NamedTyped, DeletedPodTyped DEF Numbered, DeletePod

LEMMA BuildTypes ==
    ASSUME Typed, InPlace, Numbered, NEW w \in Worker, BuildStep(w) \/ TimeOut(w)
    PROVE  Typed' /\ InPlace' /\ Numbered'
<1> DEFINE Goal == Typed' /\ InPlace' /\ Numbered'
<1>0. /\ status \in [Build -> RowStatus] /\ stop \subseteq Build
      /\ istatus \in {"building", "running", "failed", "crashed", "stopped"}
      /\ image \in None..NumBuilds /\ secrets \subseteq Build
      /\ Begun \subseteq Build
      /\ pc[w] \in BuildOnly => job[w].kind = "build" /\ mine[w] \in Begun /\ mine[w] \in Build
  BY DEF Typed, RowsTyped, InstanceTyped, ClusterTyped, InPlace, Begun
<1>b. UNCHANGED status => Begun' = Begun
  BY DEF Begun
<1>c. ASSUME LoopTyped', InPlace', Begun' = Begun, status' \in [Build -> RowStatus],
             stop' \subseteq Build, istatus' \in {istatus, "failed"}, image' \in None..NumBuilds,
             UNCHANGED <<deployed, pushed, boot, sweep, users>>,
             events' \in 0..MaxEvents, lost' \subseteq Build,
             history' \subseteq {"overlap", "abort", "unsettled"},
             secrets' \subseteq Build, UNCHANGED pod \/ DeletePod
      PROVE  Goal
  <2>1. Numbered'
    BY <1>c, NumberedStill DEF users
  <2>2. QED
    BY <1>c, <1>0, <2>1, DeletedPodTyped DEF Typed, RowsTyped, InstanceTyped, ClusterTyped, OthersTyped,
       users, DeletePod
<1>d. /\ events \in 0..MaxEvents /\ MaxEvents \in Nat /\ lost \subseteq Build
      /\ history \subseteq {"overlap", "abort", "unsettled"}
  BY Constants DEF Typed, OthersTyped
<1>e. \A bs : LeftInFlight(bs) \subseteq bs
  BY DEF LeftInFlight
<1>f. \A b \in Build : DeleteSecrets(b) => secrets' \subseteq Build
  BY <1>0 DEF DeleteSecrets
<1> HIDE DEF Goal
<1>1. ASSUME BuildAborted(w) PROVE Goal
  <2>1. todo' \in Seq(QueuedJob)
    BY <1>1, TodoTyped DEF BuildAborted, Claim, Typed, LoopTyped
  <2>2. UNCHANGED <<status, stop, pod, request, loop, image>>
    BY <1>1 DEF BuildAborted, rows, cluster, users
  <2>3. LoopTyped' /\ InPlace' /\ Numbered'
    BY <2>1, <2>2, <1>b, LoopsAlone, NumberedStill
  <2>4. events' \in 0..MaxEvents
    BY <1>1, EventTyped DEF BuildAborted
  <2>5. QED
    BY <1>1, <2>2, <2>3, <2>4 DEF BuildAborted, Goal, Typed, RowsTyped, InstanceTyped, ClusterTyped,
       OthersTyped, cluster, users
<1>2. ASSUME StartBuild(w) PROVE Goal
  <2>1. Count \in 0..NumBuilds /\ Begun = 1..Count /\ Count < NumBuilds /\ NumBuilds \in Nat
    BY <1>2, BegunCount, Constants DEF StartBuild
  <2>2. Count + 1 \in Build /\ Count + 1 \in Tag /\ Count + 1 \in 0..NumBuilds
    BY <2>1, Constants DEF Build
  <2>3. PICK st \in {"queued", "missing"} : status' = [status EXCEPT ![Count + 1] = st]
    BY <1>2 DEF StartBuild
  <2>4. Begun' = Begun \cup {Count + 1}
    BY <1>0, <2>2, <2>3 DEF Begun
  <2>5. Begun' = 1..(Count + 1)
    BY <2>1, <2>4
  <2>6. status' \in [Build -> RowStatus]
    BY <1>0, <2>3 DEF RowStatus, InFlight
  <2>7. LoopTyped'
    <3>1. todo' \in Seq(QueuedJob)
      BY <1>2, TodoTyped DEF StartBuild, Claim, Typed, LoopTyped
    <3>2. BuildJob \in [kind : {"none", "build", "deploy"}, tag : Tag]
      BY NamedTyped DEF QueuedJob
    <3>3. QED
      BY <1>2, <2>2, <3>1, <3>2 DEF StartBuild, Goto, Typed, LoopTyped
  <2>8. InPlace'
    BY <1>2, <2>2, <2>4, NamedTyped DEF StartBuild, Claim, Goto, Typed, LoopTyped, InPlace, BuildOnly, Slotted
  <2>9. Numbered'
    <3>1. UNCHANGED <<pod, request>>
      BY <1>2 DEF StartBuild, cluster, users
    <3>2. QED
      BY <2>2, <2>4, <2>5, <3>1 DEF Numbered
  <2>10. history' \subseteq {"overlap", "abort", "unsettled"} /\ events' \in 0..MaxEvents
    BY <1>2, Constants DEF StartBuild, Typed, OthersTyped, Counted
  <2>11. QED
    BY <1>2, <2>6, <2>7, <2>8, <2>9, <2>10 DEF StartBuild, Goal, Typed, RowsTyped, InstanceTyped, ClusterTyped,
       OthersTyped, cluster, instance, users
<1>3. ASSUME Supersede(w) PROVE Goal
  <2>1. \A b \in Others(mine[w]) : b \in Build /\ status[b] # "absent"
    BY DEF Others, InFlight
  <2>2. \/ /\ status' = [b \in Build |-> IF b \in Others(mine[w]) THEN "superseded"
                                         ELSE status[b]]
           /\ stop' = stop \cup Others(mine[w])
        \/ UNCHANGED rows
    BY <1>3 DEF Supersede
  <2>3. status' \in [Build -> RowStatus] /\ stop' \subseteq Build
    BY <1>0, <2>1, <2>2 DEF RowStatus, rows
  <2>4. Begun' = Begun
    BY <2>1, <2>2, SameRows DEF rows
  <2>5. LoopTyped' /\ InPlace'
    BY <1>0, <1>3, <2>4, GoesOn DEF Supersede, BuildOnly, Slotted
  <2>6. events' \in 0..MaxEvents /\ lost' \subseteq Build
    BY <1>3, <1>d, <1>e, <2>1 DEF Supersede, Counted
  <2>7. QED
    BY <1>0, <1>3, <1>c, <1>d, <2>3, <2>4, <2>5, <2>6 DEF Supersede, instance, cluster
<1>4. ASSUME AcquireSlot(w) PROVE Goal
  <2>1. LoopTyped' /\ InPlace'
    BY <1>0, <1>4, <1>b, GoesOn DEF AcquireSlot, BuildOnly, Slotted, rows
  <2>2. QED
    BY <1>0, <1>4, <1>b, <1>c, <1>d, <2>1 DEF AcquireSlot, rows, instance, cluster, past
<1>5. ASSUME CheckQueued(w) PROVE Goal
  <2>1. LoopTyped' /\ InPlace'
    BY <1>0, <1>5, <1>b, GoesOn, Returned DEF CheckQueued, BuildOnly, Slotted, rows
  <2>2. QED
    BY <1>0, <1>5, <1>b, <1>c, <1>d, <2>1 DEF CheckQueued, rows, instance, cluster, past
<1>6. ASSUME Promote(w) PROVE Goal
  <2>1. pc[w] \in BuildOnly
    BY <1>6 DEF Promote, BuildOnly, Slotted
  <2>2. status' \in [Build -> RowStatus] /\ stop' \subseteq Build /\ Begun' = Begun
    BY <1>6, UpdateTyped DEF Promote, RowStatus, InFlight
  <2>3. LoopTyped' /\ InPlace'
    BY <1>0, <1>6, <2>1, <2>2, GoesOn DEF Promote, Slotted, BuildOnly
  <2>4. events' \in 0..MaxEvents /\ secrets' \subseteq Build /\ DeletePod
    BY <1>0, <1>6, <1>d, <2>1 DEF Promote, Counted
  <2>5. QED
    BY <1>0, <1>6, <1>c, <1>d, <2>2, <2>3, <2>4 DEF Promote, instance
<1>7. ASSUME CreatePod(w) PROVE Goal
  <2>1. pc[w] \in BuildOnly
    BY <1>7 DEF CreatePod, BuildOnly, Slotted
  <2>2. LoopTyped' /\ InPlace' /\ Begun' = Begun
    BY <1>0, <1>7, <1>b, <2>1, GoesOn DEF CreatePod, Slotted, BuildOnly
  <2>3. pod' = NewPod(mine[w]) /\ NewPod(mine[w]).owner \in Build
    BY <1>0, <1>7, <2>1 DEF CreatePod, PodCreated, NewPod
  <2>4. NewPod(mine[w]) \in [owner : None..NumBuilds, state : {"none", "running", "succeeded", "failed"},
                              doomed : BOOLEAN]
    BY <1>0, <2>1, Constants DEF NewPod
  <2>5. Numbered'
    BY <1>7, <2>2, <2>3, NumberedStill DEF CreatePod, users
  <2>6. QED
    BY <1>0, <1>7, <2>2, <2>3, <2>4, <2>5 DEF CreatePod, Goal, Typed, RowsTyped, InstanceTyped, ClusterTyped,
       OthersTyped, instance, users, past
<1>8. ASSUME CreatePodFails(w) PROVE Goal
  <2>1. pc[w] \in BuildOnly
    BY <1>8 DEF CreatePodFails, BuildOnly, Slotted
  <2>2. status' \in [Build -> RowStatus] /\ stop' \subseteq Build /\ Begun' = Begun
    BY <1>8, UpdateTyped DEF CreatePodFails, RowStatus, Verdict
  <2>3. LoopTyped' /\ InPlace'
    BY <1>8, <2>2, Returned DEF CreatePodFails
  <2>4. events' \in 0..MaxEvents /\ secrets' \subseteq Build /\ lost' \subseteq Build
    BY <1>0, <1>8, <1>d, <1>e, <1>f, <2>1 DEF CreatePodFails, Counted
  <2>5. istatus' \in {istatus, "failed"} /\ history' \subseteq {"overlap", "abort", "unsettled"}
    BY <1>8, UpdateInstanceTyped DEF CreatePodFails
  <2>6. QED
    BY <1>0, <1>8, <1>c, <2>2, <2>3, <2>4, <2>5 DEF CreatePodFails
<1>9. ASSUME Poll(w) PROVE Goal
  <2>1. LoopTyped' /\ InPlace' /\ Begun' = Begun
    BY <1>0, <1>9, <1>b, GoesOn, Returned DEF Poll, BuildOnly, Slotted, rows
  <2>2. pc[w] \in BuildOnly
    BY <1>9 DEF Poll, BuildOnly, Slotted
  <2>3. events' \in 0..MaxEvents /\ secrets' \subseteq Build
    BY <1>0, <1>9, <1>d, <1>f, <2>2 DEF Poll, Counted
  <2>4. QED
    BY <1>0, <1>9, <1>c, <1>d, <2>1, <2>3 DEF Poll, rows, instance
<1>10. ASSUME LookAtPod(w) PROVE Goal
  <2>1. pc[w] \in BuildOnly /\ pc[w] # "idle"
    BY <1>10 DEF LookAtPod, BuildOnly, Slotted
  <2>2. Begun' = Begun
    BY <1>10, <1>b DEF LookAtPod
  <2>3. \E l \in {"polling", "ended"} :
            /\ Goto(w, l)
            /\ \/ UNCHANGED outcome /\ l = "polling"
               \/ \E v \in Verdict : outcome' = [outcome EXCEPT ![w] = v]
    BY <1>10 DEF LookAtPod, Ended, Verdict
  <2>4. LoopTyped' /\ InPlace'
    BY <1>0, <1>10, <2>1, <2>2, <2>3, GoesOn DEF LookAtPod, Slotted
  <2>5. QED
    BY <1>0, <1>10, <1>c, <1>d, <2>2, <2>4 DEF LookAtPod, instance, cluster, past
<1>11. ASSUME TimeOut(w) PROVE Goal
  <2>1. LoopTyped' /\ InPlace' /\ Begun' = Begun
    BY <1>0, <1>11, <1>b, GoesOn DEF TimeOut, Ended, Verdict, BuildOnly, Slotted, rows
  <2>2. QED
    BY <1>0, <1>11, <1>c, <1>d, <2>1 DEF TimeOut, rows, instance, cluster, past
<1>12. ASSUME Record(w) PROVE Goal
  <2>1. pc[w] \in BuildOnly /\ outcome[w] \in Verdict
    BY <1>12 DEF Record, BuildOnly, Slotted, InPlace
  <2>2. status' \in [Build -> RowStatus] /\ stop' \subseteq Build /\ Begun' = Begun
    BY <1>12, <2>1, UpdateTyped DEF Record, StatusStr, RowStatus, Verdict
  <2>3. LoopTyped' /\ InPlace'
    <3>1. outcome' = [outcome EXCEPT ![w] = outcome[w]]
      BY <1>12 DEF Record, Typed, LoopTyped
    <3>2. QED
      BY <1>0, <1>12, <2>1, <2>2, <3>1, GoesOn DEF Record, Slotted, BuildOnly
  <2>4. events' \in 0..MaxEvents /\ secrets' \subseteq Build /\ lost' \subseteq Build
    BY <1>0, <1>12, <1>d, <1>e, <1>f, <2>1 DEF Record, Counted
  <2>5. QED
    BY <1>0, <1>12, <1>c, <1>d, <2>2, <2>3, <2>4 DEF Record, instance
<1>13. ASSUME Settle(w) PROVE Goal
  <2>1. pc[w] \in BuildOnly
    BY <1>13 DEF Settle, BuildOnly, Slotted
  <2>2. LoopTyped' /\ InPlace' /\ Begun' = Begun
    BY <1>0, <1>13, <1>b, <2>1, GoesOn, Returned DEF Settle, BuildOnly, Slotted
  <2>3. mine[w] \in None..NumBuilds
    BY <1>0, <2>1, Constants
  <2>4. events' \in 0..MaxEvents
    BY <1>13, <1>d DEF Settle, GivesUp, Counted
  <2>5. istatus' \in {istatus, "failed"} /\ history' \subseteq {"overlap", "abort", "unsettled"}
    BY <1>13, <1>d, UpdateInstanceTyped DEF Settle, GivesUp
  <2>6. QED
    BY <1>0, <1>13, <1>c, <1>d, <2>2, <2>3, <2>4, <2>5 DEF Settle, cluster
<1>14. QED
  BY <1>1, <1>2, <1>3, <1>4, <1>5, <1>6, <1>7, <1>8, <1>9, <1>10, <1>11, <1>12, <1>13 DEF BuildStep, Goal

LEMMA DeployTypes ==
    ASSUME Typed, InPlace, Numbered, NEW w \in Worker, DeployStep(w)
    PROVE  Typed' /\ InPlace' /\ Numbered'
<1> DEFINE Goal == Typed' /\ InPlace' /\ Numbered'
<1>0. /\ stop \subseteq Build /\ deployed \in Tag /\ mine[w] \in Tag
      /\ Typed
  BY DEF Typed, RowsTyped, ClusterTyped, LoopTyped
<1>a. ASSUME LoopTyped', InPlace', UNCHANGED <<status, image, pod, request, secrets, pushed, boot, sweep, users, lost>>,
             events' \in 0..MaxEvents, history' \subseteq {"overlap", "abort", "unsettled"},
             istatus' \in {"building", "running", "failed", "crashed", "stopped"},
             deployed' \in Tag, stop' \subseteq Build
      PROVE  Goal
  <2>1. Begun' = Begun
    BY <1>a DEF Begun
  <2>2. Numbered'
    BY <1>a, <2>1, NumberedStill
  <2>3. QED
    BY <1>a, <2>2 DEF Typed, RowsTyped, InstanceTyped, ClusterTyped, OthersTyped, users
<1>b. UNCHANGED status => Begun' = Begun
  BY DEF Begun
<1>c. /\ events \in 0..MaxEvents /\ MaxEvents \in Nat
      /\ history \subseteq {"overlap", "abort", "unsettled"}
  BY Constants DEF Typed, OthersTyped
<1> HIDE DEF Goal
<1>1. ASSUME StartDeploy(w) PROVE Goal
  <2>1. Head(todo) \in QueuedJob /\ Head(todo).kind = "deploy" /\ todo' \in Seq(QueuedJob)
    BY <1>1, TodoTyped DEF StartDeploy, Claim, Typed, LoopTyped
  <2>2. Head(todo).tag \in Tag /\ image \in Tag /\ LegacyTag \in Tag
    BY <2>1, Constants DEF QueuedJob, Typed, InstanceTyped
  <2>3. /\ job' = [job EXCEPT ![w] = Head(todo)]
        /\ \E t \in Tag : mine' = [mine EXCEPT ![w] = t]
        /\ Goto(w, "deploy") /\ pc[w] = "idle"
        /\ UNCHANGED <<status, stop, instance, cluster, outcome, boot, sweep, users, past>>
    <3>1. \E t \in {Head(todo).tag, image, LegacyTag} : mine' = [mine EXCEPT ![w] = t]
      BY <1>1 DEF StartDeploy
    <3>2. QED
      BY <1>1, <2>2, <3>1 DEF StartDeploy, Claim, rows, past
  <2>4. LoopTyped'
    BY <2>1, <2>3 DEF Typed, LoopTyped, Goto, QueuedJob, Slotted
  <2>5. InPlace'
    BY <2>1, <2>3, <1>b DEF Typed, LoopTyped, InPlace, Goto, BuildOnly, Slotted
  <2>6. QED
    BY <1>0, <1>c, <2>3, <2>4, <2>5, <1>a DEF instance, cluster, users, past, Typed, InstanceTyped
<1>2. ASSUME Deploy(w) PROVE Goal
  <2>1. LoopTyped' /\ InPlace'
    BY <1>2, <1>b, GoesOn DEF Deploy, BuildOnly, Slotted, rows
  <2>2. QED
    BY <1>0, <1>2, <1>c, <2>1, <1>a DEF Deploy, rows, instance, users, past, Typed, InstanceTyped
<1>3. ASSUME DeployFails(w) PROVE Goal
  <2>1. LoopTyped' /\ InPlace'
    BY <1>3, <1>b, Returned DEF DeployFails
  <2>2. QED
    <3>1. /\ istatus' \in {istatus, "failed"} /\ history' \subseteq {"overlap", "abort", "unsettled"}
          /\ events' \in 0..MaxEvents
      BY <1>3, <1>c, UpdateInstanceTyped DEF DeployFails, Counted
    <3>2. QED
      BY <1>0, <1>3, <2>1, <3>1, <1>a DEF DeployFails, users, Typed, InstanceTyped
<1>4. ASSUME Monitor(w) PROVE Goal
  <2>1. LoopTyped' /\ InPlace'
    BY <1>4, <1>b, Returned DEF Monitor
  <2>2. QED
    <3>1. /\ istatus' \in {istatus, "running", "crashed"}
          /\ history' \subseteq {"overlap", "abort", "unsettled"} /\ events' \in 0..MaxEvents
      BY <1>4, <1>c, UpdateInstanceTyped DEF Monitor, Counted
    <3>2. QED
      BY <1>0, <1>4, <2>1, <3>1, <1>a DEF Monitor, cluster, users, Typed, InstanceTyped
<1>5. QED
  BY <1>1, <1>2, <1>3, <1>4 DEF DeployStep, Goal

LEMMA CrashTypes ==
    ASSUME Typed, InPlace, Numbered, NEW w \in Worker, Crash(w)
    PROVE  Typed' /\ InPlace' /\ Numbered'
<1>1. todo' \in Seq(QueuedJob)
  <2>1. pc[w] # "idle" => job[w] \in QueuedJob
    BY DEF Typed, LoopTyped, InPlace, QueuedJob
  <2>2. QED
    BY <2>1, TodoTyped DEF Crash, Typed, LoopTyped
<1>2. UNCHANGED <<status, stop, instance, cluster, sweep, request, lost, history>> /\ Begun' = Begun
  BY DEF Crash, rows, Begun
<1>3. LoopTyped'
  BY <1>1, Constants, NamedTyped DEF Crash, Goto, Typed, LoopTyped
<1>4. InPlace'
  BY <1>2, NamedTyped DEF Crash, Goto, Typed, LoopTyped, InPlace, BuildOnly, Slotted
<1>5. Numbered'
  BY <1>2, NumberedStill DEF cluster
<1>6. events' \in 0..MaxEvents
  BY EventTyped DEF Crash
<1>7. QED
  BY <1>2, <1>3, <1>4, <1>5, <1>6 DEF Crash, Typed, RowsTyped, InstanceTyped, ClusterTyped,
     OthersTyped, cluster, instance

LEMMA ElsewhereTypes ==
    ASSUME Typed, InPlace, Numbered, Elsewhere \/ Unlock
    PROVE  Typed' /\ InPlace' /\ Numbered'
<1> DEFINE Goal == Typed' /\ InPlace' /\ Numbered'
<1> USE DEF rows, instance, cluster, users, past
<1>0. /\ UNCHANGED loop
      /\ status \in [Build -> RowStatus] /\ stop \subseteq Build /\ pushed \subseteq Build
      /\ request \in [op : {"none", "redeploy", "rollback", "cancel", "stop"}, arg : None..NumBuilds]
      /\ pod \in [owner : None..NumBuilds, state : {"none", "running", "succeeded", "failed"}, doomed : BOOLEAN]
      /\ kills \in Nat /\ todo \in Seq(QueuedJob)
      /\ events \in 0..MaxEvents /\ MaxEvents \in Nat
      /\ history \subseteq {"overlap", "abort", "unsettled"}
  BY ElsewhereSlots, Constants DEF Unlock, Typed, RowsTyped, ClusterTyped, OthersTyped, LoopTyped
<1>a. ASSUME UNCHANGED <<todo, pod, request, kills, lost>>, events' \in 0..MaxEvents, Begun' = Begun,
             status' \in [Build -> RowStatus], stop' \subseteq Build,
             UNCHANGED <<image, cluster, history>>,
             istatus' \in {istatus, "running", "failed"},
             boot' \in [Worker -> {"down", "fresh", "found", "done"}], sweep' \in BOOLEAN
      PROVE  Goal
  <2>1. LoopTyped' /\ InPlace'
    BY <1>0, <1>a, LoopsAlone
  <2>2. Numbered'
    BY <1>a, NumberedStill
  <2>3. QED
    BY <1>a, <2>1, <2>2 DEF Typed, RowsTyped, InstanceTyped, ClusterTyped, OthersTyped
<1>b. ASSUME UNCHANGED <<rows, boot, sweep, lost, deployed, secrets>>,
             history' \subseteq {"overlap", "abort", "unsettled"},
             todo' \in Seq(QueuedJob), Numbered',
             istatus' \in {istatus, "building", "stopped"}, image' \in None..NumBuilds,
             pushed' \subseteq Build,
             request' \in [op : {"none", "redeploy", "rollback", "cancel", "stop"}, arg : None..NumBuilds],
             pod' \in [owner : None..NumBuilds, state : {"none", "running", "succeeded", "failed"}, doomed : BOOLEAN],
             kills' \in Nat, events' \in 0..MaxEvents
      PROVE  Goal
  <2>1. Begun' = Begun
    BY <1>b DEF Begun
  <2>2. LoopTyped' /\ InPlace'
    BY <1>0, <1>b, <2>1, LoopsAlone
  <2>3. QED
    BY <1>b, <2>1, <2>2 DEF Typed, RowsTyped, InstanceTyped, ClusterTyped, OthersTyped
<1>c. UNCHANGED <<status, pod, request>> => Numbered'
  BY NumberedStill DEF Begun
<1>d. UNCHANGED status => Begun' = Begun
  BY DEF Begun
<1> HIDE DEF Goal
<1>1. ASSUME NEW w \in Worker, Restart(w) \/ FindStuck(w) PROVE Goal
  BY <1>0, <1>1, <1>a, <1>d DEF Restart, FindStuck, Typed, OthersTyped
<1>2. ASSUME ReconcileStuck, boot' \in [Worker -> {"down", "fresh", "found", "done"}], sweep' \in BOOLEAN
      PROVE  Goal
  <2>1. status' \in [Build -> RowStatus] /\ stop' \subseteq Build /\ Begun' = Begun
    <3>1. CASE UNCHANGED rows
      BY <1>0, <1>d, <3>1
    <3>2. CASE \E found \in BOOLEAN : Update(Latest, IF found THEN "succeeded" ELSE "failed")
      <4>1. PICK v \in {"succeeded", "failed"} : Update(Latest, v)
        BY <3>2
      <4>2. QED
        BY <4>1, UpdateTyped DEF RowStatus, Verdict
    <3>3. QED
      BY <1>2, <3>1, <3>2 DEF ReconcileStuck
  <2>2. istatus' \in {istatus, "running", "failed"} /\ events' \in 0..MaxEvents
    <3>1. PICK found \in BOOLEAN :
              /\ istatus' \in {istatus, IF found THEN "running" ELSE "failed"}
              /\ events' \in {events, events + 1} /\ events' <= MaxEvents
      BY <1>2 DEF ReconcileStuck, Counted
    <3>2. QED
      BY <1>0, <3>1
  <2>3. QED
    BY <1>2, <1>a, <2>1, <2>2 DEF ReconcileStuck
<1>3. ASSUME NEW w \in Worker, ReconcileAtBoot(w) PROVE Goal
  BY <1>2, <1>3 DEF ReconcileAtBoot, Typed, OthersTyped
<1>4. ASSUME FindOverdue \/ SkipOverdue PROVE Goal
  BY <1>0, <1>4, <1>a, <1>d DEF FindOverdue, SkipOverdue, Typed, OthersTyped
<1>5. ASSUME ReconcileOverdue PROVE Goal
  BY <1>2, <1>5 DEF ReconcileOverdue, Typed, OthersTyped
<1>6. ASSUME PodSucceeds PROVE Goal
  <2>1. pod.owner \in Build /\ pod'.owner = pod.owner
    BY <1>0, <1>6 DEF PodSucceeds, Numbered
  <2>2. Numbered'
    BY <1>6, <2>1, <1>d, NumberedStill DEF PodSucceeds
  <2>3. QED
    BY <1>0, <1>6, <2>1, <2>2, <1>b DEF PodSucceeds, Typed, InstanceTyped, OthersTyped
<1>7. ASSUME PodFails PROVE Goal
  <2>1. pod.owner \in Build /\ pod'.owner = pod.owner
    BY <1>0, <1>7 DEF PodFails, Numbered
  <2>2. Numbered'
    BY <1>7, <2>1, <1>d, NumberedStill DEF PodFails
  <2>3. QED
    BY <1>0, <1>7, <2>1, <2>2, <1>b DEF PodFails, Typed, InstanceTyped, OthersTyped
<1>8. ASSUME PodGone PROVE Goal
  <2>1. Numbered'
    BY <1>8, <1>d, NumberedStill DEF PodGone
  <2>2. QED
    BY <1>0, <1>8, <2>1, <1>b, NamedTyped DEF PodGone, Typed, InstanceTyped, OthersTyped
<1>9. ASSUME NEW op \in {"redeploy", "rollback", "cancel"}, NEW b \in None..NumBuilds, Ask(op, b),
             op = "cancel" => b \in Begun
      PROVE  Goal
  <2>1. request' = [op |-> op, arg |-> b] /\ UNCHANGED <<rows, instance, cluster, todo, boot, sweep, kills, lost, history>>
    BY <1>9 DEF Ask
  <2>2. Numbered'
    BY <1>9, <2>1, <1>d, NumberedStill
  <2>3. events' \in 0..MaxEvents
    BY <1>9, EventTyped DEF Ask
  <2>4. QED
    BY <1>0, <2>1, <2>2, <2>3, <1>b DEF Typed, InstanceTyped
<1>10. ASSUME \/ AskRedeploy
              \/ \E b \in Build : AskRollback(b) \/ AskCancel(b)
       PROVE  Goal
  BY <1>9, <1>10, Constants DEF AskRedeploy, AskRollback, AskCancel, Begun
<1>11. ASSUME Redeploy PROVE Goal
  <2>1. Numbered'
    BY <1>11, <1>d, NumberedStill, NamedTyped DEF Redeploy
  <2>2. QED
    BY <1>0, <1>11, <2>1, <1>b, NamedTyped, TodoTyped DEF Redeploy, Enqueue, Typed, InstanceTyped, OthersTyped
<1>12. ASSUME Rollback PROVE Goal
  <2>1. Numbered'
    BY <1>12, <1>d, NumberedStill, NamedTyped DEF Rollback
  <2>2. request.arg \in None..NumBuilds /\ DeployJob(request.arg) \in QueuedJob
    BY <1>0, NamedTyped, Constants
  <2>3. QED
    BY <1>0, <1>12, <2>1, <2>2, <1>b, NamedTyped, TodoTyped DEF Rollback, Enqueue, Typed, InstanceTyped, OthersTyped
<1>13. ASSUME Cancel PROVE Goal
  <2>1. request.arg \in Begun /\ request.arg \in Build /\ status[request.arg] # "absent"
    BY <1>13 DEF Cancel, Numbered, Begun
  <2>2. status' \in [Build -> RowStatus] /\ Begun' = Begun
    BY <1>0, <1>13, <2>1, SameRows DEF Cancel, RowStatus
  <2>3. Numbered'
    BY <1>13, <2>2, NumberedStill DEF Cancel
  <2>4. LoopTyped' /\ InPlace'
    BY <1>0, <1>13, <2>2, LoopsAlone DEF Cancel
  <2>5. QED
    BY <1>0, <1>13, <2>1, <2>2, <2>3, <2>4 DEF Cancel, Goal, Typed, RowsTyped, InstanceTyped, ClusterTyped, OthersTyped
<1>14. ASSUME CancelStops PROVE Goal
  <2>1. Numbered'
    BY <1>14, <1>d, NumberedStill, NamedTyped DEF CancelStops
  <2>2. QED
    BY <1>0, <1>14, <2>1, <1>b, NamedTyped DEF CancelStops, Typed, InstanceTyped, OthersTyped
<1>15. ASSUME KillPod PROVE Goal
  <2>1. Numbered'
    BY <1>15, <1>d, NumberedStill DEF KillPod
  <2>2. QED
    BY <1>0, <1>15, <2>1, <1>b, DeletedPodTyped DEF KillPod, DeletePod, Typed, InstanceTyped, OthersTyped
<1>16. ASSUME Push \/ Reload PROVE Goal
  <2>1. DeployJob(None) \in QueuedJob /\ BuildJob \in QueuedJob /\ events' \in 0..MaxEvents
    BY <1>16, NamedTyped, Constants, EventTyped DEF Push, Reload
  <2>2. QED
    BY <1>0, <1>16, <1>c, <2>1, <1>b, TodoTyped DEF Push, Enqueue, Reload, Typed, InstanceTyped, OthersTyped
<1>17. ASSUME Unlock PROVE Goal
  BY <1>0, <1>17, <1>a, <1>d DEF Unlock, Typed, OthersTyped, RowsTyped
<1>18. ASSUME RequestFails PROVE Goal
  <2>1. Numbered'
    BY <1>18, <1>d, NumberedStill, NamedTyped DEF RequestFails
  <2>2. QED
    BY <1>0, <1>18, <2>1, <1>b, NamedTyped DEF RequestFails, Typed, InstanceTyped, OthersTyped
<1>19. QED
  BY <1>1, <1>3, <1>4, <1>5, <1>6, <1>7, <1>8, <1>10, <1>11, <1>12, <1>13, <1>14, <1>15, <1>16, <1>17, <1>18
     DEF Elsewhere, Goal

LEMMA TypeNext ==
    TypeOK /\ InPlace /\ Numbered /\ Conserved /\ [Next]_vars
        => TypeOK' /\ InPlace' /\ Numbered' /\ Conserved'
<1> SUFFICES ASSUME TypeOK, InPlace, Numbered, Conserved, [Next]_vars
             PROVE  TypeOK' /\ InPlace' /\ Numbered' /\ Conserved'
  OBVIOUS
<1>1. Typed /\ cap \in Caps
  BY TypedParts
<1>2. cap' = cap /\ locked' \in Nat /\ unlocking' \in Nat /\ Conserved'
  BY SlotsStep
<1>3. ASSUME UNCHANGED vars
      PROVE  Typed' /\ InPlace' /\ Numbered'
  <2>1. Begun' = Begun /\ UNCHANGED <<rows, instance, cluster, todo, loop, boot, sweep, users, past>>
    BY <1>3 DEF vars, rows, Begun
  <2>2. LoopTyped' /\ InPlace' /\ Numbered'
    BY <1>1, <2>1, LoopsAlone, NumberedStill DEF cluster, users, Typed, LoopTyped
  <2>3. QED
    BY <1>1, <2>1, <2>2 DEF rows, instance, cluster, users, past, Typed, RowsTyped, InstanceTyped,
       ClusterTyped, OthersTyped
<1>4. Next => Typed' /\ InPlace' /\ Numbered'
  BY <1>1, BuildTypes, DeployTypes, CrashTypes, ElsewhereTypes DEF Next, Elsewhere
<1>5. Typed' /\ cap' \in Caps /\ locked' \in Nat /\ unlocking' \in Nat => TypeOK'
  BY DEF TypeOK, Typed, RowsTyped, InstanceTyped, ClusterTyped, LoopTyped, OthersTyped, QueuedJob
<1>6. QED
  BY <1>1, <1>2, <1>3, <1>4, <1>5

LEMMA TypeInvariant == Spec => [](TypeOK /\ InPlace /\ Numbered /\ Conserved)
BY TypeInit, TypeNext, PTL DEF Spec

\* Begun, cluster, handlers, slots and requests are well typed in every reachable state,
\* whatever handlers, requests, crashes and reconcilers do to one another.
THEOREM TypeCorrect == Spec => []TypeOK
BY TypeInvariant, PTL

\* The locks held are those of builds past acquire_build_slot and of spawned unlocks, and
\* never more than the cap, on every path out of a handler and through crashes.
THEOREM SlotsConservedAlways == Spec => []SlotsConserved
<1>1. Init => locked <= cap
  BY BuildConstantsOK DEF Init
<1>2. TypeOK /\ InPlace /\ Conserved /\ locked <= cap /\ [Next]_vars => (locked <= cap)'
  BY SlotsStep
<1>3. Spec => [](locked <= cap)
  BY <1>1, <1>2, TypeInvariant, PTL DEF Spec
<1>4. Conserved /\ locked <= cap => SlotsConserved
  BY DEF Conserved, Holders, SlotsConserved
<1>5. QED
  BY <1>3, <1>4, TypeInvariant, PTL

-----------------------------------------------------------------------------
(***************************************************************************)
(* Handlers beside each other: whose secrets, whose pod.                   *)
(***************************************************************************)

Building(w) == job[w].kind = "build"

\* Two handlers never build one row.
Apart == \A u, v \in Worker : u # v /\ Building(u) /\ Building(v) => mine[u] # mine[v]

\* Secrets that a handler needs stay.
Armed ==
    \A w \in Worker :
        (pc[w] \in Mounting /\ mine[w] \in secrets /\ pc'[w] \in Mounting)
            => mine[w] \in secrets'

\* As long as no two builds ran at one time, the pod is that of the handler that waits
\* for it, or none; and a pod that has succeeded has pushed.
Alone == "overlap" \notin history =>
    /\ \A u, v \in Worker : Building(u) /\ Building(v) => u = v
    /\ \A w \in Worker : pc[w] \in Watching => pod = NoPod \/ pod.owner = mine[w]
PodIsTrue == pod.state = "succeeded" => pod.owner \in pushed

\* A step of one handler leaves the others where they are
OthersStay(w) ==
    \A v \in Worker \ {w} :
        /\ job'[v] = job[v] /\ mine'[v] = mine[v] /\ pc'[v] = pc[v] /\ outcome'[v] = outcome[v]

\* A handler of a build goes on with the row it has, or returns; secrets may be made, and
\* its own dropped
LEMMA BuildGoesOn ==
    ASSUME TypeOK, InPlace, NEW w \in Worker,
           BuildStep(w) \/ TimeOut(w), ~StartBuild(w)
    PROVE  /\ OthersStay(w)
           /\ Building(w)' => Building(w) /\ mine'[w] = mine[w]
           /\ \/ secrets' = secrets
              \/ Building(w) /\ secrets' \in {secrets \cup {mine[w]}, secrets \ {mine[w]}}
           /\ pc'[w] \in Mounting =>
                 Building(w)' /\ (mine[w] \in secrets => mine[w] \in secrets')
           /\ pushed' = pushed
           /\ "overlap" \in history => "overlap" \in history'
<1> USE DEF OthersStay, TypeOK, InPlace, Building, BuildOnly, Slotted, Watching, Mounting, Goto, SecretsOf, DeleteSecrets,
       UpdateInstance, past
<1>1. CASE BuildAborted(w)
  BY <1>1 DEF BuildAborted, Claim, loop, cluster
<1>2. CASE Supersede(w)
  BY <1>2 DEF Supersede, cluster
<1>3. CASE AcquireSlot(w)
  BY <1>3 DEF AcquireSlot, cluster
<1>4. CASE CheckQueued(w)
  BY <1>4 DEF CheckQueued, cluster, Return, NoJob
<1>5. CASE Promote(w)
  <2>1. /\ pc[w] = "promote" /\ pc' = [pc EXCEPT ![w] = "create"]
        /\ secrets' \in {secrets, secrets \cup {mine[w]}}
        /\ UNCHANGED <<job, mine, outcome, history, pushed>>
    BY <1>5 DEF Promote
  <2>2. QED
    BY <2>1
<1>6. CASE CreatePod(w)
  BY <1>6 DEF CreatePod
<1>7. CASE CreatePodFails(w)
  BY <1>7 DEF CreatePodFails, Return, NoJob
<1>8. CASE Poll(w)
  BY <1>8 DEF Poll, Return, NoJob
<1>9. CASE LookAtPod(w)
  BY <1>9 DEF LookAtPod, Ended, cluster
<1>10. CASE Record(w)
  BY <1>10 DEF Record
<1>11. CASE Settle(w)
  BY <1>11 DEF Settle, GivesUp, cluster, Return, NoJob
<1>12. CASE TimeOut(w)
  BY <1>12 DEF TimeOut, Ended, cluster
<1>13. QED
  BY <1>1, <1>2, <1>3, <1>4, <1>5, <1>6, <1>7, <1>8, <1>9, <1>10, <1>11, <1>12 DEF BuildStep

LEMMA DeployGoesOn ==
    ASSUME TypeOK, InPlace, NEW w \in Worker, DeployStep(w) \/ Crash(w)
    PROVE  /\ OthersStay(w)
           /\ Building(w)' => Building(w) /\ mine'[w] = mine[w]
           /\ pc'[w] \notin {"create"} \cup Watching
           /\ outcome'[w] # "none" => outcome'[w] = outcome[w] /\ mine'[w] = mine[w]
           /\ UNCHANGED <<secrets, pushed, pod>>
           /\ "overlap" \in history => "overlap" \in history'
<1> USE DEF OthersStay, TypeOK, InPlace, Building, Slotted, Watching, Goto, UpdateInstance, past
<1>1. CASE StartDeploy(w)
  <2>1. pc[w] = "idle" /\ job'[w].kind = "deploy" /\ outcome[w] = "none"
    BY <1>1 DEF StartDeploy, Claim
  <2>2. QED
    BY <1>1, <2>1 DEF StartDeploy, cluster
<1>2. CASE Deploy(w)
  BY <1>2 DEF Deploy
<1>3. CASE DeployFails(w)
  BY <1>3 DEF DeployFails, Return, NoJob
<1>4. CASE Monitor(w)
  BY <1>4 DEF Monitor, Return, NoJob, cluster
<1>5. CASE Crash(w)
  BY <1>5 DEF Crash, NoJob, cluster
<1>6. QED
  BY <1>1, <1>2, <1>3, <1>4, <1>5 DEF DeployStep

\* A build begins with a row that nobody has
LEMMA BuildBegins ==
    ASSUME TypeOK, InPlace, Numbered, NEW w \in Worker, StartBuild(w)
    PROVE  /\ ~Building(w) /\ Building(w)' /\ pc'[w] = "inserted" /\ outcome'[w] = "none"
           /\ OthersStay(w)
           /\ \A v \in Worker \ {w} : Building(v) => mine[v] # mine'[w]
           /\ UNCHANGED <<secrets, pushed, pod>>
           /\ "overlap" \notin history' => "overlap" \notin history /\ \A v \in Worker \ {w} : ~Building(v)
<1>1. Count \in 0..NumBuilds /\ Begun = 1..Count /\ Count + 1 \notin Begun
  BY BegunCount
<1>2. pc[w] = "idle" /\ job[w] = NoJob /\ outcome[w] = "none"
  BY DEF StartBuild, Claim, InPlace
<1>3. /\ job' = [job EXCEPT ![w] = BuildJob] /\ mine' = [mine EXCEPT ![w] = Count + 1]
      /\ pc' = [pc EXCEPT ![w] = "inserted"] /\ outcome' = outcome
      /\ UNCHANGED <<secrets, pushed, pod>>
  BY DEF StartBuild, Goto, cluster
<1>4. \A v \in Worker : Building(v) => mine[v] \in Begun /\ job[v] = BuildJob
  BY DEF Building, InPlace
<1>5. BuildJob.kind = "build" /\ NoJob.kind = "none"
  BY DEF BuildJob, NoJob
<1>6. QED
  BY <1>1, <1>2, <1>3, <1>4, <1>5 DEF OthersStay, TypeOK, Building, StartBuild

LEMMA ApartNext ==
    TypeOK /\ InPlace /\ Numbered /\ Apart /\ [Next]_vars => Apart' /\ Armed
<1> SUFFICES ASSUME TypeOK, InPlace, Numbered, Apart, [Next]_vars
             PROVE  Apart' /\ Armed
  OBVIOUS
<1>0. \A v \in Worker : pc[v] \in Mounting => Building(v)
  BY DEF InPlace, Building, BuildOnly, Slotted, Watching, Mounting
<1>1. ASSUME NEW w \in Worker, BuildStep(w) \/ TimeOut(w), ~StartBuild(w)
      PROVE  Apart' /\ Armed
  <2>1. Apart'
    BY <1>1, BuildGoesOn DEF Apart, OthersStay, Building
  <2>2. ASSUME NEW v \in Worker \ {w}, pc[v] \in Mounting, mine[v] \in secrets
        PROVE  mine[v] \in secrets'
    BY <1>0, <1>1, <2>2, BuildGoesOn DEF Apart
  <2>3. Armed
    BY <1>1, <2>2, BuildGoesOn DEF Armed
  <2>4. QED
    BY <2>1, <2>3
<1>2. ASSUME NEW w \in Worker, StartBuild(w)
      PROVE  Apart' /\ Armed
  <2>1. Apart'
    BY <1>2, BuildBegins DEF Apart, OthersStay, Building
  <2>2. Armed
    BY <1>2, BuildBegins DEF Armed
  <2>3. QED
    BY <2>1, <2>2
<1>3. ASSUME NEW w \in Worker, DeployStep(w) \/ Crash(w)
      PROVE  Apart' /\ Armed
  <2>1. Apart'
    BY <1>3, DeployGoesOn DEF Apart, OthersStay, Building
  <2>2. Armed
    BY <1>3, DeployGoesOn DEF Armed
  <2>3. QED
    BY <2>1, <2>2
<1>4. CASE Elsewhere \/ Unlock \/ UNCHANGED vars
  <2>1. UNCHANGED loop
    BY <1>4, ElsewhereSlots DEF Unlock, vars
  <2>2. UNCHANGED secrets
    BY <1>4 DEF Elsewhere, Restart, FindStuck, ReconcileAtBoot, ReconcileStuck, PodSucceeds, PodFails,
       PodGone, AskRedeploy, AskRollback, AskCancel, Ask, Redeploy, Rollback, Cancel,
       CancelStops, RequestFails, KillPod, Push, Reload, FindOverdue, ReconcileOverdue, SkipOverdue,
       Unlock, vars, cluster
  <2>3. QED
    BY <2>1, <2>2 DEF loop, Apart, Armed, Building
<1>5. QED
  BY <1>1, <1>2, <1>3, <1>4 DEF Next, Elsewhere

LEMMA ApartInvariant == Spec => [](TypeOK /\ InPlace /\ Numbered /\ Apart)
<1>1. Init => Apart
  BY DEF Init, Apart, Building, NoJob
<1>2. QED
  BY <1>1, ApartNext, TypeInvariant, PTL DEF Spec

\* From the creation of its pod until it stops waiting for it, a handler keeps the secrets
\* that were made for it, whatever the other handlers, which may be of the same instance,
\* clean up.
THEOREM SecretsKeptAlways == Spec => SecretsKept
<1>1. TypeOK /\ InPlace /\ Numbered /\ Apart /\ [Next]_vars
        => [\A w \in Worker :
               (pc[w] \in Mounting /\ mine[w] \in secrets /\ pc'[w] \in Mounting)
                   => mine[w] \in secrets']_vars
  BY ApartNext DEF Armed
<1>2. QED
  BY <1>1, ApartInvariant, PTL DEF Spec, SecretsKept

-----------------------------------------------------------------------------
(***************************************************************************)
(* What the pod says.                                                      *)
(***************************************************************************)

\* What a step of a handler does to the pod: nothing, deletes it, or makes its own
LEMMA PodOf ==
    ASSUME TypeOK, InPlace, NEW w \in Worker, BuildStep(w) \/ TimeOut(w), ~StartBuild(w)
    PROVE  \/ UNCHANGED pod /\ (pc'[w] \in Watching => pc[w] \in Watching)
           \/ pod' = DeletedPod /\ pc'[w] \notin Watching
           \/ pod' = NewPod(mine[w]) /\ mine'[w] = mine[w] /\ pod = NoPod
<1> USE DEF TypeOK, Watching, Goto, DeletePod
<1>1. CASE BuildAborted(w) \/ Supersede(w) \/ AcquireSlot(w) \/ CheckQueued(w) \/ Poll(w)
  BY <1>1 DEF BuildAborted, Claim, Supersede, AcquireSlot, CheckQueued, Poll, Return, cluster, loop
<1>2. CASE Promote(w) \/ Record(w)
  BY <1>2 DEF Promote, Record
<1>3. CASE CreatePod(w)
  BY <1>3 DEF CreatePod, PodCreated
<1>4. CASE CreatePodFails(w) \/ LookAtPod(w) \/ Settle(w) \/ TimeOut(w)
  BY <1>4 DEF CreatePodFails, LookAtPod, Ended, Settle, TimeOut, Return, cluster
<1>5. QED
  BY <1>1, <1>2, <1>3, <1>4 DEF BuildStep

\* A handler finds success only in a pod that has succeeded
LEMMA FoundSuccess ==
    ASSUME TypeOK, NEW w \in Worker, BuildStep(w) \/ TimeOut(w), ~StartBuild(w),
           outcome'[w] = "succeeded"
    PROVE  /\ mine'[w] = mine[w]
           /\ outcome[w] = "succeeded" \/ (pc[w] \in Watching /\ pod.state = "succeeded")
<1> USE DEF TypeOK, Watching
<1>1. CASE BuildAborted(w) \/ Supersede(w) \/ AcquireSlot(w) \/ CheckQueued(w) \/ Poll(w)
  BY <1>1 DEF BuildAborted, Supersede, AcquireSlot, CheckQueued, Poll, Return, loop
<1>2. CASE Promote(w) \/ CreatePod(w) \/ Record(w)
  BY <1>2 DEF Promote, CreatePod, Record
<1>3. CASE LookAtPod(w) \/ TimeOut(w)
  BY <1>3 DEF LookAtPod, TimeOut, Ended
<1>4. CASE CreatePodFails(w) \/ Settle(w)
  BY <1>4 DEF CreatePodFails, Settle, Return
<1>5. QED
  BY <1>1, <1>2, <1>3, <1>4 DEF BuildStep

\* What happens to the pod where no handler steps
LEMMA PodElsewhere ==
    ASSUME TypeOK, Elsewhere \/ Unlock \/ UNCHANGED vars
    PROVE  /\ pod' = NoPod \/ (pod'.owner = pod.owner /\ (pod = NoPod => pod' = NoPod))
           /\ pushed \subseteq pushed'
           /\ pod'.state = "succeeded" => (pod.state = "succeeded" \/ pod.owner \in pushed')
                                          /\ pod'.owner = pod.owner
           /\ UNCHANGED loop /\ ("overlap" \in history => "overlap" \in history')
<1> USE DEF TypeOK, NoPod, DeletedPod, DeletePod, cluster, past
<1>0. UNCHANGED loop
  BY ElsewhereSlots DEF Unlock, vars
<1>1. CASE PodSucceeds
  BY <1>0, <1>1 DEF PodSucceeds
<1>2. CASE PodFails
  BY <1>0, <1>2 DEF PodFails
<1>3. CASE PodGone
  BY <1>0, <1>3 DEF PodGone
<1>4. CASE KillPod
  BY <1>0, <1>4 DEF KillPod
<1>5. CASE ~PodSucceeds /\ ~PodFails /\ ~PodGone /\ ~KillPod
  <2>1. UNCHANGED <<pod, pushed>> /\ ("overlap" \in history => "overlap" \in history')
    BY <1>5 DEF Elsewhere, Restart, FindStuck, ReconcileAtBoot, ReconcileStuck, AskRedeploy,
       AskRollback, AskCancel, Ask, Redeploy, Rollback, Cancel, CancelStops, RequestFails, Enqueue, Push, Reload,
       FindOverdue, ReconcileOverdue, SkipOverdue, Unlock, vars
  <2>2. QED
    BY <1>0, <2>1
<1>6. QED
  BY <1>1, <1>2, <1>3, <1>4, <1>5

LEMMA TruthNext ==
    /\ TypeOK /\ InPlace /\ Numbered /\ Apart
    /\ Alone /\ PodIsTrue /\ VerdictIsTrue /\ [Next]_vars
    => Alone' /\ PodIsTrue' /\ VerdictIsTrue'
<1> SUFFICES ASSUME TypeOK, InPlace, Numbered, Apart, Alone, PodIsTrue, VerdictIsTrue,
                    [Next]_vars
             PROVE  Alone' /\ PodIsTrue' /\ VerdictIsTrue'
  OBVIOUS
<1>0. \A v \in Worker : pc[v] \in Watching => Building(v)
  BY DEF InPlace, Building, BuildOnly, Slotted, Watching
<1>d. /\ DeletedPod = NoPod \/ (DeletedPod.owner = pod.owner /\ DeletedPod.state = "running")
      /\ NoPod.state = "none" /\ \A b : NewPod(b).owner = b /\ NewPod(b).state = "running"
  BY DEF DeletedPod, NoPod, NewPod, TypeOK
<1>1. ASSUME NEW w \in Worker, BuildStep(w) \/ TimeOut(w), ~StartBuild(w)
      PROVE  Alone' /\ PodIsTrue' /\ VerdictIsTrue'
  <2>1. /\ OthersStay(w) /\ (Building(w)' => Building(w) /\ mine'[w] = mine[w])
        /\ pushed' = pushed /\ ("overlap" \notin history' => "overlap" \notin history)
        /\ pc'[w] \in Watching => Building(w)'
    BY <1>1, BuildGoesOn DEF Mounting
  <2>2. \/ UNCHANGED pod /\ (pc'[w] \in Watching => pc[w] \in Watching)
        \/ pod' = DeletedPod /\ pc'[w] \notin Watching
        \/ pod' = NewPod(mine[w]) /\ mine'[w] = mine[w] /\ pod = NoPod
    BY <1>1, PodOf
  <2>3. PodIsTrue'
    BY <1>d, <2>1, <2>2 DEF PodIsTrue
  <2>4. ASSUME "overlap" \notin history', NEW v \in Worker, pc'[v] \in Watching
        PROVE  pod' = NoPod \/ pod'.owner = mine'[v]
    <3>1. CASE v = w
      BY <1>d, <2>1, <2>2, <2>4, <3>1 DEF Alone
    <3>2. CASE v # w
      <4>1. pc[v] \in Watching /\ mine'[v] = mine[v] /\ Building(v)
        BY <1>0, <2>1, <2>4, <3>2 DEF OthersStay
      <4>2. ~Building(w)
        BY <2>1, <2>4, <3>2, <4>1 DEF Alone
      <4>3. UNCHANGED pod
        BY <1>1, <4>2 DEF InPlace, Building, BuildOnly, Slotted, BuildStep, BuildAborted, Supersede,
           AcquireSlot, CheckQueued, Promote, CreatePod, CreatePodFails, Poll, LookAtPod, Record, Settle,
           TimeOut, cluster
      <4>4. QED
        BY <2>1, <2>4, <4>1, <4>3 DEF Alone
    <3>3. QED
      BY <3>1, <3>2
  <2>5. Alone'
    BY <2>1, <2>4 DEF Alone, OthersStay, Building
  <2>6. ASSUME "overlap" \notin history', NEW v \in Worker, outcome'[v] = "succeeded"
        PROVE  mine'[v] \in pushed'
    <3>1. CASE v = w
      <4>1. /\ mine'[w] = mine[w]
            /\ outcome[w] = "succeeded" \/ (pc[w] \in Watching /\ pod.state = "succeeded")
        BY <1>1, <2>6, <3>1, FoundSuccess
      <4>2. pc[w] \in Watching /\ pod.state = "succeeded" => pod.owner = mine[w] /\ pod.owner \in pushed
        BY <1>d, <2>1, <2>6 DEF Alone, PodIsTrue
      <4>3. QED
        BY <2>1, <2>6, <3>1, <4>1, <4>2 DEF VerdictIsTrue
    <3>2. CASE v # w
      BY <2>1, <2>6, <3>2 DEF OthersStay, VerdictIsTrue
    <3>3. QED
      BY <3>1, <3>2
  <2>7. QED
    BY <2>3, <2>5, <2>6 DEF VerdictIsTrue
<1>2. ASSUME NEW w \in Worker, StartBuild(w)
      PROVE  Alone' /\ PodIsTrue' /\ VerdictIsTrue'
  <2>1. Alone'
    BY <1>2, BuildBegins DEF Alone, OthersStay, Building, Watching
  <2>2. PodIsTrue'
    BY <1>2, BuildBegins DEF PodIsTrue
  <2>3. VerdictIsTrue'
    BY <1>2, BuildBegins DEF VerdictIsTrue, OthersStay
  <2>4. QED
    BY <2>1, <2>2, <2>3
<1>3. ASSUME NEW w \in Worker, DeployStep(w) \/ Crash(w)
      PROVE  Alone' /\ PodIsTrue' /\ VerdictIsTrue'
  <2>1. Alone'
    BY <1>3, DeployGoesOn DEF Alone, OthersStay, Building
  <2>2. PodIsTrue'
    BY <1>3, DeployGoesOn DEF PodIsTrue
  <2>3. VerdictIsTrue'
    BY <1>3, DeployGoesOn DEF VerdictIsTrue, OthersStay
  <2>4. QED
    BY <2>1, <2>2, <2>3
<1>4. CASE Elsewhere \/ Unlock \/ UNCHANGED vars
  <2>1. Alone'
    BY <1>4, PodElsewhere DEF Alone, Building, loop
  <2>2. PodIsTrue'
    BY <1>4, PodElsewhere DEF PodIsTrue
  <2>3. VerdictIsTrue'
    BY <1>4, PodElsewhere DEF VerdictIsTrue, loop
  <2>4. QED
    BY <2>1, <2>2, <2>3
<1>5. QED
  BY <1>1, <1>2, <1>3, <1>4 DEF Next, Elsewhere

\* A build found to have succeeded has pushed its image, in spite of leftover, cancelled and
\* killed pods of the same name, as long as no two builds of the instance ran at one time.
THEOREM VerdictIsTrueAlways == Spec => []VerdictIsTrue
<1>1. Init => Alone /\ PodIsTrue /\ VerdictIsTrue
  BY DEF Init, Alone, PodIsTrue, VerdictIsTrue, Building, NoJob, NoPod, Watching
<1>2. QED
  BY <1>1, TruthNext, ApartInvariant, PTL DEF Spec
=============================================================================
