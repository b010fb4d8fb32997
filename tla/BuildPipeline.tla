---------------------------- MODULE BuildPipeline ----------------------------
(***************************************************************************)
(* Building and deploying ONE application instance (utils/builder.rs, the  *)
(* build slots of utils/locks.rs, and the requests of                      *)
(* controllers/app_controller.rs that start, cancel and undo builds).      *)
(*                                                                         *)
(* Worker loops run the handlers run_ephemeral_build and                   *)
(* deploy_compiled_app side by side.  They share the rows of app_builds,   *)
(* the instance's row, the builder pod, whose name is the instance's, and  *)
(* the Deployment.  One action is one statement or call between two awaits *)
(* of a handler.  The queue that feeds the loops is modelled in JobQueue:  *)
(* here a job is handed to one loop and comes back when the loop dies.     *)
(*                                                                         *)
(* Nearly every statement and call of a handler is `let _`: its error is   *)
(* dropped and the handler goes on as if it had worked.  That is an outcome *)
(* of each step below: see Update, UpdateInstance and DeletedPod.          *)
(*                                                                         *)
(* Of the column phase only what is read back matters: whether it is       *)
(* 'cancelled' or 'superseded'.  Builds are numbered by their created_at.  *)
(***************************************************************************)
EXTENDS Integers, FiniteSets, Sequences

CONSTANTS
    Worker,       \* worker loops, each in a process of its own
    NumBuilds,    \* bound: rows of app_builds; enough for every job to run
    Caps,         \* values of HERMES_MAX_CONCURRENT_BUILDS to consider
    MaxEvents     \* bound: requests, process crashes, builds that cannot start and
                  \* steps of a handler in which an error is dropped

Build == 1..NumBuilds
None == 0
LegacyTag == NumBuilds + 1  \* the tag made of the instance's id, never pushed
Tag == None..LegacyTag

ASSUME BuildConstantsOK ==
    /\ IsFiniteSet(Worker)
    /\ Caps \subseteq Nat \ {0}
    /\ MaxEvents \in Nat \ {0}
    /\ NumBuilds = 1 + MaxEvents

VARIABLES
    status,      \* status[b]: app_builds.status, "absent" before the INSERT,
                 \* "missing" if the INSERT failed
    stop,        \* builds whose phase is 'cancelled' or 'superseded'
    istatus,     \* app_instances.status
    image,       \* app_instances.current_image_tag
    deployed,    \* the image of the Deployment, None if there is none
    pod,         \* the builder pod: whose build it runs, and its state
    secrets,     \* builds whose registry, SSH and token secrets all exist
    pushed,      \* images in the registry
    cap,         \* max_concurrent_builds, the same in every process
    locked,      \* build slots whose advisory lock is held
    unlocking,   \* slots dropped by a handler whose unlock is still spawned
    todo,        \* jobs to run, oldest first
    job,         \* job[w]: the job the loop runs
    pc,          \* pc[w]: where its handler is
    mine,        \* mine[w]: the build it runs, or the image it deploys
    outcome,     \* outcome[w]: what it found its build's pod to be
    boot,        \* boot[w]: how far the process is in main
    sweep,       \* the periodic reconciler has read the instance as stuck
    request,     \* a user's request that has read and not yet written
    kills,       \* pod deletions spawned by cancel_build
    events,      \* requests, crashes, failed starts and dropped errors so far
    lost,        \* builds whose row a dropped statement left in flight
    history      \* "overlap": two builds of the instance ran at one time;
                 \* "abort": a build job was given up before its INSERT;
                 \* "unsettled": the write of the instance's status, or the
                 \* enqueue of the job that ends in one, was dropped

rows == <<status, stop>>
instance == <<istatus, image>>
cluster == <<deployed, pod, secrets, pushed>>
slots == <<cap, locked, unlocking>>
loop == <<job, pc, mine, outcome>>
users == <<request, kills>>
past == <<events, lost, history>>
vars == <<rows, instance, cluster, slots, todo, loop, boot, sweep, users,
          past>>

InFlight == {"queued", "building"}
Verdict == {"succeeded", "failed", "timed_out"}
RowStatus == InFlight \cup Verdict \cup {"absent", "missing", "cancelled", "superseded"}
NoPod == [owner |-> None, state |-> "none", doomed |-> FALSE]
NewPod(b) == [owner |-> b, state |-> "running", doomed |-> FALSE]
NoJob == [kind |-> "none", tag |-> None]
BuildJob == [kind |-> "build", tag |-> None]
DeployJob(t) == [kind |-> "deploy", tag |-> t]
NoRequest == [op |-> "none", arg |-> None]

\* Where a handler holds a build slot: from the lock to its return, the deploy
\* and its health gate included
Slotted == {"check", "promote", "create", "polling", "looking", "ended",
            "settle", "deploy", "monitor"}
Holding(w) == job[w].kind = "build" /\ pc[w] \in Slotted

\* Where a build has a pod of its own to wait for
Watching == {"polling", "looking"}

\* Where it needs its secrets
Mounting == {"create"} \cup Watching

Begun == {b \in Build : status[b] # "absent"}
Count == Cardinality(Begun)
Rows == {b \in Begun : status[b] # "missing"}
Latest == CHOOSE b \in {None} \cup Rows : \A c \in Rows : c <= b
Busy == \E b \in Build : status[b] = "building"
Live(w) == boot[w] # "down"

\* The instance has just been created and its first build enqueued, or a first
\* build has been made and is running.
Init ==
    /\ \/ /\ status = [b \in Build |-> "absent"]
          /\ istatus = "building" /\ image = None /\ deployed = None
          /\ pushed = {} /\ todo = <<BuildJob>> /\ events = 1
       \/ /\ status = [b \in Build |-> IF b = 1 THEN "succeeded" ELSE "absent"]
          /\ istatus = "running" /\ image = 1 /\ deployed = 1
          /\ pushed = {1} /\ todo = <<>> /\ events = 0
    /\ stop = {} /\ pod = NoPod /\ secrets = {}
    /\ cap \in Caps /\ locked = 0 /\ unlocking = 0
    /\ job = [w \in Worker |-> NoJob]
    /\ pc = [w \in Worker |-> "idle"]
    /\ mine = [w \in Worker |-> None]
    /\ outcome = [w \in Worker |-> "none"]
    /\ boot = [w \in Worker |-> "done"]
    /\ sweep = FALSE
    /\ request = NoRequest /\ kills = 0 /\ lost = {} /\ history = {}

-----------------------------------------------------------------------------
(***************************************************************************)
(* run_ephemeral_build.                                                    *)
(***************************************************************************)

Goto(w, l) == pc' = [pc EXCEPT ![w] = l]

\* A step in which something fails, and nobody is told, is an event
Counted(ok) ==
    /\ events' = IF ok THEN events ELSE events + 1
    /\ events' <= MaxEvents

\* An UPDATE of b's status and phase: it takes effect, or fails, or finds no row
Update(b, s) ==
    \/ /\ b \in Rows
       /\ status' = [status EXCEPT ![b] = s]
       /\ stop' = stop \ {b}
    \/ UNCHANGED rows
Updated(b, s) == b \in Rows => status'[b] = s

\* Those of the rows bs that are still in flight after a statement to end them
LeftInFlight(bs) == {b \in bs : status'[b] \in InFlight}

\* update_status: its UPDATE of the instance takes effect, or fails
UpdateInstance(s) ==
    /\ istatus' \in {istatus, s}
    /\ history' = IF istatus' = "building" THEN history \cup {"unsettled"} ELSE history

\* The handler returns: the slot's guard is dropped, which spawns the unlock,
\* and the job is completed
Return(w) ==
    /\ Goto(w, "idle")
    /\ job' = [job EXCEPT ![w] = NoJob]
    /\ mine' = [mine EXCEPT ![w] = None]
    /\ outcome' = [outcome EXCEPT ![w] = "none"]
    /\ unlocking' = IF Holding(w) THEN unlocking + 1 ELSE unlocking
    /\ UNCHANGED <<cap, locked>>

Claim(w, kind) ==
    /\ Live(w)
    /\ pc[w] = "idle"
    /\ todo # <<>>
    /\ Head(todo).kind = kind
    /\ todo' = Tail(todo)

\* No Kubernetes client or no metadata: the instance fails, no row is written
BuildAborted(w) ==
    /\ Claim(w, "build")
    /\ events < MaxEvents
    /\ events' = events + 1
    /\ istatus' \in {istatus, "failed"}
    /\ history' = history \cup {"abort"}
                  \cup IF istatus' = "building" THEN {"unsettled"} ELSE {}
    /\ UNCHANGED <<lost, rows, image, cluster, slots, loop, boot, sweep, users>>

\* The INSERT, as 'queued'; the build goes on without a row if it fails
StartBuild(w) ==
    /\ Claim(w, "build")
    /\ Count < NumBuilds
    /\ \E s \in {"queued", "missing"} :
          /\ status' = [status EXCEPT ![Count + 1] = s]
          /\ Counted(s = "queued")
    /\ job' = [job EXCEPT ![w] = BuildJob]
    /\ mine' = [mine EXCEPT ![w] = Count + 1]
    /\ Goto(w, "inserted")
    /\ history' = IF \E u \in Worker \ {w} : job[u] = BuildJob
                   THEN history \cup {"overlap"} ELSE history
    /\ UNCHANGED <<stop, instance, cluster, slots, outcome, boot, sweep,
                   users, lost>>

Others(b) == {c \in Build \ {b} : status[c] \in InFlight}

\* After the commit was fetched from GitHub: every other row in flight, the
\* older and the newer, is superseded
Supersede(w) ==
    /\ pc[w] = "inserted"
    /\ \/ /\ status' = [b \in Build |-> IF b \in Others(mine[w]) THEN "superseded"
                                       ELSE status[b]]
          /\ stop' = stop \cup Others(mine[w])
       \/ UNCHANGED rows
    /\ lost' = lost \cup LeftInFlight(Others(mine[w]))
    /\ Counted(LeftInFlight(Others(mine[w])) = {})
    /\ Goto(w, "waiting")
    /\ UNCHANGED <<instance, cluster, slots, todo, job, mine, outcome, boot,
                   sweep, users, history>>

\* mutant of SlotFree: a lock query that failed counts as a lock taken
SlotFree_OnError == TRUE

SlotFree == locked < cap

\* acquire_build_slot
AcquireSlot(w) ==
    /\ pc[w] = "waiting"
    /\ SlotFree
    /\ locked' = locked + 1
    /\ Goto(w, "check")
    /\ UNCHANGED <<rows, instance, cluster, cap, unlocking, todo, job, mine,
                   outcome, boot, sweep, users, past>>

\* The spawned unlock of a dropped slot
Unlock ==
    /\ unlocking > 0
    /\ unlocking' = unlocking - 1
    /\ locked' = locked - 1
    /\ UNCHANGED <<rows, instance, cluster, cap, todo, loop, boot, sweep, users,
                   past>>

\* The phase is read once more before the build starts; a phase that could not be
\* read is not one to stop at
CheckQueued(w) ==
    /\ pc[w] = "check"
    /\ \/ mine[w] \in stop /\ Return(w)
       \/ Goto(w, "promote") /\ UNCHANGED <<job, mine, outcome, slots>>
    /\ UNCHANGED <<rows, instance, cluster, todo, boot, sweep, users, past>>

\* What deleting the pod by name does: a finished one goes, a running one gets
\* a grace period, in which it may still end by itself
DeletedPod == IF pod.state = "running" THEN [pod EXCEPT !.doomed = TRUE] ELSE NoPod

\* pods.delete, which may fail
DeletePod == pod' \in {pod, DeletedPod}

\* UPDATE status = 'building', phase = 'starting', whatever they are by now.
\* Then, in the same step, the secrets are created, or one of them is not and the
\* handler goes on, and whatever pod has the instance's name is deleted
Promote(w) ==
    /\ pc[w] = "promote"
    /\ Update(mine[w], "building")
    /\ secrets' \in {secrets, secrets \cup {mine[w]}}
    /\ DeletePod
    /\ Counted(/\ Updated(mine[w], "building") /\ mine[w] \in secrets'
               /\ pod' = DeletedPod)
    /\ Goto(w, "create")
    /\ UNCHANGED <<instance, deployed, pushed, slots, todo, job, mine, outcome,
                   boot, sweep, users, lost, history>>

\* mutant of PodCreated: AlreadyExists is taken for success
PodCreated_Adopt(b) == pod' = IF pod = NoPod THEN NewPod(b) ELSE pod

PodCreated(b) == pod = NoPod /\ pod' = NewPod(b)

\* pods.create, and set_build_phase "cloning"
CreatePod(w) ==
    /\ pc[w] = "create"
    /\ PodCreated(mine[w])
    /\ stop' \in {stop, stop \ {mine[w]}}
    /\ Goto(w, "polling")
    /\ UNCHANGED <<status, instance, deployed, secrets, pushed, slots, todo,
                   job, mine, outcome, boot, sweep, users, past>>

\* mutant of SecretsOf: the secrets are named after the instance
SecretsOf_PerInstance(b) == Build

\* The secrets named after build b
SecretsOf(b) == {b}

\* Each secret is deleted by name; the deletions may fail
DeleteSecrets(b) == secrets' \in {secrets, secrets \ SecretsOf(b)}

\* pods.create fails, for lack of quota or because the old pod outlived the 30 s
CreatePodFails(w) ==
    /\ pc[w] = "create"
    /\ UpdateInstance("failed")
    /\ Update(mine[w], "failed")
    /\ lost' = lost \cup LeftInFlight({mine[w]})
    /\ DeleteSecrets(mine[w])
    /\ Counted(/\ istatus' = "failed" /\ Updated(mine[w], "failed")
               /\ secrets' = secrets \ SecretsOf(mine[w]))
    /\ Return(w)
    /\ UNCHANGED <<image, deployed, pod, pushed, todo, boot, sweep, users>>

\* The poll reads the phase, which may fail; a build told to stop drops its
\* secrets and returns
Poll(w) ==
    /\ pc[w] = "polling"
    /\ \/ /\ mine[w] \in stop
          /\ DeleteSecrets(mine[w])
          /\ Counted(secrets' = secrets \ SecretsOf(mine[w]))
          /\ Return(w)
       \/ /\ Goto(w, "looking")
          /\ UNCHANGED <<secrets, job, mine, outcome, slots, events>>
    /\ UNCHANGED <<rows, instance, deployed, pod, pushed, todo, boot, sweep,
                   users, lost, history>>

Ended(w, verdict) ==
    /\ outcome' = [outcome EXCEPT ![w] = verdict]
    /\ Goto(w, "ended")

\* The poll looks at the pod of the instance's name: still running, where a
\* first look also writes the phase "building"; ended; or not to be had
LookAtPod(w) ==
    /\ pc[w] = "looking"
    /\ \/ /\ pod.state = "running"
          /\ Goto(w, "polling")
          /\ stop' \in {stop, stop \ {mine[w]}}
          /\ UNCHANGED outcome
       \/ /\ pod.state = "succeeded"
          /\ stop' \in {stop, stop \ {mine[w]}}
          /\ Ended(w, "succeeded")
       \/ /\ pod.state = "failed"
          /\ stop' \in {stop, stop \ {mine[w]}}
          /\ Ended(w, "failed")
       \/ Ended(w, "failed") /\ UNCHANGED stop
    /\ UNCHANGED <<status, instance, cluster, slots, todo, job, mine, boot,
                   sweep, users, past>>

\* Fifteen minutes since the handler started
TimeOut(w) ==
    /\ pc[w] = "polling"
    /\ Ended(w, "timed_out")
    /\ UNCHANGED <<rows, instance, cluster, slots, todo, job, mine, boot,
                   sweep, users, past>>

\* mutant of StatusStr: the terminal phase is bound where the status goes
StatusStr_Phase(w) == IF outcome[w] = "succeeded" THEN "deploying" ELSE outcome[w]

StatusStr(w) == outcome[w]

\* Whatever pod has the instance's name is deleted, and this build's secrets.
\* Then, in the same step, the verdict goes to the row, whatever it says by now,
\* or is lost
Record(w) ==
    /\ pc[w] = "ended"
    /\ DeletePod
    /\ DeleteSecrets(mine[w])
    /\ Update(mine[w], StatusStr(w))
    /\ lost' = lost \cup LeftInFlight({mine[w]})
    /\ Counted(/\ pod' = DeletedPod /\ secrets' = secrets \ SecretsOf(mine[w])
               /\ Updated(mine[w], StatusStr(w)))
    /\ Goto(w, "settle")
    /\ UNCHANGED <<instance, deployed, pushed, slots, todo, job, mine, outcome,
                   boot, sweep, users, history>>

\* mutant of GivesUp: a build that did not succeed leaves the instance as it is
GivesUp_Silent(w) == UNCHANGED <<istatus, history, events>>

GivesUp(w) == UpdateInstance("failed") /\ Counted(istatus' = "failed")

\* A build that succeeded becomes the current image and is deployed; any other
\* fails the instance
Settle(w) ==
    /\ pc[w] = "settle"
    /\ \/ /\ outcome[w] = "succeeded"
          /\ image' \in {image, mine[w]}
          /\ Counted(image' = mine[w])
          /\ stop' \in {stop, stop \ {mine[w]}}
          /\ Goto(w, "deploy")
          /\ UNCHANGED <<istatus, job, mine, outcome, slots, history>>
       \/ /\ outcome[w] # "succeeded"
          /\ GivesUp(w)
          /\ Return(w)
          /\ UNCHANGED <<image, stop>>
    /\ UNCHANGED <<status, cluster, todo, boot, sweep, users, lost>>

-----------------------------------------------------------------------------
(***************************************************************************)
(* deploy_compiled_app, at the end of a build or for a job of its own.     *)
(***************************************************************************)

\* A deploy job without a tag takes the current image, or the legacy tag if there is
\* none or it could not be read
StartDeploy(w) ==
    LET tag == Head(todo).tag
        choice == IF tag # None THEN {tag} ELSE {image, LegacyTag} \ {None} IN
    /\ Claim(w, "deploy")
    /\ job' = [job EXCEPT ![w] = Head(todo)]
    /\ \E t \in choice : mine' = [mine EXCEPT ![w] = t]
    /\ Goto(w, "deploy")
    /\ UNCHANGED <<rows, instance, cluster, slots, outcome, boot, sweep,
                   users, past>>

\* The Deployment, Service and routes are applied
Deploy(w) ==
    /\ pc[w] = "deploy"
    /\ deployed' = mine[w]
    /\ Goto(w, "monitor")
    /\ UNCHANGED <<rows, instance, pod, secrets, pushed, slots, todo, job,
                   mine, outcome, boot, sweep, users, past>>

\* Kubernetes refuses, the Deployment itself or the Service after it: the latest
\* row, whose ever it is, takes the phase "failed" (unless there was no client)
DeployFails(w) ==
    /\ pc[w] = "deploy"
    /\ deployed' \in {deployed, mine[w]}
    /\ stop' \in {stop, stop \ {Latest}}
    /\ UpdateInstance("failed")
    /\ Counted(istatus' = "failed")
    /\ Return(w)
    /\ UNCHANGED <<status, image, pod, secrets, pushed, todo, boot, sweep, users,
                   lost>>

\* The health gate: a pod of the app is ready, or 120 s have passed; or a
\* container crashes, and the latest row takes the phase "crashed"
Monitor(w) ==
    /\ pc[w] = "monitor"
    /\ \/ /\ UpdateInstance("running")
          /\ Counted(istatus' = "running")
          /\ UNCHANGED stop
       \/ /\ UpdateInstance("crashed")
          /\ Counted(istatus' = "crashed")
          /\ stop' \in {stop, stop \ {Latest}}
    /\ Return(w)
    /\ UNCHANGED <<status, image, cluster, todo, boot, sweep, users, lost>>

-----------------------------------------------------------------------------
(***************************************************************************)
(* The builder pod.                                                        *)
(***************************************************************************)

\* Kaniko ends, having pushed the image of the build it runs
PodSucceeds ==
    /\ pod.state = "running"
    /\ pod' = [pod EXCEPT !.state = "succeeded"]
    /\ pushed' = pushed \cup {pod.owner}
    /\ UNCHANGED <<rows, instance, deployed, secrets, slots, todo, loop,
                   boot, sweep, users, past>>

PodFails ==
    /\ pod.state = "running"
    /\ pod' = [pod EXCEPT !.state = "failed"]
    /\ UNCHANGED <<rows, instance, deployed, secrets, pushed, slots, todo,
                   loop, boot, sweep, users, past>>

PodGone ==
    /\ pod.doomed
    /\ pod' = NoPod
    /\ UNCHANGED <<rows, instance, deployed, secrets, pushed, slots, todo,
                   loop, boot, sweep, users, past>>

-----------------------------------------------------------------------------
(***************************************************************************)
(* Requests.  Each reads, decides, and writes later, or fails in between.  *)
(***************************************************************************)

Ask(op, b) ==
    /\ events < MaxEvents
    /\ events' = events + 1
    /\ request = NoRequest
    /\ request' = [op |-> op, arg |-> b]
    /\ UNCHANGED <<rows, instance, cluster, slots, todo, loop, boot, sweep,
                   kills, lost, history>>

\* The busy check looks for 'building' rows, not for 'queued' ones
AskRedeploy == ~Busy /\ Ask("redeploy", None)
AskRollback(b) == status[b] = "succeeded" /\ ~Busy /\ Ask("rollback", b)
AskCancel(b) == status[b] = "building" /\ Ask("cancel", b)

\* The job is enqueued after the instance was marked; the error is dropped
Enqueue(j) ==
    \/ todo' = Append(todo, j) /\ UNCHANGED history
    \/ todo' = todo /\ history' = history \cup {"unsettled"}

\* redeploy_app_instance and retry_build: mark the instance, enqueue a build
Redeploy ==
    /\ request.op = "redeploy"
    /\ istatus' = "building"
    /\ Enqueue(BuildJob)
    /\ request' = NoRequest
    /\ UNCHANGED <<rows, image, cluster, slots, loop, boot, sweep, kills,
                   events, lost>>

\* rollback_build: point the instance at the image, enqueue a deploy of it
Rollback ==
    /\ request.op = "rollback"
    /\ image' = request.arg
    /\ istatus' = "building"
    /\ Enqueue(DeployJob(request.arg))
    /\ request' = NoRequest
    /\ UNCHANGED <<rows, cluster, slots, loop, boot, sweep, kills, events, lost>>

\* cancel_build: first the row, whatever it says by now
Cancel ==
    /\ request.op = "cancel"
    /\ status' = [status EXCEPT ![request.arg] = "cancelled"]
    /\ stop' = stop \cup {request.arg}
    /\ request' = [op |-> "stop", arg |-> request.arg]
    /\ UNCHANGED <<instance, cluster, slots, todo, loop, boot, sweep, kills,
                   past>>

\* then the instance; the deletion of the pod is spawned
CancelStops ==
    /\ request.op = "stop"
    /\ istatus' = "stopped"
    /\ kills' = kills + 1
    /\ request' = NoRequest
    /\ UNCHANGED <<rows, image, cluster, slots, todo, loop, boot, sweep,
                   past>>

\* A request ends at a statement that fails, or because its client leaves: cancel_build
\* between the row and the instance
RequestFails ==
    /\ request # NoRequest
    /\ request' = NoRequest
    /\ history' = IF request.op = "stop" THEN history \cup {"unsettled"} ELSE history
    /\ UNCHANGED <<rows, instance, cluster, slots, todo, loop, boot, sweep,
                   kills, events, lost>>

\* The spawned deletion finds whatever pod has the instance's name
KillPod ==
    /\ kills > 0
    /\ kills' = kills - 1
    /\ DeletePod
    /\ UNCHANGED <<rows, instance, deployed, secrets, pushed, slots, todo,
                   loop, boot, sweep, request, past>>

\* A push to the branch builds without any check
Push ==
    /\ events < MaxEvents
    /\ events' = events + 1
    /\ istatus' \in {istatus, "building"}
    /\ Enqueue(BuildJob)
    /\ UNCHANGED <<rows, image, cluster, slots, loop, boot, sweep, request,
                   kills, lost>>

\* reload_app_instance and configure_serverless: a deploy of the current image
Reload ==
    /\ events < MaxEvents
    /\ events' = events + 1
    /\ todo' = Append(todo, DeployJob(None))
    /\ UNCHANGED <<rows, instance, cluster, slots, loop, boot, sweep,
                   request, kills, lost, history>>

-----------------------------------------------------------------------------
(***************************************************************************)
(* Crashes, and the reconcilers that settle what they leave.               *)
(***************************************************************************)

\* The process dies: its connection closes, which frees its slot, its spawned
\* deletions are lost, and its job is claimed again later
Crash(w) ==
    /\ Live(w)
    /\ events < MaxEvents
    /\ events' = events + 1
    /\ boot' = [boot EXCEPT ![w] = "down"]
    /\ todo' = IF pc[w] = "idle" THEN todo ELSE <<job[w]>> \o todo
    /\ locked' = IF Holding(w) THEN locked - 1 ELSE locked
    /\ Goto(w, "idle")
    /\ job' = [job EXCEPT ![w] = NoJob]
    /\ mine' = [mine EXCEPT ![w] = None]
    /\ outcome' = [outcome EXCEPT ![w] = "none"]
    /\ kills' \in {kills, 0}
    /\ UNCHANGED <<rows, instance, cluster, cap, unlocking, sweep, request,
                   lost, history>>

\* main starts the worker loops before it reconciles
Restart(w) ==
    /\ boot[w] = "down"
    /\ boot' = [boot EXCEPT ![w] = "fresh"]
    /\ UNCHANGED <<rows, instance, cluster, slots, todo, loop, sweep, users,
                   past>>

\* reconcile_stuck_deploys reads the instances that are 'building'; if it cannot, or
\* has no Kubernetes client, it gives up
FindStuck(w) ==
    /\ boot[w] = "fresh"
    /\ \/ boot' = [boot EXCEPT ![w] = "done"]
       \/ istatus = "building" /\ boot' = [boot EXCEPT ![w] = "found"]
    /\ UNCHANGED <<rows, instance, cluster, slots, todo, loop, sweep, users,
                   past>>

\* reconcile_one_stuck_instance: if it finds a workload the instance runs, and a
\* latest row in flight has succeeded; if there is none, or it could not be looked
\* up, both have failed.  Each of the two UPDATEs may fail
ReconcileStuck ==
    /\ \E found \in BOOLEAN :
          /\ found => deployed # None
          /\ istatus' \in {istatus, IF found THEN "running" ELSE "failed"}
          /\ \/ /\ Latest # None
                /\ status[Latest] \in InFlight
                /\ Update(Latest, IF found THEN "succeeded" ELSE "failed")
             \/ UNCHANGED rows
          /\ Counted(/\ found \/ deployed = None
                     /\ istatus' = IF found THEN "running" ELSE "failed"
                     /\ LeftInFlight({Latest} \cap Rows) = {})
    /\ UNCHANGED <<image, cluster, slots, todo, loop, users, lost, history>>

ReconcileAtBoot(w) ==
    /\ boot[w] = "found"
    /\ boot' = [boot EXCEPT ![w] = "done"]
    /\ ReconcileStuck
    /\ UNCHANGED sweep

\* The periodic reconciler of the leader reads an instance whose latest build
\* succeeded, five minutes ago and more, and that is still 'building'
FindOverdue ==
    /\ ~sweep
    /\ istatus = "building"
    /\ Latest # None
    /\ status[Latest] = "succeeded"
    /\ \A w \in Worker : job[w] = BuildJob => mine[w] # Latest
    /\ sweep' = TRUE
    /\ UNCHANGED <<rows, instance, cluster, slots, todo, loop, boot, users,
                   past>>

ReconcileOverdue ==
    /\ sweep
    /\ sweep' = FALSE
    /\ ReconcileStuck
    /\ UNCHANGED boot

\* It has no Kubernetes client, and tries again a minute later
SkipOverdue ==
    /\ sweep
    /\ sweep' = FALSE
    /\ UNCHANGED <<rows, instance, cluster, slots, todo, loop, boot, users,
                   past>>

-----------------------------------------------------------------------------
BuildStep(w) ==
    \/ BuildAborted(w) \/ StartBuild(w) \/ Supersede(w) \/ AcquireSlot(w)
    \/ CheckQueued(w) \/ Promote(w) \/ CreatePod(w) \/ CreatePodFails(w)
    \/ Poll(w) \/ LookAtPod(w) \/ Record(w) \/ Settle(w)

DeployStep(w) == StartDeploy(w) \/ Deploy(w) \/ DeployFails(w) \/ Monitor(w)

Next ==
    \/ \E w \in Worker :
          \/ BuildStep(w) \/ TimeOut(w) \/ DeployStep(w)
          \/ Crash(w) \/ Restart(w) \/ FindStuck(w) \/ ReconcileAtBoot(w)
    \/ Unlock \/ PodSucceeds \/ PodFails \/ PodGone
    \/ AskRedeploy \/ (\E b \in Build : AskRollback(b) \/ AskCancel(b))
    \/ Redeploy \/ Rollback \/ Cancel \/ CancelStops \/ RequestFails \/ KillPod
    \/ Push \/ Reload \/ FindOverdue \/ ReconcileOverdue \/ SkipOverdue

Spec == Init /\ [][Next]_vars

(***************************************************************************)
(* Fairness: tokio polls every ready task; a request that has read also    *)
(* writes, or fails; the deadline is compared at every turn of the poll loop, so     *)
(* that once it has passed the loop cannot go on; Kubernetes carries out a *)
(* deletion and restarts a dead process.  Nothing is assumed of Kaniko:    *)
(* its pod may hang.                                                       *)
(***************************************************************************)
Fairness ==
    /\ \A w \in Worker :
          /\ WF_vars(BuildStep(w) \/ DeployStep(w))
          /\ SF_vars(TimeOut(w))
          /\ WF_vars(Restart(w) \/ FindStuck(w) \/ ReconcileAtBoot(w))
    /\ WF_vars(Unlock)
    /\ WF_vars(PodGone)
    /\ WF_vars(Redeploy \/ Rollback \/ Cancel \/ CancelStops \/ RequestFails)
    /\ WF_vars(KillPod)

FairSpec == Spec /\ Fairness

-----------------------------------------------------------------------------
(***************************************************************************)
(* Properties.                                                             *)
(***************************************************************************)

\* Type correctness of rows, cluster and handlers.
TypeOK ==
    /\ status \in [Build -> RowStatus]
    /\ stop \subseteq Build
    /\ istatus \in {"building", "running", "failed", "crashed", "stopped"}
    /\ image \in None..NumBuilds
    /\ deployed \in Tag
    /\ pod \in [owner : None..NumBuilds,
                state : {"none", "running", "succeeded", "failed"},
                doomed : BOOLEAN]
    /\ secrets \subseteq Build
    /\ pushed \subseteq Build
    /\ cap \in Caps
    /\ locked \in Nat
    /\ unlocking \in Nat
    /\ todo \in Seq([kind : {"build", "deploy"}, tag : Tag])
    /\ job \in [Worker -> [kind : {"none", "build", "deploy"}, tag : Tag]]
    /\ pc \in [Worker -> Slotted \cup {"idle", "inserted", "waiting"}]
    /\ mine \in [Worker -> Tag]
    /\ outcome \in [Worker -> Verdict \cup {"none"}]
    /\ boot \in [Worker -> {"down", "fresh", "found", "done"}]
    /\ sweep \in BOOLEAN
    /\ request \in [op : {"none", "redeploy", "rollback", "cancel", "stop"},
                    arg : None..NumBuilds]
    /\ kills \in Nat
    /\ events \in 0..MaxEvents
    /\ lost \subseteq Build
    /\ history \subseteq {"overlap", "abort", "unsettled"}

\* "a cluster-wide cap on concurrent image builds across ALL replicas"
\* (locks.rs:111): the builds past acquire_build_slot never outnumber the
\* slots, and every lock belongs to one of them or is about to be released,
\* on every path out of the handler and through crashes.
SlotsConserved ==
    /\ Cardinality({w \in Worker : Holding(w)}) + unlocking = locked
    /\ locked <= cap

\* "Secret names are per-build so concurrent builds can't delete each other's
\* credentials" (builder.rs:598): from the creation of its pod until the handler
\* stops waiting for it, secrets that were made stay, whatever the other handlers
\* clean up.
SecretsKept ==
    [][\A w \in Worker :
          (pc[w] \in Mounting /\ mine[w] \in secrets /\ pc'[w] \in Mounting)
              => mine[w] \in secrets']_vars

\* A build found to have succeeded has pushed its image, in spite of leftover,
\* cancelled and killed pods of the same name, as long as no two builds of the
\* instance ever ran at one time.
VerdictIsTrue ==
    "overlap" \notin history => \A w \in Worker : outcome[w] = "succeeded" => mine[w] \in pushed

\* No row stays in flight for ever, where it would keep every redeploy and
\* rollback out, but one whose own end, or whose superseding, was an UPDATE that was
\* lost: a row whose handler has died is superseded by the build its job is retried
\* as, and a hung build is timed out.  (Unless a job is given up before its INSERT:
\* if that is the retry, nothing supersedes the row.)
RowsSettle ==
    <>[](\A b \in Build : status[b] \in InFlight => b \in lost \/ "abort" \in history)

\* Every handler returns, and with it the worker loop, whatever Kaniko does.
LoopsDrain == <>[](\A w \in Worker : pc[w] = "idle")

\* What the reconcilers and the retries are for (builder.rs:2467): no interrupted
\* build or deploy leaves the instance 'building' for ever, as long as no two of
\* its builds ran at one time and the write that was to end it, or the job that was
\* to bring that write, was not dropped.
InstanceSettles ==
    <>[](istatus = "building" => history \cap {"overlap", "unsettled"} # {})

\* Rows, handlers and the instance all come to rest.
Settles == RowsSettle /\ LoopsDrain /\ InstanceSettles
=============================================================================
