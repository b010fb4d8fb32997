------------------------------ MODULE ImageGC ------------------------------
(***************************************************************************)
(* The images of an application in the registry, from the build that       *)
(* pushes one to the pass of the garbage collector that removes it         *)
(* (utils/gc.rs), beside what uses them: builds and deploys                *)
(* (utils/builder.rs), rollbacks and the deletion of instances             *)
(* (controllers/app_controller.rs).                                        *)
(*                                                                         *)
(* The tag of an image is the id of its build.  An image can be pulled     *)
(* while the registry has its manifest and its blobs.  A job in the        *)
(* cluster, which outlives the process that created it, deletes the blobs  *)
(* that no manifest had when it looked.                                    *)
(***************************************************************************)
EXTENDS Targets

CONSTANTS
    NumBuilds,  \* bound: builds, numbered by created_at
    Keep        \* HERMES_BUILD_RETENTION

ASSUME ImageBoundsOK ==
    App # {} /\ NumBuilds \in Nat \ {0} /\ Keep \in Nat \ {0}

VARIABLES
    builds,     \* builds[b]: app_builds.status of build b
    work,       \* work[b]: where the worker of build b is; work[0]: a rollback
    current,    \* current[i]: app_instances.current_image_tag
    running,    \* running[i]: the image that the instance's pods run
    manifests,  \* images whose manifest the registry has
    blobs,      \* images whose blobs the registry has
    gc,         \* where the pass of the collector is, and what it has read
    job,        \* the job that deletes blobs
    swept,      \* ghost: instances deleted from the cluster
    strays,     \* ghost: instances whose workload a named mishap has kept
    spared      \* ghost: images that a named mishap may have taken

imageVars == <<builds, work, current, running, manifests, blobs, gc, job,
               swept, strays, spared>>

Build == 1..NumBuilds
NoBuild == 0
Worker == 0..NumBuilds

NoWork == [at |-> "idle", inst |-> CHOOSE i \in App : TRUE, img |-> NoBuild]
NoPass == [at |-> "idle", todo |-> {}, unlinked |-> FALSE, known |-> {}]
NoJob == [at |-> "none", marked |-> {}]

Settled == {"succeeded", "failed"}
HasRow(b) == builds[b] \in Settled \cup {"active"}
Active == {b \in Build : builds[b] = "active"}
Owned(S) == {b \in Build : HasRow(b) /\ work[b].inst \in S}
Pointed == {current[i] : i \in Instances}
InUse(b) == b \in Pointed \cup {running[i] : i \in Instances}

\* One instance runs its first build
ImageInit ==
    /\ builds = [b \in Build |-> IF b = 1 THEN "succeeded" ELSE "none"]
    /\ \E i \in App :
        /\ work = [w \in Worker |-> IF w = 1
                    THEN [at |-> "done", inst |-> i, img |-> 1] ELSE NoWork]
        /\ current = [k \in App |-> IF k = i THEN 1 ELSE NoBuild]
        /\ running = current
    /\ manifests = {1} /\ blobs = {1}
    /\ gc = NoPass /\ job = NoJob
    /\ swept = {} /\ strays = {} /\ spared = {}

-----------------------------------------------------------------------------
(***************************************************************************)
(* Builds, deploys and rollbacks                                           *)
(***************************************************************************)

Step(w, l) == work' = [work EXCEPT ![w].at = l]
Finish(w) == Step(w, IF w = 0 THEN "idle" ELSE "done")
Spare(S) == spared' = spared \cup S

\* The row is there, as queued, before anything is pushed, unless its INSERT fails
StartBuild(i) ==
    /\ i \in live
    /\ \E b \in Build :
        /\ builds[b] = "none" /\ \A c \in 1..(b - 1) : builds[c] # "none"
        /\ \/ Ask /\ builds' = [builds EXCEPT ![b] = "active"]
           \/ AskAmiss /\ builds' = [builds EXCEPT ![b] = "gone"]
        /\ work' = [work EXCEPT ![b] = [at |-> "build", inst |-> i, img |-> b]]
    /\ UNCHANGED <<live, doomed, current, running, manifests, blobs, gc, job,
                   swept, strays, spared>>

PushBlobs(b) ==
    /\ work[b].at = "build"
    /\ blobs' = blobs \cup {b}
    /\ Step(b, "push")
    /\ UNCHANGED <<live, doomed, events, builds, current, running, manifests, gc, job,
                   swept, strays, spared>>

PushManifest(b) ==
    /\ work[b].at = "push"
    /\ manifests' = manifests \cup {b}
    /\ Step(b, "verdict")
    /\ UNCHANGED <<live, doomed, events, builds, current, running, blobs, gc, job,
                   swept, strays, spared>>

\* The row takes the verdict if it is still there, and if its UPDATE does not fail
Judged(b, st) == builds' = IF HasRow(b) THEN [builds EXCEPT ![b] = st] ELSE builds

\* At any time: cancelled, timed out, refused by the registry, or its pod has died
FailBuild(b) ==
    /\ work[b].at \in {"build", "push", "verdict"}
    /\ Mishap
    /\ Judged(b, "failed") \/ UNCHANGED builds
    /\ Step(b, "done")
    /\ UNCHANGED <<live, doomed, current, running, manifests, blobs, gc, job,
                   swept, strays, spared>>

Verdict(b) ==
    /\ work[b].at = "verdict"
    /\ \/ Judged(b, "succeeded") /\ UNCHANGED events
       \/ Mishap /\ UNCHANGED builds
    /\ Step(b, "point")
    /\ UNCHANGED <<live, doomed, current, running, manifests, blobs, gc, job,
                   swept, strays, spared>>

\* rollback_build reads the row of a build whose instance is not being built; a build
\* that waits for its slot does not count
AskRollback(b) ==
    /\ work[0].at = "idle"
    /\ Ask
    /\ builds[b] = "succeeded"
    /\ \A c \in Active : work[c].inst = work[b].inst => work[c].at = "build"
    /\ work' = [work EXCEPT ![0] = [at |-> "point", inst |-> work[b].inst, img |-> b]]
    /\ UNCHANGED <<live, doomed, builds, current, running, manifests, blobs, gc, job,
                   swept, strays, spared>>

\* The collector has read that nothing uses the image, or has removed it since
Condemned(b) == b \in gc.todo \/ ~HasRow(b) \/ b \notin manifests
SpareIfCondemned(b) == Spare(IF Condemned(b) THEN {b} ELSE {})

\* The image becomes the instance's, by a build, which goes on to its deploy even if
\* the UPDATE fails, or by a rollback, which then ends
PointInstance(w) ==
    /\ work[w].at = "point"
    /\ \/ /\ current' = [current EXCEPT ![work[w].inst] = work[w].img]
          /\ Step(w, "deploy")
          /\ UNCHANGED events
       \/ /\ Mishap
          /\ IF w = 0 THEN Finish(w) ELSE Step(w, "deploy")
          /\ UNCHANGED current
    /\ SpareIfCondemned(work[w].img)
    /\ UNCHANGED <<live, doomed, builds, running, manifests, blobs, gc, job,
                   swept, strays>>

\* deploy_compiled_app reads the instance's row, and gives up if there is none or the
\* query fails; a rollback's job may not even be enqueued
ReadInstance(w) ==
    /\ work[w].at = "deploy"
    /\ \/ work[w].inst \in live /\ Step(w, "apply") /\ UNCHANGED events
       \/ work[w].inst \notin live /\ Finish(w) /\ UNCHANGED events
       \/ Mishap /\ Finish(w)
    /\ UNCHANGED <<live, doomed, builds, current, running, manifests, blobs,
                   gc, job, swept, strays, spared>>

\* The Deployment is applied whatever has become of the instance since.  If that fails,
\* or its pods do not become ready, those of the previous image go on, if any.
ApplyDeployment(w) ==
    /\ work[w].at = "apply"
    /\ LET i == work[w].inst
       IN  /\ \/ running' = [running EXCEPT ![i] = work[w].img] /\ UNCHANGED events
              \/ Mishap /\ UNCHANGED running
           /\ strays' = IF i \in swept THEN strays \cup {i} ELSE strays
           /\ SpareIfCondemned(work[w].img)
    /\ Finish(w)
    /\ UNCHANGED <<live, doomed, builds, current, manifests, blobs, gc, job, swept>>

\* The spawned deletion from the cluster; its errors are dropped
SweepInstance(i) ==
    /\ i \in doomed
    /\ doomed' = doomed \ {i}
    /\ swept' = swept \cup {i}
    /\ \/ running' = [running EXCEPT ![i] = NoBuild] /\ UNCHANGED <<events, strays>>
       \/ Mishap /\ strays' = strays \cup {i} /\ UNCHANGED running
    /\ UNCHANGED <<live, builds, work, current, manifests, blobs, gc, job, spared>>

\* The rows of the builds of deleted instances go with theirs
Cascade(S) ==
    /\ builds' = [b \in Build |-> IF b \in Owned(S) THEN "gone" ELSE builds[b]]
    /\ UNCHANGED <<work, current, running, manifests, blobs, gc, job, swept, strays,
                   spared>>

-----------------------------------------------------------------------------
(***************************************************************************)
(* run_gc                                                                  *)
(***************************************************************************)

Unlink(b) == /\ manifests' = manifests \ {b}
             /\ gc' = [gc EXCEPT !.unlinked = @ \/ b \in manifests, !.todo = gc.todo \ {b}]

\* prune_old_builds.  The rank is among the application's builds, and "current" is
\* what an instance points at, not what its pods run.
Rank(b) == Cardinality({c \in Build : builds[c] \in Settled /\ c >= b})

\* Mutant: the images that instances point at are pruned like the others
Outdated_Rank == {b \in Build : builds[b] \in Settled /\ Rank(b) > Keep}

Outdated == {b \in Build : builds[b] \in Settled /\ Rank(b) > Keep /\ b \notin Pointed}

\* A query that fails finds none
SelectOutdated ==
    /\ gc.at = "idle"
    /\ \E found \in {Outdated, {}} :
        /\ IF found = Outdated THEN UNCHANGED events ELSE Mishap
        /\ gc' = [NoPass EXCEPT !.at = "outdated", !.todo = found]
        /\ Spare({b \in found : InUse(b) /\ b \notin Pointed})
    /\ UNCHANGED <<live, doomed, builds, work, current, running, manifests,
                   blobs, job, swept, strays>>

\* The manifest, then the row
PruneImage(b) ==
    /\ gc.at = "outdated" /\ b \in gc.todo
    /\ \/ /\ manifests' = manifests \ {b}
          /\ gc' = [gc EXCEPT !.at = "row", !.known = {b},
                              !.unlinked = @ \/ b \in manifests]
          /\ UNCHANGED events
       \/ /\ Mishap      \* the registry does not answer, or its answer is lost
          /\ gc' = [gc EXCEPT !.at = "row", !.known = {b}]
          /\ manifests' \in {manifests, manifests \ {b}}
    /\ UNCHANGED <<live, doomed, builds, work, current, running, blobs, job, swept,
                   strays, spared>>

\* A DELETE that fails counts as one that found no row: rollback_build goes on offering
\* a build whose manifest is gone
PruneRow ==
    /\ gc.at = "row"
    /\ \/ /\ builds' = [b \in Build |-> IF b \in gc.known THEN "gone" ELSE builds[b]]
          /\ UNCHANGED <<events, spared>>
       \/ /\ Mishap
          /\ Spare(gc.known \ manifests)
          /\ UNCHANGED builds
    /\ gc' = [gc EXCEPT !.at = "outdated", !.todo = @ \ gc.known, !.known = {}]
    /\ UNCHANGED <<live, doomed, work, current, running, manifests, blobs, job, swept,
                   strays>>

\* prune_orphaned_app_images: the tags (none, if the registry does not answer), then
\* the rows of the builds, then those of the instances
ListTags ==
    /\ gc.at = "outdated" /\ gc.todo = {}
    /\ \/ gc' = [gc EXCEPT !.at = "builds", !.todo = manifests] /\ UNCHANGED events
       \/ Mishap /\ gc' = [gc EXCEPT !.at = "orphans"]
    /\ UNCHANGED <<live, doomed, builds, work, current, running, manifests,
                   blobs, job, swept, strays, spared>>

\* Mutant: only images that never had a build are taken for orphans
Unreferenced_Unknown(S) == {b \in S : builds[b] = "none"}

Unreferenced(S) == {b \in S : ~HasRow(b)}

KeepBuilt ==
    /\ gc.at = "builds"
    /\ \/ /\ gc' = [gc EXCEPT !.at = "instances", !.todo = Unreferenced(@)]
          /\ UNCHANGED events
       \/ /\ Mishap      \* the query fails, and the phase is left out
          /\ gc' = [gc EXCEPT !.at = "orphans", !.todo = {}]
    /\ UNCHANGED <<live, doomed, builds, work, current, running, manifests, blobs, job,
                   swept, strays, spared>>

KeepCurrent ==
    /\ gc.at = "instances"
    /\ \/ /\ gc' = [gc EXCEPT !.at = "orphans", !.todo = gc.todo \ Pointed]
          /\ UNCHANGED events
       \/ /\ Mishap     \* the query fails, and the images count as nobody's
          /\ gc' = [gc EXCEPT !.at = "orphans"]
    /\ UNCHANGED <<live, doomed, builds, work, current, running, manifests,
                   blobs, job, swept, strays, spared>>

UnlinkOrphan(b) ==
    /\ gc.at = "orphans" /\ b \in gc.todo
    /\ \/ Unlink(b) /\ UNCHANGED events
       \/ /\ Mishap
          /\ gc' = [gc EXCEPT !.todo = @ \ {b}]
          /\ manifests' \in {manifests, manifests \ {b}}
    /\ UNCHANGED <<live, doomed, builds, work, current, running, blobs, job, swept,
                   strays, spared>>

\* prune_build_cache, which may unlink manifests of the cache; then registry_blob_gc,
\* which does nothing when nothing was unlinked or while a build is active (a query
\* that fails counts as no build), and run_registry_gc_job, which replaces what job is
\* left and waits for the new one.  A call that fails there leaves the job as it is.
StartJob ==
    /\ gc' = [gc EXCEPT !.at = "await"]
    /\ job' = [at |-> "mark", marked |-> {}]

CollectBlobs ==
    /\ gc.at = "orphans" /\ gc.todo = {}
    /\ \/ /\ ~gc.unlinked \/ Active # {}
          /\ gc' = NoPass
          /\ UNCHANGED <<events, job>>
       \/ Active = {} /\ StartJob /\ UNCHANGED events
       \/ Active # {} /\ Mishap /\ StartJob
       \/ Active = {} /\ Mishap /\ gc' = NoPass /\ UNCHANGED job
    /\ UNCHANGED <<live, doomed, builds, work, current, running, manifests, blobs,
                   swept, strays, spared>>

MarkBlobs ==
    /\ job.at = "mark"
    /\ job' = [at |-> "sweep", marked |-> manifests]
    /\ UNCHANGED <<live, doomed, events, builds, work, current, running, manifests,
                   blobs, gc, swept, strays, spared>>

\* A build that has come since the check, or that it has not seen, loses what it had
\* pushed
SweepBlobs ==
    /\ job.at = "sweep"
    /\ blobs' = blobs \cap job.marked
    /\ Spare({b \in blobs \ job.marked : HasRow(b)})
    /\ job' = [at |-> "finished", marked |-> {}]
    /\ UNCHANGED <<live, doomed, events, builds, work, current, running, manifests, gc,
                   swept, strays>>

\* The job is deleted when it has finished, after ten minutes, or when a look at it
\* fails; a job whose deletion fails goes on
EndPass ==
    /\ gc.at = "await"
    /\ \/ job.at = "finished" /\ job' = NoJob /\ UNCHANGED events
       \/ Mishap /\ job' \in {NoJob, job}
    /\ gc' = NoPass
    /\ UNCHANGED <<live, doomed, builds, work, current, running, manifests, blobs,
                   swept, strays, spared>>

-----------------------------------------------------------------------------
\* The part of a crash that concerns images: builds that were running are failed at
\* the next start, and what the collector had in hand is dropped
ImagesCrash ==
    /\ builds' = [b \in Build |-> IF builds[b] = "active" THEN "failed" ELSE builds[b]]
    /\ work' = [w \in Worker |-> IF w = 0 THEN NoWork
                    ELSE IF builds[w] = "none" THEN work[w] ELSE [work[w] EXCEPT !.at = "done"]]
    /\ gc' = NoPass
    /\ strays' = strays \cup doomed
    /\ Spare(IF gc.at = "row" THEN gc.known \ manifests ELSE {})
    /\ UNCHANGED <<current, running, manifests, blobs, job, swept>>

Collecting ==
    \/ SelectOutdated \/ PruneRow \/ ListTags \/ KeepBuilt \/ KeepCurrent
    \/ CollectBlobs \/ MarkBlobs \/ SweepBlobs \/ EndPass
    \/ \E b \in Build : PruneImage(b) \/ UnlinkOrphan(b)

ImageNext ==
    \/ \E i \in App : StartBuild(i) \/ SweepInstance(i)
    \/ \E b \in Build :
        PushBlobs(b) \/ PushManifest(b) \/ FailBuild(b) \/ Verdict(b) \/ AskRollback(b)
    \/ \E w \in Worker : PointInstance(w) \/ ReadInstance(w) \/ ApplyDeployment(w)
    \/ Collecting

Errand == {"idle", "build", "push", "verdict", "point", "deploy", "apply", "done"}
Work == [at : Errand, inst : App, img : Build \cup {NoBuild}]
Phase == {"idle", "outdated", "row", "builds", "instances", "orphans", "await"}
Collector == [at : Phase, todo : SUBSET Build, unlinked : BOOLEAN, known : SUBSET Build]

ImageTyped ==
    /\ builds \in [Build -> Settled \cup {"none", "active", "gone"}]
    /\ work \in [Worker -> Work] /\ gc \in Collector
    /\ current \in [App -> Build \cup {NoBuild}] /\ running \in [App -> Build \cup {NoBuild}]
    /\ manifests \subseteq Build /\ blobs \subseteq Build /\ spared \subseteq Build \cup {NoBuild}
    /\ job \in [at : {"none", "mark", "sweep", "finished"}, marked : SUBSET Build]
    /\ swept \subseteq App /\ strays \subseteq App

Pullable(b) == b \in manifests \cap blobs

\* But for the images that one of the named mishaps may have taken, an image that an
\* instance points at or runs can be pulled, and so can the image of every build that
\* rollback_build offers, except while the collector is about to delete its row: no
\* pass of the collector (prune_old_builds, prune_orphaned_app_images and the job that
\* deletes blobs), in any order with builds, rollbacks and deletions, takes it.
ImagesKept == \A b \in Build \ spared :
    InUse(b) \/ (builds[b] = "succeeded" /\ ~(gc.at = "row" /\ b \in gc.known))
        => Pullable(b)

\* An instance whose row is gone has nothing left in the cluster once the deletions
\* that were spawned are over, unless a deletion there failed, or a deploy that had
\* read the row applied the Deployment after the deletion.
WorkloadsEnd == doomed = {} =>
    \A i \in App \ (live \cup strays) : running[i] = NoBuild

\* The manifest of an image that no build has a row for is removed, sooner or later,
\* unless an instance uses it (prune_orphaned_app_images).
OrphansGo == \A b \in Build :
    (b \in manifests /\ builds[b] = "gone") ~> (b \notin manifests \/ InUse(b))
=============================================================================
