# Project Hermes: verification project

TLA+ models of the control plane of Project Hermes (`src/backend`, Rust: axum,
sqlx, tokio; the rest of the repository is an Angular frontend and deployment
files), TLC runs that check them on small instances, and TLAPS proofs of the
properties that matter most for every value of the constants.

Hermes is a self-hosted platform: it builds images with Kaniko pods, deploys
them to Kubernetes, watches them, puts them to sleep, runs their cron jobs,
databases, buckets and users. Its state is in Postgres and in the cluster; the
backend processes are many, die at any moment, and coordinate only through
rows, advisory locks and one leader lease. Almost nothing of this is in the
tests (they cover the classification of build errors, the backoff, quantities,
the rate limiter and storage keys). What can go wrong is therefore mostly what
two tasks, or a task and a crash, do to a row or a Deployment between two
`await`s; that is what the models are about.

## 1. Inventory

State is written here as *rows* (Postgres), *cluster* (Kubernetes and the
registry) and *memory* (a process). Paths are under `src/backend/src`.

| Component | State | Operations | Hard behaviour | What makes it correct |
|---|---|---|---|---|
| Job queue, `utils/job_queue.rs` | rows `jobs` (status, attempts, locked_at, run_after) | enqueue, claim (SKIP LOCKED), heartbeat, complete, fail, reclaim_stale, two worker loops per process | crash of a worker, lost answer of a claim or a settlement, missed heartbeats, two workers on one job, settlements by id alone | a claim is exclusive while heartbeats arrive; a verdict has a cause and is final; no accepted job is forgotten |
| Leader election, `utils/leader.rs` | row `leader_lease`; memory flag `IS_LEADER` | UPSERT every 10 s, read by every singleton worker | flag follows the answer and not the lease; slow queries; crash of the leader | never two flags; a flag implies the lease; always a leader again |
| Build pipeline, `utils/builder.rs`, slots of `utils/locks.rs`, requests of `controllers/app_controller.rs` | rows `app_builds`, `app_instances`; builder pod (named after the instance), per-build secrets, Deployment, registry; advisory locks | run_ephemeral_build, deploy_compiled_app, monitor_deploy_health, redeploy, push webhook, cancel, retry, rollback, reload, startup and periodic reconcilers | overlapping builds of one instance, cancel against every statement, crash anywhere, hung pods, leftover pods of the same name | slots conserved, credentials kept, verdicts true, rows and instance settle, loops drain |
| Workspace lock, quotas, rate limit rows, `utils/locks.rs`, `utils/limits.rs`, `config/db.rs` | advisory lock held by a pooled connection; rows counted against quotas | lock, check, insert, unlock by a spawned task | check-then-insert, pool of 50 connections with a 3 s acquire, failing open | no overcommit, lock always released, no starvation |
| Instance runtime, `utils/health.rs`, `utils/cron.rs`, `utils/builder.rs`, `controllers/app_controller.rs` | row of `app_instances`, incidents; replicas of the Deployment | health probe, auto-sleep, reconcile_instance, start, stop | every worker reads, awaits and writes by id; late answers; partial failure between cluster and row | a stop holds, a running instance is served, a failure is noticed, a recovery is seen |
| Chaos experiments, `utils/chaos.rs`, `controllers/chaos_controller.rs` | rows `chaos_experiments`, incidents, replicas | start, revert by the worker, cancel | fault before row, two reverts at once, crash between, against stop and start | every experiment ends, and the number of replicas is restored |
| Incidents and metric alerts, `utils/health.rs`, `controllers/incident_controller.rs` | rows `incidents` | trigger, resolve, raise and settle of HIGH_MEMORY | check-then-insert, one worker closing another's | as above; each kind has its own life cycle |
| Garbage collection, `utils/gc.rs` | registry tags and blobs, old rows, pods | prune old builds, orphaned images, blobs, job rows, failed pods | reads that are old when an image is unlinked; blobs collected beside a push; a job that outlives its process | no image in use is taken, no orphan stays |
| Cron jobs and backups, `utils/cron.rs`, `controllers/cron_controller.rs` | rows `cron_jobs` with variables and links, `cron_job_logs`, flag `backup_enabled` | tick, advance, run, create, edit, delete, the managed backup | two leaders, an edit of a stale copy, a crash between advance and run, flag and job written apart | an occurrence runs once and none is lost; rows as asked; the backup job exists while its flag is set |
| Object storage, `controllers/storage_controller.rs`, `utils/storage_engine.rs` | rows `storage_objects`, files on disk or in S3 | upload in two steps, processing, replace, delete, delete and create buckets, rotate credentials | replacement or deletion while a task converts and derives, conversion onto another object's path, crash | files and rows agree; an object downloads its own bytes |
| BaaS users and tokens, `controllers/app_user_controller.rs`, `utils/app_auth.rs`, `utils/rate_limit.rs` | rows of services, users, roles, refresh tokens, API keys; the secret is a project variable | register, login, refresh, logout, suspend, reset, keys, rotate, delete | a token shown twice, sign-in against suspension, secrets made twice or taken over | a refresh token is good once, sessions end, tokens verify, no secret without an owner |
| Serverless functions, `controllers/serverless_controller.rs` | rows, Knative services | deploy, invoke | scaling and limits are Knative's | the memory quota (WorkspaceQuota) |
| Domains and tunnels, `controllers/domain_controller.rs`, `utils/cloudflare.rs`, `utils/nginx.rs` | rows `domains`; records at Cloudflare, Ingresses | add, verify, update, remove, purge | record, row and Ingress written one after the other from copies, errors dropped, account that changes | record, row and Ingress agree and point at something |
| Managed databases, `controllers/database_controller.rs` | rows, StatefulSet, backup files, password | provision, delete, back up, restore, settings, rotate | tasks that go on after a deletion, two backups, a restore that loses its file, a rotation cut off | files for rows, data whole, status true, one password everywhere |
| Environment resolution, `utils/app_env.rs`, `controllers/env_variable_controller.rs`, `controllers/project_env_controller.rs` | rows of own, pooled and linked variables; Secret, pods | set, publish, rename, link, delete, reload | reloads that overlap, changes while stopped or deploying | the pods run with what the rows say |
| Applications, settings, deletion, `controllers/app_controller.rs` | rows, cluster | create, branch, delete | teardown spawned before the row goes, against a deploy | nothing of a deleted instance runs |
| Compose import, volumes, Kubernetes client, projects and permissions, platform auth, git providers, metrics and logs, frontend, deployment files | see PROJECT.json | | | |

How they interact. Requests and webhooks insert jobs; the queue's loops run the
build and deploy handlers, which write `app_builds`, `app_instances` and the
cluster. The singleton workers (health, alerts, auto-sleep, cron, reconcile,
chaos, GC, the periodic part of stuck-deploy reconciliation) run in the process
whose flag the lease has set, and act on the same rows and Deployments without
a lock. The startup reconciler runs in every process, after its job workers. Requests
that change variables, links or passwords spawn reloads, which write the instance's
Secret and restart its pods. Deletions of instances, databases and projects spawn the
removal of what is in the cluster, purge the domains and then drop the rows; the builds
go by cascade, and their images are left to the garbage collector.

## 2. Modules

| Module | Models | Lines of the code it stands for |
|---|---|---|
| `JobLifecycle` | abstract: what the queue promises | |
| `JobQueue`, `JobQueueProofs`, `MCJobQueue` | the queue, its loops, heartbeats, reclaimer, crashes | all of `job_queue.rs` but tests, the migration |
| `LeaderLease`, `MCLeaderLease` | the lease, electors with slow queries, passes of singleton workers | `leader.rs` |
| `BuildPipeline`, `BuildPipelineProofs`, `MCBuildPipeline` | builds and deploys of one instance, and all that can cut across them | `builder.rs` handlers and reconcilers of stuck deploys, the slots of `locks.rs`, the requests of `app_controller.rs` |
| `InstanceRuntime`, `InstanceRuntimeProofs`, `MCInstanceRuntime` | one deployed instance, its watchers and its users; the proofs are also those of `LeaderLease` and `EnvPool` | `health.rs`, `chaos.rs`, auto-sleep of `cron.rs`, `reconcile_instance` and its loop, start and stop, chaos and incident requests |
| `WorkspaceQuota`, `WorkspaceQuotaProofs`, `MCWorkspaceQuota` | the workspace lock and its pool, the memory quota, the requests that check it and what goes around it; the proofs are also those of `ManagedDatabase` | the workspace lock of `locks.rs`, `limits.rs`, `init_pool`, creation and settings of instances, databases and functions |
| `ObjectStore`, `ObjectStoreProofs`, `MCObjectStore` | one bucket: uploads, their processing tasks, deletions, with disk or S3 | the upload, deletion, download and bucket handlers of `storage_controller.rs`, `storage_engine.rs` |
| `EnvPool`, `MCEnvPool` | the variables of an instance and of its project, the Secret, the pods, and a password on its way through them | `app_env.rs`, `env_variable_controller.rs`, `project_env_controller.rs`, `rotate_database_password`, `rotate_bucket_credentials`, the Job runner of `k8s.rs` |
| `CronScheduler`, `CronSchedulerProofs`, `MCCronScheduler` | the scheduler loop of each process, runs, and the requests that change jobs | the scheduler of `cron.rs`, `cron_controller.rs`, the backup flag of `database_controller.rs` |
| `ManagedDatabase`, `MCManagedDatabase` | one database: provisioning, settings, backups, restores, deletion | `database_controller.rs` but for rotation and consoles |
| `AppSessions`, `AppSessionsProofs`, `MCAppSessions` | the services of a project, an end user of each, tokens, secrets, keys | `app_user_controller.rs`, `app_auth.rs` |
| `Targets` | instances and databases with a row, and their spawned deletions: the state the next two share | |
| `DomainRouting` | domains: row, record, Ingress | `domain_controller.rs`, `cloudflare.rs`, deletions of instances, databases, projects and branches |
| `ImageGC` | builds, deploys, rollbacks and the passes of the collector | `gc.rs`, the statements of `builder.rs` and `app_controller.rs` that make and use images |
| `AppRemoval`, `AppRemovalProofs`, `MCAppRemoval` | the composition of `DomainRouting` and `ImageGC` over `Targets` | `delete_project` |

In all of them one action is one SQL statement, one call to Kubernetes, or one
local step between two `await`s, so that every interleaving the code can have
between tasks and processes is one the model has. An operator named `X_Y` after
a definition `X`, commented as a mutant, is `X` with a plausible bug; it is used
by no specification.

Several properties begin with "unless": this code takes few locks and drops many
errors, and a property without exceptions would only be false. The exceptions are
*named mishaps*: history variables (`untidy`, `mishaps`, `excused`, `spared`, `strays`,
`disturbed`, `contested`, and `lost` and `history` of the build pipeline) that an action sets
exactly where a window of the code is hit, such as an edit written over an occurrence that
has run. The property then says that nothing else goes wrong, in any interleaving; section 5
lists what the mishaps do.

What fails is part of the models too. An error that the code drops (`let _`, `unwrap_or`,
`.ok()`) is an outcome of the action it belongs to or an action of its own, after which the
handler goes on as if nothing were wrong; a statement that ends a request with `?`, and a
client that leaves, is an action (`Cut`, `Abandon`) that can happen at every place of it. Each
counts as an event, so that the bounds hold, and is a mishap only where something is left
that the property would have to be false of.

### JobQueue

`status`, `attempts`, `age` (of `locked_at`) and `delay` (to `run_after`) are the
columns; `pc`, `task`, `seen`, `due`, `missed` are a worker loop and its heartbeat
task. `Claim` is the UPDATE of `claim_next` and its answer, `ClaimAnswerLost` the
commit whose answer never arrives; `HandlerReturns` is `dispatch`; `Complete`,
`ReadAttempts` and `Fail` are the three statements after it, each of which may be
lost (`SettleLost`: the code drops their errors); `Heartbeat` writes whatever the
row has become; `Reclaim` is `reclaim_stale`; `Crash` loses a process with its
loops. Time passes in ticks; a tick may not pass a heartbeat that is due
(`HeartbeatMissed` is one that fails). Attempts above the cap of the model are not
distinguished. Payloads are job numbers.

### LeaderLease

The row is `holder` and `left`; the elector sends a query (`Send`), Postgres executes
it (`Upsert`), the answer sets the flag (`Answer`), or it fails (`QueryFails`, which
clears the flag). `MaxLag` bounds the time between sending and outcome: the code
sets no timeout on the query, so this bound is the assumption, and the model states
how much it may be. `StartPass` and `EndPass` are a singleton worker that looks at
the flag once.

### BuildPipeline

Worker loops (each in a process of its own, so that they crash one by one) take jobs
from `todo`. `run_ephemeral_build` is `inserted` (INSERT done, GitHub call), `waiting`
(superseded others, waits for a slot), `check` (phase read), `promote` (status
building), `create` (pod), `polling`/`looking` (the two reads of a turn of the poll
loop), `ended`, `settle` (verdict), then `deploy` and `monitor`
(`deploy_compiled_app`, `monitor_deploy_health`). The builder pod has one name per
instance: `pod` is one record, and a handler takes whatever pod has the name for its
own, as the code does. A request that reads and then writes is two actions.
Merged, because nothing the properties tell apart happens between them: the
promotion, the creation of secrets and the deletion of a leftover pod; the clean-up after
a pod and its verdict; a failing creation and its clean-up. Nearly all of these calls drop
their errors, so that `Promote` may leave the row queued, a secret uncreated and the leftover
pod where it was, `Supersede`, `Record` and `CreatePodFails` may write nothing, secrets may
not be deleted, the INSERT may fail (the row is "missing"), an UPDATE of the
instance or an enqueue may be lost, and the look of a reconciler may see no Deployment, skip the
instance, or find nothing. `lost` has the builds that such an UPDATE left in flight and
`history` tells that an instance was left building ("unsettled"). A new instance's first
build counts as an event. The delay after which a dead loop's job returns is JobQueue's
concern and is any delay here.

### InstanceRuntime

`status` and `failures` are the row; `open` counts unresolved incidents by kind;
`exps` are experiments; `replicas`, `ready`, `app` and `full` are the cluster and
what the application does. A worker's place is a label: `probe[p]` for the health
probe in flight, `reconciler`, `sleeper`, `metric`, `reverter`, `user[u]` for
requests. Windows (the idle time, an experiment's duration, a start's grace) may
elapse at any moment, which is more than the code can do and never less. One
leader is assumed, which LeaderLease justifies within its margin; a crash of the
leader loses its tasks (`LeaderDies`), and a request may die with its process
(`RequestDies`). Failures are counted to one above the threshold, at and above
which the code behaves alike. Instances that sleep in Knative or were never built
are skipped by the reconciler and not modelled. With an HPA the reconciler leaves
the number of replicas alone.

### WorkspaceQuota

`limit` and `live`, `mem`, `reps` of every row are what `limits.rs` reads. A request goes
`connect`, `lock`, then the statements under the lock in the order of the code: `find`, `quota`,
the sums `apps`, `dbs`, `fns` (the last with the verdict), `write`, `finish`. The lock belongs
to a Postgres session and pins its connection, and every statement takes another one of the same
pool (`free`), so lock and pool are one model. `Leave` is the drop of the guard, whatever the
reason, and `Unlock` the task it spawns. A client may leave at any place: under the lock the
guard goes with the handler (`Abandon`), but a write under way is not called back and may be
executed after the unlock (`AbandonWriting`, `LateWrite`); while it waits for the lock there is
no guard, and the session may be granted the lock with nobody to release it (`AbandonWaiting`,
`Leak`), until a request draws that very connection (`keeper`) or the pool closes it
(`Recycle`). `Suspend`, `Resume`, `Remove` and `SetLimit` stand for all the code that writes the
same columns without the lock, at whatever point they do. A sum is the number of the megabytes
it is over, a cardinality, so that what is known of finite sets can be used of it. Left out: the
CPU check, which has the same form; ports; rows inserted with no memory limit, which weigh
nothing; negative values, which the code does not refuse; requests of other processes, which
differ in that they do not share the pool.

### ObjectStore

`rows`, `disk` and `cloud` are the rows and files of one bucket; a file holds the number
of the object whose bytes it has, so that a row that downloads another's bytes is seen.
The paths are those of one stem, since only they can collide: `a.png`, the `a.webp` it is
converted to, and what is derived from either. An upload is `AskUpload`, `FindSame`,
`ClearFiles`, `DropRow`, `InsertRow`, then the second request `OpenStream`,
`CreateFile`, `FinishStream`, then the task `Convert`, `Derive`, `SyncOriginal`,
`SyncDerived`, `Record`. What each of them leaves when it fails is in `ProcessingAmiss` (the
original stays beside what it was converted to; an error halfway leaves the first variants;
the last UPDATE is lost) and `RequestAmiss` (`ClearFails` and `PurgeFails`: files that could
not be removed, which nobody sees; `Abandon`: a statement fails or the client leaves, at
any place). `Abandon` is a mishap only where the files are gone and the row is not
(`Unfiled`): elsewhere what a request leaves is a pending row and its file, which a second
upload replaces. With S3, copies on the host that could not be removed are no file of an
object's. Refusals before anything changes (limits, types, permissions) are left out.

### EnvPool

A password passes from `engine` (what the resource accepts) and `stored` (its row) to
`pool` (the published variable), by `links` beside the instance's `own` variables to the
`secret`, and from there to the `pods`; `Effective` is `resolve_instance_env`. Every arrow
is an action, and requests (`req`) and reload tasks (`reload`) make them one after the
other. Rotations are of a SQL engine (a Job in the cluster), of Redis or of a bucket.
A Job may fail before or after it has changed the password; who waits for it reads an
exit code, which is 0 for a container that has no terminated state (`ExitMisread`), whatever
became of the Job. `ReadAmiss` is `resolve_instance_env` going on without the variables that it
could not read or decrypt, `PublishLost` a publication of which a statement failed,
`TellLost` and `ReloadLost` reloads that are never begun, `CarryFails` a Secret or Deployment
that could not be applied, `Abandon` a request that ends where it is. The app id of a bucket
is left out: it does not change.
Values are numbers in the order in which they were made up, and every way to make one
is bounded by `MaxVals`.

### CronScheduler

A schedule is a period and its occurrences are the multiples. A process that leads goes
`Select`, then per job `Advance` and `Spawn`; a run goes `Dispatch`, `Prepare`, `Work`,
`Log`. Whether a process leads is nondeterministic here, also two at once
(`LeaderLease` says when that is so). A request reads its row and writes it back, with
its variables and links by replacement, and the managed backup by `Ensure`,
`InsertBackup`, `RemoveBackup`, `Unflag`. What was started (`fired`) and asked (`asked`) is
history.

### ManagedDatabase

The row is `status`, `keep` and `backups`; `task` is the spawned provisioning (`Deploy`,
`Watch`, `Mark`), `reaper` the spawned deletion. Backups go from the file named after
their second through the dump to the row and the retention, restores from the drop of
the schema to the load; a file is partial until its dump has ended, and stays partial if the
dump came out short and was taken for whole (`DumpShort`), as that of Redis does, or if it failed
and its file was not removed (`DumpLeaves`). A backup has its age (`Stamp`) from the moment its
dump ends, before its row is inserted. `Load` fills the data and `LoadAmiss` does not though the client
answers 0. The statements whose errors are dropped are `MarkLost`, `StatusLost`,
`RemoveDirectoryFails`, `ChooseFails`, `PruneKeepsFile` and `PruneRowLost`. The cron job of the
managed backup is in CronScheduler, the password in EnvPool.

### AppSessions

`tokens` has one record for each row of `app_refresh_tokens`, with the sign-in it
descends from and the password it was given for. A service has no column for its secret:
`pool` holds secrets under names that services may share, as the code's project
variables do. Registration, login, refresh and verification go statement by statement through
`Lookup`, `Publish` and `Issue`; a suspension and a reset write the user and then delete
the tokens (`EndSessions`). A dropped error is `Dropped`, a client that leaves `Abandon`.
Other things are published in the same pool and may take a secret's row over: the id of a service
(`PublishId`), under `HERMES_AUTH_APP_ID` by `get_auth_integration` (`Integrate`) and by the start of
the process, or under a name chosen at its creation (`CreateService`, whose `Further` steps publish
the id, then the secret, then mint an API key); the API key (`PublishKey`); and whatever users and
other resources set, rename or delete (`EditVariable`, `RenameVariable`). `Crash` is the death of
the process together with what `reconcile_baas_published_ids` does when it starts
again: it prunes retired names (`Retired`) and republishes ids. One backend process is modelled, whose
requests run side by side.

### Targets, DomainRouting, ImageGC, AppRemoval

`Targets` has the rows that domains point at and builds belong to, and the deletions
from the cluster that are spawned for them. `DomainRouting` gives each domain a row, the
records in its name at Cloudflare, with the account whose token made them, and its
Ingress. `add_domain` is `AskAdd`, `CreateRecord`, `InsertRow`, `ApplyIngress`;
verification and update go from `AskVerify` and `AskUpdate` through the same
`ApplyIngress` to `StoreVerified` and `StoreUpdated`; removal is `AskRemove`,
`DeleteRecord`, `DropRow`, and a task `DeleteIngress`; purges are `ReadDomains`,
`TearDown` and `PurgeRows`. A request ends where it is when a statement of it fails or its
client leaves (`Cut`), which excuses the domains it leaves halfway (`Halfway`): the record is
made or deleted, or the Ingress changed, and the row is not. The statements whose errors are dropped
may do nothing: the look-up of the project's credential (`LookUpFails`), the SELECT of a purge
(`ReadDomains`), each part of a `TearDown`, the DELETE of a purge (`PurgeRows`), the
Ingress (`IngressFails`). `ImageGC` has builds that push blobs, then a manifest, then
point an instance at their image and apply it, rollbacks, and the pass of the
collector: `SelectOutdated`, `PruneImage` and `PruneRow`; `ListTags`, `KeepBuilt`,
`KeepCurrent` and `UnlinkOrphan`; `CollectBlobs` and the job that it starts, which
outlives the process. There too what the code drops may fail: a build's INSERT, verdict or
pointing UPDATE, the queries of the collector (which then find nothing, or count every image as
unused), the answers of the registry, and the DELETE of `PruneRow`, after which `rollback_build`
offers a build whose manifest is gone. `AppRemoval` joins them: a target's row goes together with the rows
of its builds, one crash interrupts both, and both draw on one budget of requests and
mishaps. The image tag of a build is its number. The age of build cache entries is
abstracted to: the pass may have unlinked one.

## 3. Runs

`tlc -config X.cfg M`; two workers, each under five minutes.

| Run | Question | Result |
|---|---|---|
| `JobQueueTimely` | two processes, one loop each, two jobs (one unparsable), two claims, one heartbeat in a row may fail, three crashes or lost answers: exclusive claims, implements `JobLifecycle` (in which a settled job stays settled) | holds, 40 400 states |
| `JobQueueOutage` | heartbeats may fail for longer than STALE_AFTER, so two workers run one job: verdicts have a cause, success is final, every job is settled | holds, 89 011 states |
| `LeaderLeaseTimely` | two processes, ticks of 5 s, queries up to 15 s, two faults: one leader, passes start under the lease, always a leader again | holds, 99 617 states |
| `BuildPipeline` | two loops, one or two slots, three builds, two of requests, crashes, failed starts, dropped errors: slots, secrets, verdicts, settling | holds, 199 590 states |
| `InstanceRuntime` | one probe, one user, one experiment, two events among requests, sleeps, faults, crashes and repairs: stops hold, the instance settles | holds, 785 350 states |
| `WorkspaceQuota` | two requests, a pool of two connections, one row of each kind, replicas 1 or 2, no quota or 2, four events among requests, clients that leave, crashes, starts, stops, deletions, quota changes: one request at a time, no overcommit, no connection lost, everything drains | holds, 470 486 states |
| `ObjectStore` | two requests or tasks, two objects, six events among uploads, streams, failures, dropped errors, deletions and crashes, on disk and with S3: rows and files agree | holds, 4.59 million states |
| `EnvPool` | two requests, two reloads, three events, two variables, three values, statements and Jobs that fail: the pods follow the rows, one password everywhere | holds, 4.77 million states |
| `CronScheduler` | two processes, two jobs of period 1 or 2, two requests, two ticks, two events: once per occurrence, none lost, rows as asked | holds, 1.37 million states |
| `ManagedDatabase` | two requests, retention 0 or 1, three seconds, four events among requests, failures, dropped errors and crashes: files for rows, data whole, status true, the newest kept | holds, 2.42 million states |
| `AppSessions` | two services, two requests, four events, and three names of variables that they may share: the secrets' default, the ids', and one that is retired: single use, sessions end, tokens verify, rows belong | holds, 5.84 million states |
| `AppRemoval` | an instance, a database, two domains, two builds with one kept, two requests that overlap and one mishap (a statement or call that fails, a client that leaves, a crash): routes match rows, used images stay, workloads end, orphans go | holds, 0.99 million states |

For every property PROJECT.json names a plausible bug of the code (a dropped guard, an
off-by-one, a lookup that is too wide) with which TLC finds it violated in the same run.

### Bounds

Bounds are guards on counters: `MaxFaults` (crashes, lost answers), `MaxEvents` (requests,
crashes, faults, repairs, steps in which an error is dropped), `NumBuilds` (= 1 + `MaxEvents`,
so no build is cut off), `MaxExps`, `MaxMissed`, `MaxLag`. All hazards listed in PROJECT.json
need at most two actors besides the worker concerned and two untoward events: two processes
claim or lead, one loop builds while another starts and a request or a crash comes between, a
stop falls between a worker's read and its write. Once, with larger bounds, before dropped
errors were events, the invariants of `BuildPipeline` were checked with `MaxEvents = 3` (14
million states), and the inductive invariant of `InstanceRuntime` with two users (12.4 million).
In the newer modules an event is whatever starts something or goes wrong (a request, a failure,
a crash, a change of leader), and the bound is the least at which every mishap can happen and
then one more step be taken: an upload needs two requests and its replacement two more (six
events in `ObjectStore`), a backup beside another whose retention removes it three
(`ManagedDatabase`), a shared secret and its loss four (`AppSessions`). Two objects, jobs,
services or domains are the least of which one can be taken for the other; `Keep = 1` of two
builds makes the first outdated; `MaxTime = 2` has an occurrence of each period and one after
it. The time constants keep the order of the code's: the lease is 30 s renewed every 10 s (6
ticks and 2), heartbeats come every 2 ticks and go stale at 4 with one missed, the tightest case
the margin allows (the code's 30 s and 180 s allow five); the outage run breaks the margin on
purpose. Deadlock is checked for the queue and the lease, which never stop; the others do stop
when requests and events are used up and everything has settled. In the quota's run two
connections and two requests are the tight case: each can pin one and leave none for statements;
with one connection no statement under the lock could ever run. Symmetry is declared where only
safety is checked.

### Fairness

Weak fairness is given to steps of tasks that tokio polls, to statements and calls that have an
outcome (both outcomes are actions), to a request that has begun, to restarts (Kubernetes), to
the convergence of the cluster to the replicas asked for, and to the clock. It is never given to
faults, requests, users or external services on which a property could lean: no Kaniko pod need
ever end (`LoopsDrain` rests on the timeout), Prometheus need not answer, no application need
recover, no user need act. Strong fairness is given to one action, `TimeOut`: the deadline is
compared at every turn of the poll loop, so once passed it ends the loop; the model, which has
no clock, alternates between the two places of a turn, at one of which `TimeOut` is enabled. In
JobQueue the handler returns: BuildPipeline's `LoopsDrain` is why. In WorkspaceQuota `Lock` and
`Leak` are strongly fair, since Postgres grants an advisory lock in the order it was asked for
and a waiter can only be overtaken by those before it; `Recycle` is weakly fair, by the idle and
life times sqlx gives connections by default. `EverythingDrains` rests on it: without `Recycle`
a leaked lock stops the workspace until the process restarts. In AppRemoval the collector's loop
and the job it creates in the cluster go on (`Collecting`), which the hourly loop of `gc.rs` and
the job's deadline justify; builds, requests and deletions need not. `OrphansGo` holds through
crashes because every pass begins anew.

### Conditions in properties

`VerdictIsTrue` and `InstanceSettles` speak of instances whose builds never overlapped
("overlap" in `history`): with two builds at one time the pod of one is taken for the other's,
and two builds can supersede each other; both follow from the way builds supersede each other
(section 5). `InstanceSettles` also excepts an instance whose last write, or the enqueue of the
job that was to make it, was dropped ("unsettled"). `RowsSettle` excepts the rows of which the
UPDATE that was to end them was dropped (`lost`), and a build job given up before its INSERT
("abort"), which leaves no later build to supersede the row of a dead handler. Nothing in the
code would heal any of these. `SecretsKept` says that secrets which were made stay: those that
could not be created are not there to begin with, and the pod that mounts them fails or is timed
out. `StopHolds` speaks of an instance nobody was acting on when it was marked stopped
(`contested`, a history variable); without the condition it is violated. `DownIsNoticed` is of
the form `<>[]down => []<>noticed`: a memory alert may hide the failure for as long as it is
open. `QuotaRespected` holds a request to what it could know: `disturbed`, a history variable,
is set when something without the lock changes the quota or a row between a request's lock and
its end, and a request that checks nothing (no memory asked for, no quota) promises nothing. The
settings of an instance are excepted when they leave more than one replica, for which the
property fails.

The other modules name their mishaps with the property, and section 5 says what each does.
Most are overlaps of two requests, or of a request and a task, on one object ("overlap", "race",
"same", "during", "restores"); requests that are cut off by a crash, a client that leaves or a failing
statement where something is half done ("left", `Halfway`, `Unfiled`); and errors that the
code drops ("failure", "remains", "unmarked", "short", "remnant", "unloaded", "unpruned",
"unlisted" of a database, "unroled" and "orphaned" of a service). "overwritten" is a variable that held a
service's secret and was taken over by something else. They are set by the action in which the
window is hit and not by the ones that open it, as narrowly as the state allows; the mutants show
that what remains is not
vacuous. `ImagesKept` excepts images that are condemned when something is pointed at
them, images that only pods use, pushes that the look at active builds has not seen, and builds
whose row outlived their manifest because its DELETE failed or was never made.

## 4. Proofs

All by TLAPS, no step omitted. Every safety property that a run checks is a theorem, for any
number of jobs, processes, loops, probes, users, requests, rows, faults and events: the
bounds of the models (`MaxEvents` and the like) are arbitrary numbers in the theorems.
Assumed of the constants is what the modules state by name (`ConstantsOK`,
`BuildConstantsOK`, ...): that kinds of rows are disjoint, that numbers are natural, and
that there are finitely many worker loops, requests under the workspace lock, rows that count
against its quota and cron jobs, which the counting of slots, connections, megabytes and
runs needs. Other assumptions are part of the theorem: `HeartbeatMargin`, `LeaseMargin`, and
that a workspace has a row for a request to be about.

Inductive invariants were tried out with TLC on the configuration of the component, or a
smaller one, before they were proved. Those of properties that hold at rest only
(`FilesMatchRows`, `RoutesMatchRows`, `RowsAsAsked`, `PodsFollowRows`, `PasswordsAgree`, `RowIsTrue`)
say of every place a request or task can be at what it still has to do; at rest nobody
has anything left, and the property follows. Where a property excepts named mishaps, its
invariant holds for as long as none of these has happened, and the proof
shows that no step leaves it without recording one.

**JobQueueProofs.** `TypeCorrect`. `SettledForCauseAlways` and
`SuccessIsFinalAlways` need no assumption: the inductive invariant `CarriedFacts`
says that what a loop carries from one statement to the next stays true of the row
whoever writes in between, because attempts only grow, a handler that ran has run,
and whether a job can be parsed never changes. `ExclusiveAlways`,
`SettledIsFinalAlways` and `Refinement` (the queue implements `JobLifecycle`) assume
`HeartbeatMargin`: `HeartbeatEvery * (MaxMissed + 1) <= StaleAfter`, with the code's
30 s and 180 s five failed heartbeats in a row. `Exclusive` is not inductive: it says
nothing of how old a row may be. `Fresh` adds that the age of a held row plus the
time to the next heartbeat is bounded by the heartbeats missed, so that
`reclaim_stale` never sees a held row. The bound is sharp: with one
more missed heartbeat TLC finds two holders.

**BuildPipelineProofs.** `TypeCorrect`, `SlotsConservedAlways`, `SecretsKeptAlways`,
`VerdictIsTrueAlways`. `InPlace` says what a handler's place tells of what it has in hand (an
idle loop nothing, the handler of a build its row, one whose pod has ended its outcome) and
`Numbered` that rows are the builds up to the latest; types rest on both. `Conserved` counts the
handlers that hold a slot and the unlocks under way against the slots locked. Secrets are kept
because of `Apart` (two handlers never build one row): the clean-up of one handler is then never
that of another's build, which is the step property `Armed`. Verdicts are true by `Alone` (as
long as no two builds ran at one time, the pod is that of the handler which waits for it, or
none) and `PodIsTrue` (a pod that has succeeded has pushed).

**InstanceRuntimeProofs** has the theorems of three components.

*The instance.* `TypeCorrect` and `StopHoldsAlways`, with or without an HPA.
`StopHolds` alone is not inductive: its inductive companion `Rest` says that on a
stopped, uncontested instance no reconciliation is under way, no experiment
is open or about to be recorded, and nobody is restoring replicas; `Book` keeps
the books of who refers to which experiment (each request's is its own, and in the
state its place calls for).

*The lease.* `LeaseTypeCorrect`, `LeaderHoldsLeaseAlways`,
`AtMostOneLeaderAlways`, `PassesStartUnderLeaseAlways`, all but the first under `LeaseMargin`:
`RenewEvery + MaxLag <= LeaseTTL` and `2 * MaxLag <= LeaseTTL`, that is, queries of up
to 15 s. The inductive invariant `Covered` says that what is left of the lease
outlasts the wait for the next outcome at each stage of a query, and that an answer
under way is true of the row. It too is sharp. The code bounds no query,
so a stall of more than 15 s makes two leaders: the assumption is on the deployment.

*The environment.* `PoolTypeCorrect`, `PodsFollowRowsAlways`, `PasswordsAgreeAlways`. `PoolInv`
says, unless something untidy has happened, that one task at a time is between reading the
environment and writing it (`OneCarries`); that a reload is owed, or has yet to read, or every
value the rows give is carried by a task or kept by Secret and pods
(`Followed`, by `Owed`, `WillRead`, `Carried`, `Kept`); and how far the one rotation has
brought its password at each of its places (`Agreed`, by `RotationAt`, where a Job that is at an end
tells what the engine accepts); and that an instance which is being deployed has a task that
does it (`Deploys`).

**WorkspaceQuotaProofs** has those of two.

*The quota.* `SerializedAlways` and `PoolBalancedAlways` are proved
together, with `Shape` (the types lock and pool need) and `Keeping`: who has drawn the
connection an abandoned session left locked is waiting for the lock or in its section.
Without it, a request could enter by such a connection beside the one that was granted
the lock. The pinned connections are counted by lemmas on how the set of requests that pin one
changes (`SamePins`, `OneMorePin`, `OneLessPin`); every step is a move that leaves lock
and pool alone, a `Leave`, or one of the few that hand over a connection. `TypeCorrect` and
`QuotaRespectedAlways` suppose a row. For the quota, `Reserved` says statement by statement what
a check has already left room for: what remains of the quota after the sums so far is at least
what the other rows of those kinds weigh, from the verdict on there is room for what is asked
for beside all others, and after the write for what the row may come to weigh (`Footprint`, as
a database whose settings are being deployed may be switched on). It holds because the request
is alone in its section, because what changes rows without the lock either makes them lighter
or counts as disturbing, and because what is written is no more than what was checked
(`WriteFits`, for one replica). Sums are numbers of pairs of a row and a megabyte; `TotalSplit`,
`TotalOne` and `TotalLess` are what is needed of them.

*A managed database.* `DatabaseTypeCorrect`, `RowsHaveFilesAlways`, `DataIsWholeAlways`,
`RowIsTrueAlways`, `NewestKeptAlways`, from `DatabaseInv`: backups are recorded in the order of
their age (`Aged`, with `Stamped`: an age is its backup's own from the end of the dump), a
listed backup has its file until its row is about to go and a file is as far as the one backup
that writes it (`Files`, `Partial`), one restore at a time tears the data (`Filling`), what is
deleted is neither provisioned nor changed (`Going`), whoever is about to say that the database
runs has seen a pod, and that it failed, a failure (`Stands`, `Failing`), and what a retention
is about to remove has as many newer backups as are to be kept (`Retaining`). Each part holds
unless a mishap of its own has happened, so that one theorem does not pay for another's
exceptions.

**AppSessionsProofs.** `TypeCorrect`, `SingleUseAlways`, `SessionsEndAlways`,
`TokensVerifyAlways`, `RowsBelongAlways`. Single use needs to know who has a sign-in in hand:
`Sessions` says that a request which has consumed a token holds its sign-in until it issues the
next one, that no token has it meanwhile, and that no other request holds it. `Ends` follows a
password from the sign-in that read it to the token: as long as no sign-in has overlapped with a
suspension or a reset, and no statement was lost, every token, and every request about to issue
one, is of an active user's present password, or of a user whose tokens are still to be deleted.
Both split the actions into those that touch tokens and those that leave them alone
(`SessionsElsewhere`, `WorkOnward`). `Secrets` says, until a mishap with secrets (which includes
a variable in other hands), that a service has one secret under all its names and that every
token signed, and every one about to be, verifies with it: ids that are published, variables
that are renamed and names that are pruned leave it there. `Belongs` says that what is in the
pool, a secret or an id, is of a service that lives, a user has his role unless his registration
is about to give it, and a key's variable has its key or a request that will remove it.

**AppRemovalProofs.** `TypeCorrect`, `WorkloadsEndAlways`, `ImagesKeptAlways`,
`RoutesMatchRowsAlways`. The invariant `Deleting` says that
an instance whose row is gone, or that a request is about to drop, has had its deletion
spawned: it is `doomed`, `swept`, or one of the `strays` of a named mishap; and what
was swept and is no stray runs nothing. Three requests and a webhook drop rows, and
each spawns the deletion first: the theorem fails as soon as one does not. `Safe` is about images: one
that can be rolled back to can be pulled (`Offered`), one in use can, has a row and is not chosen for
removal (`Needed`), a worker's pushes stay while its build is active, be it for want of its verdict
(`Pushed`), a worker deploys what a build of its instance has made (`AtWork`, `Placed`), and the
pass has in hand only builds that are over and images without a row (`InHand`). `Routed` is about
domains: what a request has made is its own until the row knows it (`Private`), what it has found is
as its place says (`Started`, `Torn`), so that one which is cut off leaves no more than `Halfway`
says, and a domain to which no mishap has happened has the Ingress of its row or of
the request that is writing it (`Shown`), no record but known ones (`Traced`), and the one
of its row (`Intact`).

**CronSchedulerProofs.** `TypeCorrect` with `InHandOnly` (what a request or a scheduler has in
hand is there), without which a job written back would not be a row. `NothingLostAlways`, of
which the two halves are `RequestsLoseNothing` and `SchedulersLoseNothing`: who moves a row past
an occurrence has it in hand or is a named mishap. `OncePerOccurrenceAlways` by `Once`: what has
been started lies in the past (`Past`), an active row's next occurrence is ahead of all that was
started (`Ahead`), an occurrence is in one scheduler's hands, and not started yet (`OneHand`,
`NotStarted`), and the runs that are logged or under way are as many as the occurrences started
(`Counted`). `RowsAsAskedAlways` by `Asked`, where what a row lacks of what was asked for is
what its request has still to write (`Stage`), and `Flagged`, where the managed backup exists
while its flag is set but for the request that is between the two.

**ObjectStoreProofs.** `TypeCorrect` and `FilesMatchRowsAlways`. `Fresh` (ids are used once) is
without condition; `Matched` says, unless something untidy has happened, what each request knows
of its object (`Known`), that the files it holds are the object's own and no row's but its
(`HoldsOwn`), that an object has one worker (`OneWorker`), that no two objects have a file in common
(`Distinct`), that every file is in hand or a row's (`Owned`), and that an object that is ready
has its files (`Whole`). That a request may end at any place without a mishap, unless files are
gone whose row is not, is the lemma `GoodAbandon`.

The type invariants that are proved and not in a run are part of what the runs' invariants
rest on. Left to TLC are the liveness properties (`QueueDrains`, `AlwaysALeaderAgain`, `Settles`,
`Heals`, `ExperimentsEnd`, `EverythingDrains`, `OrphansGo`): fairness and ENABLED are beyond
the prover. No module declares RECURSIVE operators. A module of proofs that extends two or three
components has their variables side by side and says nothing of how they interact.

## 5. Findings

No run ends in a violation: the runs are given to what holds. What the code does
against its documents, or what a maintainer would not expect, was met as the counterexample
of a property without its exception, and is part of the models; the lines are of
`src/backend/src`.

*Queue, lease, builds.* A job whose process keeps dying is retried for ever: `attempts` is
looked at only by `fail` (job_queue.rs:114-141). A pass of a former leader runs beside the next
leader's, as the flag is read when it starts. An older build supersedes a newer one
(builder.rs:558-566, where its comment says "any older"). A restart during a rebuild marks it
succeeded though it has no image (builder.rs:2687). The error of an enqueue is dropped
(app_controller.rs:1002), leaving an instance building until a reconciler finds it, if one does.
The creation of a build's secrets is dropped (builder.rs:634, 693, 741), and the pod mounts what
is not there; so is the UPDATE of the verdict (builder.rs:1472), and the row stays building,
which keeps redeploys and rollbacks out. The build timeout includes the wait for a slot. An
error while the SSH secret's manifest is made leaves the row building; a single failing read of
the pod fails the build; the kpack path cannot be cancelled; secrets of a dead handler's build
remain; a rolling update whose new pods fail passes the health gate on the old ones
(builder.rs:2298). The startup reconciler assumes that every in-flight task is dead, which is
false with a second process.

*Runtime.* A deleted Deployment is never recreated once probes have marked the
instance failed, which they do first (builder.rs:2599). A stop is undone by a reconciliation
under way or by a reverted experiment. A healthy probe closes the memory alerts
(health.rs:288-293), which the metric worker is said to manage alone (109-112), and an open
one hides a failure. The doc of `reconcile_instance` (builder.rs:2562-2566) says that it does not
re-apply the full spec, and it does; that of `start_reconcile_worker` says off by default and
main.rs:36-39 says on.

*Quotas.* Settings are checked for one replica, or not at all when only `replicas_max` is
given, where a creation counts "full scale-out" (app_controller.rs:615); starts and redeploys are
not checked. A client that leaves while it waits for the lock can leave the workspace
locked until its connection is drawn or closed; one that leaves during the INSERT can have
it executed after the unlock. Two changes of the limits at once lose one
(workspace_controller.rs:243).

*Objects.* Converting onto another object's path overwrites its file, and the row stays in
processing (storage_controller.rs:933); a processing that fails after the conversion leaves
the converted file, one that fails at a variant the variants before it
(storage_engine.rs:146-199); files that cannot be removed stay, unseen
(storage_engine.rs:345-386); a DELETE that fails after the files were removed leaves a ready object
that cannot be downloaded; two streams of one upload, replacements and deletions during
processing leave files without rows; a crash leaves processing for ever. Public files are
opened on the local disk also under S3; a body larger than declared escapes the quota;
a re-created bucket of the same name inherits what a deletion left.

*Variables and passwords.* A rotation that is cut off between engine and row locks everyone out
(database_controller.rs:1736); overlapping ones take each other's Job for their own. Reloads
that overlap may write a stale Secret; a start after a change made while stopped uses the old
one; a hot reload omits the defaults of PORT and HOST that a deploy sets. A rotation re-creates
an own `DATABASE_URL` that shadows the linked one, though project_env_controller.rs:298-301 says
otherwise. A Job without an exit code counts as successful (k8s.rs:1433), so that the row may
get a password that the engine never took. A variable that cannot be read or decrypted is left
out of the Secret (app_env.rs:143), which the pods then start with. A failing publication is
dropped (database_controller.rs:1756-1766). storage_controller.rs:316 says "no auto-reload", and
the code reloads. `create_database` returns early when publishing fails, before the task that
would provision the row (database_controller.rs:137).

*Cron and backups.* An edit at the due time silently skips or repeats an occurrence;
replacements of variables at once give the union; runs of one job may overlap. The
managed backup as created by default fails (cron_controller.rs:93-108). A failing Redis dump leaves a
partial file, and short files are recorded as completed (database_controller.rs:977-985); psql without
ON_ERROR_STOP answers 0 (1437), so that a restore that went wrong counts as done; a retention whose DELETE
fails lists a backup without its file (1241);
the status and the removal of a deleted database's directory are dropped (173, 239, 249, 446, 450; 352);
`backup_count = 0` deletes the backup just made; backups of one second share a file; a
failed status never heals.

*BaaS.* Publishing a secret takes over the variable of that name from the service that had it
(app_auth.rs:67-72), where app_auth.rs:3 and 28-29 say that each service owns one and the call
is idempotent: the logins at each of two services then invalidate the tokens of the other. The
app id takes over a variable in the same way (app_user_controller.rs:1127, 1213;
app_auth.rs:141), be it one that holds a secret. Deleting a service leaves its API keys'
variables. A refresh under way survives a password reset; the error of deleting a suspended
user's tokens is dropped; a registration that is cut off leaves a user without a role whom no
list shows.

*Domains.* The record is made before the row, so that a failed INSERT or a lost answer
leaves a record nobody knows; every verification makes another and forgets the last;
a statement that fails in verify or update after the record or the Ingress was written
(domain_controller.rs:506, 535, 729) leaves the row with what was before;
a removal cannot be repeated once the record is gone or the credential has changed; a
purge drops errors, that of its DELETE (domain_controller.rs:593) among them, and rows added since it
read; an update to a proxy without a host leaves the
old Ingress; a branch that is closed leaves its domains (app_controller.rs:1241-1279). A
deploy applied after the deletion from the cluster leaves a workload that nothing looks for.

*Images.* "Never the image currently deployed" (gc.rs:133-135) is about `current_image_tag`, not
about what pods run, and a rollback or a late deploy can point at an image that the pass has
condemned; a DELETE that fails counts as one that found no row (gc.rs:185), and a rollback to
that build finds no manifest; rollbacks are allowed while a build is queued. A collection of
blobs put off "to the next pass" (gc.rs:381) is not done there unless that pass unlinks
something (gc.rs:115-119); the look at active builds fails open (gc.rs:387); a failed read of
the instances' images counts them as unused (gc.rs:308-313). Images of functions are never
collected, and images from before `current_image_tag` count as orphans although
`resolve_instance_image_tag` falls back on them.

## 6. Not modelled

Wording, logs, traces and metrics; manifests beyond the fields named above; the
opt-in kpack builder; security scans, detected ports and volumes; webhook delivery
of alerts; schedules beyond their period; hashes and encryption; the quotas of buckets; the
deletion of a whole application at once (it is that of its instances, one after the
other); finished job rows, failed pods and the age of the build cache; rate limit counters.
Serverless functions repeat the pattern of applications on Knative, whose scaling and
limits are not in this code; compose import and git providers turn text and external answers into the
inserts that the other modules start from; volumes are file I/O; members, roles and
platform authentication are row-by-row requests on stateless tokens; metrics, events,
the frontend and manifests are read by nothing that decides. The limits of what a
run can hold are why there is one of each pair that can collide, and why the
components are composed two at a time: rows of several components that must agree are
modelled with the component that writes the last of them.
What lies outside the
repository (Kubernetes, Kaniko, Postgres, Prometheus, GitHub, Cloudflare, the registry) is
modelled by the outcomes the code distinguishes, and marked external in the map.

## 7. Plan

Done, in the order of the work and shared state that passes through them: `JobQueue`,
`LeaderLease`, `BuildPipeline`, `InstanceRuntime`, `WorkspaceQuota`, `ObjectStore`,
`EnvPool`, `CronScheduler`, `ManagedDatabase`, `AppSessions`, `AppRemoval`, and the proofs of
the safety properties of them all. Next:

1. Proofs: more action properties from the invariants at hand (a build row whose verdict
   is final, a row that only a request of its own changes), an abstract specification of the
   object store that `Matched` shows it to implement, and one of the scheduler from `Once`.
2. `CronScheduler` over `LeaderLease` instead of a nondeterministic leader, so that "two
   leaders at once" becomes a consequence of slow queries.
3. The deletion of a whole application, and previews, in `AppRemoval`.
