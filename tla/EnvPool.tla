------------------------------ MODULE EnvPool ------------------------------
(***************************************************************************)
(* The environment of one instance and the credentials in it               *)
(* (utils/app_env.rs, controllers/env_variable_controller.rs,              *)
(* controllers/project_env_controller.rs, and the rotation of              *)
(* database_controller.rs and storage_controller.rs).                      *)
(*                                                                         *)
(* A resource of the project (a database or a bucket) has a password that  *)
(* it accepts and a row that records it; it publishes the password as a    *)
(* variable of the project's pool.  The instance links variables of the    *)
(* pool and has variables of its own, which win.  What it runs with goes   *)
(* from there to a Kubernetes Secret and from the Secret to the pods, when *)
(* they start.  So a new password passes through six places; requests      *)
(* write them one after the other without a lock, and spawned tasks carry  *)
(* the changes on.  One action is one statement or one call; where the     *)
(* code drops the error of one, that it was lost is an outcome of its own. *)
(*                                                                         *)
(* A bucket publishes its app id beside the password; it never changes and *)
(* is left out.                                                            *)
(*                                                                         *)
(* Values are numbers, in the order in which they were made up.            *)
(***************************************************************************)
EXTENDS Naturals, FiniteSets

CONSTANTS
    Request,    \* requests in flight
    Reload,     \* tasks at work on the instance's Secret
    Resource,   \* the kinds of resource to look at
    MaxVals,    \* bound: values made up
    MaxVars,    \* bound: variables of the pool
    MaxPoolEvents   \* bound: requests, deploys and failures

ASSUME PoolConstantsOK ==
    /\ Resource \subseteq {"sql", "redis", "bucket"}
    /\ MaxVals \in Nat \ {0} /\ MaxVars \in Nat \ {0} /\ MaxPoolEvents \in Nat

VARIABLES
    kind, bound,    \* the resource; whether the instance is the one it was created for
    stored, engine, \* the password in the row, and the one the resource accepts
    job,            \* the Job that changes the password of a SQL engine
    pool,           \* pool[v]: a variable of the project
    links,          \* the variables the instance links
    own,            \* own[k]: the instance's own variable, or None
    secret, pods,   \* what the Secret holds, and what the pods started with
    appStatus,         \* of the instance
    rolling,        \* the pods are being replaced
    pending,        \* reloads that were spawned and have not begun
    reload,         \* reload[t]: a task at work on the Secret
    req,            \* req[r]: a request
    made, poolEvents,   \* values made up, and events
    untidy          \* ghost: one of the named mishaps happened

resource == <<kind, bound, stored, engine, job>>
variables == <<pool, links, own>>
deployed == <<secret, pods, rolling>>
bookkeeping == <<made, poolEvents, untidy>>
poolVars == <<resource, variables, deployed, appStatus, pending, reload, req, bookkeeping>>

Key == {"URL", "OTHER"}         \* "URL" is the key a resource suggests
Var == 1..MaxVars
Val == 0..MaxVals
None == 0
NoVar == [key |-> "none", val |-> None, by |-> "manual"]
NoJob == [st |-> "none", old |-> None, val |-> None]
NoRequest == [at |-> "idle", var |-> 0, key |-> "URL", val |-> None, old |-> None,
         tell |-> FALSE]
NoTask == [at |-> "idle", env |-> [k \in Key |-> None], roll |-> FALSE]

There(v) == v \in Var /\ pool[v].key # "none"
WithKey(k) == {v \in Var : pool[v].key = k}
Published == {v \in Var : There(v) /\ pool[v].by = "resource"}

\* resolve_instance_env: linked variables, under the instance's own
Linked(k) == LET vs == {v \in links : pool[v].key = k}
             IN  IF vs = {} THEN None ELSE pool[CHOOSE v \in vs : TRUE].val
Over(mine, under) == [k \in Key |-> IF mine[k] # None THEN mine[k] ELSE under[k]]
Effective == Over(own, [k \in Key |-> Linked(k)])

PoolInit ==
    /\ kind \in Resource /\ bound \in (IF kind = "bucket" THEN {FALSE} ELSE BOOLEAN)
    /\ stored = 1 /\ engine = 1 /\ job = NoJob
    /\ pool = [v \in Var |-> IF v = 1 THEN [key |-> "URL", val |-> 1, by |-> "resource"]
                             ELSE NoVar]
    /\ links \in (IF bound THEN {{1}} ELSE {{}, {1}})
    /\ own = [k \in Key |-> None]
    /\ secret = Effective /\ pods = Effective
    /\ appStatus = "running" /\ rolling = FALSE
    /\ pending = 0
    /\ reload = [t \in Reload |-> NoTask]
    /\ req = [r \in Request |-> NoRequest]
    /\ made = 1 /\ poolEvents = 0 /\ untidy = FALSE

PoolEvent == poolEvents < MaxPoolEvents /\ poolEvents' = poolEvents + 1
Untidy(harm) == untidy' = (untidy \/ harm)
Goto(r, l) == req' = [req EXCEPT ![r].at = l]
End(r) == req' = [req EXCEPT ![r] = NoRequest]
\* A request begins, in the state its first statement leaves it in
Begin(r, state) ==
    /\ req[r] = NoRequest /\ PoolEvent
    /\ req' = [req EXCEPT ![r] = state]
MakeUp == made < MaxVals /\ made' = made + 1

-----------------------------------------------------------------------------
(***************************************************************************)
(* The instance's own variables                                            *)
(***************************************************************************)

SetOwn(r, k) ==
    /\ Begin(r, [NoRequest EXCEPT !.at = "reload"]) /\ MakeUp
    /\ own' = [own EXCEPT ![k] = made']
    /\ UNCHANGED <<resource, pool, links, deployed, appStatus, pending, reload, untidy>>

\* All of them are deleted and the given ones inserted, in one transaction
SetOwnBulk(r, given) ==
    /\ Begin(r, [NoRequest EXCEPT !.at = "reload"]) /\ MakeUp
    /\ own' = [k \in Key |-> IF k \in given THEN made' ELSE None]
    /\ UNCHANGED <<resource, pool, links, deployed, appStatus, pending, reload, untidy>>

DeleteOwn(r, k) ==
    /\ own[k] # None
    /\ Begin(r, [NoRequest EXCEPT !.at = "reload"])
    /\ own' = [own EXCEPT ![k] = None]
    /\ UNCHANGED <<resource, pool, links, deployed, appStatus, pending, reload, made, untidy>>

\* hot_reload_if_running
SpawnReload(r) ==
    /\ req[r].at = "reload"
    /\ pending' = pending + 1
    /\ End(r)
    /\ UNCHANGED <<resource, variables, deployed, appStatus, reload, bookkeeping>>

-----------------------------------------------------------------------------
(***************************************************************************)
(* The project's pool                                                      *)
(***************************************************************************)

\* INSERT ... ON CONFLICT (project_id, key) DO UPDATE: v is the row it returns
UpsertVar(v, k, val, by) ==
    /\ \/ pool[v].key = k
       \/ WithKey(k) = {} /\ ~There(v) /\ \A u \in Var : u < v => There(u)
    /\ pool' = [pool EXCEPT ![v] = [key |-> k, val |-> val, by |-> by]]

SetPool(r, k) ==
    /\ MakeUp
    /\ \E v \in Var :
        /\ Begin(r, [NoRequest EXCEPT !.at = "linked", !.var = v])
        /\ UpsertVar(v, k, made', "manual")
    /\ UNCHANGED <<resource, links, own, deployed, appStatus, pending, reload, untidy>>

\* reload_linked_instances
ReloadLinked(r) ==
    /\ req[r].at = "linked"
    /\ pending' = pending + (IF req[r].var \in links THEN 1 ELSE 0)
    /\ End(r)
    /\ UNCHANGED <<resource, variables, deployed, appStatus, reload, bookkeeping>>

\* Who links the variable is asked before the links go with it; nobody, if the
\* question fails
AskDeletePool(r, v) ==
    /\ There(v)
    /\ \E told \in {(v \in links), FALSE} :
        Begin(r, [NoRequest EXCEPT !.at = "deletePool", !.var = v, !.tell = told])
    /\ UNCHANGED <<resource, variables, deployed, appStatus, pending, reload, made, untidy>>

\* The links go with the variable
DeletePool(r) ==
    /\ req[r].at = "deletePool"
    /\ LET v == req[r].var IN
        /\ pool' = [pool EXCEPT ![v] = NoVar]
        /\ links' = links \ {v}
        \* linked meanwhile: whoever linked it reloads, but perhaps too early;
        \* or the question failed
        /\ Untidy(v \in links /\ ~req[r].tell)
    /\ IF There(req[r].var) /\ req[r].tell THEN Goto(r, "reload") ELSE End(r)
    /\ UNCHANGED <<resource, own, deployed, appStatus, pending, reload, made, poolEvents>>

\* Refused if the key is another's
AskRename(r, v, k) ==
    /\ There(v) /\ WithKey(k) \subseteq {v}
    /\ Begin(r, [NoRequest EXCEPT !.at = "rename", !.var = v, !.key = k])
    /\ UNCHANGED <<resource, variables, deployed, appStatus, pending, reload, made, untidy>>

Rename(r) ==
    /\ req[r].at = "rename"
    /\ LET v == req[r].var IN
        IF There(v) /\ WithKey(req[r].key) \subseteq {v}
        THEN pool' = [pool EXCEPT ![v].key = req[r].key] /\ Goto(r, "linked")
        ELSE UNCHANGED pool /\ End(r)
    /\ UNCHANGED <<resource, links, own, deployed, appStatus, pending, reload, bookkeeping>>

AskLink(r, v) ==
    /\ There(v)
    /\ Begin(r, [NoRequest EXCEPT !.at = "dropLocal", !.var = v, !.key = pool[v].key])
    /\ UNCHANGED <<resource, variables, deployed, appStatus, pending, reload, made, untidy>>

\* Linking wins: the instance's own variable of that key is deleted
DropLocal(r) ==
    /\ req[r].at = "dropLocal"
    /\ own' = [own EXCEPT ![req[r].key] = None]
    /\ Goto(r, "link")
    /\ UNCHANGED <<resource, pool, links, deployed, appStatus, pending, reload, bookkeeping>>

\* Mutant: no foreign key holds the variable
Linkable_Any(v) == TRUE
\* The foreign key of app_env_links
Linkable(v) == There(v)

Link(r) ==
    /\ req[r].at = "link"
    /\ IF Linkable(req[r].var)
       THEN links' = links \cup {req[r].var} /\ Goto(r, "reload") /\ UNCHANGED untidy
       ELSE UNCHANGED links /\ End(r) /\ untidy' = TRUE \* without the local one, and no reload
    /\ UNCHANGED <<resource, pool, own, deployed, appStatus, pending, reload, made, poolEvents>>

Unlink(r, v) ==
    /\ v \in links
    /\ Begin(r, [NoRequest EXCEPT !.at = "reload"])
    /\ links' = links \ {v}
    /\ UNCHANGED <<resource, pool, own, deployed, appStatus, pending, reload, made, untidy>>

-----------------------------------------------------------------------------
(***************************************************************************)
(* rotate_database_password and rotate_bucket_credentials                  *)
(***************************************************************************)

Rotating == {r \in Request : req[r].at \in
    {"store", "clean", "start", "wait", "read", "restart", "published", "find",
     "refresh", "insert", "bound", "consumers"}}

\* The row is read, and the new password made up
AskRotate(r) ==
    /\ MakeUp
    /\ Begin(r, [NoRequest EXCEPT !.at = IF kind = "sql" THEN "clean" ELSE "store",
                             !.old = stored, !.val = made'])
    /\ Untidy(Rotating # {})
    /\ UNCHANGED <<resource, variables, deployed, appStatus, pending, reload>>

\* A bucket's password is the one in its row: the resource is the backend itself
Store(r) ==
    /\ req[r].at = "store"
    /\ stored' = req[r].val
    /\ engine' = IF kind = "bucket" THEN req[r].val ELSE engine
    /\ Goto(r, CASE kind = "sql" -> "published"
                 [] kind = "redis" -> "restart"
                 [] kind = "bucket" -> "find")
    /\ UNCHANGED <<kind, bound, job, variables, deployed, appStatus, pending, reload,
                   bookkeeping>>

\* Redis is deployed with the new password and its pod deleted
RestartRedis(r) ==
    /\ req[r].at = "restart"
    /\ \/ engine' = req[r].val /\ Goto(r, "published") /\ UNCHANGED <<poolEvents, untidy>>
       \/ PoolEvent /\ engine' \in {engine, req[r].val} /\ End(r) /\ untidy' = TRUE
    /\ UNCHANGED <<kind, bound, stored, job, variables, deployed, appStatus, pending,
                   reload, made>>

\* run_job_and_get_logs: a Job of the same name is deleted, whoever waits for it, and
\* the code goes on if that fails
CleanJob(r) ==
    /\ req[r].at = "clean"
    /\ \/ job' = NoJob /\ UNCHANGED poolEvents
       \/ PoolEvent /\ UNCHANGED job
    /\ Goto(r, "start")
    /\ UNCHANGED <<kind, bound, stored, engine, variables, deployed, appStatus, pending,
                   reload, made, untidy>>

\* Refused while there is one of that name
StartJob(r) ==
    /\ req[r].at = "start"
    /\ IF job = NoJob
       THEN /\ job' = [st |-> "running", old |-> req[r].old, val |-> req[r].val]
            /\ Goto(r, "wait")
       ELSE UNCHANGED job /\ End(r)
    /\ UNCHANGED <<kind, bound, stored, engine, variables, deployed, appStatus, pending,
                   reload, bookkeeping>>

\* The engine takes the new password from whoever knows the present one
RunJob ==
    /\ job.st = "running"
    /\ IF job.old = engine
       THEN engine' = job.val /\ job' = [job EXCEPT !.st = "succeeded"]
       ELSE UNCHANGED engine /\ job' = [job EXCEPT !.st = "failed"]
    /\ UNCHANGED <<kind, bound, stored, variables, deployed, appStatus, pending, reload,
                   req, bookkeeping>>

\* The engine is out of reach, the client is killed, or the Job runs out of time,
\* before or after the password has changed
JobFails ==
    /\ job.st = "running" /\ PoolEvent
    /\ job' = [job EXCEPT !.st = "failed"]
    /\ engine' \in {engine, IF job.old = engine THEN job.val ELSE engine}
    /\ Untidy(engine' # engine)
    /\ UNCHANGED <<kind, bound, stored, variables, deployed, appStatus, pending, reload,
                   req, made>>

\* One look at the Job of that name, whoever started it: gone, at an end, or neither
LookAtJob(r) ==
    /\ req[r].at = "wait" /\ job.st # "running"
    /\ IF job = NoJob THEN End(r) ELSE Goto(r, "read")
    /\ UNCHANGED <<resource, variables, deployed, appStatus, pending, reload, bookkeeping>>

\* The exit code is read from the pod, and the Job is deleted, or stays if that fails
ReadExit(r) ==
    /\ req[r].at = "read"
    /\ IF job.st = "succeeded" THEN Goto(r, "store") ELSE End(r)
    /\ \/ job' = NoJob /\ UNCHANGED poolEvents
       \/ PoolEvent /\ UNCHANGED job
    /\ UNCHANGED <<kind, bound, stored, engine, variables, deployed, appStatus, pending,
                   reload, made, untidy>>

\* The code of a container without a terminated state is taken for 0, whatever became of
\* the Job; and the first pod of that label may be an earlier Job's.  Or the pods cannot
\* be listed, and the rotation ends although the engine may have changed
ExitMisread(r) ==
    /\ req[r].at = "read" /\ PoolEvent
    /\ Goto(r, "store") \/ End(r)
    /\ job' \in {job, NoJob}
    /\ untidy' = TRUE
    /\ UNCHANGED <<kind, bound, stored, engine, variables, deployed, appStatus, pending,
                   reload, made>>

\* A database refreshes its variable only if it has published one
AlreadyPublished(r) ==
    /\ req[r].at = "published"
    /\ Goto(r, IF Published # {} THEN "find" ELSE "bound")
    /\ UNCHANGED <<resource, variables, deployed, appStatus, pending, reload, bookkeeping>>

\* Mutant: by the key it once suggested
Mine_ByKey == WithKey("URL")
\* The variable is known by the resource that owns it, not by its key
Mine == Published

FindPublished(r) ==
    /\ req[r].at = "find"
    /\ IF Mine = {} THEN Goto(r, "insert")
       ELSE \E v \in Mine : req' = [req EXCEPT ![r].at = "refresh", ![r].var = v]
    /\ UNCHANGED <<resource, variables, deployed, appStatus, pending, reload, bookkeeping>>

AfterPublish == IF kind = "bucket" THEN "consumers" ELSE "bound"

Refresh(r) ==
    /\ req[r].at = "refresh"
    /\ pool' = IF There(req[r].var) THEN [pool EXCEPT ![req[r].var].val = req[r].val]
               ELSE pool
    \* taken over by hand in between: the row by this id is a manual one by now
    /\ Untidy(req[r].var \notin Published)
    /\ Goto(r, AfterPublish)
    /\ UNCHANGED <<resource, links, own, deployed, appStatus, pending, reload, made, poolEvents>>

InsertPublished(r) ==
    /\ req[r].at = "insert"
    /\ \E v \in Var : UpsertVar(v, "URL", req[r].val, "resource")
    /\ Goto(r, AfterPublish)
    /\ UNCHANGED <<resource, links, own, deployed, appStatus, pending, reload, bookkeeping>>

\* The instance a database was created for gets the password as a variable of its own
SyncBound(r) ==
    /\ req[r].at = "bound"
    /\ own' = IF bound THEN [own EXCEPT !["URL"] = req[r].val] ELSE own
    /\ Goto(r, "consumers")
    /\ UNCHANGED <<resource, pool, links, deployed, appStatus, pending, reload, bookkeeping>>

\* Mutant: only the instance it was created for
Consumes_Bound == bound
\* Every instance that links what was published, and the one it was created for
Consumes == links \cap Published # {} \/ bound

ReloadConsumers(r) ==
    /\ req[r].at = "consumers"
    /\ IF Consumes THEN Goto(r, "reload") ELSE End(r)
    /\ UNCHANGED <<resource, variables, deployed, appStatus, pending, reload, bookkeeping>>

\* A statement of the publication fails and its error is dropped: whether there is a
\* variable (none, then), which one (none for a bucket, which publishes another; a
\* database gives up), or its new value
PublishLost(r) ==
    /\ req[r].at \in {"published", "find", "refresh", "insert"} /\ PoolEvent
    /\ Goto(r, CASE req[r].at = "published" -> "bound"
                 [] req[r].at = "find" /\ kind = "bucket" -> "insert"
                 [] OTHER -> AfterPublish)
    /\ untidy' = TRUE
    /\ UNCHANGED <<resource, variables, deployed, appStatus, pending, reload, made>>

\* Who links a variable cannot be read: only the instance known otherwise is reloaded
TellLost(r) ==
    /\ req[r].at \in {"linked", "consumers"} /\ PoolEvent
    /\ IF req[r].at = "consumers" /\ bound THEN Goto(r, "reload") ELSE End(r)
    /\ untidy' = TRUE
    /\ UNCHANGED <<resource, variables, deployed, appStatus, pending, reload, made>>

-----------------------------------------------------------------------------
(***************************************************************************)
(* The tasks that carry the environment to the Secret and to the pods      *)
(***************************************************************************)

SetTask(t, task) == reload' = [reload EXCEPT ![t] = task]
Step(t, l) == SetTask(t, [reload[t] EXCEPT !.at = l])
HasRead == {"own", "write"}
\* Another task is between reading the environment and writing it
Overlapped(t) == \E q \in Reload \ {t} : reload[q].at \in HasRead

\* The instance must be running by now
BeginReload(t) ==
    /\ reload[t] = NoTask /\ pending > 0
    /\ pending' = pending - 1
    /\ IF appStatus = "running"
       THEN SetTask(t, [NoTask EXCEPT !.at = "links", !.roll = TRUE]) /\ UNCHANGED untidy
       ELSE /\ UNCHANGED reload
            \* nothing will carry on this change: a start only scales, and the deploy
            \* that is under way may have read the environment before it
            /\ Untidy(\/ appStatus = "stopped"
                      \/ \E q \in Reload : reload[q].at \in HasRead \cup {"patch"})
    /\ UNCHANGED <<resource, variables, deployed, appStatus, req, made, poolEvents>>

\* Whether it runs cannot be read, and the change is forgotten
ReloadLost ==
    /\ pending > 0 /\ PoolEvent
    /\ pending' = pending - 1
    /\ untidy' = TRUE
    /\ UNCHANGED <<resource, variables, deployed, appStatus, reload, req, made>>

\* deploy_compiled_app, which restarts the pods as their image is new, and
\* reconcile_instance, which does not; the status may fail to be written
BeginDeploy(t) ==
    /\ reload[t] = NoTask /\ appStatus = "running"
    /\ PoolEvent
    /\ appStatus' \in {"deploying", "running"}
    /\ SetTask(t, [NoTask EXCEPT !.at = "links", !.roll = TRUE])
    /\ UNCHANGED <<resource, variables, deployed, pending, req, made, untidy>>

BeginReconcile(t) ==
    /\ reload[t] = NoTask /\ appStatus = "running"
    /\ PoolEvent
    /\ SetTask(t, [NoTask EXCEPT !.at = "links"])
    /\ UNCHANGED <<resource, variables, deployed, appStatus, pending, req, made, untidy>>

ReadLinked(t) ==
    /\ reload[t].at = "links"
    /\ SetTask(t, [reload[t] EXCEPT !.at = "own", !.env = [k \in Key |-> Linked(k)]])
    /\ Untidy(Overlapped(t))
    /\ UNCHANGED <<resource, variables, deployed, appStatus, pending, req, made, poolEvents>>

ReadOwn(t) ==
    /\ reload[t].at = "own"
    /\ SetTask(t, [reload[t] EXCEPT !.at = "write", !.env = Over(own, reload[t].env)])
    /\ UNCHANGED <<resource, variables, deployed, appStatus, pending, req, bookkeeping>>

\* resolve_instance_env goes on without what it cannot read or decrypt
ReadAmiss(t) ==
    /\ reload[t].at \in {"links", "own"} /\ PoolEvent
    /\ \E lost \in SUBSET Key :
        SetTask(t, IF reload[t].at = "links"
                   THEN [reload[t] EXCEPT !.at = "own",
                            !.env = [k \in Key |-> IF k \in lost THEN None ELSE Linked(k)]]
                   ELSE [reload[t] EXCEPT !.at = "write",
                            !.env = Over([k \in Key |-> IF k \in lost THEN None ELSE own[k]],
                                         reload[t].env)])
    /\ untidy' = TRUE
    /\ UNCHANGED <<resource, variables, deployed, appStatus, pending, req, made>>

\* create_secret, a server-side apply: what becomes of a key that was dropped is
\* up to Kubernetes
WriteSecret(t) ==
    /\ reload[t].at = "write"
    /\ \E kept \in SUBSET {k \in Key : reload[t].env[k] = None} :
        secret' = [k \in Key |-> IF k \in kept THEN secret[k] ELSE reload[t].env[k]]
    /\ Step(t, "patch")
    /\ UNCHANGED <<resource, variables, pods, rolling, appStatus, pending, req, bookkeeping>>

\* The template changes, so Kubernetes replaces the pods; a deploy ends running
Patch(t) ==
    /\ reload[t].at = "patch"
    /\ rolling' = (rolling \/ reload[t].roll)
    /\ appStatus' = IF appStatus = "deploying" THEN "running" ELSE appStatus
    /\ SetTask(t, NoTask)
    /\ UNCHANGED <<resource, variables, secret, pods, pending, req, bookkeeping>>

Carry(t) == BeginReload(t) \/ ReadLinked(t) \/ ReadOwn(t) \/ WriteSecret(t) \/ Patch(t)

\* A call fails, or only its answer, or a deploy's last status; nobody tries again
CarryFails(t) ==
    /\ reload[t] # NoTask /\ PoolEvent
    /\ SetTask(t, NoTask)
    /\ secret' \in {secret, IF reload[t].at = "write" THEN reload[t].env ELSE secret}
    /\ rolling' \in {rolling, rolling \/ (reload[t].at = "patch" /\ reload[t].roll)}
    /\ appStatus' \in {appStatus, IF reload[t].roll THEN "stopped" ELSE appStatus}
    /\ untidy' = TRUE
    /\ UNCHANGED <<resource, variables, pods, pending, req, made>>

CarryAmiss(t) == ReadAmiss(t) \/ CarryFails(t)

Roll ==
    /\ rolling /\ appStatus # "stopped"
    /\ pods' = secret /\ rolling' = FALSE
    /\ UNCHANGED <<resource, variables, secret, appStatus, pending, reload, req, bookkeeping>>

Stop ==
    /\ appStatus = "running" /\ PoolEvent
    /\ appStatus' = "stopped"
    /\ UNCHANGED <<resource, variables, deployed, pending, reload, req, made, untidy>>

\* The pods that come up read the Secret
Start ==
    /\ appStatus = "stopped" /\ PoolEvent
    /\ appStatus' = "running"
    /\ pods' = secret
    /\ UNCHANGED <<resource, variables, secret, rolling, pending, reload, req, made, untidy>>

-----------------------------------------------------------------------------
\* A client leaves, or a statement or call fails: the request ends where it is
Abandon(r) ==
    /\ req[r] # NoRequest /\ PoolEvent
    /\ End(r)
    /\ untidy' = TRUE
    /\ UNCHANGED <<resource, variables, deployed, appStatus, pending, reload, made>>

\* The process dies with its requests and tasks
PoolCrash ==
    /\ PoolEvent
    /\ req' = [r \in Request |-> NoRequest]
    /\ reload' = [t \in Reload |-> NoTask] /\ pending' = 0
    /\ appStatus' = IF appStatus = "deploying" THEN "stopped" ELSE appStatus
    /\ Untidy(pending > 0 \/ reload # [t \in Reload |-> NoTask]
              \/ req # [r \in Request |-> NoRequest])
    /\ UNCHANGED <<resource, variables, deployed, made>>

Changing(r) ==
    \/ SpawnReload(r) \/ ReloadLinked(r) \/ DeletePool(r) \/ Rename(r)
    \/ DropLocal(r) \/ Link(r)

Rotation(r) ==
    \/ Store(r) \/ RestartRedis(r) \/ CleanJob(r) \/ StartJob(r)
    \/ LookAtJob(r) \/ ReadExit(r) \/ AlreadyPublished(r) \/ FindPublished(r)
    \/ Refresh(r) \/ InsertPublished(r) \/ SyncBound(r) \/ ReloadConsumers(r)

RequestAmiss(r) == ExitMisread(r) \/ PublishLost(r) \/ TellLost(r) \/ Abandon(r)

PoolNext ==
    \/ \E r \in Request :
        \/ \E k \in Key : SetOwn(r, k) \/ DeleteOwn(r, k) \/ SetPool(r, k)
        \/ \E given \in SUBSET Key : SetOwnBulk(r, given)
        \/ \E v \in Var :
            \/ AskDeletePool(r, v) \/ AskLink(r, v) \/ Unlink(r, v)
            \/ \E k \in Key : AskRename(r, v, k)
        \/ Changing(r)
        \/ AskRotate(r) \/ Rotation(r)
        \/ RequestAmiss(r)
    \/ \E t \in Reload : BeginDeploy(t) \/ BeginReconcile(t) \/ Carry(t) \/ CarryAmiss(t)
    \/ RunJob \/ JobFails \/ ReloadLost \/ Roll \/ Stop \/ Start \/ PoolCrash

PoolSpec == PoolInit /\ [][PoolNext]_poolVars

-----------------------------------------------------------------------------
AtRest ==
    /\ req = [r \in Request |-> NoRequest]
    /\ reload = [t \in Reload |-> NoTask] /\ pending = 0
    /\ ~rolling

\* Types; a key names one variable of the pool, and links are to variables that exist.
PoolTypeOK ==
    /\ kind \in Resource /\ bound \in BOOLEAN
    /\ {stored, engine, made} \subseteq Val
    /\ job \in [st : {"none", "running", "succeeded", "failed"}, old : Val, val : Val]
    /\ pool \in [Var -> [key : Key \cup {"none"}, val : Val, by : {"manual", "resource"}]]
    /\ \A k \in Key : Cardinality(WithKey(k)) <= 1
    /\ links \subseteq {v \in Var : There(v)}
    /\ {own, secret, pods} \subseteq [Key -> Val]
    /\ appStatus \in {"running", "deploying", "stopped"}
    /\ {rolling, untidy} \subseteq BOOLEAN
    /\ pending \in Nat /\ poolEvents \in 0..MaxPoolEvents

\* Unless one of the named mishaps happened, when all is quiet a running instance runs
\* with the environment that its rows say: every change of a variable, of a link or of
\* a password has been carried through the Secret to the pods, in whatever order the
\* requests and the reloads they spawned overlapped (hot_reload_if_running and its
\* callers; "live links - always read fresh", app_env.rs:4).
PodsFollowRows == AtRest /\ ~untidy /\ appStatus = "running" =>
    \A k \in Key : Effective[k] # None => pods[k] = Effective[k]

\* Unless one of the named mishaps happened, when all is quiet the password in the
\* row and in the published variable is the one that the resource accepts
\* (rotate_database_password, rotate_bucket_credentials).
PasswordsAgree == AtRest /\ ~untidy =>
    /\ stored = engine
    /\ \A v \in Published : pool[v].val = engine
=============================================================================
