--------------------------- MODULE ManagedDatabase ---------------------------
(***************************************************************************)
(* One managed database (controllers/database_controller.rs): its row, its *)
(* StatefulSet, its backups and the data in it.                            *)
(*                                                                         *)
(* A request writes the row and leaves the work to a spawned task, which   *)
(* deploys and then marks the row; a deletion leaves the cluster to        *)
(* another task.  A backup dumps the data to a file named after the second *)
(* in which it began, records it, and removes what is beyond the           *)
(* retention.  A restore empties the database and loads a file.  Only      *)
(* changes of the settings take a lock.  One action is one statement, one  *)
(* call to Kubernetes or one command.                                      *)
(*                                                                         *)
(* The managed cron job is in CronScheduler, the password in EnvPool.      *)
(***************************************************************************)
EXTENDS Naturals, FiniteSets

CONSTANTS
    DatabaseRequest,    \* requests in flight
    Retention,          \* values of backup_count
    MaxSecond,          \* bound: the clock
    MaxDatabaseEvents   \* bound: requests, failures and crashes

ASSUME DatabaseConstantsOK ==
    Retention \subseteq Nat /\ MaxSecond \in Nat /\ MaxDatabaseEvents \in Nat

VARIABLES
    status, keep,   \* of the row: its status, and backup_count
    made,           \* backups made so far: their order by created_at
    task,           \* the spawned provisioning
    reaper,         \* the spawned deletion of the cluster's objects is still to come
    pod,            \* the pod of the StatefulSet, or "none" without a StatefulSet
    data,           \* what the database holds
    files,          \* files[s]: the backup file named after second s
    backups,        \* rows of database_backups
    req,            \* req[r]: a request
    second, databaseEvents,
    mishaps         \* ghost: the mishaps that happened, each at the window its name tells

row == <<status, keep, backups, made>>
cluster == <<task, reaper, pod>>
disk == <<data, files>>
databaseVars == <<row, cluster, disk, req, second, databaseEvents, mishaps>>

Second == 0..MaxSecond
Idle == [at |-> "idle", st |-> "none", file |-> 0, keep |-> 0, ord |-> 0, old |-> {}]
Exists == status \in {"provisioning", "running", "failed"}
NoFiles == [s \in Second |-> "none"]

DatabaseInit ==
    /\ \/ status = "none" /\ pod = "none" /\ files = NoFiles /\ backups = {}
       \/ /\ status = "running" /\ pod = "ready"
          /\ files = [NoFiles EXCEPT ![0] = "whole"]
          /\ backups = {[ord |-> 0, file |-> 0]}
    /\ keep \in Retention
    /\ task = [at |-> "none", watches |-> FALSE] /\ reaper = FALSE
    /\ data = "whole"
    /\ req = [r \in DatabaseRequest |-> Idle]
    /\ made = 0 /\ second = 0 /\ databaseEvents = 0 /\ mishaps = {}

DatabaseEvent == databaseEvents < MaxDatabaseEvents /\ databaseEvents' = databaseEvents + 1
Mishap(names) == mishaps' = mishaps \cup names
Named(name, happened) == IF happened THEN {name} ELSE {}
MoveTo(r, l) == req' = [req EXCEPT ![r].at = l]
End(r) == req' = [req EXCEPT ![r] = Idle]
At(l) == {r \in DatabaseRequest : req[r].at = l}
Deleting == At("clear") \cup At("drop") # {}
BackingUp(r) == req[r].at \in {"dump", "dumping", "insert", "choose", "prune", "pruned"}
Begin(r, state) ==
    /\ req[r] = Idle /\ DatabaseEvent
    /\ req' = [req EXCEPT ![r] = state]

-----------------------------------------------------------------------------
(***************************************************************************)
(* Provisioning                                                            *)
(***************************************************************************)

\* create_database; the Compose import creates one whose task waits for readiness
Create(r, watches) ==
    /\ status = "none"
    /\ Begin(r, [Idle EXCEPT !.at = "publish"])
    /\ status' = "provisioning"
    /\ task' = [task EXCEPT !.watches = watches]
    /\ UNCHANGED <<keep, backups, made, reaper, pod, disk, second, mishaps>>

\* The connection string is published, and the task spawned; a failure before that
\* leaves a row without a task
Publish(r) ==
    /\ req[r].at = "publish"
    /\ task' = [task EXCEPT !.at = "deploy"]
    /\ End(r)
    /\ UNCHANGED <<row, reaper, pod, disk, second, databaseEvents, mishaps>>

\* deploy_database: server-side apply
Deployed == pod' = IF pod = "none" THEN "starting" ELSE pod

Deploy ==
    /\ task.at = "deploy"
    /\ Deployed
    /\ task' = [task EXCEPT !.at = IF task.watches THEN "watch" ELSE "good"]
    /\ UNCHANGED <<row, reaper, disk, req, second, databaseEvents, mishaps>>

DeployFails_Dropped ==
    /\ task.at = "deploy" /\ DatabaseEvent
    /\ task' = [task EXCEPT !.at = "good"]
    /\ Mishap({"failure"})
    /\ UNCHANGED <<row, reaper, pod, disk, req, second>>

DeployFails ==
    /\ task.at = "deploy" /\ DatabaseEvent
    /\ task' = [task EXCEPT !.at = "bad"]
    /\ Mishap({"failure"})
    /\ UNCHANGED <<row, reaper, pod, disk, req, second>>

\* get_actual_db_status: a failed database stays failed
Actual(st) ==
    IF st = "failed" THEN st
    ELSE IF pod = "ready" THEN "running"
    ELSE IF pod = "failed" THEN "failed" ELSE "provisioning"

Watch ==
    /\ task.at = "watch" /\ pod \in {"ready", "failed"}
    /\ task' = [task EXCEPT !.at = IF Actual("provisioning") = "running" THEN "good" ELSE "bad"]
    /\ UNCHANGED <<row, reaper, pod, disk, req, second, databaseEvents, mishaps>>

\* Not ready after 150 looks
WatchTimesOut ==
    /\ task.at = "watch" /\ DatabaseEvent
    /\ task' = [task EXCEPT !.at = "bad"]
    /\ Mishap({"failure"})
    /\ UNCHANGED <<row, reaper, pod, disk, req, second>>

\* update_db_status, by id
SetStatus(st) == status' = IF Exists THEN st ELSE status

Mark ==
    /\ task.at \in {"good", "bad"}
    /\ SetStatus(IF task.at = "good" THEN "running" ELSE "failed")
    /\ task' = [task EXCEPT !.at = "none"]
    /\ UNCHANGED <<keep, backups, made, reaper, pod, disk, req, second, databaseEvents, mishaps>>

\* The statement fails, and its error is dropped
MarkLost ==
    /\ task.at \in {"good", "bad"} /\ DatabaseEvent
    /\ task' = [task EXCEPT !.at = "none"]
    /\ Mishap(Named("unmarked", task.at = "bad"))
    /\ UNCHANGED <<row, reaper, pod, disk, req, second>>

\* get_database brings the row in line with the pod
Get(r) ==
    /\ Exists /\ Actual(status) # status
    /\ Begin(r, [Idle EXCEPT !.at = "sync", !.st = Actual(status)])
    /\ UNCHANGED <<row, cluster, disk, second, mishaps>>

Sync(r) ==
    /\ req[r].at = "sync"
    /\ SetStatus(req[r].st)
    /\ End(r)
    /\ UNCHANGED <<keep, backups, made, cluster, disk, second, databaseEvents, mishaps>>

\* update_database_settings, under the workspace lock
Settings(r, n) ==
    /\ Exists /\ At("apply") \cup At("good") \cup At("bad") = {}
    /\ Begin(r, [Idle EXCEPT !.at = "apply"])
    /\ keep' = n
    /\ Mishap(Named("race", Deleting)
              \cup Named("resized", n # keep /\ \E q \in DatabaseRequest : BackingUp(q)))
    /\ UNCHANGED <<status, backups, made, cluster, disk, second>>

ApplySettings(r) ==
    /\ req[r].at = "apply"
    /\ Deployed
    /\ MoveTo(r, "good")
    /\ UNCHANGED <<row, task, reaper, disk, second, databaseEvents, mishaps>>

ApplyFails(r) ==
    /\ req[r].at = "apply" /\ DatabaseEvent
    /\ MoveTo(r, "bad")
    /\ Mishap({"failure"})
    /\ UNCHANGED <<row, cluster, disk, second>>

MarkApplied(r) ==
    /\ req[r].at \in {"good", "bad"}
    /\ SetStatus(IF req[r].at = "good" THEN "running" ELSE "failed")
    /\ End(r)
    /\ UNCHANGED <<keep, backups, made, cluster, disk, second, databaseEvents, mishaps>>

\* The request ends well also when its status is not written
StatusLost(r) ==
    /\ req[r].at \in {"sync", "good", "bad"} /\ DatabaseEvent
    /\ End(r)
    /\ UNCHANGED <<row, cluster, disk, second, mishaps>>

-----------------------------------------------------------------------------
(***************************************************************************)
(* Deletion                                                                *)
(***************************************************************************)

\* The cluster's objects are left to a task that nobody waits for
Delete(r) ==
    /\ Exists
    /\ Begin(r, [Idle EXCEPT !.at = "clear"])
    /\ reaper' = TRUE
    /\ Mishap(Named("race", task.at # "none" \/ \E q \in DatabaseRequest : req[q] # Idle))
    /\ UNCHANGED <<row, task, pod, disk, second>>

Reap ==
    /\ reaper
    /\ reaper' = FALSE /\ pod' = "none"
    /\ UNCHANGED <<row, task, disk, req, second, databaseEvents, mishaps>>

\* Kubernetes does not answer; the error is dropped
ReapFails ==
    /\ reaper /\ DatabaseEvent
    /\ reaper' = FALSE
    /\ Mishap({"left"})
    /\ UNCHANGED <<row, task, pod, disk, req, second>>

\* The directory with the files goes, and then the row, with the rows of its backups

RemoveDirectory(r) ==
    /\ req[r].at = "clear"
    /\ files' = NoFiles
    /\ MoveTo(r, "drop")
    /\ UNCHANGED <<row, cluster, data, second, databaseEvents, mishaps>>

\* ... whether the directory could be removed or not
RemoveDirectoryFails(r) ==
    /\ req[r].at = "clear" /\ DatabaseEvent
    /\ MoveTo(r, "drop")
    /\ Mishap({"remains"})
    /\ UNCHANGED <<row, cluster, disk, second>>

DropRow_KeepsBackups(r) ==
    /\ req[r].at = "drop"
    /\ status' = "gone"
    /\ End(r)
    /\ UNCHANGED <<keep, made, backups, cluster, disk, second, databaseEvents, mishaps>>

DropRow(r) ==
    /\ req[r].at = "drop"
    /\ status' = "gone" /\ backups' = {}
    /\ End(r)
    /\ UNCHANGED <<keep, made, cluster, disk, second, databaseEvents, mishaps>>

-----------------------------------------------------------------------------
(***************************************************************************)
(* Backups: perform_database_backup, delete_database_backup                *)
(***************************************************************************)

\* The stages of a backup, in their order
After(stage) == IF stage = "begin" THEN "dump" ELSE IF stage = "dump" THEN "insert" ELSE "choose"

\* A file, a row or a request has the name already
Taken(s) ==
    \/ files[s] # "none"
    \/ \E b \in backups \cup UNION {req[q].old : q \in DatabaseRequest} : b.file = s
    \/ \E q \in DatabaseRequest : BackingUp(q) /\ req[q].file = s

\* The row is read, backup_count with it, and the file named
Backup(r) ==
    /\ Exists
    /\ Begin(r, [Idle EXCEPT !.at = After("begin"), !.file = second, !.keep = keep])
    /\ Mishap(Named("race", Deleting) \cup Named("same", Taken(second)))
    /\ UNCHANGED <<row, cluster, disk, second>>

\* The shell creates the file, and the dump reads one snapshot of the data
StartDump(r) ==
    /\ req[r].at = "dump"
    /\ files' = [files EXCEPT ![req[r].file] = "partial"]
    /\ MoveTo(r, "dumping")
    /\ Mishap(Named("during", data # "whole"))
    /\ UNCHANGED <<row, cluster, data, second, databaseEvents>>

\* created_at is taken as the dump ends, before the row is written
Stamp(r) ==
    /\ made' = made + 1
    /\ req' = [req EXCEPT ![r].at = After("dump"), ![r].ord = made + 1]

Dump(r) ==
    /\ req[r].at = "dumping"
    /\ files' = [files EXCEPT ![req[r].file] = "whole"]
    /\ Stamp(r)
    /\ UNCHANGED <<status, keep, backups, cluster, data, second, databaseEvents, mishaps>>

\* Keys that Redis does not give and writes that fail are passed over, and a command
\* that was not the engine's may have ended well with less: a short file counts as done
DumpShort(r) ==
    /\ req[r].at = "dumping" /\ DatabaseEvent
    /\ Stamp(r)
    /\ Mishap({"short"})
    /\ UNCHANGED <<status, keep, backups, cluster, disk, second>>

\* A command that fails takes its file with it
DumpFails_Recorded(r) ==
    /\ req[r].at = "dumping" /\ DatabaseEvent
    /\ files' = [files EXCEPT ![req[r].file] = "none"]
    /\ Stamp(r)
    /\ UNCHANGED <<status, keep, backups, cluster, data, second, mishaps>>

DumpFails(r) ==
    /\ req[r].at = "dumping" /\ DatabaseEvent
    /\ files' = [files EXCEPT ![req[r].file] = "none"]
    /\ End(r)
    /\ UNCHANGED <<row, cluster, data, second, mishaps>>

\* ... but the file of a Redis dump, of a Job that is lost from sight, or one that
\* cannot be removed stays
DumpLeaves(r) ==
    /\ req[r].at = "dumping" /\ DatabaseEvent
    /\ End(r)
    /\ Mishap({"remnant"})
    /\ UNCHANGED <<row, cluster, disk, second>>

\* The foreign key refuses a backup of a database that is gone; its file stays
InsertBackup(r) ==
    /\ req[r].at = "insert"
    /\ IF Exists
       THEN /\ backups' = backups \cup {[ord |-> req[r].ord, file |-> req[r].file]}
            /\ MoveTo(r, After("insert"))
       ELSE UNCHANGED backups /\ End(r)
    /\ UNCHANGED <<status, keep, made, cluster, disk, second, databaseEvents, mishaps>>

\* SELECT ... ORDER BY created_at DESC OFFSET backup_count
Newer(b) == {c \in backups : c.ord > b.ord}
Beyond_Oldest(n) == {b \in backups : Cardinality({c \in backups : c.ord < b.ord}) >= n}
Beyond(n) == {b \in backups : Cardinality(Newer(b)) >= n}

ChooseOld(r) ==
    /\ req[r].at = "choose"
    /\ req' = [req EXCEPT ![r].at = "prune", ![r].old = Beyond(req[r].keep)]
    /\ UNCHANGED <<row, cluster, disk, second, databaseEvents, mishaps>>

\* A SELECT that fails chooses none, and the backup ends well
ChooseFails(r) ==
    /\ req[r].at = "choose" /\ DatabaseEvent
    /\ End(r)
    /\ UNCHANGED <<row, cluster, disk, second, mishaps>>

\* For each of them the file goes, and then the row
PruneFile(r) ==
    /\ req[r].at = "prune"
    /\ IF req[r].old = {} THEN End(r) /\ UNCHANGED files
       ELSE \E b \in req[r].old :
            /\ \A c \in req[r].old : c.ord <= b.ord
            /\ files' = [files EXCEPT ![b.file] = "none"]
            /\ req' = [req EXCEPT ![r].at = "pruned", ![r].ord = b.ord, ![r].old = @ \ {b}]
    /\ UNCHANGED <<row, cluster, data, second, databaseEvents, mishaps>>

\* A file that cannot be removed stays, and its row goes all the same
PruneKeepsFile(r) ==
    /\ req[r].at = "prune" /\ DatabaseEvent
    /\ \E b \in req[r].old :
        /\ \A c \in req[r].old : c.ord <= b.ord
        /\ req' = [req EXCEPT ![r].at = "pruned", ![r].ord = b.ord, ![r].old = @ \ {b}]
    /\ UNCHANGED <<row, cluster, disk, second, mishaps>>

Pruned(r) == {b \in backups : b.ord = req[r].ord}
PruneRow(r) ==
    /\ req[r].at = "pruned"
    /\ backups' = backups \ Pruned(r) /\ UNCHANGED made
    /\ MoveTo(r, "prune")
    /\ UNCHANGED <<status, keep, cluster, disk, second, databaseEvents, mishaps>>

\* The DELETE fails, and its error is dropped: the row stays without its file
PruneRowLost(r) ==
    /\ req[r].at = "pruned" /\ DatabaseEvent
    /\ MoveTo(r, "prune")
    /\ Mishap({"unpruned"})
    /\ UNCHANGED <<row, cluster, disk, second>>

DeleteBackup(r, b) ==
    /\ b \in backups
    /\ Begin(r, [Idle EXCEPT !.at = "unlist", !.ord = b.ord])
    /\ files' \in {files, [files EXCEPT ![b.file] = "none"]}
    /\ Mishap({"unlisted"})
    /\ UNCHANGED <<row, cluster, data, second>>

Unlist(r) ==
    /\ req[r].at = "unlist"
    /\ backups' = backups \ Pruned(r) /\ UNCHANGED made
    /\ End(r)
    /\ UNCHANGED <<status, keep, cluster, disk, second, databaseEvents, mishaps>>

-----------------------------------------------------------------------------
(***************************************************************************)
(* Restoring: restore_database_backup                                      *)
(***************************************************************************)

Restore(r, b) ==
    /\ Exists /\ b \in backups /\ files[b.file] # "none"
    /\ Begin(r, [Idle EXCEPT !.at = "empty", !.file = b.file])
    /\ Mishap(Named("restores", At("empty") \cup At("load") # {}))
    /\ UNCHANGED <<row, cluster, disk, second>>

\* The schema is dropped first, as the Job begins
Empty_Ends(r) ==
    /\ req[r].at = "empty"
    /\ data' = "torn"
    /\ End(r)
    /\ Mishap(Named("during", At("dumping") # {}))
    /\ UNCHANGED <<row, cluster, files, second, databaseEvents>>

Empty(r) ==
    /\ req[r].at = "empty"
    /\ data' = "torn"
    /\ MoveTo(r, "load")
    /\ Mishap(Named("during", At("dumping") # {}))
    /\ UNCHANGED <<row, cluster, files, second, databaseEvents>>

\* ... and the file loaded, if retention, a deletion or another backup has left it
Load(r) ==
    /\ req[r].at = "load"
    /\ data' = IF files[req[r].file] = "whole" THEN "whole" ELSE "torn"
    /\ Mishap(Named("pulled", files[req[r].file] = "none"))
    /\ End(r)
    /\ UNCHANGED <<row, cluster, files, second, databaseEvents>>

\* psql goes on after a statement that failed, and answers that all went well
LoadAmiss(r) ==
    /\ req[r].at = "load" /\ DatabaseEvent
    /\ data' = "torn"
    /\ Mishap({"unloaded"})
    /\ End(r)
    /\ UNCHANGED <<row, cluster, files, second>>

-----------------------------------------------------------------------------
PodReady ==
    /\ pod = "starting"
    /\ pod' = "ready"
    /\ UNCHANGED <<row, task, reaper, disk, req, second, databaseEvents, mishaps>>

PodFails ==
    /\ pod \in {"starting", "ready"} /\ DatabaseEvent
    /\ pod' \in {"starting", "failed"}
    /\ Mishap({"failure"})
    /\ UNCHANGED <<row, task, reaper, disk, req, second>>

\* A statement or a call that fails and is not passed over, a client that leaves
AbandonRequest(r) ==
    /\ req[r] # Idle /\ DatabaseEvent
    /\ End(r)
    /\ Mishap({"left"})
    /\ UNCHANGED <<row, cluster, disk, second>>

\* The death of the process, with its requests and its tasks
DatabaseCrash ==
    /\ DatabaseEvent
    /\ req' = [r \in DatabaseRequest |-> Idle]
    /\ task' = [task EXCEPT !.at = "none"] /\ reaper' = FALSE
    /\ Mishap(Named("left", task.at # "none" \/ reaper \/ \E r \in DatabaseRequest : req[r] # Idle))
    /\ UNCHANGED <<row, pod, disk, second>>

Tick ==
    /\ second < MaxSecond
    /\ second' = second + 1
    /\ UNCHANGED <<row, cluster, disk, req, databaseEvents, mishaps>>

Asking(r) ==
    \/ \E watches \in BOOLEAN : Create(r, watches)
    \/ Get(r) \/ (\E n \in Retention : Settings(r, n)) \/ Delete(r) \/ Backup(r)
    \/ \E b \in backups : DeleteBackup(r, b) \/ Restore(r, b)

Working(r) ==
    \/ Publish(r) \/ Sync(r) \/ ApplySettings(r) \/ MarkApplied(r)
    \/ RemoveDirectory(r) \/ DropRow(r) \/ StartDump(r) \/ Dump(r) \/ InsertBackup(r)
    \/ ChooseOld(r) \/ PruneFile(r) \/ PruneRow(r) \/ Unlist(r) \/ Empty(r) \/ Load(r)

\* What fails without the request noticing, or leaves something behind
GoingAmiss(r) ==
    \/ StatusLost(r) \/ RemoveDirectoryFails(r) \/ DumpShort(r) \/ DumpLeaves(r)
    \/ ChooseFails(r) \/ PruneKeepsFile(r) \/ PruneRowLost(r) \/ LoadAmiss(r)

DatabaseNext ==
    \/ \E r \in DatabaseRequest :
        \/ Asking(r) \/ Working(r) \/ GoingAmiss(r)
        \/ ApplyFails(r) \/ DumpFails(r) \/ AbandonRequest(r)
    \/ Deploy \/ DeployFails \/ Watch \/ WatchTimesOut \/ Mark \/ MarkLost \/ Reap \/ ReapFails
    \/ PodReady \/ PodFails \/ DatabaseCrash \/ Tick

DatabaseSpec == DatabaseInit /\ [][DatabaseNext]_databaseVars

-----------------------------------------------------------------------------
Except(names) == mishaps \cap names # {}
Quiet == req = [r \in DatabaseRequest |-> Idle]
Settled == Quiet /\ task.at = "none" /\ ~reaper

\* Types; rows of backups are of a database that exists, and no two are of one age.
DatabaseTypeOK ==
    /\ status \in {"none", "provisioning", "running", "failed", "gone"} /\ keep \in Retention
    /\ task \in [at : {"none", "deploy", "watch", "good", "bad"}, watches : BOOLEAN]
    /\ reaper \in BOOLEAN /\ pod \in {"none", "starting", "ready", "failed"}
    /\ data \in {"whole", "torn"}
    /\ files \in [Second -> {"none", "partial", "whole"}]
    /\ backups \subseteq [ord : Nat, file : Second]
    /\ \A b, c \in backups : b.ord = c.ord => b = c
    /\ ~Exists => backups = {}
    /\ second \in Second /\ databaseEvents \in 0..MaxDatabaseEvents

\* Unless two backups begin in one second, one overlaps with a restore or with the
\* deletion of the database, comes out short, its row's DELETE fails unseen, or a request
\* is cut off, when no request is at work every backup that is listed has its whole file,
\* however backups, their retention and deletions of single backups overlapped
\* (perform_database_backup).
RowsHaveFiles ==
    Quiet /\ ~Except({"same", "during", "race", "left", "short", "unpruned"}) =>
        \A b \in backups : files[b.file] = "whole"

\* Unless restores overlap with one another or with the backup that made their file, the
\* file came out short, is pulled away or was left by a failing dump, the engine does not
\* tell that loading failed, or a request is cut off, when no request is at work the
\* database holds all its data: what a restore empties it also fills (restore_sql_via_job).
DataIsWhole ==
    Quiet /\ ~Except({"restores", "same", "during", "pulled", "race", "left",
                      "short", "remnant", "unloaded"}) => data = "whole"

\* Retention removes a backup only while as many newer ones are listed as were to be kept
\* when the backup began, unless single backups are deleted or the retention is changed
\* meanwhile.  It is not that of two backups at once neither removes what the other has
\* made: the newer may remove the older at once, but enough that are newer yet are listed
\* then (perform_database_backup).
NewestKept == [][
    \A r \in DatabaseRequest : req[r].at = "prune" /\ req'[r].at = "pruned" =>
        \/ \A b \in backups : b.ord = req'[r].ord => Cardinality(Newer(b)) >= req[r].keep
        \/ Except({"unlisted", "resized"})]_databaseVars

\* Unless the deletion overlaps with another request or the provisioning, Kubernetes
\* does not answer, or it is cut off, a database that was deleted leaves no StatefulSet,
\* and no backup file unless their directory could not be removed (delete_database).
GoneIsGone ==
    Settled /\ status = "gone" /\ ~Except({"race", "left"}) =>
        pod = "none" /\ (Except({"remains"}) \/ files = NoFiles)

\* Unless it is deleted meanwhile or a task is cut off, a database that is told to be
\* running has its StatefulSet, one that is told to be provisioned has it too unless its
\* failure could not be written, and it is told to have failed only if something did fail
\* (update_db_status and its callers).
StatusIsTrue ==
    Settled /\ ~Except({"race", "left"}) =>
        /\ status = "running" => pod # "none"
        /\ status = "provisioning" => pod # "none" \/ Except({"unmarked"})
        /\ status = "failed" => "failure" \in mishaps

\* What the row tells of the database is so, also that it is gone.
RowIsTrue == StatusIsTrue /\ GoneIsGone
=============================================================================
