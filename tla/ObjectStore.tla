----------------------------- MODULE ObjectStore -----------------------------
(***************************************************************************)
(* One storage bucket (controllers/storage_controller.rs,                  *)
(* utils/storage_engine.rs): the rows of storage_objects, and the files    *)
(* they stand for on the host's disk or in S3.                             *)
(*                                                                         *)
(* An upload is two requests.  The first replaces any object of the same   *)
(* path and inserts a pending row; the second writes the body to the       *)
(* disk, and spawns a task that converts it, derives files from it and     *)
(* records the result.  Nothing is locked: one action is one statement or  *)
(* one access to the store.  The paths are those of one stem: "src" is     *)
(* a.png, "dst" is a.webp, to which a.png can be converted, and "der" is   *)
(* the file derived from either, a variant such as a_thumb.webp.  (The     *)
(* compressed copy of a text, b.js.br, is derived in the same way, under a *)
(* name that no other path shares.)                                        *)
(*                                                                         *)
(* What an upload may be refused for before it changes anything (limits,   *)
(* types, permissions) is left out.                                        *)
(***************************************************************************)
EXTENDS Naturals, FiniteSets

CONSTANTS
    Request,    \* requests, and the tasks they spawn, in flight at one time
    Provider,   \* the values of STORAGE_PROVIDER to look at
    MaxObjs,    \* bound: objects inserted
    MaxEvents   \* bound: requests and failures

ASSUME StoreConstantsOK ==
    /\ Provider \subseteq {"local", "s3"}
    /\ MaxObjs \in Nat /\ MaxEvents \in Nat

VARIABLES
    provider,   \* STORAGE_PROVIDER
    bucket,     \* the row of the bucket exists
    rows,       \* rows[o]: the row of object o
    disk,       \* disk[f]: the object whose bytes file f of the host holds
    cloud,      \* the same in S3
    req,        \* req[r]: where a request or its spawned task is
    events,     \* events so far
    untidy      \* ghost: one of the things happened that part rows from files

vars == <<provider, bucket, rows, disk, cloud, req, events, untidy>>

Obj == 1..MaxObjs
NoObj == 0
Path == {"src", "dst"}
File == Path \cup {"der"}
Kind == {"plain", "variants", "convert"}
Empty == [f \in File |-> NoObj]

NoRow == [st |-> "none", path |-> "src", kind |-> "plain", der |-> FALSE]
Idle == [at |-> "idle", obj |-> NoObj, path |-> "src", kind |-> "plain",
         der |-> FALSE, ok |-> TRUE, upload |-> FALSE]

Live(o) == rows[o].st \notin {"none", "gone"}
Held == {p \in Path : \E o \in Obj : Live(o) /\ rows[o].path = p}

Init ==
    /\ provider \in Provider
    /\ bucket = TRUE
    /\ rows = [o \in Obj |-> NoRow]
    /\ disk = Empty /\ cloud = Empty
    /\ req = [r \in Request |-> Idle]
    /\ events = 0 /\ untidy = FALSE

Event == events < MaxEvents /\ events' = events + 1
Goto(r, l) == req' = [req EXCEPT ![r].at = l]
End(r) == req' = [req EXCEPT ![r] = Idle]

-----------------------------------------------------------------------------
\* Who is at work on an object: it is being written or processed, or removed
Writing == {"create", "stream", "convert", "derive", "record"}
Syncing == {"sync", "syncDerived"}
Removing == {"clear", "drop"}
\* The files are removed and the rows are still there
Unfiled == {"drop", "dropBucket"}
On(o, labels) == {r \in Request : req[r].obj = o /\ req[r].at \in labels}

Untidy(harm) == untidy' = (untidy \/ harm)

\* The store that the physical deletion of objects works on
Store == IF provider = "s3" THEN cloud ELSE disk
Without(s, fs) == [f \in File |-> IF f \in fs THEN NoObj ELSE s[f]]
\* The errors of the single removals are dropped: what could not be removed stays
Delete(fs) ==
    IF provider = "s3"
    THEN cloud' = Without(cloud, fs) /\ UNCHANGED disk
    ELSE disk' = Without(disk, fs) /\ UNCHANGED cloud

FilesOf_OriginalOnly(path, der) == {path}  \* mutant: leaves what was derived
FilesOf(path, der) == {path} \cup (IF der THEN {"der"} ELSE {})

-----------------------------------------------------------------------------
(***************************************************************************)
(* initialize_upload, and delete_object, which ends after the same steps   *)
(***************************************************************************)

AskUpload(r, p, k) ==
    /\ req[r] = Idle /\ bucket
    /\ Event
    /\ req' = [req EXCEPT ![r] =
                [Idle EXCEPT !.at = "find", !.path = p, !.kind = k, !.upload = TRUE]]
    /\ UNCHANGED <<provider, bucket, rows, disk, cloud, untidy>>

FindSame(r) ==
    /\ req[r].at = "find"
    /\ IF req[r].path \in Held
       THEN \E o \in Obj :
                /\ Live(o) /\ rows[o].path = req[r].path
                /\ req' = [req EXCEPT ![r].at = "clear", ![r].obj = o,
                                      ![r].der = rows[o].der]
       ELSE Goto(r, "insert")
    /\ UNCHANGED <<provider, bucket, rows, disk, cloud, events, untidy>>

AskDelete(r, o) ==
    /\ req[r] = Idle /\ Live(o)
    /\ Event
    /\ req' = [req EXCEPT ![r] = [Idle EXCEPT !.at = "clear", !.obj = o,
                                    !.path = rows[o].path, !.der = rows[o].der]]
    /\ UNCHANGED <<provider, bucket, rows, disk, cloud, untidy>>

\* delete_object_physical, with the row as it was read
ClearFiles(r) ==
    /\ req[r].at = "clear"
    /\ Delete(FilesOf(req[r].path, req[r].der))
    /\ Untidy(~Live(req[r].obj) \/ On(req[r].obj, Writing \cup Syncing) # {})
    /\ Goto(r, "drop")
    /\ UNCHANGED <<provider, bucket, rows, events>>

\* Files that could not be removed stay, which nobody sees, or the client leaves
\* between two of them
ClearFails(r) ==
    /\ req[r].at = "clear"
    /\ Event
    /\ \E fs \in SUBSET FilesOf(req[r].path, req[r].der) : Delete(fs)
    /\ untidy' = TRUE
    /\ Goto(r, "drop") \/ End(r)
    /\ UNCHANGED <<provider, bucket, rows>>

DropRow(r) ==
    /\ req[r].at = "drop"
    /\ rows' = [rows EXCEPT ![req[r].obj].st = "gone"]
    /\ IF req[r].upload THEN Goto(r, "insert") ELSE End(r)
    /\ UNCHANGED <<provider, bucket, disk, cloud, events, untidy>>

\* The path is UNIQUE in the bucket, and the bucket must exist
InsertRow(r) ==
    /\ req[r].at = "insert"
    /\ \/ /\ bucket /\ req[r].path \notin Held
          /\ \E o \in Obj :
                /\ rows[o].st = "none"
                /\ \A n \in Obj : n < o => rows[n].st # "none"
                /\ rows' = [rows EXCEPT ![o] =
                        [st |-> "pending", path |-> req[r].path,
                         kind |-> req[r].kind, der |-> FALSE]]
          \* a task has converted another object to this path
          /\ Untidy(disk[req[r].path] # NoObj)
       \/ /\ ~bucket \/ req[r].path \in Held
          /\ UNCHANGED <<rows, untidy>>
    /\ End(r)
    /\ UNCHANGED <<provider, bucket, disk, cloud, events>>

-----------------------------------------------------------------------------
(***************************************************************************)
(* process_upload_stream                                                   *)
(***************************************************************************)

OpenStream(r, o) ==
    /\ req[r] = Idle
    /\ bucket /\ rows[o].st = "pending"
    /\ Event
    /\ req' = [req EXCEPT ![r] = [Idle EXCEPT !.at = "create", !.obj = o,
                                !.path = rows[o].path, !.kind = rows[o].kind]]
    /\ Untidy(On(o, Writing \cup Removing) # {})
    /\ UNCHANGED <<provider, bucket, rows, disk, cloud>>

\* The directories are created and the file truncated, whatever became of them
CreateFile(r) ==
    /\ req[r].at = "create"
    /\ disk' = [disk EXCEPT ![req[r].path] = req[r].obj]
    /\ Untidy(~Live(req[r].obj) \/ disk[req[r].path] \notin {NoObj, req[r].obj})
    /\ Goto(r, "stream")
    /\ UNCHANGED <<provider, bucket, rows, cloud, events>>

\* The body is on the disk: the answer is sent and the task goes on by itself
FinishStream(r) ==
    /\ req[r].at = "stream"
    /\ rows' = IF Live(req[r].obj)
               THEN [rows EXCEPT ![req[r].obj].st = "processing"] ELSE rows
    /\ Goto(r, CASE req[r].kind = "plain" -> "record"
                 [] req[r].kind = "convert" -> "convert"
                 [] req[r].kind = "variants" -> "derive")
    /\ UNCHANGED <<provider, bucket, disk, cloud, events, untidy>>

-----------------------------------------------------------------------------
(***************************************************************************)
(* The spawned task.  Where it has written files is told by its label: the *)
(* file of the object is at Current(r).                                    *)
(***************************************************************************)

Current(r) == IF req[r].kind = "convert" THEN "dst" ELSE req[r].path
\* Another object has, or will have, the file that this task is to write
Taken(r, f) ==
    \/ {disk[f], Store[f]} \ {NoObj, req[r].obj} # {}
    \/ \E o \in Obj \ {req[r].obj} :
        Live(o) /\ f \in FilesOf(rows[o].path, rows[o].der)

\* The image is written under its new name, and the original is removed
Convert(r) ==
    /\ req[r].at = "convert"
    /\ disk[req[r].path] # NoObj
    /\ disk' = [f \in File |-> IF f = "dst" THEN req[r].obj
                               ELSE IF f = req[r].path THEN NoObj ELSE disk[f]]
    /\ Untidy(Taken(r, "dst"))
    /\ Goto(r, "derive")
    /\ UNCHANGED <<provider, bucket, rows, cloud, events>>

Derive(r) ==
    /\ req[r].at = "derive"
    /\ disk[Current(r)] # NoObj
    /\ disk' = [disk EXCEPT !["der"] = req[r].obj]
    /\ Untidy(Taken(r, "der"))
    /\ req' = [req EXCEPT ![r].at = "record", ![r].der = TRUE]
    /\ UNCHANGED <<provider, bucket, rows, cloud, events>>

\* The original could not be removed, which nobody sees
ConvertLeaves(r) ==
    /\ req[r].at = "convert" /\ req[r].path # "dst"
    /\ disk[req[r].path] # NoObj
    /\ Event
    /\ disk' = [disk EXCEPT !["dst"] = req[r].obj]
    /\ untidy' = TRUE
    /\ Goto(r, "derive")
    /\ UNCHANGED <<provider, bucket, rows, cloud>>

\* The file is missing or cannot be read, before anything is written.  The name that a
\* conversion has already given to the file is not recorded.
ProcessingFails(r) ==
    /\ req[r].at \in {"convert", "derive"}
    /\ IF disk[IF req[r].at = "convert" THEN req[r].path ELSE Current(r)] = NoObj
       THEN UNCHANGED events ELSE Event
    /\ req' = [req EXCEPT ![r].at = "record", ![r].ok = FALSE]
    /\ Untidy(req[r].at = "derive" /\ req[r].kind = "convert")
    /\ UNCHANGED <<provider, bucket, rows, disk, cloud>>

\* An error halfway: the image half written under its new name, or the first of the
\* variants, are on the disk, and the row will not tell of them.  (The copy of a text
\* is recorded although it failed.)
ProcessingLeaves(r) ==
    /\ req[r].at \in {"convert", "derive"}
    /\ req[r].at = "convert" => req[r].path # "dst"
    /\ disk[IF req[r].at = "convert" THEN req[r].path ELSE Current(r)] # NoObj
    /\ Event
    /\ disk' = [disk EXCEPT ![IF req[r].at = "convert" THEN "dst" ELSE "der"] = req[r].obj]
    /\ req' = [req EXCEPT ![r].at = "record", ![r].ok = FALSE]
    /\ untidy' = TRUE
    /\ UNCHANGED <<provider, bucket, rows, cloud>>

NewPath(r) == IF req[r].ok THEN Current(r) ELSE req[r].path

\* The last UPDATE: it touches no row if the object was deleted, and it is refused,
\* which nobody sees, if another object has the path
Record(r) ==
    /\ req[r].at = "record"
    /\ LET o == req[r].obj
           refused == \E n \in Obj \ {o} : Live(n) /\ rows[n].path = NewPath(r)
       IN  /\ rows' = IF refused \/ ~Live(o) THEN rows ELSE
                [rows EXCEPT ![o] =
                    [st |-> IF req[r].ok THEN "ready" ELSE "failed",
                     path |-> NewPath(r), kind |-> req[r].kind,
                     der |-> req[r].der]]
           /\ Untidy(refused \/ ~Live(o) \/ On(o, Removing) # {})
    /\ IF req[r].ok /\ provider = "s3" THEN Goto(r, "sync") ELSE End(r)
    /\ UNCHANGED <<provider, bucket, disk, cloud, events>>

\* The UPDATE fails, which nobody sees: the row stays in processing
RecordLost(r) ==
    /\ req[r].at = "record"
    /\ Event
    /\ untidy' = TRUE
    /\ IF req[r].ok /\ provider = "s3" THEN Goto(r, "sync") ELSE End(r)
    /\ UNCHANGED <<provider, bucket, rows, disk, cloud>>

\* sync_object_to_s3_and_cleanup: the original is uploaded first and removed last
SyncOriginal(r) ==
    /\ req[r].at = "sync"
    /\ disk[Current(r)] # NoObj
    /\ cloud' = [cloud EXCEPT ![Current(r)] = disk[Current(r)]]
    /\ Untidy(~Live(req[r].obj) \/ On(req[r].obj, Removing) # {})
    /\ Goto(r, "syncDerived")
    /\ UNCHANGED <<provider, bucket, rows, disk, events>>

\* A copy on the host that could not be removed stays
SyncDerived(r) ==
    /\ req[r].at = "syncDerived"
    /\ req[r].der => disk["der"] # NoObj
    /\ cloud' = IF req[r].der THEN [cloud EXCEPT !["der"] = disk["der"]] ELSE cloud
    /\ \E fs \in SUBSET FilesOf(Current(r), req[r].der) :
        /\ disk' = Without(disk, fs)
        /\ IF fs = FilesOf(Current(r), req[r].der) THEN UNCHANGED events ELSE Event
    /\ Untidy(~Live(req[r].obj) \/ On(req[r].obj, Removing) # {})
    /\ End(r)
    /\ UNCHANGED <<provider, bucket, rows>>

\* A file is missing or S3 does not take it; the row is ready all the same
SyncFails(r) ==
    /\ req[r].at \in Syncing
    /\ Event
    /\ untidy' = TRUE
    /\ End(r)
    /\ UNCHANGED <<provider, bucket, rows, disk, cloud>>

Processing(r) ==
    \/ Convert(r) \/ Derive(r) \/ ProcessingFails(r) \/ Record(r)
    \/ SyncOriginal(r) \/ SyncDerived(r)

\* The errors that the task drops
ProcessingAmiss(r) ==
    ConvertLeaves(r) \/ ProcessingLeaves(r) \/ RecordLost(r) \/ SyncFails(r)

-----------------------------------------------------------------------------
(***************************************************************************)
(* delete_bucket, create_bucket with the same name, and a crash            *)
(***************************************************************************)

AskPurge(r) ==
    /\ req[r] = Idle /\ bucket
    /\ Event
    /\ Goto(r, "purge")
    /\ UNCHANGED <<provider, bucket, rows, disk, cloud, untidy>>

\* The files of every object that is there, then the directory on the host
Purge(r) ==
    /\ req[r].at = "purge"
    /\ LET fs == UNION {FilesOf(rows[o].path, rows[o].der) : o \in {n \in Obj : Live(n)}}
       IN  IF provider = "s3" THEN cloud' = Without(cloud, fs) /\ UNCHANGED disk
           ELSE disk' = Empty /\ UNCHANGED cloud
    /\ Untidy(\E q \in Request : req[q].at \notin {"idle", "purge"})
    /\ Goto(r, "dropBucket")
    /\ UNCHANGED <<provider, bucket, rows, events>>

\* Files that could not be removed stay, or the client leaves between two objects
PurgeFails(r) ==
    /\ req[r].at = "purge"
    /\ Event
    /\ \E fs \in SUBSET File : Delete(fs)
    /\ untidy' = TRUE
    /\ Goto(r, "dropBucket") \/ End(r)
    /\ UNCHANGED <<provider, bucket, rows>>

\* The rows of the objects go with the bucket's; an object that came in between
\* leaves its files behind
DropBucket(r) ==
    /\ req[r].at = "dropBucket"
    /\ bucket' = FALSE
    /\ rows' = [o \in Obj |-> IF Live(o) THEN [rows[o] EXCEPT !.st = "gone"]
                                         ELSE rows[o]]
    /\ Untidy(\E f \in File : Store[f] # NoObj)
    /\ End(r)
    /\ UNCHANGED <<provider, disk, cloud, events>>

CreateBucket(r) ==
    /\ req[r] = Idle /\ ~bucket
    /\ Event
    /\ bucket' = TRUE
    /\ UNCHANGED <<provider, rows, disk, cloud, req, untidy>>

\* A statement fails, a body breaks off, or the client leaves: the request ends where
\* it is.  A file that was begun stays, and its row stays pending; rows whose files
\* are gone stay as they were.
Abandon(r) ==
    /\ req[r].at \in {"find", "clear", "insert", "create", "stream", "purge"}
                        \cup Unfiled
    /\ Event
    /\ Untidy(req[r].at \in Unfiled)
    /\ End(r)
    /\ UNCHANGED <<provider, bucket, rows, disk, cloud>>

\* The process dies with every request and task in it
Crash ==
    /\ Event
    /\ Untidy(\E r \in Request : req[r] # Idle)
    /\ req' = [r \in Request |-> Idle]
    /\ UNCHANGED <<provider, bucket, rows, disk, cloud>>

-----------------------------------------------------------------------------
Requesting(r) ==
    \/ FindSame(r) \/ ClearFiles(r) \/ DropRow(r) \/ InsertRow(r)
    \/ CreateFile(r) \/ FinishStream(r) \/ Purge(r) \/ DropBucket(r)

RequestAmiss(r) == ClearFails(r) \/ PurgeFails(r) \/ Abandon(r)

Next ==
    \/ \E r \in Request :
        \/ \E p \in Path, k \in Kind : AskUpload(r, p, k)
        \/ \E o \in Obj : AskDelete(r, o) \/ OpenStream(r, o)
        \/ Requesting(r) \/ RequestAmiss(r)
        \/ Processing(r) \/ ProcessingAmiss(r)
        \/ AskPurge(r) \/ CreateBucket(r)
    \/ Crash

Spec == Init /\ [][Next]_vars

-----------------------------------------------------------------------------
ObjectRow == [st : {"none", "pending", "processing", "ready", "failed", "gone"},
              path : Path, kind : Kind, der : BOOLEAN]
Stage == {"idle", "find", "insert", "purge", "dropBucket"}
            \cup Writing \cup Syncing \cup Removing
RequestState == [at : Stage, obj : Obj \cup {NoObj}, path : Path, kind : Kind,
                 der : BOOLEAN, ok : BOOLEAN, upload : BOOLEAN]

\* Type correctness of the rows, the stores and the requests.
TypeOK ==
    /\ provider \in Provider /\ bucket \in BOOLEAN
    /\ rows \in [Obj -> ObjectRow]
    /\ disk \in [File -> Obj \cup {NoObj}] /\ cloud \in [File -> Obj \cup {NoObj}]
    /\ req \in [Request -> RequestState]
    /\ events \in 0..MaxEvents /\ untidy \in BOOLEAN

AtRest == \A r \in Request : req[r] = Idle

\* The answer of download_private_file is the object's own bytes
Downloads(o) == rows[o].st = "ready" /\ Store[rows[o].path] = o

\* Unless one of the named mishaps happened, whenever no request is under way every
\* object that is ready downloads its own bytes and has what was derived from it,
\* and every file of the store is the file of an object that has a row: an upload
\* that replaces another, a deletion and a conversion of names leave neither rows
\* without files nor files without rows (initialize_upload, process_upload_stream,
\* delete_object, delete_bucket, in whatever order they overlap).  And none is left
\* in processing, a status nothing but its task ends.
FilesMatchRows == AtRest /\ ~untidy =>
    /\ \A o \in Obj : rows[o].st = "ready" =>
        Downloads(o) /\ (rows[o].der => Store["der"] = o)
    /\ \A f \in File : Store[f] # NoObj =>
        /\ Live(Store[f])
        /\ f \in FilesOf(rows[Store[f]].path, rows[Store[f]].der)
    /\ \A o \in Obj : rows[o].st # "processing"
=============================================================================
