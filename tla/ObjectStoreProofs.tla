-------------------------- MODULE ObjectStoreProofs --------------------------
(***************************************************************************)
(* Theorems about ObjectStore for any requests, objects and number of      *)
(* events, with either provider.                                           *)
(***************************************************************************)
EXTENDS ObjectStore, TLAPS

LEMMA IdleTyped == Idle \in RequestState
BY DEF Idle, RequestState, Stage, Path, Kind

LEMMA TypeInit == Init => TypeOK
<1> SUFFICES ASSUME Init PROVE TypeOK
  OBVIOUS
<1>1. NoRow \in ObjectRow /\ Empty \in [File -> Obj \cup {NoObj}]
  BY DEF NoRow, ObjectRow, Path, Kind, Empty
<1>2. req \in [Request -> RequestState] /\ events \in 0..MaxEvents
  BY IdleTyped, StoreConstantsOK DEF Init
<1>3. bucket \in BOOLEAN /\ untidy \in BOOLEAN
  BY DEF Init
<1>4. QED
  BY <1>1, <1>2, <1>3 DEF Init, TypeOK

LEMMA EventTyped ==
    ASSUME TypeOK, Event \/ UNCHANGED events
    PROVE  events' \in 0..MaxEvents
BY StoreConstantsOK DEF TypeOK, Event

\* A request goes on with what it has read, or ends.
LEMMA RequestTyped ==
    ASSUME TypeOK, NEW r \in Request,
           \/ \E l \in Stage : Goto(r, l)
           \/ End(r)
           \/ \E s \in RequestState : req' = [req EXCEPT ![r] = s]
           \/ UNCHANGED req
    PROVE  req' \in [Request -> RequestState]
<1>1. req \in [Request -> RequestState]
  BY DEF TypeOK
<1>2. ASSUME NEW l \in Stage, Goto(r, l)
      PROVE  req' \in [Request -> RequestState]
  <2>1. [req[r] EXCEPT !.at = l] \in RequestState
    BY <1>1 DEF RequestState
  <2>2. QED
    BY <1>1, <1>2, <2>1 DEF Goto
<1>3. QED
  BY <1>1, <1>2, IdleTyped DEF End

LEMMA UntidyTyped ==
    ASSUME TypeOK, (\E harm \in BOOLEAN : Untidy(harm)) \/ untidy' = TRUE \/ UNCHANGED untidy
    PROVE  untidy' \in BOOLEAN
BY DEF TypeOK, Untidy

\* Each step of a request or of its task keeps the types.
LEMMA StepTypes ==
    ASSUME TypeOK, Next
    PROVE  TypeOK'
<1> DEFINE Kept == req' \in [Request -> RequestState]
           Counted == events' \in 0..MaxEvents
           Told == untidy' \in BOOLEAN
<1>0. /\ provider \in Provider /\ bucket \in BOOLEAN /\ untidy \in BOOLEAN
      /\ rows \in [Obj -> ObjectRow] /\ req \in [Request -> RequestState]
      /\ disk \in [File -> Obj \cup {NoObj}] /\ cloud \in [File -> Obj \cup {NoObj}]
  BY DEF TypeOK
<1>1. ASSUME NEW r \in Request, NEW p \in Path, NEW k \in Kind, AskUpload(r, p, k)
      PROVE  TypeOK'
  <2>1. [Idle EXCEPT !.at = "find", !.path = p, !.kind = k, !.upload = TRUE] \in RequestState
    BY IdleTyped DEF RequestState, Stage
  <2>2. Kept
    BY <1>1, RequestTyped, <2>1 DEF AskUpload
  <2>3. Counted
    BY <1>1, EventTyped DEF AskUpload
  <2>4. QED
    BY <1>0, <1>1, <2>1, <2>2, <2>3 DEF TypeOK, AskUpload
<1>2. ASSUME NEW r \in Request, FindSame(r)
      PROVE  TypeOK'
  <2>1. \A o \in Obj : [[[req[r] EXCEPT !.at = "clear"] EXCEPT !.obj = o] EXCEPT !.der = rows[o].der]
            \in RequestState
    BY <1>0 DEF RequestState, Stage, Removing, ObjectRow
  <2>2. "insert" \in Stage
    BY DEF Stage
  <2>3. \/ Goto(r, "insert")
        \/ \E o \in Obj : req' = [req EXCEPT ![r].at = "clear", ![r].obj = o, ![r].der = rows[o].der]
    BY <1>2 DEF FindSame
  <2>4. Goto(r, "insert") => Kept
    BY <2>2, RequestTyped
  <2>5. Kept
    BY <1>0, <2>1, <2>3, <2>4
  <2>6. QED
    BY <1>0, <1>2, <2>1, <2>2, <2>3, <2>4, <2>5 DEF TypeOK, FindSame
<1>3. ASSUME NEW r \in Request, NEW o \in Obj, AskDelete(r, o)
      PROVE  TypeOK'
  <2>1. [Idle EXCEPT !.at = "clear", !.obj = o, !.path = rows[o].path, !.der = rows[o].der]
            \in RequestState
    BY <1>0, IdleTyped DEF RequestState, Stage, Removing, ObjectRow
  <2>2. Kept
    BY <1>3, RequestTyped, <2>1 DEF AskDelete
  <2>3. Counted
    BY <1>3, EventTyped DEF AskDelete
  <2>4. QED
    BY <1>0, <1>3, <2>1, <2>2, <2>3 DEF TypeOK, AskDelete
<1>4. ASSUME NEW r \in Request, ClearFiles(r)
      PROVE  TypeOK'
  <2>1. Kept
    BY <1>4, RequestTyped DEF ClearFiles, Stage, Removing
  <2>2. disk' \in [File -> Obj \cup {NoObj}] /\ cloud' \in [File -> Obj \cup {NoObj}]
    BY <1>4, <1>0 DEF ClearFiles, Delete, Without
  <2>3. Told
    BY <1>4, <1>0, UntidyTyped DEF ClearFiles, Untidy
  <2>4. QED
    BY <1>0, <1>4, <2>1, <2>2, <2>3 DEF TypeOK, ClearFiles
<1>5. ASSUME NEW r \in Request, DropRow(r)
      PROVE  TypeOK'
  <2>1. Kept
    BY <1>5, RequestTyped DEF DropRow, Stage
  <2>2. rows' \in [Obj -> ObjectRow]
    BY <1>5, <1>0 DEF DropRow, ObjectRow
  <2>3. QED
    BY <1>0, <1>5, <2>1, <2>2 DEF TypeOK, DropRow
<1>6. ASSUME NEW r \in Request, InsertRow(r)
      PROVE  TypeOK'
  <2>1. req[r].obj \in Obj \cup {NoObj} /\ req[r].path \in Path /\ req[r].kind \in Kind
        /\ req[r].der \in BOOLEAN /\ req[r].ok \in BOOLEAN
    BY <1>0 DEF RequestState
  <2>2. Kept
    BY <1>6, RequestTyped DEF InsertRow
  <2>3. [st |-> "pending", path |-> req[r].path, kind |-> req[r].kind, der |-> FALSE] \in ObjectRow
    BY <2>1 DEF ObjectRow
  <2>4. rows' \in [Obj -> ObjectRow]
    BY <1>6, <1>0, <2>3 DEF InsertRow
  <2>5. Told
    BY <1>6, <1>0, UntidyTyped DEF InsertRow, Untidy
  <2>6. QED
    BY <1>0, <1>6, <2>1, <2>2, <2>3, <2>4, <2>5 DEF TypeOK, InsertRow
<1>7. ASSUME NEW r \in Request, NEW o \in Obj, OpenStream(r, o)
      PROVE  TypeOK'
  <2>1. [Idle EXCEPT !.at = "create", !.obj = o, !.path = rows[o].path, !.kind = rows[o].kind]
            \in RequestState
    BY <1>0, IdleTyped DEF RequestState, Stage, Writing, ObjectRow
  <2>2. Kept
    BY <1>7, RequestTyped, <2>1 DEF OpenStream
  <2>3. Counted
    BY <1>7, EventTyped DEF OpenStream
  <2>4. Told
    BY <1>7, <1>0, UntidyTyped DEF OpenStream, Untidy
  <2>5. QED
    BY <1>0, <1>7, <2>1, <2>2, <2>3, <2>4 DEF TypeOK, OpenStream
<1>8. ASSUME NEW r \in Request, CreateFile(r)
      PROVE  TypeOK'
  <2>1. req[r].obj \in Obj \cup {NoObj} /\ req[r].path \in Path /\ req[r].kind \in Kind
        /\ req[r].der \in BOOLEAN /\ req[r].ok \in BOOLEAN
    BY <1>0 DEF RequestState
  <2>2. Kept
    BY <1>8, RequestTyped DEF CreateFile, Stage, Writing
  <2>3. disk' \in [File -> Obj \cup {NoObj}]
    BY <1>8, <1>0, <2>1 DEF CreateFile
  <2>4. Told
    BY <1>8, <1>0, UntidyTyped DEF CreateFile, Untidy
  <2>5. QED
    BY <1>0, <1>8, <2>1, <2>2, <2>3, <2>4 DEF TypeOK, CreateFile
<1>9. ASSUME NEW r \in Request, FinishStream(r)
      PROVE  TypeOK'
  <2>1. req[r].obj \in Obj \cup {NoObj} /\ req[r].path \in Path /\ req[r].kind \in Kind
        /\ req[r].der \in BOOLEAN /\ req[r].ok \in BOOLEAN
    BY <1>0 DEF RequestState
  <2>2. (CASE req[r].kind = "plain" -> "record" [] req[r].kind = "convert" -> "convert"
          [] req[r].kind = "variants" -> "derive") \in Stage
    BY <2>1 DEF Kind, Stage, Writing
  <2>3. Kept
    BY <1>9, RequestTyped, <2>2 DEF FinishStream
  <2>4. rows' \in [Obj -> ObjectRow]
    BY <1>9, <1>0 DEF FinishStream, ObjectRow
  <2>5. QED
    BY <1>0, <1>9, <2>1, <2>2, <2>3, <2>4 DEF TypeOK, FinishStream
<1>10. ASSUME NEW r \in Request, Abandon(r)
      PROVE  TypeOK'
  <2>1. Kept
    BY <1>10, RequestTyped DEF Abandon
  <2>2. Counted
    BY <1>10, EventTyped DEF Abandon
  <2>3. Told
    BY <1>10, <1>0, UntidyTyped DEF Abandon, Untidy
  <2>4. QED
    BY <1>0, <1>10, <2>1, <2>2, <2>3 DEF TypeOK, Abandon
<1>11. ASSUME NEW r \in Request, Convert(r)
      PROVE  TypeOK'
  <2>1. req[r].obj \in Obj \cup {NoObj} /\ req[r].path \in Path /\ req[r].kind \in Kind
        /\ req[r].der \in BOOLEAN /\ req[r].ok \in BOOLEAN
    BY <1>0 DEF RequestState
  <2>2. Kept
    BY <1>11, RequestTyped DEF Convert, Stage, Writing
  <2>3. disk' \in [File -> Obj \cup {NoObj}]
    BY <1>11, <1>0, <2>1 DEF Convert
  <2>4. Told
    BY <1>11, <1>0, UntidyTyped DEF Convert, Untidy
  <2>5. QED
    BY <1>0, <1>11, <2>1, <2>2, <2>3, <2>4 DEF TypeOK, Convert
<1>12. ASSUME NEW r \in Request, Derive(r)
      PROVE  TypeOK'
  <2>1. req[r].obj \in Obj \cup {NoObj} /\ req[r].path \in Path /\ req[r].kind \in Kind
        /\ req[r].der \in BOOLEAN /\ req[r].ok \in BOOLEAN
    BY <1>0 DEF RequestState
  <2>2. [[req[r] EXCEPT !.at = "record"] EXCEPT !.der = TRUE] \in RequestState
    BY <1>0 DEF RequestState, Stage, Writing
  <2>3. req' = [req EXCEPT ![r].at = "record", ![r].der = TRUE]
    BY <1>12 DEF Derive
  <2>4. Kept
    BY <1>0, <2>2, <2>3
  <2>5. disk' \in [File -> Obj \cup {NoObj}]
    BY <1>12, <1>0, <2>1 DEF Derive
  <2>6. Told
    BY <1>12, <1>0, UntidyTyped DEF Derive, Untidy
  <2>7. QED
    BY <1>0, <1>12, <2>1, <2>2, <2>3, <2>4, <2>5, <2>6 DEF TypeOK, Derive
<1>13. ASSUME NEW r \in Request, ProcessingFails(r)
      PROVE  TypeOK'
  <2>1. [[req[r] EXCEPT !.at = "record"] EXCEPT !.ok = FALSE] \in RequestState
    BY <1>0 DEF RequestState, Stage, Writing
  <2>2. req' = [req EXCEPT ![r].at = "record", ![r].ok = FALSE]
    BY <1>13 DEF ProcessingFails
  <2>3. Kept
    BY <1>0, <2>1, <2>2
  <2>4. Counted
    BY <1>13, EventTyped DEF ProcessingFails
  <2>5. Told
    BY <1>13, <1>0, UntidyTyped DEF ProcessingFails, Untidy
  <2>6. QED
    BY <1>0, <1>13, <2>1, <2>2, <2>3, <2>4, <2>5 DEF TypeOK, ProcessingFails
<1>14. ASSUME NEW r \in Request, Record(r)
      PROVE  TypeOK'
  <2>1. req[r].obj \in Obj \cup {NoObj} /\ req[r].path \in Path /\ req[r].kind \in Kind
        /\ req[r].der \in BOOLEAN /\ req[r].ok \in BOOLEAN
    BY <1>0 DEF RequestState
  <2>2. NewPath(r) \in Path
    BY <2>1 DEF NewPath, Current, Path
  <2>3. [st |-> IF req[r].ok THEN "ready" ELSE "failed", path |-> NewPath(r), kind |-> req[r].kind,
         der |-> req[r].der] \in ObjectRow
    BY <2>1, <2>2 DEF ObjectRow
  <2>4. rows' \in [Obj -> ObjectRow]
    BY <1>14, <1>0, <2>3 DEF Record
  <2>5. Kept
    BY <1>14, RequestTyped DEF Record, Stage, Syncing
  <2>6. Told
    BY <1>14, <1>0, UntidyTyped DEF Record, Untidy
  <2>7. QED
    BY <1>0, <1>14, <2>1, <2>2, <2>3, <2>4, <2>5, <2>6 DEF TypeOK, Record
<1>15. ASSUME NEW r \in Request, SyncOriginal(r)
      PROVE  TypeOK'
  <2>1. req[r].obj \in Obj \cup {NoObj} /\ req[r].path \in Path /\ req[r].kind \in Kind
        /\ req[r].der \in BOOLEAN /\ req[r].ok \in BOOLEAN
    BY <1>0 DEF RequestState
  <2>2. Current(r) \in File
    BY <2>1 DEF Current, File, Path
  <2>3. cloud' \in [File -> Obj \cup {NoObj}]
    BY <1>15, <1>0, <2>2 DEF SyncOriginal
  <2>4. Kept
    BY <1>15, RequestTyped DEF SyncOriginal, Stage, Syncing
  <2>5. Told
    BY <1>15, <1>0, UntidyTyped DEF SyncOriginal, Untidy
  <2>6. QED
    BY <1>0, <1>15, <2>1, <2>2, <2>3, <2>4, <2>5 DEF TypeOK, SyncOriginal
<1>16. ASSUME NEW r \in Request, SyncDerived(r)
      PROVE  TypeOK'
  <2>1. "der" \in File
    BY DEF File
  <2>2. disk' \in [File -> Obj \cup {NoObj}] /\ cloud' \in [File -> Obj \cup {NoObj}]
    BY <1>16, <1>0, <2>1 DEF SyncDerived, Without
  <2>3. Kept
    BY <1>16, RequestTyped DEF SyncDerived
  <2>4. Told
    BY <1>16, <1>0, UntidyTyped DEF SyncDerived, Untidy
  <2>5. Counted
    BY <1>16, EventTyped DEF SyncDerived
  <2>6. QED
    BY <1>0, <1>16, <2>1, <2>2, <2>3, <2>4, <2>5 DEF TypeOK, SyncDerived
<1>17. ASSUME NEW r \in Request, SyncFails(r)
      PROVE  TypeOK'
  <2>1. Kept
    BY <1>17, RequestTyped DEF SyncFails
  <2>2. Counted
    BY <1>17, EventTyped DEF SyncFails
  <2>3. QED
    BY <1>0, <1>17, <2>1, <2>2 DEF TypeOK, SyncFails
<1>18. ASSUME NEW r \in Request, AskPurge(r)
      PROVE  TypeOK'
  <2>1. Kept
    BY <1>18, RequestTyped DEF AskPurge, Stage
  <2>2. Counted
    BY <1>18, EventTyped DEF AskPurge
  <2>3. QED
    BY <1>0, <1>18, <2>1, <2>2 DEF TypeOK, AskPurge
<1>19. ASSUME NEW r \in Request, Purge(r)
      PROVE  TypeOK'
  <2>1. Kept
    BY <1>19, RequestTyped DEF Purge, Stage
  <2>2. Empty \in [File -> Obj \cup {NoObj}]
    BY DEF Empty
  <2>3. disk' \in [File -> Obj \cup {NoObj}] /\ cloud' \in [File -> Obj \cup {NoObj}]
    BY <1>19, <1>0, <2>2 DEF Purge, Without
  <2>4. Told
    BY <1>19, <1>0, UntidyTyped DEF Purge, Untidy
  <2>5. QED
    BY <1>0, <1>19, <2>1, <2>2, <2>3, <2>4 DEF TypeOK, Purge
<1>20. ASSUME NEW r \in Request, DropBucket(r)
      PROVE  TypeOK'
  <2>1. Kept
    BY <1>20, RequestTyped DEF DropBucket
  <2>2. rows' \in [Obj -> ObjectRow]
    BY <1>20, <1>0 DEF DropBucket, ObjectRow
  <2>3. Told
    BY <1>20, <1>0, UntidyTyped DEF DropBucket, Untidy
  <2>4. QED
    BY <1>0, <1>20, <2>1, <2>2, <2>3 DEF TypeOK, DropBucket
<1>21. ASSUME NEW r \in Request, CreateBucket(r)
      PROVE  TypeOK'
  <2>1. Counted
    BY <1>21, EventTyped DEF CreateBucket
  <2>2. QED
    BY <1>0, <1>21, <2>1 DEF TypeOK, CreateBucket
<1>22. ASSUME Crash
      PROVE  TypeOK'
  <2>1. Kept
    BY <1>22, IdleTyped DEF Crash
  <2>2. Counted
    BY <1>22, EventTyped DEF Crash
  <2>3. Told
    BY <1>22, <1>0, UntidyTyped DEF Crash, Untidy
  <2>4. QED
    BY <1>0, <1>22, <2>1, <2>2, <2>3 DEF TypeOK, Crash
<1>23. ASSUME NEW r \in Request, ClearFails(r) \/ PurgeFails(r)
      PROVE  TypeOK'
  <2>1. Kept
    BY <1>23, RequestTyped DEF ClearFails, PurgeFails, Stage, Removing
  <2>2. Counted
    BY <1>23, EventTyped DEF ClearFails, PurgeFails
  <2>3. disk' \in [File -> Obj \cup {NoObj}] /\ cloud' \in [File -> Obj \cup {NoObj}]
    BY <1>23, <1>0 DEF ClearFails, PurgeFails, Delete, Without
  <2>4. UNCHANGED <<provider, bucket, rows>> /\ Told
    BY <1>23 DEF ClearFails, PurgeFails
  <2>5. QED
    BY <1>0, <2>1, <2>2, <2>3, <2>4 DEF TypeOK
<1>24. ASSUME NEW r \in Request, ConvertLeaves(r) \/ ProcessingLeaves(r) \/ RecordLost(r)
      PROVE  TypeOK'
  <2>1. req[r].obj \in Obj \cup {NoObj} /\ req[r].path \in Path
    BY <1>0 DEF RequestState
  <2>2. Counted
    BY <1>24, EventTyped DEF ConvertLeaves, ProcessingLeaves, RecordLost
  <2>3. disk' \in [File -> Obj \cup {NoObj}]
    BY <1>24, <1>0, <2>1 DEF ConvertLeaves, ProcessingLeaves, RecordLost
  <2>4. UNCHANGED <<provider, bucket, rows, cloud>> /\ Told
    BY <1>24 DEF ConvertLeaves, ProcessingLeaves, RecordLost
  <2>5. ProcessingLeaves(r) => Kept
    <3>1. [[req[r] EXCEPT !.at = "record"] EXCEPT !.ok = FALSE] \in RequestState
      BY <1>0 DEF RequestState, Stage, Writing
    <3>2. ProcessingLeaves(r) => req' = [req EXCEPT ![r].at = "record", ![r].ok = FALSE]
      BY DEF ProcessingLeaves
    <3> QED
      BY <1>0, <3>1, <3>2
  <2>6. Kept
    BY <1>24, <2>5, RequestTyped DEF ConvertLeaves, RecordLost, Stage, Writing, Syncing
  <2>7. QED
    BY <1>0, <2>2, <2>3, <2>4, <2>6 DEF TypeOK
<1>25. QED
  BY <1>1, <1>2, <1>3, <1>4, <1>5, <1>6, <1>7, <1>8, <1>9, <1>10, <1>11, <1>12, <1>13,
     <1>14, <1>15, <1>16, <1>17, <1>18, <1>19, <1>20, <1>21, <1>22, <1>23, <1>24
     DEF Next, Requesting, RequestAmiss, Processing, ProcessingAmiss

LEMMA TypeNext == TypeOK /\ [Next]_vars => TypeOK'
<1>1. TypeOK /\ UNCHANGED vars => TypeOK'
  BY DEF TypeOK, vars
<1>2. QED
  BY <1>1, StepTypes

\* Whatever the requests, objects and events: every variable of the bucket, of its
\* files and of the requests keeps its type.
THEOREM TypeCorrect == Spec => []TypeOK
BY TypeInit, TypeNext, PTL DEF Spec

-----------------------------------------------------------------------------
(***************************************************************************)
(* Files and rows.  While nothing untidy happened, one request at most is  *)
(* at work on an object; it holds on the disk the files it has written,    *)
(* which are no other object's; and what a store keeps is held so, or is   *)
(* the file of a row.                                                      *)
(***************************************************************************)

Worker == Writing \cup Syncing
Recorded == {"record"} \cup Syncing

\* The files that a worker has written and not yet let go of
Holds(r) ==
    CASE req[r].at \in {"stream", "convert"} -> {req[r].path}
      [] req[r].at = "derive" -> {Current(r)}
      [] req[r].at \in Recorded -> FilesOf(NewPath(r), req[r].der)
      [] OTHER -> {}
Files(o) == FilesOf(rows[o].path, rows[o].der)

\* Ids are used once, and a request that has one in hand has that of an object there was
Fresh ==
    /\ \A r \in Request : req[r].at \in Worker \cup Removing => req[r].obj \in Obj
    /\ \A o \in Obj : rows[o].st = "none" =>
        /\ \A r \in Request : req[r].obj # o
        /\ \A f \in File : disk[f] # o /\ cloud[f] # o

\* How far a request is, and what became of the row it works for
Known(r) ==
    LET o == req[r].obj
        s == rows[o].st
    IN  /\ req[r].at \in {"create", "stream"} => s \in {"pending", "gone"}
        /\ req[r].at \in {"convert", "derive", "record"} => s \in {"processing", "gone"}
        /\ req[r].at \in Syncing => s \in {"ready", "gone"} /\ req[r].ok /\ provider = "s3"
        /\ req[r].at \in Writing \ {"record"} => req[r].ok /\ ~req[r].der
        /\ req[r].at = "convert" => req[r].kind = "convert"
        /\ req[r].at \in Writing /\ Live(o) => rows[o].path = req[r].path
        /\ req[r].at \in Syncing /\ Live(o) => rows[o].path = NewPath(r) /\ rows[o].der = req[r].der
        /\ req[r].at = "clear" /\ Live(o) => rows[o].path = req[r].path /\ rows[o].der = req[r].der

\* The files in hand are the object's own, and no row has them but its own
HoldsOwn(r) ==
    /\ \A f \in Holds(r) :
        /\ disk[f] = req[r].obj
        /\ \A n \in Obj : Live(n) /\ n # req[r].obj => f \notin Files(n)
    /\ req[r].at = "syncDerived" => cloud[NewPath(r)] = req[r].obj
    /\ req[r].at = "drop" => /\ On(req[r].obj, Worker) = {}
                             /\ \A f \in File : Store[f] # req[r].obj

OneWorker == \A r, q \in Request :
    r # q /\ req[r].at \in Worker /\ req[q].at \in Worker => req[r].obj # req[q].obj
Distinct == \A o, n \in Obj : Live(o) /\ Live(n) /\ o # n => Files(o) \cap Files(n) = {}

\* Each file of the store is in hand, or is the file of a row
Owned == \A f \in File : \A o \in Obj :
    Store[f] = o =>
        IF provider = "s3"
        THEN rows[o].st = "ready" /\ f \in Files(o)
        ELSE /\ Live(o)
             /\ \A r \in On(o, Worker \ {"create"}) : f \in Holds(r)
             /\ On(o, Worker \ {"create"}) = {} => f \in Files(o)

\* An object that is ready has its files, unless they are still to be sent or are removed
Whole == \A o \in Obj :
    /\ rows[o].st = "ready"
    /\ On(o, {"drop"} \cup Syncing) = {} /\ \A q \in Request : req[q].at # "dropBucket"
    => \A f \in Files(o) : Store[f] = o
InProcess == \A o \in Obj :
    /\ rows[o].st = "processing" => On(o, {"convert", "derive", "record"}) # {}
    /\ rows[o].st \in {"pending", "processing"} => ~rows[o].der

Good ==
    /\ \A r \in Request : Known(r) /\ HoldsOwn(r)
    /\ OneWorker /\ Distinct /\ Owned /\ Whole /\ InProcess
Matched == ~untidy => Good

\* A step of one request leaves the others where they are
Others(r) == \A q \in Request \ {r} : req'[q] = req[q]

LEMMA PathsAreFiles ==
    ASSUME TypeOK
    PROVE  /\ \A r \in Request : /\ req[r].path \in Path /\ Current(r) \in Path /\ NewPath(r) \in Path
                                 /\ Holds(r) \subseteq File /\ (Holds(r) # {} => req[r].at \in Worker)
           /\ \A o \in Obj : Files(o) \subseteq File /\ rows[o].path \in Path
<1>1. \A p \in Path, d \in BOOLEAN : FilesOf(p, d) \subseteq File
  BY DEF FilesOf, File, Path
<1>2. \A o \in Obj : rows[o].path \in Path /\ rows[o].der \in BOOLEAN
  BY DEF TypeOK, ObjectRow
<1>3. \A o \in Obj : Files(o) \subseteq File
  BY <1>1, <1>2 DEF Files
<1>4. \A r \in Request : req[r].path \in Path /\ req[r].der \in BOOLEAN
  BY DEF TypeOK, RequestState
<1>5. \A r \in Request : Current(r) \in Path /\ NewPath(r) \in Path
  BY <1>4 DEF Current, NewPath, Path
<1>6. \A r \in Request : Holds(r) \subseteq File
  BY <1>1, <1>4, <1>5 DEF Holds, File
<1>7. \A r \in Request : Holds(r) # {} => req[r].at \in Worker
  BY DEF Holds, Worker, Recorded, Writing, Syncing
<1> QED
  BY <1>2, <1>3, <1>4, <1>5, <1>6, <1>7

LEMMA SameRequest ==
    ASSUME NEW q, req'[q] = req[q]
    PROVE  Holds(q)' = Holds(q) /\ NewPath(q)' = NewPath(q) /\ Current(q)' = Current(q)
BY DEF Holds, NewPath, Current

LEMMA SameRow ==
    ASSUME NEW o, rows'[o] = rows[o]
    PROVE  Files(o)' = Files(o) /\ Live(o)' = Live(o)
BY DEF Files, Live

LEMMA KnownStays ==
    ASSUME NEW q, Known(q), req'[q] = req[q], UNCHANGED provider,
           req[q].at \in Worker \cup {"clear"} =>
              rows'[req[q].obj] = rows[req[q].obj] \/ rows'[req[q].obj].st = "gone"
    PROVE  Known(q)'
<1>1. CASE req[q].at \notin Worker \cup {"clear"}
  BY <1>1 DEF Known, Worker, Writing, Syncing
<1>2. CASE rows'[req[q].obj].st = "gone"
  BY <1>2 DEF Known, Live, Writing, Syncing
<1>3. CASE rows'[req[q].obj] = rows[req[q].obj]
  BY <1>3, SameRequest, SameRow DEF Known
<1> QED
  BY <1>1, <1>2, <1>3

\* What a request is after it went on or ended
LEMMA Moves ==
    ASSUME TypeOK, NEW r \in Request
    PROVE  /\ \A l : Goto(r, l) =>
                /\ Others(r) /\ req'[r].at = l /\ req'[r].obj = req[r].obj
                /\ req'[r].path = req[r].path /\ req'[r].kind = req[r].kind
                /\ req'[r].der = req[r].der /\ req'[r].ok = req[r].ok
           /\ End(r) => Others(r) /\ req'[r] = Idle
<1>1. req \in [Request -> RequestState] /\ req[r] \in RequestState
  BY DEF TypeOK
<1>2. ASSUME NEW l, Goto(r, l)
      PROVE  Others(r) /\ req'[r] = [req[r] EXCEPT !.at = l]
  BY <1>1, <1>2 DEF Goto, Others
<1>3. ASSUME NEW l, req'[r] = [req[r] EXCEPT !.at = l]
      PROVE  /\ req'[r].at = l /\ req'[r].obj = req[r].obj
             /\ req'[r].path = req[r].path /\ req'[r].kind = req[r].kind
             /\ req'[r].der = req[r].der /\ req'[r].ok = req[r].ok
  BY <1>1, <1>3 DEF RequestState
<1>4. End(r) => Others(r) /\ req'[r] = Idle
  BY <1>1 DEF End, Others
<1> QED
  BY <1>2, <1>3, <1>4

LEMMA IdleIsIdle == Idle.at = "idle" /\ Idle.obj = NoObj /\ ~Idle.der /\ Idle.ok /\ NoObj \notin Obj
BY DEF Idle, NoObj, Obj

\* Files and requests get no object but the one a request has in hand, or one that has a row
LEMMA FreshStep ==
    ASSUME TypeOK, Fresh, NEW r \in Request, Others(r),
           \A o \in Obj : rows'[o].st = "none" => rows[o].st = "none",
           \/ req'[r].obj \in {NoObj, req[r].obj}
           \/ req'[r].obj \in Obj /\ rows[req'[r].obj].st # "none",
           req'[r].at \in Worker \cup Removing => req'[r].obj \in Obj,
           \A f \in File : disk'[f] \in {NoObj, req[r].obj} \/ \E g \in File : disk'[f] = disk[g],
           \A f \in File : cloud'[f] = NoObj \/ \E g \in File : cloud'[f] \in {cloud[g], disk[g]}
    PROVE  Fresh'
<1>1. ASSUME NEW q \in Request, req'[q].at \in Worker \cup Removing
      PROVE  req'[q].obj \in Obj
  BY <1>1 DEF Fresh, Others
<1>2. ASSUME NEW o \in Obj, rows'[o].st = "none"
      PROVE  /\ \A q \in Request : req'[q].obj # o
             /\ \A f \in File : disk'[f] # o /\ cloud'[f] # o
  <2>1. /\ rows[o].st = "none" /\ o # NoObj
        /\ \A q \in Request : req[q].obj # o
        /\ \A f \in File : disk[f] # o /\ cloud[f] # o
    BY <1>2, IdleIsIdle DEF Fresh
  <2> QED
    BY <2>1 DEF Others
<1> QED
  BY <1>1, <1>2 DEF Fresh

LEMMA FreshNext ==
    ASSUME TypeOK, Fresh, [Next]_vars
    PROVE  Fresh'
<1> DEFINE Rows == \A o \in Obj : rows'[o].st = "none" => rows[o].st = "none"
           Disk(r) == \A f \in File : disk'[f] \in {NoObj, req[r].obj} \/ \E g \in File : disk'[f] = disk[g]
           Cloud == \A f \in File : cloud'[f] = NoObj \/ \E g \in File : cloud'[f] \in {cloud[g], disk[g]}
<1>0. /\ req \in [Request -> RequestState] /\ rows \in [Obj -> ObjectRow]
      /\ disk \in [File -> Obj \cup {NoObj}] /\ cloud \in [File -> Obj \cup {NoObj}]
      /\ Path \subseteq File /\ "der" \in File
  BY DEF TypeOK, File
<1>u. /\ UNCHANGED rows => Rows
      /\ \A r \in Request : UNCHANGED disk => Disk(r)
      /\ UNCHANGED cloud => Cloud
  OBVIOUS
<1>w. ASSUME NEW r \in Request, NEW l, Goto(r, l),
             req[r].at \in Worker \cup Removing \/ l \notin Worker \cup Removing,
             Rows, Disk(r), Cloud
      PROVE  Fresh'
  <2>1. Others(r) /\ req'[r].at = l /\ req'[r].obj = req[r].obj
    BY <1>w, Moves
  <2>2. l \in Worker \cup Removing => req[r].obj \in Obj
    BY <1>w DEF Fresh
  <2> QED
    BY <1>w, <2>1, <2>2, FreshStep
<1>e. ASSUME NEW r \in Request, End(r), Rows, Disk(r), Cloud
      PROVE  Fresh'
  <2>1. Others(r) /\ req'[r].obj = NoObj /\ req'[r].at = "idle"
    BY <1>e, Moves, IdleIsIdle
  <2>2. "idle" \notin Worker \cup Removing
    BY DEF Worker, Writing, Syncing, Removing
  <2> QED
    BY <1>e, <2>1, <2>2, FreshStep
<1>l. /\ "insert" \notin Worker \cup Removing /\ "find" \notin Worker \cup Removing
      /\ "purge" \notin Worker \cup Removing /\ "dropBucket" \notin Worker \cup Removing
      /\ {"create", "stream", "convert", "derive", "record", "sync", "syncDerived", "clear", "drop"}
            \subseteq Worker \cup Removing
  BY DEF Worker, Writing, Syncing, Removing
<1>1. ASSUME NEW r \in Request, NEW p \in Path, NEW k \in Kind, AskUpload(r, p, k)
      PROVE  Fresh'
  <2>1. req'[r] = [Idle EXCEPT !.at = "find", !.path = p, !.kind = k, !.upload = TRUE] /\ Others(r)
    BY <1>0, <1>1 DEF AskUpload, Others
  <2>2. req'[r].at = "find" /\ req'[r].obj = NoObj
    BY <2>1 DEF Idle
  <2> QED
    BY <1>1, <1>l, <1>u, <2>1, <2>2, FreshStep DEF AskUpload
<1>2. ASSUME NEW r \in Request, FindSame(r)
      PROVE  Fresh'
  <2>1. UNCHANGED <<rows, disk, cloud>>
    BY <1>2, Zenon DEF FindSame
  <2>2. CASE req[r].path \notin Held
    <3>1. Goto(r, "insert")
      BY <1>2, <2>2 DEF FindSame
    <3> QED
      BY <1>l, <1>u, <1>w, <2>1, <3>1
  <2>3. CASE req[r].path \in Held
    <3>1. \E o \in Obj : /\ Live(o) /\ rows[o].path = req[r].path
                         /\ req' = [req EXCEPT ![r].at = "clear", ![r].obj = o, ![r].der = rows[o].der]
      BY <1>2, <2>3, Zenon DEF FindSame
    <3>2. PICK o \in Obj : /\ Live(o)
                           /\ req' = [req EXCEPT ![r].at = "clear", ![r].obj = o, ![r].der = rows[o].der]
      BY <3>1, Zenon
    <3>3. Others(r) /\ req'[r].obj = o
      BY <1>0, <3>2 DEF Others, RequestState
    <3>4. rows[o].st # "none"
      BY <3>2 DEF Live
    <3> QED
      BY <1>u, <2>1, <3>3, <3>4, FreshStep
  <2> QED
    BY <2>2, <2>3
<1>3. ASSUME NEW r \in Request, NEW o \in Obj, AskDelete(r, o)
      PROVE  Fresh'
  <2>1. req'[r] = [Idle EXCEPT !.at = "clear", !.obj = o, !.path = rows[o].path, !.der = rows[o].der]
        /\ Others(r)
    BY <1>0, <1>3 DEF AskDelete, Others
  <2>2. req'[r].obj = o
    BY <2>1 DEF Idle
  <2> QED
    BY <1>3, <1>u, <2>1, <2>2, FreshStep DEF AskDelete, Live
<1>4. ASSUME NEW r \in Request, ClearFiles(r)
      PROVE  Fresh'
  <2>1. Disk(r) /\ Cloud
    BY <1>0, <1>4 DEF ClearFiles, Delete, Without
  <2> QED
    BY <1>4, <1>l, <1>u, <1>w, <2>1 DEF ClearFiles
<1>5. ASSUME NEW r \in Request, DropRow(r)
      PROVE  Fresh'
  <2>1. Rows
    BY <1>0, <1>5 DEF DropRow, ObjectRow
  <2> QED
    BY <1>5, <1>l, <1>u, <1>w, <1>e, <2>1 DEF DropRow
<1>6. ASSUME NEW r \in Request, InsertRow(r)
      PROVE  Fresh'
  <2>1. Rows
    BY <1>0, <1>6 DEF InsertRow
  <2> QED
    BY <1>6, <1>u, <1>e, <2>1 DEF InsertRow
<1>7. ASSUME NEW r \in Request, NEW o \in Obj, OpenStream(r, o)
      PROVE  Fresh'
  <2>1. req'[r] = [Idle EXCEPT !.at = "create", !.obj = o, !.path = rows[o].path, !.kind = rows[o].kind]
        /\ Others(r)
    BY <1>0, <1>7 DEF OpenStream, Others
  <2>2. req'[r].obj = o
    BY <2>1 DEF Idle
  <2> QED
    BY <1>7, <1>u, <2>1, <2>2, FreshStep DEF OpenStream
<1>8. ASSUME NEW r \in Request, CreateFile(r)
      PROVE  Fresh'
  <2>1. Disk(r)
    BY <1>0, <1>8 DEF CreateFile
  <2> QED
    BY <1>8, <1>l, <1>u, <1>w, <2>1 DEF CreateFile
<1>9. ASSUME NEW r \in Request, FinishStream(r)
      PROVE  Fresh'
  <2>1. Rows
    BY <1>0, <1>9 DEF FinishStream, Live, ObjectRow
  <2> QED
    BY <1>9, <1>l, <1>u, <1>w, <2>1 DEF FinishStream
<1>10. ASSUME NEW r \in Request, Abandon(r)
      PROVE  Fresh'
  BY <1>10, <1>u, <1>e DEF Abandon
<1>11. ASSUME NEW r \in Request, Convert(r)
      PROVE  Fresh'
  <2>1. Disk(r)
    BY <1>0, <1>11 DEF Convert
  <2> QED
    BY <1>11, <1>l, <1>u, <1>w, <2>1 DEF Convert
<1>12. ASSUME NEW r \in Request, Derive(r)
      PROVE  Fresh'
  <2>1. Disk(r)
    BY <1>0, <1>12 DEF Derive
  <2>2. Others(r) /\ req'[r].obj = req[r].obj
    BY <1>0, <1>12 DEF Derive, Others, RequestState
  <2>3. req[r].obj \in Obj
    BY <1>12, <1>l DEF Fresh, Derive
  <2> QED
    BY <1>12, <1>u, <2>1, <2>2, <2>3, FreshStep DEF Derive
<1>13. ASSUME NEW r \in Request, ProcessingFails(r)
      PROVE  Fresh'
  <2>2. Others(r) /\ req'[r].obj = req[r].obj
    BY <1>0, <1>13 DEF ProcessingFails, Others, RequestState
  <2>3. req[r].obj \in Obj
    BY <1>13, <1>l DEF Fresh, ProcessingFails
  <2> QED
    BY <1>13, <1>u, <2>2, <2>3, FreshStep DEF ProcessingFails
<1>14. ASSUME NEW r \in Request, Record(r)
      PROVE  Fresh'
  <2>1. Rows
    BY <1>0, <1>14 DEF Record, Live, ObjectRow
  <2> QED
    BY <1>14, <1>l, <1>u, <1>w, <1>e, <2>1 DEF Record
<1>15. ASSUME NEW r \in Request, SyncOriginal(r)
      PROVE  Fresh'
  <2>1. Current(r) \in File
    BY PathsAreFiles, <1>0
  <2>2. Cloud
    BY <1>0, <1>15, <2>1 DEF SyncOriginal
  <2> QED
    BY <1>15, <1>l, <1>u, <1>w, <2>2 DEF SyncOriginal
<1>16. ASSUME NEW r \in Request, SyncDerived(r)
      PROVE  Fresh'
  <2>1. Disk(r) /\ Cloud
    BY <1>0, <1>16 DEF SyncDerived, Without
  <2> QED
    BY <1>16, <1>u, <1>e, <2>1 DEF SyncDerived
<1>17. ASSUME NEW r \in Request, SyncFails(r)
      PROVE  Fresh'
  BY <1>17, <1>u, <1>e DEF SyncFails
<1>18. ASSUME NEW r \in Request, AskPurge(r)
      PROVE  Fresh'
  BY <1>18, <1>l, <1>u, <1>w DEF AskPurge
<1>19. ASSUME NEW r \in Request, Purge(r)
      PROVE  Fresh'
  <2>1. Disk(r) /\ Cloud
    BY <1>0, <1>19 DEF Purge, Without, Empty
  <2> QED
    BY <1>19, <1>l, <1>u, <1>w, <2>1 DEF Purge
<1>20. ASSUME NEW r \in Request, DropBucket(r)
      PROVE  Fresh'
  <2>1. Rows
    BY <1>0, <1>20 DEF DropBucket, Live, ObjectRow
  <2> QED
    BY <1>20, <1>u, <1>e, <2>1 DEF DropBucket
<1>21. ASSUME UNCHANGED <<rows, disk, cloud, req>>
      PROVE  Fresh'
  BY <1>21 DEF Fresh
<1>22. ASSUME Crash
      PROVE  Fresh'
  <2>1. \A q \in Request : req'[q].obj = NoObj /\ req'[q].at = "idle"
    BY <1>22, IdleIsIdle DEF Crash
  <2>2. "idle" \notin Worker \cup Removing
    BY DEF Worker, Writing, Syncing, Removing
  <2> QED
    BY <1>22, <2>1, <2>2, IdleIsIdle DEF Fresh, Crash
<1>23. ASSUME NEW r \in Request, ClearFails(r) \/ PurgeFails(r)
      PROVE  Fresh'
  <2>1. Disk(r) /\ Cloud
    BY <1>0, <1>23 DEF ClearFails, PurgeFails, Delete, Without
  <2>2. Rows
    BY <1>23 DEF ClearFails, PurgeFails
  <2>3. \/ End(r)
        \/ Goto(r, "drop") /\ req[r].at \in Worker \cup Removing
        \/ Goto(r, "dropBucket")
    BY <1>23, <1>l DEF ClearFails, PurgeFails
  <2> QED
    BY <1>l, <1>w, <1>e, <2>1, <2>2, <2>3
<1>24. ASSUME NEW r \in Request, ConvertLeaves(r) \/ RecordLost(r)
      PROVE  Fresh'
  <2>1. Disk(r)
    BY <1>0, <1>24 DEF ConvertLeaves, RecordLost
  <2>2. Rows /\ Cloud
    BY <1>24 DEF ConvertLeaves, RecordLost
  <2>3. \/ End(r)
        \/ (Goto(r, "derive") \/ Goto(r, "sync")) /\ req[r].at \in Worker \cup Removing
    BY <1>24, <1>l DEF ConvertLeaves, RecordLost
  <2> QED
    BY <1>w, <1>e, <2>1, <2>2, <2>3
<1>25. ASSUME NEW r \in Request, ProcessingLeaves(r)
      PROVE  Fresh'
  <2>1. Disk(r)
    BY <1>0, <1>25 DEF ProcessingLeaves
  <2>2. Others(r) /\ req'[r].obj = req[r].obj
    BY <1>0, <1>25 DEF ProcessingLeaves, Others, RequestState
  <2>3. req[r].obj \in Obj
    BY <1>25, <1>l DEF Fresh, ProcessingLeaves
  <2> QED
    BY <1>25, <1>u, <2>1, <2>2, <2>3, FreshStep DEF ProcessingLeaves
<1> QED
  BY <1>1, <1>2, <1>3, <1>4, <1>5, <1>6, <1>7, <1>8, <1>9, <1>10, <1>11, <1>12, <1>13,
     <1>14, <1>15, <1>16, <1>17, <1>18, <1>19, <1>20, <1>21, <1>22, <1>23, <1>24, <1>25
     DEF Next, vars, Requesting, RequestAmiss, Processing, ProcessingAmiss, CreateBucket

\* A request that is not at work on an object comes and goes
LEMMA QuietStep ==
    ASSUME TypeOK, TypeOK', Fresh, Good, UNCHANGED <<provider, rows, disk, cloud>>,
           NEW r \in Request, Others(r),
           req[r].at \notin Worker \cup {"drop", "dropBucket"},
           req'[r].at \notin Worker \cup {"drop", "dropBucket"},
           req'[r].at = "clear" => Known(r)'
    PROVE  Good'
<1>0. Store' = Store
  BY DEF Store
<1>1. \A o : Files(o)' = Files(o) /\ Live(o)' = Live(o)
  BY SameRow
<1>2. \A q \in Request \ {r} : Holds(q)' = Holds(q) /\ NewPath(q)' = NewPath(q)
  BY SameRequest DEF Others
<1>3. Holds(r)' = {}
  BY DEF Holds, Worker, Recorded, Writing, Syncing
<1>4. \A o : \A L \in SUBSET (Worker \cup {"drop"}) : On(o, L)' = On(o, L)
  BY DEF On, Others
<1>5. \A q \in Request : Known(q)'
  <2>1. Known(r)'
    BY DEF Known, Worker, Writing, Syncing
  <2> QED
    BY <2>1, KnownStays DEF Good, Others
<1>6. \A q \in Request : HoldsOwn(q)'
  <2>1. ASSUME NEW q \in Request \ {r}
        PROVE  HoldsOwn(q)'
    BY <1>0, <1>1, <1>2, <1>4, <2>1 DEF Good, HoldsOwn, Others
  <2>2. HoldsOwn(r)'
    BY <1>3 DEF HoldsOwn, Worker, Syncing
  <2> QED
    BY <2>1, <2>2
<1>7. OneWorker' /\ Distinct' /\ InProcess'
  <2>1. OneWorker'
    BY DEF Good, OneWorker, Others
  <2>2. Distinct'
    BY <1>1 DEF Good, Distinct
  <2>3. InProcess'
    BY <1>4 DEF Good, InProcess, Worker, Writing
  <2> QED
    BY <2>1, <2>2, <2>3
<1>8. Owned'
  <2>1. \A o : \A q \in On(o, Worker \ {"create"}) : Holds(q)' = Holds(q)
    BY <1>2 DEF On
  <2>2. \A o : On(o, Worker \ {"create"})' = On(o, Worker \ {"create"})
    BY <1>4
  <2> SUFFICES ASSUME NEW f \in File, NEW o \in Obj, Store'[f] = o
               PROVE  IF provider = "s3"
                      THEN rows[o].st = "ready" /\ f \in Files(o)
                      ELSE /\ Live(o)
                           /\ \A q \in On(o, Worker \ {"create"})' : f \in Holds(q)'
                           /\ On(o, Worker \ {"create"})' = {} => f \in Files(o)
    BY <1>1 DEF Owned
  <2>3. Store[f] = o
    BY <1>0
  <2>4. IF provider = "s3"
        THEN rows[o].st = "ready" /\ f \in Files(o)
        ELSE /\ Live(o)
             /\ \A q \in On(o, Worker \ {"create"}) : f \in Holds(q)
             /\ On(o, Worker \ {"create"}) = {} => f \in Files(o)
    BY <2>3 DEF Good, Owned
  <2> QED
    BY <2>1, <2>2, <2>4
<1>9. Whole'
  <2>1. \A o : On(o, {"drop"} \cup Syncing)' = On(o, {"drop"} \cup Syncing)
    BY <1>4 DEF Worker
  <2>2. (\A q \in Request : req'[q].at # "dropBucket") => \A q \in Request : req[q].at # "dropBucket"
    BY DEF Others
  <2> QED
    BY <1>0, <1>1, <2>1, <2>2 DEF Good, Whole
<1> QED
  BY <1>5, <1>6, <1>7, <1>8, <1>9 DEF Good

\* What the step of a worker may do: to its own object's row and files and to no
\* other's.  What it leaves is to be shown of that object alone.
LEMMA WorkerStep ==
    ASSUME TypeOK, TypeOK', Fresh, Good, UNCHANGED provider,
           NEW r \in Request, NEW o \in Obj, Others(r), req[r].obj = o, req[r].at \in Worker,
           \/ req'[r].obj = o /\ req'[r].at \in Worker
           \/ req'[r] = Idle,
           \A n \in Obj \ {o} : rows'[n] = rows[n],
           \A f \in File : \/ disk'[f] = disk[f]
                           \/ disk[f] \in {NoObj, o} /\ disk'[f] \in {NoObj, o},
           \A f \in File : \/ cloud'[f] = cloud[f]
                           \/ cloud[f] \in {NoObj, o} /\ cloud'[f] \in {NoObj, o},
           Known(r)', \A q \in Request \ {r} : req[q].obj = o /\ req[q].at = "clear" => Known(q)',
           HoldsOwn(r)',
           Live(o)' => Live(o) /\ Files(o)' \subseteq Files(o) \cup Holds(r),
           \A f \in File : Store'[f] = o =>
                IF provider = "s3"
                THEN rows'[o].st = "ready" /\ f \in Files(o)'
                ELSE /\ Live(o)'
                     /\ IF req'[r].at \in Worker \ {"create"} THEN f \in Holds(r)' ELSE f \in Files(o)',
           rows'[o].st = "ready" /\ req'[r].at \notin Syncing => \A f \in Files(o)' : Store'[f] = o,
           rows'[o].st = "processing" => req'[r].at \in {"convert", "derive", "record"},
           rows'[o].st \in {"pending", "processing"} => ~rows'[o].der
    PROVE  Good'
<1>0. /\ Idle.at = "idle" /\ Idle.obj = NoObj /\ NoObj \notin Obj
      /\ "idle" \notin Worker /\ "drop" \notin Worker /\ "clear" \notin Worker
      /\ "dropBucket" \notin Worker
      /\ Syncing \subseteq Worker /\ {"convert", "derive", "record"} \subseteq Worker
      /\ "syncDerived" \in Syncing
  BY IdleIsIdle DEF Worker, Writing, Syncing
<1>1. \A x \in Obj \ {o} : Files(x)' = Files(x) /\ Live(x)' = Live(x)
  BY SameRow
<1>2. \A q \in Request \ {r} : Holds(q)' = Holds(q) /\ NewPath(q)' = NewPath(q)
  BY SameRequest DEF Others
<1>3. \A q \in Request \ {r} : req[q].at \in Worker => req[q].obj # o /\ req[q].obj \in Obj
  BY <1>0 DEF Good, OneWorker, Fresh
<1>4. \A q \in Request : req[q].at = "drop" => req[q].obj # o /\ req[q].obj \in Obj
  BY DEF Good, HoldsOwn, On, Fresh, Removing
<1>5. \A x \in Obj \ {o} : \A f \in File : /\ (disk'[f] = x) = (disk[f] = x)
                                           /\ (cloud'[f] = x) = (cloud[f] = x)
                                           /\ (Store'[f] = x) = (Store[f] = x)
  BY <1>0 DEF Store
<1>6. \A q \in Request : Known(q)'
  <2>1. ASSUME NEW q \in Request \ {r}, ~(req[q].obj = o /\ req[q].at = "clear")
        PROVE  Known(q)'
    <3>1. Known(q) /\ req'[q] = req[q]
      BY DEF Good, Others
    <3>2. CASE req[q].at \in Worker \cup {"clear"}
      <4>1. req[q].obj # o /\ req[q].obj \in Obj
        BY <1>3, <2>1, <3>2 DEF Fresh, Removing
      <4> QED
        BY <3>1, <4>1, KnownStays
    <3>3. CASE req[q].at \notin Worker \cup {"clear"}
      BY <3>1, <3>3, KnownStays
    <3> QED
      BY <3>2, <3>3
  <2> QED
    BY <2>1
<1>7. \A q \in Request \ {r} : HoldsOwn(q)'
  <2> SUFFICES ASSUME NEW q \in Request \ {r}
               PROVE  HoldsOwn(q)'
    OBVIOUS
  <2>1. req'[q] = req[q] /\ HoldsOwn(q)
    BY DEF Others, Good
  <2>2. ASSUME NEW f \in Holds(q)
        PROVE  disk'[f] = req[q].obj /\ f \in File /\ req[q].obj # o /\ req[q].obj \in Obj
    BY <1>3, <1>5, <2>1, PathsAreFiles DEF HoldsOwn
  <2>3. ASSUME NEW f \in Holds(q), NEW n \in Obj, Live(n)', n # req[q].obj
        PROVE  f \notin Files(n)'
    <3>1. CASE n # o
      BY <1>1, <2>1, <2>3, <3>1 DEF HoldsOwn
    <3>2. CASE n = o
      <4>1. f \notin Files(o)
        BY <2>1, <2>3, <3>2 DEF HoldsOwn
      <4>2. f \notin Holds(r)
        BY <2>1, <2>2, <2>3 DEF Good, HoldsOwn
      <4> QED
        BY <2>3, <3>2, <4>1, <4>2
    <3> QED
      BY <3>1, <3>2
  <2>4. ASSUME req[q].at = "syncDerived"
        PROVE  cloud'[NewPath(q)] = req[q].obj
    <3>1. req[q].obj # o /\ req[q].obj \in Obj /\ NewPath(q) \in File
      BY <1>0, <1>3, <2>4, PathsAreFiles DEF File
    <3> QED
      BY <1>5, <2>1, <2>4, <3>1 DEF HoldsOwn
  <2>5. ASSUME req[q].at = "drop"
        PROVE  /\ \A p \in Request : ~(req'[p].obj = req[q].obj /\ req'[p].at \in Worker)
               /\ \A f \in File : Store'[f] # req[q].obj
    <3>1. req[q].obj # o /\ req[q].obj \in Obj
      BY <1>4, <2>5
    <3>2. /\ \A p \in Request : ~(req[p].obj = req[q].obj /\ req[p].at \in Worker)
          /\ \A f \in File : Store[f] # req[q].obj
      BY <2>1, <2>5 DEF HoldsOwn, On
    <3>3. \A p \in Request : ~(req'[p].obj = req[q].obj /\ req'[p].at \in Worker)
      BY <1>0, <3>1, <3>2 DEF Others
    <3> QED
      BY <1>5, <3>1, <3>2, <3>3
  <2> QED
    BY <1>2, <2>1, <2>2, <2>3, <2>4, <2>5 DEF HoldsOwn, On
<1>8. OneWorker'
  BY <1>0, <1>3 DEF OneWorker, Good, Others
<1>9. Distinct'
  <2>1. ASSUME NEW n \in Obj \ {o}, Live(n), Live(o)', NEW f \in Files(o)'
        PROVE  f \notin Files(n)
    BY <2>1 DEF Good, Distinct, HoldsOwn
  <2> SUFFICES ASSUME NEW x \in Obj, NEW n \in Obj, Live(x)', Live(n)', x # n
               PROVE  Files(x)' \cap Files(n)' = {}
    BY DEF Distinct
  <2>2. CASE x = o
    BY <1>1, <2>1, <2>2
  <2>3. CASE n = o
    BY <1>1, <2>1, <2>3
  <2>4. CASE x # o /\ n # o
    BY <1>1, <2>4 DEF Good, Distinct
  <2> QED
    BY <2>2, <2>3, <2>4
<1>10. \A x \in Obj \ {o} : \A L \in SUBSET (Worker \cup {"drop"}) : On(x, L)' = On(x, L)
  <2> SUFFICES ASSUME NEW x \in Obj \ {o}, NEW L \in SUBSET (Worker \cup {"drop"})
               PROVE  On(x, L)' = On(x, L)
    OBVIOUS
  <2>1. ~(req[r].obj = x /\ req[r].at \in L) /\ ~(req'[r].obj = x /\ req'[r].at \in L)
    BY <1>0
  <2> QED
    BY <2>1 DEF On, Others
<1>11. Owned'
  <2> SUFFICES ASSUME NEW f \in File, NEW x \in Obj, Store'[f] = x
               PROVE  IF provider = "s3"
                      THEN rows'[x].st = "ready" /\ f \in Files(x)'
                      ELSE /\ Live(x)'
                           /\ \A q \in On(x, Worker \ {"create"})' : f \in Holds(q)'
                           /\ On(x, Worker \ {"create"})' = {} => f \in Files(x)'
    BY DEF Owned
  <2>1. CASE x # o
    <3>1. Store[f] = x
      BY <1>5, <2>1
    <3>2. On(x, Worker \ {"create"})' = On(x, Worker \ {"create"})
      BY <1>10, <2>1
    <3>3. \A q \in On(x, Worker \ {"create"}) : Holds(q)' = Holds(q)
      BY <1>2, <2>1 DEF On
    <3>4. IF provider = "s3"
          THEN rows[x].st = "ready" /\ f \in Files(x)
          ELSE /\ Live(x)
               /\ \A q \in On(x, Worker \ {"create"}) : f \in Holds(q)
               /\ On(x, Worker \ {"create"}) = {} => f \in Files(x)
      BY <3>1 DEF Good, Owned
    <3>5. \A q \in On(x, Worker \ {"create"})' : f \in Holds(q) => f \in Holds(q)'
      BY <3>2, <3>3
    <3> QED
      BY <1>1, <2>1, <3>2, <3>4, <3>5
  <2>2. CASE x = o /\ provider = "s3"
    BY <2>2
  <2>3. CASE x = o /\ provider # "s3"
    <3>1. \A q \in On(o, Worker \ {"create"})' : q = r /\ req'[r].at \in Worker \ {"create"}
      BY <1>0, <1>3 DEF On, Others
    <3>2. On(o, Worker \ {"create"})' = {} => req'[r].at \notin Worker \ {"create"}
      BY <1>0 DEF On
    <3> QED
      BY <2>3, <3>1, <3>2
  <2> QED
    BY <2>1, <2>2, <2>3
<1>12. Whole'
  <2> SUFFICES ASSUME NEW x \in Obj, rows'[x].st = "ready",
                      On(x, {"drop"} \cup Syncing)' = {}, \A q \in Request : req'[q].at # "dropBucket",
                      NEW f \in Files(x)'
               PROVE  Store'[f] = x
    BY DEF Whole
  <2>1. CASE x = o
    <3>1. req'[r].at \notin Syncing
      BY <1>0, <2>1 DEF On
    <3> QED
      BY <2>1, <3>1
  <2>2. CASE x # o
    <3>1. On(x, {"drop"} \cup Syncing) = {}
      BY <1>0, <1>10, <2>2
    <3>2. \A q \in Request : req[q].at # "dropBucket"
      BY <1>0 DEF Others
    <3>3. f \in Files(x) /\ f \in File /\ rows[x].st = "ready"
      BY <1>1, <2>2, PathsAreFiles
    <3>4. Store[f] = x
      BY <3>1, <3>2, <3>3 DEF Good, Whole
    <3> QED
      BY <1>5, <2>2, <3>3, <3>4
  <2> QED
    BY <2>1, <2>2
<1>13. InProcess'
  <2>1. \A x \in Obj \ {o} : On(x, {"convert", "derive", "record"})' = On(x, {"convert", "derive", "record"})
    BY <1>0, <1>10
  <2>2. \A x \in Obj \ {o} :
            /\ rows'[x].st = "processing" => On(x, {"convert", "derive", "record"})' # {}
            /\ rows'[x].st \in {"pending", "processing"} => ~rows'[x].der
    BY <2>1 DEF Good, InProcess
  <2>3. rows'[o].st = "processing" => r \in On(o, {"convert", "derive", "record"})'
    BY <1>0 DEF On
  <2> QED
    BY <2>2, <2>3 DEF InProcess
<1> QED
  BY <1>6, <1>7, <1>8, <1>9, <1>11, <1>12, <1>13 DEF Good

\* Before an object's worker: its row is alone with its files, the store's files of it are in hand
LEMMA WorkerKnows ==
    ASSUME TypeOK, Fresh, Good, NEW r \in Request, req[r].at \in Worker
    PROVE  /\ req[r].obj \in Obj /\ Known(r) /\ HoldsOwn(r)
           /\ \A f \in File : Store[f] = req[r].obj =>
                IF provider = "s3"
                THEN rows[req[r].obj].st = "ready" /\ f \in Files(req[r].obj)
                ELSE /\ Live(req[r].obj)
                     /\ IF req[r].at = "create" THEN f = req[r].path ELSE f \in Holds(r)
<1>1. req[r].obj \in Obj /\ Known(r) /\ HoldsOwn(r)
  BY DEF Fresh, Good
<1>2. PICK o \in Obj : o = req[r].obj
  BY <1>1
<1>3. ASSUME NEW f \in File, Store[f] = o
      PROVE  IF provider = "s3"
             THEN rows[o].st = "ready" /\ f \in Files(o)
             ELSE /\ Live(o)
                  /\ IF req[r].at = "create" THEN f = req[r].path ELSE f \in Holds(r)
  <2>1. IF provider = "s3"
        THEN rows[o].st = "ready" /\ f \in Files(o)
        ELSE /\ Live(o)
             /\ \A q \in On(o, Worker \ {"create"}) : f \in Holds(q)
             /\ On(o, Worker \ {"create"}) = {} => f \in Files(o)
    BY <1>3 DEF Good, Owned
  <2>2. CASE provider = "s3"
    BY <2>1, <2>2
  <2>3. CASE provider # "s3" /\ req[r].at # "create"
    <3>1. r \in On(o, Worker \ {"create"})
      BY <1>2, <2>3 DEF On
    <3> QED
      BY <2>1, <2>3, <3>1
  <2>4. CASE provider # "s3" /\ req[r].at = "create"
    <3>1. On(o, Worker \ {"create"}) = {}
      BY <1>2, <2>4 DEF On, Good, OneWorker
    <3>2. Live(o) /\ f \in Files(o)
      BY <2>1, <2>4, <3>1
    <3>3. rows[o].path = req[r].path /\ rows[o].st \in {"pending", "gone"}
      BY <1>1, <1>2, <2>4, <3>2 DEF Known, Writing
    <3>4. ~rows[o].der
      BY <3>2, <3>3 DEF Good, InProcess, Live
    <3>5. f = req[r].path
      BY <3>2, <3>3, <3>4 DEF Files, FilesOf
    <3> QED
      BY <2>4, <3>2, <3>5
  <2> QED
    BY <2>2, <2>3, <2>4
<1> QED
  BY <1>1, <1>2, <1>3

\* Clear requests for an object whose row is what it was know what they knew
LEMMA ClearKnows ==
    ASSUME Good, NEW r \in Request, NEW o, Others(r), UNCHANGED provider,
           \/ rows'[o] = rows[o]
           \/ rows'[o].path = rows[o].path /\ rows'[o].der = rows[o].der /\ (Live(o)' => Live(o))
    PROVE  \A q \in Request \ {r} : req[q].obj = o /\ req[q].at = "clear" => Known(q)'
BY DEF Good, Known, Others, Live, Writing, Syncing

LEMMA HoldsAt ==
    ASSUME NEW r
    PROVE  /\ req[r].at \in {"stream", "convert"} => Holds(r) = {req[r].path}
           /\ req[r].at = "derive" => Holds(r) = {Current(r)}
           /\ req[r].at \in Recorded => Holds(r) = FilesOf(NewPath(r), req[r].der)
           /\ req'[r].at \in {"stream", "convert"} => Holds(r)' = {req'[r].path}
           /\ req'[r].at = "derive" => Holds(r)' = {Current(r)'}
           /\ req'[r].at \in Recorded => Holds(r)' = FilesOf(NewPath(r)', req'[r].der)
BY DEF Holds, Recorded, Syncing

LEMMA GoodCreate ==
    ASSUME TypeOK, TypeOK', Fresh, Good, NEW r \in Request, CreateFile(r), ~untidy'
    PROVE  Good'
<1>1. PICK o \in Obj : o = req[r].obj
  BY WorkerKnows DEF CreateFile, Worker, Writing
<1>2. /\ req[r].at = "create" /\ UNCHANGED <<provider, rows, cloud>>
      /\ disk' = [disk EXCEPT ![req[r].path] = o]
      /\ Live(o) /\ disk[req[r].path] \in {NoObj, o}
  BY <1>1 DEF CreateFile, Untidy
<1>3. /\ Others(r) /\ req'[r].at = "stream" /\ req'[r].obj = o /\ req'[r].path = req[r].path
      /\ req'[r].kind = req[r].kind /\ req'[r].der = req[r].der /\ req'[r].ok = req[r].ok
  BY <1>1, Moves DEF CreateFile
<1>4. req[r].at \in Worker /\ req'[r].at \in Worker \ {"create"} /\ req'[r].at \notin Syncing
  BY <1>2, <1>3 DEF Worker, Writing, Syncing
<1>5. /\ Known(r)
      /\ \A f \in File : Store[f] = o =>
            IF provider = "s3" THEN rows[o].st = "ready" ELSE f = req[r].path
  BY <1>1, <1>2, <1>4, WorkerKnows
<1>6. /\ rows[o].st = "pending" /\ rows[o].path = req[r].path /\ req[r].ok /\ ~req[r].der /\ ~rows[o].der
  BY <1>1, <1>2, <1>5 DEF Known, Live, Writing, Good, InProcess
<1>7. Known(r)' /\ \A q \in Request \ {r} : req[q].obj = o /\ req[q].at = "clear" => Known(q)'
  BY <1>1, <1>2, <1>3, <1>5, ClearKnows DEF Known, Live, Writing, Syncing
<1>8. Holds(r)' = {req[r].path} /\ req[r].path \in File /\ disk \in [File -> Obj \cup {NoObj}]
  BY <1>3, HoldsAt, PathsAreFiles DEF TypeOK, File
<1>9. HoldsOwn(r)'
  <2>1. ASSUME NEW n \in Obj, Live(n), n # o
        PROVE  req[r].path \notin Files(n)
    <3>1. req[r].path \in Files(o)
      BY <1>6 DEF Files, FilesOf
    <3> QED
      BY <1>2, <2>1, <3>1 DEF Good, Distinct
  <2>2. \A n : Files(n)' = Files(n) /\ Live(n)' = Live(n)
    BY <1>2, SameRow
  <2> QED
    BY <1>2, <1>3, <1>8, <2>1, <2>2 DEF HoldsOwn
<1>10. \A f \in File : Store'[f] = o => IF provider = "s3" THEN rows[o].st = "ready" ELSE f = req[r].path
  BY <1>2, <1>5, <1>8 DEF Store
<1>11. \A f \in File : disk'[f] = disk[f] \/ (disk[f] \in {NoObj, o} /\ disk'[f] \in {NoObj, o})
  BY <1>2, <1>8
<1>12. Live(o)' /\ Files(o)' = Files(o)
  BY <1>2, SameRow
<1> QED
  BY <1>1, <1>2, <1>3, <1>4, <1>6, <1>7, <1>8, <1>9, <1>10, <1>11, <1>12, WorkerStep

LEMMA GoodConvert ==
    ASSUME TypeOK, TypeOK', Fresh, Good, NEW r \in Request, Convert(r), ~untidy'
    PROVE  Good'
<1>1. PICK o \in Obj : o = req[r].obj
  BY WorkerKnows DEF Convert, Worker, Writing
<1>2. /\ req[r].at = "convert" /\ UNCHANGED <<provider, rows, cloud>>
      /\ disk' = [f \in File |-> IF f = "dst" THEN o ELSE IF f = req[r].path THEN NoObj ELSE disk[f]]
      /\ disk["dst"] \in {NoObj, o}
      /\ \A n \in Obj \ {o} : Live(n) => "dst" \notin Files(n)
  BY <1>1 DEF Convert, Untidy, Taken, Files
<1>3. /\ Others(r) /\ req'[r].at = "derive" /\ req'[r].obj = o /\ req'[r].path = req[r].path
      /\ req'[r].kind = req[r].kind /\ req'[r].der = req[r].der /\ req'[r].ok = req[r].ok
  BY <1>1, Moves DEF Convert
<1>4. req[r].at \in Worker /\ req'[r].at \in Worker \ {"create"} /\ req'[r].at \notin Syncing
  BY <1>2, <1>3 DEF Worker, Writing, Syncing
<1>5. Holds(r) = {req[r].path} /\ disk[req[r].path] = o
  BY <1>1, <1>2, <1>4, WorkerKnows, HoldsAt DEF HoldsOwn
<1>6. /\ Known(r)
      /\ \A f \in File : Store[f] = o =>
            IF provider = "s3" THEN rows[o].st = "ready" ELSE Live(o) /\ f = req[r].path
  BY <1>1, <1>2, <1>4, <1>5, WorkerKnows
<1>7. rows[o].st \in {"processing", "gone"} /\ req[r].kind = "convert" /\ req[r].ok /\ ~req[r].der
  BY <1>1, <1>2, <1>6 DEF Known, Writing
<1>8. Known(r)' /\ \A q \in Request \ {r} : req[q].obj = o /\ req[q].at = "clear" => Known(q)'
  BY <1>1, <1>2, <1>3, <1>6, <1>7, ClearKnows DEF Known, Live, Writing, Syncing
<1>9. /\ Holds(r)' = {"dst"} /\ "dst" \in File /\ req[r].path \in File
      /\ disk \in [File -> Obj \cup {NoObj}]
  <2>1. Holds(r)' = {"dst"}
    BY <1>3, <1>7, HoldsAt DEF Current
  <2> QED
    BY <2>1, PathsAreFiles DEF TypeOK, File, Path
<1>10. \A n : Files(n)' = Files(n) /\ Live(n)' = Live(n)
  BY <1>2, SameRow
<1>11. HoldsOwn(r)'
  BY <1>2, <1>3, <1>9, <1>10 DEF HoldsOwn
<1>12. \A f \in File : Store'[f] = o =>
            IF provider = "s3" THEN rows[o].st = "ready" /\ Store[f] = o ELSE Live(o) /\ f = "dst"
  <2>1. CASE provider = "s3"
    BY <1>2, <1>6, <2>1 DEF Store
  <2>2. CASE provider # "s3"
    <3>1. Store[req[r].path] = o /\ Live(o)
      BY <1>5, <1>6, <1>9, <2>2 DEF Store
    <3> QED
      BY <1>2, <1>6, <2>2, <3>1, IdleIsIdle DEF Store
  <2> QED
    BY <2>1, <2>2
<1>13. \A f \in File : disk'[f] = disk[f] \/ (disk[f] \in {NoObj, o} /\ disk'[f] \in {NoObj, o})
  BY <1>2, <1>5
<1>14. rows[o].st \in {"pending", "processing"} => ~rows[o].der
  BY DEF Good, InProcess
<1> QED
  BY <1>1, <1>2, <1>3, <1>4, <1>7, <1>8, <1>9, <1>10, <1>11, <1>12, <1>13, <1>14, WorkerStep

LEMMA GoodDerive ==
    ASSUME TypeOK, TypeOK', Fresh, Good, NEW r \in Request, Derive(r), ~untidy'
    PROVE  Good'
<1>1. PICK o \in Obj : o = req[r].obj
  BY WorkerKnows DEF Derive, Worker, Writing
<1>2. /\ req[r].at = "derive" /\ UNCHANGED <<provider, rows, cloud>>
      /\ disk' = [disk EXCEPT !["der"] = o]
      /\ disk["der"] \in {NoObj, o}
      /\ \A n \in Obj \ {o} : Live(n) => "der" \notin Files(n)
      /\ req' = [req EXCEPT ![r].at = "record", ![r].der = TRUE]
  BY <1>1 DEF Derive, Untidy, Taken, Files
<1>3. /\ Others(r) /\ req'[r].at = "record" /\ req'[r].obj = o /\ req'[r].path = req[r].path
      /\ req'[r].kind = req[r].kind /\ req'[r].der /\ req'[r].ok = req[r].ok
  BY <1>1, <1>2 DEF Others, TypeOK, RequestState
<1>4. req[r].at \in Worker /\ req'[r].at \in Worker \ {"create"} /\ req'[r].at \notin Syncing
  BY <1>2, <1>3 DEF Worker, Writing, Syncing
<1>5. Holds(r) = {Current(r)} /\ HoldsOwn(r)
  BY <1>1, <1>2, <1>4, WorkerKnows, HoldsAt
<1>6. /\ Known(r)
      /\ \A f \in File : Store[f] = o =>
            IF provider = "s3" THEN rows[o].st = "ready" ELSE Live(o) /\ f = Current(r)
  BY <1>1, <1>2, <1>4, <1>5, WorkerKnows
<1>7. rows[o].st \in {"processing", "gone"} /\ req[r].ok /\ ~req[r].der
  BY <1>1, <1>2, <1>6 DEF Known, Writing
<1>8. Known(r)' /\ \A q \in Request \ {r} : req[q].obj = o /\ req[q].at = "clear" => Known(q)'
  <2>1. Known(r)'
    BY <1>1, <1>2, <1>3, <1>6, <1>7 DEF Known, Live, Writing, Syncing
  <2> QED
    BY <1>1, <1>2, <1>3, <2>1, ClearKnows
<1>9. /\ Holds(r)' = {Current(r), "der"} /\ "der" \in File /\ Current(r) \in File
      /\ disk \in [File -> Obj \cup {NoObj}] /\ Current(r) # "der"
  <2>1. NewPath(r)' = Current(r)
    BY <1>3, <1>7 DEF NewPath, Current
  <2> QED
    BY <1>3, <2>1, PathsAreFiles DEF Holds, Recorded, FilesOf, TypeOK, File, Path
<1>10. \A n : Files(n)' = Files(n) /\ Live(n)' = Live(n)
  BY <1>2, SameRow
<1>11. HoldsOwn(r)'
  BY <1>1, <1>2, <1>3, <1>5, <1>9, <1>10 DEF HoldsOwn
<1>12. \A f \in File : Store'[f] = o =>
            IF provider = "s3" THEN rows[o].st = "ready" /\ Store[f] = o ELSE Live(o) /\ f \in Holds(r)'
  <2>1. CASE provider = "s3"
    BY <1>2, <1>6, <2>1 DEF Store
  <2>2. CASE provider # "s3"
    <3>1. Store[Current(r)] = o /\ Live(o)
      BY <1>1, <1>5, <1>6, <1>9, <2>2 DEF Store, HoldsOwn
    <3> QED
      BY <1>2, <1>6, <1>9, <2>2, <3>1 DEF Store
  <2> QED
    BY <2>1, <2>2
<1>13. \A f \in File : disk'[f] = disk[f] \/ (disk[f] \in {NoObj, o} /\ disk'[f] \in {NoObj, o})
  BY <1>2, <1>9
<1>14. rows[o].st \in {"pending", "processing"} => ~rows[o].der
  BY DEF Good, InProcess
<1> QED
  BY <1>1, <1>2, <1>3, <1>4, <1>7, <1>8, <1>10, <1>11, <1>12, <1>13, <1>14, WorkerStep

LEMMA GoodFails ==
    ASSUME TypeOK, TypeOK', Fresh, Good, NEW r \in Request, ProcessingFails(r), ~untidy'
    PROVE  Good'
<1>1. PICK o \in Obj : o = req[r].obj
  BY WorkerKnows DEF ProcessingFails, Worker, Writing
<1>2. /\ req[r].at \in {"convert", "derive"} /\ UNCHANGED <<provider, rows, disk, cloud>>
      /\ req[r].at = "derive" => req[r].kind # "convert"
      /\ req' = [req EXCEPT ![r].at = "record", ![r].ok = FALSE]
  BY <1>1 DEF ProcessingFails, Untidy
<1>3. /\ Others(r) /\ req'[r].at = "record" /\ req'[r].obj = o /\ req'[r].path = req[r].path
      /\ req'[r].kind = req[r].kind /\ req'[r].der = req[r].der /\ ~req'[r].ok
  BY <1>1, <1>2 DEF Others, TypeOK, RequestState
<1>4. req[r].at \in Worker /\ req'[r].at \in Worker \ {"create"} /\ req'[r].at \notin Syncing
      /\ req'[r].at \in Recorded /\ req[r].at # "create"
  BY <1>2, <1>3 DEF Worker, Writing, Syncing, Recorded
<1>5. Holds(r) = {req[r].path} /\ HoldsOwn(r)
  <2>1. req[r].at = "derive" => Current(r) = req[r].path
    BY <1>2 DEF Current
  <2> QED
    BY <1>1, <1>2, <1>4, <2>1, WorkerKnows, HoldsAt
<1>6. /\ Known(r)
      /\ \A f \in File : Store[f] = o =>
            IF provider = "s3" THEN rows[o].st = "ready" ELSE Live(o) /\ f = req[r].path
  BY <1>1, <1>2, <1>4, <1>5, WorkerKnows
<1>7. rows[o].st \in {"processing", "gone"} /\ ~req[r].der
  BY <1>1, <1>2, <1>6 DEF Known, Writing
<1>8. Known(r)' /\ \A q \in Request \ {r} : req[q].obj = o /\ req[q].at = "clear" => Known(q)'
  <2>1. Known(r)'
    BY <1>1, <1>2, <1>3, <1>6, <1>7 DEF Known, Live, Writing, Syncing
  <2> QED
    BY <1>1, <1>2, <1>3, <2>1, ClearKnows
<1>9. Holds(r)' = {req[r].path}
  <2>1. NewPath(r)' = req[r].path
    BY <1>3 DEF NewPath
  <2> QED
    BY <1>3, <1>4, <1>7, <2>1, HoldsAt DEF FilesOf
<1>10. \A n : Files(n)' = Files(n) /\ Live(n)' = Live(n)
  BY <1>2, SameRow
<1>11. HoldsOwn(r)'
  BY <1>1, <1>2, <1>3, <1>5, <1>9, <1>10 DEF HoldsOwn
<1>12. rows[o].st \in {"pending", "processing"} => ~rows[o].der
  BY DEF Good, InProcess
<1>13. Store' = Store
  BY <1>2 DEF Store
<1>14. rows[o].st # "ready"
  BY <1>7
<1>15. \A f \in File : Store'[f] = o => provider # "s3" /\ Live(o)' /\ f \in Holds(r)'
  BY <1>6, <1>9, <1>10, <1>13, <1>14
<1> QED
  BY <1>1, <1>2, <1>3, <1>4, <1>8, <1>10, <1>11, <1>12, <1>14, <1>15, WorkerStep

LEMMA GoodBreak ==
    ASSUME TypeOK, TypeOK', Fresh, Good, NEW r \in Request, Abandon(r),
           req[r].at \in {"create", "stream"}
    PROVE  Good'
<1>1. PICK o \in Obj : o = req[r].obj
  BY WorkerKnows DEF Worker, Writing
<1>2. req[r].at \in {"create", "stream"} /\ UNCHANGED <<provider, rows, disk, cloud>>
  BY DEF Abandon
<1>3. Others(r) /\ req'[r] = Idle /\ req'[r].at = "idle"
  BY Moves, IdleIsIdle DEF Abandon
<1>4. req[r].at \in Worker /\ "idle" \notin Worker /\ "idle" \notin Syncing
  BY <1>2 DEF Worker, Writing, Syncing
<1>5. req[r].at # "create" => Holds(r) = {req[r].path}
  BY <1>2, HoldsAt
<1>6. /\ Known(r)
      /\ \A f \in File : Store[f] = o =>
            IF provider = "s3" THEN rows[o].st = "ready" ELSE Live(o) /\ f = req[r].path
  BY <1>1, <1>2, <1>4, <1>5, WorkerKnows
<1>7. rows[o].st \in {"pending", "gone"} /\ (Live(o) => rows[o].path = req[r].path)
  BY <1>1, <1>2, <1>6 DEF Known, Writing
<1>8. Known(r)' /\ \A q \in Request \ {r} : req[q].obj = o /\ req[q].at = "clear" => Known(q)'
  <2>1. Known(r)'
    BY <1>3 DEF Known, Writing, Syncing
  <2> QED
    BY <1>1, <1>2, <1>3, <2>1, ClearKnows
<1>9. HoldsOwn(r)'
  BY <1>3 DEF HoldsOwn, Holds, Recorded, Syncing
<1>10. Files(o)' = Files(o) /\ Live(o)' = Live(o) /\ Store' = Store
  BY <1>2, SameRow DEF Store
<1>11. \A f \in File : Store'[f] = o => provider # "s3" /\ Live(o)' /\ f \in Files(o)'
  BY <1>6, <1>7, <1>10 DEF Files, FilesOf
<1>12. rows[o].st \in {"pending", "processing"} => ~rows[o].der
  BY DEF Good, InProcess
<1> QED
  BY <1>1, <1>2, <1>3, <1>4, <1>7, <1>8, <1>9, <1>10, <1>11, <1>12, WorkerStep

LEMMA GoodFinish ==
    ASSUME TypeOK, TypeOK', Fresh, Good, NEW r \in Request, FinishStream(r)
    PROVE  Good'
<1>1. PICK o \in Obj : o = req[r].obj
  BY WorkerKnows DEF FinishStream, Worker, Writing
<1>2. /\ req[r].at = "stream" /\ UNCHANGED <<provider, disk, cloud>>
      /\ rows' = IF Live(o) THEN [rows EXCEPT ![o].st = "processing"] ELSE rows
  BY <1>1 DEF FinishStream
<1>3. PICK l \in {"record", "convert", "derive"} :
        /\ Goto(r, l) /\ (l = "convert" => req[r].kind = "convert")
        /\ (l = "derive" \/ l = "record" => req[r].kind # "convert")
  BY DEF FinishStream, TypeOK, RequestState, Kind
<1>4. /\ Others(r) /\ req'[r].at = l /\ req'[r].obj = o /\ req'[r].path = req[r].path
      /\ req'[r].kind = req[r].kind /\ req'[r].der = req[r].der /\ req'[r].ok = req[r].ok
  BY <1>1, <1>3, Moves
<1>5. req[r].at \in Worker /\ req'[r].at \in Worker \ {"create"} /\ req'[r].at \notin Syncing
  BY <1>2, <1>4 DEF Worker, Writing, Syncing
<1>6. Holds(r) = {req[r].path} /\ HoldsOwn(r)
  BY <1>1, <1>2, <1>5, WorkerKnows, HoldsAt
<1>7. /\ Known(r)
      /\ \A f \in File : Store[f] = o =>
            IF provider = "s3" THEN rows[o].st = "ready" ELSE Live(o) /\ f = req[r].path
  BY <1>1, <1>2, <1>5, <1>6, WorkerKnows
<1>8. /\ rows[o].st \in {"pending", "gone"} /\ req[r].ok /\ ~req[r].der
      /\ Live(o) => rows[o].path = req[r].path
      /\ rows[o].st = "pending" => ~rows[o].der
  BY <1>1, <1>2, <1>7 DEF Known, Writing, Good, InProcess
<1>9. /\ \A n \in Obj \ {o} : rows'[n] = rows[n]
      /\ rows'[o].path = rows[o].path /\ rows'[o].der = rows[o].der
      /\ IF Live(o) THEN rows'[o].st = "processing" ELSE rows'[o] = rows[o]
  BY <1>2 DEF TypeOK, ObjectRow
<1>10. Files(o)' = Files(o) /\ Live(o)' = Live(o) /\ Store' = Store
  BY <1>2, <1>8, <1>9 DEF Files, Live, Store
<1>11. Known(r)' /\ \A q \in Request \ {r} : req[q].obj = o /\ req[q].at = "clear" => Known(q)'
  <2>1. Known(r)'
    BY <1>1, <1>2, <1>3, <1>4, <1>7, <1>8, <1>9 DEF Known, Live, Writing, Syncing
  <2> QED
    BY <1>1, <1>2, <1>4, <1>9, <1>10, <2>1, ClearKnows
<1>12. Holds(r)' = {req[r].path}
  <2>1. l = "derive" \/ l = "record" => Current(r)' = req[r].path /\ NewPath(r)' = req[r].path
    BY <1>3, <1>4 DEF Current, NewPath
  <2>2. l = "record" => req'[r].at \in Recorded
    BY <1>4 DEF Recorded
  <2> QED
    BY <1>4, <1>8, <2>1, <2>2, HoldsAt DEF FilesOf
<1>13. HoldsOwn(r)'
  <2>1. \A n \in Obj \ {o} : Files(n)' = Files(n) /\ Live(n)' = Live(n)
    BY <1>9, SameRow
  <2> QED
    BY <1>1, <1>2, <1>3, <1>4, <1>6, <1>12, <2>1 DEF HoldsOwn
<1>14. \A f \in File : Store'[f] = o => provider # "s3" /\ Live(o)' /\ f \in Holds(r)'
  BY <1>7, <1>8, <1>10, <1>12
<1>15. rows'[o].st \in {"pending", "processing"} => ~rows'[o].der
  BY <1>8, <1>9 DEF Live
<1>16. rows'[o].st # "ready"
  BY <1>8, <1>9
<1> QED
  BY <1>1, <1>2, <1>4, <1>5, <1>9, <1>10, <1>11, <1>13, <1>14, <1>15, <1>16, WorkerStep

LEMMA GoodRecord ==
    ASSUME TypeOK, TypeOK', Fresh, Good, NEW r \in Request, Record(r), ~untidy'
    PROVE  Good'
<1>1. PICK o \in Obj : o = req[r].obj
  BY WorkerKnows DEF Record, Worker, Writing
<1>2. /\ req[r].at = "record" /\ UNCHANGED <<provider, disk, cloud>>
      /\ Live(o) /\ On(o, Removing) = {}
      /\ rows' = [rows EXCEPT ![o] = [st |-> IF req[r].ok THEN "ready" ELSE "failed",
                                      path |-> NewPath(r), kind |-> req[r].kind, der |-> req[r].der]]
      /\ IF req[r].ok /\ provider = "s3" THEN Goto(r, "sync") ELSE End(r)
  BY <1>1 DEF Record, Untidy
<1>3. /\ Others(r)
      /\ IF req[r].ok /\ provider = "s3"
         THEN /\ req'[r].at = "sync" /\ req'[r].obj = o /\ req'[r].path = req[r].path
              /\ req'[r].kind = req[r].kind /\ req'[r].der = req[r].der /\ req'[r].ok = req[r].ok
         ELSE req'[r] = Idle /\ req'[r].at = "idle"
  BY <1>1, <1>2, Moves, IdleIsIdle
<1>4. /\ req[r].at \in Worker /\ "sync" \in Worker \ {"create"} /\ "sync" \in Syncing
      /\ "idle" \notin Worker /\ req[r].at \in Recorded /\ "sync" \in Recorded /\ "clear" \in Removing
      /\ "idle" \notin Syncing
  BY <1>2 DEF Worker, Writing, Syncing, Recorded, Removing
<1>5. Holds(r) = FilesOf(NewPath(r), req[r].der) /\ HoldsOwn(r) /\ Holds(r) \subseteq File
  BY <1>1, <1>4, WorkerKnows, HoldsAt, PathsAreFiles
<1>6. /\ Known(r)
      /\ \A f \in File : Store[f] = o =>
            IF provider = "s3" THEN rows[o].st = "ready" ELSE f \in Holds(r)
  BY <1>1, <1>2, <1>4, <1>5, WorkerKnows
<1>7. rows[o].st \in {"processing", "gone"}
  BY <1>1, <1>2, <1>6 DEF Known
<1>8. /\ \A n \in Obj \ {o} : rows'[n] = rows[n]
      /\ rows'[o].path = NewPath(r) /\ rows'[o].der = req[r].der
      /\ rows'[o].st = IF req[r].ok THEN "ready" ELSE "failed"
  BY <1>2 DEF TypeOK
<1>9. Files(o)' = Holds(r) /\ Live(o)' /\ Store' = Store
  BY <1>2, <1>5, <1>8 DEF Files, Live, Store
<1>10. Known(r)' /\ \A q \in Request \ {r} : ~(req[q].obj = o /\ req[q].at = "clear")
  <2>1. \A q \in Request \ {r} : ~(req[q].obj = o /\ req[q].at = "clear")
    BY <1>2, <1>4 DEF On
  <2>2. CASE req[r].ok /\ provider = "s3"
    <3>1. NewPath(r)' = NewPath(r)
      BY <1>3, <2>2 DEF NewPath, Current
    <3> QED
      BY <1>2, <1>3, <1>8, <2>1, <2>2, <3>1 DEF Known, Writing, Syncing
  <2>3. CASE ~(req[r].ok /\ provider = "s3")
    BY <1>3, <2>1, <2>3 DEF Known, Writing, Syncing
  <2> QED
    BY <2>1, <2>2, <2>3
<1>11. HoldsOwn(r)'
  <2>1. CASE req[r].ok /\ provider = "s3"
    <3>1. Holds(r)' = Holds(r)
      <4>1. NewPath(r)' = NewPath(r)
        BY <1>3, <2>1 DEF NewPath, Current
      <4> QED
        BY <1>3, <1>4, <1>5, <2>1, <4>1, HoldsAt
    <3>2. \A n \in Obj \ {o} : Files(n)' = Files(n) /\ Live(n)' = Live(n)
      BY <1>8, SameRow
    <3> QED
      BY <1>1, <1>2, <1>3, <1>5, <2>1, <3>1, <3>2 DEF HoldsOwn
  <2>2. CASE ~(req[r].ok /\ provider = "s3")
    BY <1>3, <2>2 DEF HoldsOwn, Holds, Recorded, Syncing
  <2> QED
    BY <2>1, <2>2
<1>12. \A f \in File : Store'[f] = o => provider # "s3" /\ Live(o)' /\ f \in Files(o)'
  BY <1>6, <1>7, <1>9
<1>13. rows'[o].st = "ready" /\ req'[r].at \notin Syncing => \A f \in Files(o)' : Store'[f] = o
  BY <1>1, <1>3, <1>4, <1>5, <1>8, <1>9 DEF HoldsOwn, Store
<1>14. rows'[o].st \notin {"pending", "processing"}
  BY <1>8
<1>15. \/ req'[r].obj = o /\ req'[r].at \in Worker
       \/ req'[r] = Idle
  BY <1>3, <1>4
<1>16. req'[r].at \in Worker \ {"create"} => provider = "s3"
  BY <1>3, <1>4
<1> QED
  BY <1>1, <1>2, <1>3, <1>4, <1>8, <1>9, <1>10, <1>11, <1>12, <1>13, <1>14, <1>15, <1>16, WorkerStep

\* What a task that sends files to S3 has in hand
LEMMA SyncKnows ==
    ASSUME TypeOK, Fresh, Good, NEW r \in Request, req[r].at \in Syncing, Live(req[r].obj)
    PROVE  /\ req[r].obj \in Obj /\ HoldsOwn(r) /\ provider = "s3" /\ req[r].at \in Worker
           /\ req[r].ok /\ NewPath(r) = Current(r) /\ NewPath(r) \in File
           /\ rows[req[r].obj].st = "ready" /\ rows[req[r].obj].path = NewPath(r)
           /\ rows[req[r].obj].der = req[r].der
           /\ Holds(r) = FilesOf(NewPath(r), req[r].der) /\ Holds(r) = Files(req[r].obj)
           /\ \A f \in Holds(r) : /\ f \in File /\ disk[f] = req[r].obj
                                  /\ cloud[f] \in {NoObj, req[r].obj}
           /\ \A f \in File : cloud[f] = req[r].obj => f \in Files(req[r].obj)
<1>1. req[r].at \in Worker /\ req[r].at \in Recorded
  BY DEF Worker, Recorded
<1>2. PICK o \in Obj : o = req[r].obj
  BY <1>1, WorkerKnows
<1>3. Known(r) /\ HoldsOwn(r)
  BY <1>1, WorkerKnows
<1>4. /\ req[r].ok /\ provider = "s3" /\ rows[o].st = "ready" /\ rows[o].path = NewPath(r)
      /\ rows[o].der = req[r].der
  BY <1>2, <1>3 DEF Known, Live
<1>5. /\ Holds(r) = FilesOf(NewPath(r), req[r].der) /\ Holds(r) = Files(o)
      /\ NewPath(r) = Current(r) /\ NewPath(r) \in File /\ Holds(r) \subseteq File
  BY <1>1, <1>4, HoldsAt, PathsAreFiles DEF Files, NewPath, File
<1>6. ASSUME NEW f \in Holds(r)
      PROVE  f \in File /\ disk[f] = o /\ cloud[f] \in {NoObj, o}
  <2>1. f \in File /\ disk[f] = o
    BY <1>2, <1>3, <1>5 DEF HoldsOwn
  <2>2. ASSUME cloud[f] \in Obj
        PROVE  cloud[f] = o
    <3>1. PICK x \in Obj : x = cloud[f]
      BY <2>2
    <3>2. rows[x].st = "ready" /\ f \in Files(x)
      BY <1>4, <2>1, <3>1 DEF Good, Owned, Store
    <3>3. Live(x)
      BY <3>2 DEF Live
    <3> QED
      BY <1>2, <1>3, <3>1, <3>2, <3>3 DEF HoldsOwn
  <2> QED
    BY <2>1, <2>2 DEF TypeOK
<1>7. \A f \in File : cloud[f] = o => f \in Files(o)
  BY <1>4 DEF Good, Owned, Store
<1> QED
  BY <1>1, <1>2, <1>3, <1>4, <1>5, <1>6, <1>7

LEMMA GoodSyncOriginal ==
    ASSUME TypeOK, TypeOK', Fresh, Good, NEW r \in Request, SyncOriginal(r), ~untidy'
    PROVE  Good'
<1>0. req[r].at \in Syncing /\ Live(req[r].obj)
  BY DEF SyncOriginal, Untidy, Syncing
<1>1. PICK o \in Obj : o = req[r].obj
  BY <1>0, SyncKnows
<1>2. /\ UNCHANGED <<provider, rows, disk>> /\ Goto(r, "syncDerived")
      /\ cloud' = [cloud EXCEPT ![NewPath(r)] = disk[NewPath(r)]]
  BY <1>0, SyncKnows DEF SyncOriginal
<1>3. /\ HoldsOwn(r) /\ provider = "s3" /\ req[r].at \in Worker /\ req[r].ok /\ NewPath(r) \in File
      /\ rows[o].st = "ready" /\ rows[o].path = NewPath(r) /\ rows[o].der = req[r].der
      /\ Holds(r) = FilesOf(NewPath(r), req[r].der) /\ Holds(r) = Files(o)
      /\ \A f \in Holds(r) : f \in File /\ disk[f] = o /\ cloud[f] \in {NoObj, o}
      /\ \A f \in File : cloud[f] = o => f \in Files(o)
  BY <1>0, <1>1, SyncKnows
<1>4. /\ Others(r) /\ req'[r].at = "syncDerived" /\ req'[r].obj = o /\ req'[r].path = req[r].path
      /\ req'[r].kind = req[r].kind /\ req'[r].der = req[r].der /\ req'[r].ok = req[r].ok
  BY <1>1, <1>2, Moves
<1>5. req'[r].at \in Worker \ {"create"} /\ req'[r].at \in Syncing /\ req'[r].at \in Recorded
  BY <1>4 DEF Worker, Writing, Syncing, Recorded
<1>6. NewPath(r)' = NewPath(r) /\ NewPath(r) \in Holds(r)
  BY <1>3, <1>4 DEF NewPath, Current, FilesOf
<1>7. \A f \in File : cloud'[f] = IF f = NewPath(r) THEN o ELSE cloud[f]
  BY <1>2, <1>3, <1>6 DEF TypeOK
<1>8. \A n : Files(n)' = Files(n) /\ Live(n)' = Live(n)
  BY <1>2, SameRow
<1>9. Known(r)' /\ \A q \in Request \ {r} : req[q].obj = o /\ req[q].at = "clear" => Known(q)'
  <2>1. Known(r)'
    BY <1>2, <1>3, <1>4, <1>6 DEF Known, Writing, Syncing
  <2> QED
    BY <1>2, <1>4, <2>1, ClearKnows
<1>10. HoldsOwn(r)'
  <2>1. Holds(r)' = Holds(r)
    BY <1>3, <1>4, <1>5, <1>6, HoldsAt
  <2>2. cloud'[NewPath(r)] = o
    BY <1>3, <1>7
  <2> QED
    BY <1>1, <1>2, <1>3, <1>4, <1>6, <1>8, <2>1, <2>2 DEF HoldsOwn
<1>11. \A f \in File : Store'[f] = o => rows'[o].st = "ready" /\ f \in Files(o)'
  BY <1>2, <1>3, <1>6, <1>7, <1>8 DEF Store
<1>12. \A f \in File : cloud'[f] = cloud[f] \/ (cloud[f] \in {NoObj, o} /\ cloud'[f] \in {NoObj, o})
  BY <1>3, <1>6, <1>7
<1>13. rows'[o].st = "ready" /\ Live(o)' /\ Live(o)
  BY <1>0, <1>1, <1>2, <1>3, <1>8
<1> QED
  BY <1>1, <1>2, <1>3, <1>4, <1>5, <1>8, <1>9, <1>10, <1>11, <1>12, <1>13, WorkerStep

LEMMA GoodSyncDerived ==
    ASSUME TypeOK, TypeOK', Fresh, Good, NEW r \in Request, SyncDerived(r), ~untidy'
    PROVE  Good'
<1>0. req[r].at \in Syncing /\ Live(req[r].obj) /\ req[r].at = "syncDerived"
  BY DEF SyncDerived, Untidy, Syncing
<1>1. PICK o \in Obj : o = req[r].obj
  BY <1>0, SyncKnows
<1>2. /\ UNCHANGED <<provider, rows>> /\ End(r)
      /\ cloud' = IF req[r].der THEN [cloud EXCEPT !["der"] = disk["der"]] ELSE cloud
      /\ \E fs \in SUBSET Holds(r) : disk' = Without(disk, fs)
  BY <1>0, SyncKnows DEF SyncDerived
<1>3. /\ HoldsOwn(r) /\ provider = "s3" /\ req[r].at \in Worker /\ NewPath(r) \in File
      /\ rows[o].st = "ready"
      /\ Holds(r) = FilesOf(NewPath(r), req[r].der) /\ Holds(r) = Files(o)
      /\ \A f \in Holds(r) : f \in File /\ disk[f] = o /\ cloud[f] \in {NoObj, o}
      /\ \A f \in File : cloud[f] = o => f \in Files(o)
  BY <1>0, <1>1, SyncKnows
<1>4. Others(r) /\ req'[r] = Idle /\ req'[r].at = "idle"
  BY <1>2, Moves, IdleIsIdle
<1>5. "idle" \notin Worker /\ "idle" \notin Syncing
  BY DEF Worker, Writing, Syncing
<1>6. req[r].der => "der" \in Holds(r)
  BY <1>3 DEF FilesOf
<1>7. \A f \in File : cloud'[f] = IF req[r].der /\ f = "der" THEN o ELSE cloud[f]
  BY <1>2, <1>3, <1>6 DEF TypeOK
<1>8. Files(o)' = Files(o) /\ Live(o)' = Live(o)
  BY <1>2, SameRow
<1>9. Known(r)' /\ \A q \in Request \ {r} : req[q].obj = o /\ req[q].at = "clear" => Known(q)'
  <2>1. Known(r)'
    BY <1>4 DEF Known, Writing, Syncing
  <2> QED
    BY <1>2, <1>4, <2>1, ClearKnows
<1>10. HoldsOwn(r)'
  BY <1>4 DEF HoldsOwn, Holds, Recorded, Syncing
<1>11. \A f \in File : Store'[f] = o => rows'[o].st = "ready" /\ f \in Files(o)'
  BY <1>2, <1>3, <1>6, <1>7, <1>8 DEF Store
<1>12. \A f \in File : cloud'[f] = cloud[f] \/ (cloud[f] \in {NoObj, o} /\ cloud'[f] \in {NoObj, o})
  BY <1>3, <1>6, <1>7
<1>13. \A f \in File : disk'[f] = disk[f] \/ (disk[f] \in {NoObj, o} /\ disk'[f] \in {NoObj, o})
  BY <1>2, <1>3 DEF Without
<1>14. \A f \in Files(o)' : Store'[f] = o
  <2>1. cloud[NewPath(r)] = o
    BY <1>0, <1>1, <1>3 DEF HoldsOwn
  <2>2. \A f \in Holds(r) : cloud'[f] = o
    BY <1>3, <1>7, <2>1 DEF FilesOf
  <2> QED
    BY <1>2, <1>3, <1>8, <2>2 DEF Store
<1>15. rows'[o].st = "ready" /\ (Live(o)' => Live(o)) /\ UNCHANGED provider
  BY <1>2, <1>3, <1>8
<1> QED
  BY <1>1, <1>2, <1>3, <1>4, <1>5, <1>8, <1>9, <1>10, <1>11, <1>12, <1>13, <1>14, <1>15, WorkerStep

\* Asking, looking for the object of a path, and an insert that is refused
LEMMA GoodAsk ==
    ASSUME TypeOK, TypeOK', Fresh, Good, NEW r \in Request
    PROVE  /\ \A p \in Path, k \in Kind : AskUpload(r, p, k) => Good'
           /\ FindSame(r) => Good'
           /\ \A o \in Obj : AskDelete(r, o) => Good'
           /\ InsertRow(r) /\ UNCHANGED rows => Good'
           /\ AskPurge(r) => Good'
<1>t. req \in [Request -> RequestState]
  BY DEF TypeOK
<1>0. /\ Idle.at = "idle"
      /\ \A l \in {"idle", "find", "insert", "clear", "purge"} : l \notin Worker \cup {"drop", "dropBucket"}
  BY IdleIsIdle DEF Worker, Writing, Syncing
<1>1. ASSUME NEW p \in Path, NEW k \in Kind, AskUpload(r, p, k)
      PROVE  Good'
  <2>1. req'[r] = [Idle EXCEPT !.at = "find", !.path = p, !.kind = k, !.upload = TRUE] /\ Others(r)
    BY <1>t, <1>1 DEF AskUpload, Others
  <2>2. req'[r].at = "find"
    BY <2>1 DEF Idle
  <2>3. UNCHANGED <<provider, rows, disk, cloud>> /\ req[r].at = "idle"
    BY <1>0, <1>1 DEF AskUpload
  <2> QED
    BY <1>0, <2>1, <2>2, <2>3, QuietStep
<1>2. ASSUME FindSame(r)
      PROVE  Good'
  <2>1. UNCHANGED <<provider, rows, disk, cloud>> /\ req[r].at = "find"
    BY <1>2, Zenon DEF FindSame
  <2>2. CASE req[r].path \notin Held
    <3>1. Goto(r, "insert")
      BY <1>2, <2>2 DEF FindSame
    <3>2. Others(r) /\ req'[r].at = "insert"
      BY <3>1, Moves
    <3> QED
      BY <1>0, <2>1, <3>2, QuietStep
  <2>3. CASE req[r].path \in Held
    <3>1. \E o \in Obj : /\ Live(o) /\ rows[o].path = req[r].path
                         /\ req' = [req EXCEPT ![r].at = "clear", ![r].obj = o, ![r].der = rows[o].der]
      BY <1>2, <2>3, Zenon DEF FindSame
    <3>2. PICK o \in Obj : /\ Live(o) /\ rows[o].path = req[r].path
                           /\ req' = [req EXCEPT ![r].at = "clear", ![r].obj = o, ![r].der = rows[o].der]
      BY <3>1, Zenon
    <3>3. /\ Others(r) /\ req'[r].at = "clear" /\ req'[r].obj = o /\ req'[r].path = req[r].path
          /\ req'[r].der = rows[o].der
      BY <1>t, <3>2 DEF Others, RequestState
    <3>4. Known(r)'
      BY <2>1, <3>2, <3>3 DEF Known, Writing, Syncing
    <3> QED
      BY <1>0, <2>1, <3>3, <3>4, QuietStep
  <2> QED
    BY <2>2, <2>3
<1>3. ASSUME NEW o \in Obj, AskDelete(r, o)
      PROVE  Good'
  <2>1. req'[r] = [Idle EXCEPT !.at = "clear", !.obj = o, !.path = rows[o].path, !.der = rows[o].der]
        /\ Others(r)
    BY <1>t, <1>3 DEF AskDelete, Others
  <2>2. req'[r].at = "clear" /\ req'[r].obj = o /\ req'[r].path = rows[o].path /\ req'[r].der = rows[o].der
    BY <2>1 DEF Idle
  <2>3. UNCHANGED <<provider, rows, disk, cloud>> /\ req[r].at = "idle"
    BY <1>0, <1>3 DEF AskDelete
  <2>4. Known(r)'
    BY <2>2, <2>3 DEF Known, Writing, Syncing
  <2> QED
    BY <1>0, <2>1, <2>2, <2>3, <2>4, QuietStep
<1>4. ASSUME InsertRow(r), UNCHANGED rows
      PROVE  Good'
  <2>1. Others(r) /\ req'[r] = Idle
    BY <1>4, Moves DEF InsertRow
  <2> QED
    BY <1>0, <1>4, <2>1, QuietStep DEF InsertRow
<1>5. ASSUME AskPurge(r)
      PROVE  Good'
  <2>1. Others(r) /\ req'[r].at = "purge" /\ req[r] = Idle
    BY <1>5, Moves DEF AskPurge
  <2> QED
    BY <1>0, <1>5, <2>1, QuietStep DEF AskPurge
<1> QED
  BY <1>1, <1>2, <1>3, <1>4, <1>5

LEMMA GoodOpen ==
    ASSUME TypeOK, TypeOK', Fresh, Good, NEW r \in Request, NEW o \in Obj, OpenStream(r, o), ~untidy'
    PROVE  Good'
<1>1. /\ req[r] = Idle /\ rows[o].st = "pending" /\ On(o, Writing \cup Removing) = {}
      /\ UNCHANGED <<provider, rows, disk, cloud>>
  BY DEF OpenStream, Untidy
<1>2. /\ req'[r] = [Idle EXCEPT !.at = "create", !.obj = o, !.path = rows[o].path, !.kind = rows[o].kind]
      /\ Others(r)
  BY DEF TypeOK, OpenStream, Others
<1>3. /\ req'[r].at = "create" /\ req'[r].obj = o /\ req'[r].path = rows[o].path
      /\ req'[r].ok /\ ~req'[r].der
  BY <1>2 DEF Idle
<1>4. /\ req[r].at = "idle" /\ "idle" \notin Worker \cup {"drop", "dropBucket"}
      /\ "create" \notin Syncing \cup {"drop", "dropBucket"} /\ "drop" \in Removing /\ "create" \in Worker
      /\ Worker = Writing \cup Syncing /\ "drop" \notin Worker
  BY <1>1, IdleIsIdle DEF Worker, Writing, Syncing, Removing
<1>5. \A q \in Request : req[q].at \in Worker \cup {"drop"} => req[q].obj # o
  <2>1. \A q \in Request : req[q].at \in Syncing => req[q].obj # o
    BY <1>1 DEF Good, Known
  <2> QED
    BY <1>1, <1>4, <2>1 DEF On
<1>6. Store' = Store /\ \A n : Files(n)' = Files(n) /\ Live(n)' = Live(n)
  BY <1>1, SameRow DEF Store
<1>7. \A q \in Request \ {r} : Holds(q)' = Holds(q) /\ NewPath(q)' = NewPath(q)
  BY <1>2, SameRequest DEF Others
<1>8. Known(r)'
  BY <1>1, <1>3 DEF Known, Writing, Syncing
<1>9. \A q \in Request : Known(q)'
  BY <1>1, <1>2, <1>8, KnownStays DEF Good, Others
<1>10. HoldsOwn(r)'
  BY <1>3 DEF HoldsOwn, Holds, Recorded, Syncing
<1>11. \A q \in Request \ {r} : HoldsOwn(q)'
  <2> SUFFICES ASSUME NEW q \in Request \ {r}
               PROVE  HoldsOwn(q)'
    OBVIOUS
  <2>1. HoldsOwn(q) /\ req'[q] = req[q] /\ Holds(q)' = Holds(q) /\ NewPath(q)' = NewPath(q)
    BY <1>2, <1>7 DEF Good, Others
  <2>2. ASSUME req[q].at = "drop"
        PROVE  \A p \in Request : ~(req'[p].obj = req[q].obj /\ req'[p].at \in Worker)
    <3>1. req[q].obj # o
      BY <1>5, <2>2
    <3>2. \A p \in Request : ~(req[p].obj = req[q].obj /\ req[p].at \in Worker)
      BY <2>1, <2>2 DEF HoldsOwn, On
    <3> QED
      BY <1>2, <1>3, <3>1, <3>2 DEF Others
  <2> QED
    BY <1>1, <1>6, <2>1, <2>2 DEF HoldsOwn, On
<1>12. OneWorker'
  <2>1. \A q \in Request \ {r} : req'[q] = req[q] /\ (req[q].at \in Worker => req[q].obj # o)
    BY <1>2, <1>5 DEF Others
  <2>2. \A p, q \in Request : p # q /\ req[p].at \in Worker /\ req[q].at \in Worker => req[p].obj # req[q].obj
    BY DEF Good, OneWorker
  <2> QED
    BY <1>3, <2>1, <2>2 DEF OneWorker
<1>13. Distinct'
  BY <1>6 DEF Distinct, Good
<1>14. \A x \in Obj : \A L \in SUBSET (Worker \cup {"drop"}) : "create" \notin L => On(x, L)' = On(x, L)
  <2> SUFFICES ASSUME NEW x \in Obj, NEW L \in SUBSET (Worker \cup {"drop"}), "create" \notin L
               PROVE  On(x, L)' = On(x, L)
    OBVIOUS
  <2>1. req[r].at \notin L /\ req'[r].at \notin L
    BY <1>3, <1>4
  <2> QED
    BY <1>2, <2>1 DEF On, Others
<1>15. Owned'
  <2> SUFFICES ASSUME NEW f \in File, NEW x \in Obj, Store'[f] = x
               PROVE  IF provider = "s3"
                      THEN rows[x].st = "ready" /\ f \in Files(x)
                      ELSE /\ Live(x)
                           /\ \A q \in On(x, Worker \ {"create"})' : f \in Holds(q)'
                           /\ On(x, Worker \ {"create"})' = {} => f \in Files(x)
    BY <1>1, <1>6 DEF Owned
  <2>1. Store[f] = x
    BY <1>6
  <2>2. On(x, Worker \ {"create"})' = On(x, Worker \ {"create"})
    BY <1>14
  <2>3. \A q \in On(x, Worker \ {"create"}) : Holds(q)' = Holds(q)
    BY <1>4, <1>7 DEF On
  <2>4. IF provider = "s3"
        THEN rows[x].st = "ready" /\ f \in Files(x)
        ELSE /\ Live(x)
             /\ \A q \in On(x, Worker \ {"create"}) : f \in Holds(q)
             /\ On(x, Worker \ {"create"}) = {} => f \in Files(x)
    BY <2>1 DEF Good, Owned
  <2>5. \A q \in On(x, Worker \ {"create"})' : f \in Holds(q) => f \in Holds(q)'
    BY <2>2, <2>3
  <2> QED
    BY <2>2, <2>4, <2>5
<1>16. Whole'
  <2>1. \A x \in Obj : On(x, {"drop"} \cup Syncing)' = On(x, {"drop"} \cup Syncing)
    BY <1>4, <1>14
  <2>2. (\A q \in Request : req'[q].at # "dropBucket") => \A q \in Request : req[q].at # "dropBucket"
    BY <1>2, <1>4 DEF Others
  <2> QED
    BY <1>1, <1>6, <2>1, <2>2 DEF Good, Whole
<1>17. InProcess'
  <2>1. \A x \in Obj : On(x, {"convert", "derive", "record"})' = On(x, {"convert", "derive", "record"})
    BY <1>14 DEF Worker, Writing
  <2> QED
    BY <1>1, <2>1 DEF Good, InProcess
<1> QED
  BY <1>9, <1>10, <1>11, <1>12, <1>13, <1>15, <1>16, <1>17 DEF Good

\* What the removal of an object may leave: none of its files, and no one at work on it
LEMMA GoodClear ==
    ASSUME TypeOK, TypeOK', Fresh, Good, NEW r \in Request, ClearFiles(r), ~untidy'
    PROVE  Good'
<1>1. req[r].at = "clear" /\ req[r].obj \in Obj /\ Known(r)
  BY DEF ClearFiles, Fresh, Removing, Good
<1>2. PICK o \in Obj : o = req[r].obj
  BY <1>1
<1>3. /\ Live(o) /\ On(o, Worker) = {} /\ UNCHANGED <<provider, rows>>
  BY <1>2 DEF ClearFiles, Untidy, Worker
<1>4. FilesOf(req[r].path, req[r].der) = Files(o)
  BY <1>1, <1>2, <1>3 DEF Known, Files
<1>5. /\ \A f \in File : /\ f \notin Files(o) => disk'[f] = disk[f] /\ cloud'[f] = cloud[f]
                         /\ Store'[f] = IF f \in Files(o) THEN NoObj ELSE Store[f]
  BY <1>3, <1>4 DEF ClearFiles, Delete, Without, Store
<1>6. Others(r) /\ req'[r].at = "drop" /\ req'[r].obj = o
  BY <1>2, Moves DEF ClearFiles
<1>7. /\ "drop" \notin Worker \cup {"clear", "dropBucket"} /\ req[r].at \notin Worker \cup {"drop", "dropBucket"}
      /\ Syncing \subseteq Worker /\ NoObj \notin Obj /\ {"convert", "derive", "record"} \subseteq Worker
      /\ "syncDerived" \in Worker
  BY <1>1, IdleIsIdle DEF Worker, Writing, Syncing
<1>8. \A n : Files(n)' = Files(n) /\ Live(n)' = Live(n)
  BY <1>3, SameRow
<1>9. \A q \in Request \ {r} : Holds(q)' = Holds(q) /\ NewPath(q)' = NewPath(q) /\ req'[q] = req[q]
  BY <1>6, SameRequest DEF Others
<1>10. \A q \in Request : Known(q)'
  <2>1. Known(r)'
    BY <1>6 DEF Known, Writing, Syncing
  <2> QED
    BY <1>3, <1>9, <2>1, KnownStays DEF Good
<1>11. \A q \in Request : req[q].at \in Worker => req[q].obj # o
  BY <1>3 DEF On
<1>12. \A x \in Obj, L \in SUBSET Worker : On(x, L)' = On(x, L)
  <2> SUFFICES ASSUME NEW x \in Obj, NEW L \in SUBSET Worker
               PROVE  On(x, L)' = On(x, L)
    OBVIOUS
  <2>1. req[r].at \notin L /\ req'[r].at \notin L
    BY <1>6, <1>7
  <2> QED
    BY <1>9, <2>1 DEF On
<1>13. ASSUME NEW q \in Request \ {r}
       PROVE  HoldsOwn(q)'
  <2>1. HoldsOwn(q)
    BY DEF Good
  <2>2. ASSUME NEW f \in Holds(q)
        PROVE  f \in File /\ f \notin Files(o)
    BY <1>3, <1>11, <2>1, PathsAreFiles DEF HoldsOwn
  <2>3. \A f \in Holds(q) : /\ disk'[f] = req[q].obj
                            /\ \A n \in Obj : Live(n) /\ n # req[q].obj => f \notin Files(n)
    BY <1>5, <2>1, <2>2 DEF HoldsOwn
  <2>4. ASSUME req[q].at = "syncDerived"
        PROVE  cloud'[NewPath(q)] = req[q].obj
    <3>1. NewPath(q) \in Holds(q)
      BY <2>4, HoldsAt DEF Recorded, Syncing, FilesOf
    <3> QED
      BY <1>5, <2>1, <2>2, <2>4, <3>1 DEF HoldsOwn
  <2>5. ASSUME req[q].at = "drop"
        PROVE  /\ \A p \in Request : ~(req'[p].obj = req[q].obj /\ req'[p].at \in Worker)
               /\ \A f \in File : Store'[f] # req[q].obj
    <3>1. /\ \A p \in Request : ~(req[p].obj = req[q].obj /\ req[p].at \in Worker)
          /\ \A f \in File : Store[f] # req[q].obj
          /\ req[q].obj \in Obj
      BY <2>1, <2>5 DEF HoldsOwn, On, Fresh, Removing
    <3> QED
      BY <1>5, <1>6, <1>7, <1>9, <3>1
  <2> QED
    BY <1>8, <1>9, <2>3, <2>4, <2>5 DEF HoldsOwn, On
<1>14. HoldsOwn(r)'
  <2>1. Holds(r)' = {}
    BY <1>6 DEF Holds, Recorded, Syncing
  <2>2. \A p \in Request : ~(req'[p].obj = o /\ req'[p].at \in Worker)
    BY <1>6, <1>7, <1>9, <1>11
  <2>3. ASSUME NEW f \in File, Store[f] = o
        PROVE  f \in Files(o)
    <3>1. On(o, Worker \ {"create"}) = {}
      BY <1>3 DEF On
    <3>2. IF provider = "s3"
          THEN rows[o].st = "ready" /\ f \in Files(o)
          ELSE /\ Live(o)
               /\ \A q \in On(o, Worker \ {"create"}) : f \in Holds(q)
               /\ On(o, Worker \ {"create"}) = {} => f \in Files(o)
      BY <2>3 DEF Good, Owned
    <3> QED
      BY <3>1, <3>2
  <2>4. \A f \in File : Store'[f] # o
    BY <1>5, <1>7, <2>3
  <2> QED
    BY <1>6, <2>1, <2>2, <2>4 DEF HoldsOwn, On
<1>15. OneWorker' /\ Distinct' /\ InProcess'
  <2>1. OneWorker'
    BY <1>6, <1>7, <1>9 DEF Good, OneWorker
  <2>2. Distinct'
    BY <1>8 DEF Good, Distinct
  <2>3. InProcess'
    BY <1>3, <1>7, <1>12 DEF Good, InProcess
  <2> QED
    BY <2>1, <2>2, <2>3
<1>16. Owned'
  <2> SUFFICES ASSUME NEW f \in File, NEW x \in Obj, Store'[f] = x
               PROVE  IF provider = "s3"
                      THEN rows[x].st = "ready" /\ f \in Files(x)
                      ELSE /\ Live(x)
                           /\ \A q \in On(x, Worker \ {"create"})' : f \in Holds(q)'
                           /\ On(x, Worker \ {"create"})' = {} => f \in Files(x)
    BY <1>3, <1>8 DEF Owned
  <2>1. Store[f] = x
    BY <1>5, <1>7
  <2>2. On(x, Worker \ {"create"})' = On(x, Worker \ {"create"})
    BY <1>12
  <2>3. \A q \in On(x, Worker \ {"create"}) : Holds(q)' = Holds(q)
    BY <1>7, <1>9 DEF On
  <2>4. IF provider = "s3"
        THEN rows[x].st = "ready" /\ f \in Files(x)
        ELSE /\ Live(x)
             /\ \A q \in On(x, Worker \ {"create"}) : f \in Holds(q)
             /\ On(x, Worker \ {"create"}) = {} => f \in Files(x)
    BY <2>1 DEF Good, Owned
  <2>5. \A q \in On(x, Worker \ {"create"})' : f \in Holds(q) => f \in Holds(q)'
    BY <2>2, <2>3
  <2> QED
    BY <2>2, <2>4, <2>5
<1>17. Whole'
  <2> SUFFICES ASSUME NEW x \in Obj, rows[x].st = "ready", NEW f \in Files(x),
                      On(x, {"drop"} \cup Syncing)' = {}, \A q \in Request : req'[q].at # "dropBucket"
               PROVE  Store'[f] = x
    BY <1>3, <1>8 DEF Whole
  <2>1. x # o
    BY <1>6 DEF On
  <2>2. On(x, {"drop"} \cup Syncing) = {}
    BY <1>1, <1>7, <1>9 DEF On
  <2>3. \A q \in Request : req[q].at # "dropBucket"
    BY <1>7, <1>9
  <2>4. Store[f] = x
    BY <2>2, <2>3 DEF Good, Whole
  <2>5. f \notin Files(o) /\ f \in File
    BY <1>3, <2>1, PathsAreFiles DEF Good, Distinct, Live
  <2> QED
    BY <1>5, <2>4, <2>5
<1> QED
  BY <1>10, <1>13, <1>14, <1>15, <1>16, <1>17 DEF Good

\* A row comes or goes while nobody works on its object and no file is the object's
LEMMA RowComesOrGoes ==
    ASSUME TypeOK, TypeOK', Fresh, Good, UNCHANGED <<provider, disk, cloud>>,
           NEW r \in Request, Others(r), NEW o \in Obj,
           req[r].at \notin Worker \cup {"dropBucket"}, req[r].at = "drop" => req[r].obj = o,
           req'[r].at \notin Worker \cup {"clear", "drop", "dropBucket"},
           \A n \in Obj \ {o} : rows'[n] = rows[n],
           \A q \in Request : req[q].at \in Worker => req[q].obj # o,
           \A f \in File : Store[f] # o,
           \/ rows'[o].st = "gone"
           \/ /\ rows'[o].st = "pending" /\ ~rows'[o].der /\ disk[rows'[o].path] = NoObj
              /\ \A q \in Request : req[q].obj # o
              /\ \A n \in Obj \ {o} : Live(n) => rows[n].path # rows'[o].path
    PROVE  Good'
<1>1. \A x \in Obj \ {o} : Files(x)' = Files(x) /\ Live(x)' = Live(x)
  BY SameRow
<1>2. \A q \in Request \ {r} : Holds(q)' = Holds(q) /\ NewPath(q)' = NewPath(q) /\ req'[q] = req[q]
  BY SameRequest DEF Others
<1>3. /\ Syncing \subseteq Worker /\ NoObj \notin Obj /\ {"convert", "derive", "record"} \subseteq Worker
      /\ Worker \cup {"clear"} \subseteq Worker \cup Removing /\ "drop" \notin Worker
  BY IdleIsIdle DEF Worker, Writing, Syncing, Removing
<1>4. \A q \in Request : Known(q)'
  <2>1. Known(r)'
    BY DEF Known, Worker, Writing, Syncing
  <2>2. ASSUME NEW q \in Request \ {r}
        PROVE  Known(q)'
    <3>1. Known(q) /\ req'[q] = req[q]
      BY <1>2 DEF Good
    <3>2. req[q].at \in Worker \cup {"clear"} =>
              rows'[req[q].obj] = rows[req[q].obj] \/ rows'[req[q].obj].st = "gone"
      BY <1>3 DEF Fresh
    <3> QED
      BY <3>1, <3>2, KnownStays
  <2> QED
    BY <2>1, <2>2
<1>5. Store' = Store
  BY DEF Store
<1>6. ASSUME Live(o)'
      PROVE  /\ Files(o)' = {rows'[o].path} /\ rows'[o].path \in Path /\ disk[rows'[o].path] = NoObj
             /\ \A n \in Obj \ {o} : Live(n) => rows'[o].path \notin Files(n)
  BY <1>6 DEF Live, Files, FilesOf, TypeOK, ObjectRow, Path
<1>7. ASSUME NEW q \in Request \ {r}
      PROVE  HoldsOwn(q)'
  <2>1. HoldsOwn(q)
    BY DEF Good
  <2>2. ASSUME NEW f \in Holds(q)
        PROVE  /\ disk'[f] = req[q].obj
               /\ \A n \in Obj : Live(n)' /\ n # req[q].obj => f \notin Files(n)'
    <3>1. disk[f] = req[q].obj /\ req[q].obj \in Obj
      BY <2>1, PathsAreFiles DEF HoldsOwn, Fresh
    <3>2. Live(o)' => f \notin Files(o)'
      BY <1>3, <1>6, <3>1
    <3> QED
      BY <1>1, <2>1, <3>1, <3>2 DEF HoldsOwn
  <2>3. req[q].at = "drop" => \A p \in Request : ~(req'[p].obj = req[q].obj /\ req'[p].at \in Worker)
    BY <1>2, <2>1 DEF HoldsOwn, On
  <2> QED
    BY <1>2, <1>5, <2>1, <2>2, <2>3 DEF HoldsOwn, On
<1>8. HoldsOwn(r)'
  BY DEF HoldsOwn, Holds, Recorded, Worker, Writing, Syncing
<1>9. OneWorker'
  BY <1>2 DEF Good, OneWorker
<1>10. Distinct'
  <2> SUFFICES ASSUME NEW x \in Obj, NEW n \in Obj, Live(x)', Live(n)', x # n
               PROVE  Files(x)' \cap Files(n)' = {}
    BY DEF Distinct
  <2>1. CASE x = o
    BY <1>1, <1>6, <2>1
  <2>2. CASE n = o
    BY <1>1, <1>6, <2>2
  <2>3. CASE x # o /\ n # o
    BY <1>1, <2>3 DEF Good, Distinct
  <2> QED
    BY <2>1, <2>2, <2>3
<1>11. \A x \in Obj, L \in SUBSET Worker : On(x, L)' = On(x, L)
  <2> SUFFICES ASSUME NEW x \in Obj, NEW L \in SUBSET Worker
               PROVE  On(x, L)' = On(x, L)
    OBVIOUS
  <2>1. req[r].at \notin L /\ req'[r].at \notin L
    OBVIOUS
  <2> QED
    BY <1>2, <2>1 DEF On
<1>12. Owned'
  <2> SUFFICES ASSUME NEW f \in File, NEW x \in Obj, Store'[f] = x
               PROVE  IF provider = "s3"
                      THEN rows'[x].st = "ready" /\ f \in Files(x)'
                      ELSE /\ Live(x)'
                           /\ \A q \in On(x, Worker \ {"create"})' : f \in Holds(q)'
                           /\ On(x, Worker \ {"create"})' = {} => f \in Files(x)'
    BY DEF Owned
  <2>1. Store[f] = x /\ x # o
    BY <1>5
  <2>2. On(x, Worker \ {"create"})' = On(x, Worker \ {"create"})
    BY <1>11
  <2>3. \A q \in On(x, Worker \ {"create"}) : Holds(q)' = Holds(q)
    BY <1>2 DEF On
  <2>4. IF provider = "s3"
        THEN rows[x].st = "ready" /\ f \in Files(x)
        ELSE /\ Live(x)
             /\ \A q \in On(x, Worker \ {"create"}) : f \in Holds(q)
             /\ On(x, Worker \ {"create"}) = {} => f \in Files(x)
    BY <2>1 DEF Good, Owned
  <2>5. \A q \in On(x, Worker \ {"create"})' : f \in Holds(q) => f \in Holds(q)'
    BY <2>2, <2>3
  <2> QED
    BY <1>1, <2>1, <2>2, <2>4, <2>5
<1>13. Whole'
  <2> SUFFICES ASSUME NEW x \in Obj, rows'[x].st = "ready", NEW f \in Files(x)',
                      On(x, {"drop"} \cup Syncing)' = {}, \A q \in Request : req'[q].at # "dropBucket"
               PROVE  Store'[f] = x
    BY DEF Whole
  <2>1. x # o
    OBVIOUS
  <2>2. On(x, {"drop"} \cup Syncing) = {}
    BY <1>2, <1>3, <2>1 DEF On
  <2>3. \A q \in Request : req[q].at # "dropBucket"
    BY <1>2
  <2> QED
    BY <1>1, <1>5, <2>1, <2>2, <2>3 DEF Good, Whole
<1>14. InProcess'
  <2>1. \A x \in Obj : On(x, {"convert", "derive", "record"})' = On(x, {"convert", "derive", "record"})
    BY <1>3, <1>11
  <2> QED
    BY <2>1 DEF Good, InProcess
<1> QED
  BY <1>4, <1>7, <1>8, <1>9, <1>10, <1>12, <1>13, <1>14 DEF Good

LEMMA GoodDropRow ==
    ASSUME TypeOK, TypeOK', Fresh, Good, NEW r \in Request, DropRow(r)
    PROVE  Good'
<1>1. req[r].at = "drop" /\ req[r].obj \in Obj /\ HoldsOwn(r)
  BY DEF DropRow, Fresh, Removing, Good
<1>2. PICK o \in Obj : o = req[r].obj
  BY <1>1
<1>3. /\ UNCHANGED <<provider, disk, cloud>> /\ \A n \in Obj \ {o} : rows'[n] = rows[n]
      /\ rows'[o].st = "gone"
  BY <1>2 DEF DropRow, TypeOK, ObjectRow
<1>4. Others(r) /\ req'[r].at \in {"insert", "idle"}
  BY Moves, IdleIsIdle DEF DropRow
<1>5. /\ \A q \in Request : req[q].at \in Worker => req[q].obj # o
      /\ \A f \in File : Store[f] # o
  BY <1>1, <1>2 DEF HoldsOwn, On
<1>6. /\ "drop" \notin Worker \cup {"dropBucket"}
      /\ \A l \in {"insert", "idle"} : l \notin Worker \cup {"clear", "drop", "dropBucket"}
  BY DEF Worker, Writing, Syncing
<1> QED
  BY <1>1, <1>2, <1>3, <1>4, <1>5, <1>6, RowComesOrGoes

LEMMA GoodInsert ==
    ASSUME TypeOK, TypeOK', Fresh, Good, NEW r \in Request, InsertRow(r), ~untidy'
    PROVE  Good'
<1>1. CASE UNCHANGED rows
  BY <1>1, GoodAsk
<1>2. CASE ~UNCHANGED rows
  <2>1. PICK o \in Obj :
            /\ rows[o].st = "none" /\ req[r].path \notin Held /\ disk[req[r].path] = NoObj
            /\ rows' = [rows EXCEPT ![o] = [st |-> "pending", path |-> req[r].path,
                                            kind |-> req[r].kind, der |-> FALSE]]
    BY <1>2 DEF InsertRow, Untidy
  <2>2. /\ \A n \in Obj \ {o} : rows'[n] = rows[n]
        /\ rows'[o].st = "pending" /\ ~rows'[o].der /\ rows'[o].path = req[r].path
        /\ UNCHANGED <<provider, disk, cloud>> /\ req[r].at = "insert"
    BY <2>1 DEF InsertRow, TypeOK
  <2>3. Others(r) /\ req'[r].at = "idle"
    BY Moves, IdleIsIdle DEF InsertRow
  <2>4. /\ \A q \in Request : req[q].obj # o
        /\ \A f \in File : Store[f] # o
    BY <2>1 DEF Fresh, Store
  <2>5. \A n \in Obj : Live(n) => rows[n].path # req[r].path
    BY <2>1 DEF Held, TypeOK, RequestState
  <2>6. /\ "insert" \notin Worker \cup {"dropBucket", "drop"}
        /\ "idle" \notin Worker \cup {"clear", "drop", "dropBucket"}
    BY DEF Worker, Writing, Syncing
  <2> QED
    BY <2>1, <2>2, <2>3, <2>4, <2>5, <2>6, RowComesOrGoes
<1> QED
  BY <1>1, <1>2

LEMMA GoodPurge ==
    ASSUME TypeOK, TypeOK', Fresh, Good, NEW r \in Request, Purge(r), ~untidy'
    PROVE  Good'
<1>1. /\ \A q \in Request : req[q].at \in {"idle", "purge"}
      /\ UNCHANGED <<provider, rows>> /\ Goto(r, "dropBucket")
  BY DEF Purge, Untidy
<1>2. Others(r) /\ req'[r].at = "dropBucket"
  BY <1>1, Moves
<1>3. \A q \in Request : req'[q].at \in {"idle", "purge", "dropBucket"}
  BY <1>1, <1>2 DEF Others
<1>4. \A f \in File : Store'[f] = NoObj
  <2>1. CASE provider = "s3"
    <3>1. \A f \in File : cloud'[f] =
              IF f \in UNION {FilesOf(rows[o].path, rows[o].der) : o \in {n \in Obj : Live(n)}}
              THEN NoObj ELSE cloud[f]
      BY <2>1 DEF Purge, Without
    <3>2. ASSUME NEW f \in File, NEW o \in Obj, cloud[f] = o
          PROVE  f \in UNION {FilesOf(rows[n].path, rows[n].der) : n \in {n \in Obj : Live(n)}}
      <4>1. rows[o].st = "ready" /\ f \in FilesOf(rows[o].path, rows[o].der)
        BY <2>1, <3>2 DEF Good, Owned, Store, Files
      <4> QED
        BY <4>1 DEF Live
    <3>3. \A f \in File : cloud[f] \in Obj \cup {NoObj}
      BY DEF TypeOK
    <3>4. \A f \in File : cloud'[f] = NoObj
      BY <3>1, <3>2, <3>3
    <3> QED
      BY <1>1, <2>1, <3>4 DEF Store
  <2>2. CASE provider # "s3"
    BY <1>1, <2>2 DEF Purge, Empty, Store
  <2> QED
    BY <2>1, <2>2
<1>5. Distinct' /\ InProcess'
  <2>1. \A n : Files(n)' = Files(n) /\ Live(n)' = Live(n)
    BY <1>1, SameRow
  <2>2. \A o \in Obj : rows[o].st # "processing"
    BY <1>1 DEF Good, InProcess, On
  <2> QED
    BY <1>1, <2>1, <2>2 DEF Good, Distinct, InProcess
<1>6. \A l \in {"idle", "purge", "dropBucket"} : l \notin Worker \cup {"drop", "clear"}
  BY DEF Worker, Writing, Syncing
<1>7. \A q \in Request : Known(q)' /\ HoldsOwn(q)'
  BY <1>3 DEF Known, HoldsOwn, Holds, Recorded, Writing, Syncing
<1>8. OneWorker'
  BY <1>3, <1>6 DEF OneWorker
<1>9. Owned' /\ Whole'
  BY <1>2, <1>4, IdleIsIdle DEF Owned, Whole
<1> QED
  BY <1>5, <1>7, <1>8, <1>9 DEF Good

LEMMA GoodDropBucket ==
    ASSUME TypeOK, TypeOK', Fresh, Good, NEW r \in Request, DropBucket(r), ~untidy'
    PROVE  Good'
<1>1. /\ \A f \in File : Store[f] = NoObj
      /\ rows' = [o \in Obj |-> IF Live(o) THEN [rows[o] EXCEPT !.st = "gone"] ELSE rows[o]]
      /\ UNCHANGED <<provider, disk, cloud>>
  BY DEF DropBucket, Untidy
<1>2. Others(r) /\ req'[r].at = "idle" /\ req[r].at = "dropBucket"
  BY Moves, IdleIsIdle DEF DropBucket
<1>3. \A o \in Obj : ~Live(o)' /\ (rows'[o] = rows[o] \/ rows'[o].st = "gone")
  BY <1>1 DEF Live, TypeOK, ObjectRow
<1>4. /\ {"idle", "dropBucket"} \cap (Worker \cup {"drop", "clear"}) = {}
      /\ Worker \cup {"clear"} \subseteq Worker \cup Removing /\ NoObj \notin Obj
  BY IdleIsIdle DEF Worker, Writing, Syncing, Removing
<1>5. Store' = Store
  BY <1>1 DEF Store
<1>6. ASSUME NEW q \in Request \ {r}
      PROVE  Known(q)' /\ HoldsOwn(q)'
  <2>1. /\ Known(q) /\ HoldsOwn(q) /\ req'[q] = req[q] /\ Holds(q)' = Holds(q)
        /\ NewPath(q)' = NewPath(q)
    BY <1>2, SameRequest DEF Good, Others
  <2>2. req[q].at \in Worker \cup {"clear"} => req[q].obj \in Obj
    BY <1>4 DEF Fresh
  <2>3. Known(q)'
    BY <1>1, <1>3, <2>1, <2>2, KnownStays
  <2>4. req[q].at = "drop" => \A p \in Request : ~(req'[p].obj = req[q].obj /\ req'[p].at \in Worker)
    BY <1>2, <1>4, <2>1 DEF HoldsOwn, On, Others
  <2>5. HoldsOwn(q)'
    BY <1>1, <1>3, <1>5, <2>1, <2>4 DEF HoldsOwn, On
  <2> QED
    BY <2>3, <2>5
<1>7. Known(r)' /\ HoldsOwn(r)'
  BY <1>2 DEF Known, HoldsOwn, Holds, Recorded, Writing, Syncing
<1>8. OneWorker'
  BY <1>2, <1>4 DEF Good, OneWorker, Others
<1>9. Distinct' /\ Owned'
  BY <1>1, <1>3, <1>4, <1>5 DEF Distinct, Owned
<1>10. \A o \in Obj : rows'[o].st \notin {"ready", "pending", "processing"}
  BY <1>3 DEF Live
<1>11. Whole' /\ InProcess'
  BY <1>10 DEF Whole, InProcess
<1> QED
  BY <1>6, <1>7, <1>8, <1>9, <1>11 DEF Good

\* A request that has nothing in hand
LEMMA GoodAbandon ==
    ASSUME TypeOK, TypeOK', Fresh, Good, NEW r \in Request, Abandon(r), ~untidy'
    PROVE  Good'
<1>1. CASE req[r].at \in {"create", "stream"}
  BY <1>1, GoodBreak
<1>2. CASE req[r].at \in {"find", "clear", "insert", "purge"}
  <2>1. /\ Others(r) /\ req'[r].at = "idle"
        /\ UNCHANGED <<provider, rows, disk, cloud>>
    BY Moves, IdleIsIdle DEF Abandon
  <2>2. /\ req[r].at \notin Worker \cup {"drop", "dropBucket"}
        /\ "idle" \notin Worker \cup {"drop", "dropBucket", "clear"}
    BY <1>2 DEF Worker, Writing, Syncing
  <2> QED
    BY <2>1, <2>2, QuietStep
<1> QED
  BY <1>1, <1>2 DEF Abandon, Untidy

LEMMA MatchedInit == Init => Matched /\ Fresh
<1> SUFFICES ASSUME Init PROVE Good /\ Fresh
  BY DEF Matched
<1>1. \A q \in Request : req[q] = Idle /\ req[q].at = "idle" /\ req[q].obj = NoObj
  BY IdleIsIdle DEF Init
<1>2. \A o \in Obj : rows[o].st = "none" /\ ~Live(o)
  BY DEF Init, NoRow, Live
<1>3. \A f \in File : disk[f] = NoObj /\ cloud[f] = NoObj /\ Store[f] = NoObj
  BY DEF Init, Empty, Store
<1>4. Distinct /\ InProcess
  BY <1>2 DEF Distinct, InProcess
<1>6. "idle" \notin Worker \cup Removing
  BY DEF Worker, Writing, Syncing, Removing
<1>7. \A q \in Request : Known(q) /\ HoldsOwn(q)
  BY <1>1 DEF Known, HoldsOwn, Holds, Recorded, Writing, Syncing
<1>8. OneWorker /\ Owned /\ Whole
  BY <1>1, <1>2, <1>3, <1>6, IdleIsIdle DEF OneWorker, Owned, Whole
<1>9. Good
  BY <1>4, <1>7, <1>8 DEF Good
<1> QED
  BY <1>1, <1>3, <1>6, <1>9, IdleIsIdle DEF Fresh

LEMMA MatchedNext ==
    ASSUME TypeOK, TypeOK', Fresh, Matched, [Next]_vars
    PROVE  Matched'
<1> SUFFICES ASSUME ~untidy'
             PROVE  Good'
  BY DEF Matched
<1>1. ASSUME UNCHANGED <<provider, rows, disk, cloud, req, untidy>>
      PROVE  Good'
  <2>1. Good
    BY <1>1 DEF Matched
  <2>2. Store' = Store /\ \A n : Files(n)' = Files(n) /\ Live(n)' = Live(n)
    BY <1>1, SameRow DEF Store
  <2>3. \A q : Holds(q)' = Holds(q) /\ NewPath(q)' = NewPath(q)
    BY <1>1, SameRequest
  <2>4. \A x : \A L : On(x, L)' = On(x, L)
    BY <1>1 DEF On
  <2>5. \A q \in Request : Known(q)' /\ HoldsOwn(q)'
    BY <1>1, <2>1, <2>2, <2>3 DEF Good, Known, HoldsOwn, On
  <2>6. OneWorker' /\ Distinct'
    BY <1>1, <2>1, <2>2 DEF Good, OneWorker, Distinct
  <2>7. Owned' /\ Whole' /\ InProcess'
    BY <1>1, <2>1, <2>2, <2>3, <2>4 DEF Good, Owned, Whole, InProcess
  <2> QED
    BY <2>5, <2>6, <2>7 DEF Good
<1>2. CASE UNCHANGED vars \/ \E r \in Request : CreateBucket(r)
  <2>1. UNCHANGED <<provider, rows, disk, cloud, req, untidy>>
    BY <1>2 DEF vars, CreateBucket
  <2> QED
    BY <1>1, <2>1
<1>3. CASE Crash
  <2>1. \A q \in Request : req[q] = Idle
    BY <1>3 DEF Crash, Untidy
  <2>2. req' = req
    BY <1>3, <2>1 DEF Crash, TypeOK
  <2>3. UNCHANGED <<provider, rows, disk, cloud, untidy>>
    BY <1>3 DEF Crash, Untidy, Matched, TypeOK
  <2> QED
    BY <1>1, <2>2, <2>3
<1>4. ASSUME NEW r \in Request,
             \/ \E p \in Path, k \in Kind : AskUpload(r, p, k)
             \/ \E o \in Obj : AskDelete(r, o) \/ OpenStream(r, o)
             \/ Requesting(r) \/ Abandon(r) \/ Processing(r) \/ AskPurge(r)
      PROVE  Good'
  <2>1. ~untidy
    BY <1>4, Zenon DEF AskUpload, AskDelete, OpenStream, Requesting, FindSame, ClearFiles, DropRow,
          InsertRow, CreateFile, FinishStream, Purge, DropBucket, Abandon, Processing, Convert,
          Derive, ProcessingFails, Record, SyncOriginal, SyncDerived, AskPurge, Untidy
  <2>2. Good
    BY <2>1 DEF Matched
  <2>3. CASE \/ \E p \in Path, k \in Kind : AskUpload(r, p, k)
             \/ \E o \in Obj : AskDelete(r, o) \/ OpenStream(r, o)
             \/ AskPurge(r) \/ FindSame(r) \/ InsertRow(r)
    BY <2>2, <2>3, GoodAsk, GoodOpen, GoodInsert
  <2>4. CASE ClearFiles(r) \/ DropRow(r) \/ Purge(r) \/ DropBucket(r)
    BY <2>2, <2>4, GoodClear, GoodDropRow, GoodPurge, GoodDropBucket
  <2>5. CASE CreateFile(r) \/ FinishStream(r) \/ Abandon(r)
    BY <2>2, <2>5, GoodCreate, GoodFinish, GoodAbandon
  <2>6. CASE Processing(r)
    BY <2>2, <2>6, GoodConvert, GoodDerive, GoodFails, GoodRecord, GoodSyncOriginal,
       GoodSyncDerived DEF Processing
  <2> QED
    BY <1>4, <2>3, <2>4, <2>5, <2>6 DEF Requesting
<1>5. CASE \E r \in Request : ClearFails(r) \/ PurgeFails(r) \/ ProcessingAmiss(r)
  BY <1>5 DEF ClearFails, PurgeFails, ProcessingAmiss, ConvertLeaves, ProcessingLeaves,
              RecordLost, SyncFails
<1> QED
  BY <1>2, <1>3, <1>4, <1>5 DEF Next, RequestAmiss

LEMMA MatchedSuffices ==
    ASSUME TypeOK, Matched
    PROVE  FilesMatchRows
<1> SUFFICES ASSUME AtRest, Good
             PROVE  /\ \A o \in Obj : rows[o].st = "ready" =>
                        Downloads(o) /\ (rows[o].der => Store["der"] = o)
                    /\ \A f \in File : Store[f] # NoObj =>
                        /\ Live(Store[f])
                        /\ f \in FilesOf(rows[Store[f]].path, rows[Store[f]].der)
                    /\ \A o \in Obj : rows[o].st # "processing"
  BY DEF FilesMatchRows, Matched
<1>1. /\ \A q \in Request : req[q].at = "idle"
      /\ "idle" \notin Worker /\ "idle" \notin {"drop"} \cup Syncing
  BY IdleIsIdle DEF AtRest, Worker, Writing, Syncing
<1>2. \A o \in Obj : /\ On(o, {"drop"} \cup Syncing) = {} /\ On(o, Worker \ {"create"}) = {}
                     /\ On(o, {"convert", "derive", "record"}) = {}
  BY <1>1 DEF On
<1>3. ASSUME NEW o \in Obj, rows[o].st = "ready"
      PROVE  Downloads(o) /\ (rows[o].der => Store["der"] = o)
  <2>1. \A f \in Files(o) : Store[f] = o
    BY <1>1, <1>2, <1>3 DEF Good, Whole
  <2> QED
    BY <1>3, <2>1 DEF Downloads, Files, FilesOf
<1>4. ASSUME NEW f \in File, Store[f] # NoObj
      PROVE  Live(Store[f]) /\ f \in FilesOf(rows[Store[f]].path, rows[Store[f]].der)
  <2>1. Store[f] \in Obj
    BY <1>4 DEF TypeOK, Store
  <2>2. PICK o \in Obj : o = Store[f]
    BY <2>1
  <2>3. Live(o) /\ f \in Files(o)
    BY <1>2, <2>2 DEF Good, Owned, Live
  <2> QED
    BY <2>2, <2>3 DEF Files
<1>5. \A o \in Obj : rows[o].st # "processing"
  BY <1>2 DEF Good, InProcess
<1> QED
  BY <1>3, <1>4, <1>5

\* Whatever the requests, objects and events, with either provider: unless one of the
\* named mishaps happened, at rest every object that is ready downloads its own bytes,
\* every file of the store is the file of a row, and no row is left in processing.
THEOREM FilesMatchRowsAlways == Spec => []FilesMatchRows
<1>1. Init => TypeOK /\ Fresh /\ Matched
  BY TypeInit, MatchedInit
<1>2. TypeOK /\ Fresh /\ Matched /\ [Next]_vars => (TypeOK /\ Fresh /\ Matched)'
  BY TypeNext, FreshNext, MatchedNext
<1>3. TypeOK /\ Fresh /\ Matched => FilesMatchRows
  BY MatchedSuffices
<1> QED
  BY <1>1, <1>2, <1>3, PTL DEF Spec
=============================================================================
