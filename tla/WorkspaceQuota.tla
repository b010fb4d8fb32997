---------------------------- MODULE WorkspaceQuota ----------------------------
(***************************************************************************)
(* The memory quota of ONE workspace: the requests that create and change  *)
(* app instances, databases and functions (controllers/app_controller.rs,  *)
(* database_controller.rs, serverless_controller.rs), each of which holds  *)
(* the workspace's advisory lock (utils/locks.rs) around a check of        *)
(* utils/limits.rs and a write; and all that changes the same rows without *)
(* the lock.                                                               *)
(*                                                                         *)
(* The lock lives in a Postgres session, hence in a connection of the      *)
(* pool, and every statement under the lock takes another connection of    *)
(* the same pool: lock and pool are one resource.  A statement takes and   *)
(* returns its connection in one step, unless its handler is dropped while *)
(* it runs.  The CPU quota is checked beside this one in the same way.     *)
(* Rows that are inserted without the lock (a new app, a preview branch, a *)
(* compose file) have no memory limit and weigh nothing.                   *)
(***************************************************************************)
EXTENDS Integers, FiniteSets

CONSTANTS
    Request,      \* requests that can be in flight at one time
    App, Db, Fn,  \* rows of app_instances, databases, serverless_instances
    Mems,         \* values of memory_limit_mb; 0 is no limit
    Reps,         \* values of replicas_max
    Limits,       \* values of max_memory_mb; 0 is no quota
    Conns,        \* max_connections of the pool
    MaxEvents     \* bound: requests, and changes made without the lock

Row == App \cup Db \cup Fn
NotGiven == -1  \* a field the request leaves out
Nobody == "nobody"

ASSUME QuotaConstantsOK ==
    /\ App \cap Db = {} /\ App \cap Fn = {} /\ Db \cap Fn = {}
    /\ Mems \subseteq Nat
    /\ Reps \subseteq Nat \ {0} /\ 1 \in Reps
    /\ Limits \subseteq Nat
    /\ Conns \in Nat \ {0}
    /\ MaxEvents \in Nat
    /\ IsFiniteSet(Request) /\ Nobody \notin Request
    /\ IsFiniteSet(Row)

VARIABLES
    limit,      \* workspaces.max_memory_mb
    live,       \* live[r]: "absent", "on", or "off" ('stopped' or 'failed')
    mem,        \* mem[r]: memory_limit_mb
    reps,       \* reps[r]: replicas_max, 1 for what is not an app instance
    free,       \* connections of the pool not in use
    lock,       \* who holds the advisory lock
    orphans,    \* abandoned sessions that still wait for the lock
    keeper,     \* the request that drew the connection which an abandoned
                \* session left locked
    at,         \* at[q]: where a request is
    want,       \* want[q]: what it asks for
    room,       \* room[q]: what its check has left of the quota so far
    disturbed,  \* ghost: the quota or a row was changed without the lock
                \* while the request was between its lock and its end
    events      \* events so far

rows == <<live, mem, reps>>
pool == <<free, lock, orphans, keeper>>
requests == <<at, want, room>>
vars == <<limit, rows, pool, requests, disturbed, events>>

\* The lock is held by the request in its section, by a task spawned to
\* unlock it, by a session nobody uses, or by nobody.
Held == "held"
Unlocking == "unlocking"
Leaked == "leaked"
Free == "free"

\* The statements under the lock, in the order of the code
Checking == {"find", "quota", "apps", "dbs", "fns"}
Section == Checking \cup {"write", "finish"}
Unlimited == -1

\* A sum is the number of the megabytes it is over
Weight(r) == IF live[r] = "on" THEN mem[r] * reps[r] ELSE 0
Sum(S) == Cardinality(UNION {{r} \X (1..Weight(r)) : r \in S})
Used == Sum(Row)

Nothing == [op |-> "create", row |-> CHOOSE r \in Row : TRUE, mem |-> 0, reps |-> 1]

Init ==
    /\ limit \in Limits
    /\ live = [r \in Row |-> "absent"]
    /\ mem = [r \in Row |-> 0]
    /\ reps = [r \in Row |-> 1]
    /\ free = Conns /\ lock = Free /\ orphans = 0 /\ keeper = Nobody
    /\ at = [q \in Request |-> "idle"]
    /\ want = [q \in Request |-> Nothing]
    /\ room = [q \in Request |-> Unlimited]
    /\ disturbed = [q \in Request |-> FALSE]
    /\ events = 0

Event == events < MaxEvents /\ events' = events + 1

Goto(q, l) == at' = [at EXCEPT ![q] = l]

-----------------------------------------------------------------------------
(***************************************************************************)
(* acquire_workspace_lock.                                                 *)
(***************************************************************************)

\* The row of a creation is new: its id is random.
Fresh(r) ==
    /\ live[r] = "absent"
    /\ \A q \in Request : at[q] # "idle" => want[q].row # r

\* The fields a request may carry.  Only app instances have replicas; the
\* settings of a database always carry its memory.
Fields(op, r) ==
    [op : {op}, row : {r},
     mem : IF op = "change" /\ r \notin Db THEN Mems \cup {NotGiven} ELSE Mems,
     reps : CASE r \notin App -> {1}
              [] r \in App /\ op = "create" -> Reps
              [] r \in App /\ op = "change" -> Reps \cup {NotGiven}]

Ask(q) ==
    /\ at[q] = "idle"
    /\ Event
    /\ \E r \in Row :
        \E w \in IF Fresh(r) THEN Fields("create", r) ELSE Fields("change", r) :
            /\ w.op = "change" => live[r] # "absent"
            /\ want' = [want EXCEPT ![q] = w]
    /\ Goto(q, "connect")
    /\ disturbed' = [disturbed EXCEPT ![q] = FALSE]
    /\ UNCHANGED <<limit, rows, pool, room>>

\* pool.acquire: the connection stays pinned until the lock is released.  It may
\* be the one that an abandoned session left locked.
Connect(q) ==
    /\ at[q] = "connect"
    /\ free > 0
    /\ free' = free - 1
    /\ Goto(q, "lock")
    /\ \/ (lock = Leaked /\ keeper = Nobody => free > 1) /\ UNCHANGED keeper
       \/ lock = Leaked /\ keeper = Nobody /\ keeper' = q
    /\ UNCHANGED <<limit, rows, lock, orphans, want, room, disturbed, events>>

\* acquire_timeout
ConnectTimesOut(q) ==
    /\ at[q] = "connect"
    /\ free = 0
    /\ Goto(q, "idle")
    /\ UNCHANGED <<limit, rows, pool, want, room, disturbed, events>>

Lock_Tried(q) ==  \* mutant: the answer of pg_try_advisory_lock is ignored
    /\ at[q] = "lock"
    /\ lock' = Held
    /\ Goto(q, "find")
    /\ UNCHANGED <<limit, rows, free, orphans, keeper, want, room, disturbed,
                   events>>

\* pg_advisory_lock waits without a limit; a session that has the lock already
\* is given it again.
Lock(q) ==
    /\ at[q] = "lock"
    /\ \/ lock = Free /\ lock' = Held
       \/ lock = Leaked /\ keeper = q /\ UNCHANGED lock
    /\ Goto(q, "find")
    /\ UNCHANGED <<limit, rows, free, orphans, keeper, want, room, disturbed,
                   events>>

\* The guard is dropped: the handler is over, and a task of its own unlocks.
Leave(q) ==
    /\ Goto(q, "idle")
    /\ IF keeper = q
       THEN free' = free + 1 /\ keeper' = Nobody /\ UNCHANGED lock
       ELSE lock' = Unlocking /\ UNCHANGED <<free, keeper>>
    /\ UNCHANGED orphans

Unlock_KeepsConnection ==  \* mutant: the connection is not given back
    /\ lock = Unlocking
    /\ lock' = Free
    /\ UNCHANGED <<limit, rows, free, orphans, keeper, requests, disturbed, events>>

Unlock ==
    /\ lock = Unlocking
    /\ lock' = Free
    /\ free' = free + 1
    /\ UNCHANGED <<limit, rows, orphans, keeper, requests, disturbed, events>>

-----------------------------------------------------------------------------
(***************************************************************************)
(* The check and the write.  Each statement needs a connection of its own. *)
(***************************************************************************)

Statement(q, l) == at[q] = l /\ free > 0

StatementTimesOut_Never(q) ==  \* mutant: the pool has no acquire_timeout
    /\ at[q] \in Section
    /\ free < 0
    /\ Leave(q)
    /\ UNCHANGED <<limit, rows, want, room, disturbed, events>>

\* Without one within acquire_timeout the handler returns the error
StatementTimesOut(q) ==
    /\ at[q] \in Section
    /\ free = 0
    /\ Leave(q)
    /\ UNCHANGED <<limit, rows, want, room, disturbed, events>>

\* Which requests check the quota at all, and for how much.  The settings of an
\* app instance are checked for one replica.
Checks(w) ==
    CASE w.row \in App -> w.mem > 0
      [] w.row \in Db -> w.op = "change" \/ w.mem > 0
      [] w.row \in Fn -> w.op = "create" \/ (w.op = "change" /\ w.mem # NotGiven)
Requested_OneReplica(w) == w.mem  \* mutant: the replicas are not counted
Requested(w) == IF w.op = "create" THEN w.mem * w.reps ELSE w.mem

\* The row itself is left out of the sums when it is changed
Others(w, S) == IF w.op = "change" THEN S \ {w.row} ELSE S

\* A function keeps what it does not get: the value read here is written back
Completed(w) ==
    IF w.row \in Fn /\ w.mem = NotGiven
    THEN [w EXCEPT !.op = "keep", !.mem = mem[w.row]]
    ELSE w

Find(q) ==
    /\ Statement(q, "find")
    /\ IF want[q].op = "change" /\ live[want[q].row] = "absent"
       THEN Leave(q) /\ UNCHANGED want
       ELSE /\ Goto(q, IF Checks(want[q]) THEN "quota" ELSE "write")
            /\ want' = [want EXCEPT ![q] = Completed(@)]
            /\ UNCHANGED pool
    /\ UNCHANGED <<limit, rows, room, disturbed, events>>

ReadQuota(q) ==
    /\ Statement(q, "quota")
    /\ IF limit = 0
       THEN Goto(q, "write") /\ UNCHANGED room
       ELSE Goto(q, "apps") /\ room' = [room EXCEPT ![q] = limit]
    /\ UNCHANGED <<limit, rows, pool, want, disturbed, events>>

\* One of the three sums; the room may go below zero
Subtract(q, l, S, next) ==
    /\ Statement(q, l)
    /\ room' = [room EXCEPT ![q] = @ - Sum(Others(want[q], S))]
    /\ Goto(q, next)
    /\ UNCHANGED <<limit, rows, pool, want, disturbed, events>>

SumApps(q) == Subtract(q, "apps", App, "dbs")
SumDbs(q) == Subtract(q, "dbs", Db, "fns")

Fits(w, left) == Requested(w) <= left

\* The last sum, and the verdict
SumFns(q) ==
    LET left == room[q] - Sum(Others(want[q], Fn)) IN
    /\ Statement(q, "fns")
    /\ IF Fits(want[q], left)
       THEN Goto(q, "write") /\ UNCHANGED pool
       ELSE Leave(q)
    /\ UNCHANGED <<limit, rows, want, room, disturbed, events>>

\* What the INSERT or the UPDATE makes of the status: a created row and a changed
\* function count, a changed app instance is building; a database keeps its own.
StatusAfter(w) == IF w.op = "change" /\ w.row \in Db THEN live[w.row] ELSE "on"
Given(f, old) == IF f = NotGiven THEN old ELSE f

Apply(w) ==
    IF w.op # "create" /\ live[w.row] = "absent"
    THEN UNCHANGED rows
    ELSE /\ live' = [live EXCEPT ![w.row] = StatusAfter(w)]
         /\ mem' = [mem EXCEPT ![w.row] = Given(w.mem, @)]
         /\ reps' = [reps EXCEPT ![w.row] = Given(w.reps, @)]

Write(q) ==
    /\ Statement(q, "write")
    /\ Apply(want[q])
    /\ Goto(q, "finish")
    /\ UNCHANGED <<limit, pool, want, room, disturbed, events>>

\* What is left to do under the lock.  The settings of a database are deployed,
\* and its status says how that went; a status that cannot be written is lost.
Finish(q) ==
    LET r == want[q].row IN
    /\ Statement(q, "finish")
    /\ \/ UNCHANGED live
       \/ /\ want[q].op = "change" /\ r \in Db /\ live[r] # "absent"
          /\ \E s \in {"on", "off"} : live' = [live EXCEPT ![r] = s]
    /\ Leave(q)
    /\ UNCHANGED <<limit, mem, reps, want, room, disturbed, events>>

-----------------------------------------------------------------------------
(***************************************************************************)
(* The client goes away: the handler's future is dropped where it waits.   *)
(***************************************************************************)

Pinned(q) == at[q] \in Section \cup {"lock", "late"}

\* Under the lock, the guard is dropped with it, as on any error.
Abandon(q) ==
    /\ at[q] \in Section
    /\ Event
    /\ Leave(q)
    /\ UNCHANGED <<limit, rows, want, room, disturbed>>

\* A write that is under way then is not called back.  Its connection is in use
\* until it is done, and the unlock, on the other one, may overtake it.
AbandonWriting(q) ==
    /\ Statement(q, "write")
    /\ Event
    /\ Goto(q, "late")
    /\ IF keeper = q
       THEN keeper' = Nobody /\ UNCHANGED <<free, lock>>
       ELSE lock' = Unlocking /\ free' = free - 1 /\ UNCHANGED keeper
    /\ UNCHANGED <<limit, rows, orphans, want, room, disturbed>>

\* While it waits for the lock there is no guard yet.  Its session either ends,
\* or stays until it is granted the lock.
AbandonWaiting(q) ==
    /\ at[q] = "lock"
    /\ Event
    /\ Goto(q, "idle")
    /\ IF keeper = q
       THEN free' = free + 1 /\ keeper' = Nobody /\ UNCHANGED orphans
       ELSE /\ UNCHANGED keeper
            /\ \/ free' = free + 1 /\ UNCHANGED orphans
               \/ orphans' = orphans + 1 /\ UNCHANGED free
    /\ UNCHANGED <<limit, rows, lock, want, room, disturbed>>

\* An abandoned session is granted the lock, and its connection goes back to the
\* pool with it.
Leak ==
    /\ orphans > 0
    /\ lock = Free
    /\ lock' = Leaked
    /\ orphans' = orphans - 1
    /\ free' = free + 1
    /\ UNCHANGED <<limit, rows, keeper, requests, disturbed, events>>

\* The pool closes connections that have been idle or alive for too long.
Recycle ==
    /\ lock = Leaked
    /\ keeper = Nobody
    /\ lock' = Free
    /\ UNCHANGED <<limit, rows, free, orphans, keeper, requests, disturbed,
                   events>>

\* The process dies, and with it its sessions and their locks
Crash ==
    /\ Event
    /\ at' = [q \in Request |-> "idle"]
    /\ free' = Conns /\ lock' = Free /\ orphans' = 0 /\ keeper' = Nobody
    /\ UNCHANGED <<limit, rows, want, room, disturbed>>

-----------------------------------------------------------------------------
(***************************************************************************)
(* What changes the quota or the rows without the lock.                    *)
(***************************************************************************)

Unlocked ==
    /\ Event
    /\ UNCHANGED <<mem, reps, pool, requests>>

Disturb == disturbed' = [q \in Request |-> at[q] \in Section]

LateWrite(q) ==
    /\ at[q] = "late"
    /\ Apply(want[q])
    /\ Disturb
    /\ Goto(q, "idle")
    /\ free' = free + 1
    /\ UNCHANGED <<limit, lock, orphans, keeper, want, room, events>>

\* A stop, auto-sleep, a failed deploy or probe
Suspend(r) ==
    /\ live[r] = "on"
    /\ live' = [live EXCEPT ![r] = "off"]
    /\ Unlocked
    /\ UNCHANGED <<limit, disturbed>>

\* A start, a redeploy, a probe that succeeds again, a late verdict on a deploy
Resume(r) ==
    /\ live[r] = "off"
    /\ live' = [live EXCEPT ![r] = "on"]
    /\ Unlocked /\ Disturb
    /\ UNCHANGED limit

Remove(r) ==
    /\ live[r] # "absent"
    /\ live' = [live EXCEPT ![r] = "absent"]
    /\ Unlocked
    /\ UNCHANGED <<limit, disturbed>>

\* update_workspace
SetLimit ==
    /\ limit' \in Limits \ {limit}
    /\ Unlocked /\ Disturb
    /\ UNCHANGED live

-----------------------------------------------------------------------------
Serving(q) ==
    \/ Connect(q) \/ ConnectTimesOut(q) \/ StatementTimesOut(q)
    \/ Find(q) \/ ReadQuota(q) \/ SumApps(q) \/ SumDbs(q) \/ SumFns(q)
    \/ Write(q) \/ Finish(q) \/ LateWrite(q)

Next ==
    \/ \E q \in Request :
          \/ Ask(q) \/ Lock(q) \/ Serving(q)
          \/ Abandon(q) \/ AbandonWriting(q) \/ AbandonWaiting(q)
    \/ Unlock \/ Leak \/ Recycle \/ Crash
    \/ \E r \in Row : Suspend(r) \/ Resume(r) \/ Remove(r)
    \/ SetLimit

Spec == Init /\ [][Next]_vars

(***************************************************************************)
(* Fairness: tokio polls every handler and the spawned unlock, an acquire  *)
(* ends after acquire_timeout, Postgres grants a lock in the order it was  *)
(* asked for, and the pool recycles its connections.  No client leaves,    *)
(* and nobody else acts, because of it.                                    *)
(***************************************************************************)
Fairness ==
    /\ \A q \in Request : WF_vars(Serving(q)) /\ SF_vars(Lock(q))
    /\ WF_vars(Unlock)
    /\ SF_vars(Leak)
    /\ WF_vars(Recycle)

FairSpec == Spec /\ Fairness

-----------------------------------------------------------------------------
(***************************************************************************)
(* Properties.                                                             *)
(***************************************************************************)

\* Type correctness of the rows, the pool and the requests.
TypeOK ==
    /\ limit \in Limits
    /\ live \in [Row -> {"absent", "on", "off"}]
    /\ mem \in [Row -> Mems \cup {0}]
    /\ reps \in [Row -> Reps]
    /\ free \in 0..Conns
    /\ lock \in {Held, Unlocking, Leaked, Free}
    /\ orphans \in 0..Conns
    /\ keeper \in Request \cup {Nobody}
    /\ at \in [Request -> Section \cup {"idle", "connect", "lock", "late"}]
    /\ want \in [Request -> [op : {"create", "change", "keep"}, row : Row,
                             mem : Mems \cup {0, NotGiven},
                             reps : Reps \cup {NotGiven}]]
    /\ DOMAIN room = Request
    /\ disturbed \in [Request -> BOOLEAN]
    /\ events \in 0..MaxEvents

InSection == {q \in Request : at[q] \in Section}

\* "keeping the quota check + insert atomic across replicas" (locks.rs:41): one
\* request at a time is between its lock and its end, and the lock is held then,
\* also when a session left it locked and the request came by that session.
Serialized ==
    /\ \A q, r \in InSection : q = r
    /\ \A q \in InSection : IF keeper = q THEN lock = Leaked ELSE lock = Held
    /\ lock = Held => InSection # {}

\* "releases the Postgres advisory lock and returns the pinned connection to the
\* pool" (locks.rs:22): no connection is lost on any way out.
PoolBalanced ==
    free + Cardinality({q \in Request : Pinned(q)}) + orphans
         + (IF lock = Unlocking THEN 1 ELSE 0) = Conns

OneReplica(w) == w.op = "change" /\ w.row \in App => reps'[w.row] = 1
Within(q) ==
    Checks(want[q]) /\ limit # 0 /\ ~disturbed[q] => Used' <= limit

\* "so concurrent creates can't overcommit the quota" (locks.rs:4): a request
\* that has checked the quota leaves the workspace within it, whatever other
\* requests do at the same time, unless a row or the quota was changed without
\* the lock meanwhile.  Only for one replica does this hold of the settings of an
\* instance: they are checked without the factor that a creation has
\* (app_controller.rs:615 and 2880-2899).
QuotaRespected ==
    [][\A q \in Request :
        OneReplica(want[q]) /\ (Write(q) \/ Finish(q)) => Within(q)]_vars

\* Every request comes to its end, and the lock and all connections are given
\* back, although a request waits for the pool while it holds the lock, and for
\* the lock while it holds a connection.
EverythingDrains ==
    <>[](lock = Free /\ free = Conns /\ \A q \in Request : at[q] = "idle")
=============================================================================
