---------------------------- MODULE CronScheduler ----------------------------
(***************************************************************************)
(* The cron scheduler (utils/cron.rs) and the requests that change cron    *)
(* jobs (controllers/cron_controller.rs), with the managed backup job of a *)
(* database, which must exist exactly while its backup_enabled flag is set *)
(* (ensure_backup_cron and its callers).                                   *)
(*                                                                         *)
(* Every ten seconds the process that leads selects the jobs that are due, *)
(* moves each to its next occurrence and spawns its run.  Nothing locks a  *)
(* row between the SELECT and the UPDATE, and a request that edits a job   *)
(* reads the row, changes its copy and writes it all back.  So the         *)
(* properties hold but for named mishaps, collected in mishaps.            *)
(*                                                                         *)
(* Time is a number; a schedule is its period, and its occurrences are the *)
(* multiples.  One action is one statement.                                *)
(***************************************************************************)
EXTENDS Naturals, FiniteSets

CONSTANTS
    Job,            \* ids of cron jobs, used once each: 1..n
    Request,        \* requests in flight
    Process,        \* backend processes
    Exec,           \* bound: runs at one time
    Period,         \* schedules
    BackupPeriod,   \* the schedule of a managed backup
    MaxTime,        \* bound: time
    MaxEvents       \* bound: requests, crashes and failures

ASSUME CronConstantsOK ==
    /\ Job \subseteq Nat \ {0} /\ 1 \in Job /\ IsFiniteSet(Job)
    /\ Period \subseteq Nat \ {0} /\ BackupPeriod \in Period
    /\ MaxTime \in Nat /\ MaxEvents \in Nat

VARIABLES
    now,
    row,        \* row[j]: a row of cron_jobs with its variables and links
    flag,       \* backup_enabled of the database
    req,        \* req[r]: a request
    leads,      \* the processes whose is_leader() is true
    loop,       \* loop[p]: the scheduler of a process
    exec,       \* exec[e]: a run
    logs,       \* logs[j]: rows of cron_job_logs
    fired,      \* ghost: the occurrences that were started
    asked,      \* ghost: asked[j]: what the last request about j asked for
    mishaps,    \* ghost: the mishaps that happened
    events

table == <<row, flag>>
scheduler == <<leads, loop, exec, logs, fired>>
ghosts == <<asked, mishaps>>
vars == <<now, table, req, scheduler, ghosts, events>>

Kind == {"var", "link"}         \* a job's own variables, and its links to the pool
NoTime == 0
NoRow == [st |-> "none", period |-> BackupPeriod, next |-> NoTime, backup |-> FALSE, env |-> {}]
Idle == [at |-> "idle", j |-> 0, st |-> "none", period |-> BackupPeriod, next |-> NoTime,
         fields |-> {}, give |-> {}, backup |-> FALSE]
Waiting == [at |-> "wait", todo |-> {}, cur |-> 0, occ |-> NoTime]
NoRun == [at |-> "idle", by |-> {}, j |-> 0]

There(j) == row[j].st \in {"active", "paused"}
Backups == {j \in Job : There(j) /\ row[j].backup}
Unused == {j \in Job : row[j].st = "none"}
Due(j) == row[j].st = "active" /\ row[j].next <= now

\* schedule.upcoming(Utc).next()
Upcoming(period, t) == ((t \div period) + 1) * period
NextRun(st, period) == IF st = "active" THEN Upcoming(period, now) ELSE NoTime
NewRow(period, backup) ==
    [st |-> "active", period |-> period, next |-> Upcoming(period, now),
     backup |-> backup, env |-> {}]

Ask(j, st, period, env) == asked' = [asked EXCEPT ![j] = [st |-> st, period |-> period, env |-> env]]

Init ==
    /\ now = 0
    /\ \E b \in BOOLEAN :
        /\ row = [j \in Job |-> IF j = 1 THEN [NewRow(BackupPeriod, b) EXCEPT !.env = Kind] ELSE NoRow]
        /\ flag = b
    /\ req = [r \in Request |-> Idle]
    /\ leads = {} /\ loop = [p \in Process |-> Waiting]
    /\ exec = [e \in Exec |-> NoRun]
    /\ logs = [j \in Job |-> 0] /\ fired = {}
    /\ asked = [j \in Job |-> [st |-> row[j].st, period |-> row[j].period, env |-> row[j].env]]
    /\ mishaps = {} /\ events = 0

Event == events < MaxEvents /\ events' = events + 1
Mishap(names) == mishaps' = mishaps \cup names
Named(name, happened) == IF happened THEN {name} ELSE {}
Goto(r, l) == req' = [req EXCEPT ![r].at = l]
End(r) == req' = [req EXCEPT ![r] = Idle]

\* A request begins; two that are about one job, or about the backup, overlap
Begin(r, state) ==
    /\ req[r] = Idle /\ Event
    /\ req' = [req EXCEPT ![r] = state]
    /\ Mishap(Named("overlap", \E q \in Request \ {r} :
                    /\ req[q] # Idle
                    /\ (req[q].j = state.j) \/ (req[q].backup /\ state.backup)))

-----------------------------------------------------------------------------
(***************************************************************************)
(* Requests: create_cron_job, update_cron_job, delete_cron_job             *)
(***************************************************************************)

Create(r, j, period, give) ==
    /\ j \in Unused /\ \A i \in Unused : j <= i
    /\ Begin(r, [Idle EXCEPT !.at = "clear", !.j = j, !.fields = give, !.give = give])
    /\ row' = [row EXCEPT ![j] = NewRow(period, FALSE)]
    /\ Ask(j, "active", period, give)
    /\ UNCHANGED <<now, flag, scheduler>>

\* The row is read and changed in memory, with the occurrence that is next now
ReadForUpdate(r, j, st, period, fields, give) ==
    /\ There(j) /\ give \subseteq fields
    /\ Begin(r, [Idle EXCEPT !.at = "update", !.j = j, !.st = st, !.period = period,
                             !.next = NextRun(st, period), !.fields = fields,
                             !.give = give, !.backup = row[j].backup])
    /\ Ask(j, st, period, (row[j].env \ fields) \cup give)
    /\ UNCHANGED <<now, table, scheduler>>

\* ... and written, all columns; a due occurrence may be skipped, or come again
WriteRow(r) ==
    LET j == req[r].j
    IN  /\ req[r].at = "update"
        /\ row' = IF There(j)
                  THEN [row EXCEPT ![j].st = req[r].st, ![j].period = req[r].period,
                                   ![j].next = req[r].next]
                  ELSE row
        /\ Mishap(Named("skipped", Due(j) /\ req[r].next # row[j].next)
                  \cup Named("late", There(j) /\ req[r].st = "active" /\ req[r].next <= now))
        /\ Goto(r, "clear")
        /\ UNCHANGED <<now, flag, scheduler, asked, events>>

\* replace_cron_custom_env, replace_cron_links: what is given replaces what is there,
\* first the variables and then the links, by a DELETE and INSERTs
First(fields) == IF "var" \in fields THEN "var" ELSE "link"

Clear(r) ==
    /\ req[r].at = "clear" /\ req[r].fields # {}
    /\ row' = [row EXCEPT ![req[r].j].env = @ \ {First(req[r].fields)}]
    /\ Goto(r, "put")
    /\ UNCHANGED <<now, flag, scheduler, ghosts, events>>

\* The foreign key refuses a variable of a job that is gone
Put(r) ==
    LET k == First(req[r].fields)
    IN  /\ req[r].at = "put"
        /\ IF There(req[r].j)
           THEN /\ row' = [row EXCEPT ![req[r].j].env = @ \cup ({k} \cap req[r].give)]
                /\ req' = [req EXCEPT ![r].at = "clear", ![r].fields = req[r].fields \ {k}]
           ELSE UNCHANGED row /\ End(r)
        /\ UNCHANGED <<now, flag, scheduler, ghosts, events>>

Answer(r) ==
    /\ req[r].at = "clear" /\ req[r].fields = {}
    /\ End(r)
    /\ UNCHANGED <<now, table, scheduler, ghosts, events>>

ReadForDelete(r, j) ==
    /\ There(j)
    /\ Begin(r, [Idle EXCEPT !.at = IF row[j].backup THEN "unflag" ELSE "delete",
                             !.j = j, !.backup = row[j].backup])
    /\ Ask(j, "gone", row[j].period, {})
    /\ UNCHANGED <<now, table, scheduler>>

Unflag_Skipped(r) ==
    /\ req[r].at = "unflag"
    /\ Goto(r, "delete")
    /\ UNCHANGED <<now, table, scheduler, ghosts, events>>

Unflag(r) ==
    /\ req[r].at = "unflag"
    /\ flag' = FALSE
    /\ Goto(r, "delete")
    /\ UNCHANGED <<now, row, scheduler, ghosts, events>>

Delete(j) == [row[j] EXCEPT !.st = "gone", !.next = NoTime, !.env = {}]
DeleteRow(r) ==
    /\ req[r].at = "delete"
    /\ row' = [row EXCEPT ![req[r].j] = Delete(req[r].j)]
    /\ End(r)
    /\ UNCHANGED <<now, flag, scheduler, ghosts, events>>

-----------------------------------------------------------------------------
(***************************************************************************)
(* The managed backup: update_database_settings, which holds the workspace *)
(* lock, and the start of a process                                        *)
(***************************************************************************)

Set(r, on) ==
    /\ \A q \in Request : req[q].at \notin {"ensure", "insert", "remove"} \/ req[q].st = "boot"
    /\ Begin(r, [Idle EXCEPT !.at = IF on THEN "ensure" ELSE "remove", !.backup = TRUE])
    /\ flag' = on
    /\ UNCHANGED <<now, row, scheduler, asked>>

\* reconcile_backup_crons
Boot(r) ==
    /\ flag
    /\ Begin(r, [Idle EXCEPT !.at = "ensure", !.st = "boot", !.backup = TRUE])
    /\ UNCHANGED <<now, table, scheduler, asked>>

Ensure(r) ==
    /\ req[r].at = "ensure"
    /\ IF Backups = {} THEN Goto(r, "insert") ELSE End(r)
    /\ UNCHANGED <<now, table, scheduler, ghosts, events>>

InsertBackup(r) ==
    /\ req[r].at = "insert"
    /\ \E j \in Unused :
        /\ \A i \in Unused : j <= i
        /\ row' = [row EXCEPT ![j] = NewRow(BackupPeriod, TRUE)]
        /\ Ask(j, "active", BackupPeriod, {})
    /\ End(r)
    /\ UNCHANGED <<now, flag, scheduler, mishaps, events>>

RemoveBackup(r) ==
    /\ req[r].at = "remove"
    /\ row' = [j \in Job |-> IF j \in Backups THEN Delete(j) ELSE row[j]]
    /\ asked' = [j \in Job |-> IF j \in Backups THEN [asked[j] EXCEPT !.st = "gone"] ELSE asked[j]]
    /\ End(r)
    /\ UNCHANGED <<now, flag, scheduler, mishaps, events>>

\* These errors are dropped (let _ =), and the request goes on
Ignored(r) ==
    /\ req[r].at \in {"ensure", "insert", "remove", "unflag"} /\ Event
    /\ IF req[r].at = "unflag" THEN Goto(r, "delete") ELSE End(r)
    /\ Mishap({"ignored"})
    /\ UNCHANGED <<now, table, scheduler, asked>>

\* Any other error, or a client that leaves, ends a request where it is
Abandon(r) ==
    /\ req[r] # Idle /\ Event
    /\ End(r)
    /\ Mishap({"abandoned"})
    /\ UNCHANGED <<now, table, scheduler, asked>>

-----------------------------------------------------------------------------
(***************************************************************************)
(* The scheduler                                                           *)
(***************************************************************************)

\* Leadership is a lease; two processes may hold it for a while
TakeLead(p) ==
    /\ p \notin leads
    /\ IF leads = {} THEN UNCHANGED events ELSE Event
    /\ leads' = leads \cup {p}
    /\ UNCHANGED <<now, table, req, loop, exec, logs, fired, ghosts>>

LoseLead(p) ==
    /\ p \in leads /\ Event
    /\ leads' = leads \ {p}
    /\ UNCHANGED <<now, table, req, loop, exec, logs, fired, ghosts>>

Select(p) ==
    LET due == {j \in Job : Due(j)}
    IN  /\ loop[p].at = "wait" /\ p \in leads /\ due # {}
        /\ loop' = [loop EXCEPT ![p] =
               [Waiting EXCEPT !.at = "advance",
                !.todo = {[j |-> j, occ |-> row[j].next, period |-> row[j].period] : j \in due}]]
        /\ Mishap(Named("leaders", \E q \in Process : \E d \in loop[q].todo : d.j \in due))
        /\ UNCHANGED <<now, table, req, leads, exec, logs, fired, asked, events>>

\* The occurrence after now, by the schedule that was read
Advanced_Inclusive(d) ==
    [row EXCEPT ![d.j].next = IF There(d.j) THEN ((now + d.period - 1) \div d.period) * d.period ELSE @]
Advanced_All(d) == [j \in Job |-> IF Due(j) THEN [row[j] EXCEPT !.next = Upcoming(d.period, now)]
                                  ELSE row[j]]
Advanced(d) == [row EXCEPT ![d.j].next = IF There(d.j) THEN Upcoming(d.period, now) ELSE @]
InHand(p, d) == loop' = [loop EXCEPT ![p] =
    [at |-> "spawn", todo |-> loop[p].todo \ {d}, cur |-> d.j, occ |-> d.occ]]

Advance(p) ==
    /\ loop[p].at = "advance"
    /\ \E d \in loop[p].todo :
        /\ InHand(p, d)
        /\ row' = Advanced(d)
        /\ Mishap(Named("stale", \/ row[d.j].st # "active" \/ row[d.j].next # d.occ
                                 \/ row[d.j].period # d.period))
    /\ UNCHANGED <<now, flag, req, leads, exec, logs, fired, asked, events>>

AdvanceFails(p) ==
    /\ loop[p].at = "advance" /\ Event
    /\ \E d \in loop[p].todo : InHand(p, d)
    /\ Mishap({"failed"})
    /\ UNCHANGED <<now, table, req, leads, exec, logs, fired, asked>>

Spawn(p) ==
    /\ loop[p].at = "spawn"
    /\ \E e \in Exec :
        /\ exec[e].at = "idle"
        /\ exec' = [exec EXCEPT ![e] = [at |-> "dispatch", by |-> {p}, j |-> loop[p].cur]]
    /\ fired' = fired \cup {<<loop[p].cur, loop[p].occ>>}
    /\ loop' = [loop EXCEPT ![p].at = IF loop[p].todo = {} THEN "wait" ELSE "advance",
                            ![p].cur = 0, ![p].occ = NoTime]
    /\ UNCHANGED <<now, table, req, leads, logs, ghosts, events>>

-----------------------------------------------------------------------------
(***************************************************************************)
(* A run                                                                   *)
(***************************************************************************)

\* Every way through a run comes to one line of the log
Move(e, from, to) ==
    /\ exec[e].at = from
    /\ exec' = [exec EXCEPT ![e].at = to]
    /\ UNCHANGED <<now, table, req, leads, loop, logs, fired, ghosts, events>>

\* A managed backup goes to perform_database_backup; a job without a target ends
Dispatch(e) ==
    \/ exec[e].j \in Backups /\ Move(e, "dispatch", "work")
    \/ exec[e].j \notin Backups /\ Move(e, "dispatch", "prepare")
    \/ Move(e, "dispatch", "log")

\* The target is looked up and the environment resolved; a target may be gone
Prepare(e) == Move(e, "prepare", "work") \/ Move(e, "prepare", "log")

\* The Job, or the backup, with its outcome
Work(e) == Move(e, "work", "log")

Log(e) ==
    /\ exec[e].at = "log"
    /\ logs' = IF There(exec[e].j) THEN [logs EXCEPT ![exec[e].j] = @ + 1] ELSE logs
    /\ exec' = [exec EXCEPT ![e] = NoRun]
    /\ UNCHANGED <<now, table, req, leads, loop, fired, ghosts, events>>

\* The death of a process, with its scheduler and its runs
Crash(p) ==
    /\ Event
    /\ leads' = leads \ {p}
    /\ loop' = [loop EXCEPT ![p] = Waiting]
    /\ exec' = [e \in Exec |-> IF exec[e].by = {p} THEN NoRun ELSE exec[e]]
    /\ Mishap(Named("crash", loop[p].at = "spawn")
              \cup Named("died", \E e \in Exec : exec[e].by = {p}))
    /\ UNCHANGED <<now, table, req, logs, fired, asked>>

Tick ==
    /\ now < MaxTime
    /\ now' = now + 1
    /\ UNCHANGED <<table, req, scheduler, ghosts, events>>

Asking(r) ==
    \/ \E j \in Job :
        \/ \E period \in Period, give \in {{}, Kind} : Create(r, j, period, give)
        \/ \E st \in {"active", "paused"} : ReadForUpdate(r, j, st, row[j].period, {}, {})
        \/ \E period \in Period : ReadForUpdate(r, j, row[j].st, period, {}, {})
        \/ \E give \in {{}, {"var"}} : ReadForUpdate(r, j, row[j].st, row[j].period, Kind, give)
        \/ ReadForDelete(r, j)
    \/ \E on \in BOOLEAN : Set(r, on)
    \/ Boot(r)

Working(r) ==
    \/ WriteRow(r) \/ Clear(r) \/ Put(r) \/ Answer(r) \/ Unflag(r) \/ DeleteRow(r)
    \/ Ensure(r) \/ InsertBackup(r) \/ RemoveBackup(r)

Next ==
    \/ \E r \in Request : Asking(r) \/ Working(r) \/ Ignored(r) \/ Abandon(r)
    \/ \E p \in Process :
        TakeLead(p) \/ LoseLead(p) \/ Select(p) \/ Advance(p) \/ AdvanceFails(p)
        \/ Spawn(p) \/ Crash(p)
    \/ \E e \in Exec : Dispatch(e) \/ Prepare(e) \/ Work(e) \/ Log(e)
    \/ Tick

Spec == Init /\ [][Next]_vars

-----------------------------------------------------------------------------
Except(names) == mishaps \cap names # {}
Quiet == req = [r \in Request |-> Idle]

CronRow == [st : {"none", "active", "paused", "gone"}, period : Period, next : Nat,
            backup : BOOLEAN, env : SUBSET Kind]
RequestState == [at : {"idle", "update", "clear", "put", "unflag", "delete", "ensure",
                       "insert", "remove"},
                 j : Job \cup {0}, st : {"none", "active", "paused", "boot"},
                 period : Period, next : Nat, fields : SUBSET Kind, give : SUBSET Kind,
                 backup : BOOLEAN]
Occurrence == [j : Job, occ : Nat, period : Period]
LoopState == [at : {"wait", "advance", "spawn"}, todo : SUBSET Occurrence,
              cur : Job \cup {0}, occ : Nat]
RunState == [at : {"idle", "dispatch", "prepare", "work", "log"}, by : SUBSET Process,
             j : Job \cup {0}]

TypeOK ==
    /\ now \in 0..MaxTime /\ flag \in BOOLEAN /\ events \in 0..MaxEvents
    /\ row \in [Job -> CronRow] /\ req \in [Request -> RequestState]
    /\ leads \subseteq Process /\ loop \in [Process -> LoopState]
    /\ exec \in [Exec -> RunState]
    /\ logs \in [Job -> Nat] /\ fired \subseteq Job \X Nat

\* A row that is not there has no variables, a request that writes a row was made of
\* one that was there, and a scheduler has the job in hand whose run it spawns.
InHandOnly ==
    /\ \A j \in Job : There(j) \/ row[j].env = {}
    /\ \A r \in Request : req[r].at = "update" => req[r].st \in {"active", "paused"}
    /\ \A p \in Process : loop[p].at = "spawn" => loop[p].cur \in Job

\* Unless two leaders select at once, the UPDATE that advances a job fails, an edit is
\* written after the occurrence that it computed, or a process dies with a run, every
\* occurrence that was started ran once and left one row in the log, whatever the run
\* came to ("Advance next_run_at synchronously so the job isn't re-picked",
\* cron.rs:118; execute_cron_job).
OncePerOccurrence ==
    ~Except({"leaders", "failed", "late", "died"}) =>
        \A j \in Job : There(j) =>
            logs[j] + Cardinality({e \in Exec : exec[e].j = j})
                = Cardinality({f \in fired : f[1] = j})

\* An occurrence whose time has come leaves the row of an active job only into the hands
\* of a scheduler, unless an edit is written over it, and leaves those hands only as a
\* run, unless the process dies: a change of leader loses none, whatever it interrupts
\* (start_cron_scheduler_engine).
NothingLost == [][
    /\ \A j \in Job :
        Due(j) /\ row'[j].st = "active" /\ row'[j].next # row[j].next =>
            \/ \E p \in Process : loop'[p].cur = j /\ loop'[p].occ = row[j].next
            \/ <<j, row[j].next>> \in fired
            \/ mishaps' \cap {"skipped", "stale"} # {}
    /\ \A p \in Process :
        loop[p].at = "spawn" /\ loop'[p] # loop[p] =>
            <<loop[p].cur, loop[p].occ>> \in fired' \/ "crash" \in mishaps']_vars

\* Unless requests about one job overlap or are abandoned, or a job is edited while the
\* scheduler has it in hand, when no request is at work every row is as the last request
\* asked: its status, its schedule, its variables and links, and a next_run_at that is an
\* occurrence of its schedule exactly while it is active (update_cron_job; "Env edits are
\* replace-all", cron_controller.rs:527).
AsAsked ==
    Quiet /\ ~Except({"overlap", "abandoned", "stale"}) =>
        \A j \in Job :
            /\ row[j].st = asked[j].st
            /\ There(j) => /\ row[j].period = asked[j].period /\ row[j].env = asked[j].env
                           /\ IF row[j].st = "active"
                              THEN row[j].next > 0 /\ row[j].next % row[j].period = 0
                              ELSE row[j].next = NoTime

\* Unless requests about the backup overlap, are abandoned or an error of theirs is
\* ignored, when no request is at work the database has one managed backup job while
\* backup_enabled is set, and none otherwise (ensure_backup_cron, remove_backup_cron,
\* delete_cron_job, reconcile_backup_crons).
FlagHasCron ==
    Quiet /\ ~Except({"overlap", "abandoned", "ignored"}) =>
        Cardinality(Backups) = IF flag THEN 1 ELSE 0

\* Jobs, their variables and the managed backup are what was asked for.
RowsAsAsked == AsAsked /\ FlagHasCron
=============================================================================
