------------------------------ MODULE JobQueue ------------------------------
(***************************************************************************)
(* The durable build/deploy queue (backend/src/utils/job_queue.rs): rows   *)
(* of the table "jobs", claimed by the worker loops of every backend       *)
(* process, heartbeated while the handler runs, requeued by a reclaimer    *)
(* when the heartbeat is stale, and retried with backoff.                  *)
(*                                                                         *)
(* One action is one SQL statement or one local step between two of them;  *)
(* Postgres runs each statement atomically and FOR UPDATE SKIP LOCKED      *)
(* hands a row to one claimer.  Time is a number of ticks of TickSecs      *)
(* seconds: a row's age is now() - locked_at, its delay is run_after -     *)
(* now(), a worker's due is the time to the next tick of its heartbeat.    *)
(***************************************************************************)
EXTENDS Integers, FiniteSets

CONSTANTS
    NumJobs,         \* jobs are 1..NumJobs, in the order of created_at
    BadJob,          \* jobs whose dispatch returns Err (bad payload or kind)
    Replica,         \* backend processes
    Slot,            \* worker loops of one process (2 in main.rs)
    MaxAttempts,     \* the column max_attempts (3)
    StaleAfter,      \* STALE_AFTER, in ticks
    HeartbeatEvery,  \* HEARTBEAT_EVERY, in ticks
    TickSecs,        \* seconds in a tick
    MaxMissed,       \* bound: consecutive heartbeat writes of a worker that fail
    MaxFaults        \* bound: process crashes and lost answers of the database

Job == 1..NumJobs
Worker == Replica \X Slot
NoJob == 0

ASSUME ConstantsOK ==
    /\ NumJobs \in Nat
    /\ BadJob \subseteq Job
    /\ MaxAttempts \in Nat \ {0}
    /\ StaleAfter \in Nat
    /\ HeartbeatEvery \in Nat \ {0}
    /\ TickSecs \in Nat \ {0}
    /\ MaxMissed \in Nat
    /\ MaxFaults \in Nat

VARIABLES
    status,     \* status[j]: the column, "absent" before the INSERT
    attempts,   \* attempts[j]: the column, counted up to AttemptCap
    age,        \* age[j]: ticks since locked_at, meaningful while "running"
    delay,      \* delay[j]: ticks until run_after
    up,         \* up[r]: the process is alive
    pc,         \* pc[w]: where the worker loop is
    task,       \* task[w]: the job it claimed
    seen,       \* seen[w]: the attempts it re-read before deciding on a retry
    due,        \* due[w]: ticks until its heartbeat task ticks
    missed,     \* missed[w]: heartbeat writes of this claim that failed in a row
    faults,     \* crashes and lost answers so far
    executed    \* history: jobs whose handler ran to the end at least once

row == <<status, attempts, age, delay>>
loop == <<pc, task, seen, due, missed>>
vars == <<row, up, loop, faults, executed>>

Status == {"absent", "queued", "running", "succeeded", "failed"}
Settled == {"succeeded", "failed"}

\* "busy": in dispatch.  "ok", "err": dispatch returned.  "retry": it has
\* re-read attempts and is about to call fail.
PC == {"idle", "busy", "ok", "err", "retry"}

(***************************************************************************)
(* attempts is compared with max_attempts only, so it is counted up to the *)
(* first value above it.                                                   *)
(***************************************************************************)
AttemptCap == MaxAttempts + 1
CountAttempt(n) == IF n < AttemptCap THEN n + 1 ELSE n

(***************************************************************************)
(* backoff_secs: 10 * 2^attempts seconds, at most 300 (reached at 5), in   *)
(* ticks rounded up.                                                       *)
(***************************************************************************)
PowerOfTwo == [n \in 0..4 |-> IF n = 0 THEN 1 ELSE IF n = 1 THEN 2
                               ELSE IF n = 2 THEN 4 ELSE IF n = 3 THEN 8 ELSE 16]
BackoffSecs(n) == IF n \in 0..4 THEN 10 * PowerOfTwo[n] ELSE 300
BackoffTicks(n) == (BackoffSecs(n) + TickSecs - 1) \div TickSecs

Init ==
    /\ status = [j \in Job |-> "absent"]
    /\ attempts = [j \in Job |-> 0]
    /\ age = [j \in Job |-> 0]
    /\ delay = [j \in Job |-> 0]
    /\ up = [r \in Replica |-> TRUE]
    /\ pc = [w \in Worker |-> "idle"]
    /\ task = [w \in Worker |-> NoJob]
    /\ seen = [w \in Worker |-> 0]
    /\ due = [w \in Worker |-> 0]
    /\ missed = [w \in Worker |-> 0]
    /\ faults = 0
    /\ executed = {}

Holds(w, j) == pc[w] # "idle" /\ task[w] = j

-----------------------------------------------------------------------------
(***************************************************************************)
(* The queue's clients.                                                    *)
(***************************************************************************)

\* enqueue_build and enqueue_deploy, from a request handler of a live process
Enqueue(j) ==
    /\ \E r \in Replica : up[r]
    /\ status[j] = "absent"
    /\ \A i \in Job : i < j => status[i] # "absent"
    /\ status' = [status EXCEPT ![j] = "queued"]
    /\ UNCHANGED <<attempts, age, delay, up, loop, faults, executed>>

-----------------------------------------------------------------------------
(***************************************************************************)
(* A worker loop.                                                          *)
(***************************************************************************)

Runnable(j) == status[j] = "queued" /\ delay[j] = 0

\* ORDER BY created_at LIMIT 1
Oldest(j) == Runnable(j) /\ \A i \in Job : Runnable(i) => j <= i

\* The UPDATE of claim_next
MarkClaimed(j) ==
    /\ status' = [status EXCEPT ![j] = "running"]
    /\ attempts' = [attempts EXCEPT ![j] = CountAttempt(@)]
    /\ age' = [age EXCEPT ![j] = 0]
    /\ UNCHANGED delay

\* claim_next answers with a row; the heartbeat task's first tick is immediate
Claim(w, j) ==
    /\ up[w[1]]
    /\ pc[w] = "idle"
    /\ Oldest(j)
    /\ MarkClaimed(j)
    /\ pc' = [pc EXCEPT ![w] = "busy"]
    /\ task' = [task EXCEPT ![w] = j]
    /\ due' = [due EXCEPT ![w] = 0]
    /\ missed' = [missed EXCEPT ![w] = 0]
    /\ UNCHANGED <<seen, up, faults, executed>>

\* The UPDATE commits and its answer is lost: the loop takes the Err branch,
\* sleeps and claims again, and nobody works on the row
ClaimAnswerLost(w, j) ==
    /\ up[w[1]]
    /\ pc[w] = "idle"
    /\ Oldest(j)
    /\ faults < MaxFaults
    /\ MarkClaimed(j)
    /\ faults' = faults + 1
    /\ UNCHANGED <<up, loop, executed>>

\* mutant of HandlerReturns: a failed build is returned as an error and retried
HandlerReturns_BuildErrors(w) ==
    /\ pc[w] = "busy"
    /\ \/ pc' = [pc EXCEPT ![w] = "ok"] /\ executed' = executed \cup {task[w]}
       \/ pc' = [pc EXCEPT ![w] = "err"] /\ UNCHANGED executed
    /\ UNCHANGED <<row, up, task, seen, due, missed, faults>>

\* mutant of HandlerReturns: the handler is spawned and not awaited
HandlerReturns_FireAndForget(w) ==
    /\ pc[w] = "busy"
    /\ pc' = [pc EXCEPT ![w] = "ok"]
    /\ UNCHANGED <<row, up, task, seen, due, missed, faults, executed>>

\* dispatch returns.  A build or deploy handler owns its own failures, so for
\* a well-formed job it is always Ok(())
HandlerReturns(w) ==
    /\ pc[w] = "busy"
    /\ \/ /\ task[w] \notin BadJob
          /\ pc' = [pc EXCEPT ![w] = "ok"]
          /\ executed' = executed \cup {task[w]}
       \/ /\ task[w] \in BadJob
          /\ pc' = [pc EXCEPT ![w] = "err"]
          /\ UNCHANGED executed
    /\ UNCHANGED <<row, up, task, seen, due, missed, faults>>

\* The loop goes around: hb.abort(), nothing held
GoIdle(w) ==
    /\ pc' = [pc EXCEPT ![w] = "idle"]
    /\ task' = [task EXCEPT ![w] = NoJob]
    /\ seen' = [seen EXCEPT ![w] = 0]
    /\ due' = [due EXCEPT ![w] = 0]
    /\ missed' = [missed EXCEPT ![w] = 0]

\* complete: by id alone, whatever the row says by now
Complete(w) ==
    /\ pc[w] = "ok"
    /\ status' = [status EXCEPT ![task[w]] = "succeeded"]
    /\ age' = [age EXCEPT ![task[w]] = 0]
    /\ GoIdle(w)
    /\ UNCHANGED <<attempts, delay, up, faults, executed>>

\* SELECT attempts, max_attempts before fail
ReadAttempts(w) ==
    /\ pc[w] = "err"
    /\ pc' = [pc EXCEPT ![w] = "retry"]
    /\ seen' = [seen EXCEPT ![w] = attempts[task[w]]]
    /\ UNCHANGED <<row, up, task, due, missed, faults, executed>>

\* mutant of Exhausted: the retry budget is compared one short
Exhausted_OffByOne(n) == n + 1 >= MaxAttempts

Exhausted(n) == n >= MaxAttempts

\* fail: by id alone, with the attempts read before
Fail(w) ==
    LET j == task[w] IN
    /\ pc[w] = "retry"
    /\ \/ /\ ~Exhausted(seen[w])
          /\ status' = [status EXCEPT ![j] = "queued"]
          /\ delay' = [delay EXCEPT ![j] = BackoffTicks(seen[w])]
       \/ /\ Exhausted(seen[w])
          /\ status' = [status EXCEPT ![j] = "failed"]
          /\ UNCHANGED delay
    /\ age' = [age EXCEPT ![j] = 0]
    /\ GoIdle(w)
    /\ UNCHANGED <<attempts, up, faults, executed>>

\* complete or fail fails ("let _ ="), or the SELECT before fail does: the
\* worker drops the job and the row stays "running"
SettleLost(w) ==
    /\ pc[w] \in {"ok", "err", "retry"}
    /\ faults < MaxFaults
    /\ faults' = faults + 1
    /\ GoIdle(w)
    /\ UNCHANGED <<row, up, executed>>

-----------------------------------------------------------------------------
(***************************************************************************)
(* The heartbeat task of a worker that holds a job, and the reclaimer.     *)
(***************************************************************************)

Beat(j) == age' = [age EXCEPT ![j] = 0]

Heartbeat(w) ==
    /\ pc[w] # "idle"
    /\ due[w] = 0
    /\ Beat(task[w])
    /\ due' = [due EXCEPT ![w] = HeartbeatEvery]
    /\ missed' = [missed EXCEPT ![w] = 0]
    /\ UNCHANGED <<status, attempts, delay, up, pc, task, seen, faults, executed>>

HeartbeatMissed(w) ==
    /\ pc[w] # "idle"
    /\ due[w] = 0
    /\ missed[w] < MaxMissed
    /\ due' = [due EXCEPT ![w] = HeartbeatEvery]
    /\ missed' = [missed EXCEPT ![w] = @ + 1]
    /\ UNCHANGED <<row, up, pc, task, seen, faults, executed>>

\* mutant of IsStale: locked_at <= now() - STALE_AFTER
IsStale_OffByOne(j) == status[j] = "running" /\ age[j] >= StaleAfter

\* mutant of IsStale: no row is ever found stale
IsStale_Never(j) == FALSE

IsStale(j) == status[j] = "running" /\ age[j] > StaleAfter

\* reclaim_stale, at start-up and every minute: one UPDATE of all stale rows
Reclaim ==
    /\ \E r \in Replica : up[r]
    /\ \E j \in Job : IsStale(j)
    /\ status' = [j \in Job |-> IF IsStale(j) THEN "queued" ELSE status[j]]
    /\ age' = [j \in Job |-> IF IsStale(j) THEN 0 ELSE age[j]]
    /\ UNCHANGED <<attempts, delay, up, loop, faults, executed>>

-----------------------------------------------------------------------------
(***************************************************************************)
(* Processes and time.                                                     *)
(***************************************************************************)

ResetOn(r, f, v) == [w \in Worker |-> IF w[1] = r THEN v ELSE f[w]]

\* The process dies with its worker loops and heartbeat tasks; rows stay
Crash(r) ==
    /\ up[r]
    /\ faults < MaxFaults
    /\ up' = [up EXCEPT ![r] = FALSE]
    /\ pc' = ResetOn(r, pc, "idle")
    /\ task' = ResetOn(r, task, NoJob)
    /\ seen' = ResetOn(r, seen, 0)
    /\ due' = ResetOn(r, due, 0)
    /\ missed' = ResetOn(r, missed, 0)
    /\ faults' = faults + 1
    /\ UNCHANGED <<row, executed>>

\* main calls start_workers again
Restart(r) ==
    /\ ~up[r]
    /\ up' = [up EXCEPT ![r] = TRUE]
    /\ UNCHANGED <<row, loop, faults, executed>>

Older(j) == IF status[j] = "running" /\ age[j] <= StaleAfter THEN age[j] + 1 ELSE age[j]
Sooner(n) == IF n > 0 THEN n - 1 ELSE 0

\* A heartbeat task that is due runs within the tick.
Tick ==
    /\ \A w \in Worker : pc[w] # "idle" => due[w] > 0
    /\ age' = [j \in Job |-> Older(j)]
    /\ delay' = [j \in Job |-> Sooner(delay[j])]
    /\ due' = [w \in Worker |-> Sooner(due[w])]
    /\ UNCHANGED <<status, attempts, up, pc, task, seen, missed, faults, executed>>

-----------------------------------------------------------------------------
Next ==
    \/ \E j \in Job : Enqueue(j)
    \/ \E w \in Worker, j \in Job : Claim(w, j) \/ ClaimAnswerLost(w, j)
    \/ \E w \in Worker :
          \/ HandlerReturns(w)
          \/ Complete(w)
          \/ ReadAttempts(w)
          \/ Fail(w)
          \/ SettleLost(w)
          \/ Heartbeat(w)
          \/ HeartbeatMissed(w)
    \/ Reclaim
    \/ \E r \in Replica : Crash(r) \/ Restart(r)
    \/ Tick

Spec == Init /\ [][Next]_vars

(***************************************************************************)
(* Fairness: tokio polls every ready task of a live process, each worker   *)
(* loop and heartbeat therefore takes its next step; the handlers return   *)
(* (every wait in them has a timeout, or is for a build slot that another  *)
(* handler frees); Kubernetes restarts a dead process; time passes.        *)
(***************************************************************************)
Fairness ==
    /\ \A w \in Worker :
          /\ WF_vars(\E j \in Job : Claim(w, j))
          /\ WF_vars(HandlerReturns(w) \/ Complete(w) \/ ReadAttempts(w) \/ Fail(w))
          /\ WF_vars(Heartbeat(w) \/ HeartbeatMissed(w))
    /\ WF_vars(Reclaim)
    /\ \A r \in Replica : WF_vars(Restart(r))
    /\ WF_vars(Tick)

FairSpec == Spec /\ Fairness

-----------------------------------------------------------------------------
(***************************************************************************)
(* Properties.                                                             *)
(***************************************************************************)

\* Type correctness of the table and of the worker loops.
TypeOK ==
    /\ status \in [Job -> Status]
    /\ attempts \in [Job -> Nat]
    /\ age \in [Job -> Nat]
    /\ delay \in [Job -> Nat]
    /\ up \in [Replica -> BOOLEAN]
    /\ pc \in [Worker -> PC]
    /\ task \in [Worker -> Job \cup {NoJob}]
    /\ seen \in [Worker -> Nat]
    /\ due \in [Worker -> Nat]
    /\ missed \in [Worker -> 0..MaxMissed]
    /\ faults \in Nat
    /\ executed \subseteq Job

\* The assumption under which a claim is exclusive: the heartbeat interval,
\* times one more than the number of heartbeats that may fail in a row, fits
\* in STALE_AFTER.  With 180 s and 30 s, five heartbeats in a row may fail.
HeartbeatMargin == HeartbeatEvery * (MaxMissed + 1) <= StaleAfter

\* What makes a claim exclusive: a held row is never older than the heartbeats
\* missed in a row allow, counting the time to the next one.
Fresh ==
    \A w \in Worker : pc[w] # "idle" =>
        /\ task[w] \in Job
        /\ age[task[w]] + due[w] <= HeartbeatEvery * (missed[w] + 1)

\* "A running long build is never reclaimed out from under itself"
\* (job_queue.rs:17): a worker that holds a job holds a "running" row, and no
\* other worker, in any process, holds the same job.
Exclusive ==
    \A w \in Worker : pc[w] # "idle" =>
        /\ status[task[w]] = "running"
        /\ \A v \in Worker \ {w} : ~Holds(v, task[w])

\* complete and fail update the row by id without looking at it; still, a
\* settled job is never taken up again.
SettledIsFinal ==
    [][\A j \in Job : status[j] \in Settled => status'[j] = status[j]]_vars

\* Even when heartbeats fail for longer than STALE_AFTER, so that two workers
\* run one job: a job marked succeeded stays so whatever the slower worker
\* writes afterwards.
SuccessIsFinal ==
    [][\A j \in Job : status[j] = "succeeded" => status'[j] = "succeeded"]_vars

\* A job is succeeded only when some handler ran to the end, and is given up
\* only after max_attempts claims, none of which ran a handler.
SettledForCause ==
    \A j \in Job :
        /\ status[j] = "succeeded" => j \in executed
        /\ status[j] = "failed" => attempts[j] >= MaxAttempts /\ j \notin executed

\* "Build/deploy work is no longer lost on restart" (job_queue.rs:6): through
\* crashes, lost answers and reclaims every accepted job ends up settled for
\* good.
QueueDrains == <>[](\A j \in Job : status[j] \in Settled \cup {"absent"})

\* What SettledForCause and SuccessIsFinal rest on: what a worker carries
\* between two statements stays true of the row, whoever else writes it.
CarriedFacts ==
    /\ executed \cap BadJob = {}
    /\ \A j \in Job : status[j] = "failed" => j \in BadJob
    /\ \A w \in Worker :
          /\ pc[w] # "idle" => task[w] \in Job
          /\ pc[w] = "ok" => task[w] \in executed
          /\ pc[w] \in {"err", "retry"} => task[w] \in BadJob
          /\ pc[w] = "retry" => seen[w] <= attempts[task[w]]

\* The abstract view of the table.
PhaseOf(s) ==
    CASE s = "absent" -> "absent"
      [] s \in {"queued", "running"} -> "pending"
      [] s = "succeeded" -> "done"
      [] s = "failed" -> "dead"

Lifecycle == INSTANCE JobLifecycle
                WITH phase <- [j \in Job |-> PhaseOf(status[j])],
                     ran <- executed

\* The queue implements the life cycle of an at-least-once job.
RefinesLifecycle == Lifecycle!Spec
=============================================================================
