---------------------------- MODULE LeaderLease ----------------------------
(***************************************************************************)
(* Leader election among backend processes (backend/src/utils/leader.rs):  *)
(* a single-row lease in Postgres, taken or renewed by an UPSERT every     *)
(* RENEW_EVERY, and a process-global flag IS_LEADER that the singleton     *)
(* workers read before each pass.                                          *)
(*                                                                         *)
(* The flag follows the answer of the query and not the lease, so what it  *)
(* means depends on how long a query may take: sending, the UPSERT inside  *)
(* Postgres and the answer are three steps, and time passes between them.  *)
(***************************************************************************)
EXTENDS Integers, FiniteSets

CONSTANTS
    Replica,      \* backend processes
    Absent,       \* holder while the row has not been inserted yet
    Departed,     \* holder: the node_id of a process that has died
    LeaseTTL,     \* LEASE_TTL_SECS, in ticks
    RenewEvery,   \* RENEW_EVERY, in ticks
    MaxLag,       \* bound: ticks between sending a query and its outcome
    MaxFaults     \* bound: failed queries and process crashes

ASSUME LeaseConstantsOK ==
    /\ Absent \notin Replica
    /\ Departed \notin Replica
    /\ LeaseTTL \in Nat
    /\ RenewEvery \in Nat \ {0}
    /\ MaxLag \in Nat
    /\ MaxFaults \in Nat

VARIABLES
    holder,     \* column holder
    left,       \* expires_at - now() in ticks; -1 once expires_at < now()
    up,         \* up[r]: the process is alive
    flag,       \* flag[r]: IS_LEADER of the process
    query,      \* query[r]: where the elector's query is
    due,        \* due[r]: ticks until the elector's next interval tick
    lag,        \* lag[r]: ticks since the query was sent
    pass,       \* pass[r]: a singleton worker is in the middle of a pass
    faults      \* failed queries and crashes so far

lease == <<holder, left>>
elector == <<flag, query, due, lag>>
leaseVars == <<lease, up, elector, pass, faults>>

\* "sent": not yet executed by Postgres.  "won", "lost": executed, the answer
\* is on its way.
Query == {"none", "sent", "won", "lost"}

Expired == left < 0

LeaseInit ==
    /\ holder = Absent
    /\ left = -1
    /\ up = [r \in Replica |-> TRUE]
    /\ flag = [r \in Replica |-> FALSE]
    /\ query = [r \in Replica |-> "none"]
    /\ due = [r \in Replica |-> 0]
    /\ lag = [r \in Replica |-> 0]
    /\ pass = [r \in Replica |-> FALSE]
    /\ faults = 0

-----------------------------------------------------------------------------
(***************************************************************************)
(* The elector loop.  Its interval keeps its schedule: a late tick does    *)
(* not move the next one (tokio's Burst behaviour).                        *)
(***************************************************************************)

Send(r) ==
    /\ up[r]
    /\ query[r] = "none"
    /\ due[r] <= 0
    /\ query' = [query EXCEPT ![r] = "sent"]
    /\ due' = [due EXCEPT ![r] = @ + RenewEvery]
    /\ lag' = [lag EXCEPT ![r] = 0]
    /\ UNCHANGED <<lease, up, flag, pass, faults>>

\* mutant of MayTake: a lease expires at the instant expires_at = now()
MayTake_AtExpiry(r) == holder \in {r, Absent} \/ left <= 0

\* mutant of MayTake: an expired lease of another process is not taken over
MayTake_NoTakeover(r) == holder \in {r, Absent}

\* A plain INSERT, or the WHERE of the conflict clause: holder = $1 OR
\* expires_at < now()
MayTake(r) == holder \in {r, Absent} \/ Expired

Upsert(r) ==
    /\ query[r] = "sent"
    /\ \/ /\ MayTake(r)
          /\ holder' = r
          /\ left' = LeaseTTL
          /\ query' = [query EXCEPT ![r] = "won"]
       \/ /\ ~MayTake(r)
          /\ query' = [query EXCEPT ![r] = "lost"]
          /\ UNCHANGED lease
    /\ UNCHANGED <<up, flag, due, lag, pass, faults>>

Settle(r, won) ==
    /\ flag' = [flag EXCEPT ![r] = won]
    /\ query' = [query EXCEPT ![r] = "none"]
    /\ lag' = [lag EXCEPT ![r] = 0]

\* IS_LEADER.swap(won)
Answer(r) ==
    /\ query[r] \in {"won", "lost"}
    /\ Settle(r, query[r] = "won")
    /\ UNCHANGED <<lease, up, due, pass, faults>>

\* mutant of QueryFails: an error keeps the previous leadership
QueryFails_KeepFlag(r) ==
    /\ query[r] # "none"
    /\ faults < MaxFaults
    /\ Settle(r, flag[r])
    /\ faults' = faults + 1
    /\ UNCHANGED <<lease, up, due, pass>>

\* .ok().flatten().unwrap_or(false): an error is a lost election, whether the
\* UPSERT took effect or not
QueryFails(r) ==
    /\ query[r] # "none"
    /\ faults < MaxFaults
    /\ Settle(r, FALSE)
    /\ faults' = faults + 1
    /\ UNCHANGED <<lease, up, due, pass>>

-----------------------------------------------------------------------------
(***************************************************************************)
(* A singleton worker: "if !is_leader() { continue; }" at each tick, then  *)
(* a pass that does not look at the flag again.                            *)
(***************************************************************************)

StartPass(r) ==
    /\ flag[r]
    /\ ~pass[r]
    /\ pass' = [pass EXCEPT ![r] = TRUE]
    /\ UNCHANGED <<lease, up, elector, faults>>

EndPass(r) ==
    /\ pass[r]
    /\ pass' = [pass EXCEPT ![r] = FALSE]
    /\ UNCHANGED <<lease, up, elector, faults>>

-----------------------------------------------------------------------------
(***************************************************************************)
(* Processes and time.                                                     *)
(***************************************************************************)

\* node_id is random per process: no process renews the row of a dead one
Crash(r) ==
    /\ up[r]
    /\ faults < MaxFaults
    /\ up' = [up EXCEPT ![r] = FALSE]
    /\ holder' = IF holder = r THEN Departed ELSE holder
    /\ flag' = [flag EXCEPT ![r] = FALSE]
    /\ query' = [query EXCEPT ![r] = "none"]
    /\ due' = [due EXCEPT ![r] = 0]
    /\ lag' = [lag EXCEPT ![r] = 0]
    /\ pass' = [pass EXCEPT ![r] = FALSE]
    /\ faults' = faults + 1
    /\ UNCHANGED left

\* The interval's first tick is immediate
Restart(r) ==
    /\ ~up[r]
    /\ up' = [up EXCEPT ![r] = TRUE]
    /\ UNCHANGED <<lease, elector, pass, faults>>

\* An elector whose tick is due sends at once, and a query has its outcome
\* within MaxLag.  A backlog of more than one period is not counted further.
Tick ==
    /\ \A r \in Replica :
          /\ up[r] /\ query[r] = "none" => due[r] > 0
          /\ query[r] # "none" => lag[r] < MaxLag
    /\ left' = IF left >= 0 THEN left - 1 ELSE left
    /\ due' = [r \in Replica |-> IF up[r] /\ due[r] > -RenewEvery THEN due[r] - 1 ELSE due[r]]
    /\ lag' = [r \in Replica |-> IF query[r] = "none" THEN 0 ELSE lag[r] + 1]
    /\ UNCHANGED <<holder, up, flag, query, pass, faults>>

-----------------------------------------------------------------------------
LeaseNext ==
    \/ \E r \in Replica :
          \/ Send(r)
          \/ Upsert(r)
          \/ Answer(r)
          \/ QueryFails(r)
          \/ StartPass(r)
          \/ EndPass(r)
          \/ Crash(r)
          \/ Restart(r)
    \/ Tick

LeaseSpec == LeaseInit /\ [][LeaseNext]_leaseVars

(***************************************************************************)
(* Fairness: the elector task of a live process is polled, Postgres        *)
(* answers, a dead process is restarted, and time passes.                  *)
(***************************************************************************)
LeaseFairness ==
    /\ \A r \in Replica :
          /\ WF_leaseVars(Send(r))
          /\ WF_leaseVars(Upsert(r))
          /\ WF_leaseVars(Answer(r))
          /\ WF_leaseVars(Restart(r))
    /\ WF_leaseVars(Tick)

LeaseFairSpec == LeaseSpec /\ LeaseFairness

-----------------------------------------------------------------------------
(***************************************************************************)
(* Properties.                                                             *)
(***************************************************************************)

\* Type correctness of the lease row and of the electors.
LeaseTypeOK ==
    /\ holder \in Replica \cup {Absent, Departed}
    /\ left \in -1..LeaseTTL
    /\ up \in [Replica -> BOOLEAN]
    /\ flag \in [Replica -> BOOLEAN]
    /\ query \in [Replica -> Query]
    /\ due \in [Replica -> -RenewEvery..RenewEvery]
    /\ lag \in [Replica -> 0..MaxLag]
    /\ pass \in [Replica -> BOOLEAN]
    /\ faults \in Nat

\* How slow a query may be: its outcome must arrive before a lease renewed by
\* the previous one runs out, also when that one was as slow.  With 30 s and
\* 10 s a query may take 15 s.
LeaseMargin ==
    /\ RenewEvery + MaxLag <= LeaseTTL
    /\ MaxLag + MaxLag <= LeaseTTL

\* What LeaderHoldsLease rests on: the lease outlives the wait for the next
\* outcome, and an answer on its way tells the truth about the row.
Covered ==
    \A r \in Replica :
        /\ query[r] # "none" => up[r] /\ (due[r] <= RenewEvery - lag[r] \/ due[r] <= 0)
        /\ query[r] = "won" => holder = r /\ left >= LeaseTTL - lag[r]
        /\ flag[r] =>
              /\ up[r] /\ holder = r /\ query[r] # "lost"
              /\ query[r] = "none" => left >= MaxLag /\ left >= due[r] + MaxLag
              /\ query[r] = "sent" => left >= MaxLag - lag[r]

\* "True if this replica currently holds the leader lease" (leader.rs:26): a
\* process whose flag is set owns the row, and the row has not expired.
LeaderHoldsLease ==
    \A r \in Replica : flag[r] => up[r] /\ holder = r /\ ~Expired

\* "Only the elected replica runs the singleton workers" (main.rs:53): two
\* processes never both believe they lead.
AtMostOneLeader ==
    \A r, s \in Replica : flag[r] /\ flag[s] => r = s

\* "If the leader dies, the lease expires and another replica takes over": the
\* system is never leaderless for good.
AlwaysALeaderAgain == []<>(\E r \in Replica : flag[r])

\* A pass of the singleton workers, which looks at the flag once, starts only in the
\* process that holds the lease, and before the lease has expired (cron.rs:96).  It may
\* end later.
PassesStartUnderLease ==
    [][\A r \in Replica : pass'[r] /\ ~pass[r] => holder = r /\ ~Expired]_leaseVars
=============================================================================
