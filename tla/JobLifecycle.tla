---------------------------- MODULE JobLifecycle ----------------------------
(***************************************************************************)
(* What the durable queue of utils/job_queue.rs promises to the handlers   *)
(* that enqueue work, without workers, heartbeats, retries or processes:   *)
(* an accepted job stays pending until it is settled, it is settled at     *)
(* most once, it is settled as done only after its handler has run to the  *)
(* end, and as dead only when no handler ever ran for it.                  *)
(***************************************************************************)
CONSTANT Job

VARIABLES
    phase,      \* phase[j]: what a client knows of job j
    ran         \* the jobs whose handler has run to the end at least once

vars == <<phase, ran>>

Phase == {"absent", "pending", "done", "dead"}

TypeOK ==
    /\ phase \in [Job -> Phase]
    /\ ran \subseteq Job

Init ==
    /\ phase = [j \in Job |-> "absent"]
    /\ ran = {}

Submit(j) ==
    /\ phase[j] = "absent"
    /\ phase' = [phase EXCEPT ![j] = "pending"]
    /\ UNCHANGED ran

\* At least once: a pending job may be run again and again.
Run(j) ==
    /\ phase[j] = "pending"
    /\ ran' = ran \cup {j}
    /\ UNCHANGED phase

Finish(j) ==
    /\ phase[j] = "pending"
    /\ j \in ran
    /\ phase' = [phase EXCEPT ![j] = "done"]
    /\ UNCHANGED ran

GiveUp(j) ==
    /\ phase[j] = "pending"
    /\ j \notin ran
    /\ phase' = [phase EXCEPT ![j] = "dead"]
    /\ UNCHANGED ran

Next == \E j \in Job : Submit(j) \/ Run(j) \/ Finish(j) \/ GiveUp(j)

Spec == Init /\ [][Next]_vars
=============================================================================
