--------------------------- MODULE JobQueueProofs ---------------------------
(***************************************************************************)
(* Theorems about JobQueue for any number of jobs, processes, worker loops *)
(* and faults, and any heartbeat and staleness intervals.                  *)
(***************************************************************************)
EXTENDS JobQueue, TLAPS

LEMMA BackoffNat ==
    ASSUME NEW n \in Nat
    PROVE  BackoffTicks(n) \in Nat
<1>1. BackoffSecs(n) \in Nat
  BY DEF BackoffSecs, PowerOfTwo
<1>2. QED
  BY <1>1, ConstantsOK DEF BackoffTicks

LEMMA CountAttemptNat ==
    ASSUME NEW n \in Nat
    PROVE  CountAttempt(n) \in Nat /\ n <= CountAttempt(n)
BY ConstantsOK DEF CountAttempt, AttemptCap

\* The product in Fresh grows with the heartbeats missed.
LEMMA MissedProduct ==
    ASSUME NEW m \in 0..MaxMissed
    PROVE  /\ HeartbeatEvery * (m + 1) \in Nat
           /\ HeartbeatEvery * ((m + 1) + 1) = HeartbeatEvery * (m + 1) + HeartbeatEvery
           /\ HeartbeatEvery * (m + 1) <= HeartbeatEvery * (MaxMissed + 1)
<1>1. m \in Nat /\ HeartbeatEvery \in Nat /\ MaxMissed \in Nat /\ m <= MaxMissed
  BY ConstantsOK
<1>2. HeartbeatEvery * (m + 1) \in Nat
  BY <1>1
<1>3. HeartbeatEvery * ((m + 1) + 1) = HeartbeatEvery * (m + 1) + HeartbeatEvery
  BY <1>1
<1>4. HeartbeatEvery * (m + 1) <= HeartbeatEvery * (MaxMissed + 1)
  BY <1>1
<1>5. QED
  BY <1>2, <1>3, <1>4

-----------------------------------------------------------------------------
\* A worker holds a job or none.
Held == \A w \in Worker : pc[w] # "idle" => task[w] \in Job

LEMMA TypeInit == Init => TypeOK /\ Held
BY ConstantsOK DEF Init, TypeOK, Held, Status, PC, NoJob

LEMMA TypeNext == TypeOK /\ Held /\ [Next]_vars => TypeOK' /\ Held'
<1> SUFFICES ASSUME TypeOK, Held, [Next]_vars
             PROVE  TypeOK' /\ Held'
  OBVIOUS
<1> USE DEF TypeOK, Held, Status, PC, row, loop
<1>1. ASSUME NEW j \in Job, Enqueue(j)
      PROVE  TypeOK' /\ Held'
  BY <1>1 DEF Enqueue
<1>2. ASSUME NEW w \in Worker, NEW j \in Job, Claim(w, j)
      PROVE  TypeOK' /\ Held'
  <2>1. CountAttempt(attempts[j]) \in Nat
    BY CountAttemptNat
  <2>2. QED
    BY <1>2, <2>1, ConstantsOK DEF Claim, MarkClaimed
<1>3. ASSUME NEW w \in Worker, NEW j \in Job, ClaimAnswerLost(w, j)
      PROVE  TypeOK' /\ Held'
  <2>1. CountAttempt(attempts[j]) \in Nat
    BY CountAttemptNat
  <2>2. QED
    BY <1>3, <2>1 DEF ClaimAnswerLost, MarkClaimed
<1>4. ASSUME NEW w \in Worker, HandlerReturns(w)
      PROVE  TypeOK' /\ Held'
  BY <1>4 DEF HandlerReturns
<1>5. ASSUME NEW w \in Worker, Complete(w)
      PROVE  TypeOK' /\ Held'
  BY <1>5, ConstantsOK DEF Complete, GoIdle
<1>6. ASSUME NEW w \in Worker, ReadAttempts(w)
      PROVE  TypeOK' /\ Held'
  BY <1>6 DEF ReadAttempts
<1>7. ASSUME NEW w \in Worker, Fail(w)
      PROVE  TypeOK' /\ Held'
  <2>1. BackoffTicks(seen[w]) \in Nat
    BY BackoffNat
  <2>2. QED
    BY <1>7, <2>1, ConstantsOK DEF Fail, GoIdle
<1>8. ASSUME NEW w \in Worker, SettleLost(w)
      PROVE  TypeOK' /\ Held'
  BY <1>8, ConstantsOK DEF SettleLost, GoIdle
<1>9. ASSUME NEW w \in Worker, Heartbeat(w)
      PROVE  TypeOK' /\ Held'
  BY <1>9, ConstantsOK DEF Heartbeat, Beat
<1>10. ASSUME NEW w \in Worker, HeartbeatMissed(w)
       PROVE  TypeOK' /\ Held'
  BY <1>10, ConstantsOK DEF HeartbeatMissed
<1>11. ASSUME Reclaim
       PROVE  TypeOK' /\ Held'
  BY <1>11 DEF Reclaim
<1>12. ASSUME NEW r \in Replica, Crash(r)
       PROVE  TypeOK' /\ Held'
  BY <1>12, ConstantsOK DEF Crash, ResetOn
<1>13. ASSUME NEW r \in Replica, Restart(r)
       PROVE  TypeOK' /\ Held'
  BY <1>13 DEF Restart
<1>14. ASSUME Tick
       PROVE  TypeOK' /\ Held'
  BY <1>14 DEF Tick, Older, Sooner
<1>15. CASE UNCHANGED vars
  BY <1>15 DEF vars
<1>16. QED
  BY <1>1, <1>2, <1>3, <1>4, <1>5, <1>6, <1>7, <1>8, <1>9, <1>10, <1>11,
     <1>12, <1>13, <1>14, <1>15 DEF Next

\* The table and the worker loops are well typed in every reachable state.
THEOREM TypeCorrect == Spec => []TypeOK
<1>1. Spec => [](TypeOK /\ Held)
  BY TypeInit, TypeNext, PTL DEF Spec
<1>2. QED
  BY <1>1, PTL

-----------------------------------------------------------------------------
(***************************************************************************)
(* Whatever heartbeats do: why a job is settled.                           *)
(***************************************************************************)

LEMMA CauseInit == Init => CarriedFacts /\ SettledForCause
BY ConstantsOK DEF Init, CarriedFacts, SettledForCause

LEMMA CauseNext ==
    TypeOK /\ CarriedFacts /\ SettledForCause /\ [Next]_vars
        => CarriedFacts' /\ SettledForCause'
<1> SUFFICES ASSUME TypeOK, CarriedFacts, SettledForCause, [Next]_vars
             PROVE  CarriedFacts' /\ SettledForCause'
  OBVIOUS
<1> USE ConstantsOK DEF TypeOK, CarriedFacts, SettledForCause, row, loop
<1>1. ASSUME NEW j \in Job, Enqueue(j)
      PROVE  CarriedFacts' /\ SettledForCause'
  BY <1>1 DEF Enqueue
<1>2. ASSUME NEW w \in Worker, NEW j \in Job, Claim(w, j)
      PROVE  CarriedFacts' /\ SettledForCause'
  <2>1. attempts[j] <= CountAttempt(attempts[j]) /\ CountAttempt(attempts[j]) \in Nat
    BY CountAttemptNat
  <2>2. QED
    BY <1>2, <2>1 DEF Claim, MarkClaimed, Oldest, Runnable
<1>3. ASSUME NEW w \in Worker, NEW j \in Job, ClaimAnswerLost(w, j)
      PROVE  CarriedFacts' /\ SettledForCause'
  <2>1. attempts[j] <= CountAttempt(attempts[j]) /\ CountAttempt(attempts[j]) \in Nat
    BY CountAttemptNat
  <2>2. QED
    BY <1>3, <2>1 DEF ClaimAnswerLost, MarkClaimed, Oldest, Runnable
<1>4. ASSUME NEW w \in Worker, HandlerReturns(w)
      PROVE  CarriedFacts' /\ SettledForCause'
  BY <1>4 DEF HandlerReturns
<1>5. ASSUME NEW w \in Worker, Complete(w)
      PROVE  CarriedFacts' /\ SettledForCause'
  BY <1>5 DEF Complete, GoIdle
<1>6. ASSUME NEW w \in Worker, ReadAttempts(w)
      PROVE  CarriedFacts' /\ SettledForCause'
  BY <1>6 DEF ReadAttempts
<1>7. ASSUME NEW w \in Worker, Fail(w)
      PROVE  CarriedFacts' /\ SettledForCause'
  BY <1>7 DEF Fail, GoIdle, Exhausted
<1>8. ASSUME NEW w \in Worker, SettleLost(w)
      PROVE  CarriedFacts' /\ SettledForCause'
  BY <1>8 DEF SettleLost, GoIdle
<1>9. ASSUME NEW w \in Worker, Heartbeat(w)
      PROVE  CarriedFacts' /\ SettledForCause'
  BY <1>9 DEF Heartbeat, Beat
<1>10. ASSUME NEW w \in Worker, HeartbeatMissed(w)
       PROVE  CarriedFacts' /\ SettledForCause'
  BY <1>10 DEF HeartbeatMissed
<1>11. ASSUME Reclaim
       PROVE  CarriedFacts' /\ SettledForCause'
  BY <1>11 DEF Reclaim, IsStale
<1>12. ASSUME NEW r \in Replica, Crash(r)
       PROVE  CarriedFacts' /\ SettledForCause'
  BY <1>12 DEF Crash, ResetOn
<1>13. ASSUME NEW r \in Replica, Restart(r)
       PROVE  CarriedFacts' /\ SettledForCause'
  BY <1>13 DEF Restart
<1>14. ASSUME Tick
       PROVE  CarriedFacts' /\ SettledForCause'
  BY <1>14 DEF Tick
<1>15. CASE UNCHANGED vars
  BY <1>15 DEF vars
<1>16. QED
  BY <1>1, <1>2, <1>3, <1>4, <1>5, <1>6, <1>7, <1>8, <1>9, <1>10, <1>11,
     <1>12, <1>13, <1>14, <1>15 DEF Next

LEMMA CauseInvariant == Spec => [](TypeOK /\ CarriedFacts /\ SettledForCause)
BY CauseInit, CauseNext, TypeCorrect, PTL DEF Spec

\* A succeeded job has run and a failed one has used up its attempts, through
\* every crash, lost answer and heartbeat outage.
THEOREM SettledForCauseAlways == Spec => []SettledForCause
BY CauseInvariant, PTL

\* Only fail takes a job out of a settled status, and it is called for jobs
\* that never ran.
LEMMA SuccessStep ==
    TypeOK /\ CarriedFacts /\ SettledForCause /\ [Next]_vars
        => [\A j \in Job : status[j] = "succeeded" => status'[j] = "succeeded"]_vars
<1> SUFFICES ASSUME TypeOK, CarriedFacts, SettledForCause, Next,
                    NEW j \in Job, status[j] = "succeeded"
             PROVE  status'[j] = "succeeded"
  BY DEF vars
<1> USE ConstantsOK DEF TypeOK, row
<1>1. j \in executed /\ j \notin BadJob
  BY DEF CarriedFacts, SettledForCause
<1>2. ASSUME NEW i \in Job, Enqueue(i)
      PROVE  status'[j] = "succeeded"
  BY <1>2 DEF Enqueue
<1>3. ASSUME NEW w \in Worker, NEW i \in Job, Claim(w, i) \/ ClaimAnswerLost(w, i)
      PROVE  status'[j] = "succeeded"
  BY <1>3 DEF Claim, ClaimAnswerLost, MarkClaimed, Oldest, Runnable
<1>4. ASSUME NEW w \in Worker, Complete(w)
      PROVE  status'[j] = "succeeded"
  BY <1>4 DEF Complete
<1>5. ASSUME NEW w \in Worker, Fail(w)
      PROVE  status'[j] = "succeeded"
  <2>1. task[w] # j
    BY <1>1, <1>5 DEF Fail, CarriedFacts
  <2>2. QED
    BY <1>5, <2>1 DEF Fail
<1>6. ASSUME NEW w \in Worker,
             \/ HandlerReturns(w)
             \/ ReadAttempts(w)
             \/ SettleLost(w)
             \/ Heartbeat(w)
             \/ HeartbeatMissed(w)
      PROVE  status'[j] = "succeeded"
  BY <1>6 DEF HandlerReturns, ReadAttempts, SettleLost, Heartbeat, HeartbeatMissed
<1>7. ASSUME Reclaim
      PROVE  status'[j] = "succeeded"
  BY <1>7 DEF Reclaim, IsStale
<1>8. ASSUME NEW r \in Replica, Crash(r) \/ Restart(r)
      PROVE  status'[j] = "succeeded"
  BY <1>8 DEF Crash, Restart
<1>9. ASSUME Tick
      PROVE  status'[j] = "succeeded"
  BY <1>9 DEF Tick
<1>10. QED
  BY <1>2, <1>3, <1>4, <1>5, <1>6, <1>7, <1>8, <1>9 DEF Next

\* A job once marked succeeded stays so, even when a second worker runs it.
THEOREM SuccessIsFinalAlways == Spec => SuccessIsFinal
BY CauseInvariant, SuccessStep, PTL DEF Spec, SuccessIsFinal

-----------------------------------------------------------------------------
(***************************************************************************)
(* While no more than MaxMissed heartbeats fail in a row: exclusive claims.*)
(***************************************************************************)

LEMMA HeldIsNotStale ==
    ASSUME HeartbeatMargin, TypeOK, Fresh, NEW w \in Worker, pc[w] # "idle"
    PROVE  task[w] \in Job /\ ~IsStale(task[w])
<1>1. task[w] \in Job /\ missed[w] \in 0..MaxMissed
  BY DEF Fresh, TypeOK
<1>2. HeartbeatEvery * (missed[w] + 1) <= HeartbeatEvery * (MaxMissed + 1)
  BY <1>1, MissedProduct
<1>3. age[task[w]] + due[w] <= HeartbeatEvery * (missed[w] + 1)
  BY DEF Fresh
<1>4. /\ age[task[w]] \in Nat
      /\ due[w] \in Nat
      /\ HeartbeatEvery * (missed[w] + 1) \in Nat
      /\ HeartbeatEvery * (MaxMissed + 1) \in Nat
      /\ StaleAfter \in Nat
  BY <1>1, MissedProduct, ConstantsOK DEF TypeOK
<1>5. age[task[w]] <= StaleAfter
  BY <1>2, <1>3, <1>4 DEF HeartbeatMargin
<1>6. QED
  BY <1>1, <1>4, <1>5 DEF IsStale

LEMMA ExclusiveInit == Init => Exclusive /\ Fresh
BY DEF Init, Exclusive, Fresh

LEMMA ExclusiveNext ==
    ASSUME HeartbeatMargin
    PROVE  TypeOK /\ Exclusive /\ Fresh /\ [Next]_vars => Exclusive' /\ Fresh'
<1> SUFFICES ASSUME TypeOK, Exclusive, Fresh, [Next]_vars
             PROVE  Exclusive' /\ Fresh'
  OBVIOUS
<1> USE DEF TypeOK, Exclusive, Holds, row, loop
<1>1. ASSUME NEW j \in Job, Enqueue(j)
      PROVE  Exclusive' /\ Fresh'
  BY <1>1 DEF Enqueue, Fresh
<1>2. ASSUME NEW w \in Worker, NEW j \in Job, Claim(w, j)
      PROVE  Exclusive' /\ Fresh'
  <2>1. \A v \in Worker : pc[v] # "idle" => task[v] # j
    BY <1>2 DEF Claim, Oldest, Runnable
  <2>2. Exclusive'
    BY <1>2, <2>1 DEF Claim, MarkClaimed
  <2>3. 0 <= HeartbeatEvery * (0 + 1)
    BY ConstantsOK
  <2>4. Fresh'
    BY <1>2, <2>1, <2>3 DEF Claim, MarkClaimed, Fresh
  <2>5. QED
    BY <2>2, <2>4
<1>3. ASSUME NEW w \in Worker, NEW j \in Job, ClaimAnswerLost(w, j)
      PROVE  Exclusive' /\ Fresh'
  <2>1. \A v \in Worker : pc[v] # "idle" => task[v] # j
    BY <1>3 DEF ClaimAnswerLost, Oldest, Runnable
  <2>2. QED
    BY <1>3, <2>1 DEF ClaimAnswerLost, MarkClaimed, Fresh
<1>4. ASSUME NEW w \in Worker, HandlerReturns(w)
      PROVE  Exclusive' /\ Fresh'
  BY <1>4 DEF HandlerReturns, Fresh
<1>5. ASSUME NEW w \in Worker, Complete(w)
      PROVE  Exclusive' /\ Fresh'
  <2>1. \A v \in Worker \ {w} : pc[v] # "idle" => task[v] # task[w]
    BY <1>5 DEF Complete
  <2>2. QED
    BY <1>5, <2>1 DEF Complete, GoIdle, Fresh
<1>6. ASSUME NEW w \in Worker, ReadAttempts(w)
      PROVE  Exclusive' /\ Fresh'
  BY <1>6 DEF ReadAttempts, Fresh
<1>7. ASSUME NEW w \in Worker, Fail(w)
      PROVE  Exclusive' /\ Fresh'
  <2>1. \A v \in Worker \ {w} : pc[v] # "idle" => task[v] # task[w]
    BY <1>7 DEF Fail
  <2>2. QED
    BY <1>7, <2>1 DEF Fail, GoIdle, Fresh
<1>8. ASSUME NEW w \in Worker, SettleLost(w)
      PROVE  Exclusive' /\ Fresh'
  BY <1>8 DEF SettleLost, GoIdle, Fresh
<1>9. ASSUME NEW w \in Worker, Heartbeat(w)
      PROVE  Exclusive' /\ Fresh'
  <2>1. Exclusive'
    BY <1>9 DEF Heartbeat
  <2>2. 0 + HeartbeatEvery <= HeartbeatEvery * (0 + 1)
    BY ConstantsOK
  <2>3. \A v \in Worker \ {w} : pc[v] # "idle" => task[v] # task[w]
    BY <1>9 DEF Heartbeat
  <2>4. Fresh'
    BY <1>9, <2>2, <2>3 DEF Heartbeat, Beat, Fresh
  <2>5. QED
    BY <2>1, <2>4
<1>10. ASSUME NEW w \in Worker, HeartbeatMissed(w)
       PROVE  Exclusive' /\ Fresh'
  <2>1. Exclusive'
    BY <1>10 DEF HeartbeatMissed
  <2>2. HeartbeatEvery * ((missed[w] + 1) + 1) = HeartbeatEvery * (missed[w] + 1) + HeartbeatEvery
    BY MissedProduct
  <2>3. HeartbeatEvery * (missed[w] + 1) \in Nat /\ HeartbeatEvery \in Nat
    BY MissedProduct, ConstantsOK
  <2>4. /\ task[w] \in Job
        /\ age[task[w]] + HeartbeatEvery <= HeartbeatEvery * ((missed[w] + 1) + 1)
    BY <1>10, <2>2, <2>3 DEF HeartbeatMissed, Fresh
  <2>5. Fresh'
    BY <1>10, <2>4 DEF HeartbeatMissed, Fresh
  <2>6. QED
    BY <2>1, <2>5
<1>11. ASSUME Reclaim
       PROVE  Exclusive' /\ Fresh'
  <2>1. \A w \in Worker : pc[w] # "idle" => task[w] \in Job /\ ~IsStale(task[w])
    BY HeldIsNotStale
  <2>2. QED
    BY <1>11, <2>1 DEF Reclaim, Fresh
<1>12. ASSUME NEW r \in Replica, Crash(r)
       PROVE  Exclusive' /\ Fresh'
  BY <1>12 DEF Crash, ResetOn, Fresh
<1>13. ASSUME NEW r \in Replica, Restart(r)
       PROVE  Exclusive' /\ Fresh'
  BY <1>13 DEF Restart, Fresh
<1>14. ASSUME Tick
       PROVE  Exclusive' /\ Fresh'
  <2>1. Exclusive'
    BY <1>14 DEF Tick
  <2>2. ASSUME NEW w \in Worker, pc[w] # "idle"
        PROVE  age'[task[w]] + due'[w] <= age[task[w]] + due[w]
    <3>1. task[w] \in Job /\ due[w] \in Nat /\ due[w] > 0 /\ age[task[w]] \in Nat
      BY <1>14, <2>2 DEF Tick, Fresh
    <3>2. due'[w] = due[w] - 1
      BY <1>14, <3>1 DEF Tick, Sooner
    <3>3. age'[task[w]] = age[task[w]] \/ age'[task[w]] = age[task[w]] + 1
      BY <1>14, <3>1 DEF Tick, Older
    <3>4. QED
      BY <3>1, <3>2, <3>3
  <2>3. ASSUME NEW w \in Worker, pc[w] # "idle"
        PROVE  /\ task[w] \in Job
               /\ age'[task[w]] + due'[w] <= HeartbeatEvery * (missed[w] + 1)
    <3>1. task[w] \in Job /\ HeartbeatEvery * (missed[w] + 1) \in Nat
      BY <2>3, MissedProduct DEF Fresh
    <3>2. age'[task[w]] \in Nat /\ due'[w] \in Nat
      BY <1>14, <3>1 DEF Tick, Older, Sooner
    <3>3. QED
      BY <2>2, <2>3, <3>1, <3>2 DEF Fresh
  <2>4. Fresh'
    BY <1>14, <2>3 DEF Tick, Fresh
  <2>5. QED
    BY <2>1, <2>4
<1>15. CASE UNCHANGED vars
  BY <1>15 DEF vars, Fresh
<1>16. QED
  BY <1>1, <1>2, <1>3, <1>4, <1>5, <1>6, <1>7, <1>8, <1>9, <1>10, <1>11,
     <1>12, <1>13, <1>14, <1>15 DEF Next

LEMMA ExclusiveInvariant ==
    ASSUME HeartbeatMargin
    PROVE  Spec => [](TypeOK /\ Exclusive /\ Fresh)
<1>1. TypeOK /\ Exclusive /\ Fresh /\ [Next]_vars => Exclusive' /\ Fresh'
  BY ExclusiveNext
<1>2. QED
  BY <1>1, ExclusiveInit, TypeCorrect, PTL DEF Spec

\* No two workers of any processes ever run one job, as long as the heartbeats
\* that fail in a row fit in STALE_AFTER.
THEOREM ExclusiveAlways ==
    ASSUME HeartbeatMargin
    PROVE  Spec => []Exclusive
BY ExclusiveInvariant, PTL

\* Only a worker that holds a running row settles or requeues a job by id.
LEMMA SettledStep ==
    ASSUME TypeOK, Exclusive, Fresh, Next, NEW j \in Job, status[j] \in Settled
    PROVE  status'[j] = status[j]
<1> USE DEF TypeOK, Settled, row
<1>1. \A w \in Worker : pc[w] # "idle" => task[w] \in Job /\ task[w] # j
  BY DEF Exclusive, Fresh
<1>2. ASSUME NEW i \in Job, Enqueue(i)
      PROVE  status'[j] = status[j]
  BY <1>2 DEF Enqueue
<1>3. ASSUME NEW w \in Worker, NEW i \in Job, Claim(w, i) \/ ClaimAnswerLost(w, i)
      PROVE  status'[j] = status[j]
  BY <1>3 DEF Claim, ClaimAnswerLost, MarkClaimed, Oldest, Runnable
<1>4. ASSUME NEW w \in Worker, Complete(w) \/ Fail(w)
      PROVE  status'[j] = status[j]
  BY <1>1, <1>4 DEF Complete, Fail
<1>5. ASSUME NEW w \in Worker,
             \/ HandlerReturns(w)
             \/ ReadAttempts(w)
             \/ SettleLost(w)
             \/ Heartbeat(w)
             \/ HeartbeatMissed(w)
      PROVE  status'[j] = status[j]
  BY <1>5 DEF HandlerReturns, ReadAttempts, SettleLost, Heartbeat, HeartbeatMissed
<1>6. CASE Reclaim
  BY <1>6 DEF Reclaim, IsStale
<1>7. ASSUME NEW r \in Replica, Crash(r) \/ Restart(r)
      PROVE  status'[j] = status[j]
  BY <1>7 DEF Crash, Restart
<1>8. CASE Tick
  BY <1>8 DEF Tick
<1>9. QED
  BY <1>2, <1>3, <1>4, <1>5, <1>6, <1>7, <1>8 DEF Next

\* A settled job, succeeded or failed, is never taken up again.
THEOREM SettledIsFinalAlways ==
    ASSUME HeartbeatMargin
    PROVE  Spec => SettledIsFinal
<1>1. TypeOK /\ Exclusive /\ Fresh /\ [Next]_vars
          => [\A j \in Job : status[j] \in Settled => status'[j] = status[j]]_vars
  BY SettledStep
<1>2. QED
  BY <1>1, ExclusiveInvariant, PTL DEF Spec, SettledIsFinal

-----------------------------------------------------------------------------
(***************************************************************************)
(* The queue implements JobLifecycle.                                      *)
(***************************************************************************)

LEMMA RefineInit == Init => Lifecycle!Init
BY DEF Init, Lifecycle!Init, PhaseOf

LEMMA RefineNext ==
    ASSUME TypeOK, Exclusive, Fresh, CarriedFacts, [Next]_vars
    PROVE  [Lifecycle!Next]_(Lifecycle!vars)
<1> USE DEF TypeOK, Status, row, loop
<1>1. ASSUME NEW j \in Job, Enqueue(j)
      PROVE  Lifecycle!Submit(j)
  BY <1>1 DEF Enqueue, Lifecycle!Submit, PhaseOf
<1>2. ASSUME NEW w \in Worker, NEW j \in Job, Claim(w, j) \/ ClaimAnswerLost(w, j)
      PROVE  UNCHANGED Lifecycle!vars
  BY <1>2 DEF Claim, ClaimAnswerLost, MarkClaimed, Oldest, Runnable, Lifecycle!vars, PhaseOf
<1>3. ASSUME NEW w \in Worker, HandlerReturns(w)
      PROVE  Lifecycle!Run(task[w]) \/ UNCHANGED Lifecycle!vars
  <2>1. task[w] \in Job /\ status[task[w]] = "running"
    BY <1>3 DEF HandlerReturns, Exclusive, Fresh
  <2>2. QED
    BY <1>3, <2>1 DEF HandlerReturns, Lifecycle!Run, Lifecycle!vars, PhaseOf
<1>4. ASSUME NEW w \in Worker, Complete(w)
      PROVE  Lifecycle!Finish(task[w])
  <2>1. /\ task[w] \in Job
        /\ status[task[w]] = "running"
        /\ task[w] \in executed
    BY <1>4 DEF Complete, Exclusive, Fresh, CarriedFacts
  <2>2. QED
    BY <1>4, <2>1 DEF Complete, Lifecycle!Finish, PhaseOf
<1>5. ASSUME NEW w \in Worker, Fail(w)
      PROVE  Lifecycle!GiveUp(task[w]) \/ UNCHANGED Lifecycle!vars
  <2>1. /\ task[w] \in Job
        /\ status[task[w]] = "running"
        /\ task[w] \notin executed
    BY <1>5 DEF Fail, Exclusive, Fresh, CarriedFacts
  <2>2. CASE ~Exhausted(seen[w])
    <3>1. status' = [status EXCEPT ![task[w]] = "queued"] /\ UNCHANGED executed
      BY <1>5, <2>2 DEF Fail
    <3>2. \A j \in Job : PhaseOf(status'[j]) = PhaseOf(status[j])
      BY <2>1, <3>1 DEF PhaseOf
    <3> QED
      BY <3>1, <3>2 DEF Lifecycle!vars
  <2>3. CASE Exhausted(seen[w])
    <3>1. status' = [status EXCEPT ![task[w]] = "failed"] /\ UNCHANGED executed
      BY <1>5, <2>3 DEF Fail
    <3> QED
      BY <2>1, <3>1 DEF Lifecycle!GiveUp, PhaseOf
  <2>4. QED
    BY <2>2, <2>3
<1>6. ASSUME NEW w \in Worker,
             \/ ReadAttempts(w)
             \/ SettleLost(w)
             \/ Heartbeat(w)
             \/ HeartbeatMissed(w)
      PROVE  UNCHANGED Lifecycle!vars
  BY <1>6 DEF ReadAttempts, SettleLost, Heartbeat, HeartbeatMissed, Lifecycle!vars
<1>7. ASSUME Reclaim
      PROVE  UNCHANGED Lifecycle!vars
  BY <1>7 DEF Reclaim, IsStale, Lifecycle!vars, PhaseOf
<1>8. ASSUME NEW r \in Replica, Crash(r) \/ Restart(r)
      PROVE  UNCHANGED Lifecycle!vars
  BY <1>8 DEF Crash, Restart, Lifecycle!vars
<1>9. ASSUME Tick
      PROVE  UNCHANGED Lifecycle!vars
  BY <1>9 DEF Tick, Lifecycle!vars
<1>10. CASE UNCHANGED vars
  BY <1>10 DEF vars, Lifecycle!vars
<1>11. ASSUME NEW w \in Worker, pc[w] # "idle"
       PROVE  task[w] \in Job
  BY <1>11 DEF Fresh
<1>12. ASSUME NEW w \in Worker, HandlerReturns(w) \/ Complete(w) \/ Fail(w)
       PROVE  Lifecycle!Next \/ UNCHANGED Lifecycle!vars
  <2>1. task[w] \in Job
    BY <1>11, <1>12 DEF HandlerReturns, Complete, Fail
  <2>2. QED
    BY <1>3, <1>4, <1>5, <1>12, <2>1 DEF Lifecycle!Next
<1>13. ASSUME NEW j \in Job, Enqueue(j)
       PROVE  Lifecycle!Next
  BY <1>1, <1>13 DEF Lifecycle!Next
<1>14. QED
  BY <1>2, <1>6, <1>7, <1>8, <1>9, <1>10, <1>12, <1>13 DEF Next

\* The queue implements the life cycle of an at-least-once job: a job is settled
\* once, as done after it ran or as dead if it never did.
THEOREM Refinement ==
    ASSUME HeartbeatMargin
    PROVE  Spec => RefinesLifecycle
<1>1. TypeOK /\ Exclusive /\ Fresh /\ CarriedFacts /\ [Next]_vars
          => [Lifecycle!Next]_(Lifecycle!vars)
  BY RefineNext
<1>2. QED
  BY <1>1, RefineInit, ExclusiveInvariant, CauseInvariant, PTL
     DEF Spec, RefinesLifecycle, Lifecycle!Spec
=============================================================================
