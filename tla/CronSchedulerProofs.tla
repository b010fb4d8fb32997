------------------------- MODULE CronSchedulerProofs -------------------------
(***************************************************************************)
(* Theorems about CronScheduler for any jobs, schedules, requests,         *)
(* processes and runs, any time and any number of events.                  *)
(***************************************************************************)
EXTENDS CronScheduler, FiniteSetTheorems, TLAPS

-----------------------------------------------------------------------------
(***************************************************************************)
(* Types                                                                   *)
(***************************************************************************)

LEMMA UpcomingTyped ==
    ASSUME NEW p \in Nat \ {0}, NEW t \in Nat
    PROVE  Upcoming(p, t) \in Nat
<1>1. t \div p \in Nat
  OBVIOUS
<1>2. QED
  BY <1>1 DEF Upcoming

LEMMA PeriodTyped ==
    ASSUME TypeOK, NEW p \in Period
    PROVE  Upcoming(p, now) \in Nat
BY UpcomingTyped, CronConstantsOK DEF TypeOK

LEMMA IdleTyped == Idle \in RequestState /\ Waiting \in LoopState /\ NoRun \in RunState
BY CronConstantsOK DEF Idle, RequestState, NoTime, Kind, Waiting, LoopState, NoRun, RunState

LEMMA NewRowTyped ==
    ASSUME TypeOK, NEW p \in Period, NEW b \in BOOLEAN
    PROVE  NewRow(p, b) \in CronRow
BY PeriodTyped DEF NewRow, CronRow

LEMMA EventTyped ==
    ASSUME TypeOK, Event \/ UNCHANGED events
    PROVE  events' \in 0..MaxEvents
BY CronConstantsOK DEF TypeOK, Event

LEMMA TypeInit == Init => TypeOK /\ InHandOnly
<1> SUFFICES ASSUME Init PROVE TypeOK /\ InHandOnly
  OBVIOUS
<1>1. PICK b \in BOOLEAN :
        /\ row = [j \in Job |-> IF j = 1 THEN [NewRow(BackupPeriod, b) EXCEPT !.env = Kind] ELSE NoRow]
        /\ flag = b
  BY DEF Init
<1>2. now = 0 /\ BackupPeriod \in Period /\ Upcoming(BackupPeriod, now) \in Nat
  BY UpcomingTyped, CronConstantsOK DEF Init
<1>3. [NewRow(BackupPeriod, b) EXCEPT !.env = Kind] \in CronRow /\ NoRow \in CronRow
  BY <1>2 DEF NewRow, CronRow, NoRow, NoTime
<1>4. row \in [Job -> CronRow]
  BY <1>1, <1>3
<1>5. TypeOK
  BY <1>1, <1>2, <1>4, IdleTyped, CronConstantsOK DEF Init, TypeOK
<1>6. \A j \in Job : There(j) \/ row[j].env = {}
  BY <1>1 DEF There, NewRow, NoRow
<1>7. QED
  BY <1>5, <1>6 DEF Init, InHandOnly, Idle, Waiting

\* A request begins, goes on or ends.
LEMMA RequestTyped ==
    ASSUME TypeOK, InHandOnly, NEW r \in Request,
           \/ \E l \in {"clear", "put", "insert", "delete"} : Goto(r, l)
           \/ End(r)
           \/ \E s \in RequestState : /\ req' = [req EXCEPT ![r] = s]
                                      /\ s.at = "update" => s.st \in {"active", "paused"}
           \/ UNCHANGED req
    PROVE  /\ req' \in [Request -> RequestState]
           /\ \A q \in Request : req'[q].at = "update" => req'[q].st \in {"active", "paused"}
<1>1. /\ req \in [Request -> RequestState]
      /\ \A q \in Request : req[q].at = "update" => req[q].st \in {"active", "paused"}
  BY DEF TypeOK, InHandOnly
<1>2. ASSUME NEW l \in {"clear", "put", "insert", "delete"}, Goto(r, l)
      PROVE  /\ req' \in [Request -> RequestState]
             /\ \A q \in Request : req'[q].at = "update" => req'[q].st \in {"active", "paused"}
  <2>1. [req[r] EXCEPT !.at = l] \in RequestState /\ [req[r] EXCEPT !.at = l].at # "update"
    BY <1>1 DEF RequestState
  <2>2. QED
    BY <1>1, <1>2, <2>1 DEF Goto
<1>3. CASE End(r)
  <2>1. Idle.at # "update"
    BY DEF Idle
  <2>2. QED
    BY <1>1, <1>3, <2>1, IdleTyped DEF End
<1>4. QED
  BY <1>1, <1>2, <1>3

\* What a step does to the rows: one row is written with the variables it had or fewer,
\* or new ones if it is there.
LEMMA RowTyped ==
    ASSUME TypeOK, InHandOnly, NEW j, NEW s \in CronRow,
           s.st \in {"active", "paused"} \/ s.env = {},
           row' = [row EXCEPT ![j] = s]
    PROVE  /\ row' \in [Job -> CronRow]
           /\ \A i \in Job : row'[i].st \in {"active", "paused"} \/ row'[i].env = {}
BY DEF TypeOK, InHandOnly, There

-----------------------------------------------------------------------------
\* A scheduler that is in the middle of its list, and one that begins or ends it.
LEMMA LoopTyped ==
    ASSUME TypeOK, InHandOnly, NEW p \in Process,
           \/ \E s \in LoopState : /\ loop' = [loop EXCEPT ![p] = s]
                                   /\ s.at = "spawn" => s.cur \in Job
           \/ \E d \in loop[p].todo : InHand(p, d)
           \/ UNCHANGED loop
    PROVE  /\ loop' \in [Process -> LoopState]
           /\ \A q \in Process : loop'[q].at = "spawn" => loop'[q].cur \in Job
<1>1. /\ loop \in [Process -> LoopState]
      /\ \A q \in Process : loop[q].at = "spawn" => loop[q].cur \in Job
  BY DEF TypeOK, InHandOnly
<1>2. ASSUME NEW d \in loop[p].todo, InHand(p, d)
      PROVE  /\ loop' \in [Process -> LoopState]
             /\ \A q \in Process : loop'[q].at = "spawn" => loop'[q].cur \in Job
  <2>1. d \in Occurrence /\ loop[p].todo \ {d} \in SUBSET Occurrence
    BY <1>1 DEF LoopState
  <2>2. d.j \in Job /\ d.occ \in Nat
    BY <2>1 DEF Occurrence
  <2>3. loop' = [loop EXCEPT ![p] = [at |-> "spawn", todo |-> loop[p].todo \ {d},
                                     cur |-> d.j, occ |-> d.occ]]
    BY <1>2 DEF InHand
  <2>4. [at |-> "spawn", todo |-> loop[p].todo \ {d}, cur |-> d.j, occ |-> d.occ] \in LoopState
    BY <2>1, <2>2 DEF LoopState
  <2>5. QED
    BY <1>1, <2>2, <2>3, <2>4
<1>3. QED
  BY <1>1, <1>2

LEMMA StepTypes ==
    ASSUME TypeOK, InHandOnly, Next
    PROVE  TypeOK' /\ InHandOnly'
<1> DEFINE Rows == /\ row' \in [Job -> CronRow]
                   /\ \A i \in Job : row'[i].st \in {"active", "paused"} \/ row'[i].env = {}
           Requests == /\ req' \in [Request -> RequestState]
                       /\ \A q \in Request :
                            req'[q].at = "update" => req'[q].st \in {"active", "paused"}
           Loops == /\ loop' \in [Process -> LoopState]
                    /\ \A q \in Process : loop'[q].at = "spawn" => loop'[q].cur \in Job
           Counted == events' \in 0..MaxEvents
           Goal == TypeOK' /\ InHandOnly'
<1>0. /\ now \in 0..MaxTime /\ flag \in BOOLEAN /\ leads \subseteq Process
      /\ events \in 0..MaxEvents /\ exec \in [Exec -> RunState]
      /\ row \in [Job -> CronRow] /\ req \in [Request -> RequestState]
      /\ loop \in [Process -> LoopState]
      /\ logs \in [Job -> Nat] /\ fired \subseteq Job \X Nat
  BY DEF TypeOK
<1>a. /\ UNCHANGED row => Rows
      /\ UNCHANGED req => Requests
      /\ UNCHANGED loop => Loops
  BY <1>0 DEF InHandOnly, There
<1>b. ASSUME Rows, Requests, Loops, Counted, flag' \in BOOLEAN,
             UNCHANGED <<now, leads, exec, logs, fired>>
      PROVE  Goal
  BY <1>0, <1>b DEF TypeOK, InHandOnly, There
<1>c. ASSUME UNCHANGED <<flag, row, req, loop>>, Counted, now' \in 0..MaxTime,
             leads' \subseteq Process, exec' \in [Exec -> RunState], logs' \in [Job -> Nat], UNCHANGED fired
      PROVE  Goal
  BY <1>0, <1>a, <1>c DEF TypeOK, InHandOnly, There
<1> HIDE DEF Goal
<1>1. ASSUME NEW r \in Request, NEW j \in Job, NEW p \in Period, NEW g \in SUBSET Kind,
             Create(r, j, p, g)
      PROVE  Goal
  <2>1. [Idle EXCEPT !.at = "clear", !.j = j, !.fields = g, !.give = g] \in RequestState
    BY IdleTyped DEF RequestState
  <2>2. [Idle EXCEPT !.at = "clear", !.j = j, !.fields = g, !.give = g].at = "clear"
    BY DEF Idle
  <2>3. Requests
    BY <1>1, <2>1, <2>2, RequestTyped DEF Create, Begin
  <2>4. NewRow(p, FALSE) \in CronRow /\ NewRow(p, FALSE).st = "active"
    BY NewRowTyped DEF NewRow
  <2>5. Rows
    BY <1>1, <2>4, RowTyped DEF Create
  <2>6. Counted
    BY <1>1, EventTyped DEF Create, Begin
  <2>7. QED
    BY <1>0, <1>1, <2>1, <2>2, <2>3, <2>4, <2>5, <2>6, <1>a, <1>b DEF Create, scheduler,
       table, ghosts
<1>2. ASSUME NEW r \in Request, NEW j \in Job, NEW st \in {"active", "paused"},
             NEW p \in Period, NEW f \in SUBSET Kind, NEW g \in SUBSET Kind,
             ReadForUpdate(r, j, st, p, f, g)
      PROVE  Goal
  <2>1. NextRun(st, p) \in Nat /\ row[j].backup \in BOOLEAN
    BY <1>0, PeriodTyped DEF NextRun, NoTime, CronRow
  <2>2. [Idle EXCEPT !.at = "update", !.j = j, !.st = st, !.period = p, !.next = NextRun(st, p),
                     !.fields = f, !.give = g, !.backup = row[j].backup] \in RequestState
    BY <2>1, IdleTyped DEF RequestState
  <2>3. [Idle EXCEPT !.at = "update", !.j = j, !.st = st, !.period = p, !.next = NextRun(st, p),
                     !.fields = f, !.give = g, !.backup = row[j].backup].st = st
    BY DEF Idle
  <2>4. Requests
    BY <1>2, <2>2, <2>3, RequestTyped DEF ReadForUpdate, Begin
  <2>5. Counted
    BY <1>2, EventTyped DEF ReadForUpdate, Begin
  <2>6. QED
    BY <1>0, <1>2, <2>1, <2>2, <2>3, <2>4, <2>5, <1>a, <1>b DEF ReadForUpdate, scheduler,
       table, ghosts
<1>3. ASSUME NEW r \in Request, WriteRow(r)
      PROVE  Goal
  <2>1. req[r].j \in Job => row[req[r].j] \in CronRow
    BY <1>0
  <2>2. req[r].period \in Period /\ req[r].next \in Nat /\ req[r].st \in {"active", "paused"}
    BY <1>3, <1>0 DEF WriteRow, InHandOnly, RequestState
  <2>3. req[r].j \in Job => [[[row[req[r].j] EXCEPT !.st = req[r].st] EXCEPT !.period = req[r].period]
                            EXCEPT !.next = req[r].next] \in CronRow
    BY <2>1, <2>2 DEF CronRow
  <2>4. req[r].j \in Job => [[[row[req[r].j] EXCEPT !.st = req[r].st] EXCEPT !.period = req[r].period]
                            EXCEPT !.next = req[r].next].st = req[r].st
    BY <2>1 DEF CronRow
  <2>5. \/ UNCHANGED row
        \/ row' = [row EXCEPT ![req[r].j].st = req[r].st, ![req[r].j].period = req[r].period,
                              ![req[r].j].next = req[r].next]
    BY <1>3 DEF WriteRow
  <2>6. req[r].j \notin Job /\ ~UNCHANGED row => \A i \in Job : row'[i] = row[i]
    BY <1>0, <2>5
  <2>7. row' \in [Job -> CronRow]
    BY <1>0, <2>3, <2>5
  <2>8. Rows
    BY <1>0, <1>a, <2>2, <2>4, <2>5, <2>6, <2>7 DEF InHandOnly, There
  <2>9. Requests
    BY <1>3, RequestTyped DEF WriteRow
  <2>10. QED
    BY <1>0, <1>3, <2>1, <2>2, <2>3, <2>4, <2>5, <2>6, <2>7, <2>8, <2>9, <1>a, <1>b DEF
       WriteRow, scheduler, table, ghosts
<1>4. ASSUME NEW r \in Request, Clear(r)
      PROVE  Goal
  <2>1. \A j \in Job : \A S : [row[j] EXCEPT !.env = @ \ S] \in CronRow
    BY <1>0 DEF CronRow
  <2>2. Rows
    BY <1>4, <1>0, <1>a, <2>1 DEF Clear, InHandOnly, There, CronRow
  <2>3. Requests
    BY <1>4, RequestTyped DEF Clear
  <2>4. QED
    BY <1>0, <1>4, <2>1, <2>2, <2>3, <1>a, <1>b DEF Clear, scheduler, table, ghosts
<1>5. ASSUME NEW r \in Request, Put(r)
      PROVE  Goal
  <2>1. First(req[r].fields) \in Kind
    BY DEF First, Kind
  <2>2. Rows
    BY <1>5, <1>0, <1>a, <2>1 DEF Put, InHandOnly, There, CronRow
  <2>3. [[req[r] EXCEPT !.at = "clear"] EXCEPT !.fields = req[r].fields \ {First(req[r].fields)}] \in RequestState
    BY <1>0 DEF RequestState
  <2>4. [[req[r] EXCEPT !.at = "clear"] EXCEPT !.fields = req[r].fields \ {First(req[r].fields)}].at = "clear"
    BY <1>0 DEF RequestState
  <2>5. End(r) => Requests
    BY RequestTyped
  <2>6. \/ End(r)
        \/ req' = [req EXCEPT ![r].at = "clear",
                              ![r].fields = req[r].fields \ {First(req[r].fields)}]
    BY <1>5 DEF Put
  <2>7. Requests
    BY <1>0, <2>3, <2>4, <2>5, <2>6 DEF InHandOnly
  <2>8. QED
    BY <1>0, <1>5, <2>1, <2>2, <2>3, <2>4, <2>5, <2>6, <2>7, <1>a, <1>b DEF Put,
       scheduler, table, ghosts
<1>6. ASSUME NEW r \in Request, Answer(r)
      PROVE  Goal
  <2>1. Requests
    BY <1>6, RequestTyped DEF Answer
  <2>2. QED
    BY <1>0, <1>6, <2>1, <1>a, <1>b DEF Answer, scheduler, table, ghosts
<1>7. ASSUME NEW r \in Request, NEW j \in Job, ReadForDelete(r, j)
      PROVE  Goal
  <2>1. \E l \in {"unflag", "delete"} : req' = [req EXCEPT ![r] =
            [Idle EXCEPT !.at = l, !.j = j, !.backup = row[j].backup]]
    BY <1>7 DEF ReadForDelete, Begin
  <2>2. \A l \in {"unflag", "delete"} :
            /\ [Idle EXCEPT !.at = l, !.j = j, !.backup = row[j].backup] \in RequestState
            /\ [Idle EXCEPT !.at = l, !.j = j, !.backup = row[j].backup].at # "update"
    BY <1>0, IdleTyped DEF RequestState, CronRow
  <2>3. Requests
    BY <2>1, <2>2, RequestTyped
  <2>4. Counted
    BY <1>7, EventTyped DEF ReadForDelete, Begin
  <2>5. QED
    BY <1>0, <1>7, <2>1, <2>2, <2>3, <2>4, <1>a, <1>b DEF ReadForDelete, scheduler, table,
       ghosts
<1>8. ASSUME NEW r \in Request, Unflag(r)
      PROVE  Goal
  <2>1. Requests
    BY <1>8, RequestTyped DEF Unflag
  <2>2. QED
    BY <1>0, <1>8, <2>1, <1>a, <1>b DEF Unflag, scheduler, table, ghosts
<1>9. ASSUME NEW r \in Request, DeleteRow(r)
      PROVE  Goal
  <2>1. \A j \in Job : Delete(j) \in CronRow /\ Delete(j).env = {}
    BY <1>0 DEF Delete, CronRow, NoTime
  <2>2. row' = [row EXCEPT ![req[r].j] = Delete(req[r].j)]
    BY <1>9 DEF DeleteRow
  <2>3. Rows
    BY <1>0, <2>1, <2>2 DEF InHandOnly, There
  <2>4. Requests
    BY <1>9, RequestTyped DEF DeleteRow
  <2>5. QED
    BY <1>0, <1>9, <2>1, <2>2, <2>3, <2>4, <1>a, <1>b DEF DeleteRow, scheduler, table,
       ghosts
<1>10. ASSUME NEW r \in Request, NEW on \in BOOLEAN, Set(r, on)
      PROVE  Goal
  <2>1. \E l \in {"ensure", "remove"} : req' = [req EXCEPT ![r] = [Idle EXCEPT !.at = l, !.backup = TRUE]]
    BY <1>10 DEF Set, Begin
  <2>2. \A l \in {"ensure", "remove"} :
            /\ [Idle EXCEPT !.at = l, !.backup = TRUE] \in RequestState
            /\ [Idle EXCEPT !.at = l, !.backup = TRUE].at # "update"
    BY IdleTyped DEF RequestState
  <2>3. Requests
    BY <2>1, <2>2, RequestTyped
  <2>4. Counted
    BY <1>10, EventTyped DEF Set, Begin
  <2>5. flag' \in BOOLEAN
    BY <1>10 DEF Set
  <2>6. QED
    BY <1>0, <1>10, <2>1, <2>2, <2>3, <2>4, <2>5, <1>a, <1>b DEF Set, scheduler, table,
       ghosts
<1>11. ASSUME NEW r \in Request, Boot(r)
      PROVE  Goal
  <2>1. [Idle EXCEPT !.at = "ensure", !.st = "boot", !.backup = TRUE] \in RequestState
    BY IdleTyped DEF RequestState
  <2>2. [Idle EXCEPT !.at = "ensure", !.st = "boot", !.backup = TRUE].at # "update"
    BY DEF Idle
  <2>3. Requests
    BY <1>11, <2>1, <2>2, RequestTyped DEF Boot, Begin
  <2>4. Counted
    BY <1>11, EventTyped DEF Boot, Begin
  <2>5. QED
    BY <1>0, <1>11, <2>1, <2>2, <2>3, <2>4, <1>a, <1>b DEF Boot, scheduler, table, ghosts
<1>12. ASSUME NEW r \in Request, Ensure(r)
      PROVE  Goal
  <2>1. Requests
    BY <1>12, RequestTyped DEF Ensure
  <2>2. QED
    BY <1>0, <1>12, <2>1, <1>a, <1>b DEF Ensure, scheduler, table, ghosts
<1>13. ASSUME NEW r \in Request, InsertBackup(r)
      PROVE  Goal
  <2>1. NewRow(BackupPeriod, TRUE) \in CronRow /\ NewRow(BackupPeriod, TRUE).st = "active"
    BY NewRowTyped, CronConstantsOK DEF NewRow
  <2>2. Rows
    BY <1>13, <2>1, RowTyped DEF InsertBackup
  <2>3. Requests
    BY <1>13, RequestTyped DEF InsertBackup
  <2>4. QED
    BY <1>0, <1>13, <2>1, <2>2, <2>3, <1>a, <1>b DEF InsertBackup, scheduler, table, ghosts
<1>14. ASSUME NEW r \in Request, RemoveBackup(r)
      PROVE  Goal
  <2>1. \A j \in Job : Delete(j) \in CronRow /\ Delete(j).env = {}
    BY <1>0 DEF Delete, CronRow, NoTime
  <2>2. Rows
    BY <1>14, <1>0, <2>1 DEF RemoveBackup, InHandOnly, There
  <2>3. Requests
    BY <1>14, RequestTyped DEF RemoveBackup
  <2>4. QED
    BY <1>0, <1>14, <2>1, <2>2, <2>3, <1>a, <1>b DEF RemoveBackup, scheduler, table, ghosts
<1>15. ASSUME NEW r \in Request, Ignored(r)
      PROVE  Goal
  <2>1. Requests
    BY <1>15, RequestTyped DEF Ignored
  <2>2. Counted
    BY <1>15, EventTyped DEF Ignored
  <2>3. QED
    BY <1>0, <1>15, <2>1, <2>2, <1>a, <1>b DEF Ignored, scheduler, table, ghosts
<1>16. ASSUME NEW r \in Request, Abandon(r)
      PROVE  Goal
  <2>1. Requests
    BY <1>16, RequestTyped DEF Abandon
  <2>2. Counted
    BY <1>16, EventTyped DEF Abandon
  <2>3. QED
    BY <1>0, <1>16, <2>1, <2>2, <1>a, <1>b DEF Abandon, scheduler, table, ghosts
<1>17. ASSUME NEW p \in Process, TakeLead(p) \/ LoseLead(p)
      PROVE  Goal
  <2>1. Counted
    BY <1>17, EventTyped DEF TakeLead, LoseLead
  <2>2. QED
    BY <1>0, <1>17, <2>1, <1>c DEF TakeLead, LoseLead, scheduler, table, ghosts
<1>18. ASSUME NEW p \in Process, Select(p)
      PROVE  Goal
  <2>1. PICK S : /\ S \subseteq Job
               /\ loop' = [loop EXCEPT ![p] = [Waiting EXCEPT !.at = "advance",
                    !.todo = {[j |-> j, occ |-> row[j].next, period |-> row[j].period] : j \in S}]]
    BY <1>18 DEF Select
  <2>2. {[j |-> j, occ |-> row[j].next, period |-> row[j].period] : j \in S} \in SUBSET Occurrence
    BY <1>0, <2>1 DEF Occurrence, CronRow
  <2>3. [Waiting EXCEPT !.at = "advance",
            !.todo = {[j |-> j, occ |-> row[j].next, period |-> row[j].period] : j \in S}] \in LoopState
    BY <2>2, IdleTyped DEF LoopState
  <2>4. [Waiting EXCEPT !.at = "advance",
            !.todo = {[j |-> j, occ |-> row[j].next, period |-> row[j].period] : j \in S}].at = "advance"
    BY DEF Waiting
  <2>5. Loops
    BY <2>1, <2>3, <2>4, LoopTyped
  <2>6. QED
    BY <1>0, <1>18, <2>1, <2>2, <2>3, <2>4, <2>5, <1>a, <1>b DEF Select, scheduler, table,
       ghosts
<1>19. ASSUME NEW p \in Process, Advance(p)
      PROVE  Goal
  <2>1. PICK d \in loop[p].todo : InHand(p, d) /\ row' = Advanced(d)
    BY <1>19 DEF Advance
  <2>2. d \in Occurrence
    BY <1>0, <2>1 DEF LoopState
  <2>3. d.j \in Job /\ Upcoming(d.period, now) \in Nat
    BY <2>2, PeriodTyped DEF Occurrence
  <2>4. \A t \in Nat : [row[d.j] EXCEPT !.next = t] \in CronRow
    BY <1>0, <2>3 DEF CronRow
  <2>5. Rows
    BY <1>0, <2>1, <2>3, <2>4 DEF Advanced, InHandOnly, There, CronRow
  <2>6. Loops
    BY <2>1, LoopTyped
  <2>7. QED
    BY <1>0, <1>19, <2>1, <2>2, <2>3, <2>4, <2>5, <2>6, <1>a, <1>b DEF Advance, scheduler,
       table, ghosts
<1>20. ASSUME NEW p \in Process, AdvanceFails(p)
      PROVE  Goal
  <2>1. Loops
    BY <1>20, LoopTyped DEF AdvanceFails
  <2>2. Counted
    BY <1>20, EventTyped DEF AdvanceFails
  <2>3. QED
    BY <1>0, <1>20, <2>1, <2>2, <1>a, <1>b DEF AdvanceFails, scheduler, table, ghosts
<1>21. ASSUME NEW p \in Process, Spawn(p)
      PROVE  Goal
  <2>1. loop[p] \in LoopState /\ loop[p].cur \in Job
    BY <1>21, <1>0 DEF Spawn, InHandOnly
  <2>2. \E l \in {"wait", "advance"} : loop' = [loop EXCEPT ![p].at = l, ![p].cur = 0, ![p].occ = NoTime]
    BY <1>21 DEF Spawn
  <2>3. \A l \in {"wait", "advance"} :
            /\ [[[loop[p] EXCEPT !.at = l] EXCEPT !.cur = 0] EXCEPT !.occ = NoTime] \in LoopState
            /\ [[[loop[p] EXCEPT !.at = l] EXCEPT !.cur = 0] EXCEPT !.occ = NoTime].at # "spawn"
    BY <2>1 DEF LoopState, NoTime
  <2>4. Loops
    BY <1>0, <2>2, <2>3 DEF InHandOnly
  <2>5. <<loop[p].cur, loop[p].occ>> \in Job \X Nat
    BY <2>1 DEF LoopState
  <2>6. fired' \subseteq Job \X Nat
    BY <1>21, <1>0, <2>5 DEF Spawn
  <2>7. [at |-> "dispatch", by |-> {p}, j |-> loop[p].cur] \in RunState
    BY <2>1 DEF RunState
  <2>8. exec' \in [Exec -> RunState]
    BY <1>21, <1>0, <2>7 DEF Spawn
  <2>9. QED
    BY <1>0, <1>21, <2>1, <2>2, <2>3, <2>4, <2>5, <2>6, <2>7, <2>8, <1>a DEF Spawn,
       TypeOK, InHandOnly, There, table, Goal
<1>22. ASSUME NEW e \in Exec, Dispatch(e) \/ Prepare(e) \/ Work(e)
      PROVE  Goal
  <2>1. \A l \in {"prepare", "work", "log"} : [exec[e] EXCEPT !.at = l] \in RunState
    BY <1>0 DEF RunState
  <2>2. \E l \in {"prepare", "work", "log"}, m \in {"dispatch", "prepare", "work"} : Move(e, m, l)
    BY <1>22 DEF Dispatch, Prepare, Work
  <2>3. QED
    BY <1>0, <1>22, <2>1, <2>2, <1>c DEF Move, table, ghosts
<1>23. ASSUME NEW e \in Exec, Log(e)
      PROVE  Goal
  <2>1. \/ UNCHANGED logs
        \/ logs' = [logs EXCEPT ![exec[e].j] = @ + 1]
    BY <1>23 DEF Log
  <2>2. \A j \in Job : logs[j] + 1 \in Nat
    BY <1>0
  <2>3. logs' \in [Job -> Nat]
    BY <1>0, <2>1, <2>2
  <2>4. exec' \in [Exec -> RunState]
    BY <1>23, <1>0, IdleTyped DEF Log
  <2>5. QED
    BY <1>0, <1>23, <2>1, <2>2, <2>3, <2>4, <1>c DEF Log, scheduler, table, ghosts
<1>24. ASSUME NEW p \in Process, Crash(p)
      PROVE  Goal
  <2>1. Waiting.at = "wait"
    BY DEF Waiting
  <2>2. Loops
    BY <1>24, <2>1, IdleTyped, LoopTyped DEF Crash
  <2>3. Counted
    BY <1>24, EventTyped DEF Crash
  <2>4. exec' \in [Exec -> RunState]
    BY <1>24, <1>0, IdleTyped DEF Crash
  <2>5. leads' \subseteq Process
    BY <1>24, <1>0 DEF Crash
  <2>6. QED
    BY <1>0, <1>24, <2>1, <2>2, <2>3, <2>4, <2>5, <1>a DEF Crash, TypeOK, InHandOnly,
       There, table, Goal
<1>25. ASSUME Tick
      PROVE  Goal
  <2>1. now' \in 0..MaxTime
    BY <1>25, <1>0, CronConstantsOK DEF Tick
  <2>2. QED
    BY <1>0, <1>25, <2>1, <1>c DEF Tick, scheduler, table, ghosts
<1>26. ASSUME NEW r \in Request, Asking(r)
      PROVE  Goal
  <2>1. \A j \in Job : There(j) => row[j].st \in {"active", "paused"} /\ row[j].period \in Period
    BY <1>0 DEF There, CronRow
  <2>2. {} \in SUBSET Kind /\ Kind \in SUBSET Kind /\ {"var"} \in SUBSET Kind
    BY DEF Kind
  <2>3. ASSUME NEW j \in Job, NEW st, NEW p, NEW f, NEW g, ReadForUpdate(r, j, st, p, f, g)
        PROVE  There(j)
    BY <2>3 DEF ReadForUpdate
  <2>4. QED
    BY <1>26, <1>1, <1>2, <1>7, <1>10, <1>11, <2>1, <2>2, <2>3 DEF Asking
<1>27. QED
  BY <1>1, <1>2, <1>3, <1>4, <1>5, <1>6, <1>7, <1>8, <1>9, <1>10, <1>11, <1>12, <1>13,
     <1>14, <1>15, <1>16, <1>17, <1>18, <1>19, <1>20, <1>21, <1>22, <1>23, <1>24, <1>25,
     <1>26 DEF Next, Working, Goal
LEMMA TypeNext == TypeOK /\ InHandOnly /\ [Next]_vars => TypeOK' /\ InHandOnly'
<1>1. TypeOK /\ InHandOnly /\ UNCHANGED vars => TypeOK' /\ InHandOnly'
  BY DEF TypeOK, InHandOnly, There, vars, table, scheduler, ghosts
<1>2. QED
  BY <1>1, StepTypes

\* Whatever the jobs, requests, processes and bounds: every variable of the table, of
\* the requests and of the schedulers keeps its type, and a deleted job keeps neither
\* variables nor links.
THEOREM TypeCorrect == Spec => [](TypeOK /\ InHandOnly)
BY TypeInit, TypeNext, PTL DEF Spec

-----------------------------------------------------------------------------
(***************************************************************************)
(* No occurrence is lost                                                   *)
(***************************************************************************)

\* The occurrence of job j whose time has come is moved only into a scheduler's hands
MovedInHand ==
    \A j \in Job :
        Due(j) /\ row'[j].st = "active" /\ row'[j].next # row[j].next =>
            \/ \E p \in Process : loop'[p].cur = j /\ loop'[p].occ = row[j].next
            \/ <<j, row[j].next>> \in fired
            \/ mishaps' \cap {"skipped", "stale"} # {}

\* A scheduler lets go of it only as a run
LetGoAsRun ==
    \A p \in Process :
        loop[p].at = "spawn" /\ loop'[p] # loop[p] =>
            <<loop[p].cur, loop[p].occ>> \in fired' \/ "crash" \in mishaps'

LEMMA RequestsLoseNothing ==
    ASSUME TypeOK, NEW r \in Request, Asking(r) \/ Working(r) \/ Ignored(r) \/ Abandon(r)
    PROVE  MovedInHand /\ LetGoAsRun
<1> USE DEF TypeOK, MovedInHand, LetGoAsRun
<1>1. UNCHANGED loop
  BY DEF Asking, Working, Ignored, Abandon, Create, ReadForUpdate, ReadForDelete, Set, Boot,
         WriteRow, Clear, Put, Answer, Unflag, DeleteRow, Ensure, InsertBackup, RemoveBackup,
         scheduler
<1>2. ASSUME WriteRow(r)
      PROVE  MovedInHand
  <2>1. \/ UNCHANGED row
        \/ row' = [row EXCEPT ![req[r].j].st = req[r].st, ![req[r].j].period = req[r].period,
                              ![req[r].j].next = req[r].next]
    BY <1>2 DEF WriteRow
  <2>2. \A j \in Job : row'[j].next = row[j].next \/ (j = req[r].j /\ row'[j].next = req[r].next)
    BY <2>1 DEF CronRow
  <2>3. Due(req[r].j) /\ req[r].next # row[req[r].j].next => "skipped" \in mishaps'
    BY <1>2 DEF WriteRow, Mishap, Named
  <2>4. QED
    BY <2>2, <2>3
<1>3. ASSUME Clear(r) \/ Put(r)
      PROVE  \A j \in Job : row'[j].next = row[j].next
  <2>1. CASE Clear(r)
    BY <2>1 DEF Clear, CronRow
  <2>2. CASE Put(r)
    BY <2>2 DEF Put, CronRow
  <2>3. QED
    BY <1>3, <2>1, <2>2
<1>4. ASSUME DeleteRow(r) \/ RemoveBackup(r)
      PROVE  \A j \in Job : row'[j] = row[j] \/ row'[j].st = "gone"
  BY <1>4 DEF DeleteRow, RemoveBackup, Delete, CronRow
<1>5. ASSUME \/ \E j \in Job, p \in Period, g \in {{}, Kind} : Create(r, j, p, g)
             \/ InsertBackup(r)
      PROVE  \A j \in Job : row'[j] = row[j] \/ row[j].st = "none"
  BY <1>5 DEF Create, InsertBackup, Unused
<1>6. ASSUME \/ Answer(r) \/ Unflag(r) \/ Ensure(r) \/ Ignored(r) \/ Abandon(r) \/ Boot(r)
             \/ \E on \in BOOLEAN : Set(r, on)
             \/ \E j \in Job : \/ ReadForDelete(r, j)
                               \/ \E st, p, f, g : ReadForUpdate(r, j, st, p, f, g)
      PROVE  UNCHANGED row
  BY <1>6 DEF Answer, Unflag, Ensure, Ignored, Abandon, Boot, Set, ReadForDelete,
              ReadForUpdate, table
<1>7. QED
  BY <1>1, <1>2, <1>3, <1>4, <1>5, <1>6 DEF Asking, Working, Due

LEMMA SchedulersLoseNothing ==
    ASSUME TypeOK, NEW p \in Process,
           \/ TakeLead(p) \/ LoseLead(p) \/ Select(p) \/ Advance(p) \/ AdvanceFails(p)
           \/ Spawn(p) \/ Crash(p)
    PROVE  MovedInHand /\ LetGoAsRun
<1> USE DEF TypeOK
<1>1. CASE Advance(p)
  <2>1. PICK d \in loop[p].todo : /\ InHand(p, d) /\ row' = Advanced(d)
                                  /\ row[d.j].next # d.occ => "stale" \in mishaps'
    BY <1>1 DEF Advance, Mishap, Named
  <2>2. loop[p].at = "advance"
    BY <1>1 DEF Advance
  <2>3. \A j \in Job : row'[j].next = row[j].next \/ j = d.j
    BY <2>1 DEF Advanced
  <2>4. loop'[p].cur = d.j /\ loop'[p].occ = d.occ /\ \A q \in Process \ {p} : loop'[q] = loop[q]
    BY <2>1 DEF InHand
  <2>5. QED
    BY <2>1, <2>2, <2>3, <2>4 DEF MovedInHand, LetGoAsRun
<1>2. CASE Spawn(p)
  BY <1>2 DEF Spawn, table, MovedInHand, LetGoAsRun
<1>3. CASE Crash(p)
  BY <1>3 DEF Crash, table, Mishap, Named, MovedInHand, LetGoAsRun
<1>4. CASE TakeLead(p) \/ LoseLead(p)
  BY <1>4 DEF TakeLead, LoseLead, table, MovedInHand, LetGoAsRun
<1>5. CASE Select(p) \/ AdvanceFails(p)
  BY <1>5 DEF Select, AdvanceFails, InHand, table, MovedInHand, LetGoAsRun
<1>6. QED
  BY <1>1, <1>2, <1>3, <1>4, <1>5

LEMMA NothingLostStep ==
    ASSUME TypeOK, Next
    PROVE  MovedInHand /\ LetGoAsRun
<1>1. ASSUME NEW e \in Exec, Dispatch(e) \/ Prepare(e) \/ Work(e) \/ Log(e)
      PROVE  UNCHANGED <<row, loop>>
  BY <1>1 DEF Dispatch, Prepare, Work, Log, Move, table
<1>2. ASSUME Tick
      PROVE  UNCHANGED <<row, loop>>
  BY <1>2 DEF Tick, table, scheduler
<1>3. UNCHANGED <<row, loop>> => MovedInHand /\ LetGoAsRun
  BY DEF MovedInHand, LetGoAsRun
<1>4. QED
  BY <1>1, <1>2, <1>3, RequestsLoseNothing, SchedulersLoseNothing DEF Next

\* Whatever the jobs, requests and processes, and however often the leader changes: an
\* occurrence whose time has come leaves the row of an active job only into the hands of
\* a scheduler, and those hands only as a run, but for the mishaps that NothingLost names.
THEOREM NothingLostAlways == Spec => NothingLost
<1>1. TypeOK /\ [Next]_vars => [MovedInHand /\ LetGoAsRun]_vars
  BY NothingLostStep
<1>2. QED
  BY <1>1, TypeCorrect, PTL DEF NothingLost, MovedInHand, LetGoAsRun, Spec

-----------------------------------------------------------------------------
(***************************************************************************)
(* Every occurrence that is started runs once.  An occurrence that is in   *)
(* the hands of a scheduler is in those of one, and has not been started;  *)
(* the next occurrence of an active row is later than all that were        *)
(* started or are about to be.                                             *)
(***************************************************************************)

Sound == ~Except({"leaders", "failed", "late", "died"})
Fired(j) == {f \in fired : f[1] = j}
Runs(j) == {e \in Exec : exec[e].j = j}
Spawning(p, j, occ) == loop[p].at = "spawn" /\ loop[p].cur = j /\ loop[p].occ = occ

Past ==
    /\ \A p \in Process : \A d \in loop[p].todo : d.occ <= now
    /\ \A p \in Process : loop[p].at = "spawn" => loop[p].occ <= now
    /\ \A f \in fired : f[2] <= now
Ahead == \A j \in Job : row[j].st = "active" =>
    /\ \A f \in Fired(j) : f[2] < row[j].next
    /\ \A p \in Process : loop[p].at = "spawn" /\ loop[p].cur = j => loop[p].occ < row[j].next
OneHand ==
    /\ \A p, q \in Process : \A c \in loop[p].todo, d \in loop[q].todo :
        c.j = d.j => p = q /\ c = d
    /\ \A p, q \in Process : \A d \in loop[p].todo : ~Spawning(q, d.j, d.occ)
    /\ \A p, q \in Process :
        loop[p].at = "spawn" /\ Spawning(q, loop[p].cur, loop[p].occ) => p = q
NotStarted ==
    /\ \A p \in Process : \A d \in loop[p].todo : <<d.j, d.occ>> \notin fired
    /\ \A p \in Process : loop[p].at = "spawn" => <<loop[p].cur, loop[p].occ>> \notin fired
Fresh == \A j \in Job : row[j].st = "none" =>
    /\ logs[j] = 0 /\ Runs(j) = {} /\ Fired(j) = {}
    /\ \A p \in Process : loop[p].cur # j /\ \A d \in loop[p].todo : d.j # j
Finite == IsFiniteSet(fired) /\ IsFiniteSet({e \in Exec : exec[e].j # 0})
Counted ==
    /\ \A e \in Exec : exec[e].at = "idle" <=> exec[e].j = 0
    /\ \A j \in Job : There(j) => logs[j] + Cardinality(Runs(j)) = Cardinality(Fired(j))

Once == Sound => Past /\ Ahead /\ OneHand /\ NotStarted /\ Fresh /\ Finite /\ Counted

LEMMA UpcomingLater ==
    ASSUME NEW p \in Nat \ {0}, NEW t \in Nat
    PROVE  t < Upcoming(p, t)
BY DEF Upcoming

LEMMA PeriodLater ==
    ASSUME TypeOK, NEW p \in Period
    PROVE  now < Upcoming(p, now)
BY UpcomingLater, CronConstantsOK DEF TypeOK

LEMMA FiniteParts ==
    ASSUME TypeOK, Finite, NEW j \in Job
    PROVE  IsFiniteSet(Runs(j)) /\ IsFiniteSet(Fired(j))
<1>1. Fired(j) \subseteq fired /\ Runs(j) \subseteq {e \in Exec : exec[e].j # 0}
  BY CronConstantsOK DEF Fired, Runs
<1> QED
  BY <1>1, FS_Subset DEF Finite

\* What a step that starts and ends no run may do to a row
RowStays(j) ==
    /\ row'[j].st = "none" => row[j].st = "none"
    /\ There(j)' => There(j) \/ row[j].st = "none"
    /\ row'[j].st = "active" =>
        \/ now < row'[j].next \/ "late" \in mishaps'
        \/ row[j].st = "active" /\ row'[j].next = row[j].next
HandsEmptied == \A p \in Process :
    /\ loop'[p].todo \subseteq loop[p].todo
    /\ loop'[p].at = "spawn" => loop'[p] = loop[p]
    /\ loop'[p].cur \in {0, loop[p].cur}
RunsStay == \A e \in Exec :
    exec'[e].j = exec[e].j /\ (exec'[e].at = "idle" <=> exec[e].at = "idle")

LEMMA OnceSteady ==
    ASSUME TypeOK, TypeOK', InHandOnly, Once, mishaps \subseteq mishaps', now <= now',
           fired' = fired, logs' = logs, HandsEmptied, Sound' => RunsStay,
           \A j \in Job : RowStays(j)
    PROVE  Once'
<1> SUFFICES ASSUME Sound'
             PROVE  /\ Past' /\ Ahead' /\ OneHand' /\ NotStarted' /\ Fresh' /\ Finite'
                    /\ Counted'
  BY DEF Once
<1>1. Sound /\ Past /\ Ahead /\ OneHand /\ NotStarted /\ Fresh /\ Finite /\ Counted
      /\ "late" \notin mishaps' /\ RunsStay
  BY DEF Once, Sound, Except
<1>a. /\ now \in Nat /\ now' \in Nat /\ row' \in [Job -> CronRow] /\ loop \in [Process -> LoopState] /\ fired \subseteq Job \X Nat
      /\ row \in [Job -> CronRow] /\ logs \in [Job -> Nat]
  BY DEF TypeOK
<1>b. \A p \in Process : \A d \in loop[p].todo : d.occ \in Nat /\ d.j \in Job
  BY <1>a DEF LoopState, Occurrence
<1>c. \A p \in Process : loop[p].occ \in Nat
  BY <1>a DEF LoopState
<1>d. \A f \in fired : f[2] \in Nat
  BY <1>a
<1>2. Past'
  BY <1>1, <1>a, <1>b, <1>c, <1>d DEF Past, HandsEmptied
<1>3. Ahead'
  <2> SUFFICES ASSUME NEW j \in Job, row'[j].st = "active"
               PROVE  /\ \A f \in Fired(j) : f[2] < row'[j].next
                      /\ \A p \in Process : loop'[p].at = "spawn" /\ loop'[p].cur = j =>
                            loop[p].occ < row'[j].next /\ loop'[p].occ = loop[p].occ
    BY DEF Ahead, Fired, HandsEmptied
  <2>1. CASE now < row'[j].next
    <3>1. \A f \in Fired(j) : f[2] <= now /\ f[2] \in Nat
      BY <1>1, <1>d DEF Past, Fired
    <3>2. \A x \in Nat : x <= now => x < row'[j].next
      <4>1. row'[j].next \in Nat
        BY <1>a DEF CronRow
      <4> QED
        BY <1>a, <2>1, <4>1
    <3>3. ASSUME NEW p \in Process, loop'[p].at = "spawn"
          PROVE  loop[p].occ <= now /\ loop'[p].occ = loop[p].occ
      BY <1>1, <3>3 DEF Past, HandsEmptied
    <3> QED
      BY <1>c, <3>1, <3>2, <3>3
  <2>2. CASE row[j].st = "active" /\ row'[j].next = row[j].next
    BY <1>1, <2>2 DEF Ahead, HandsEmptied
  <2> QED
    BY <1>1, <2>1, <2>2 DEF RowStays
<1>4. OneHand'
  BY <1>1 DEF OneHand, HandsEmptied, Spawning
<1>5. NotStarted'
  BY <1>1 DEF NotStarted, HandsEmptied
<1>6. \A j \in Job : Runs(j)' = Runs(j) /\ Fired(j)' = Fired(j)
  BY <1>1 DEF Runs, Fired, RunsStay
<1>7. Fresh'
  <2> SUFFICES ASSUME NEW j \in Job, row'[j].st = "none"
               PROVE  /\ logs[j] = 0 /\ Runs(j)' = {} /\ Fired(j)' = {}
                      /\ \A p \in Process : loop'[p].cur # j /\ \A d \in loop'[p].todo : d.j # j
    BY DEF Fresh
  <2>1. row[j].st = "none" /\ j # 0
    BY CronConstantsOK DEF RowStays
  <2> QED
    BY <1>1, <1>6, <2>1 DEF Fresh, HandsEmptied
<1>8. Finite'
  BY <1>1 DEF Finite, RunsStay
<1>9. Counted'
  <2>1. \A e \in Exec : exec'[e].at = "idle" <=> exec'[e].j = 0
    BY <1>1 DEF Counted, RunsStay
  <2>2. ASSUME NEW j \in Job, There(j)'
        PROVE  logs[j] + Cardinality(Runs(j)') = Cardinality(Fired(j)')
    <3>1. CASE There(j)
      BY <1>1, <1>6, <3>1 DEF Counted
    <3>2. CASE row[j].st = "none"
      <4>1. logs[j] = 0 /\ Runs(j)' = {} /\ Fired(j)' = {}
        BY <1>1, <1>6, <3>2 DEF Fresh
      <4>2. Cardinality({}) = 0
        BY FS_EmptySet
      <4> QED
        BY <4>1, <4>2
    <3> QED
      BY <2>2, <3>1, <3>2 DEF RowStays
  <2> QED
    BY <2>1, <2>2 DEF Counted
<1> QED
  BY <1>2, <1>3, <1>4, <1>5, <1>7, <1>8, <1>9

\* Requests start no run: a row that they make or edit has an occurrence yet to come
LEMMA RequestsSteady ==
    ASSUME TypeOK, InHandOnly, NEW r \in Request,
           Asking(r) \/ Working(r) \/ Ignored(r) \/ Abandon(r)
    PROVE  /\ UNCHANGED <<now, scheduler>> /\ mishaps \subseteq mishaps'
           /\ \A j \in Job : RowStays(j)
<1> DEFINE Rows == \A j \in Job : RowStays(j)
           Rest == UNCHANGED <<now, scheduler>> /\ mishaps \subseteq mishaps'
<1>a. row \in [Job -> CronRow]
  BY DEF TypeOK
<1>b. ASSUME UNCHANGED row PROVE Rows
  BY <1>b DEF RowStays, There
<1>c. ASSUME NEW p \in Period, NEW b \in BOOLEAN, NEW j \in Job, row[j].st = "none",
             row' = [row EXCEPT ![j] = NewRow(p, b)]
      PROVE  Rows
  <2>1. NewRow(p, b).st = "active" /\ now < NewRow(p, b).next
    BY PeriodLater DEF NewRow
  <2> QED
    BY <1>a, <1>c, <2>1 DEF RowStays, There
<1>1. ASSUME NEW j \in Job, NEW p \in Period, NEW g \in SUBSET Kind, Create(r, j, p, g)
      PROVE  Rows /\ Rest
  BY <1>1, <1>c DEF Create, Unused, Begin, Mishap
<1>2. ASSUME InsertBackup(r) PROVE Rows /\ Rest
  BY <1>2, <1>c, CronConstantsOK DEF InsertBackup, Unused
<1>3. ASSUME WriteRow(r) PROVE Rows /\ Rest
  <2>1. \/ UNCHANGED row
        \/ /\ There(req[r].j)
           /\ row' = [row EXCEPT ![req[r].j].st = req[r].st, ![req[r].j].period = req[r].period,
                                 ![req[r].j].next = req[r].next]
    BY <1>3 DEF WriteRow
  <2>2. ASSUME ~UNCHANGED row
        PROVE  Rows
    <3>1. /\ There(req[r].j) /\ req[r].st \in {"active", "paused"}
          /\ req[r].st = "active" /\ req[r].next <= now => "late" \in mishaps'
      BY <1>3, <2>1, <2>2 DEF WriteRow, Mishap, Named, InHandOnly
    <3>2. \A j \in Job : \/ row'[j] = row[j]
                         \/ /\ There(j) /\ row'[j].st = req[r].st /\ row'[j].next = req[r].next
                            /\ j = req[r].j
      BY <1>a, <2>1, <3>1 DEF CronRow
    <3>3. req[r].next \in Nat /\ now \in Nat
      BY DEF TypeOK, RequestState
    <3> QED
      BY <3>1, <3>2, <3>3 DEF RowStays, There
  <2> QED
    BY <1>3, <1>b, <2>2 DEF WriteRow, Mishap
<1>4. ASSUME Clear(r) \/ Put(r) PROVE Rows /\ Rest
  <2>1. \A j \in Job : row'[j].st = row[j].st /\ row'[j].next = row[j].next
    <3>1. CASE Clear(r)
      BY <1>a, <3>1 DEF Clear, CronRow
    <3>2. CASE Put(r)
      BY <1>a, <3>2 DEF Put, CronRow
    <3> QED
      BY <1>4, <3>1, <3>2
  <2> QED
    BY <1>4, <2>1 DEF Clear, Put, ghosts, RowStays, There
<1>5. ASSUME DeleteRow(r) \/ RemoveBackup(r) PROVE Rows /\ Rest
  <2>1. \A j \in Job : Delete(j).st = "gone"
    BY <1>a DEF Delete, CronRow
  <2>2. CASE DeleteRow(r)
    <3>1. \A j \in Job : row'[j] = row[j] \/ row'[j] = Delete(j)
      BY <1>a, <2>2 DEF DeleteRow
    <3> QED
      BY <2>1, <2>2, <3>1 DEF DeleteRow, ghosts, RowStays, There
  <2>3. CASE RemoveBackup(r)
    <3>1. \A j \in Job : row'[j] = row[j] \/ row'[j] = Delete(j)
      BY <2>3 DEF RemoveBackup
    <3> QED
      BY <2>1, <2>3, <3>1 DEF RemoveBackup, RowStays, There
  <2> QED
    BY <1>5, <2>2, <2>3
<1>6. ASSUME \/ Answer(r) \/ Unflag(r) \/ Ensure(r) \/ Ignored(r) \/ Abandon(r) \/ Boot(r)
             \/ \E on \in BOOLEAN : Set(r, on)
             \/ \E j \in Job : \/ ReadForDelete(r, j)
                               \/ \E st, p, f, g : ReadForUpdate(r, j, st, p, f, g)
      PROVE  Rows /\ Rest
  <2>1. CASE Answer(r) \/ Unflag(r) \/ Ensure(r)
    BY <1>b, <2>1 DEF Answer, Unflag, Ensure, table, ghosts
  <2>2. CASE Ignored(r) \/ Abandon(r)
    BY <1>b, <2>2 DEF Ignored, Abandon, table, Mishap
  <2>3. Boot(r) => Rows /\ Rest
    BY <1>b DEF Boot, table, Begin, Mishap
  <2>4. ASSUME NEW on \in BOOLEAN, Set(r, on) PROVE Rows /\ Rest
    BY <1>b, <2>4 DEF Set, Begin, Mishap
  <2>5. ASSUME NEW j \in Job, ReadForDelete(r, j)
        PROVE  Rows /\ Rest
    BY <1>b, <2>5 DEF ReadForDelete, table, Begin, Mishap
  <2>6. ASSUME NEW j, NEW st, NEW p, NEW f, NEW g, ReadForUpdate(r, j, st, p, f, g)
        PROVE  Rows /\ Rest
    BY <1>b, <2>6 DEF ReadForUpdate, table, Begin, Mishap
  <2> QED
    BY <1>6, <2>1, <2>2, <2>3, <2>4, <2>5, <2>6
<1>7. {{}, Kind} \subseteq SUBSET Kind
  BY DEF Kind
<1> HIDE DEF Rows, Rest
<1>8. Rows /\ Rest
  BY <1>1, <1>2, <1>3, <1>4, <1>5, <1>6, <1>7 DEF Asking, Working
<1> QED
  BY <1>8 DEF Rows, Rest

\* A scheduler takes the due jobs, none of which another has in hand
LEMMA OnceSelect ==
    ASSUME TypeOK, Once, NEW p \in Process, Select(p)
    PROVE  Once'
<1> DEFINE due == {j \in Job : Due(j)}
           todo == {[j |-> j, occ |-> row[j].next, period |-> row[j].period] : j \in due}
<1> SUFFICES ASSUME Sound'
             PROVE  /\ Past' /\ Ahead' /\ OneHand' /\ NotStarted' /\ Fresh' /\ Finite'
                    /\ Counted'
  BY DEF Once
<1>1. /\ Sound /\ Past /\ Ahead /\ OneHand /\ NotStarted /\ Fresh /\ Finite /\ Counted
      /\ \A q \in Process : \A d \in loop[q].todo : ~Due(d.j) \/ d.j \notin Job
  BY DEF Once, Sound, Except, Select, Mishap, Named
<1>2. UNCHANGED <<now, row, exec, logs, fired>>
  BY DEF Select, table
<1>3. /\ loop'[p].todo = todo /\ loop'[p].at = "advance" /\ loop'[p].cur = 0
      /\ \A q \in Process : q # p => loop'[q] = loop[q]
  BY DEF Select, Waiting, TypeOK
<1>4. \A d \in todo : /\ d.j \in Job /\ Due(d.j) /\ d.occ = row[d.j].next
                      /\ \A e \in todo : d.j = e.j => d = e
  OBVIOUS
<1> HIDE DEF todo
<1>5. \A q \in Process : \A d \in loop[q].todo : d.j \in Job
  BY DEF TypeOK, LoopState, Occurrence
<1>a. \A j \in Job : Due(j) => row[j].next <= now /\ row[j].st = "active" /\ row[j].next \in Nat
  BY DEF Due, TypeOK, CronRow
<1>6. Past'
  BY <1>1, <1>2, <1>3, <1>4, <1>a DEF Past
<1>7. Ahead'
  BY <1>1, <1>2, <1>3 DEF Ahead, Fired
<1>8. OneHand'
  <2>1. \A q, s \in Process : \A c \in loop'[q].todo, d \in loop'[s].todo :
            c.j = d.j => q = s /\ c = d
    BY <1>1, <1>3, <1>4, <1>5 DEF OneHand
  <2>2. \A q, s \in Process : \A d \in loop'[q].todo : ~Spawning(s, d.j, d.occ)'
    <3> SUFFICES ASSUME NEW q \in Process, NEW s \in Process, NEW d \in loop'[q].todo,
                        Spawning(s, d.j, d.occ)'
                 PROVE  FALSE
      OBVIOUS
    <3>1. s # p /\ Spawning(s, d.j, d.occ)
      BY <1>3 DEF Spawning
    <3>2. CASE q = p
      <4>1. d.j \in Job /\ Due(d.j) /\ d.occ = row[d.j].next
        BY <1>3, <1>4, <3>2
      <4>2. loop[s].occ < row[d.j].next
        BY <1>1, <1>a, <3>1, <4>1 DEF Ahead, Spawning
      <4>3. loop[s].occ = row[d.j].next /\ row[d.j].next \in Nat
        BY <1>a, <3>1, <4>1 DEF Spawning
      <4> QED
        BY <4>2, <4>3
    <3>3. CASE q # p
      BY <1>1, <1>3, <3>1, <3>3 DEF OneHand
    <3> QED
      BY <3>2, <3>3
  <2>3. \A q, s \in Process : loop'[q].at = "spawn" /\ Spawning(s, loop[q].cur, loop[q].occ)'
                                /\ loop'[q] = loop[q] => q = s
    BY <1>1, <1>3 DEF OneHand, Spawning
  <2> QED
    BY <1>3, <2>1, <2>2, <2>3 DEF OneHand, Spawning
<1>9. NotStarted'
  <2>1. ASSUME NEW d \in todo
        PROVE  <<d.j, d.occ>> \notin fired
    <3>1. d.j \in Job /\ Due(d.j) /\ d.occ = row[d.j].next
      BY <1>4
    <3>2. \A f \in Fired(d.j) : f[2] < row[d.j].next
      BY <1>1, <1>a, <3>1 DEF Ahead
    <3>3. row[d.j].next \in Nat
      BY <1>a, <3>1
    <3> QED
      BY <3>1, <3>2, <3>3 DEF Fired
  <2> QED
    BY <1>1, <1>2, <1>3, <2>1 DEF NotStarted
<1>10. Fresh'
  <2>1. \A d \in todo : row[d.j].st # "none"
    BY <1>4, <1>a
  <2> QED
    BY <1>1, <1>2, <1>3, <2>1, CronConstantsOK DEF Fresh, Runs, Fired
<1>11. Finite' /\ Counted'
  BY <1>1, <1>2 DEF Finite, Counted, Runs, Fired, There
<1> QED
  BY <1>6, <1>7, <1>8, <1>9, <1>10, <1>11

\* It moves a job to an occurrence that is yet to come, and has the one before in hand
LEMMA OnceAdvance ==
    ASSUME TypeOK, Once, NEW p \in Process, Advance(p)
    PROVE  Once'
<1> SUFFICES ASSUME Sound'
             PROVE  /\ Past' /\ Ahead' /\ OneHand' /\ NotStarted' /\ Fresh' /\ Finite'
                    /\ Counted'
  BY DEF Once
<1>1. Sound /\ Past /\ Ahead /\ OneHand /\ NotStarted /\ Fresh /\ Finite /\ Counted
  BY DEF Once, Sound, Except, Advance, Mishap
<1>2. UNCHANGED <<now, exec, logs, fired>>
  BY DEF Advance
<1>3. PICK d \in loop[p].todo : InHand(p, d) /\ row' = Advanced(d)
  BY DEF Advance
<1>4. /\ loop'[p].at = "spawn" /\ loop'[p].todo = loop[p].todo \ {d}
      /\ loop'[p].cur = d.j /\ loop'[p].occ = d.occ /\ loop[p].at # "spawn"
      /\ \A q \in Process : q # p => loop'[q] = loop[q]
  BY <1>3 DEF Advance, InHand, TypeOK
<1>5. d \in Occurrence
  BY <1>3 DEF TypeOK, LoopState
<1>6. d.j \in Job /\ d.occ \in Nat /\ now \in Nat /\ Upcoming(d.period, now) \in Nat
      /\ now < Upcoming(d.period, now)
  BY <1>5, PeriodLater, PeriodTyped DEF TypeOK, Occurrence
<1>7. \A j \in Job : \/ row'[j] = row[j]
                     \/ /\ j = d.j /\ row'[j].next = Upcoming(d.period, now) /\ There(j)
                        /\ row'[j].st = row[j].st
  BY <1>3 DEF Advanced, TypeOK, CronRow
<1>8. \A j \in Job : row'[j].st = row[j].st
  BY <1>7
<1>9. Past'
  BY <1>1, <1>2, <1>3, <1>4 DEF Past
<1>10. Ahead'
  <2> SUFFICES ASSUME NEW j \in Job, row[j].st = "active"
               PROVE  /\ \A f \in Fired(j) : f[2] < row'[j].next
                      /\ \A q \in Process : loop'[q].at = "spawn" /\ loop'[q].cur = j =>
                            loop'[q].occ < row'[j].next
    BY <1>2, <1>8 DEF Ahead, Fired
  <2>1. CASE j # d.j
    BY <1>1, <1>4, <1>7, <2>1 DEF Ahead
  <2>2. CASE j = d.j
    <3>1. row'[j].next = Upcoming(d.period, now)
      BY <1>3, <2>2 DEF Advanced, There, TypeOK, CronRow
    <3>2. \A x \in Nat : x <= now => x < row'[j].next
      BY <1>6, <3>1
    <3>3. \A f \in fired : f[2] \in Nat /\ f[2] <= now
      BY <1>1 DEF Past, TypeOK
    <3>4. \A q \in Process : loop'[q].at = "spawn" => loop'[q].occ \in Nat /\ loop'[q].occ <= now
      BY <1>1, <1>2, <1>4, <1>6, <1>9 DEF Past, TypeOK, LoopState
    <3> QED
      BY <3>2, <3>3, <3>4 DEF Fired
  <2> QED
    BY <2>1, <2>2
<1>11. OneHand'
  <2>1. \A q, s \in Process : \A b \in loop'[q].todo, c \in loop'[s].todo :
            b.j = c.j => q = s /\ b = c
    BY <1>1, <1>4 DEF OneHand
  <2>2. \A q, s \in Process : \A c \in loop'[q].todo : ~Spawning(s, c.j, c.occ)'
    BY <1>1, <1>3, <1>4 DEF OneHand, Spawning
  <2>3. \A q, s \in Process : loop'[q].at = "spawn" /\ loop'[s].at = "spawn"
            /\ loop'[s].cur = loop'[q].cur /\ loop'[s].occ = loop'[q].occ => q = s
    BY <1>1, <1>3, <1>4 DEF OneHand, Spawning
  <2> QED
    BY <2>1, <2>2, <2>3 DEF OneHand, Spawning
<1>12. NotStarted'
  BY <1>1, <1>2, <1>3, <1>4 DEF NotStarted
<1>13. Fresh'
  BY <1>1, <1>2, <1>3, <1>4, <1>8 DEF Fresh, Runs, Fired
<1>14. Finite' /\ Counted'
  BY <1>1, <1>2, <1>8 DEF Finite, Counted, Runs, Fired, There
<1> QED
  BY <1>9, <1>10, <1>11, <1>12, <1>13, <1>14

\* A run starts: its occurrence goes from the hands of the scheduler to those started
LEMMA OnceSpawn ==
    ASSUME TypeOK, InHandOnly, Once, NEW p \in Process, Spawn(p)
    PROVE  Once'
<1> SUFFICES ASSUME Sound'
             PROVE  /\ Past' /\ Ahead' /\ OneHand' /\ NotStarted' /\ Fresh' /\ Finite'
                    /\ Counted'
  BY DEF Once
<1>0. PICK jo, f : jo = loop[p].cur /\ f = <<jo, loop[p].occ>>
  OBVIOUS
<1>a. /\ UNCHANGED <<now, table, logs, ghosts>> /\ loop[p].at = "spawn"
      /\ fired' = fired \cup {<<loop[p].cur, loop[p].occ>>}
      /\ \E e \in Exec :
            /\ exec[e].at = "idle"
            /\ exec' = [exec EXCEPT ![e] = [at |-> "dispatch", by |-> {p}, j |-> loop[p].cur]]
      /\ \E l \in {"wait", "advance"} :
            loop' = [loop EXCEPT ![p].at = l, ![p].cur = 0, ![p].occ = NoTime]
  BY Zenon DEF Spawn
<1>1. Sound /\ Past /\ Ahead /\ OneHand /\ NotStarted /\ Fresh /\ Finite /\ Counted
  BY <1>a DEF Once, Sound, Except, ghosts
<1>2. UNCHANGED <<now, row, logs>> /\ fired' = fired \cup {f} /\ loop[p].at = "spawn"
  BY <1>0, <1>a DEF table
<1>3. PICK e \in Exec : /\ exec[e].at = "idle"
                        /\ exec' = [exec EXCEPT ![e] = [at |-> "dispatch", by |-> {p}, j |-> jo]]
  BY <1>0, <1>a
<1>4. /\ loop'[p].at # "spawn" /\ loop'[p].todo = loop[p].todo /\ loop'[p].cur = 0
      /\ \A q \in Process : q # p => loop'[q] = loop[q]
  BY <1>a DEF TypeOK, LoopState
<1>5. jo \in Job /\ jo # 0 /\ loop[p].occ \in Nat /\ f[2] \in Nat
  BY <1>0, <1>2, CronConstantsOK DEF InHandOnly, TypeOK, LoopState
<1>6. f \notin fired
  BY <1>0, <1>1, <1>2 DEF NotStarted
<1>7. /\ exec'[e].j = jo /\ exec'[e].at = "dispatch" /\ exec[e].j = 0
      /\ \A g \in Exec : g # e => exec'[g] = exec[g]
  BY <1>1, <1>3 DEF Counted, TypeOK
<1>8. Past'
  BY <1>0, <1>1, <1>2, <1>4 DEF Past
<1>9. Ahead'
  BY <1>0, <1>1, <1>2, <1>4 DEF Ahead, Fired
<1>10. OneHand'
  BY <1>1, <1>4 DEF OneHand, Spawning
<1>11. NotStarted'
  <2>1. \A q \in Process : \A d \in loop'[q].todo : <<d.j, d.occ>> # f
    BY <1>0, <1>1, <1>2, <1>4 DEF OneHand, Spawning
  <2>2. \A q \in Process : loop'[q].at = "spawn" => <<loop'[q].cur, loop'[q].occ>> # f
    BY <1>0, <1>1, <1>2, <1>4 DEF OneHand, Spawning
  <2> QED
    BY <1>1, <1>2, <1>4, <2>1, <2>2 DEF NotStarted
<1>12. \A j \in Job : j # jo => Runs(j)' = Runs(j) /\ Fired(j)' = Fired(j)
  <2> SUFFICES ASSUME NEW j \in Job, j # jo
               PROVE  Runs(j)' = Runs(j) /\ Fired(j)' = Fired(j)
    OBVIOUS
  <2>1. \A g \in Exec : exec'[g].j = j <=> exec[g].j = j
    BY <1>7, CronConstantsOK
  <2>2. f[1] # j
    BY <1>0
  <2> QED
    BY <1>2, <2>1, <2>2 DEF Runs, Fired
<1>13. Runs(jo)' = Runs(jo) \cup {e} /\ e \notin Runs(jo)
  BY <1>5, <1>7 DEF Runs
<1>14. Fired(jo)' = Fired(jo) \cup {f} /\ f \notin Fired(jo)
  BY <1>0, <1>2, <1>6 DEF Fired
<1>15. row[jo].st # "none"
  BY <1>0, <1>1, <1>5 DEF Fresh
<1>16. Fresh'
  <2> SUFFICES ASSUME NEW j \in Job, row[j].st = "none"
               PROVE  /\ logs[j] = 0 /\ Runs(j)' = {} /\ Fired(j)' = {}
                      /\ \A q \in Process : loop'[q].cur # j /\ \A d \in loop'[q].todo : d.j # j
    BY <1>2 DEF Fresh
  <2>1. j # jo /\ j # 0
    BY <1>15, CronConstantsOK
  <2> QED
    BY <1>1, <1>4, <1>12, <2>1 DEF Fresh
<1>17. Finite'
  <2>1. IsFiniteSet(fired')
    BY <1>1, <1>2, FS_AddElement DEF Finite
  <2>2. {g \in Exec : exec'[g].j # 0} = {g \in Exec : exec[g].j # 0} \cup {e}
    BY <1>5, <1>7
  <2>3. IsFiniteSet({g \in Exec : exec'[g].j # 0})
    BY <1>1, <2>2, FS_AddElement DEF Finite
  <2> QED
    BY <2>1, <2>3 DEF Finite
<1>18. Counted'
  <2>1. \A g \in Exec : exec'[g].at = "idle" <=> exec'[g].j = 0
    BY <1>1, <1>5, <1>7 DEF Counted
  <2>2. Cardinality(Runs(jo)') = Cardinality(Runs(jo)) + 1 /\ Cardinality(Runs(jo)) \in Nat
    BY <1>1, <1>5, <1>13, FiniteParts, FS_AddElement, FS_CardinalityType
  <2>3. Cardinality(Fired(jo)') = Cardinality(Fired(jo)) + 1 /\ Cardinality(Fired(jo)) \in Nat
    BY <1>1, <1>5, <1>14, FiniteParts, FS_AddElement, FS_CardinalityType
  <2>4. logs[jo] \in Nat
    BY <1>5 DEF TypeOK
  <2>5. ASSUME NEW j \in Job, There(j)
        PROVE  logs[j] + Cardinality(Runs(j)') = Cardinality(Fired(j)')
    <3>1. logs[j] + Cardinality(Runs(j)) = Cardinality(Fired(j))
      BY <1>1, <2>5 DEF Counted
    <3>2. CASE j # jo
      BY <1>12, <3>1, <3>2
    <3>3. CASE j = jo
      BY <2>2, <2>3, <2>4, <3>1, <3>3
    <3> QED
      BY <3>2, <3>3
  <2> QED
    BY <1>2, <2>1, <2>5 DEF Counted, There
<1> QED
  BY <1>8, <1>9, <1>10, <1>11, <1>16, <1>17, <1>18

\* A run ends with one line of the log, if there still is a job to log it for
LEMMA OnceLog ==
    ASSUME TypeOK, Once, NEW e \in Exec, Log(e)
    PROVE  Once'
<1> SUFFICES ASSUME Sound'
             PROVE  /\ Past' /\ Ahead' /\ OneHand' /\ NotStarted' /\ Fresh' /\ Finite'
                    /\ Counted'
  BY DEF Once
<1>0. PICK jo : jo = exec[e].j
  OBVIOUS
<1>1. Sound /\ Past /\ Ahead /\ OneHand /\ NotStarted /\ Fresh /\ Finite /\ Counted
  BY DEF Once, Sound, Except, Log, ghosts
<1>2. UNCHANGED <<now, row, loop, fired>>
  BY DEF Log, table
<1>3. /\ exec[e].at # "idle" /\ exec'[e].at = "idle" /\ exec'[e].j = 0
      /\ \A g \in Exec : g # e => exec'[g] = exec[g]
  BY DEF Log, NoRun, TypeOK
<1>4. jo \in Job /\ jo # 0
  BY <1>0, <1>1, <1>3 DEF Counted, TypeOK, RunState
<1>5. \A j \in Job : IF j = jo /\ There(jo) THEN logs'[j] = logs[j] + 1 ELSE logs'[j] = logs[j]
  BY <1>0 DEF Log, TypeOK
<1>6. \A j \in Job : j # jo => Runs(j)' = Runs(j)
  <2> SUFFICES ASSUME NEW j \in Job, j # jo
               PROVE  Runs(j)' = Runs(j)
    OBVIOUS
  <2>1. \A g \in Exec : exec'[g].j = j <=> exec[g].j = j
    BY <1>0, <1>3, CronConstantsOK
  <2> QED
    BY <2>1 DEF Runs
<1>7. Runs(jo)' = Runs(jo) \ {e} /\ e \in Runs(jo)
  BY <1>0, <1>3, <1>4 DEF Runs
<1>8. \A j \in Job : Fired(j)' = Fired(j)
  BY <1>2 DEF Fired
<1>9. Past' /\ Ahead' /\ OneHand' /\ NotStarted'
  BY <1>1, <1>2 DEF Past, Ahead, OneHand, NotStarted, Fired, Spawning
<1>10. row[jo].st # "none"
  BY <1>1, <1>4, <1>7 DEF Fresh
<1>11. Fresh'
  <2> SUFFICES ASSUME NEW j \in Job, row[j].st = "none"
               PROVE  /\ logs'[j] = 0 /\ Runs(j)' = {} /\ Fired(j)' = {}
                      /\ \A q \in Process : loop[q].cur # j /\ \A d \in loop[q].todo : d.j # j
    BY <1>2 DEF Fresh
  <2>1. j # jo
    BY <1>10
  <2> QED
    BY <1>1, <1>5, <1>6, <1>8, <2>1 DEF Fresh
<1>12. Finite'
  <2>1. {g \in Exec : exec'[g].j # 0} \subseteq {g \in Exec : exec[g].j # 0}
    BY <1>3
  <2>2. IsFiniteSet({g \in Exec : exec'[g].j # 0})
    BY <1>1, <2>1, FS_Subset DEF Finite
  <2> QED
    BY <1>1, <1>2, <2>2 DEF Finite
<1>13. Counted'
  <2>1. \A g \in Exec : exec'[g].at = "idle" <=> exec'[g].j = 0
    BY <1>1, <1>3 DEF Counted
  <2>2. /\ Cardinality(Runs(jo)') = Cardinality(Runs(jo)) - 1
        /\ Cardinality(Runs(jo)) \in Nat /\ Cardinality(Runs(jo)') \in Nat
    <3>1. IsFiniteSet(Runs(jo)) /\ IsFiniteSet(Runs(jo) \ {e})
      BY <1>1, <1>4, FiniteParts, FS_RemoveElement
    <3>2. Cardinality(Runs(jo) \ {e}) = Cardinality(Runs(jo)) - 1
      BY <1>7, <3>1, FS_RemoveElement
    <3> QED
      BY <1>7, <3>1, <3>2, FS_CardinalityType
  <2>3. logs[jo] \in Nat
    BY <1>4 DEF TypeOK
  <2>4. ASSUME NEW j \in Job, There(j)
        PROVE  logs'[j] + Cardinality(Runs(j)') = Cardinality(Fired(j)')
    <3>1. logs[j] + Cardinality(Runs(j)) = Cardinality(Fired(j))
      BY <1>1, <2>4 DEF Counted
    <3>2. CASE j # jo
      BY <1>5, <1>6, <1>8, <3>1, <3>2
    <3>3. CASE j = jo
      <4>1. logs'[jo] = logs[jo] + 1
        BY <1>4, <1>5, <2>4, <3>3
      <4> QED
        BY <1>4, <1>8, <2>2, <2>3, <3>1, <3>3, <4>1
    <3> QED
      BY <3>2, <3>3
  <2> QED
    BY <1>2, <2>1, <2>4 DEF Counted, There
<1> QED
  BY <1>9, <1>11, <1>12, <1>13

\* Other steps of a scheduler or a run start none and end none
LEMMA OnceOther ==
    ASSUME TypeOK, TypeOK', InHandOnly, Once,
           \/ \E p \in Process : TakeLead(p) \/ LoseLead(p) \/ AdvanceFails(p) \/ Crash(p)
           \/ \E e \in Exec : Dispatch(e) \/ Prepare(e) \/ Work(e)
           \/ Tick \/ UNCHANGED vars
    PROVE  Once'
<1>a. UNCHANGED loop => HandsEmptied
  BY DEF HandsEmptied
<1>b. UNCHANGED exec => RunsStay
  BY DEF RunsStay
<1>c. UNCHANGED row => \A j \in Job : RowStays(j)
  BY DEF RowStays, There
<1>d. UNCHANGED now => now <= now'
  BY DEF TypeOK
<1>1. ASSUME NEW p \in Process, TakeLead(p) \/ LoseLead(p)
      PROVE  Once'
  BY <1>1, <1>a, <1>b, <1>c, <1>d, OnceSteady DEF TakeLead, LoseLead, table, ghosts
<1>2. ASSUME NEW p \in Process, AdvanceFails(p)
      PROVE  Once'
  BY <1>2 DEF AdvanceFails, Mishap, Once, Sound, Except
<1>3. ASSUME NEW p \in Process, Crash(p)
      PROVE  Once'
  <2>1. HandsEmptied
    BY <1>3 DEF Crash, HandsEmptied, Waiting, TypeOK
  <2>2. Sound' => UNCHANGED exec
    BY <1>3 DEF Crash, Mishap, Named, Sound, Except, TypeOK
  <2> QED
    BY <1>3, <1>b, <1>c, <1>d, <2>1, <2>2, OnceSteady DEF Crash, Mishap, table
<1>4. ASSUME NEW e \in Exec, Dispatch(e) \/ Prepare(e) \/ Work(e)
      PROVE  Once'
  <2>1. PICK m \in {"dispatch", "prepare", "work"}, l \in {"prepare", "work", "log"} :
            Move(e, m, l)
    BY <1>4 DEF Dispatch, Prepare, Work
  <2>2. RunsStay
    BY <2>1 DEF Move, RunsStay, TypeOK, RunState
  <2> QED
    BY <1>a, <1>c, <1>d, <2>1, <2>2, OnceSteady DEF Move, table, ghosts
<1>5. ASSUME Tick
      PROVE  Once'
  <2>1. now <= now'
    BY <1>5 DEF Tick, TypeOK
  <2> QED
    BY <1>5, <1>a, <1>b, <1>c, <2>1, OnceSteady DEF Tick, table, ghosts, scheduler
<1>6. ASSUME UNCHANGED vars
      PROVE  Once'
  BY <1>6, <1>a, <1>b, <1>c, <1>d, OnceSteady DEF vars, table, ghosts, scheduler
<1> QED
  BY <1>1, <1>2, <1>3, <1>4, <1>5, <1>6

LEMMA OnceInit == Init => Once
<1> SUFFICES ASSUME Init
             PROVE  Past /\ Ahead /\ OneHand /\ NotStarted /\ Fresh /\ Finite /\ Counted
  BY DEF Once
<1>1. /\ fired = {} /\ exec = [e \in Exec |-> NoRun] /\ logs = [j \in Job |-> 0]
      /\ loop = [p \in Process |-> Waiting]
  BY DEF Init
<1>2. /\ \A p \in Process : loop[p].todo = {} /\ loop[p].at = "wait" /\ loop[p].cur = 0
      /\ \A e \in Exec : exec[e].at = "idle" /\ exec[e].j = 0
  BY <1>1 DEF Waiting, NoRun
<1>3. \A j \in Job : Runs(j) = {} /\ Fired(j) = {} /\ j # 0
  BY <1>1, <1>2, CronConstantsOK DEF Runs, Fired
<1>4. Past /\ Ahead /\ OneHand /\ NotStarted
  BY <1>1, <1>2 DEF Past, Ahead, OneHand, NotStarted, Fired
<1>5. Fresh
  BY <1>1, <1>2, <1>3 DEF Fresh
<1>6. Finite
  <2>1. {e \in Exec : exec[e].j # 0} = {}
    BY <1>2
  <2> QED
    BY <1>1, <2>1, FS_EmptySet DEF Finite
<1>7. Counted
  <2>1. \A j \in Job : logs[j] = 0
    BY <1>1
  <2>2. Cardinality({}) = 0
    BY FS_EmptySet
  <2>3. \A j \in Job : logs[j] + Cardinality(Runs(j)) = Cardinality(Fired(j))
    <3> SUFFICES ASSUME NEW j \in Job
                 PROVE  logs[j] + Cardinality(Runs(j)) = Cardinality(Fired(j))
      OBVIOUS
    <3>1. logs[j] = 0 /\ Runs(j) = {} /\ Fired(j) = {}
      BY <1>3, <2>1
    <3>2. 0 + 0 = 0
      OBVIOUS
    <3> QED
      BY <2>2, <3>1, <3>2, Zenon
  <2> QED
    BY <1>2, <2>3 DEF Counted
<1> QED
  BY <1>4, <1>5, <1>6, <1>7

LEMMA OnceNext == TypeOK /\ InHandOnly /\ Once /\ [Next]_vars => Once'
<1> SUFFICES ASSUME TypeOK, InHandOnly, Once, [Next]_vars
             PROVE  Once'
  OBVIOUS
<1>1. TypeOK'
  BY TypeNext
<1>2. ASSUME NEW r \in Request, Asking(r) \/ Working(r) \/ Ignored(r) \/ Abandon(r)
      PROVE  Once'
  <2>1. /\ UNCHANGED <<now, scheduler>> /\ mishaps \subseteq mishaps'
        /\ \A j \in Job : RowStays(j)
    BY <1>2, RequestsSteady
  <2>2. HandsEmptied /\ RunsStay /\ now <= now'
    BY <2>1 DEF scheduler, HandsEmptied, RunsStay, TypeOK
  <2> QED
    BY <1>1, <2>1, <2>2, OnceSteady DEF scheduler
<1> QED
  BY <1>1, <1>2, OnceSelect, OnceAdvance, OnceSpawn, OnceLog, OnceOther DEF Next

\* Whatever the jobs, requests, processes and schedules, however often the leader changes
\* and in whatever order edits, selections and runs interleave: every occurrence that
\* was started ran once and left one row in the log, but for the mishaps that
\* OncePerOccurrence names.
THEOREM OncePerOccurrenceAlways == Spec => []OncePerOccurrence
<1>1. Once => OncePerOccurrence
  BY DEF Once, Sound, Counted, Runs, Fired, OncePerOccurrence
<1> QED
  BY <1>1, TypeInit, TypeNext, OnceInit, OnceNext, PTL DEF Spec

-----------------------------------------------------------------------------
(***************************************************************************)
(* The rows are as asked.  Two requests that are at work are about         *)
(* different jobs, and one of them at most about the backup; so what a row *)
(* still lacks of what was asked for is what its request will write.       *)
(***************************************************************************)

Calm == ~Except({"overlap", "abandoned", "stale"})
Editing == {"update", "clear", "put", "unflag", "delete"}

\* What a request in flight is about
Well(s) ==
    /\ s.at = "idle" => s = Idle
    /\ s.at \in {"ensure", "insert", "remove"} => s.j = 0 /\ s.backup
    /\ s.at \in Editing => s.j \in Job /\ row[s.j].st # "none" /\ s.backup = row[s.j].backup
    /\ s.at = "unflag" => s.backup
Formed == \A r \in Request : Well(req[r])

Alone == \A r, q \in Request : r # q /\ req[r] # Idle /\ req[q] # Idle =>
    req[r].j # req[q].j /\ ~(req[r].backup /\ req[q].backup)
Apart == "overlap" \in mishaps \/ Alone

Proper(st, period, next) == IF st = "active" THEN next > 0 /\ next % period = 0 ELSE next = NoTime
RowProper(j) == There(j) => Proper(row[j].st, row[j].period, row[j].next)
Written(j) == row[j].st = asked[j].st /\ (There(j) => row[j].period = asked[j].period)
Settled(j) == Written(j) /\ (There(j) => row[j].env = asked[j].env)

\* What the variables and links will be when the request has written all it gives
Given(s, env) == (env \ s.fields) \cup (s.give \cap s.fields)
Stage(s, j) ==
    \/ /\ There(j) /\ s.at = "update"
       /\ asked[j].st = s.st /\ asked[j].period = s.period
       /\ asked[j].env = Given(s, row[j].env) /\ Proper(s.st, s.period, s.next)
    \/ /\ There(j) /\ s.at \in {"clear", "put"}
       /\ Written(j) /\ asked[j].env = Given(s, row[j].env)
       /\ s.at = "put" => s.fields # {} /\ First(s.fields) \notin row[j].env
    \/ /\ There(j) /\ s.at \in {"unflag", "delete"}
       /\ asked[j].st = "gone"

Asked == Calm =>
    /\ \A r \in Request : req[r].j \in Job => Stage(req[r], req[r].j)
    /\ \A j \in Job : RowProper(j) /\ ((\A r \in Request : req[r].j # j) => Settled(j))

\* The managed backup, which one request at most is about
Uncut == ~Except({"overlap", "abandoned", "ignored"})
OneBackup == IF flag THEN \E j \in Job : Backups = {j} ELSE Backups = {}
Kept(s) ==
    CASE s.at = "ensure" -> flag /\ \A i, j \in Backups : i = j
      [] s.at = "insert" -> flag /\ Backups = {}
      [] s.at = "remove" -> ~flag
      [] s.at = "unflag" -> flag /\ Backups = {s.j}
      [] s.at = "delete" -> ~flag /\ Backups = {s.j}
      [] OTHER -> OneBackup
Flagged == Uncut =>
    /\ \A r \in Request : req[r].backup => Kept(req[r])
    /\ (\A r \in Request : ~req[r].backup) => OneBackup

\* The row of a job stays that of a managed backup, or of a user's job
RowsKept == \A j \in Job : row[j].st # "none" => row'[j].st # "none" /\ row'[j].backup = row[j].backup

\* A request goes on with what it is about
GoesOn(r) ==
    /\ req[r] # Idle /\ req'[r].j = req[r].j /\ req'[r].backup = req[r].backup
    /\ \/ req[r].at = "ensure" /\ req'[r].at = "insert"
       \/ req[r].at \in {"update", "clear", "put"} /\ req'[r].at \in {"clear", "put"}
       \/ req[r].at = "unflag" /\ req'[r].at = "delete"
Others(r) == \A q \in Request \ {r} : req'[q] = req[q]

LEMMA WorkingMoves ==
    ASSUME TypeOK, NEW r \in Request, Working(r) \/ Ignored(r) \/ Abandon(r)
    PROVE  Others(r) /\ (req'[r] = Idle \/ GoesOn(r))
<1>a. req \in [Request -> RequestState]
  BY DEF TypeOK
<1>b. End(r) => Others(r) /\ req'[r] = Idle
  BY <1>a DEF End, Others
<1>c. ASSUME NEW l, Goto(r, l)
      PROVE  /\ Others(r) /\ req'[r].at = l /\ req'[r].j = req[r].j
             /\ req'[r].backup = req[r].backup
  BY <1>a, <1>c DEF Goto, Others, RequestState
<1>d. req[r].at # "idle" => req[r] # Idle
  BY DEF Idle
<1>1. CASE WriteRow(r) \/ Clear(r)
  BY <1>1, <1>c, <1>d DEF WriteRow, Clear, GoesOn
<1>2. CASE Put(r)
  <2>1. \/ End(r)
        \/ req' = [req EXCEPT ![r].at = "clear", ![r].fields = req[r].fields \ {First(req[r].fields)}]
    BY <1>2 DEF Put
  <2>2. CASE req' = [req EXCEPT ![r].at = "clear", ![r].fields = req[r].fields \ {First(req[r].fields)}]
    BY <1>2, <1>a, <1>d, <2>2 DEF Put, GoesOn, Others, RequestState
  <2> QED
    BY <1>b, <2>1, <2>2
<1>3. CASE Ensure(r) \/ Unflag(r)
  BY <1>3, <1>b, <1>c, <1>d DEF Ensure, Unflag, GoesOn
<1>4. CASE Ignored(r)
  BY <1>4, <1>b, <1>c, <1>d DEF Ignored, GoesOn
<1>5. CASE Answer(r) \/ DeleteRow(r) \/ InsertBackup(r) \/ RemoveBackup(r) \/ Abandon(r)
  BY <1>5, <1>b DEF Answer, DeleteRow, InsertBackup, RemoveBackup, Abandon
<1> QED
  BY <1>1, <1>2, <1>3, <1>4, <1>5 DEF Working

\* A request that begins is apart from those at work, or they overlap
LEMMA BeginsApart ==
    ASSUME TypeOK, Apart, NEW r \in Request, NEW s, Begin(r, s)
    PROVE  /\ Apart' /\ req[r] = Idle /\ req'[r] = s /\ Others(r) /\ mishaps \subseteq mishaps'
           /\ "overlap" \notin mishaps' => \A q \in Request \ {r} :
                req[q] # Idle => req[q].j # s.j /\ ~(req[q].backup /\ s.backup)
<1>1. req[r] = Idle /\ req'[r] = s /\ Others(r) /\ mishaps \subseteq mishaps'
  BY DEF Begin, Mishap, Others, TypeOK
<1>2. "overlap" \notin mishaps' => \A q \in Request \ {r} :
        req[q] # Idle => req[q].j # s.j /\ ~(req[q].backup /\ s.backup)
  BY DEF Begin, Mishap, Named
<1>3. Apart'
  BY <1>1, <1>2 DEF Apart, Alone, Others
<1> QED
  BY <1>1, <1>2, <1>3

LEMMA MovesApart ==
    ASSUME Apart, mishaps \subseteq mishaps', NEW r \in Request, Others(r),
           req'[r] = Idle \/ GoesOn(r)
    PROVE  Apart'
BY DEF Apart, Alone, Others, GoesOn

LEMMA RowsKeptNext ==
    ASSUME TypeOK, InHandOnly, Next
    PROVE  RowsKept
<1>a. row \in [Job -> CronRow]
  BY DEF TypeOK
<1>b. UNCHANGED row => RowsKept
  BY DEF RowsKept
<1>1. ASSUME NEW r \in Request, Asking(r)
      PROVE  RowsKept
  <2>1. ASSUME NEW j \in Job, NEW p, NEW g, Create(r, j, p, g)
        PROVE  RowsKept
    BY <1>a, <2>1 DEF Create, Unused, RowsKept
  <2>2. ASSUME NEW j, NEW st, NEW p, NEW f, NEW g, ReadForUpdate(r, j, st, p, f, g)
        PROVE  RowsKept
    BY <1>b, <2>2 DEF ReadForUpdate, table
  <2>3. ASSUME NEW j, ReadForDelete(r, j)
        PROVE  RowsKept
    BY <1>b, <2>3 DEF ReadForDelete, table
  <2>4. ASSUME NEW on, Set(r, on) \/ Boot(r)
        PROVE  RowsKept
    BY <1>b, <2>4 DEF Set, Boot, table
  <2> QED
    BY <1>1, <2>1, <2>2, <2>3, <2>4 DEF Asking
<1>2. ASSUME NEW r \in Request, Working(r)
      PROVE  RowsKept
  <2>1. CASE WriteRow(r)
    <3>1. \/ UNCHANGED row
          \/ /\ There(req[r].j)
             /\ row' = [row EXCEPT ![req[r].j].st = req[r].st, ![req[r].j].period = req[r].period,
                                   ![req[r].j].next = req[r].next]
      BY <2>1 DEF WriteRow
    <3>2. req[r].st \in {"active", "paused"}
      BY <2>1 DEF WriteRow, InHandOnly
    <3> QED
      BY <1>a, <1>b, <3>1, <3>2 DEF RowsKept, CronRow
  <2>2. CASE Clear(r)
    BY <1>a, <2>2 DEF Clear, RowsKept, CronRow
  <2>3. CASE Put(r)
    BY <1>a, <1>b, <2>3 DEF Put, RowsKept, CronRow
  <2>4. CASE DeleteRow(r) \/ RemoveBackup(r)
    <3>1. \A j \in Job : Delete(j).st = "gone" /\ Delete(j).backup = row[j].backup
      BY <1>a DEF Delete, CronRow
    <3>2. \A j \in Job : row'[j] = row[j] \/ row'[j] = Delete(j)
      <4>1. CASE DeleteRow(r)
        BY <1>a, <4>1 DEF DeleteRow
      <4>2. CASE RemoveBackup(r)
        BY <4>2 DEF RemoveBackup
      <4> QED
        BY <2>4, <4>1, <4>2
    <3> QED
      BY <3>1, <3>2 DEF RowsKept
  <2>5. CASE InsertBackup(r)
    BY <1>a, <2>5 DEF InsertBackup, Unused, RowsKept
  <2>6. CASE Answer(r) \/ Unflag(r) \/ Ensure(r)
    BY <1>b, <2>6 DEF Answer, Unflag, Ensure, table
  <2> QED
    BY <1>2, <2>1, <2>2, <2>3, <2>4, <2>5, <2>6 DEF Working
<1>3. ASSUME NEW r \in Request, Ignored(r) \/ Abandon(r)
      PROVE  RowsKept
  BY <1>3, <1>b DEF Ignored, Abandon, table
<1>4. ASSUME NEW p \in Process, TakeLead(p) \/ LoseLead(p) \/ Select(p) \/ AdvanceFails(p) \/ Crash(p)
      PROVE  RowsKept
  BY <1>4, <1>b DEF TakeLead, LoseLead, Select, AdvanceFails, Crash, table
<1>5. ASSUME NEW p \in Process, Advance(p)
      PROVE  RowsKept
  <2>1. PICK d : row' = Advanced(d)
    BY <1>5 DEF Advance
  <2> QED
    BY <1>a, <2>1 DEF Advanced, RowsKept, CronRow
<1>6. ASSUME NEW p \in Process, Spawn(p)
      PROVE  RowsKept
  <2>1. UNCHANGED table
    BY <1>6, Zenon DEF Spawn
  <2> QED
    BY <1>b, <2>1 DEF table
<1>7. ASSUME \/ \E e \in Exec : Dispatch(e) \/ Prepare(e) \/ Work(e) \/ Log(e)
             \/ Tick
      PROVE  RowsKept
  BY <1>7, <1>b DEF Dispatch, Prepare, Work, Log, Move, Tick, table
<1> QED
  BY <1>1, <1>2, <1>3, <1>4, <1>5, <1>6, <1>7 DEF Next

\* A request that waits for a scheduler's step is as it was
LEMMA SchedulersSteady ==
    ASSUME \/ \E p \in Process : \/ TakeLead(p) \/ LoseLead(p) \/ Select(p) \/ Advance(p)
                                 \/ AdvanceFails(p) \/ Spawn(p) \/ Crash(p)
           \/ \E e \in Exec : Dispatch(e) \/ Prepare(e) \/ Work(e) \/ Log(e)
           \/ Tick \/ UNCHANGED vars
    PROVE  UNCHANGED <<flag, req, asked>> /\ mishaps \subseteq mishaps'
<1> DEFINE Goal == UNCHANGED <<flag, req, asked>> /\ mishaps \subseteq mishaps'
<1>1. ASSUME NEW p \in Process, TakeLead(p) \/ LoseLead(p)
      PROVE  Goal
  BY <1>1 DEF TakeLead, LoseLead, table, ghosts
<1>2. ASSUME NEW p \in Process, Select(p)
      PROVE  Goal
  <2>1. UNCHANGED <<table, req, asked>> /\ \E names : Mishap(names)
    BY <1>2, Zenon DEF Select
  <2> QED
    BY <2>1 DEF Mishap, table
<1>3. ASSUME NEW p \in Process, Advance(p) \/ AdvanceFails(p)
      PROVE  Goal
  BY <1>3 DEF Advance, AdvanceFails, Mishap, table
<1>4. ASSUME NEW p \in Process, Spawn(p)
      PROVE  Goal
  <2>1. UNCHANGED <<table, req, ghosts>>
    BY <1>4, Zenon DEF Spawn
  <2> QED
    BY <2>1 DEF table, ghosts
<1>5. ASSUME NEW p \in Process, Crash(p)
      PROVE  Goal
  BY <1>5 DEF Crash, Mishap, table
<1>6. ASSUME NEW e \in Exec, Dispatch(e) \/ Prepare(e) \/ Work(e) \/ Log(e)
      PROVE  Goal
  BY <1>6 DEF Dispatch, Prepare, Work, Log, Move, table, ghosts
<1>7. ASSUME Tick \/ UNCHANGED vars
      PROVE  Goal
  BY <1>7 DEF Tick, vars, table, ghosts
<1> HIDE DEF Goal
<1>8. Goal
  BY <1>1, <1>2, <1>3, <1>4, <1>5, <1>6, <1>7
<1> QED
  BY <1>8 DEF Goal

LEMMA FormedNext ==
    ASSUME TypeOK, InHandOnly, Formed, Apart, [Next]_vars
    PROVE  Formed' /\ Apart'
<1>a. req \in [Request -> RequestState] /\ row \in [Job -> CronRow]
  BY DEF TypeOK
<1>b. RowsKept
  <2>1. UNCHANGED vars => RowsKept
    BY DEF vars, table, RowsKept
  <2> QED
    BY <2>1, RowsKeptNext
<1>c. \A q \in Request : req'[q] = req[q] => Well(req[q])'
  BY <1>b DEF Formed, Well, RowsKept, Editing
<1>d. 0 \notin Job /\ Well(Idle)'
  BY CronConstantsOK DEF Well, Idle, Editing
<1>e. ASSUME NEW r \in Request, NEW s, Begin(r, s), Well(s)'
      PROVE  Formed' /\ Apart'
  BY <1>c, <1>e, BeginsApart DEF Formed, Others
<1>1. ASSUME NEW r \in Request, Working(r) \/ Ignored(r) \/ Abandon(r)
      PROVE  Formed' /\ Apart'
  <2>1. Others(r) /\ (req'[r] = Idle \/ GoesOn(r))
    BY <1>1, WorkingMoves
  <2>2. GoesOn(r) => Well(req[r])'
    BY <1>b DEF Formed, Well, RowsKept, GoesOn, Editing
  <2>3. mishaps \subseteq mishaps'
    <3>1. CASE Ignored(r) \/ Abandon(r)
      BY <3>1 DEF Ignored, Abandon, Mishap
    <3>2. CASE Working(r)
      BY <3>2, RequestsSteady
    <3> QED
      BY <1>1, <3>1, <3>2
  <2> QED
    BY <1>c, <1>d, <2>1, <2>2, <2>3, MovesApart DEF Formed, Others
<1>2. ASSUME NEW r \in Request, Asking(r)
      PROVE  Formed' /\ Apart'
  <2>1. ASSUME NEW j \in Job, NEW p \in Period, NEW g, Create(r, j, p, g)
        PROVE  Formed' /\ Apart'
    <3> DEFINE s == [Idle EXCEPT !.at = "clear", !.j = j, !.fields = g, !.give = g]
    <3>1. s.at = "clear" /\ s.j = j /\ s.backup = FALSE
      BY DEF Idle
    <3>2. row'[j].st = "active" /\ row'[j].backup = FALSE
      BY <1>a, <2>1 DEF Create, NewRow
    <3>3. Well(s)'
      BY <3>1, <3>2 DEF Well, Editing
    <3> QED
      BY <1>e, <2>1, <3>3 DEF Create
  <2>2. ASSUME NEW j \in Job, NEW st, NEW p, NEW f, NEW g, ReadForUpdate(r, j, st, p, f, g)
        PROVE  Formed' /\ Apart'
    <3> DEFINE s == [Idle EXCEPT !.at = "update", !.j = j, !.st = st, !.period = p,
                                 !.next = NextRun(st, p), !.fields = f, !.give = g,
                                 !.backup = row[j].backup]
    <3>1. s.at = "update" /\ s.j = j /\ s.backup = row[j].backup
      BY DEF Idle
    <3>2. UNCHANGED row /\ row[j].st # "none" /\ Begin(r, s)
      BY <2>2 DEF ReadForUpdate, There, table
    <3>3. PICK t : t = s
      OBVIOUS
    <3>4. Well(t)'
      BY <3>1, <3>2, <3>3 DEF Well, Editing
    <3> QED
      BY <1>e, <3>2, <3>3, <3>4
  <2>3. ASSUME NEW j \in Job, ReadForDelete(r, j)
        PROVE  Formed' /\ Apart'
    <3>0. PICK s : s = [Idle EXCEPT !.at = IF row[j].backup THEN "unflag" ELSE "delete",
                                    !.j = j, !.backup = row[j].backup]
      OBVIOUS
    <3>1. /\ Begin(r, s) /\ s.j = j /\ s.backup = row[j].backup
          /\ s.at = IF row[j].backup THEN "unflag" ELSE "delete"
      <4>1. Begin(r, s)
        BY <2>3, <3>0 DEF ReadForDelete
      <4> QED
        BY <3>0, <4>1 DEF Idle
    <3>2. UNCHANGED row /\ row[j].st # "none"
      BY <2>3 DEF ReadForDelete, There, table
    <3>3. row[j].backup \in BOOLEAN
      BY <1>a DEF CronRow
    <3>4. Well(s)'
      BY <3>1, <3>2, <3>3 DEF Well, Editing
    <3> QED
      BY <1>e, <3>1, <3>4
  <2>4. ASSUME NEW on \in BOOLEAN, Set(r, on) \/ Boot(r)
        PROVE  Formed' /\ Apart'
    <3>1. PICK s : /\ Begin(r, s)
                   /\ \/ s = [Idle EXCEPT !.at = IF on THEN "ensure" ELSE "remove", !.backup = TRUE]
                      \/ s = [Idle EXCEPT !.at = "ensure", !.st = "boot", !.backup = TRUE]
      BY <2>4, Zenon DEF Set, Boot
    <3>2. s.j = 0 /\ s.backup /\ s.at \in {"ensure", "remove"}
      BY <3>1 DEF Idle
    <3>3. Well(s)'
      BY <3>2 DEF Well, Editing
    <3> QED
      BY <1>e, <3>1, <3>3
  <2> QED
    BY <1>2, <2>1, <2>2, <2>3, <2>4 DEF Asking
<1>3. ASSUME \/ \E p \in Process : \/ TakeLead(p) \/ LoseLead(p) \/ Select(p) \/ Advance(p)
                                   \/ AdvanceFails(p) \/ Spawn(p) \/ Crash(p)
             \/ \E e \in Exec : Dispatch(e) \/ Prepare(e) \/ Work(e) \/ Log(e)
             \/ Tick \/ UNCHANGED vars
      PROVE  Formed' /\ Apart'
  <2>1. UNCHANGED req /\ mishaps \subseteq mishaps'
    BY <1>3, SchedulersSteady
  <2> QED
    BY <1>c, <2>1 DEF Formed, Apart, Alone
<1> QED
  BY <1>1, <1>2, <1>3 DEF Next

\* What a request may ask for
Demand == [st : {"none", "active", "paused", "gone"}, period : Period, env : SUBSET Kind]
Demands == asked \in [Job -> Demand]

LEMMA DemandsNext ==
    ASSUME TypeOK, Demands, [Next]_vars
    PROVE  Demands'
<1>a. row \in [Job -> CronRow] /\ {} \subseteq Kind /\ BackupPeriod \in Period
  BY CronConstantsOK DEF TypeOK
<1>b. UNCHANGED asked => Demands'
  BY DEF Demands
<1>c. ASSUME NEW j, NEW st \in {"active", "paused", "gone"}, NEW p \in Period,
             NEW g \in SUBSET Kind, Ask(j, st, p, g)
      PROVE  Demands'
  BY <1>c DEF Ask, Demands, Demand
<1>1. ASSUME NEW r \in Request, Asking(r)
      PROVE  Demands'
  <2>1. ASSUME NEW j \in Job, NEW p \in Period, NEW g \in SUBSET Kind, Create(r, j, p, g)
        PROVE  Demands'
    BY <1>c, <2>1 DEF Create
  <2>2. ASSUME NEW j \in Job, NEW st \in {"active", "paused"}, NEW p \in Period,
               NEW f, NEW g \in SUBSET Kind, ReadForUpdate(r, j, st, p, f, g)
        PROVE  Demands'
    <3>1. (row[j].env \ f) \cup g \in SUBSET Kind
      BY <1>a DEF CronRow
    <3> QED
      BY <1>c, <2>2, <3>1 DEF ReadForUpdate
  <2>3. ASSUME NEW j \in Job, ReadForDelete(r, j)
        PROVE  Demands'
    <3>1. row[j].period \in Period
      BY <1>a DEF CronRow
    <3> QED
      BY <1>a, <1>c, <2>3, <3>1 DEF ReadForDelete
  <2>4. ASSUME NEW on, Set(r, on) \/ Boot(r)
        PROVE  Demands'
    BY <1>b, <2>4 DEF Set, Boot
  <2>5. \A j \in Job : row[j].period \in Period /\ (There(j) => row[j].st \in {"active", "paused"})
    BY <1>a DEF CronRow, There
  <2>6. {{}, Kind} \subseteq SUBSET Kind /\ {{}, {"var"}} \subseteq SUBSET Kind
    BY DEF Kind
  <2>7. ASSUME NEW j, NEW st, NEW p, NEW f, NEW g, ReadForUpdate(r, j, st, p, f, g)
        PROVE  There(j)
    BY <2>7 DEF ReadForUpdate
  <2> QED
    BY <1>1, <2>1, <2>2, <2>3, <2>4, <2>5, <2>6, <2>7 DEF Asking
<1>2. ASSUME NEW r \in Request, Working(r) \/ Ignored(r) \/ Abandon(r)
      PROVE  Demands'
  <2>1. CASE InsertBackup(r)
    BY <1>a, <1>c, <2>1 DEF InsertBackup
  <2>2. CASE RemoveBackup(r)
    <3>1. \A j \in Job : [asked[j] EXCEPT !.st = "gone"] \in Demand
      BY DEF Demands, Demand
    <3> QED
      BY <2>2, <3>1 DEF RemoveBackup, Demands
  <2> QED
    BY <1>2, <1>b, <2>1, <2>2 DEF Working, Ignored, Abandon, WriteRow, Clear, Put, Answer,
       Unflag, DeleteRow, Ensure, ghosts
<1> QED
  BY <1>1, <1>2, <1>b, SchedulersSteady DEF Next

\* A step that leaves the rows as they are, but for occurrences moved along a schedule
LEMMA AskedSteady ==
    ASSUME Asked, UNCHANGED asked, mishaps \subseteq mishaps',
           \A q \in Request : req'[q] = req[q] \/ (req[q].j = 0 /\ req'[q].j = 0),
           Calm' => \A j \in Job :
              /\ row'[j].st = row[j].st /\ row'[j].period = row[j].period /\ row'[j].env = row[j].env
              /\ row'[j].next = row[j].next \/ Proper(row'[j].st, row'[j].period, row'[j].next)
    PROVE  Asked'
<1> SUFFICES ASSUME Calm'
             PROVE  /\ \A r \in Request : req'[r].j \in Job => Stage(req[r], req[r].j)'
                    /\ \A j \in Job : RowProper(j)' /\ ((\A r \in Request : req'[r].j # j) => Settled(j)')
  BY DEF Asked
<1>a. 0 \notin Job
  BY CronConstantsOK
<1>1. Calm
  BY DEF Calm, Except
<1>2. ASSUME NEW r \in Request, req'[r].j \in Job
      PROVE  Stage(req[r], req[r].j)'
  <2>1. PICK j \in Job : j = req'[r].j
    BY <1>2
  <2>2. req'[r] = req[r] /\ Stage(req[r], j)
    BY <1>a, <1>1, <1>2, <2>1 DEF Asked
  <2>3. Stage(req[r], j)'
    BY <2>2 DEF Stage, There, Written, Given
  <2> QED
    BY <2>1, <2>3
<1>3. ASSUME NEW j \in Job
      PROVE  RowProper(j)' /\ ((\A r \in Request : req'[r].j # j) => Settled(j)')
  BY <1>a, <1>1, <1>3 DEF Asked, RowProper, Settled, Written, There, Proper
<1> QED
  BY <1>2, <1>3

\* A step of one request, which alone is about the job whose row it writes
LEMMA AskedLocal ==
    ASSUME Asked, mishaps \subseteq mishaps', NEW r \in Request, NEW k \in Job, Others(r),
           \A j \in Job \ {k} : row'[j] = row[j] /\ asked'[j] = asked[j],
           req[r].j \in {0, k}, req'[r].j \in {0, k},
           Calm' => /\ \A q \in Request \ {r} : req[q].j # k
                    /\ RowProper(k)'
                    /\ req'[r].j = k => Stage(req[r], k)'
                    /\ req'[r].j = 0 => Settled(k)'
    PROVE  Asked'
<1> SUFFICES ASSUME Calm'
             PROVE  /\ \A q \in Request : req'[q].j \in Job => Stage(req[q], req[q].j)'
                    /\ \A j \in Job : RowProper(j)' /\ ((\A q \in Request : req'[q].j # j) => Settled(j)')
  BY DEF Asked
<1>a. 0 \notin Job
  BY CronConstantsOK
<1>1. Calm
  BY DEF Calm, Except
<1>2. ASSUME NEW q \in Request, req'[q].j \in Job
      PROVE  Stage(req[q], req[q].j)'
  <2>1. PICK j \in Job : j = req'[q].j
    BY <1>2
  <2>2. CASE q = r
    BY <1>a, <2>1, <2>2
  <2>3. CASE q # r
    <3>1. req'[q] = req[q] /\ j # k /\ Stage(req[q], j)
      BY <1>1, <2>1, <2>3 DEF Asked, Others
    <3>2. Stage(req[q], j)'
      BY <3>1 DEF Stage, There, Written, Given
    <3> QED
      BY <2>1, <3>2
  <2> QED
    BY <2>2, <2>3
<1>3. ASSUME NEW j \in Job
      PROVE  RowProper(j)' /\ ((\A q \in Request : req'[q].j # j) => Settled(j)')
  <2>1. CASE j = k
    BY <2>1
  <2>2. CASE j # k
    <3>1. RowProper(j)'
      BY <1>1, <2>2 DEF Asked, RowProper, There
    <3>2. ASSUME \A q \in Request : req'[q].j # j
          PROVE  Settled(j)'
      <4>1. \A q \in Request : req[q].j # j
        BY <1>a, <2>2, <3>2 DEF Others
      <4> QED
        BY <1>1, <2>2, <4>1 DEF Asked, Settled, Written, There
    <3> QED
      BY <3>1, <3>2
  <2> QED
    BY <2>1, <2>2
<1> QED
  BY <1>2, <1>3

\* No request is about a job that is not there yet, and none but r about its own
LEMMA NoneAbout ==
    ASSUME Asked, Calm, NEW k \in Job, row[k].st = "none"
    PROVE  \A q \in Request : req[q].j # k
BY DEF Asked, Stage, There

LEMMA OnlyOneAbout ==
    ASSUME Apart, "overlap" \notin mishaps, NEW r \in Request, req[r].j \in Job
    PROVE  \A q \in Request \ {r} : req[q].j # req[r].j
<1>1. \A q \in Request : req[q].j \in Job => req[q] # Idle
  BY CronConstantsOK DEF Idle
<1> QED
  BY <1>1 DEF Apart, Alone

LEMMA UpcomingProper ==
    ASSUME NEW p \in Nat \ {0}, NEW t \in Nat
    PROVE  Upcoming(p, t) > 0 /\ Upcoming(p, t) % p = 0
<1>1. t \div p \in Nat
  OBVIOUS
<1>2. \A n \in Nat : (n * p) % p = 0
  OBVIOUS
<1>3. Upcoming(p, t) > 0
  BY UpcomingLater, UpcomingTyped
<1> QED
  BY <1>1, <1>2, <1>3 DEF Upcoming

LEMMA NewRowProper ==
    ASSUME TypeOK, NEW k \in Job, NEW p \in Period, NEW b \in BOOLEAN,
           row' = [row EXCEPT ![k] = NewRow(p, b)]
    PROVE  /\ RowProper(k)' /\ row'[k].st = "active" /\ row'[k].period = p /\ row'[k].env = {}
           /\ There(k)'
<1>1. Upcoming(p, now) > 0 /\ Upcoming(p, now) % p = 0
  BY UpcomingProper, CronConstantsOK DEF TypeOK
<1> QED
  BY <1>1 DEF TypeOK, NewRow, RowProper, Proper, There

LEMMA AskedAsking ==
    ASSUME TypeOK, InHandOnly, Formed, Apart, Demands, Asked, NEW r \in Request, Asking(r)
    PROVE  Asked'
<1>a. /\ req \in [Request -> RequestState] /\ row \in [Job -> CronRow] /\ now \in Nat
      /\ 0 \notin Job /\ DOMAIN asked = Job /\ asked = [j \in Job |-> asked[j]]
  BY CronConstantsOK DEF TypeOK, Demands
<1>b. Calm' => Calm /\ "overlap" \notin mishaps'
  BY RequestsSteady DEF Calm, Except
<1>c. Idle.j = 0 /\ \A q \in Request : req[q].j \in Job => req[q] # Idle
  BY <1>a DEF Idle
<1>1. ASSUME NEW j \in Job, NEW p \in Period, NEW g \in SUBSET Kind, Create(r, j, p, g)
      PROVE  Asked'
  <2>1. PICK s : s = [Idle EXCEPT !.at = "clear", !.j = j, !.fields = g, !.give = g]
    OBVIOUS
  <2>2. /\ Begin(r, s) /\ row' = [row EXCEPT ![j] = NewRow(p, FALSE)] /\ row[j].st = "none"
        /\ Ask(j, "active", p, g)
    BY <1>1, <2>1 DEF Create, Unused
  <2>3. s.at = "clear" /\ s.j = j /\ s.fields = g /\ s.give = g
    BY <2>1 DEF Idle
  <2>4. Others(r) /\ req[r] = Idle /\ req'[r] = s /\ mishaps \subseteq mishaps'
    BY <2>2, BeginsApart
  <2>5. RowProper(j)' /\ row'[j].st = "active" /\ row'[j].period = p /\ row'[j].env = {} /\ There(j)'
    BY <2>2, NewRowProper
  <2>6. \A i \in Job \ {j} : row'[i] = row[i] /\ asked'[i] = asked[i]
    BY <1>a, <2>2 DEF Ask
  <2>7. asked'[j].st = "active" /\ asked'[j].period = p /\ asked'[j].env = g
    BY <1>a, <2>2 DEF Ask
  <2>8. Stage(req[r], j)'
    BY <2>3, <2>4, <2>5, <2>7 DEF Stage, Written, Given
  <2>9. Calm' => \A q \in Request \ {r} : req[q].j # j
    BY <1>b, <2>2, NoneAbout
  <2> QED
    BY <1>a, <1>c, <2>3, <2>4, <2>5, <2>6, <2>8, <2>9, AskedLocal
<1>2. ASSUME NEW j \in Job, NEW st \in {"active", "paused"}, NEW p \in Period,
             NEW f \in SUBSET Kind, NEW g \in SUBSET Kind, ReadForUpdate(r, j, st, p, f, g)
      PROVE  Asked'
  <2>1. PICK s : s = [Idle EXCEPT !.at = "update", !.j = j, !.st = st, !.period = p,
                                  !.next = NextRun(st, p), !.fields = f, !.give = g,
                                  !.backup = row[j].backup]
    OBVIOUS
  <2>2. /\ Begin(r, s) /\ UNCHANGED row /\ There(j) /\ g \subseteq f
        /\ Ask(j, st, p, (row[j].env \ f) \cup g)
    BY <1>2, <2>1 DEF ReadForUpdate, table
  <2>3. /\ s.at = "update" /\ s.j = j /\ s.fields = f /\ s.give = g
        /\ s.st = st /\ s.period = p /\ s.next = NextRun(st, p)
    BY <2>1 DEF Idle
  <2>4. /\ Others(r) /\ req[r] = Idle /\ req'[r] = s /\ mishaps \subseteq mishaps'
        /\ "overlap" \notin mishaps' => \A q \in Request \ {r} : req[q] # Idle => req[q].j # s.j
    BY <2>2, BeginsApart
  <2>5. Proper(st, p, NextRun(st, p))
    BY <1>a, UpcomingProper, CronConstantsOK DEF Proper, NextRun
  <2>6. \A i \in Job \ {j} : row'[i] = row[i] /\ asked'[i] = asked[i]
    BY <1>a, <2>2 DEF Ask
  <2>7. asked'[j].st = st /\ asked'[j].period = p /\ asked'[j].env = (row[j].env \ f) \cup g
    BY <1>a, <2>2 DEF Ask
  <2>8. (row[j].env \ f) \cup g = Given(s, row[j].env)
    BY <2>2, <2>3 DEF Given
  <2>9. Stage(req[r], j)'
    BY <2>2, <2>3, <2>4, <2>5, <2>7, <2>8 DEF Stage, Given, There
  <2>10. Calm' => \A q \in Request \ {r} : req[q].j # j
    BY <1>b, <1>c, <2>3, <2>4
  <2>11. Calm' => RowProper(j)'
    BY <1>b, <2>2 DEF Asked, RowProper, There
  <2> QED
    BY <1>a, <1>c, <2>3, <2>4, <2>6, <2>9, <2>10, <2>11, AskedLocal
<1>3. ASSUME NEW j \in Job, ReadForDelete(r, j)
      PROVE  Asked'
  <2>1. PICK s : s = [Idle EXCEPT !.at = IF row[j].backup THEN "unflag" ELSE "delete",
                                  !.j = j, !.backup = row[j].backup]
    OBVIOUS
  <2>2. Begin(r, s) /\ UNCHANGED row /\ There(j) /\ Ask(j, "gone", row[j].period, {})
    BY <1>3, <2>1 DEF ReadForDelete, table
  <2>3. s.at \in {"unflag", "delete"} /\ s.j = j
    BY <2>1 DEF Idle
  <2>4. /\ Others(r) /\ req[r] = Idle /\ req'[r] = s /\ mishaps \subseteq mishaps'
        /\ "overlap" \notin mishaps' => \A q \in Request \ {r} : req[q] # Idle => req[q].j # s.j
    BY <2>2, BeginsApart
  <2>5. \A i \in Job \ {j} : row'[i] = row[i] /\ asked'[i] = asked[i]
    BY <1>a, <2>2 DEF Ask
  <2>6. asked'[j].st = "gone"
    BY <1>a, <2>2 DEF Ask
  <2>7. Stage(req[r], j)'
    BY <2>2, <2>3, <2>4, <2>6 DEF Stage, There
  <2>8. Calm' => \A q \in Request \ {r} : req[q].j # j
    BY <1>b, <1>c, <2>3, <2>4
  <2>9. Calm' => RowProper(j)'
    BY <1>b, <2>2 DEF Asked, RowProper, There
  <2> QED
    BY <1>a, <1>c, <2>3, <2>4, <2>5, <2>7, <2>8, <2>9, AskedLocal
<1>4. ASSUME NEW on \in BOOLEAN, Set(r, on) \/ Boot(r)
      PROVE  Asked'
  <2>1. UNCHANGED <<row, asked>>
    BY <1>4 DEF Set, Boot, table
  <2>2. PICK s : /\ Begin(r, s)
                 /\ \/ s = [Idle EXCEPT !.at = IF on THEN "ensure" ELSE "remove", !.backup = TRUE]
                    \/ s = [Idle EXCEPT !.at = "ensure", !.st = "boot", !.backup = TRUE]
    BY <1>4, Zenon DEF Set, Boot
  <2>3. s.j = 0
    BY <2>2 DEF Idle
  <2>4. Others(r) /\ req[r] = Idle /\ req'[r] = s /\ mishaps \subseteq mishaps'
    BY <2>2, BeginsApart
  <2> QED
    BY <1>c, <2>1, <2>3, <2>4, AskedSteady DEF Others
<1>5. \A j \in Job : row[j].period \in Period /\ (There(j) => row[j].st \in {"active", "paused"})
  BY <1>a DEF CronRow, There
<1>6. {{}, Kind} \subseteq SUBSET Kind /\ {{}, {"var"}} \subseteq SUBSET Kind
  BY DEF Kind
<1>7. ASSUME NEW j, NEW st, NEW p, NEW f, NEW g, ReadForUpdate(r, j, st, p, f, g)
      PROVE  There(j)
  BY <1>7 DEF ReadForUpdate
<1> QED
  BY <1>1, <1>2, <1>3, <1>4, <1>5, <1>6, <1>7 DEF Asking

LEMMA GoesTo ==
    ASSUME TypeOK, NEW r \in Request, NEW l, Goto(r, l)
    PROVE  /\ Others(r) /\ req'[r].at = l /\ req'[r].j = req[r].j /\ req'[r].st = req[r].st
           /\ req'[r].period = req[r].period /\ req'[r].next = req[r].next
           /\ req'[r].fields = req[r].fields /\ req'[r].give = req[r].give
           /\ req'[r].backup = req[r].backup
BY DEF TypeOK, Goto, Others, RequestState

LEMMA Ends ==
    ASSUME TypeOK, NEW r \in Request, End(r)
    PROVE  Others(r) /\ req'[r] = Idle /\ Idle.j = 0 /\ ~Idle.backup
BY DEF TypeOK, End, Others, Idle

LEMMA AskedEditing ==
    ASSUME TypeOK, InHandOnly, Formed, Apart, Demands, Asked, NEW r \in Request,
           WriteRow(r) \/ Clear(r) \/ Put(r) \/ Answer(r) \/ Unflag(r) \/ DeleteRow(r)
           \/ (req[r].at = "unflag" /\ Ignored(r))
    PROVE  Asked'
<1>a. /\ req \in [Request -> RequestState] /\ row \in [Job -> CronRow] /\ 0 \notin Job
  BY CronConstantsOK DEF TypeOK
<1>b. mishaps \subseteq mishaps' /\ UNCHANGED asked
  BY DEF WriteRow, Clear, Put, Answer, Unflag, DeleteRow, Ignored, ghosts, Mishap
<1>c. Calm' => Calm /\ "overlap" \notin mishaps
  BY <1>b DEF Calm, Except
<1>d. PICK k \in Job : k = req[r].j /\ row[k].st # "none"
  BY DEF Formed, Well, Editing, WriteRow, Clear, Put, Answer, Unflag, DeleteRow
<1>e. Calm' => /\ \A q \in Request \ {r} : req[q].j # k
               /\ Stage(req[r], k) /\ RowProper(k) /\ There(k)
  BY <1>c, <1>d, OnlyOneAbout DEF Asked, Stage
<1>f. row[k] \in CronRow /\ req[r] \in RequestState
  BY <1>a
<1>g. ASSUME NEW l \in {"clear", "put", "delete"}, Goto(r, l),
             \A j \in Job \ {k} : row'[j] = row[j],
             Calm' => RowProper(k)' /\ Stage(req[r], k)'
      PROVE  Asked'
  <2>1. Others(r) /\ req'[r].j = k
    BY <1>d, <1>g, GoesTo
  <2> QED
    BY <1>a, <1>b, <1>d, <1>e, <1>g, <2>1, AskedLocal
<1>h. ASSUME End(r), \A j \in Job \ {k} : row'[j] = row[j], Calm' => RowProper(k)' /\ Settled(k)'
      PROVE  Asked'
  <2>1. Others(r) /\ req'[r].j = 0
    BY <1>h, Ends
  <2> QED
    BY <1>a, <1>b, <1>d, <1>e, <1>h, <2>1, AskedLocal
<1>1. CASE WriteRow(r)
  <2>1. Goto(r, "clear") /\ req[r].at = "update"
    BY <1>1 DEF WriteRow
  <2>2. row' = IF There(k)
               THEN [row EXCEPT ![k].st = req[r].st, ![k].period = req[r].period, ![k].next = req[r].next]
               ELSE row
    BY <1>1, <1>d DEF WriteRow
  <2>3. \A j \in Job \ {k} : row'[j] = row[j]
    BY <1>a, <2>2
  <2>4. There(k) => /\ row'[k].st = req[r].st /\ row'[k].period = req[r].period
                    /\ row'[k].next = req[r].next /\ row'[k].env = row[k].env
    BY <1>a, <1>f, <2>2 DEF CronRow
  <2>5. req[r].st \in {"active", "paused"}
    BY <2>1 DEF InHandOnly
  <2>6. ASSUME Calm'
        PROVE  RowProper(k)' /\ Stage(req[r], k)'
    <3>1. /\ asked[k].st = req[r].st /\ asked[k].period = req[r].period
          /\ asked[k].env = Given(req[r], row[k].env) /\ There(k)
          /\ Proper(req[r].st, req[r].period, req[r].next)
      BY <1>e, <2>1, <2>6 DEF Stage
    <3>2. Given(req[r], row[k].env)' = Given(req[r], row[k].env)
      BY <2>1, <2>4, <3>1, GoesTo DEF Given
    <3>3. There(k)' /\ Written(k)' /\ RowProper(k)'
      BY <1>b, <2>4, <2>5, <3>1 DEF There, Written, RowProper
    <3> QED
      BY <1>b, <2>1, <3>1, <3>2, <3>3, GoesTo DEF Stage
  <2> QED
    BY <1>g, <2>1, <2>3, <2>6
<1>2. CASE Clear(r)
  <2>1. Goto(r, "put") /\ req[r].at = "clear" /\ req[r].fields # {}
    BY <1>2 DEF Clear
  <2>2. row' = [row EXCEPT ![k].env = @ \ {First(req[r].fields)}]
    BY <1>2, <1>d DEF Clear
  <2>3. \A j \in Job \ {k} : row'[j] = row[j]
    BY <1>a, <2>2
  <2>4. /\ row'[k].st = row[k].st /\ row'[k].period = row[k].period /\ row'[k].next = row[k].next
        /\ row'[k].env = row[k].env \ {First(req[r].fields)}
    BY <1>a, <1>f, <2>2 DEF CronRow
  <2>5. First(req[r].fields) \in req[r].fields
    BY <1>f, <2>1 DEF First, RequestState, Kind
  <2>6. ASSUME Calm'
        PROVE  RowProper(k)' /\ Stage(req[r], k)'
    <3>1. Written(k) /\ asked[k].env = Given(req[r], row[k].env) /\ There(k)
      BY <1>e, <2>1, <2>6 DEF Stage
    <3>2. Given(req[r], row[k].env)' = Given(req[r], row[k].env)
      BY <2>1, <2>4, <2>5, GoesTo DEF Given
    <3>3. There(k)' /\ Written(k)' /\ RowProper(k)'
      BY <1>b, <1>e, <2>4, <2>6, <3>1 DEF There, Written, RowProper
    <3> QED
      BY <1>b, <2>1, <2>4, <3>1, <3>2, <3>3, GoesTo DEF Stage
  <2> QED
    BY <1>g, <2>1, <2>3, <2>6
<1>3. CASE Put(r)
  <2> DEFINE x == First(req[r].fields)
  <2>1. req[r].at = "put"
    BY <1>3 DEF Put
  <2>2. CASE ~There(k)
    <3>1. End(r) /\ UNCHANGED row /\ ~Calm'
      BY <1>3, <1>d, <1>e, <2>2 DEF Put
    <3> QED
      BY <3>1 DEF Asked
  <2>3. CASE There(k)
    <3>1. /\ row' = [row EXCEPT ![k].env = @ \cup ({x} \cap req[r].give)]
          /\ req' = [req EXCEPT ![r].at = "clear", ![r].fields = req[r].fields \ {x}]
      BY <1>3, <1>d, <2>3 DEF Put
    <3>2. \A j \in Job \ {k} : row'[j] = row[j]
      BY <1>a, <3>1
    <3>3. /\ row'[k].st = row[k].st /\ row'[k].period = row[k].period /\ row'[k].next = row[k].next
          /\ row'[k].env = row[k].env \cup ({x} \cap req[r].give)
      BY <1>a, <1>f, <3>1 DEF CronRow
    <3>4. /\ Others(r) /\ req'[r].at = "clear" /\ req'[r].j = k
          /\ req'[r].fields = req[r].fields \ {x} /\ req'[r].give = req[r].give
      BY <1>a, <1>d, <1>f, <3>1 DEF Others, RequestState
    <3>5. ASSUME Calm'
          PROVE  RowProper(k)' /\ Stage(req[r], k)'
      <4>1. /\ Written(k) /\ asked[k].env = Given(req[r], row[k].env)
            /\ req[r].fields # {} /\ x \notin row[k].env
        BY <1>e, <2>1, <3>5 DEF Stage
      <4>2. x \in req[r].fields
        BY <1>f, <4>1 DEF First, RequestState, Kind
      <4>3. Given(req[r], row[k].env)' = Given(req[r], row[k].env)
        BY <3>3, <3>4, <4>1, <4>2 DEF Given
      <4>4. There(k)' /\ Written(k)' /\ RowProper(k)'
        BY <1>b, <1>e, <2>3, <3>3, <3>5, <4>1 DEF There, Written, RowProper
      <4> QED
        BY <1>b, <3>4, <4>1, <4>3, <4>4 DEF Stage
    <3> QED
      BY <1>a, <1>b, <1>d, <1>e, <3>2, <3>4, <3>5, AskedLocal
  <2> QED
    BY <2>2, <2>3
<1>4. CASE Answer(r)
  <2>1. End(r) /\ UNCHANGED row /\ req[r].at = "clear" /\ req[r].fields = {}
    BY <1>4 DEF Answer, table
  <2>2. ASSUME Calm'
        PROVE  RowProper(k)' /\ Settled(k)'
    <3>1. Written(k) /\ asked[k].env = Given(req[r], row[k].env)
      BY <1>e, <2>1, <2>2 DEF Stage
    <3>2. Given(req[r], row[k].env) = row[k].env
      BY <2>1 DEF Given
    <3> QED
      BY <1>b, <1>e, <2>1, <2>2, <3>1, <3>2 DEF Settled, Written, RowProper, There
  <2> QED
    BY <1>h, <2>1, <2>2
<1>5. CASE Unflag(r) \/ (req[r].at = "unflag" /\ Ignored(r))
  <2>1. Goto(r, "delete") /\ UNCHANGED row /\ req[r].at = "unflag"
    BY <1>5 DEF Unflag, Ignored, table
  <2>2. req'[r].at = "delete"
    BY <2>1, GoesTo
  <2>3. Calm' => RowProper(k)' /\ Stage(req[r], k)'
    BY <1>b, <1>e, <2>1, <2>2 DEF Stage, There, RowProper
  <2> QED
    BY <1>g, <2>1, <2>3
<1>6. CASE DeleteRow(r)
  <2>1. End(r) /\ row' = [row EXCEPT ![k] = Delete(k)] /\ req[r].at = "delete"
    BY <1>6, <1>d DEF DeleteRow
  <2>2. (\A j \in Job \ {k} : row'[j] = row[j]) /\ row'[k].st = "gone"
    BY <1>a, <1>f, <2>1 DEF Delete, CronRow
  <2>3. Calm' => RowProper(k)' /\ Settled(k)'
    BY <1>b, <1>e, <2>1, <2>2 DEF Stage, Settled, Written, RowProper, There
  <2> QED
    BY <1>h, <2>1, <2>2, <2>3
<1> QED
  BY <1>1, <1>2, <1>3, <1>4, <1>5, <1>6

LEMMA AskedBackups ==
    ASSUME TypeOK, InHandOnly, Formed, Apart, Demands, Asked, NEW r \in Request,
           \/ Ensure(r) \/ InsertBackup(r) \/ RemoveBackup(r) \/ Abandon(r)
           \/ req[r].at # "unflag" /\ Ignored(r)
    PROVE  Asked'
<1>a. /\ req \in [Request -> RequestState] /\ row \in [Job -> CronRow] /\ 0 \notin Job
      /\ asked = [j \in Job |-> asked[j]]
  BY CronConstantsOK DEF TypeOK, Demands
<1>1. CASE Abandon(r)
  BY <1>1 DEF Abandon, Mishap, Asked, Calm, Except
<1>2. CASE Ensure(r) \/ (req[r].at # "unflag" /\ Ignored(r))
  <2>1. UNCHANGED <<row, asked>> /\ mishaps \subseteq mishaps' /\ (Goto(r, "insert") \/ End(r))
    BY <1>2 DEF Ensure, Ignored, table, ghosts, Mishap
  <2>2. req[r].j = 0
    BY <1>2 DEF Ensure, Ignored, Formed, Well
  <2>3. Others(r) /\ req'[r].j = 0
    BY <2>1, <2>2, GoesTo, Ends
  <2> QED
    BY <2>1, <2>2, <2>3, AskedSteady DEF Others
<1>3. CASE InsertBackup(r)
  <2>1. PICK k \in Job : /\ row[k].st = "none" /\ row' = [row EXCEPT ![k] = NewRow(BackupPeriod, TRUE)]
                         /\ Ask(k, "active", BackupPeriod, {})
    BY <1>3 DEF InsertBackup, Unused
  <2>2. UNCHANGED mishaps /\ req[r].j = 0 /\ Others(r) /\ req'[r].j = 0
    BY <1>3, Ends DEF InsertBackup, Formed, Well
  <2>3. /\ RowProper(k)' /\ row'[k].st = "active" /\ row'[k].period = BackupPeriod /\ row'[k].env = {}
        /\ There(k)'
    BY <2>1, NewRowProper, CronConstantsOK
  <2>4. /\ \A j \in Job \ {k} : row'[j] = row[j] /\ asked'[j] = asked[j]
        /\ asked'[k].st = "active" /\ asked'[k].period = BackupPeriod /\ asked'[k].env = {}
    BY <1>a, <2>1 DEF Ask
  <2>5. Settled(k)'
    BY <2>3, <2>4 DEF Settled, Written
  <2>6. Calm' => \A q \in Request \ {r} : req[q].j # k
    BY <2>1, <2>2, NoneAbout DEF Calm, Except
  <2> QED
    BY <1>a, <2>2, <2>3, <2>4, <2>5, <2>6, AskedLocal
<1>4. CASE RemoveBackup(r)
  <2>1. /\ row' = [j \in Job |-> IF j \in Backups THEN Delete(j) ELSE row[j]]
        /\ asked' = [j \in Job |-> IF j \in Backups THEN [asked[j] EXCEPT !.st = "gone"] ELSE asked[j]]
        /\ UNCHANGED mishaps /\ req[r].j = 0 /\ req[r].backup /\ req[r] # Idle /\ Others(r) /\ req'[r].j = 0
    BY <1>4, Ends DEF RemoveBackup, Formed, Well, Idle
  <2> SUFFICES ASSUME Calm'
               PROVE  /\ \A q \in Request : req'[q].j \in Job => Stage(req[q], req[q].j)'
                      /\ \A j \in Job : RowProper(j)' /\ ((\A q \in Request : req'[q].j # j) => Settled(j)')
    BY DEF Asked
  <2>2. Calm /\ Alone
    BY <2>1 DEF Calm, Except, Apart
  <2>3. \A j \in Job : \/ j \in Backups /\ row'[j].st = "gone" /\ asked'[j].st = "gone"
                       \/ j \notin Backups /\ row'[j] = row[j] /\ asked'[j] = asked[j]
    <3>1. \A j \in Job : Delete(j).st = "gone" /\ [asked[j] EXCEPT !.st = "gone"].st = "gone"
      BY <1>a DEF Delete, CronRow, Demands, Demand
    <3> QED
      BY <2>1, <3>1
  <2>4. ASSUME NEW q \in Request, req'[q].j \in Job
        PROVE  Stage(req[q], req[q].j)'
    <3>1. PICK j \in Job : j = req'[q].j
      BY <2>4
    <3>2. q # r /\ req'[q] = req[q] /\ req[q] # Idle
      BY <1>a, <2>1, <2>4 DEF Others, Idle
    <3>3. Stage(req[q], j)
      BY <2>2, <3>1, <3>2 DEF Asked
    <3>4. j \notin Backups
      <4>1. req[q].at \in Editing
        BY <3>3 DEF Stage, Editing
      <4>2. req[q].backup = row[j].backup
        BY <3>1, <3>2, <4>1 DEF Formed, Well
      <4> QED
        BY <2>1, <2>2, <3>2, <4>2 DEF Alone, Backups
    <3>5. Stage(req[q], j)'
      BY <2>3, <3>2, <3>3, <3>4 DEF Stage, There, Written, Given
    <3> QED
      BY <3>1, <3>5
  <2>5. ASSUME NEW j \in Job
        PROVE  RowProper(j)' /\ ((\A q \in Request : req'[q].j # j) => Settled(j)')
    <3>1. CASE j \in Backups
      <4>1. row'[j].st = "gone" /\ asked'[j].st = "gone"
        BY <2>3, <3>1
      <4> QED
        BY <4>1 DEF RowProper, Settled, Written, There
    <3>2. CASE j \notin Backups
      <4>1. row'[j] = row[j] /\ asked'[j] = asked[j]
        BY <2>3, <3>2
      <4>2. (\A q \in Request : req'[q].j # j) => \A q \in Request : req[q].j # j
        BY <1>a, <2>1 DEF Others
      <4> QED
        BY <2>2, <4>1, <4>2 DEF Asked, RowProper, Settled, Written, There
    <3> QED
      BY <3>1, <3>2
  <2> QED
    BY <2>4, <2>5
<1> QED
  BY <1>1, <1>2, <1>3, <1>4

\* An occurrence moves by the schedule that its row has, unless that is stale
LEMMA AskedScheduling ==
    ASSUME TypeOK, Asked,
           \/ \E p \in Process : \/ TakeLead(p) \/ LoseLead(p) \/ Select(p) \/ Advance(p)
                                 \/ AdvanceFails(p) \/ Spawn(p) \/ Crash(p)
           \/ \E e \in Exec : Dispatch(e) \/ Prepare(e) \/ Work(e) \/ Log(e)
           \/ Tick \/ UNCHANGED vars
    PROVE  Asked'
<1>a. UNCHANGED <<flag, req, asked>> /\ mishaps \subseteq mishaps'
  BY SchedulersSteady
<1>b. UNCHANGED row => Asked'
  BY <1>a, AskedSteady
<1>1. ASSUME NEW p \in Process, Advance(p)
      PROVE  Asked'
  <2>1. PICK d \in loop[p].todo :
            /\ row' = Advanced(d)
            /\ "stale" \notin mishaps' => row[d.j].st = "active" /\ row[d.j].period = d.period
    BY <1>1 DEF Advance, Mishap, Named
  <2>2. d.j \in Job /\ d.period \in Period
    BY <2>1 DEF TypeOK, LoopState, Occurrence
  <2>3. Proper("active", d.period, Upcoming(d.period, now))
    <3>1. d.period \in Nat \ {0}
      BY <2>2, CronConstantsOK
    <3>2. now \in Nat
      BY DEF TypeOK
    <3> QED
      BY <3>1, <3>2, UpcomingProper DEF Proper
  <2>4. \A j \in Job :
          /\ row'[j].st = row[j].st /\ row'[j].period = row[j].period /\ row'[j].env = row[j].env
          /\ row'[j].next = row[j].next \/ (j = d.j /\ row'[j].next = Upcoming(d.period, now))
    BY <2>1 DEF Advanced, TypeOK, CronRow
  <2>5. Calm' => "stale" \notin mishaps'
    BY DEF Calm, Except
  <2>6. Calm' => \A j \in Job :
          row'[j].next = row[j].next \/ Proper(row'[j].st, row'[j].period, row'[j].next)
    BY <2>1, <2>3, <2>4, <2>5
  <2> QED
    BY <1>a, <2>4, <2>6, AskedSteady
<1>2. ASSUME NEW p \in Process,
             TakeLead(p) \/ LoseLead(p) \/ Select(p) \/ AdvanceFails(p) \/ Crash(p)
      PROVE  UNCHANGED row
  <2>1. UNCHANGED table
    BY <1>2, Zenon DEF TakeLead, LoseLead, Select, AdvanceFails, Crash
  <2> QED
    BY <2>1 DEF table
<1>3. ASSUME NEW p \in Process, Spawn(p)
      PROVE  UNCHANGED row
  <2>1. UNCHANGED table
    BY <1>3, Zenon DEF Spawn
  <2> QED
    BY <2>1 DEF table
<1>4. ASSUME \/ \E e \in Exec : Dispatch(e) \/ Prepare(e) \/ Work(e) \/ Log(e)
             \/ Tick \/ UNCHANGED vars
      PROVE  UNCHANGED row
  BY <1>4 DEF Dispatch, Prepare, Work, Log, Move, Tick, table, vars
<1> QED
  BY <1>b, <1>1, <1>2, <1>3, <1>4

LEMMA AskedNext ==
    ASSUME TypeOK, InHandOnly, Formed, Apart, Demands, Asked, [Next]_vars
    PROVE  Asked'
BY AskedAsking, AskedEditing, AskedBackups, AskedScheduling DEF Next, Working

-----------------------------------------------------------------------------
(***************************************************************************)
(* The managed backup.  While a request about it is at work, Kept says how *)
(* far the flag and the rows are apart; when none is, they agree.          *)
(***************************************************************************)

LEMMA SameBackups ==
    ASSUME \A j \in Job : There(j)' = There(j) /\ (There(j) => row'[j].backup = row[j].backup)
    PROVE  Backups' = Backups
BY DEF Backups

\* A step that leaves the flag and the backup jobs as they are
LEMMA FlagSteady ==
    ASSUME Flagged, UNCHANGED flag, mishaps \subseteq mishaps', Backups' = Backups,
           \A q \in Request :
              \/ req'[q] = req[q]
              \/ ~req[q].backup /\ ~req'[q].backup
              \/ /\ req[q].backup /\ req'[q].backup
                 /\ req[q].at \in {"update", "clear", "put"} /\ req'[q].at \in {"clear", "put"}
    PROVE  Flagged'
<1> SUFFICES ASSUME Uncut'
             PROVE  /\ \A r \in Request : req'[r].backup => Kept(req[r])'
                    /\ (\A r \in Request : ~req'[r].backup) => OneBackup'
  BY DEF Flagged
<1>1. Uncut
  BY DEF Uncut, Except
<1>2. OneBackup' = OneBackup
  BY DEF OneBackup
<1>3. ASSUME NEW r \in Request, req'[r].backup
      PROVE  Kept(req[r])'
  <2>1. Kept(req[r])
    BY <1>1, <1>3 DEF Flagged
  <2>2. CASE req'[r] = req[r]
    BY <1>2, <2>1, <2>2 DEF Kept
  <2>3. CASE req[r].at \in {"update", "clear", "put"} /\ req'[r].at \in {"clear", "put"}
    BY <1>2, <2>1, <2>3 DEF Kept
  <2> QED
    BY <1>3, <2>2, <2>3
<1>4. (\A r \in Request : ~req'[r].backup) => OneBackup'
  BY <1>1, <1>2 DEF Flagged
<1> QED
  BY <1>3, <1>4

\* A step of the one request that is about the backup
LEMMA FlagLocal ==
    ASSUME NEW r \in Request, Others(r),
           Uncut' => /\ \A q \in Request \ {r} : ~req[q].backup
                     /\ req'[r].backup => Kept(req[r])'
                     /\ ~req'[r].backup => OneBackup'
    PROVE  Flagged'
BY DEF Flagged, Others

LEMMA FlaggedAsking ==
    ASSUME TypeOK, InHandOnly, Formed, Apart, Flagged, NEW r \in Request, Asking(r)
    PROVE  Flagged'
<1>a. row \in [Job -> CronRow] /\ \A q \in Request : req[q].backup => req[q] # Idle
  BY DEF TypeOK, Idle
<1>b. mishaps \subseteq mishaps'
  BY RequestsSteady
<1>c. ASSUME NEW s, Begin(r, s)
      PROVE  /\ Others(r) /\ req[r] = Idle /\ req'[r] = s /\ ~req[r].backup
             /\ Uncut' /\ s.backup = TRUE => OneBackup /\ \A q \in Request \ {r} : ~req[q].backup
  <2>1. /\ Others(r) /\ req[r] = Idle /\ req'[r] = s
        /\ "overlap" \notin mishaps' /\ s.backup => \A q \in Request \ {r} : ~req[q].backup
    BY <1>a, <1>c, BeginsApart
  <2>2. ~req[r].backup
    BY <2>1 DEF Idle
  <2>3. Uncut' => Uncut /\ "overlap" \notin mishaps'
    BY <1>b DEF Uncut, Except
  <2> QED
    BY <2>1, <2>2, <2>3 DEF Flagged
<1>1. ASSUME NEW j \in Job, NEW p, NEW g, Create(r, j, p, g)
      PROVE  Flagged'
  <2>1. PICK s : s = [Idle EXCEPT !.at = "clear", !.j = j, !.fields = g, !.give = g]
    OBVIOUS
  <2>2. /\ Begin(r, s) /\ row' = [row EXCEPT ![j] = NewRow(p, FALSE)] /\ row[j].st = "none"
        /\ UNCHANGED flag
    BY <1>1, <2>1 DEF Create, Unused
  <2>3. ~s.backup
    BY <2>1 DEF Idle
  <2>4. Backups' = Backups
    BY <1>a, <2>2 DEF Backups, There, NewRow
  <2> QED
    BY <1>b, <1>c, <2>2, <2>3, <2>4, FlagSteady DEF Others
<1>2. ASSUME NEW j \in Job, NEW s, Begin(r, s), UNCHANGED table, There(j),
             s.backup = row[j].backup, s.at \in {"update", "unflag", "delete"},
             s.j = j, s.at = "delete" => ~s.backup
      PROVE  Flagged'
  <2>1. UNCHANGED <<row, flag>> /\ Backups' = Backups
    BY <1>2 DEF Backups, There, table
  <2>2. row[j].backup \in BOOLEAN
    BY <1>a DEF CronRow
  <2>3. CASE ~row[j].backup
    BY <1>b, <1>c, <1>2, <2>1, <2>3, FlagSteady DEF Others
  <2>4. CASE row[j].backup = TRUE
    <3>1. j \in Backups
      BY <1>2, <2>4 DEF Backups
    <3>2. OneBackup => flag /\ Backups = {j}
      BY <3>1 DEF OneBackup
    <3>3. Uncut' => OneBackup /\ \A q \in Request \ {r} : ~req[q].backup
      BY <1>c, <1>2, <2>4
    <3>4. s.at \in {"update", "unflag"} /\ req'[r] = s /\ Others(r) /\ s.backup
      BY <1>c, <1>2, <2>4
    <3>5. OneBackup' = OneBackup
      BY <2>1 DEF OneBackup
    <3>6. Uncut' => Kept(req[r])'
      BY <2>1, <3>2, <3>3, <3>4, <3>5, <1>2 DEF Kept
    <3> QED
      BY <3>3, <3>4, <3>6, FlagLocal
  <2> QED
    BY <2>2, <2>3, <2>4
<1>3. ASSUME NEW j \in Job, NEW st, NEW p, NEW f, NEW g, ReadForUpdate(r, j, st, p, f, g)
      PROVE  Flagged'
  <2>1. PICK s : s = [Idle EXCEPT !.at = "update", !.j = j, !.st = st, !.period = p,
                                  !.next = NextRun(st, p), !.fields = f, !.give = g,
                                  !.backup = row[j].backup]
    OBVIOUS
  <2>2. Begin(r, s) /\ UNCHANGED table /\ There(j)
    BY <1>3, <2>1 DEF ReadForUpdate
  <2>3. s.at = "update" /\ s.j = j /\ s.backup = row[j].backup
    BY <2>1 DEF Idle
  <2> QED
    BY <1>2, <2>2, <2>3
<1>4. ASSUME NEW j \in Job, ReadForDelete(r, j)
      PROVE  Flagged'
  <2>1. PICK s : s = [Idle EXCEPT !.at = IF row[j].backup THEN "unflag" ELSE "delete",
                                  !.j = j, !.backup = row[j].backup]
    OBVIOUS
  <2>2. Begin(r, s) /\ UNCHANGED table /\ There(j)
    BY <1>4, <2>1 DEF ReadForDelete
  <2>3. /\ s.at = IF row[j].backup THEN "unflag" ELSE "delete"
        /\ s.j = j /\ s.backup = row[j].backup
    BY <2>1 DEF Idle
  <2> QED
    BY <1>2, <2>2, <2>3
<1>5. ASSUME NEW on \in BOOLEAN, Set(r, on) \/ (Boot(r) /\ on = TRUE)
      PROVE  Flagged'
  <2>1. /\ UNCHANGED row /\ flag' = on
        /\ \E s : /\ Begin(r, s)
                  /\ \/ s = [Idle EXCEPT !.at = IF on THEN "ensure" ELSE "remove", !.backup = TRUE]
                     \/ on = TRUE /\ s = [Idle EXCEPT !.at = "ensure", !.st = "boot", !.backup = TRUE]
    <3>1. CASE Set(r, on)
      BY <3>1, Zenon DEF Set
    <3>2. CASE Boot(r) /\ on = TRUE
      <4>1. UNCHANGED table /\ flag /\ Begin(r, [Idle EXCEPT !.at = "ensure", !.st = "boot", !.backup = TRUE])
        BY <3>2 DEF Boot
      <4>2. UNCHANGED row /\ flag' = on
        BY <3>2, <4>1 DEF table, TypeOK
      <4> QED
        BY <3>2, <4>1, <4>2, Zenon
    <3> QED
      BY <1>5, <3>1, <3>2
  <2>2. PICK s : /\ Begin(r, s) /\ s.backup = TRUE
                 /\ s.at = IF on THEN "ensure" ELSE "remove"
    BY <2>1 DEF Idle
  <2>3. Backups' = Backups
    BY <2>1 DEF Backups, There
  <2>4. Others(r) /\ req'[r] = s /\ (Uncut' => OneBackup /\ \A q \in Request \ {r} : ~req[q].backup)
    BY <1>c, <2>2
  <2>5. OneBackup => Kept(req[r])'
    BY <2>1, <2>2, <2>3, <2>4 DEF Kept, OneBackup
  <2> QED
    BY <2>2, <2>4, <2>5, FlagLocal
<1> QED
  BY <1>1, <1>3, <1>4, <1>5 DEF Asking

LEMMA OnlyOneBackup ==
    ASSUME Apart, "overlap" \notin mishaps, NEW r \in Request, req[r].backup
    PROVE  \A q \in Request \ {r} : ~req[q].backup
<1>1. \A q \in Request : req[q].backup => req[q] # Idle
  BY DEF Idle
<1> QED
  BY <1>1 DEF Apart, Alone

LEMMA FlaggedEditing ==
    ASSUME TypeOK, InHandOnly, Formed, Apart, Flagged, NEW r \in Request,
           WriteRow(r) \/ Clear(r) \/ Put(r) \/ Answer(r) \/ Unflag(r) \/ DeleteRow(r)
    PROVE  Flagged'
<1>a. row \in [Job -> CronRow] /\ req \in [Request -> RequestState]
  BY DEF TypeOK
<1>b. mishaps \subseteq mishaps'
  BY DEF WriteRow, Clear, Put, Answer, Unflag, DeleteRow, ghosts, Mishap
<1>c. Uncut' => Uncut /\ "overlap" \notin mishaps
  BY <1>b DEF Uncut, Except
<1>d. PICK k \in Job : k = req[r].j /\ row[k].st # "none" /\ req[r].backup = row[k].backup
  BY DEF Formed, Well, Editing, WriteRow, Clear, Put, Answer, Unflag, DeleteRow
<1>e. req[r].backup \in BOOLEAN
  BY <1>a DEF RequestState
<1>f. ASSUME Backups' = Backups, UNCHANGED flag, req[r].at \in {"update", "clear", "put"},
             Others(r), req'[r] = Idle \/ (req'[r].at \in {"clear", "put"} /\ req'[r].backup = req[r].backup)
      PROVE  Flagged'
  <2>1. ~Idle.backup
    BY DEF Idle
  <2>2. CASE ~req[r].backup \/ req'[r] # Idle
    BY <1>b, <1>f, <2>1, <2>2, FlagSteady DEF Others
  <2>3. CASE req[r].backup /\ req'[r] = Idle
    <3>1. Uncut' => OneBackup /\ \A q \in Request \ {r} : ~req[q].backup
      BY <1>c, <1>f, <2>3, OnlyOneBackup DEF Flagged, Kept
    <3>2. OneBackup' = OneBackup
      BY <1>f DEF OneBackup
    <3> QED
      BY <1>f, <2>1, <2>3, <3>1, <3>2, FlagLocal
  <2> QED
    BY <1>e, <2>2, <2>3
<1>1. CASE WriteRow(r)
  <2>1. Goto(r, "clear") /\ req[r].at = "update" /\ req[r].st \in {"active", "paused"} /\ UNCHANGED flag
    BY <1>1 DEF WriteRow, InHandOnly
  <2>2. row' = IF There(k)
               THEN [row EXCEPT ![k].st = req[r].st, ![k].period = req[r].period, ![k].next = req[r].next]
               ELSE row
    BY <1>1, <1>d DEF WriteRow
  <2>3. Backups' = Backups
    BY <1>a, <2>1, <2>2, SameBackups DEF There, CronRow
  <2> QED
    BY <1>f, <2>1, <2>3, GoesTo
<1>2. CASE Clear(r)
  <2>1. Goto(r, "put") /\ req[r].at = "clear" /\ UNCHANGED flag
    BY <1>2 DEF Clear
  <2>2. Backups' = Backups
    BY <1>2, <1>a, SameBackups DEF Clear, There, CronRow
  <2> QED
    BY <1>f, <2>1, <2>2, GoesTo
<1>3. CASE Put(r)
  <2>1. req[r].at = "put" /\ UNCHANGED flag
    BY <1>3 DEF Put
  <2>2. Backups' = Backups
    BY <1>3, <1>a, SameBackups DEF Put, There, CronRow
  <2>3. Others(r) /\ (req'[r] = Idle \/ (req'[r].at = "clear" /\ req'[r].backup = req[r].backup))
    <3>1. \/ End(r)
          \/ req' = [req EXCEPT ![r].at = "clear", ![r].fields = req[r].fields \ {First(req[r].fields)}]
      BY <1>3 DEF Put
    <3>2. CASE req' = [req EXCEPT ![r].at = "clear", ![r].fields = req[r].fields \ {First(req[r].fields)}]
      BY <1>a, <3>2 DEF Others, RequestState
    <3> QED
      BY <3>1, <3>2, Ends
  <2> QED
    BY <1>f, <2>1, <2>2, <2>3
<1>4. CASE Answer(r)
  <2>1. End(r) /\ req[r].at = "clear" /\ UNCHANGED <<row, flag>>
    BY <1>4 DEF Answer, table
  <2>2. Backups' = Backups
    BY <2>1 DEF Backups, There
  <2> QED
    BY <1>f, <2>1, <2>2, Ends
<1>5. CASE Unflag(r)
  <2>1. Goto(r, "delete") /\ req[r].at = "unflag" /\ UNCHANGED row /\ flag' = FALSE
    BY <1>5 DEF Unflag
  <2>2. Backups' = Backups /\ req[r].backup
    BY <2>1 DEF Backups, There, Formed, Well
  <2>3. Uncut' => Backups = {req[r].j} /\ \A q \in Request \ {r} : ~req[q].backup
    BY <1>c, <2>1, <2>2, OnlyOneBackup DEF Flagged, Kept
  <2>4. Others(r) /\ req'[r].at = "delete" /\ req'[r].j = req[r].j /\ req'[r].backup
    BY <2>1, <2>2, GoesTo
  <2>5. Uncut' => Kept(req[r])'
    BY <2>1, <2>2, <2>3, <2>4 DEF Kept
  <2> QED
    BY <2>3, <2>4, <2>5, FlagLocal
<1>6. CASE DeleteRow(r)
  <2>1. End(r) /\ req[r].at = "delete" /\ row' = [row EXCEPT ![k] = Delete(k)] /\ UNCHANGED flag
    BY <1>6, <1>d DEF DeleteRow
  <2>2. Backups' = Backups \ {k}
    BY <1>a, <2>1 DEF Backups, There, Delete, CronRow
  <2>3. CASE ~req[r].backup
    <3>1. Backups' = Backups
      BY <1>d, <2>2, <2>3 DEF Backups
    <3> QED
      BY <1>b, <2>1, <2>3, <3>1, Ends, FlagSteady DEF Others
  <2>4. CASE req[r].backup
    <3>1. Uncut' => ~flag /\ Backups = {k} /\ \A q \in Request \ {r} : ~req[q].backup
      BY <1>c, <1>d, <2>1, <2>4, OnlyOneBackup DEF Flagged, Kept
    <3>2. Uncut' => OneBackup'
      BY <2>1, <2>2, <3>1 DEF OneBackup
    <3> QED
      BY <2>1, <3>1, <3>2, Ends, FlagLocal
  <2> QED
    BY <2>3, <2>4
<1> QED
  BY <1>1, <1>2, <1>3, <1>4, <1>5, <1>6

LEMMA FlaggedBackups ==
    ASSUME TypeOK, InHandOnly, Formed, Apart, Flagged, NEW r \in Request,
           Ensure(r) \/ InsertBackup(r) \/ RemoveBackup(r) \/ Ignored(r) \/ Abandon(r)
    PROVE  Flagged'
<1>a. row \in [Job -> CronRow]
  BY DEF TypeOK
<1>1. CASE Ignored(r) \/ Abandon(r)
  BY <1>1 DEF Ignored, Abandon, Mishap, Flagged, Uncut, Except
<1> SUFFICES ASSUME Ensure(r) \/ InsertBackup(r) \/ RemoveBackup(r)
             PROVE  Flagged'
  BY <1>1
<1>b. req[r].backup /\ UNCHANGED <<flag, mishaps>>
  BY DEF Ensure, InsertBackup, RemoveBackup, Formed, Well, table, ghosts
<1>c. Uncut' => Kept(req[r]) /\ \A q \in Request \ {r} : ~req[q].backup
  BY <1>b, OnlyOneBackup DEF Flagged, Uncut, Except
<1>2. CASE Ensure(r)
  <2>1. /\ req[r].at = "ensure" /\ UNCHANGED row
        /\ IF Backups = {} THEN Goto(r, "insert") ELSE End(r)
    BY <1>2 DEF Ensure, table
  <2>2. Backups' = Backups
    BY <2>1 DEF Backups, There
  <2>3. Uncut' => flag /\ \A i, j \in Backups : i = j
    BY <1>c, <2>1 DEF Kept
  <2>4. CASE Backups = {}
    <3>1. Others(r) /\ req'[r].at = "insert" /\ req'[r].backup
      BY <1>b, <2>1, <2>4, GoesTo
    <3>2. Uncut' => Kept(req[r])'
      BY <1>b, <2>2, <2>3, <2>4, <3>1 DEF Kept
    <3> QED
      BY <1>c, <3>1, <3>2, FlagLocal
  <2>5. CASE Backups # {}
    <3>1. PICK j \in Backups : TRUE
      BY <2>5
    <3>2. Uncut' => Backups = {j} /\ j \in Job
      BY <2>3, <3>1 DEF Backups
    <3>3. Uncut' => OneBackup'
      BY <1>b, <2>2, <2>3, <3>2 DEF OneBackup
    <3> QED
      BY <1>c, <2>1, <2>5, <3>3, Ends, FlagLocal
  <2> QED
    BY <2>4, <2>5
<1>3. CASE InsertBackup(r)
  <2>1. PICK k \in Job : row' = [row EXCEPT ![k] = NewRow(BackupPeriod, TRUE)]
    BY <1>3 DEF InsertBackup, Unused
  <2>2. Backups' = Backups \cup {k}
    BY <1>a, <2>1 DEF Backups, There, NewRow
  <2>3. Uncut' => flag /\ Backups = {}
    BY <1>3, <1>c DEF InsertBackup, Kept
  <2>4. Uncut' => OneBackup'
    BY <1>b, <2>2, <2>3 DEF OneBackup
  <2> QED
    BY <1>3, <1>c, <2>4, Ends, FlagLocal DEF InsertBackup
<1>4. CASE RemoveBackup(r)
  <2>1. \A j \in Job : Delete(j).st = "gone"
    BY <1>a DEF Delete, CronRow
  <2>2. \A j \in Job : row'[j].st = "gone" \/ (j \notin Backups /\ row'[j] = row[j])
    BY <1>4, <2>1 DEF RemoveBackup
  <2>3. Backups' = {}
    BY <2>2 DEF Backups, There
  <2>4. Uncut' => ~flag
    BY <1>4, <1>c DEF RemoveBackup, Kept
  <2>5. Uncut' => OneBackup'
    BY <1>b, <2>3, <2>4 DEF OneBackup
  <2> QED
    BY <1>4, <1>c, <2>5, Ends, FlagLocal DEF RemoveBackup
<1> QED
  BY <1>2, <1>3, <1>4

LEMMA FlaggedScheduling ==
    ASSUME TypeOK, Flagged,
           \/ \E p \in Process : \/ TakeLead(p) \/ LoseLead(p) \/ Select(p) \/ Advance(p)
                                 \/ AdvanceFails(p) \/ Spawn(p) \/ Crash(p)
           \/ \E e \in Exec : Dispatch(e) \/ Prepare(e) \/ Work(e) \/ Log(e)
           \/ Tick \/ UNCHANGED vars
    PROVE  Flagged'
<1>a. UNCHANGED <<flag, req>> /\ mishaps \subseteq mishaps'
  BY SchedulersSteady
<1>b. ASSUME UNCHANGED row
      PROVE  Backups' = Backups
  BY <1>b DEF Backups, There
<1>1. ASSUME NEW p \in Process, Advance(p)
      PROVE  Backups' = Backups
  <2>1. PICK d : row' = Advanced(d)
    BY <1>1 DEF Advance
  <2>2. \A j \in Job : row'[j].st = row[j].st /\ row'[j].backup = row[j].backup
    BY <2>1 DEF Advanced, TypeOK, CronRow
  <2> QED
    BY <2>2 DEF Backups, There
<1>2. ASSUME NEW p \in Process,
             TakeLead(p) \/ LoseLead(p) \/ Select(p) \/ AdvanceFails(p) \/ Spawn(p) \/ Crash(p)
      PROVE  UNCHANGED row
  <2>1. UNCHANGED table
    BY <1>2, Zenon DEF TakeLead, LoseLead, Select, AdvanceFails, Spawn, Crash
  <2> QED
    BY <2>1 DEF table
<1>3. ASSUME \/ \E e \in Exec : Dispatch(e) \/ Prepare(e) \/ Work(e) \/ Log(e)
             \/ Tick \/ UNCHANGED vars
      PROVE  UNCHANGED row
  BY <1>3 DEF Dispatch, Prepare, Work, Log, Move, Tick, table, vars
<1>4. Backups' = Backups
  BY <1>b, <1>1, <1>2, <1>3
<1> QED
  BY <1>a, <1>4, FlagSteady

LEMMA FlaggedNext ==
    ASSUME TypeOK, InHandOnly, Formed, Apart, Flagged, [Next]_vars
    PROVE  Flagged'
BY FlaggedAsking, FlaggedEditing, FlaggedBackups, FlaggedScheduling DEF Next, Working

LEMMA RowsInit == Init => Formed /\ Apart /\ Demands /\ Asked /\ Flagged
<1> SUFFICES ASSUME Init PROVE Formed /\ Apart /\ Demands /\ Asked /\ Flagged
  OBVIOUS
<1>1. PICK b \in BOOLEAN :
        /\ row = [j \in Job |-> IF j = 1 THEN [NewRow(BackupPeriod, b) EXCEPT !.env = Kind] ELSE NoRow]
        /\ flag = b
  BY DEF Init
<1>2. /\ now = 0 /\ BackupPeriod \in Period /\ BackupPeriod \in Nat \ {0}
      /\ 0 \notin Job /\ 1 \in Job
      /\ \A r \in Request : req[r] = Idle
      /\ asked = [j \in Job |-> [st |-> row[j].st, period |-> row[j].period, env |-> row[j].env]]
  BY CronConstantsOK DEF Init
<1>3. \A j \in Job : asked[j].st = row[j].st /\ asked[j].period = row[j].period /\ asked[j].env = row[j].env
  BY <1>2
<1>4. Formed
  <2>1. Well(Idle)
    BY DEF Well, Idle, Editing
  <2> QED
    BY <1>2, <2>1 DEF Formed
<1>5. Apart
  BY <1>2 DEF Apart, Alone
<1>6. Demands
  <2>1. TypeOK
    BY TypeInit
  <2> QED
    BY <1>2, <2>1 DEF TypeOK, CronRow, Demands, Demand
<1>7. /\ row[1].st = "active" /\ row[1].next = Upcoming(BackupPeriod, 0)
      /\ row[1].period = BackupPeriod /\ row[1].backup = b
  BY <1>1, <1>2 DEF NewRow
<1>8. \A j \in Job \ {1} : row[j].st = "none"
  BY <1>1 DEF NoRow
<1>9. Asked
  <2>1. Upcoming(BackupPeriod, 0) > 0 /\ Upcoming(BackupPeriod, 0) % BackupPeriod = 0
    BY <1>2, UpcomingProper
  <2>2. \A j \in Job : RowProper(j)
    BY <1>7, <1>8, <2>1 DEF RowProper, There, Proper
  <2>3. \A j \in Job : Settled(j)
    BY <1>3 DEF Settled, Written
  <2>4. \A r \in Request : req[r].j = 0
    BY <1>2 DEF Idle
  <2> QED
    BY <1>2, <2>2, <2>3, <2>4 DEF Asked
<1>10. Flagged
  <2>1. Backups = IF b THEN {1} ELSE {}
    BY <1>2, <1>7, <1>8 DEF Backups, There
  <2>2. OneBackup
    BY <1>1, <1>2, <2>1 DEF OneBackup
  <2>3. \A r \in Request : ~req[r].backup
    BY <1>2 DEF Idle
  <2> QED
    BY <2>2, <2>3 DEF Flagged
<1> QED
  BY <1>4, <1>5, <1>6, <1>9, <1>10

LEMMA RowsAsAskedHolds ==
    ASSUME TypeOK, Asked, Flagged
    PROVE  RowsAsAsked
<1>1. AsAsked
  <2> SUFFICES ASSUME Quiet, Calm, NEW j \in Job
               PROVE  /\ row[j].st = asked[j].st
                      /\ There(j) => /\ row[j].period = asked[j].period /\ row[j].env = asked[j].env
                                     /\ IF row[j].st = "active"
                                        THEN row[j].next > 0 /\ row[j].next % row[j].period = 0
                                        ELSE row[j].next = NoTime
    BY DEF AsAsked, Calm
  <2>1. \A r \in Request : req[r].j # j
    BY CronConstantsOK DEF Quiet, Idle
  <2> QED
    BY <2>1 DEF Asked, RowProper, Settled, Written, Proper
<1>2. FlagHasCron
  <2> SUFFICES ASSUME Quiet, Uncut
               PROVE  Cardinality(Backups) = IF flag THEN 1 ELSE 0
    BY DEF FlagHasCron, Uncut
  <2>1. OneBackup
    BY DEF Quiet, Idle, Flagged
  <2>2. CASE flag
    <3>1. PICK j \in Job : Backups = {j}
      BY <2>1, <2>2 DEF OneBackup
    <3>2. Cardinality({j}) = 1
      BY FS_Singleton
    <3> QED
      BY <2>2, <3>1, <3>2
  <2>3. CASE ~flag
    <3>1. Backups = {} /\ Cardinality({}) = 0
      BY <2>1, <2>3, FS_EmptySet DEF OneBackup
    <3> QED
      BY <2>3, <3>1
  <2> QED
    BY <2>2, <2>3
<1> QED
  BY <1>1, <1>2 DEF RowsAsAsked

\* Whatever the jobs, schedules and requests and in whatever order they interleave with
\* the scheduler: jobs, their variables and links are as was last asked, and the database
\* has one managed backup exactly while its flag is set, but for the mishaps that AsAsked
\* and FlagHasCron name.
THEOREM RowsAsAskedAlways == Spec => []RowsAsAsked
<1> DEFINE Inv == TypeOK /\ InHandOnly /\ Formed /\ Apart /\ Demands /\ Asked /\ Flagged
<1>1. Init => Inv
  BY TypeInit, RowsInit
<1>2. Inv /\ [Next]_vars => Inv'
  BY TypeNext, FormedNext, DemandsNext, AskedNext, FlaggedNext
<1>3. Inv => RowsAsAsked
  BY RowsAsAskedHolds
<1> QED
  BY <1>1, <1>2, <1>3, PTL DEF Spec
=============================================================================
