------------------------- MODULE WorkspaceQuotaProofs -------------------------
(***************************************************************************)
(* The workspace lock serializes, the pool gets back every connection, and *)
(* the quota is respected, for any number of requests, rows, connections   *)
(* and megabytes.                                                          *)
(*                                                                         *)
(* The row of a managed database is true, its backups have their files and *)
(* its data is whole, for any number of requests, retentions and bounds.   *)
(***************************************************************************)
EXTENDS WorkspaceQuota, ManagedDatabase, FiniteSetTheorems, TLAPS

Place == Section \cup {"idle", "connect", "lock", "late"}

Pins == Cardinality({q \in Request : Pinned(q)})
ToUnlock == IF lock = Unlocking THEN 1 ELSE 0

\* The part of the state that lock and pool are about
Shape ==
    /\ free \in Nat
    /\ orphans \in Nat
    /\ lock \in {Held, Unlocking, Leaked, Free}
    /\ keeper \in Request \cup {Nobody}
    /\ at \in [Request -> Place]

\* Who has drawn the locked connection is waiting for the lock or in its section
Keeping ==
    keeper # Nobody => lock = Leaked /\ at[keeper] \in Section \cup {"lock"}

IInv == Shape /\ Keeping /\ Serialized /\ PoolBalanced

\* What Leave does to the lock and the pool
Left(q) == at[q] \in Section /\ Leave(q)

-----------------------------------------------------------------------------
(***************************************************************************)
(* Counting the pinned connections.                                        *)
(***************************************************************************)

LEMMA PinsType == IsFiniteSet({q \in Request : Pinned(q)}) /\ Pins \in Nat
<1>1. {q \in Request : Pinned(q)} \in SUBSET Request
  OBVIOUS
<1>2. IsFiniteSet({q \in Request : Pinned(q)})
  BY <1>1, FS_Subset, QuotaConstantsOK
<1> QED
  BY <1>2, FS_CardinalityType DEF Pins

\* A request that moves within the pinned places, or outside them
LEMMA SamePins ==
    ASSUME \A q \in Request : Pinned(q)' <=> Pinned(q)
    PROVE  Pins' = Pins
<1>1. {q \in Request : Pinned(q)'} = {q \in Request : Pinned(q)}
  OBVIOUS
<1> QED
  BY <1>1 DEF Pins

LEMMA OneMorePin ==
    ASSUME NEW q \in Request, ~Pinned(q), Pinned(q)',
           \A r \in Request \ {q} : Pinned(r)' <=> Pinned(r)
    PROVE  Pins' = Pins + 1
<1> DEFINE S == {r \in Request : Pinned(r)}
<1>1. {r \in Request : Pinned(r)'} = S \cup {q}
  OBVIOUS
<1>2. Cardinality(S \cup {q}) = Cardinality(S) + 1
  <2>1. IsFiniteSet(S) /\ q \notin S
    BY PinsType
  <2> HIDE DEF S
  <2> QED
    BY <2>1, FS_AddElement
<1> QED
  BY <1>1, <1>2 DEF Pins

LEMMA OneLessPin ==
    ASSUME NEW q \in Request, Pinned(q), ~Pinned(q)',
           \A r \in Request \ {q} : Pinned(r)' <=> Pinned(r)
    PROVE  Pins' = Pins - 1
<1> DEFINE S == {r \in Request : Pinned(r)}
<1>1. {r \in Request : Pinned(r)'} = S \ {q}
  OBVIOUS
<1>2. Cardinality(S \ {q}) = Cardinality(S) - 1
  <2>1. IsFiniteSet(S) /\ q \in S
    BY PinsType
  <2> HIDE DEF S
  <2> QED
    BY <2>1, FS_RemoveElement
<1> QED
  BY <1>1, <1>2 DEF Pins

LEMMA NoPins ==
    ASSUME \A q \in Request : ~Pinned(q)
    PROVE  Pins = 0
<1>1. {q \in Request : Pinned(q)} = {}
  OBVIOUS
<1> QED
  BY <1>1, FS_EmptySet DEF Pins

-----------------------------------------------------------------------------
(***************************************************************************)
(* The kinds of steps.                                                     *)
(***************************************************************************)

\* Moves of one request that leave lock and pool alone
Stays(q) ==
    /\ \E l \in Place : at' = [at EXCEPT ![q] = l]
    /\ Pinned(q)' <=> Pinned(q)
    /\ at[q] \in Section <=> at'[q] \in Section
    /\ at[q] # "lock"
    /\ UNCHANGED pool

LEMMA StaysKeeps ==
    ASSUME IInv, NEW q \in Request, Stays(q)
    PROVE  IInv'
<1> USE DEF IInv, Stays, pool
<1>1. \A r \in Request : r # q => at'[r] = at[r]
  BY DEF Shape
<1>2. \A r \in Request : Pinned(r)' <=> Pinned(r)
  BY <1>1 DEF Pinned
<1>3. Shape'
  BY DEF Shape
<1>4. Keeping'
  BY <1>1 DEF Keeping, Shape
<1>5. InSection' = InSection
  BY <1>1 DEF InSection
<1>6. Serialized'
  BY <1>5 DEF Serialized
<1>7. PoolBalanced'
  BY <1>2, SamePins DEF PoolBalanced, Pins
<1> QED
  BY <1>3, <1>4, <1>6, <1>7

\* A request leaves the section: by the guard's drop, whatever the reason
LEMMA LeaveKeeps ==
    ASSUME IInv, NEW q \in Request, Left(q)
    PROVE  IInv'
<1> USE DEF IInv, Left, Leave, Goto
<1>1. at'[q] = "idle" /\ \A r \in Request : r # q => at'[r] = at[r]
  BY DEF Shape
<1>2. Pinned(q) /\ ~Pinned(q)' /\ \A r \in Request \ {q} : Pinned(r)' <=> Pinned(r)
  BY <1>1 DEF Pinned, Section, Checking
<1>3. q \in InSection /\ InSection = {q}
  BY DEF InSection, Serialized
<1>4. InSection' = {}
  BY <1>1, <1>3 DEF InSection, Section, Checking
<1>5. Pins' = Pins - 1
  BY <1>2, OneLessPin
<1>6. q # Nobody
  BY QuotaConstantsOK
<1>7. CASE keeper = q
  <2>1. Shape' /\ Keeping'
    BY <1>7, <1>6 DEF Shape, Keeping, Place
  <2>2. lock' = lock /\ lock = Leaked
    BY <1>7, <1>3 DEF Serialized
  <2>3. Serialized'
    BY <1>4, <2>2 DEF Serialized, Leaked, Held
  <2>4. PoolBalanced'
    BY <1>5, <1>7, <2>2, PinsType DEF PoolBalanced, Pins, Shape, Leaked, Unlocking
  <2> QED
    BY <2>1, <2>3, <2>4
<1>8. CASE keeper # q
  <2>1. lock = Held /\ keeper = Nobody
    BY <1>8, <1>3 DEF Serialized, Keeping, Held, Leaked
  <2>2. Shape' /\ Keeping'
    BY <1>8, <2>1 DEF Shape, Keeping, Place
  <2>3. Serialized'
    BY <1>4, <1>8 DEF Serialized, Unlocking, Held
  <2>4. PoolBalanced'
    BY <1>5, <1>8, <2>1, PinsType DEF PoolBalanced, Pins, Shape, Held, Unlocking
  <2> QED
    BY <2>2, <2>3, <2>4
<1> QED
  BY <1>7, <1>8

\* Steps of others that change nothing of lock, pool and places
LEMMA StutterKeeps ==
    ASSUME IInv, UNCHANGED <<at, pool>>
    PROVE  IInv'
BY DEF IInv, pool, Shape, Keeping, Serialized, InSection, PoolBalanced, Pinned

-----------------------------------------------------------------------------
(***************************************************************************)
(* Every step is of one of these kinds, or takes or gives the lock or a    *)
(* connection.                                                             *)
(***************************************************************************)

LEMMA MoveStays ==
    ASSUME IInv, NEW q \in Request, NEW l \in Place, Goto(q, l), UNCHANGED pool,
           \/ at[q] \in Section /\ l \in Section
           \/ at[q] \in {"idle", "connect"} /\ l \in {"idle", "connect"}
    PROVE  IInv'
<1>1. at' = [at EXCEPT ![q] = l] /\ at'[q] = l
  BY DEF Goto, IInv, Shape
<1>2. Pinned(q)' <=> Pinned(q)
  BY <1>1 DEF Pinned, Section, Checking
<1>3. (at[q] \in Section <=> at'[q] \in Section) /\ at[q] # "lock"
  BY <1>1 DEF Section, Checking
<1> QED
  BY <1>1, <1>2, <1>3, StaysKeeps DEF Stays

LEMMA SectionKeeps ==
    ASSUME IInv, NEW q \in Request,
           \/ StatementTimesOut(q) \/ Find(q) \/ ReadQuota(q) \/ SumApps(q)
           \/ SumDbs(q) \/ SumFns(q) \/ Write(q) \/ Finish(q) \/ Abandon(q)
    PROVE  IInv'
<1> USE DEF Section, Checking, Place, Statement
<1>1. CASE StatementTimesOut(q)
  BY <1>1, LeaveKeeps DEF StatementTimesOut, Left
<1>2. CASE Find(q)
  <2>1. CASE Leave(q)
    BY <1>2, <2>1, LeaveKeeps DEF Find, Left
  <2>2. CASE ~Leave(q)
    <3>1. UNCHANGED pool /\ \E l \in {"quota", "write"} : Goto(q, l)
      BY <1>2, <2>2 DEF Find
    <3> QED
      BY <1>2, <3>1, MoveStays DEF Find
  <2> QED
    BY <2>1, <2>2
<1>3. CASE ReadQuota(q)
  <2>1. UNCHANGED pool /\ \E l \in {"apps", "write"} : Goto(q, l)
    BY <1>3 DEF ReadQuota
  <2> QED
    BY <1>3, <2>1, MoveStays DEF ReadQuota
<1>4. CASE SumApps(q)
  BY <1>4, MoveStays DEF SumApps, Subtract
<1>5. CASE SumDbs(q)
  BY <1>5, MoveStays DEF SumDbs, Subtract
<1>6. CASE SumFns(q)
  <2>1. CASE Leave(q)
    BY <1>6, <2>1, LeaveKeeps DEF SumFns, Left
  <2>2. CASE ~Leave(q)
    <3>1. UNCHANGED pool /\ Goto(q, "write")
      BY <1>6, <2>2 DEF SumFns
    <3> QED
      BY <1>6, <3>1, MoveStays DEF SumFns
  <2> QED
    BY <2>1, <2>2
<1>7. CASE Write(q)
  BY <1>7, MoveStays DEF Write
<1>8. CASE Finish(q)
  BY <1>8, LeaveKeeps DEF Finish, Left
<1>9. CASE Abandon(q)
  BY <1>9, LeaveKeeps DEF Abandon, Left
<1> QED
  BY <1>1, <1>2, <1>3, <1>4, <1>5, <1>6, <1>7, <1>8, <1>9

\* The connection drawn is fresh, or the one left locked
LEMMA ConnectKeeps ==
    ASSUME IInv, NEW q \in Request, Connect(q)
    PROVE  IInv'
<1> USE DEF IInv, Connect, Goto
<1>1. at'[q] = "lock" /\ \A r \in Request : r # q => at'[r] = at[r]
  BY DEF Shape
<1>2. ~Pinned(q) /\ Pinned(q)' /\ \A r \in Request \ {q} : Pinned(r)' <=> Pinned(r)
  BY <1>1 DEF Pinned, Section, Checking
<1>3. Pins' = Pins + 1
  BY <1>2, OneMorePin
<1>4. InSection' = InSection /\ q \notin InSection
  BY <1>1 DEF InSection, Section, Checking
<1>5. Shape'
  BY DEF Shape, Place
<1>6. Keeping'
  BY <1>2 DEF Keeping, Shape
<1>7. Serialized'
  <2>1. CASE keeper' = keeper
    BY <1>4, <2>1 DEF Serialized
  <2>2. CASE lock = Leaked /\ keeper = Nobody
    <3>1. InSection = {}
      BY <2>2, QuotaConstantsOK DEF Serialized, InSection, Leaked, Held
    <3> QED
      BY <2>2, <3>1, <1>4 DEF Serialized, Leaked, Held
  <2> QED
    BY <2>1, <2>2
<1>8. PoolBalanced'
  BY <1>3, PinsType DEF PoolBalanced, Pins, Shape
<1> QED
  BY <1>5, <1>6, <1>7, <1>8

LEMMA LockKeeps ==
    ASSUME IInv, NEW q \in Request, Lock(q)
    PROVE  IInv'
<1> USE DEF IInv, Lock, Goto
<1>1. at'[q] = "find" /\ \A r \in Request : r # q => at'[r] = at[r]
  BY DEF Shape
<1>2. \A r \in Request : Pinned(r)' <=> Pinned(r)
  BY <1>1 DEF Pinned, Section, Checking
<1>3. InSection' = InSection \cup {q}
  BY <1>1 DEF InSection, Section, Checking
<1>4. InSection = {}
  <2>1. CASE lock = Free
    BY <2>1 DEF Serialized, Free, Held, Leaked
  <2>2. CASE lock = Leaked /\ keeper = q
    <3>1. \A r \in InSection : keeper = r
      BY <2>2 DEF Serialized, Held, Leaked
    <3>2. q \notin InSection
      BY DEF InSection, Section, Checking
    <3> QED
      BY <2>2, <3>1, <3>2
  <2> QED
    BY <2>1, <2>2
<1>5. Shape'
  BY DEF Shape, Place, Section, Checking
<1>6. Keeping'
  BY <1>1 DEF Keeping, Shape, Free, Leaked, Section, Checking
<1>7. Serialized'
  <2>1. CASE lock = Free
    <3>1. keeper = Nobody /\ q # Nobody /\ lock' = Held
      BY <2>1, QuotaConstantsOK DEF Keeping, Free, Leaked
    <3> QED
      BY <3>1, <1>3, <1>4 DEF Serialized
  <2>2. CASE lock = Leaked /\ keeper = q
    BY <2>2, <1>3, <1>4 DEF Serialized, Free, Leaked, Held
  <2> QED
    BY <2>1, <2>2
<1>8. PoolBalanced'
  BY <1>2, SamePins DEF PoolBalanced, Pins, Free, Held, Leaked, Unlocking
<1> QED
  BY <1>5, <1>6, <1>7, <1>8

LEMMA AbandonWaitingKeeps ==
    ASSUME IInv, NEW q \in Request, AbandonWaiting(q)
    PROVE  IInv'
<1> USE DEF IInv, AbandonWaiting, Goto
<1>1. at'[q] = "idle" /\ \A r \in Request : r # q => at'[r] = at[r]
  BY DEF Shape
<1>2. Pinned(q) /\ ~Pinned(q)' /\ \A r \in Request \ {q} : Pinned(r)' <=> Pinned(r)
  BY <1>1 DEF Pinned, Section, Checking
<1>3. Pins' = Pins - 1
  BY <1>2, OneLessPin
<1>4. InSection' = InSection /\ q \notin InSection
  BY <1>1 DEF InSection, Section, Checking
<1>5. Shape'
  BY DEF Shape, Place
<1>6. Keeping'
  BY <1>2 DEF Keeping, Shape
<1>7. Serialized'
  <2>1. CASE keeper = q
    <3>1. lock = Leaked /\ q # Nobody
      BY <2>1, QuotaConstantsOK DEF Keeping
    <3>2. InSection = {}
      BY <2>1, <3>1, <1>4 DEF Serialized, Held, Leaked
    <3> QED
      BY <3>1, <3>2, <1>4 DEF Serialized, Held, Leaked
  <2>2. CASE keeper # q
    BY <2>2, <1>4 DEF Serialized
  <2> QED
    BY <2>1, <2>2
<1>8. PoolBalanced'
  BY <1>3, PinsType DEF PoolBalanced, Pins, Shape
<1> QED
  BY <1>5, <1>6, <1>7, <1>8

\* The guard goes, and the connection of the statement under way stays
LEMMA AbandonWritingKeeps ==
    ASSUME IInv, NEW q \in Request, AbandonWriting(q)
    PROVE  IInv'
<1> USE DEF IInv, AbandonWriting, Statement, Goto
<1>1. at'[q] = "late" /\ \A r \in Request : r # q => at'[r] = at[r]
  BY DEF Shape
<1>2. \A r \in Request : Pinned(r)' <=> Pinned(r)
  BY <1>1 DEF Pinned, Section, Checking
<1>3. Pins' = Pins
  BY <1>2, SamePins
<1>4. InSection = {q}
  BY DEF InSection, Serialized, Section, Checking
<1>5. InSection' = {}
  BY <1>1, <1>4 DEF InSection, Section, Checking
<1>6. CASE keeper = q
  <2>1. lock' = lock /\ lock = Leaked /\ keeper' = Nobody
    BY <1>6, <1>4 DEF Serialized
  <2>2. Shape' /\ Keeping'
    BY <1>6, <2>1 DEF Shape, Keeping, Place
  <2>3. Serialized' /\ PoolBalanced'
    BY <1>3, <1>5, <1>6, <2>1 DEF Serialized, PoolBalanced, Pins, Leaked, Held
  <2> QED
    BY <2>2, <2>3
<1>7. CASE keeper # q
  <2>1. lock = Held /\ keeper = Nobody /\ keeper' = Nobody /\ lock' = Unlocking
    BY <1>7, <1>4 DEF Serialized, Keeping, Held, Leaked
  <2>2. Shape' /\ Keeping'
    BY <1>7, <2>1 DEF Shape, Keeping, Place
  <2>3. Serialized'
    BY <1>5, <2>1 DEF Serialized, Unlocking, Held
  <2>4. PoolBalanced'
    BY <1>3, <1>7, <2>1, PinsType DEF PoolBalanced, Pins, Shape, Held, Unlocking
  <2> QED
    BY <2>2, <2>3, <2>4
<1> QED
  BY <1>6, <1>7

LEMMA LateWriteKeeps ==
    ASSUME IInv, NEW q \in Request, LateWrite(q)
    PROVE  IInv'
<1> USE DEF IInv, LateWrite, Goto
<1>1. at'[q] = "idle" /\ \A r \in Request : r # q => at'[r] = at[r]
  BY DEF Shape
<1>2. Pinned(q) /\ ~Pinned(q)' /\ \A r \in Request \ {q} : Pinned(r)' <=> Pinned(r)
  BY <1>1 DEF Pinned, Section, Checking
<1>3. Pins' = Pins - 1
  BY <1>2, OneLessPin
<1>4. InSection' = InSection
  BY <1>1 DEF InSection, Section, Checking
<1>5. keeper # q
  <2>1. ASSUME keeper = q PROVE FALSE
    BY <2>1, QuotaConstantsOK DEF Keeping, Section, Checking
  <2> QED
    BY <2>1
<1>6. Shape'
  BY DEF Shape, Place
<1>7. Keeping'
  BY <1>2, <1>5 DEF Keeping, Shape
<1>8. Serialized'
  BY <1>4 DEF Serialized
<1>9. PoolBalanced'
  BY <1>3, PinsType DEF PoolBalanced, Pins, Shape
<1> QED
  BY <1>6, <1>7, <1>8, <1>9

LEMMA LockMoves ==
    ASSUME IInv, Unlock \/ Leak \/ Recycle
    PROVE  IInv'
<1> USE DEF IInv
<1>1. UNCHANGED at
  BY DEF Unlock, Leak, Recycle, requests
<1>2. Pins' = Pins /\ InSection' = InSection
  BY <1>1, SamePins DEF Pinned, InSection
<1>3. keeper' = keeper /\ keeper = Nobody
  BY DEF Unlock, Leak, Recycle, Keeping, Leaked, Unlocking, Free
<1>4. InSection = {}
  BY <1>3, QuotaConstantsOK
     DEF Unlock, Leak, Recycle, Serialized, InSection, Held, Leaked, Unlocking, Free
<1>5. Shape' /\ Keeping'
  BY <1>1, <1>3 DEF Unlock, Leak, Recycle, Shape, Keeping
<1>6. Serialized'
  BY <1>2, <1>4 DEF Unlock, Leak, Recycle, Serialized, Held, Leaked, Unlocking, Free
<1>7. PoolBalanced'
  BY <1>2, PinsType
     DEF Unlock, Leak, Recycle, PoolBalanced, Pins, Shape, Held, Leaked, Unlocking, Free
<1> QED
  BY <1>5, <1>6, <1>7

LEMMA CrashKeeps ==
    ASSUME IInv, Crash
    PROVE  IInv'
<1> USE DEF IInv, Crash
<1>1. \A q \in Request : at'[q] = "idle"
  OBVIOUS
<1>2. Shape'
  BY QuotaConstantsOK DEF Shape, Place
<1>3. InSection' = {} /\ \A q \in Request : ~Pinned(q)'
  BY <1>1 DEF InSection, Pinned, Section, Checking
<1>4. {q \in Request : Pinned(q)'} = {}
  BY <1>3
<1>5. Cardinality({q \in Request : Pinned(q)'}) = 0
  BY <1>4, FS_EmptySet
<1>6. PoolBalanced'
  BY <1>5, QuotaConstantsOK DEF PoolBalanced, Free, Unlocking
<1>7. Keeping' /\ Serialized'
  BY <1>3 DEF Keeping, Serialized, Free, Held
<1> QED
  BY <1>2, <1>6, <1>7

-----------------------------------------------------------------------------
LEMMA QuotaInit == Init => IInv
<1> SUFFICES ASSUME Init PROVE IInv
  OBVIOUS
<1> USE DEF Init
<1>1. InSection = {} /\ \A q \in Request : ~Pinned(q)
  BY DEF InSection, Pinned, Section, Checking
<1>2. Shape
  BY QuotaConstantsOK DEF Shape, Place
<1>3. PoolBalanced
  BY <1>1, NoPins, QuotaConstantsOK DEF PoolBalanced, Pins, Free, Unlocking
<1>4. Keeping /\ Serialized
  BY <1>1 DEF Keeping, Serialized, Free, Held
<1> QED
  BY <1>2, <1>3, <1>4 DEF IInv

LEMMA QuotaNext == IInv /\ [Next]_vars => IInv'
<1> SUFFICES ASSUME IInv, [Next]_vars PROVE IInv'
  OBVIOUS
<1>1. CASE UNCHANGED vars
  BY <1>1, StutterKeeps DEF vars, requests
<1>2. ASSUME NEW q \in Request, Ask(q) PROVE IInv'
  BY <1>2, MoveStays DEF Ask, Place, pool
<1>3. ASSUME NEW q \in Request, Lock(q) PROVE IInv'
  BY <1>3, LockKeeps
<1>4. ASSUME NEW q \in Request, Serving(q) PROVE IInv'
  <2>1. CASE Connect(q)
    BY <2>1, ConnectKeeps
  <2>2. CASE ConnectTimesOut(q)
    BY <2>2, MoveStays DEF ConnectTimesOut, Place
  <2>3. CASE LateWrite(q)
    BY <2>3, LateWriteKeeps
  <2> QED
    BY <1>4, <2>1, <2>2, <2>3, SectionKeeps DEF Serving
<1>5. ASSUME NEW q \in Request, Abandon(q) PROVE IInv'
  BY <1>5, SectionKeeps
<1>6. ASSUME NEW q \in Request, AbandonWaiting(q) \/ AbandonWriting(q) PROVE IInv'
  BY <1>6, AbandonWaitingKeeps, AbandonWritingKeeps
<1>7. CASE Unlock \/ Leak \/ Recycle
  BY <1>7, LockMoves
<1>8. CASE Crash
  BY <1>8, CrashKeeps
<1>9. ASSUME NEW r \in Row, Suspend(r) \/ Resume(r) \/ Remove(r) PROVE IInv'
  BY <1>9, StutterKeeps DEF Suspend, Resume, Remove, Unlocked, requests
<1>10. CASE SetLimit
  BY <1>10, StutterKeeps DEF SetLimit, Unlocked, requests
<1> QED
  BY <1>1, <1>2, <1>3, <1>4, <1>5, <1>6, <1>7, <1>8, <1>9, <1>10 DEF Next

\* At any time one request at most is between its lock and its end, however many
\* there are, and whether clients leave, sessions are abandoned or recycled.
THEOREM SerializedAlways == Spec => []Serialized
<1>1. IInv => Serialized
  BY DEF IInv
<1> QED
  BY <1>1, QuotaInit, QuotaNext, PTL DEF Spec

\* Every connection is free, pinned by a request, held by an abandoned session or
\* about to be given back.
THEOREM PoolBalancedAlways == Spec => []PoolBalanced
<1>1. IInv => PoolBalanced
  BY DEF IInv
<1> QED
  BY <1>1, QuotaInit, QuotaNext, PTL DEF Spec

-----------------------------------------------------------------------------
(***************************************************************************)
(* Types.                                                                  *)
(***************************************************************************)

Want == [op : {"create", "change", "keep"}, row : Row,
         mem : Mems \cup {0, NotGiven}, reps : Reps \cup {NotGiven}]

\* The part of TypeOK that lock and pool are not about
RowsTyped ==
    /\ limit \in Limits
    /\ live \in [Row -> {"absent", "on", "off"}]
    /\ mem \in [Row -> Mems \cup {0}]
    /\ reps \in [Row -> Reps]
    /\ want \in [Request -> Want]
    /\ DOMAIN room = Request
    /\ disturbed \in [Request -> BOOLEAN]
    /\ events \in 0..MaxEvents

LEMMA RowsInit ==
    ASSUME Row # {}, Init
    PROVE  RowsTyped
<1>1. Nothing \in Want
  BY QuotaConstantsOK DEF Nothing, Want
<1> QED
  BY <1>1, QuotaConstantsOK DEF Init, RowsTyped

\* An UPDATE or INSERT writes what the request asks for, or what was there
LEMMA ApplyTyped ==
    ASSUME RowsTyped, NEW q \in Request, Apply(want[q])
    PROVE  /\ live' \in [Row -> {"absent", "on", "off"}]
           /\ mem' \in [Row -> Mems \cup {0}]
           /\ reps' \in [Row -> Reps]
<1> DEFINE w == want[q]
<1>1. w \in Want
  BY DEF RowsTyped
<1>2. CASE UNCHANGED rows
  BY <1>2 DEF RowsTyped, rows
<1>3. CASE ~UNCHANGED rows
  <2>1. StatusAfter(w) \in {"absent", "on", "off"}
    BY <1>1 DEF StatusAfter, RowsTyped, Want
  <2>2. Given(w.mem, mem[w.row]) \in Mems \cup {0} /\ Given(w.reps, reps[w.row]) \in Reps
    BY <1>1 DEF Given, RowsTyped, Want
  <2>3. /\ live' = [live EXCEPT ![w.row] = StatusAfter(w)]
        /\ mem' = [mem EXCEPT ![w.row] = Given(w.mem, @)]
        /\ reps' = [reps EXCEPT ![w.row] = Given(w.reps, @)]
    BY <1>3 DEF Apply
  <2> QED
    BY <2>1, <2>2, <2>3 DEF RowsTyped
<1> QED
  BY <1>2, <1>3

\* The row that a function's request is completed with is the one it changes
LEMMA CompletedTyped ==
    ASSUME RowsTyped, NEW w \in Want
    PROVE  Completed(w) \in Want
BY DEF RowsTyped, Completed, Want

LEMMA FieldsTyped ==
    ASSUME NEW op \in {"create", "change"}, NEW r \in Row, NEW w \in Fields(op, r)
    PROVE  w \in Want
BY QuotaConstantsOK DEF Fields, Want

LEMMA RowsNext ==
    ASSUME RowsTyped, [Next]_vars
    PROVE  RowsTyped'
<1> USE DEF RowsTyped
<1>1. CASE UNCHANGED vars
  BY <1>1 DEF vars, rows, requests
<1>2. ASSUME NEW q \in Request, Ask(q) PROVE RowsTyped'
  <2>1. PICK w \in Want : want' = [want EXCEPT ![q] = w]
    BY <1>2, FieldsTyped DEF Ask
  <2> QED
    BY <1>2, <2>1, QuotaConstantsOK DEF Ask, Event, rows
<1>3. ASSUME NEW q \in Request, Lock(q) \/ Connect(q) \/ ConnectTimesOut(q) \/ StatementTimesOut(q)
      PROVE  RowsTyped'
  BY <1>3 DEF Lock, Connect, ConnectTimesOut, StatementTimesOut, rows
<1>4. ASSUME NEW q \in Request, Find(q) PROVE RowsTyped'
  <2>1. Completed(want[q]) \in Want
    BY CompletedTyped
  <2> QED
    BY <1>4, <2>1 DEF Find, rows
<1>5. ASSUME NEW q \in Request, ReadQuota(q) \/ SumApps(q) \/ SumDbs(q) \/ SumFns(q)
      PROVE  RowsTyped'
  BY <1>5 DEF ReadQuota, SumApps, SumDbs, SumFns, Subtract, rows
<1>6. ASSUME NEW q \in Request, Write(q) PROVE RowsTyped'
  BY <1>6, ApplyTyped DEF Write
<1>7. ASSUME NEW q \in Request, Finish(q) PROVE RowsTyped'
  BY <1>7 DEF Finish
<1>8. ASSUME NEW q \in Request, LateWrite(q) PROVE RowsTyped'
  BY <1>8, ApplyTyped DEF LateWrite, Disturb
<1>9. ASSUME NEW q \in Request, Abandon(q) \/ AbandonWriting(q) \/ AbandonWaiting(q)
      PROVE  RowsTyped'
  BY <1>9, QuotaConstantsOK DEF Abandon, AbandonWriting, AbandonWaiting, Event, rows
<1>10. CASE Unlock \/ Leak \/ Recycle
  BY <1>10 DEF Unlock, Leak, Recycle, requests, rows
<1>11. CASE Crash
  BY <1>11, QuotaConstantsOK DEF Crash, Event, rows
<1>12. ASSUME NEW r \in Row, Suspend(r) \/ Resume(r) \/ Remove(r) PROVE RowsTyped'
  <2>1. CASE Suspend(r)
    BY <2>1, QuotaConstantsOK DEF Suspend, Unlocked, Event, requests
  <2>2. CASE Resume(r)
    BY <2>2, QuotaConstantsOK DEF Resume, Unlocked, Disturb, Event, requests
  <2>3. CASE Remove(r)
    BY <2>3, QuotaConstantsOK DEF Remove, Unlocked, Event, requests
  <2> QED
    BY <1>12, <2>1, <2>2, <2>3
<1>13. CASE SetLimit
  BY <1>13, QuotaConstantsOK DEF SetLimit, Unlocked, Disturb, Event, requests
<1> QED
  BY <1>1, <1>2, <1>3, <1>4, <1>5, <1>6, <1>7, <1>8, <1>9, <1>10, <1>11, <1>12, <1>13
  DEF Next, Serving

\* Rows, pool and requests are well typed in every reachable state; that there are
\* never more free connections or abandoned sessions than the pool has follows from
\* the balance.
THEOREM TypeCorrect ==
    ASSUME Row # {}
    PROVE  Spec => []TypeOK
<1>1. Init => RowsTyped
  BY RowsInit
<1>2. RowsTyped /\ [Next]_vars => RowsTyped'
  BY RowsNext
<1>3. RowsTyped /\ IInv => TypeOK
  <2> SUFFICES ASSUME RowsTyped, IInv PROVE TypeOK
    OBVIOUS
  <2>1. free \in 0..Conns /\ orphans \in 0..Conns
    BY PinsType, QuotaConstantsOK DEF IInv, Shape, PoolBalanced, Pins
  <2> QED
    BY <2>1 DEF IInv, Shape, RowsTyped, TypeOK, Want, Place
<1> QED
  BY <1>1, <1>2, <1>3, QuotaInit, QuotaNext, PTL DEF Spec

-----------------------------------------------------------------------------
(***************************************************************************)
(* The quota.                                                              *)
(***************************************************************************)

\* A request gives what its check and its write need
Formed(w) ==
    /\ w.op = "create" => w.mem # NotGiven /\ w.reps # NotGiven
    /\ w.row \in Db => w.mem # NotGiven
    /\ w.row \notin App => w.reps = 1
    /\ w.op = "keep" => w.row \in Fn

\* What the other rows take, and what a request's row takes or may take again
Rest(q, S) == Sum(S \ {want[q].row})
Footprint(r) == IF live[r] = "absent" THEN 0 ELSE mem[r] * reps[r]

\* The quota holds at each statement for what is summed up already, and then for all
Bound(q) == Checks(want[q]) /\ limit # 0 /\ ~disturbed[q]
OfOne(w) == w.op = "change" /\ w.row \in App => reps[w.row] = 1
Room(q) ==
    /\ at[q] = "apps" => room[q] <= limit
    /\ at[q] = "dbs" => room[q] + Rest(q, App) <= limit
    /\ at[q] = "fns" => room[q] + Rest(q, App) + Rest(q, Db) <= limit
    /\ at[q] = "write" => Requested(want[q]) + Rest(q, Row) <= limit
    /\ at[q] = "finish" /\ OfOne(want[q]) => Footprint(want[q].row) + Rest(q, Row) <= limit

Reserved ==
    /\ \A q \in Request : Formed(want[q]) /\ room[q] \in Int
    /\ \A q \in Request : Bound(q) => Room(q)

-----------------------------------------------------------------------------
\* Sums, as the number of pairs of a row and a megabyte
Megabytes(f, S) == UNION {{r} \X (1..f[r]) : r \in S}
Total(f, S) == Cardinality(Megabytes(f, S))

LEMMA MegabytesIn ==
    ASSUME NEW f, NEW S
    PROVE  \A x : x \in Megabytes(f, S) <=> \E r \in S : \E n \in 1..f[r] : x = <<r, n>>
<1>1. \A x, r : x \in {r} \X (1..f[r]) <=> \E n \in 1..f[r] : x = <<r, n>>
  OBVIOUS
<1>2. \A x : x \in Megabytes(f, S) <=> \E r \in S : x \in {r} \X (1..f[r])
  BY DEF Megabytes
<1> QED
  BY <1>1, <1>2

LEMMA MegabytesFinite ==
    ASSUME NEW f \in [Row -> Nat], NEW S \in SUBSET Row
    PROVE  IsFiniteSet(Megabytes(f, S)) /\ Total(f, S) \in Nat
<1> DEFINE T == {{r} \X (1..f[r]) : r \in S}
           g == [r \in S |-> {r} \X (1..f[r])]
<1>1. IsFiniteSet(S)
  BY FS_Subset, QuotaConstantsOK
<1>2. g \in Surjection(S, T)
  BY DEF Surjection
<1>3. IsFiniteSet(T)
  BY <1>1, <1>2, FS_Surjection
<1>4. \A r \in S : IsFiniteSet({r} \X (1..f[r]))
  <2> SUFFICES ASSUME NEW r \in S PROVE IsFiniteSet({r} \X (1..f[r]))
    OBVIOUS
  <2>1. IsFiniteSet({r})
    BY FS_Singleton
  <2>2. IsFiniteSet(1..f[r])
    BY FS_Interval
  <2> QED
    BY <2>1, <2>2, FS_Product
<1>5. IsFiniteSet(UNION T)
  <2>1. \A U \in T : IsFiniteSet(U)
    BY <1>4
  <2> HIDE DEF T
  <2> QED
    BY <1>3, <2>1, FS_UNION
<1> QED
  BY <1>5, FS_CardinalityType DEF Megabytes, Total

LEMMA TotalSplit ==
    ASSUME NEW f \in [Row -> Nat], NEW S \in SUBSET Row, NEW T \in SUBSET Row, S \cap T = {}
    PROVE  Total(f, S \cup T) = Total(f, S) + Total(f, T)
<1>1. PICK A, B : A = Megabytes(f, S) /\ B = Megabytes(f, T)
  OBVIOUS
<1>2. Megabytes(f, S \cup T) = A \cup B
  BY <1>1, MegabytesIn
<1>3. A \cap B = {}
  <2> SUFFICES ASSUME NEW x, x \in Megabytes(f, S), x \in Megabytes(f, T) PROVE FALSE
    BY <1>1
  <2>1. PICK r \in S : \E n \in 1..f[r] : x = <<r, n>>
    BY MegabytesIn
  <2>2. PICK q \in T : \E n \in 1..f[q] : x = <<q, n>>
    BY MegabytesIn
  <2> QED
    BY <2>1, <2>2
<1>4. IsFiniteSet(A) /\ IsFiniteSet(B) /\ Cardinality(A) \in Nat /\ Cardinality(B) \in Nat
  BY <1>1, MegabytesFinite DEF Total
<1>5. Cardinality(A \cup B) = Cardinality(A) + Cardinality(B) - Cardinality({})
  BY <1>3, <1>4, FS_Union
<1>6. Cardinality(A \cup B) = Cardinality(A) + Cardinality(B)
  BY <1>4, <1>5, FS_EmptySet
<1> QED
  BY <1>1, <1>2, <1>6 DEF Total

LEMMA TotalOne ==
    ASSUME NEW f \in [Row -> Nat], NEW r \in Row
    PROVE  Total(f, {r}) = f[r]
<1>1. Megabytes(f, {r}) = {r} \X (1..f[r])
  BY DEF Megabytes
<1>2. f[r] \in Nat /\ IsFiniteSet({r}) /\ Cardinality({r}) = 1
  BY FS_Singleton
<1>3. IsFiniteSet(1..f[r]) /\ Cardinality(1..f[r]) = f[r]
  BY <1>2, FS_Interval
<1>4. Cardinality({r} \X (1..f[r])) = Cardinality({r}) * Cardinality(1..f[r])
  BY <1>2, <1>3, FS_Product
<1>5. Cardinality({r} \X (1..f[r])) = 1 * f[r]
  BY <1>2, <1>3, <1>4
<1>6. 1 * f[r] = f[r]
  BY <1>2
<1> QED
  BY <1>1, <1>5, <1>6 DEF Total

LEMMA TotalLess ==
    ASSUME NEW f \in [Row -> Nat], NEW g \in [Row -> Nat], NEW S \in SUBSET Row,
           \A r \in S : f[r] <= g[r]
    PROVE  Total(f, S) <= Total(g, S)
<1>1. Megabytes(f, S) \subseteq Megabytes(g, S)
  <2> SUFFICES ASSUME NEW r \in S, NEW n \in 1..f[r] PROVE <<r, n>> \in Megabytes(g, S)
    BY MegabytesIn
  <2>1. n \in 1..g[r]
    OBVIOUS
  <2> QED
    BY <2>1, MegabytesIn
<1> QED
  BY <1>1, FS_Subset, MegabytesFinite DEF Total

-----------------------------------------------------------------------------
Weights == [r \in Row |-> Weight(r)]

LEMMA SumIsTotal ==
    ASSUME NEW S \in SUBSET Row
    PROVE  Sum(S) = Total(Weights, S) /\ Sum(S)' = Total(Weights', S)
<1>1. {{r} \X (1..Weight(r)) : r \in S} = {{r} \X (1..Weights[r]) : r \in S}
  BY DEF Weights
<1>2. {{r} \X (1..Weight(r)') : r \in S} = {{r} \X (1..Weights'[r]) : r \in S}
  BY DEF Weights
<1> QED
  BY <1>1, <1>2 DEF Sum, Total, Megabytes

\* The weight of a row, and the memory it may take again, are numbers
Weighed ==
    /\ Weights \in [Row -> Nat]
    /\ \A r \in Row : /\ Weight(r) \in Nat /\ Footprint(r) \in Nat
                      /\ Weight(r) <= Footprint(r) /\ mem[r] \in Nat /\ reps[r] \in Nat

LEMMA WeightsTyped == RowsTyped => Weighed
<1> SUFFICES ASSUME RowsTyped PROVE Weighed
  OBVIOUS
<1>0. Mems \subseteq Nat /\ Reps \subseteq Nat
  BY QuotaConstantsOK
<1>1. \A r \in Row : mem[r] \in Nat /\ reps[r] \in Nat
  <2>1. mem \in [Row -> Mems \cup {0}] /\ reps \in [Row -> Reps]
    BY DEF RowsTyped
  <2>2. Mems \cup {0} \subseteq Nat
    BY <1>0
  <2> QED
    BY <1>0, <2>1, <2>2
<1>2. \A m, n \in Nat : m * n \in Nat
  OBVIOUS
<1>3. \A r \in Row : mem[r] * reps[r] \in Nat
  BY <1>1, <1>2
<1>4. \A r \in Row : Weight(r) \in Nat /\ Footprint(r) \in Nat /\ Weight(r) <= Footprint(r)
  BY <1>3 DEF Weight, Footprint
<1> QED
  BY <1>1, <1>4 DEF Weights, Weighed

LEMMA WeightsTypedNext == RowsTyped' => Weighed'
BY WeightsTyped, PTL

\* Sums of rows none of which has become heavier.
LEMMA SumLess ==
    ASSUME RowsTyped, RowsTyped', NEW S \in SUBSET Row, \A r \in S : Weight(r)' <= Weight(r)
    PROVE  Sum(S) \in Nat /\ Sum(S)' \in Nat /\ Sum(S)' <= Sum(S)
<1>1. Weights \in [Row -> Nat] /\ Weights' \in [Row -> Nat]
  BY WeightsTyped, WeightsTypedNext DEF Weighed
<1>2. \A r \in S : Weights'[r] <= Weights[r]
  BY DEF Weights
<1>3. Total(Weights', S) <= Total(Weights, S)
  BY <1>1, <1>2, TotalLess
<1>4. Total(Weights, S) \in Nat /\ Total(Weights', S) \in Nat
  BY <1>1, MegabytesFinite
<1> QED
  BY <1>3, <1>4, SumIsTotal

\* The sums of a check are not less than what the other rows weigh, kind by kind.
Summed ==
    \A q \in Request :
        /\ \A S \in SUBSET Row : /\ Rest(q, S) \in Nat /\ Sum(Others(want[q], S)) \in Nat
                                 /\ Rest(q, S) <= Sum(Others(want[q], S))
        /\ Rest(q, Row) = Rest(q, App) + Rest(q, Db) + Rest(q, Fn)
        /\ want[q].row \in Row /\ Used = Weight(want[q].row) + Rest(q, Row)

LEMMA SumsAdd == RowsTyped => Summed
<1> SUFFICES ASSUME RowsTyped, NEW q \in Request PROVE
        /\ \A S \in SUBSET Row : /\ Rest(q, S) \in Nat /\ Sum(Others(want[q], S)) \in Nat
                                 /\ Rest(q, S) <= Sum(Others(want[q], S))
        /\ Rest(q, Row) = Rest(q, App) + Rest(q, Db) + Rest(q, Fn)
        /\ want[q].row \in Row /\ Used = Weight(want[q].row) + Rest(q, Row)
  BY DEF Summed
<1> DEFINE f == Weights
<1>1. f \in [Row -> Nat] /\ \A r \in Row : f[r] = Weight(r)
  BY WeightsTyped DEF Weighed, Weights
<1>2. PICK x \in Row : x = want[q].row
  BY DEF RowsTyped, Want
<1>3. \A S \in SUBSET Row : Sum(S) = Total(f, S) /\ Total(f, S) \in Nat
  <2>1. \A S \in SUBSET Row : Total(f, S) \in Nat
    BY <1>1, MegabytesFinite
  <2> QED
    BY <2>1, SumIsTotal
<1> HIDE DEF f
<1>4. \A S \in SUBSET Row : Rest(q, S) = Total(f, S \ {x}) /\ Rest(q, S) \in Nat
  BY <1>2, <1>3 DEF Rest
<1>5. ASSUME NEW S \in SUBSET Row
      PROVE  Total(f, S) = Total(f, S \ {x}) + (IF x \in S THEN f[x] ELSE 0)
  <2>1. CASE x \in S
    <3>1. Total(f, (S \ {x}) \cup {x}) = Total(f, S \ {x}) + Total(f, {x})
      BY <1>1, TotalSplit
    <3>2. (S \ {x}) \cup {x} = S
      BY <2>1
    <3> QED
      BY <1>1, <2>1, <3>1, <3>2, TotalOne
  <2>2. CASE x \notin S
    <3>1. S \ {x} = S /\ Total(f, S) \in Nat
      BY <1>3, <2>2
    <3> QED
      BY <2>2, <3>1
  <2> QED
    BY <2>1, <2>2
<1>6. ASSUME NEW S \in SUBSET Row
      PROVE  /\ Sum(Others(want[q], S)) \in Nat
             /\ Rest(q, S) <= Sum(Others(want[q], S))
  <2>1. f[x] \in Nat
    BY <1>1
  <2>2. Others(want[q], S) \in {S, S \ {x}}
    BY <1>2 DEF Others
  <2>3. Sum(S) = Total(f, S) /\ Sum(S \ {x}) = Total(f, S \ {x})
        /\ Total(f, S) \in Nat /\ Total(f, S \ {x}) \in Nat
    BY <1>3
  <2>4. Total(f, S \ {x}) <= Total(f, S)
    BY <1>5, <2>1, <2>3
  <2> QED
    BY <1>4, <2>2, <2>3, <2>4
<1>7. Rest(q, Row) = Rest(q, App) + Rest(q, Db) + Rest(q, Fn)
  <2>1. PICK A, B, C : A = App \ {x} /\ B = Db \ {x} /\ C = Fn \ {x}
    OBVIOUS
  <2>2. App \cap Db = {} /\ App \cap Fn = {} /\ Db \cap Fn = {}
    BY QuotaConstantsOK
  <2>3. A \subseteq Row /\ B \subseteq Row /\ C \subseteq Row /\ Row \ {x} = (A \cup B) \cup C
        /\ A \cap B = {} /\ (A \cup B) \cap C = {}
    BY <2>1, <2>2 DEF Row
  <2>4. Total(f, A \cup B) = Total(f, A) + Total(f, B)
    BY <1>1, <2>3, TotalSplit
  <2>5. Total(f, (A \cup B) \cup C) = Total(f, A \cup B) + Total(f, C)
    BY <1>1, <2>3, TotalSplit
  <2>6. /\ Rest(q, Row) = Total(f, Row \ {x}) /\ Rest(q, App) = Total(f, A)
        /\ Rest(q, Db) = Total(f, B) /\ Rest(q, Fn) = Total(f, C)
    BY <1>4, <2>1 DEF Row
  <2> QED
    BY <2>3, <2>4, <2>5, <2>6
<1>8. Used = Weight(x) + Rest(q, Row)
  <2>1. Used = Total(f, Row) /\ Rest(q, Row) = Total(f, Row \ {x}) /\ Rest(q, Row) \in Nat
    BY <1>3, <1>4 DEF Used
  <2>2. Total(f, Row) = Total(f, Row \ {x}) + f[x] /\ f[x] = Weight(x) /\ f[x] \in Nat
    BY <1>1, <1>5
  <2> QED
    BY <2>1, <2>2
<1> QED
  BY <1>2, <1>4, <1>6, <1>7, <1>8

LEMMA SumsAddNext == RowsTyped' => Summed'
BY SumsAdd, PTL

\* A row of another that becomes no heavier leaves a request its room.
LEMMA RoomStays ==
    ASSUME RowsTyped, RowsTyped', NEW q \in Request, Room(q),
           at'[q] = at[q], want'[q] = want[q], room'[q] = room[q], room[q] \in Int,
           limit' = limit, reps' = reps,
           \A r \in Row : Weight(r)' <= Weight(r) /\ Footprint(r)' <= Footprint(r)
    PROVE  Room(q)'
<1>1. PICK x \in Row : x = want[q].row /\ x = want'[q].row
  BY DEF RowsTyped, Want
<1>2. \A S \in SUBSET Row :
          Rest(q, S) \in Nat /\ Rest(q, S)' \in Nat /\ Rest(q, S)' <= Rest(q, S)
  BY <1>1, SumLess DEF Rest
<1>3. App \in SUBSET Row /\ Db \in SUBSET Row /\ Row \in SUBSET Row
  BY DEF Row
<1>4. limit \in Int /\ Footprint(x) \in Nat /\ Footprint(x)' \in Nat
  BY QuotaConstantsOK, WeightsTyped, WeightsTypedNext DEF RowsTyped, Weighed
<1>5. Requested(want[q]) \in Int
  <2>1. Mems \cup {0, NotGiven} \subseteq Int /\ Reps \cup {NotGiven} \subseteq Int
    BY QuotaConstantsOK DEF NotGiven
  <2>3. want[q].mem \in Mems \cup {0, NotGiven} /\ want[q].reps \in Reps \cup {NotGiven}
    BY DEF RowsTyped, Want
  <2>4. want[q].mem \in Int /\ want[q].reps \in Int
    BY <2>1, <2>3
  <2>2. want[q].mem * want[q].reps \in Int
    BY <2>4
  <2> QED
    BY <2>2, <2>4 DEF Requested
<1>6. at'[q] = "apps" => room'[q] <= limit'
  BY DEF Room
<1>7. at'[q] = "dbs" => room'[q] + Rest(q, App)' <= limit'
  BY <1>2, <1>3, <1>4 DEF Room
<1>8. at'[q] = "fns" => room'[q] + Rest(q, App)' + Rest(q, Db)' <= limit'
  BY <1>2, <1>3, <1>4 DEF Room
<1>9. at'[q] = "write" => Requested(want'[q]) + Rest(q, Row)' <= limit'
  BY <1>2, <1>3, <1>4, <1>5 DEF Room
<1>10. at'[q] = "finish" /\ OfOne(want[q])' => Footprint(x)' + Rest(q, Row)' <= limit'
  <2> SUFFICES ASSUME at'[q] = "finish", OfOne(want[q])'
               PROVE  Footprint(x)' + Rest(q, Row)' <= limit'
    OBVIOUS
  <2>1. OfOne(want[q])
    BY DEF OfOne
  <2>2. Footprint(x) + Rest(q, Row) <= limit
    BY <1>1, <2>1 DEF Room
  <2>3. Footprint(x)' <= Footprint(x)
    OBVIOUS
  <2> QED
    BY <1>2, <1>3, <1>4, <2>2, <2>3
<1> QED
  BY <1>1, <1>6, <1>7, <1>8, <1>9, <1>10 DEF Room

\* From the first sum on a check has to leave room
PastQuota == {"apps", "dbs", "fns", "write", "finish"}

\* What a request that checks the quota asks for is a number.
LEMMA AsksANumber ==
    ASSUME RowsTyped, NEW q \in Request, Formed(want[q]), Checks(want[q])
    PROVE  /\ want[q].mem \in Nat /\ Requested(want[q]) \in Nat
           /\ want[q].op \in {"create", "change"}
           /\ want[q].op = "create" => want[q].reps \in Nat /\ want[q].reps # NotGiven
           /\ want[q].mem # NotGiven
<1>1. PICK w \in Want : w = want[q]
  BY DEF RowsTyped
<1>2. w.op \in {"create", "change", "keep"} /\ w.row \in Row
      /\ w.mem \in Mems \cup {0, NotGiven} /\ w.reps \in Reps \cup {NotGiven}
  BY DEF Want
<1>3. Mems \subseteq Nat /\ Reps \subseteq Nat /\ NotGiven \notin Nat
  BY QuotaConstantsOK DEF NotGiven
<1>4. App \cap Db = {} /\ App \cap Fn = {} /\ Db \cap Fn = {}
  BY QuotaConstantsOK
<1>5. w.op # "keep"
  BY <1>1, <1>4 DEF Formed, Checks
<1>6. w.op = "create" => w.reps \in Nat /\ w.reps # NotGiven
  BY <1>1, <1>2, <1>3 DEF Formed
<1>7. w.mem # NotGiven
  <2>1. CASE w.row \in App
    <3>1. w.mem > 0
      BY <1>1, <1>4, <2>1 DEF Checks
    <3>2. ~(-1 > 0)
      OBVIOUS
    <3> QED
      BY <3>1, <3>2 DEF NotGiven
  <2>2. CASE w.row \in Db
    BY <1>1, <2>2 DEF Formed
  <2>3. CASE w.row \in Fn
    BY <1>1, <1>4, <2>3 DEF Formed, Checks
  <2> QED
    BY <1>2, <2>1, <2>2, <2>3 DEF Row
<1>8. w.mem \in Nat
  <2>1. w.mem \in Mems \/ w.mem = 0
    BY <1>2, <1>7
  <2>2. Mems \subseteq Nat /\ 0 \in Nat
    BY <1>3
  <2> QED
    BY <2>1, <2>2
<1>9. Requested(w) \in Nat
  <2>1. \A m, n \in Nat : m * n \in Nat
    OBVIOUS
  <2> QED
    BY <1>6, <1>8, <2>1 DEF Requested
<1> QED
  BY <1>1, <1>2, <1>5, <1>6, <1>7, <1>8, <1>9

\* A step of one request at rows that stay as they are leaves the others their room.
LEMMA OneRoom ==
    ASSUME Reserved, RowsTyped, RowsTyped', NEW p \in Request,
           UNCHANGED <<limit, rows>>,
           \A q \in Request \ {p} : /\ at'[q] = at[q] /\ want'[q] = want[q]
                                    /\ room'[q] = room[q] /\ disturbed'[q] = disturbed[q],
           Formed(want'[p]), room'[p] \in Int, Bound(p)' => Room(p)'
    PROVE  Reserved'
<1>1. ASSUME NEW q \in Request, q # p
      PROVE  Formed(want'[q]) /\ room'[q] \in Int /\ (Bound(q)' => Room(q)')
  <2>1. at'[q] = at[q] /\ want'[q] = want[q] /\ room'[q] = room[q] /\ disturbed'[q] = disturbed[q]
    BY <1>1
  <2>2. Formed(want'[q]) /\ room'[q] \in Int /\ room[q] \in Int
    BY <2>1 DEF Reserved
  <2>3. ASSUME Bound(q)' PROVE Room(q)'
    <3>1. Bound(q)
      BY <2>1, <2>3 DEF Bound
    <3>2. Room(q)
      BY <3>1 DEF Reserved
    <3>3. live' = live /\ mem' = mem /\ reps' = reps /\ limit' = limit
      BY DEF rows
    <3>4. \A r \in Row : Weight(r)' = Weight(r) /\ Footprint(r)' = Footprint(r)
      BY <3>3 DEF Weight, Footprint
    <3>5. \A r \in Row : Weight(r) \in Nat /\ Footprint(r) \in Nat
      BY WeightsTyped DEF Weighed
    <3>6. \A r \in Row : Weight(r)' <= Weight(r) /\ Footprint(r)' <= Footprint(r)
      BY <3>4, <3>5
    <3> QED
      BY <2>1, <2>2, <3>2, <3>3, <3>6, RoomStays
  <2> QED
    BY <2>2, <2>3
<1> QED
  BY <1>1 DEF Reserved, Formed

\* A step of a request that does not go on, or not yet, with its check.
LEMMA OneApart ==
    ASSUME Reserved, RowsTyped, RowsTyped', NEW p \in Request, UNCHANGED <<limit, rows, room>>,
           \A q \in Request \ {p} : /\ at'[q] = at[q] /\ want'[q] = want[q]
                                    /\ disturbed'[q] = disturbed[q],
           Formed(want'[p]), at'[p] \notin PastQuota
    PROVE  Reserved'
<1>1. Room(p)'
  BY DEF Room, PastQuota
<1>2. room'[p] \in Int
  BY DEF Reserved
<1> QED
  BY <1>1, <1>2, OneRoom

\* No step but of the check and the write moves a request on to their statements.
LEMMA OutsideKeepsRoom ==
    ASSUME IInv, RowsTyped, RowsTyped', Reserved, NEW q \in Request,
           \/ Ask(q) \/ Connect(q) \/ ConnectTimesOut(q) \/ Lock(q) \/ StatementTimesOut(q)
           \/ Abandon(q) \/ AbandonWriting(q) \/ AbandonWaiting(q)
    PROVE  Reserved'
<1>0. /\ at \in [Request -> Place] /\ want \in [Request -> Want]
      /\ disturbed \in [Request -> BOOLEAN]
  BY DEF IInv, Shape, RowsTyped
<1>1. CASE Ask(q)
  <2>1. PICK r \in Row : \E w \in IF Fresh(r) THEN Fields("create", r) ELSE Fields("change", r) :
                             want' = [want EXCEPT ![q] = w]
    BY <1>1 DEF Ask
  <2>2. PICK w \in Fields("create", r) \cup Fields("change", r) : want' = [want EXCEPT ![q] = w]
    BY <2>1
  <2>3. Formed(w)
    <3>1. Mems \subseteq Nat /\ Reps \subseteq Nat /\ App \cap Db = {} /\ NotGiven \notin Nat
      BY QuotaConstantsOK DEF NotGiven
    <3>2. CASE w \in Fields("create", r)
      <4>1. w.op = "create" /\ w.row = r /\ w.mem \in Mems
            /\ (r \notin App => w.reps = 1) /\ (r \in App => w.reps \in Reps)
        BY <3>2 DEF Fields
      <4>2. 1 # NotGiven
        BY DEF NotGiven
      <4> QED
        BY <3>1, <4>1, <4>2 DEF Formed
    <3>3. CASE w \in Fields("change", r)
      <4>1. w.op = "change" /\ w.row = r /\ (r \in Db => w.mem \in Mems)
            /\ (r \notin App => w.reps = 1)
        BY <3>3 DEF Fields
      <4> QED
        BY <3>1, <4>1 DEF Formed
    <3> QED
      BY <2>2, <3>2, <3>3
  <2>4. want'[q] = w /\ \A p \in Request \ {q} : want'[p] = want[p]
    BY <1>0, <2>2
  <2>5. at'[q] = "connect" /\ \A p \in Request \ {q} : at'[p] = at[p]
    BY <1>0, <1>1 DEF Ask, Goto
  <2>6. \A p \in Request \ {q} : disturbed'[p] = disturbed[p]
    BY <1>0, <1>1 DEF Ask
  <2>7. UNCHANGED <<limit, rows, room>>
    BY <1>1 DEF Ask
  <2> QED
    BY <2>3, <2>4, <2>5, <2>6, <2>7, OneApart DEF PastQuota
<1>2. CASE Connect(q) \/ ConnectTimesOut(q) \/ Lock(q) \/ StatementTimesOut(q)
           \/ Abandon(q) \/ AbandonWriting(q) \/ AbandonWaiting(q)
  <2>1. at'[q] \notin PastQuota /\ \A p \in Request \ {q} : at'[p] = at[p]
    BY <1>0, <1>2 DEF Connect, ConnectTimesOut, Lock, StatementTimesOut, Abandon, AbandonWriting,
                      AbandonWaiting, Goto, Leave, PastQuota
  <2>2. UNCHANGED <<limit, rows, want, room, disturbed>>
    BY <1>2 DEF Connect, ConnectTimesOut, Lock, StatementTimesOut, Abandon, AbandonWriting,
                AbandonWaiting
  <2>3. Formed(want'[q])
    BY <2>2 DEF Reserved
  <2> QED
    BY <2>1, <2>2, <2>3, OneApart
<1> QED
  BY <1>1, <1>2

\* The statements of the check take from the room what the other rows weigh, kind by kind.
LEMMA CheckKeepsRoom ==
    ASSUME IInv, RowsTyped, RowsTyped', Reserved, NEW q \in Request,
           Find(q) \/ ReadQuota(q) \/ SumApps(q) \/ SumDbs(q) \/ SumFns(q)
    PROVE  Reserved'
<1>0. /\ at \in [Request -> Place] /\ want \in [Request -> Want]
      /\ DOMAIN room = Request /\ limit \in Int
  BY QuotaConstantsOK DEF IInv, Shape, RowsTyped
<1>1. /\ Formed(want[q]) /\ room[q] \in Int /\ (Bound(q) => Room(q))
  BY DEF Reserved
<1>2. UNCHANGED <<limit, rows, disturbed>>
  BY DEF Find, ReadQuota, SumApps, SumDbs, SumFns, Subtract
<1>3. \A p \in Request \ {q} : at'[p] = at[p] /\ want'[p] = want[p] /\ room'[p] = room[p]
  BY <1>0 DEF Find, ReadQuota, SumApps, SumDbs, SumFns, Subtract, Goto, Leave
<1>4. \A p \in Request \ {q} : disturbed'[p] = disturbed[p]
  BY <1>2
<1>5. Formed(want'[q]) /\ room'[q] \in Int /\ (Bound(q)' => Room(q)')
  <2>1. CASE Find(q)
    <3>0. App \cap Db = {} /\ App \cap Fn = {} /\ Db \cap Fn = {}
      BY QuotaConstantsOK
    <3>1. PICK w \in Want : w = want[q]
      BY <1>0
    <3>2. want'[q] \in {w, Completed(w)} /\ room' = room
          /\ (at'[q] = "write" => ~Checks(w) /\ want'[q] = Completed(w))
          /\ at'[q] \notin PastQuota \ {"write"}
      BY <1>0, <2>1, <3>1 DEF Find, Goto, Leave, PastQuota
    <3>3. Formed(Completed(w))
      BY <1>1, <3>0, <3>1 DEF Formed, Completed, Want
    <3>4. ~Checks(w) => ~Checks(Completed(w))
      BY <3>0, <3>1 DEF Checks, Completed, Want
    <3>5. ~Checks(want[q])' => ~Bound(q)'
      BY DEF Bound
    <3>6. at'[q] = "write" => ~Checks(want'[q])
      BY <3>2, <3>4
    <3>7. at'[q] # "write" => Room(q)'
      BY <3>2 DEF Room, PastQuota
    <3>8. Formed(want'[q])
      BY <1>1, <3>1, <3>2, <3>3
    <3> QED
      BY <1>1, <3>2, <3>5, <3>6, <3>7, <3>8
  <2>2. CASE ReadQuota(q)
    <3>1. want' = want
      BY <2>2 DEF ReadQuota
    <3>2. CASE limit = 0
      BY <1>1, <1>2, <2>2, <3>1, <3>2 DEF ReadQuota, Bound
    <3>3. CASE limit # 0
      <4>1. at'[q] = "apps" /\ room'[q] = limit /\ limit' = limit
        BY <1>0, <2>2, <3>3 DEF ReadQuota, Goto
      <4> QED
        BY <1>0, <1>1, <3>1, <4>1 DEF Room
    <3> QED
      BY <3>2, <3>3
  <2>3. CASE SumApps(q) \/ SumDbs(q) \/ SumFns(q)
    <3>1. want' = want /\ limit' = limit /\ disturbed' = disturbed
          /\ live' = live /\ mem' = mem /\ reps' = reps
      BY <2>3 DEF SumApps, SumDbs, SumFns, Subtract, rows
    <3>2. \A S : Rest(q, S)' = Rest(q, S)
      BY <3>1 DEF Rest, Sum, Weight
    <3>3. \A S \in {App, Db, Fn} : /\ Rest(q, S) \in Nat /\ Sum(Others(want[q], S)) \in Nat
                                   /\ Rest(q, S) <= Sum(Others(want[q], S))
      <4>1. App \in SUBSET Row /\ Db \in SUBSET Row /\ Fn \in SUBSET Row
        BY DEF Row
      <4> QED
        BY <4>1, SumsAdd DEF Summed
    <3>4. Formed(want'[q])
      BY <1>1, <3>1
    <3>5. Bound(q)' => Bound(q)
      BY <3>1 DEF Bound
    <3>6. CASE SumApps(q)
      <4>1. at[q] = "apps" /\ at'[q] = "dbs" /\ room'[q] = room[q] - Sum(Others(want[q], App))
        BY <1>0, <3>6 DEF SumApps, Subtract, Goto, Statement
      <4>2. Bound(q) => room'[q] + Rest(q, App) <= limit
        BY <1>0, <1>1, <3>3, <4>1 DEF Room
      <4>3. room'[q] \in Int
        BY <1>1, <3>3, <4>1
      <4> QED
        BY <3>1, <3>2, <3>4, <3>5, <4>1, <4>2, <4>3 DEF Room
    <3>7. CASE SumDbs(q)
      <4>1. at[q] = "dbs" /\ at'[q] = "fns" /\ room'[q] = room[q] - Sum(Others(want[q], Db))
        BY <1>0, <3>7 DEF SumDbs, Subtract, Goto, Statement
      <4>2. Bound(q) => room'[q] + Rest(q, App) + Rest(q, Db) <= limit
        BY <1>0, <1>1, <3>3, <4>1 DEF Room
      <4>3. room'[q] \in Int
        BY <1>1, <3>3, <4>1
      <4> QED
        BY <3>1, <3>2, <3>4, <3>5, <4>1, <4>2, <4>3 DEF Room
    <3>8. CASE SumFns(q)
      <4>1. at[q] = "fns" /\ room' = room
            /\ \/ at'[q] = "idle"
               \/ at'[q] = "write" /\ Requested(want[q]) <= room[q] - Sum(Others(want[q], Fn))
        BY <1>0, <3>8 DEF SumFns, Fits, Goto, Leave, Statement
      <4>2. CASE at'[q] = "idle"
        BY <1>1, <3>4, <4>1, <4>2 DEF Room
      <4>3. CASE at'[q] # "idle"
        <5> SUFFICES ASSUME Bound(q)' PROVE Room(q)'
          BY <1>1, <3>4, <4>1
        <5>1. Room(q) /\ Requested(want[q]) \in Nat
          BY <1>1, <3>5, AsksANumber DEF Bound
        <5>2. Rest(q, Row) = Rest(q, App) + Rest(q, Db) + Rest(q, Fn)
          BY SumsAdd DEF Summed
        <5>3. room[q] + Rest(q, App) + Rest(q, Db) <= limit
          BY <4>1, <5>1 DEF Room
        <5>4. Requested(want[q]) + Rest(q, Row) <= limit
          BY <1>0, <1>1, <3>3, <4>1, <4>3, <5>1, <5>2, <5>3
        <5> QED
          BY <3>1, <3>2, <4>1, <4>3, <5>4 DEF Room
      <4> QED
        BY <4>2, <4>3
    <3> QED
      BY <2>3, <3>6, <3>7, <3>8
  <2> QED
    BY <2>1, <2>2, <2>3
<1> QED
  BY <1>2, <1>3, <1>4, <1>5, OneRoom

\* What a write leaves of the memory of the row is not more than the request was checked for.
LEMMA WriteFits ==
    ASSUME RowsTyped, RowsTyped', NEW q \in Request, Formed(want[q]), Checks(want[q]),
           Apply(want[q]), want' = want, OfOne(want[q])'
    PROVE  /\ Footprint(want[q].row)' <= Requested(want[q])
           /\ Rest(q, Row)' <= Rest(q, Row) /\ Rest(q, Row) \in Nat /\ Rest(q, Row)' \in Nat
<1>1. PICK w \in Want : w = want[q] /\ w.row \in Row
  BY DEF RowsTyped, Want
<1>2. PICK x \in Row : x = w.row
  BY <1>1
<1>3. /\ w.mem \in Nat /\ Requested(w) \in Nat /\ w.op \in {"create", "change"}
      /\ w.op = "create" => w.reps \in Nat /\ w.reps # NotGiven
      /\ w.mem # NotGiven
  BY <1>1, AsksANumber
<1>4. /\ live \in [Row -> {"absent", "on", "off"}] /\ mem \in [Row -> Mems \cup {0}]
      /\ reps \in [Row -> Reps]
  BY DEF RowsTyped
<1>5. \A r \in Row \ {x} : live'[r] = live[r] /\ mem'[r] = mem[r] /\ reps'[r] = reps[r]
  BY <1>1, <1>2, <1>4 DEF Apply, rows
<1>6. \A r \in Row \ {x} : Weight(r)' <= Weight(r)
  <2>1. \A r \in Row \ {x} : Weight(r)' = Weight(r)
    BY <1>5 DEF Weight
  <2>2. \A r \in Row : Weight(r) \in Nat
    BY WeightsTyped DEF Weighed
  <2> QED
    BY <2>1, <2>2
<1>7. /\ Rest(q, Row)' <= Rest(q, Row) /\ Rest(q, Row) \in Nat /\ Rest(q, Row)' \in Nat
  <2>1. Rest(q, Row) = Sum(Row \ {x}) /\ Rest(q, Row)' = Sum(Row \ {x})'
    BY <1>1, <1>2 DEF Rest
  <2> QED
    BY <1>6, <2>1, SumLess
<1>8. Footprint(x)' <= Requested(w)
  <2>1. CASE w.op # "create" /\ live[x] = "absent"
    <3>1. live'[x] = "absent"
      BY <1>1, <1>2, <2>1 DEF Apply, rows
    <3> QED
      BY <1>3, <3>1 DEF Footprint
  <2>2. CASE w.op = "create" \/ live[x] # "absent"
    <3>1. mem'[x] = w.mem /\ reps'[x] = Given(w.reps, reps[x])
      BY <1>1, <1>2, <1>3, <1>4, <2>2 DEF Apply, Given
    <3>2. CASE w.op = "create"
      <4>1. reps'[x] = w.reps /\ Requested(w) = w.mem * w.reps
        BY <1>3, <3>1, <3>2 DEF Given, Requested
      <4>2. Footprint(x)' \in {0, Requested(w)}
        BY <3>1, <4>1 DEF Footprint
      <4> QED
        BY <1>3, <4>2
    <3>3. CASE w.op = "change"
      <4>1. reps'[x] = 1
        <5>1. CASE x \in App
          BY <1>1, <1>2, <3>3, <5>1 DEF OfOne
        <5>2. CASE x \notin App
          <6>1. w.reps = 1 /\ 1 # NotGiven
            BY <1>1, <1>2, <5>2 DEF Formed, NotGiven
          <6> QED
            BY <3>1, <6>1 DEF Given
        <5> QED
          BY <5>1, <5>2
      <4>2. Requested(w) = w.mem /\ mem'[x] * 1 = w.mem
        BY <1>3, <3>1, <3>3 DEF Requested
      <4>3. Footprint(x)' \in {0, Requested(w)}
        BY <4>1, <4>2 DEF Footprint
      <4> QED
        BY <1>3, <4>3
    <3> QED
      BY <1>3, <3>2, <3>3
  <2> QED
    BY <2>1, <2>2
<1> QED
  BY <1>1, <1>2, <1>7, <1>8

\* A request that writes or finishes is alone in its section.
LEMMA LastStepsKeepRoom ==
    ASSUME IInv, RowsTyped, RowsTyped', Reserved, NEW q \in Request, Write(q) \/ Finish(q)
    PROVE  Reserved'
<1>1. want' = want /\ room' = room /\ disturbed' = disturbed /\ limit' = limit
  BY DEF Write, Finish
<1>2. \A p \in Request : Formed(want'[p]) /\ room'[p] \in Int
  BY <1>1 DEF Reserved
<1>3. ASSUME NEW p \in Request, p # q PROVE Room(p)'
  <2>1. at'[p] = at[p] /\ at[q] \in Section
    BY <1>3 DEF IInv, Shape, Write, Finish, Statement, Goto, Leave, Section
  <2>2. at[p] \notin Section
    BY <1>3, <2>1 DEF IInv, Serialized, InSection
  <2> QED
    BY <2>1, <2>2 DEF Room, Section, Checking
<1>4. ASSUME Bound(q)' PROVE Room(q)'
  <2>1. CASE Write(q)
    <3>1. at'[q] = "finish" /\ at[q] = "write" /\ Apply(want[q])
      BY <2>1 DEF IInv, Shape, Write, Goto, Statement
    <3>2. Bound(q) /\ Room(q)
      BY <1>1, <1>4 DEF Bound, Reserved
    <3>3. Formed(want[q]) /\ Checks(want[q]) /\ Requested(want[q]) + Rest(q, Row) <= limit
      BY <3>1, <3>2 DEF Reserved, Room, Bound
    <3> SUFFICES ASSUME OfOne(want[q])'
                 PROVE  Footprint(want[q].row)' + Rest(q, Row)' <= limit'
      BY <3>1 DEF Room
    <3>4. PICK x \in Row : x = want'[q].row
      BY DEF RowsTyped, Want
    <3>5. Footprint(x)' \in Nat /\ limit \in Int /\ Requested(want[q]) \in Nat
      BY <3>3, AsksANumber, WeightsTypedNext, QuotaConstantsOK DEF Weighed, RowsTyped
    <3>6. Footprint(x)' <= Requested(want[q])
          /\ Rest(q, Row)' <= Rest(q, Row) /\ Rest(q, Row) \in Nat /\ Rest(q, Row)' \in Nat
      BY <1>1, <3>1, <3>3, <3>4, WriteFits
    <3> QED
      BY <1>1, <3>3, <3>4, <3>5, <3>6
  <2>2. CASE Finish(q)
    <3>1. at'[q] = "idle"
      BY <2>2 DEF IInv, Shape, Finish, Goto, Leave
    <3> QED
      BY <3>1 DEF Room
  <2> QED
    BY <2>1, <2>2
<1> QED
  BY <1>2, <1>3, <1>4 DEF Reserved, Formed

\* What changes without the lock either weighs no more than before or disturbs the requests.
LEMMA UnlockedKeepsRoom ==
    ASSUME IInv, RowsTyped, RowsTyped', Reserved,
           \/ SetLimit \/ Crash
           \/ \E q \in Request : LateWrite(q)
           \/ \E r \in Row : Suspend(r) \/ Resume(r) \/ Remove(r)
    PROVE  Reserved'
<1>0. at \in [Request -> Place] /\ live \in [Row -> {"absent", "on", "off"}]
  BY DEF IInv, Shape, RowsTyped
<1>1. want' = want /\ room' = room
  BY DEF SetLimit, Crash, LateWrite, Suspend, Resume, Remove, Unlocked, requests
<1>2. \A q \in Request : Formed(want[q])' /\ room'[q] \in Int
  BY <1>1 DEF Reserved, Formed
<1>3. ASSUME NEW q \in Request, Bound(q)' PROVE Room(q)'
  <2>1. CASE SetLimit \/ \E r \in Row : Resume(r)
    <3>1. at' = at /\ Disturb
      BY <2>1 DEF SetLimit, Resume, Unlocked, requests
    <3>2. at[q] \notin Section
      BY <1>3, <3>1 DEF Disturb, Bound
    <3> QED
      BY <3>1, <3>2 DEF Room, Section, Checking
  <2>2. CASE Crash
    <3>1. at'[q] = "idle"
      BY <2>2 DEF Crash
    <3> QED
      BY <3>1 DEF Room
  <2>3. ASSUME NEW p \in Request, LateWrite(p) PROVE Room(q)'
    <3>1. Disturb /\ (at'[q] = at[q] \/ at'[q] = "idle")
      BY <1>0, <2>3 DEF LateWrite, Goto
    <3>2. at[q] \notin Section
      BY <1>3, <3>1 DEF Disturb, Bound
    <3> QED
      BY <3>1, <3>2 DEF Room, Section, Checking
  <2>4. ASSUME NEW r \in Row, Suspend(r) \/ Remove(r) PROVE Room(q)'
    <3>1. /\ at' = at /\ limit' = limit /\ disturbed' = disturbed
          /\ mem' = mem /\ reps' = reps
      BY <2>4 DEF Suspend, Remove, Unlocked, requests
    <3>2. Bound(q)
      BY <1>1, <1>3, <3>1 DEF Bound
    <3>3. Room(q) /\ room[q] \in Int
      BY <3>2 DEF Reserved
    <3>4. live[r] # "absent" /\ live'[r] \in {"off", "absent"}
          /\ \A s \in Row \ {r} : live'[s] = live[s]
      BY <1>0, <2>4 DEF Suspend, Remove
    <3>5. \A s \in Row : Weight(s) \in Nat /\ Footprint(s) \in Nat
      BY WeightsTyped DEF Weighed
    <3>6. /\ Weight(r)' = 0
          /\ Footprint(r)' \in {0, Footprint(r)}
      BY <3>1, <3>4 DEF Weight, Footprint
    <3>7. \A s \in Row \ {r} : Weight(s)' = Weight(s) /\ Footprint(s)' = Footprint(s)
      BY <3>1, <3>4 DEF Weight, Footprint
    <3>8. \A s \in Row : Weight(s)' <= Weight(s) /\ Footprint(s)' <= Footprint(s)
      <4> TAKE s \in Row
      <4>1. CASE s = r
        BY <3>5, <3>6, <4>1
      <4>2. CASE s # r
        BY <3>5, <3>7, <4>2
      <4> QED
        BY <4>1, <4>2
    <3> QED
      BY <1>1, <3>1, <3>3, <3>8, RoomStays
  <2> QED
    BY <2>1, <2>2, <2>3, <2>4
<1> QED
  BY <1>2, <1>3 DEF Reserved

LEMMA ReservedInit ==
    ASSUME Row # {}, Init
    PROVE  Reserved
<1>1. Nothing.row \in Row /\ Nothing.op = "create" /\ Nothing.mem = 0 /\ Nothing.reps = 1
  BY DEF Nothing
<1>2. Formed(Nothing)
  BY <1>1 DEF Formed, NotGiven
<1>3. \A q \in Request : want[q] = Nothing /\ room[q] = Unlimited /\ at[q] = "idle"
  BY DEF Init
<1>4. Unlimited \in Int
  BY DEF Unlimited
<1> QED
  BY <1>2, <1>3, <1>4 DEF Reserved, Room

LEMMA ReservedNext ==
    ASSUME IInv, RowsTyped, Reserved, [Next]_vars
    PROVE  Reserved'
<1>0. RowsTyped'
  BY RowsNext
<1>1. ASSUME UNCHANGED <<limit, rows, requests, disturbed>> PROVE Reserved'
  <2>1. /\ limit' = limit /\ live' = live /\ mem' = mem /\ reps' = reps
        /\ at' = at /\ want' = want /\ room' = room /\ disturbed' = disturbed
    BY <1>1 DEF rows, requests
  <2>2. ASSUME NEW q \in Request
        PROVE  Formed(want[q])' /\ room'[q] \in Int /\ (Bound(q)' => Room(q)')
    <3>1. (\A S : Rest(q, S)' = Rest(q, S)) /\ (\A r : Footprint(r)' = Footprint(r))
      BY <2>1 DEF Rest, Sum, Weight, Footprint
    <3>2. (Bound(q)' <=> Bound(q)) /\ OfOne(want[q])' = OfOne(want[q])
      BY <2>1 DEF Bound, OfOne
    <3>3. Room(q)' <=> Room(q)
      BY <2>1, <3>1, <3>2 DEF Room
    <3> QED
      BY <2>1, <3>2, <3>3 DEF Reserved, Formed
  <2> QED
    BY <2>2 DEF Reserved
<1>2. CASE UNCHANGED vars
  BY <1>1, <1>2 DEF vars
<1>3. CASE Unlock \/ Leak \/ Recycle
  BY <1>1, <1>3 DEF Unlock, Leak, Recycle
<1>4. ASSUME NEW q \in Request,
             \/ Ask(q) \/ Connect(q) \/ ConnectTimesOut(q) \/ Lock(q) \/ StatementTimesOut(q)
             \/ Abandon(q) \/ AbandonWriting(q) \/ AbandonWaiting(q)
      PROVE  Reserved'
  BY <1>0, <1>4, OutsideKeepsRoom
<1>5. ASSUME NEW q \in Request,
             Find(q) \/ ReadQuota(q) \/ SumApps(q) \/ SumDbs(q) \/ SumFns(q)
      PROVE  Reserved'
  BY <1>0, <1>5, CheckKeepsRoom
<1>6. ASSUME NEW q \in Request, Write(q) \/ Finish(q) PROVE Reserved'
  BY <1>0, <1>6, LastStepsKeepRoom
<1>7. ASSUME \/ SetLimit \/ Crash
             \/ \E q \in Request : LateWrite(q)
             \/ \E r \in Row : Suspend(r) \/ Resume(r) \/ Remove(r)
      PROVE  Reserved'
  BY <1>0, <1>7, UnlockedKeepsRoom
<1> QED
  BY <1>2, <1>3, <1>4, <1>5, <1>6, <1>7 DEF Next, Serving

\* The quota holds once a request that has checked it writes, and at its end.
LEMMA LastStepsWithin ==
    ASSUME IInv, RowsTyped, Reserved, [Next]_vars, NEW q \in Request,
           OneReplica(want[q]), Write(q) \/ Finish(q)
    PROVE  Within(q)
<1> SUFFICES ASSUME Bound(q) PROVE Used' <= limit
  BY DEF Within, Bound
<1>1. RowsTyped' /\ Reserved'
  BY RowsNext, ReservedNext
<1>2. want' = want /\ limit' = limit /\ disturbed' = disturbed /\ limit \in Int
  BY QuotaConstantsOK DEF Write, Finish, RowsTyped
<1>3. PICK x \in Row : x = want[q].row /\ x = want'[q].row
  BY <1>2 DEF RowsTyped, Want
<1>4. Used' = Weight(x)' + Rest(q, Row)' /\ Rest(q, Row)' \in Nat /\ Rest(q, Row) \in Nat
  BY <1>1, <1>3, SumsAdd, SumsAddNext DEF Summed
<1>5. /\ Weight(x)' \in Nat /\ Footprint(x)' \in Nat /\ Weight(x)' <= Footprint(x)'
      /\ Footprint(x) \in Nat
  BY <1>1, WeightsTyped, WeightsTypedNext DEF Weighed
<1>6. CASE Write(q)
  <2>1. at'[q] = "finish"
    BY <1>6 DEF IInv, Shape, Write, Goto
  <2>2. Bound(q)' /\ OfOne(want[q])'
    BY <1>2 DEF Bound, OneReplica, OfOne
  <2>3. Footprint(x)' + Rest(q, Row)' <= limit
    BY <1>1, <1>2, <1>3, <2>1, <2>2 DEF Reserved, Room
  <2> QED
    BY <1>2, <1>4, <1>5, <2>3
<1>7. CASE Finish(q)
  <2>1. at[q] = "finish" /\ mem' = mem /\ reps' = reps
    BY <1>7 DEF Finish, Statement
  <2>2. OfOne(want[q])
    BY <2>1 DEF OneReplica, OfOne
  <2>3. Footprint(x) + Rest(q, Row) <= limit
    BY <1>3, <2>1, <2>2 DEF Reserved, Room
  <2>4. \/ live' = live
        \/ live[x] # "absent" /\ live'[x] # "absent" /\ \A r \in Row \ {x} : live'[r] = live[r]
    BY <1>3, <1>7 DEF Finish, RowsTyped
  <2>5. Footprint(x)' = Footprint(x)
    BY <2>1, <2>4 DEF Footprint
  <2>6. \A r \in Row \ {x} : Weight(r)' <= Weight(r)
    <3>1. \A r \in Row \ {x} : Weight(r)' = Weight(r)
      BY <2>1, <2>4 DEF Weight
    <3>2. \A r \in Row : Weight(r) \in Nat
      BY WeightsTyped DEF Weighed
    <3> QED
      BY <3>1, <3>2
  <2>7. Rest(q, Row)' <= Rest(q, Row)
    <3>1. Rest(q, Row) = Sum(Row \ {x}) /\ Rest(q, Row)' = Sum(Row \ {x})'
      BY <1>3 DEF Rest
    <3> QED
      BY <1>1, <2>6, <3>1, SumLess
  <2> QED
    BY <1>2, <1>4, <1>5, <2>3, <2>5, <2>7
<1> QED
  BY <1>6, <1>7

\* Whatever requests do at the same time, and however many connections, clients that leave
\* and crashes there are, a request that has checked the quota leaves the workspace within it
\* when nothing that counts was changed without the lock meanwhile.
THEOREM QuotaRespectedAlways ==
    ASSUME Row # {}
    PROVE  Spec => QuotaRespected
<1> DEFINE A == \A q \in Request : OneReplica(want[q]) /\ (Write(q) \/ Finish(q)) => Within(q)
<1>1. Init => IInv /\ RowsTyped /\ Reserved
  BY QuotaInit, RowsInit, ReservedInit
<1>2. IInv /\ RowsTyped /\ Reserved /\ [Next]_vars => (IInv /\ RowsTyped /\ Reserved)'
  BY QuotaNext, RowsNext, ReservedNext
<1>3. IInv /\ RowsTyped /\ Reserved /\ [Next]_vars => [A]_vars
  BY LastStepsWithin
<1> QED
  BY <1>1, <1>2, <1>3, PTL DEF Spec, QuotaRespected

-----------------------------------------------------------------------------
(***************************************************************************)
(* A managed database                                                      *)
(***************************************************************************)

DatabaseStage == {"idle", "publish", "sync", "apply", "good", "bad", "clear", "drop", "dump",
                  "dumping", "insert", "choose", "prune", "pruned", "unlist", "empty", "load"}
BackupRow == [ord : Nat, file : Second]
DatabaseState == [at : DatabaseStage, st : {"none", "provisioning", "running", "failed"},
                  file : Second, keep : Nat, ord : Nat, old : SUBSET BackupRow]

\* The types, with those of requests, and that backups are recorded in the order of their age
DatabaseTyped ==
    /\ status \in {"none", "provisioning", "running", "failed", "gone"} /\ keep \in Retention
    /\ task \in [at : {"none", "deploy", "watch", "good", "bad"}, watches : BOOLEAN]
    /\ reaper \in BOOLEAN /\ pod \in {"none", "starting", "ready", "failed"}
    /\ data \in {"whole", "torn"}
    /\ files \in [Second -> {"none", "partial", "whole"}]
    /\ backups \subseteq BackupRow /\ IsFiniteSet(backups) /\ made \in Nat
    /\ second \in Second /\ databaseEvents \in 0..MaxDatabaseEvents
    /\ req \in [DatabaseRequest -> DatabaseState]
Aged ==
    /\ \A b, c \in backups : b.ord = c.ord => b = c
    /\ \A b \in backups : b.ord <= made
    /\ \A r \in DatabaseRequest : /\ req[r].ord <= made
                                  /\ \A b \in req[r].old : b.ord <= made
                                  /\ req[r].old # {} => req[r].at \in {"prune", "pruned"}
                                  /\ req[r].at = "sync" => req[r].st # "none"
    /\ ~Exists => backups = {}
    /\ status = "none" => task.at = "none" /\ \A r \in DatabaseRequest : req[r].at = "idle"

\* Backups that are listed or about to be removed
Recorded == backups \cup UNION {req[q].old : q \in DatabaseRequest}
Writes(r) == req[r].at \in {"dump", "dumping", "insert"}

\* No backup is under way in a deletion; a file is that of one backup, and it is as far
\* as that backup is; what is listed has its file until its row is about to go
Files ==
    /\ Deleting => \A q \in DatabaseRequest : ~BackingUp(q)
    /\ \A b, c \in Recorded : b.file = c.file => b = c
    /\ \A r \in DatabaseRequest : Writes(r) =>
        /\ \A b \in Recorded : b.file # req[r].file
        /\ \A q \in DatabaseRequest : Writes(q) /\ req[q].file = req[r].file => q = r
        /\ req[r].at = "insert" => files[req[r].file] = "whole"
    /\ \A b \in backups :
        \/ files[b.file] = "whole" \/ At("drop") # {}
        \/ \E r \in DatabaseRequest : req[r].at \in {"pruned", "unlist"} /\ req[r].ord = b.ord

\* A backup has its age to itself from the moment its dump ends
Stamped == \A r \in DatabaseRequest : req[r].at = "insert" =>
    /\ \A b \in Recorded : b.ord # req[r].ord
    /\ \A q \in DatabaseRequest \ {r} :
        req[q].at \in {"insert", "pruned"} => req[q].ord # req[r].ord

\* A file that is not whole is being written
Partial == \A s \in Second : files[s] = "partial" =>
    \E r \in DatabaseRequest : req[r].at = "dumping" /\ req[r].file = s

\* One restore at a time; the data is torn while it loads, and is not dumped then
Filling ==
    /\ \A r, q \in At("empty") \cup At("load") : r = q
    /\ data = "whole" \/ At("load") # {}
    /\ At("load") # {} => data = "torn" /\ At("dumping") = {}

\* What is deleted is neither provisioned nor changed, and its pod and files go
Going ==
    /\ reaper => Deleting \/ status = "gone"
    /\ Deleting \/ status = "gone" =>
        /\ task.at = "none" /\ (reaper \/ pod = "none")
        /\ \A r \in DatabaseRequest : req[r].at \notin {"publish", "apply", "good"} /\ ~BackingUp(r)
    /\ At("drop") # {} \/ status = "gone" => files = NoFiles \/ "remains" \in mishaps

\* Whoever is about to say that it runs has seen a pod, which is there unless it goes
Stands ==
    /\ task.at \in {"watch", "good"} => pod # "none"
    /\ \A r \in DatabaseRequest :
        /\ req[r].at = "good" => pod # "none"
        /\ req[r].at = "sync" /\ req[r].st # "failed" => pod # "none" \/ Deleting \/ status = "gone"
    /\ status = "running" => pod # "none" \/ Deleting
    /\ status = "provisioning" =>
        \/ pod # "none" \/ Deleting \/ At("publish") # {} \/ task.at \in {"deploy", "bad"}
        \/ "unmarked" \in mishaps

\* Whoever is about to say that it failed has seen a failure
Failing ==
    \/ pod = "failed" \/ task.at = "bad" \/ At("bad") # {} \/ status = "failed"
    \/ \E r \in DatabaseRequest : req[r].at = "sync" /\ req[r].st = "failed"
    => "failure" \in mishaps

\* All backups keep the same number, and what they are about to remove has as many newer
Marked(r, b) ==
    (\E o \in req[r].old : o.ord = b.ord) \/ (req[r].at = "pruned" /\ req[r].ord = b.ord)
Retaining ==
    /\ \A r \in DatabaseRequest : BackingUp(r) => req[r].keep = keep
    /\ \A r \in DatabaseRequest : \A b \in backups : Marked(r, b) => Cardinality(Newer(b)) >= keep
Unlisting == At("unlist") # {} => "unlisted" \in mishaps

DatabaseInv ==
    /\ DatabaseTyped /\ Aged /\ Stamped /\ Failing /\ Unlisting
    /\ ~Except({"same", "race", "left", "short", "unpruned"}) => Files
    /\ ~Except({"left", "short", "remnant"}) => Partial
    /\ ~Except({"restores", "during", "pulled", "left", "short", "remnant", "unloaded"}) => Filling
    /\ ~Except({"race", "left"}) => Going /\ Stands
    /\ ~Except({"unlisted", "resized"}) => Retaining

-----------------------------------------------------------------------------
LEMMA DatabaseFields ==
    ASSUME DatabaseTyped
    PROVE  /\ req \in [DatabaseRequest -> DatabaseState]
           /\ \A r \in DatabaseRequest :
               /\ req[r] \in DatabaseState /\ req[r].at \in DatabaseStage
               /\ req[r].st \in {"none", "provisioning", "running", "failed"}
               /\ req[r].file \in Second /\ req[r].keep \in Nat /\ req[r].ord \in Nat
               /\ req[r].old \subseteq BackupRow
           /\ \A b \in BackupRow : b.ord \in Nat /\ b.file \in Second
           /\ keep \in Nat /\ second \in Second
<1>1. \A r \in DatabaseRequest : req[r] \in DatabaseState
  BY DEF DatabaseTyped
<1>2. keep \in Nat
  BY DatabaseConstantsOK DEF DatabaseTyped
<1>3. \A r \in DatabaseRequest :
               /\ req[r].at \in DatabaseStage
               /\ req[r].st \in {"none", "provisioning", "running", "failed"}
               /\ req[r].file \in Second /\ req[r].keep \in Nat /\ req[r].ord \in Nat
               /\ req[r].old \subseteq BackupRow
  BY <1>1 DEF DatabaseState
<1>4. \A b \in BackupRow : b.ord \in Nat /\ b.file \in Second
  BY DEF BackupRow
<1>5. QED
  BY <1>1, <1>2, <1>3, <1>4 DEF DatabaseTyped

LEMMA DatabaseIdle ==
    /\ Idle \in DatabaseState /\ Idle.at = "idle" /\ Idle.ord = 0 /\ Idle.old = {}
    /\ Idle.st = "none"
<1>1. 0 \in Second
  BY DatabaseConstantsOK DEF Second
<1>2. QED
  BY <1>1 DEF Idle, DatabaseState, DatabaseStage

LEMMA DatabaseMoveTo ==
    ASSUME DatabaseTyped, NEW r \in DatabaseRequest, NEW l \in DatabaseStage, MoveTo(r, l)
    PROVE  /\ req' \in [DatabaseRequest -> DatabaseState]
           /\ \A q \in DatabaseRequest \ {r} : req'[q] = req[q]
           /\ req'[r].at = l /\ req'[r].st = req[r].st /\ req'[r].file = req[r].file
           /\ req'[r].keep = req[r].keep /\ req'[r].ord = req[r].ord /\ req'[r].old = req[r].old
BY DatabaseFields DEF DatabaseState, MoveTo

LEMMA DatabaseStamp ==
    ASSUME DatabaseTyped, NEW r \in DatabaseRequest, Stamp(r)
    PROVE  /\ req' \in [DatabaseRequest -> DatabaseState]
           /\ \A q \in DatabaseRequest \ {r} : req'[q] = req[q]
           /\ req'[r].at = "insert" /\ req'[r].st = req[r].st /\ req'[r].file = req[r].file
           /\ req'[r].keep = req[r].keep /\ req'[r].ord = made + 1 /\ req'[r].old = req[r].old
           /\ made' = made + 1 /\ made' \in Nat
<1>1. made \in Nat /\ made + 1 \in Nat
  BY DEF DatabaseTyped
<1>2. req' = [req EXCEPT ![r].at = "insert", ![r].ord = made + 1] /\ made' = made + 1
  BY DEF Stamp, After
<1>3. QED
  BY <1>1, <1>2, DatabaseFields DEF DatabaseState, DatabaseStage

LEMMA DatabaseEnd ==
    ASSUME DatabaseTyped, NEW r \in DatabaseRequest, End(r)
    PROVE  /\ req' \in [DatabaseRequest -> DatabaseState]
           /\ \A q \in DatabaseRequest \ {r} : req'[q] = req[q]
           /\ req'[r] = Idle
BY DatabaseFields, DatabaseIdle DEF End

LEMMA DatabaseBegin ==
    ASSUME DatabaseTyped, NEW r \in DatabaseRequest, NEW state \in DatabaseState,
           Begin(r, state)
    PROVE  /\ req' \in [DatabaseRequest -> DatabaseState]
           /\ \A q \in DatabaseRequest \ {r} : req'[q] = req[q]
           /\ req'[r] = state /\ req[r].at = "idle"
           /\ databaseEvents' \in 0..MaxDatabaseEvents
<1>1. req[r] = Idle /\ req' = [req EXCEPT ![r] = state] /\ DatabaseEvent
  BY DEF Begin
<1>2. databaseEvents' \in 0..MaxDatabaseEvents
  BY <1>1, DatabaseConstantsOK DEF DatabaseEvent, DatabaseTyped
<1>3. QED
  BY <1>1, <1>2, DatabaseFields, DatabaseIdle

\* What is asked of a database, and the state the request is in then.
LEMMA DatabaseAsks ==
    ASSUME DatabaseTyped, NEW r \in DatabaseRequest, Asking(r)
    PROVE  /\ req' \in [DatabaseRequest -> DatabaseState]
           /\ \A q \in DatabaseRequest \ {r} : req'[q] = req[q]
           /\ req[r].at = "idle" /\ req'[r].old = {}
           /\ databaseEvents' \in 0..MaxDatabaseEvents
           /\ Get(r) => req'[r].at = "sync" /\ req'[r].st = Actual(status)
           /\ \/ /\ \E watches \in BOOLEAN : Create(r, watches)
                 /\ req'[r].at = "publish" /\ req'[r].ord = 0
              \/ /\ Get(r) /\ req'[r].at = "sync" /\ req'[r].st = Actual(status)
                 /\ req'[r].st # "none" /\ req'[r].ord = 0
              \/ /\ \E n \in Retention : Settings(r, n)
                 /\ req'[r].at = "apply" /\ req'[r].ord = 0
              \/ Delete(r) /\ req'[r].at = "clear" /\ req'[r].ord = 0
              \/ /\ Backup(r) /\ req'[r].at = "dump" /\ req'[r].file = second
                 /\ req'[r].keep = keep /\ req'[r].ord = 0
              \/ \E b \in backups : /\ DeleteBackup(r, b) /\ req'[r].at = "unlist"
                                    /\ req'[r].ord = b.ord
              \/ \E b \in backups : /\ Restore(r, b) /\ req'[r].at = "empty"
                                    /\ req'[r].file = b.file /\ req'[r].ord = 0
<1> DEFINE Apart == /\ req' \in [DatabaseRequest -> DatabaseState]
                    /\ \A q \in DatabaseRequest \ {r} : req'[q] = req[q]
                    /\ req[r].at = "idle" /\ req'[r].old = {}
                    /\ databaseEvents' \in 0..MaxDatabaseEvents
<1>0. backups \subseteq BackupRow
  BY DEF DatabaseTyped
<1>1. ASSUME NEW l \in {"publish", "apply", "clear"}, Begin(r, [Idle EXCEPT !.at = l])
      PROVE  Apart /\ req'[r].at = l /\ req'[r].ord = 0
  <2>1. [Idle EXCEPT !.at = l] \in DatabaseState
    BY DatabaseIdle DEF DatabaseState, DatabaseStage
  <2>2. req'[r] = [Idle EXCEPT !.at = l]
    BY <1>1, <2>1, DatabaseBegin
  <2>3. req'[r].at = l /\ req'[r].ord = 0 /\ req'[r].old = {}
    BY <2>2 DEF Idle
  <2>4. QED
    BY <1>1, <2>1, <2>3, DatabaseBegin
<1>2. ASSUME NEW watches \in BOOLEAN, Create(r, watches)
      PROVE  Apart /\ req'[r].at = "publish" /\ req'[r].ord = 0
  BY <1>1, <1>2 DEF Create
<1>3. ASSUME NEW n \in Retention, Settings(r, n)
      PROVE  Apart /\ req'[r].at = "apply" /\ req'[r].ord = 0
  BY <1>1, <1>3 DEF Settings
<1>4. ASSUME Delete(r) PROVE Apart /\ req'[r].at = "clear" /\ req'[r].ord = 0
  BY <1>1, <1>4 DEF Delete
<1>5. ASSUME Get(r)
      PROVE  /\ Apart /\ req'[r].at = "sync" /\ req'[r].st = Actual(status)
             /\ req'[r].st # "none" /\ req'[r].ord = 0
  <2>1. PICK st : st = Actual(status)
    OBVIOUS
  <2>2. st \in {"provisioning", "running", "failed"}
    BY <1>5, <2>1 DEF Actual, Get, Exists
  <2>3. Begin(r, [Idle EXCEPT !.at = "sync", !.st = st])
    BY <1>5, <2>1 DEF Get
  <2>4. [Idle EXCEPT !.at = "sync", !.st = st] \in DatabaseState
    BY <2>2, DatabaseIdle DEF DatabaseState, DatabaseStage
  <2>5. req'[r] = [Idle EXCEPT !.at = "sync", !.st = st]
    BY <2>3, <2>4, DatabaseBegin
  <2>6. req'[r].at = "sync" /\ req'[r].st = st /\ req'[r].ord = 0 /\ req'[r].old = {}
    BY <2>5 DEF Idle
  <2>7. QED
    BY <2>1, <2>2, <2>3, <2>4, <2>6, DatabaseBegin
<1>6. ASSUME Backup(r)
      PROVE  /\ Apart /\ req'[r].at = "dump" /\ req'[r].file = second
             /\ req'[r].keep = keep /\ req'[r].ord = 0
  <2>1. Begin(r, [Idle EXCEPT !.at = "dump", !.file = second, !.keep = keep])
    BY <1>6 DEF Backup, After
  <2>2. [Idle EXCEPT !.at = "dump", !.file = second, !.keep = keep] \in DatabaseState
    BY DatabaseFields, DatabaseIdle DEF DatabaseState, DatabaseStage
  <2>3. req'[r] = [Idle EXCEPT !.at = "dump", !.file = second, !.keep = keep]
    BY <2>1, <2>2, DatabaseBegin
  <2>4. /\ req'[r].at = "dump" /\ req'[r].file = second /\ req'[r].keep = keep
        /\ req'[r].ord = 0 /\ req'[r].old = {}
    BY <2>3 DEF Idle
  <2>5. QED
    BY <2>1, <2>2, <2>4, DatabaseBegin
<1>7. ASSUME NEW b \in backups, DeleteBackup(r, b)
      PROVE  Apart /\ req'[r].at = "unlist" /\ req'[r].ord = b.ord
  <2>1. Begin(r, [Idle EXCEPT !.at = "unlist", !.ord = b.ord])
    BY <1>7 DEF DeleteBackup
  <2>2. [Idle EXCEPT !.at = "unlist", !.ord = b.ord] \in DatabaseState
    BY <1>0, DatabaseFields, DatabaseIdle DEF DatabaseState, DatabaseStage
  <2>3. req'[r] = [Idle EXCEPT !.at = "unlist", !.ord = b.ord]
    BY <2>1, <2>2, DatabaseBegin
  <2>4. req'[r].at = "unlist" /\ req'[r].ord = b.ord /\ req'[r].old = {}
    BY <2>3 DEF Idle
  <2>5. QED
    BY <2>1, <2>2, <2>4, DatabaseBegin
<1>8. ASSUME NEW b \in backups, Restore(r, b)
      PROVE  /\ Apart /\ req'[r].at = "empty" /\ req'[r].file = b.file /\ req'[r].ord = 0
  <2>1. Begin(r, [Idle EXCEPT !.at = "empty", !.file = b.file])
    BY <1>8 DEF Restore
  <2>2. [Idle EXCEPT !.at = "empty", !.file = b.file] \in DatabaseState
    BY <1>0, DatabaseFields, DatabaseIdle DEF DatabaseState, DatabaseStage
  <2>3. req'[r] = [Idle EXCEPT !.at = "empty", !.file = b.file]
    BY <2>1, <2>2, DatabaseBegin
  <2>4. /\ req'[r].at = "empty" /\ req'[r].file = b.file /\ req'[r].ord = 0
        /\ req'[r].old = {}
    BY <2>3 DEF Idle
  <2>5. QED
    BY <2>1, <2>2, <2>4, DatabaseBegin
<1>9. QED
  <2>1. CASE \E watches \in BOOLEAN : Create(r, watches)
    BY <2>1, <1>2, <1>5
  <2>2. CASE \E n \in Retention : Settings(r, n)
    BY <2>2, <1>3, <1>5
  <2>3. CASE \E b \in backups : DeleteBackup(r, b)
    BY <2>3, <1>7, <1>5
  <2>4. CASE \E b \in backups : Restore(r, b)
    BY <2>4, <1>8, <1>5
  <2>5. QED
    BY <2>1, <2>2, <2>3, <2>4, <1>4, <1>5, <1>6 DEF Asking

\* How a request that is at work goes on; `same' is what it keeps of its state.
LEMMA DatabaseWorks ==
    ASSUME DatabaseTyped, NEW r \in DatabaseRequest,
           Working(r) \/ ApplyFails(r) \/ DumpFails(r) \/ AbandonRequest(r)
    PROVE  /\ req' \in [DatabaseRequest -> DatabaseState]
           /\ \A q \in DatabaseRequest \ {r} : req'[q] = req[q]
           /\ \/ /\ req'[r] = Idle
                 /\ \/ Publish(r) \/ Sync(r) \/ MarkApplied(r) \/ DropRow(r) \/ DumpFails(r)
                    \/ Unlist(r) \/ Load(r) \/ AbandonRequest(r)
                    \/ (InsertBackup(r) /\ ~Exists) \/ (PruneFile(r) /\ req[r].old = {})
              \/ /\ req'[r].file = req[r].file /\ req'[r].keep = req[r].keep
                 /\ req'[r].st = req[r].st
                 /\ \/ /\ req'[r].ord = req[r].ord /\ req'[r].old = req[r].old
                       /\ \/ ApplySettings(r) /\ req'[r].at = "good"
                          \/ ApplyFails(r) /\ req'[r].at = "bad"
                          \/ RemoveDirectory(r) /\ req'[r].at = "drop"
                          \/ StartDump(r) /\ req'[r].at = "dumping"
                          \/ InsertBackup(r) /\ Exists /\ req'[r].at = "choose"
                          \/ PruneRow(r) /\ req'[r].at = "prune"
                          \/ Empty(r) /\ req'[r].at = "load"
                    \/ /\ Dump(r) /\ req'[r].at = "insert" /\ made' = made + 1
                       /\ req'[r].ord = made + 1 /\ req'[r].old = req[r].old
                    \/ /\ ChooseOld(r) /\ req'[r].at = "prune"
                       /\ req'[r].ord = req[r].ord /\ req'[r].old = Beyond(req[r].keep)
                    \/ \E b \in req[r].old :
                        /\ PruneFile(r) /\ req'[r].at = "pruned"
                        /\ req'[r].ord = b.ord /\ req'[r].old = req[r].old \ {b}
                        /\ files' = [files EXCEPT ![b.file] = "none"]
<1>1. ASSUME End(r)
      PROVE  /\ req' \in [DatabaseRequest -> DatabaseState] /\ req'[r] = Idle
             /\ \A q \in DatabaseRequest \ {r} : req'[q] = req[q]
  BY <1>1, DatabaseEnd
<1>2. CASE \/ Publish(r) \/ Sync(r) \/ MarkApplied(r) \/ DropRow(r) \/ DumpFails(r)
           \/ Unlist(r) \/ Load(r) \/ AbandonRequest(r)
           \/ (InsertBackup(r) /\ ~Exists) \/ (PruneFile(r) /\ req[r].old = {})
  <2>1. End(r)
    BY <1>2 DEF Publish, Sync, MarkApplied, DropRow, DumpFails, Unlist, Load, AbandonRequest,
       InsertBackup, PruneFile
  <2>2. QED
    BY <1>1, <1>2, <2>1
<1>3. ASSUME NEW l \in DatabaseStage, MoveTo(r, l)
      PROVE  /\ req' \in [DatabaseRequest -> DatabaseState]
             /\ \A q \in DatabaseRequest \ {r} : req'[q] = req[q]
             /\ req'[r].at = l /\ req'[r].st = req[r].st /\ req'[r].file = req[r].file
             /\ req'[r].keep = req[r].keep /\ req'[r].ord = req[r].ord
             /\ req'[r].old = req[r].old
  BY <1>3, DatabaseMoveTo
<1>4. CASE ApplySettings(r)
  BY <1>3, <1>4 DEF ApplySettings, DatabaseStage
<1>5. CASE ApplyFails(r)
  BY <1>3, <1>5 DEF ApplyFails, DatabaseStage
<1>6. CASE RemoveDirectory(r)
  BY <1>3, <1>6 DEF RemoveDirectory, DatabaseStage
<1>7. CASE StartDump(r)
  BY <1>3, <1>7 DEF StartDump, DatabaseStage
<1>8. CASE Dump(r)
  BY <1>8, DatabaseStamp DEF Dump
<1>9. CASE InsertBackup(r) /\ Exists
  BY <1>3, <1>9 DEF InsertBackup, After, DatabaseStage
<1>10. CASE PruneRow(r)
  BY <1>3, <1>10 DEF PruneRow, DatabaseStage
<1>11. CASE Empty(r)
  BY <1>3, <1>11 DEF Empty, DatabaseStage
<1>12. CASE ChooseOld(r)
  <2>1. PICK old : old = Beyond(req[r].keep)
    OBVIOUS
  <2>2. old \subseteq BackupRow
    BY <2>1 DEF Beyond, DatabaseTyped
  <2>3. req' = [req EXCEPT ![r].at = "prune", ![r].old = old]
    BY <1>12, <2>1 DEF ChooseOld
  <2>4. /\ req' \in [DatabaseRequest -> DatabaseState]
        /\ \A q \in DatabaseRequest \ {r} : req'[q] = req[q]
        /\ req'[r].at = "prune" /\ req'[r].st = req[r].st /\ req'[r].file = req[r].file
        /\ req'[r].keep = req[r].keep /\ req'[r].ord = req[r].ord /\ req'[r].old = old
    BY <2>2, <2>3, DatabaseFields DEF DatabaseState, DatabaseStage
  <2>5. QED
    BY <1>12, <2>1, <2>4
<1>13. CASE PruneFile(r) /\ req[r].old # {}
  <2>1. PICK b \in req[r].old :
            /\ files' = [files EXCEPT ![b.file] = "none"]
            /\ req' = [req EXCEPT ![r].at = "pruned", ![r].ord = b.ord, ![r].old = @ \ {b}]
    BY <1>13 DEF PruneFile
  <2>2. b.ord \in Nat /\ req[r].old \ {b} \subseteq BackupRow
    BY <2>1, DatabaseFields
  <2>3. /\ req' \in [DatabaseRequest -> DatabaseState]
        /\ \A q \in DatabaseRequest \ {r} : req'[q] = req[q]
        /\ req'[r].at = "pruned" /\ req'[r].st = req[r].st /\ req'[r].file = req[r].file
        /\ req'[r].keep = req[r].keep /\ req'[r].ord = b.ord
        /\ req'[r].old = req[r].old \ {b}
    BY <2>1, <2>2, DatabaseFields DEF DatabaseState, DatabaseStage
  <2>4. QED
    BY <1>13, <2>1, <2>3
<1>14. QED
  <2>1. CASE InsertBackup(r)
    BY <1>2, <1>9, <2>1
  <2>2. CASE PruneFile(r)
    BY <1>2, <1>13, <2>2
  <2>3. CASE \/ ApplySettings(r) \/ ApplyFails(r) \/ RemoveDirectory(r) \/ StartDump(r)
             \/ Dump(r)
    BY <2>3, <1>4, <1>5, <1>6, <1>7, <1>8
  <2>4. CASE PruneRow(r) \/ Empty(r) \/ ChooseOld(r)
    BY <2>4, <1>10, <1>11, <1>12
  <2>5. CASE \/ Publish(r) \/ Sync(r) \/ MarkApplied(r) \/ DropRow(r) \/ DumpFails(r)
             \/ Unlist(r) \/ Load(r) \/ AbandonRequest(r)
    BY <1>2, <2>5
  <2>6. QED
    BY <2>1, <2>2, <2>3, <2>4, <2>5 DEF Working

\* How a request goes on that fails without noticing, or leaves something behind.
LEMMA DatabaseAmiss ==
    ASSUME DatabaseTyped, NEW r \in DatabaseRequest, GoingAmiss(r)
    PROVE  /\ req' \in [DatabaseRequest -> DatabaseState]
           /\ \A q \in DatabaseRequest \ {r} : req'[q] = req[q]
           /\ \/ /\ req'[r] = Idle /\ made' = made /\ req[r].at # "clear"
                 /\ req[r].at \in {"sync", "good", "bad", "dumping", "choose", "load"}
                 /\ req[r].at = "dumping" => DumpLeaves(r)
                 /\ req[r].at = "load" => LoadAmiss(r)
              \/ /\ req'[r].file = req[r].file /\ req'[r].keep = req[r].keep
                 /\ req'[r].st = req[r].st
                 /\ \/ /\ DumpShort(r) /\ req[r].at = "dumping" /\ req'[r].at = "insert"
                       /\ made' = made + 1 /\ made' \in Nat
                       /\ req'[r].ord = made + 1 /\ req'[r].old = req[r].old
                    \/ /\ RemoveDirectoryFails(r) /\ req[r].at = "clear" /\ req'[r].at = "drop"
                       /\ made' = made /\ req'[r].ord = req[r].ord /\ req'[r].old = req[r].old
                    \/ /\ PruneRowLost(r) /\ req[r].at = "pruned" /\ req'[r].at = "prune"
                       /\ made' = made /\ req'[r].ord = req[r].ord /\ req'[r].old = req[r].old
                    \/ \E b \in req[r].old :
                        /\ PruneKeepsFile(r) /\ req[r].at = "prune" /\ req'[r].at = "pruned"
                        /\ made' = made /\ req'[r].ord = b.ord /\ req'[r].old = req[r].old \ {b}
<1> USE DEF row
<1>1. CASE StatusLost(r) \/ DumpLeaves(r) \/ ChooseFails(r) \/ LoadAmiss(r)
  <2>1. End(r) /\ made' = made
    BY <1>1 DEF StatusLost, DumpLeaves, ChooseFails, LoadAmiss
  <2>2. /\ req[r].at \in {"sync", "good", "bad", "dumping", "choose", "load"}
        /\ req[r].at = "dumping" => DumpLeaves(r)
        /\ req[r].at = "load" => LoadAmiss(r)
    BY <1>1 DEF StatusLost, DumpLeaves, ChooseFails, LoadAmiss
  <2>3. QED
    BY <2>1, <2>2, DatabaseEnd
<1>2. CASE DumpShort(r)
  <2>1. Stamp(r) /\ req[r].at = "dumping"
    BY <1>2 DEF DumpShort
  <2>2. QED
    BY <1>2, <2>1, DatabaseStamp
<1>3. CASE RemoveDirectoryFails(r)
  <2>1. MoveTo(r, "drop") /\ req[r].at = "clear" /\ made' = made
    BY <1>3 DEF RemoveDirectoryFails
  <2>2. QED
    BY <1>3, <2>1, DatabaseMoveTo DEF DatabaseStage
<1>4. CASE PruneRowLost(r)
  <2>1. MoveTo(r, "prune") /\ req[r].at = "pruned" /\ made' = made
    BY <1>4 DEF PruneRowLost
  <2>2. QED
    BY <1>4, <2>1, DatabaseMoveTo DEF DatabaseStage
<1>5. CASE PruneKeepsFile(r)
  <2>1. PICK b \in req[r].old :
            req' = [req EXCEPT ![r].at = "pruned", ![r].ord = b.ord, ![r].old = @ \ {b}]
    BY <1>5 DEF PruneKeepsFile
  <2>2. b.ord \in Nat /\ req[r].old \ {b} \subseteq BackupRow
    BY <2>1, DatabaseFields
  <2>3. /\ req' \in [DatabaseRequest -> DatabaseState]
        /\ \A q \in DatabaseRequest \ {r} : req'[q] = req[q]
        /\ req'[r].at = "pruned" /\ req'[r].st = req[r].st /\ req'[r].file = req[r].file
        /\ req'[r].keep = req[r].keep /\ req'[r].ord = b.ord
        /\ req'[r].old = req[r].old \ {b}
    BY <2>1, <2>2, DatabaseFields DEF DatabaseState, DatabaseStage
  <2>4. req[r].at = "prune" /\ made' = made
    BY <1>5 DEF PruneKeepsFile
  <2>5. QED
    BY <1>5, <2>1, <2>3, <2>4
<1>6. QED
  BY <1>1, <1>2, <1>3, <1>4, <1>5 DEF GoingAmiss

\* ... and what it leaves alone.
LEMMA DatabaseAmissKeeps ==
    ASSUME NEW r \in DatabaseRequest, GoingAmiss(r)
    PROVE  /\ UNCHANGED <<status, keep, backups, task, reaper, pod, files, second>>
           /\ data' = data \/ (LoadAmiss(r) /\ data' = "torn")
           /\ DatabaseEvent /\ mishaps \subseteq mishaps'
<1> USE DEF row, cluster, disk, Mishap
<1>1. CASE StatusLost(r) \/ RemoveDirectoryFails(r) \/ DumpShort(r) \/ DumpLeaves(r)
  BY <1>1 DEF StatusLost, RemoveDirectoryFails, DumpShort, DumpLeaves
<1>2. CASE ChooseFails(r) \/ PruneKeepsFile(r) \/ PruneRowLost(r) \/ LoadAmiss(r)
  BY <1>2 DEF ChooseFails, PruneKeepsFile, PruneRowLost, LoadAmiss
<1>3. QED
  BY <1>1, <1>2 DEF GoingAmiss

LEMMA DatabaseTypedInit == DatabaseInit => DatabaseTyped
<1> SUFFICES ASSUME DatabaseInit PROVE DatabaseTyped
  OBVIOUS
<1>1. 0 \in Second
  BY DatabaseConstantsOK DEF Second
<1>2. backups \subseteq BackupRow
  BY <1>1 DEF DatabaseInit, BackupRow
<1>3. IsFiniteSet(backups)
  <2>1. CASE backups = {}
    BY <2>1, FS_EmptySet
  <2>2. CASE backups = {[ord |-> 0, file |-> 0]}
    BY <2>2, FS_Singleton
  <2>3. QED
    BY <2>1, <2>2 DEF DatabaseInit
<1>4. files \in [Second -> {"none", "partial", "whole"}]
  BY <1>1 DEF DatabaseInit, NoFiles
<1>5. req \in [DatabaseRequest -> DatabaseState]
  BY DatabaseIdle DEF DatabaseInit
<1>6. task \in [at : {"none", "deploy", "watch", "good", "bad"}, watches : BOOLEAN]
  BY DEF DatabaseInit
<1>7. /\ status \in {"none", "provisioning", "running", "failed", "gone"} /\ keep \in Retention
      /\ reaper \in BOOLEAN /\ pod \in {"none", "starting", "ready", "failed"}
      /\ data \in {"whole", "torn"}
  BY DEF DatabaseInit
<1>8. made \in Nat /\ second \in Second /\ databaseEvents \in 0..MaxDatabaseEvents
  BY <1>1, DatabaseConstantsOK DEF DatabaseInit
<1>9. QED
  BY <1>2, <1>3, <1>4, <1>5, <1>6, <1>7, <1>8 DEF DatabaseTyped

LEMMA DatabaseTypedNext == DatabaseTyped /\ Aged /\ [DatabaseNext]_databaseVars => DatabaseTyped'
<1> SUFFICES ASSUME DatabaseTyped, Aged, [DatabaseNext]_databaseVars PROVE DatabaseTyped'
  OBVIOUS
<1> USE DEF row, cluster, disk
<1>0. DatabaseEvent => databaseEvents' \in 0..MaxDatabaseEvents
  BY DatabaseConstantsOK DEF DatabaseEvent, DatabaseTyped
<1>1. ASSUME NEW r \in DatabaseRequest, Asking(r) PROVE DatabaseTyped'
  <2>1. req' \in [DatabaseRequest -> DatabaseState] /\ databaseEvents' \in 0..MaxDatabaseEvents
    BY <1>1, DatabaseAsks
  <2>2. UNCHANGED <<pod, data, second, backups, made>>
    BY <1>1 DEF Asking, Create, Get, Settings, Delete, Backup, DeleteBackup, Restore
  <2>3. /\ status' \in {"none", "provisioning", "running", "failed", "gone"}
        /\ keep' \in Retention /\ reaper' \in BOOLEAN
        /\ task' \in [at : {"none", "deploy", "watch", "good", "bad"}, watches : BOOLEAN]
    BY <1>1 DEF Asking, Create, Get, Settings, Delete, Backup, DeleteBackup, Restore, DatabaseTyped
  <2>4. files' \in [Second -> {"none", "partial", "whole"}]
    BY <1>1 DEF Asking, Create, Get, Settings, Delete, Backup, DeleteBackup, Restore, DatabaseTyped
  <2>5. QED
    BY <2>1, <2>2, <2>3, <2>4 DEF DatabaseTyped
<1>2. ASSUME NEW r \in DatabaseRequest,
             Working(r) \/ ApplyFails(r) \/ DumpFails(r) \/ AbandonRequest(r)
      PROVE  DatabaseTyped'
  <2>1. req' \in [DatabaseRequest -> DatabaseState]
    BY <1>2, DatabaseWorks
  <2>2. CASE \/ Publish(r) \/ Sync(r) \/ ApplySettings(r) \/ MarkApplied(r) \/ DropRow(r)
             \/ ApplyFails(r) \/ AbandonRequest(r)
    <3>1. status' \in {"none", "provisioning", "running", "failed", "gone"}
      <4>1. Sync(r) => req[r].st \in {"provisioning", "running", "failed"}
        BY DatabaseFields DEF Sync, Aged
      <4>2. QED
        BY <2>2, <4>1 DEF Publish, Sync, ApplySettings, MarkApplied, DropRow, ApplyFails,
           AbandonRequest, SetStatus, DatabaseTyped
    <3>2. task' \in [at : {"none", "deploy", "watch", "good", "bad"}, watches : BOOLEAN]
      BY <2>2 DEF Publish, Sync, ApplySettings, MarkApplied, DropRow, ApplyFails, AbandonRequest,
         DatabaseTyped
    <3>3. pod' \in {"none", "starting", "ready", "failed"}
      BY <2>2 DEF Publish, Sync, ApplySettings, MarkApplied, DropRow, ApplyFails, AbandonRequest,
         Deployed, DatabaseTyped
    <3>4. backups' \subseteq BackupRow /\ IsFiniteSet(backups')
      BY <2>2, FS_EmptySet DEF Publish, Sync, ApplySettings, MarkApplied, DropRow, ApplyFails,
         AbandonRequest, DatabaseTyped
    <3>5. UNCHANGED <<keep, made, reaper, data, files, second>>
          /\ databaseEvents' \in 0..MaxDatabaseEvents
      BY <1>0, <2>2 DEF Publish, Sync, ApplySettings, MarkApplied, DropRow, ApplyFails,
         AbandonRequest, DatabaseTyped
    <3>6. QED
      BY <2>1, <3>1, <3>2, <3>3, <3>4, <3>5 DEF DatabaseTyped
  <2>3. CASE \/ RemoveDirectory(r) \/ StartDump(r) \/ Dump(r) \/ DumpFails(r) \/ PruneFile(r)
             \/ ChooseOld(r)
    <3>1. files' \in [Second -> {"none", "partial", "whole"}]
      BY <2>3 DEF RemoveDirectory, StartDump, Dump, DumpFails, PruneFile, ChooseOld, NoFiles,
         DatabaseTyped
    <3>2. UNCHANGED <<status, keep, backups, task, reaper, pod, data, second>>
          /\ databaseEvents' \in 0..MaxDatabaseEvents
      BY <1>0, <2>3 DEF RemoveDirectory, StartDump, Dump, DumpFails, PruneFile, ChooseOld,
         DatabaseTyped
    <3>3. made' \in Nat
      BY <2>3, DatabaseStamp DEF RemoveDirectory, StartDump, Dump, DumpFails, PruneFile, ChooseOld,
         DatabaseTyped
    <3>4. QED
      BY <2>1, <3>1, <3>2, <3>3 DEF DatabaseTyped
  <2>4. CASE InsertBackup(r) \/ PruneRow(r) \/ Unlist(r)
    <3>1. UNCHANGED <<status, keep, task, reaper, pod, data, files, second, databaseEvents>>
      BY <2>4 DEF InsertBackup, PruneRow, Unlist
    <3>2. backups' \subseteq BackupRow /\ IsFiniteSet(backups') /\ made' \in Nat
      <4>1. CASE backups' \subseteq backups /\ made' = made
        BY <4>1, FS_Subset DEF DatabaseTyped
      <4>2. CASE InsertBackup(r) /\ Exists
        <5>1. PICK b : b = [ord |-> req[r].ord, file |-> req[r].file]
          OBVIOUS
        <5>2. backups' = backups \cup {b} /\ made' = made
          BY <4>2, <5>1 DEF InsertBackup
        <5>3. b \in BackupRow /\ made' \in Nat
          BY <5>1, <5>2, DatabaseFields DEF BackupRow, DatabaseTyped
        <5>4. IsFiniteSet(backups')
          BY <5>2, FS_AddElement DEF DatabaseTyped
        <5>5. QED
          BY <5>2, <5>3, <5>4 DEF DatabaseTyped
      <4>3. QED
        BY <2>4, <4>1, <4>2 DEF InsertBackup, PruneRow, Unlist
    <3>3. QED
      BY <2>1, <3>1, <3>2 DEF DatabaseTyped
  <2>5. CASE Empty(r) \/ Load(r)
    BY <2>1, <2>5 DEF Empty, Load, DatabaseTyped
  <2>6. QED
    BY <1>2, <2>2, <2>3, <2>4, <2>5 DEF Working
<1>9. ASSUME NEW r \in DatabaseRequest, GoingAmiss(r) PROVE DatabaseTyped'
  <2>1. req' \in [DatabaseRequest -> DatabaseState] /\ made' \in Nat
    BY <1>9, DatabaseAmiss DEF DatabaseTyped
  <2>2. data' \in {"whole", "torn"} /\ databaseEvents' \in 0..MaxDatabaseEvents
    BY <1>0, <1>9, DatabaseAmissKeeps DEF DatabaseTyped
  <2>3. QED
    BY <1>9, <2>1, <2>2, DatabaseAmissKeeps DEF DatabaseTyped
<1>3. CASE Deploy \/ DeployFails \/ Watch \/ WatchTimesOut \/ Mark \/ MarkLost
  <2>1. task' \in [at : {"none", "deploy", "watch", "good", "bad"}, watches : BOOLEAN]
    BY <1>3 DEF Deploy, DeployFails, Watch, WatchTimesOut, Mark, MarkLost, DatabaseTyped
  <2>2. status' \in {"none", "provisioning", "running", "failed", "gone"}
        /\ pod' \in {"none", "starting", "ready", "failed"}
    BY <1>3 DEF Deploy, DeployFails, Watch, WatchTimesOut, Mark, MarkLost, DatabaseTyped,
       SetStatus, Deployed
  <2>3. UNCHANGED <<keep, backups, made, reaper, data, files, req, second>>
        /\ databaseEvents' \in 0..MaxDatabaseEvents
    BY <1>0, <1>3 DEF Deploy, DeployFails, Watch, WatchTimesOut, Mark, MarkLost, DatabaseTyped
  <2>4. QED
    BY <2>1, <2>2, <2>3 DEF DatabaseTyped
<1>4. CASE Reap \/ ReapFails \/ PodReady \/ PodFails
  <2>1. /\ reaper' \in BOOLEAN /\ pod' \in {"none", "starting", "ready", "failed"}
        /\ databaseEvents' \in 0..MaxDatabaseEvents
    BY <1>0, <1>4 DEF Reap, ReapFails, PodReady, PodFails, DatabaseTyped
  <2>2. UNCHANGED <<row, task, disk, req, second>>
    BY <1>4 DEF Reap, ReapFails, PodReady, PodFails
  <2>3. QED
    BY <2>1, <2>2 DEF DatabaseTyped
<1>5. CASE DatabaseCrash
  <2>1. req' \in [DatabaseRequest -> DatabaseState]
    BY <1>5, DatabaseIdle DEF DatabaseCrash
  <2>2. task' \in [at : {"none", "deploy", "watch", "good", "bad"}, watches : BOOLEAN]
    BY <1>5 DEF DatabaseCrash, DatabaseTyped
  <2>3. QED
    BY <1>0, <1>5, <2>1, <2>2 DEF DatabaseCrash, DatabaseTyped
<1>6. CASE Tick
  BY <1>6, DatabaseConstantsOK DEF Tick, DatabaseTyped, Second
<1>7. CASE UNCHANGED databaseVars
  BY <1>7 DEF databaseVars, DatabaseTyped
<1>8. QED
  BY <1>1, <1>2, <1>3, <1>4, <1>5, <1>6, <1>7, <1>9 DEF DatabaseNext

\* A mishap is never forgotten.
LEMMA MishapsKept ==
    ASSUME [DatabaseNext]_databaseVars
    PROVE  mishaps \subseteq mishaps' /\ \A names : ~Except(names)' => ~Except(names)
<1> USE DEF row, cluster, disk, Mishap
<1>1. ASSUME NEW r \in DatabaseRequest, Asking(r) PROVE mishaps \subseteq mishaps'
  BY <1>1 DEF Asking, Create, Get, Settings, Delete, Backup, DeleteBackup, Restore
<1>2. ASSUME NEW r \in DatabaseRequest,
             Working(r) \/ ApplyFails(r) \/ DumpFails(r) \/ AbandonRequest(r)
      PROVE  mishaps \subseteq mishaps'
  <2>1. CASE \/ Publish(r) \/ Sync(r) \/ ApplySettings(r) \/ MarkApplied(r) \/ DropRow(r)
             \/ ApplyFails(r) \/ AbandonRequest(r) \/ RemoveDirectory(r) \/ StartDump(r)
             \/ Dump(r) \/ DumpFails(r)
    BY <2>1 DEF Publish, Sync, ApplySettings, MarkApplied, DropRow, ApplyFails, AbandonRequest,
       RemoveDirectory, StartDump, Dump, DumpFails
  <2>2. CASE \/ PruneFile(r) \/ ChooseOld(r) \/ InsertBackup(r) \/ PruneRow(r) \/ Unlist(r)
             \/ Empty(r) \/ Load(r)
    BY <2>2 DEF PruneFile, ChooseOld, InsertBackup, PruneRow, Unlist, Empty, Load
  <2>3. QED
    BY <1>2, <2>1, <2>2 DEF Working
<1>3. ASSUME \/ Deploy \/ DeployFails \/ Watch \/ WatchTimesOut \/ Mark \/ MarkLost \/ Reap
             \/ ReapFails \/ PodReady \/ PodFails \/ DatabaseCrash \/ Tick \/ UNCHANGED databaseVars
      PROVE  mishaps \subseteq mishaps'
  <2>1. CASE DatabaseCrash
    BY <2>1 DEF DatabaseCrash
  <2>2. CASE Deploy \/ DeployFails \/ Watch \/ WatchTimesOut \/ Mark \/ MarkLost
    BY <2>2 DEF Deploy, DeployFails, Watch, WatchTimesOut, Mark, MarkLost
  <2>3. CASE Reap \/ ReapFails \/ PodReady \/ PodFails \/ Tick \/ UNCHANGED databaseVars
    BY <2>3 DEF Reap, ReapFails, PodReady, PodFails, Tick, databaseVars
  <2>4. QED
    BY <1>3, <2>1, <2>2, <2>3
<1>4. mishaps \subseteq mishaps'
  BY <1>1, <1>2, <1>3, DatabaseAmissKeeps DEF DatabaseNext
<1>5. QED
  BY <1>4 DEF Except

\* Steps that leave the requests, the files and the backups alone.
LEMMA DatabaseTasks ==
    ASSUME \/ Deploy \/ DeployFails \/ Watch \/ WatchTimesOut \/ Mark \/ MarkLost \/ Reap
           \/ ReapFails \/ PodReady \/ PodFails \/ Tick \/ UNCHANGED databaseVars
    PROVE  UNCHANGED <<keep, backups, made, data, files, req>>
<1> USE DEF row, cluster, disk
<1>1. CASE Deploy \/ DeployFails \/ Watch \/ WatchTimesOut \/ Mark \/ MarkLost
  BY <1>1 DEF Deploy, DeployFails, Watch, WatchTimesOut, Mark, MarkLost
<1>2. CASE Reap \/ ReapFails \/ PodReady \/ PodFails \/ Tick \/ UNCHANGED databaseVars
  BY <1>2 DEF Reap, ReapFails, PodReady, PodFails, Tick, databaseVars
<1>3. QED
  BY <1>1, <1>2

LEMMA AgedInit == DatabaseInit => Aged
<1> SUFFICES ASSUME DatabaseInit PROVE Aged
  OBVIOUS
<1>1. \A r \in DatabaseRequest : req[r].at = "idle" /\ req[r].ord = 0 /\ req[r].old = {}
  BY DatabaseIdle DEF DatabaseInit
<1>2. /\ made = 0 /\ \A b \in backups : b.ord = 0 /\ b = [ord |-> 0, file |-> 0]
      /\ ~Exists => backups = {}
  BY DEF DatabaseInit, Exists
<1>3. task.at = "none"
  BY DEF DatabaseInit
<1>4. QED
  BY <1>1, <1>2, <1>3 DEF Aged

\* What keeps the order of the backups when none is recorded.
LEMMA AgedBy ==
    ASSUME DatabaseTyped, Aged, backups' \subseteq backups, made' = made,
           Exists' \/ backups' = {},
           \A q \in DatabaseRequest :
               \/ req'[q] = req[q] \/ req'[q] = Idle
               \/ /\ req'[q].ord <= made /\ req'[q].at # "sync"
                  /\ \A b \in req'[q].old : b.ord <= made
                  /\ req'[q].old # {} => req'[q].at \in {"prune", "pruned"},
           status' # "none"
    PROVE  Aged'
<1>1. 0 <= made
  BY DEF DatabaseTyped
<1>2. \A q \in DatabaseRequest :
          /\ req'[q].ord <= made' /\ \A b \in req'[q].old : b.ord <= made'
          /\ req'[q].old # {} => req'[q].at \in {"prune", "pruned"}
          /\ req'[q].at = "sync" => req'[q].st # "none"
  BY <1>1, DatabaseIdle DEF Aged
<1>3. \A b, c \in backups' : b.ord = c.ord => b = c
  BY DEF Aged
<1>4. \A b \in backups' : b.ord <= made'
  BY DEF Aged
<1>5. QED
  BY <1>2, <1>3, <1>4 DEF Aged, Exists

\* A dump that ends takes the next age.
LEMMA AgedStamped ==
    ASSUME DatabaseTyped, Aged, NEW r \in DatabaseRequest,
           \A q \in DatabaseRequest \ {r} : req'[q] = req[q],
           req[r].at = "dumping", req'[r].at = "insert", req'[r].ord = made',
           req'[r].old = req[r].old, made' = made + 1, UNCHANGED <<backups, status>>,
           status # "none"
    PROVE  Aged'
<1>1. /\ made \in Nat /\ (\A c \in backups : c.ord \in Nat /\ c.ord <= made)
      /\ \A q \in DatabaseRequest : /\ req[q].ord \in Nat /\ req[q].ord <= made
                                    /\ \A c \in req[q].old : c.ord \in Nat /\ c.ord <= made
  BY DatabaseFields DEF Aged, DatabaseTyped
<1>2. req[r].old = {}
  BY DEF Aged
<1>3. \A q \in DatabaseRequest :
          /\ req'[q].ord <= made' /\ \A c \in req'[q].old : c.ord <= made'
          /\ req'[q].old # {} => req'[q].at \in {"prune", "pruned"}
          /\ req'[q].at = "sync" => req'[q].st # "none"
  BY <1>1, <1>2 DEF Aged
<1>4. \A b \in backups' : b.ord <= made'
  BY <1>1
<1>5. QED
  BY <1>3, <1>4 DEF Aged, Exists

LEMMA AgedNext ==
    ASSUME DatabaseTyped, Aged, Stamped, [DatabaseNext]_databaseVars
    PROVE  Aged'
<1> USE DEF row, cluster, disk
<1>1. ASSUME NEW r \in DatabaseRequest, Asking(r) PROVE Aged'
  <2>1. /\ \A q \in DatabaseRequest \ {r} : req'[q] = req[q]
        /\ req[r].at = "idle" /\ req'[r].old = {}
        /\ UNCHANGED <<backups, made>>
    BY <1>1, DatabaseAsks DEF Asking, Create, Get, Settings, Delete, Backup, DeleteBackup, Restore
  <2>2. Exists' /\ (status = "none" => status' = "provisioning" /\ backups = {})
    BY <1>1 DEF Asking, Create, Get, Settings, Delete, Backup, DeleteBackup, Restore, Exists, Aged
  <2>3. status' # "none"
    BY <2>2 DEF Exists
  <2>4. 0 <= made /\ \A b \in backups : b.ord <= made
    BY DEF DatabaseTyped, Aged
  <2>5. CASE Get(r)
    <3>1. req'[r].ord <= made /\ (req'[r].at = "sync" => req'[r].st # "none")
      BY <2>4, <2>5, <1>1, DatabaseAsks DEF Get, Create, Settings, Delete, Backup, DeleteBackup,
         Restore
    <3>2. \A q \in DatabaseRequest :
              /\ req'[q].ord <= made' /\ \A b \in req'[q].old : b.ord <= made'
              /\ req'[q].old # {} => req'[q].at \in {"prune", "pruned"}
              /\ req'[q].at = "sync" => req'[q].st # "none"
      BY <2>1, <3>1 DEF Aged
    <3>3. QED
      BY <2>1, <2>2, <2>3, <3>2 DEF Aged
  <2>6. CASE ~Get(r)
    <3>1. req'[r].ord <= made /\ req'[r].at # "sync"
      BY <1>1, <2>4, <2>6, DatabaseAsks
    <3>2. QED
      BY <2>1, <2>2, <2>3, <3>1, AgedBy
  <2>7. QED
    BY <2>5, <2>6
<1>2. ASSUME NEW r \in DatabaseRequest,
             Working(r) \/ ApplyFails(r) \/ DumpFails(r) \/ AbandonRequest(r)
      PROVE  Aged'
  <2>1. CASE AbandonRequest(r)
    <3>1. /\ \A q \in DatabaseRequest \ {r} : req'[q] = req[q]
          /\ req'[r] = Idle /\ UNCHANGED <<backups, made, status, task>>
      BY <2>1, DatabaseEnd DEF AbandonRequest
    <3>2. 0 <= made
      BY DEF DatabaseTyped
    <3>3. QED
      BY <3>1, <3>2, DatabaseIdle DEF Aged, Exists
  <2>2. CASE Working(r) \/ ApplyFails(r) \/ DumpFails(r)
    <3>1. req[r].at # "idle"
      BY <2>2 DEF Working, Publish, Sync, ApplySettings, MarkApplied, RemoveDirectory, DropRow,
         StartDump, Dump, InsertBackup, ChooseOld, PruneFile, PruneRow, Unlist, Empty, Load,
         ApplyFails, DumpFails
    <3>2. status # "none"
      BY <3>1 DEF Aged
    <3>3. CASE InsertBackup(r) /\ Exists
      <4>1. PICK b : b = [ord |-> req[r].ord, file |-> req[r].file]
        OBVIOUS
      <4>2. /\ backups' = backups \cup {b} /\ made' = made /\ b.ord = req[r].ord
            /\ UNCHANGED <<status, task>>
        BY <3>3, <4>1 DEF InsertBackup
      <4>3. /\ \A q \in DatabaseRequest \ {r} : req'[q] = req[q]
            /\ req'[r].at = "choose" /\ req'[r].ord = req[r].ord /\ req'[r].old = req[r].old
            /\ req[r].at = "insert"
        BY <3>3, DatabaseMoveTo DEF InsertBackup, After, DatabaseStage
      <4>4. made \in Nat /\ (\A c \in backups : c.ord \in Nat)
            /\ \A q \in DatabaseRequest : req[q].ord \in Nat /\ \A c \in req[q].old : c.ord \in Nat
        BY DatabaseFields DEF DatabaseTyped
      <4>5. req[r].ord <= made /\ \A c \in backups : c.ord <= made
        BY DEF Aged
      <4>11. \A c \in backups : c.ord # b.ord
        BY <4>2, <4>3 DEF Stamped, Recorded
      <4>6. \A c, d \in backups' : c.ord = d.ord => c = d
        BY <4>2, <4>11 DEF Aged
      <4>7. \A c \in backups' : c.ord <= made'
        BY <4>2, <4>4, <4>5
      <4>8. \A q \in DatabaseRequest :
               /\ req'[q].ord <= made' /\ \A c \in req'[q].old : c.ord <= made'
               /\ req'[q].old # {} => req'[q].at \in {"prune", "pruned"}
               /\ req'[q].at = "sync" => req'[q].st # "none"
        BY <4>2, <4>3, <4>4 DEF Aged
      <4>9. Exists' /\ status' # "none"
        BY <3>2, <3>3, <4>2 DEF Exists
      <4>10. QED
        BY <4>6, <4>7, <4>8, <4>9 DEF Aged
    <3>6. CASE Dump(r)
      <4>1. UNCHANGED <<backups, status, task>>
        BY <3>6 DEF Dump
      <4>2. /\ \A q \in DatabaseRequest \ {r} : req'[q] = req[q]
            /\ req'[r].at = "insert" /\ req'[r].ord = made' /\ req'[r].old = req[r].old
            /\ req[r].at = "dumping" /\ made' = made + 1
        BY <3>6, DatabaseStamp DEF Dump
      <4>3. QED
        BY <3>2, <4>1, <4>2, AgedStamped
    <3>4. CASE ~(InsertBackup(r) /\ Exists) /\ ~Dump(r)
      <4>1. backups' \subseteq backups /\ made' = made
        BY <2>2, <3>4 DEF Working, Publish, Sync, ApplySettings, MarkApplied, RemoveDirectory,
           DropRow, StartDump, InsertBackup, ChooseOld, PruneFile, PruneRow, Unlist, Empty,
           Load, ApplyFails, DumpFails
      <4>2. Sync(r) => req[r].st \in {"provisioning", "running", "failed"}
        BY DatabaseFields DEF Sync, Aged
      <4>3. status' # "none" /\ (Exists' \/ backups' = {})
        <5>1. CASE DropRow(r)
          BY <5>1 DEF DropRow
        <5>2. CASE status' = status
          BY <3>2, <4>1, <5>2 DEF Aged, Exists
        <5>3. CASE Sync(r) \/ MarkApplied(r)
          BY <3>2, <4>1, <4>2, <5>3 DEF Sync, MarkApplied, SetStatus, Exists, Aged
        <5>4. QED
          BY <2>2, <3>4, <5>1, <5>2, <5>3 DEF Working, Publish, ApplySettings, RemoveDirectory,
             StartDump, InsertBackup, ChooseOld, PruneFile, PruneRow, Unlist, Empty, Load,
             ApplyFails, DumpFails
      <4>4. \A q \in DatabaseRequest \ {r} : req'[q] = req[q]
        BY <2>2, DatabaseWorks
      <4>5. \/ req'[r] = Idle
            \/ /\ req'[r].ord <= made /\ req'[r].at # "sync"
               /\ \A b \in req'[r].old : b.ord <= made
               /\ req'[r].old # {} => req'[r].at \in {"prune", "pruned"}
        <5>1. /\ req[r].ord <= made /\ \A b \in req[r].old : b.ord <= made
              /\ req[r].old # {} => req[r].at \in {"prune", "pruned"}
              /\ \A b \in backups : b.ord <= made
          BY DEF Aged
        <5>2. CASE ChooseOld(r) \/ PruneFile(r) \/ PruneRow(r)
          <6>1. /\ req'[r] = Idle
                \/ /\ req'[r].at \in {"prune", "pruned"}
                   /\ \/ /\ req'[r].ord = req[r].ord
                         /\ req'[r].old = req[r].old \/ req'[r].old = Beyond(req[r].keep)
                      \/ \E b \in req[r].old :
                            req'[r].ord = b.ord /\ req'[r].old = req[r].old \ {b}
            BY <2>2, <3>4, <5>2, DatabaseWorks DEF ChooseOld, PruneFile, PruneRow, ApplySettings,
               ApplyFails, RemoveDirectory, StartDump, InsertBackup, Empty
          <6>2. Beyond(req[r].keep) \subseteq backups
            BY DEF Beyond
          <6>3. QED
            BY <5>1, <6>1, <6>2
        <5>3. CASE ~(ChooseOld(r) \/ PruneFile(r) \/ PruneRow(r))
          <6>1. \/ req'[r] = Idle
                \/ /\ req'[r].ord = req[r].ord /\ req'[r].old = req[r].old
                   /\ req'[r].at # "sync"
            BY <2>2, <3>4, <5>3, DatabaseWorks
          <6>2. req[r].old = {}
            BY <2>2, <3>4, <5>3, <5>1 DEF Working, Publish, Sync, ApplySettings, MarkApplied,
               RemoveDirectory, DropRow, StartDump, InsertBackup, Unlist, Empty, Load,
               ApplyFails, DumpFails
          <6>3. QED
            BY <5>1, <6>1, <6>2
        <5>4. QED
          BY <5>2, <5>3
      <4>6. QED
        BY <4>1, <4>3, <4>4, <4>5, AgedBy
    <3>5. QED
      BY <3>3, <3>4, <3>6
  <2>3. QED
    BY <1>2, <2>1, <2>2
<1>3. CASE \/ Deploy \/ DeployFails \/ Watch \/ WatchTimesOut \/ Mark \/ MarkLost
  <2>1. UNCHANGED <<backups, made, req>> /\ status # "none"
    BY <1>3 DEF Deploy, DeployFails, Watch, WatchTimesOut, Mark, MarkLost, Aged
  <2>2. status' = status \/ (Exists /\ Exists')
    BY <1>3 DEF Deploy, DeployFails, Watch, WatchTimesOut, Mark, MarkLost, SetStatus, Exists
  <2>3. status' # "none" /\ (Exists' \/ backups' = {})
    BY <2>1, <2>2 DEF Exists, Aged
  <2>4. QED
    BY <2>1, <2>3, AgedBy
<1>4. CASE Reap \/ ReapFails \/ PodReady \/ PodFails \/ Tick \/ UNCHANGED databaseVars
  <2>1. UNCHANGED <<status, backups, made, req, task>>
    BY <1>4 DEF Reap, ReapFails, PodReady, PodFails, Tick, databaseVars
  <2>2. QED
    BY <2>1 DEF Aged, Exists
<1>5. CASE DatabaseCrash
  <2>1. /\ \A q \in DatabaseRequest : req'[q] = Idle
        /\ UNCHANGED <<status, backups, made>> /\ task'.at = "none"
    BY <1>5 DEF DatabaseCrash, DatabaseTyped
  <2>2. 0 <= made
    BY DEF DatabaseTyped
  <2>3. QED
    BY <2>1, <2>2, DatabaseIdle DEF Aged, Exists
<1>6. ASSUME NEW r \in DatabaseRequest, GoingAmiss(r) PROVE Aged'
  <2>1. UNCHANGED <<backups, status, task>> /\ \A q \in DatabaseRequest \ {r} : req'[q] = req[q]
    BY <1>6, DatabaseAmiss, DatabaseAmissKeeps
  <2>2. req[r].at # "idle"
    BY <1>6, DatabaseAmiss
  <2>3. status' # "none" /\ (Exists' \/ backups' = {})
    BY <2>1, <2>2 DEF Aged, Exists
  <2>4. CASE DumpShort(r) /\ req'[r].at = "insert"
    <3>1. /\ req'[r].ord = made' /\ req'[r].old = req[r].old /\ req[r].at = "dumping"
          /\ made' = made + 1
      BY <1>6, <2>4, DatabaseAmiss, DatabaseIdle
    <3>2. QED
      BY <2>1, <2>3, <2>4, <3>1, AgedStamped
  <2>5. CASE req'[r].at # "insert"
    <3>1. /\ req[r].ord <= made /\ \A b \in req[r].old : b.ord <= made
          /\ req[r].old # {} => req[r].at \in {"prune", "pruned"}
      BY DEF Aged
    <3>2. /\ made' = made
          /\ \/ req'[r] = Idle
             \/ /\ req'[r].ord <= made /\ req'[r].at # "sync"
                /\ \A b \in req'[r].old : b.ord <= made
                /\ req'[r].old # {} => req'[r].at \in {"prune", "pruned"}
      BY <1>6, <2>5, <3>1, DatabaseAmiss
    <3>3. QED
      BY <2>1, <2>3, <3>2, AgedBy
  <2>6. QED
    BY <1>6, <2>4, <2>5, DatabaseAmiss, DatabaseIdle
<1>7. QED
  BY <1>1, <1>2, <1>3, <1>4, <1>5, <1>6 DEF DatabaseNext

\* The age of a backup is taken by nobody else.
LEMMA StampedBy ==
    ASSUME Stamped, NEW r \in DatabaseRequest, \A q \in DatabaseRequest \ {r} : req'[q] = req[q],
           backups' \subseteq backups, req'[r].old \subseteq Recorded, req'[r].at # "insert",
           req'[r].at = "pruned" => \E b \in Recorded : req'[r].ord = b.ord
    PROVE  Stamped'
<1>1. Recorded' \subseteq Recorded
  <2>1. \A q \in DatabaseRequest : req'[q].old \subseteq Recorded
    BY DEF Recorded
  <2>2. QED
    BY <2>1 DEF Recorded
<1>2. ASSUME NEW p \in DatabaseRequest, req'[p].at = "insert"
      PROVE  /\ \A b \in Recorded' : b.ord # req'[p].ord
             /\ \A q \in DatabaseRequest \ {p} :
                    req'[q].at \in {"insert", "pruned"} => req'[q].ord # req'[p].ord
  <2>1. p # r /\ req'[p] = req[p]
    BY <1>2
  <2>2. \A b \in Recorded : b.ord # req[p].ord
    BY <1>2, <2>1 DEF Stamped
  <2>3. ASSUME NEW q \in DatabaseRequest \ {p}, req'[q].at \in {"insert", "pruned"}
        PROVE  req'[q].ord # req'[p].ord
    <3>1. CASE q = r
      BY <2>1, <2>2, <2>3, <3>1
    <3>2. CASE q # r
      BY <1>2, <2>1, <2>3, <3>2 DEF Stamped
    <3>3. QED
      BY <3>1, <3>2
  <2>4. QED
    BY <1>1, <2>1, <2>2, <2>3
<1>3. QED
  BY <1>2 DEF Stamped

\* A dump that ends takes an age of its own.
LEMMA StampedFresh ==
    ASSUME DatabaseTyped, Aged, Stamped, NEW r \in DatabaseRequest,
           \A q \in DatabaseRequest \ {r} : req'[q] = req[q],
           backups' = backups, req'[r].old = req[r].old, req'[r].ord = made + 1
    PROVE  Stamped'
<1>1. Recorded' = Recorded
  <2>1. \A q \in DatabaseRequest : req'[q].old = req[q].old
    OBVIOUS
  <2>2. QED
    BY <2>1 DEF Recorded
<1>2. \A b \in Recorded : b.ord \in Nat /\ b.ord <= made
  BY DatabaseFields DEF Recorded, Aged, DatabaseTyped
<1>3. /\ made \in Nat
      /\ \A q \in DatabaseRequest : req[q].ord \in Nat /\ req[q].ord <= made
  BY DatabaseFields DEF Aged, DatabaseTyped
<1>4. ASSUME NEW p \in DatabaseRequest, req'[p].at = "insert"
      PROVE  /\ \A b \in Recorded' : b.ord # req'[p].ord
             /\ \A q \in DatabaseRequest \ {p} :
                    req'[q].at \in {"insert", "pruned"} => req'[q].ord # req'[p].ord
  <2>1. CASE p = r
    BY <1>1, <1>2, <1>3, <2>1
  <2>2. CASE p # r
    <3>1. \A b \in Recorded' : b.ord # req'[p].ord
      BY <1>1, <1>4, <2>2 DEF Stamped
    <3>2. ASSUME NEW q \in DatabaseRequest \ {p}, req'[q].at \in {"insert", "pruned"}
          PROVE  req'[q].ord # req'[p].ord
      <4>1. CASE q = r
        BY <1>3, <2>2, <4>1
      <4>2. CASE q # r
        BY <1>4, <2>2, <3>2, <4>2 DEF Stamped
      <4>3. QED
        BY <4>1, <4>2
    <3>3. QED
      BY <3>1, <3>2
  <2>3. QED
    BY <2>1, <2>2
<1>5. QED
  BY <1>4 DEF Stamped

LEMMA StampedNext ==
    ASSUME DatabaseTyped, Aged, Stamped, [DatabaseNext]_databaseVars
    PROVE  Stamped'
<1> USE DEF row, cluster, disk
<1>1. ASSUME NEW r \in DatabaseRequest, Asking(r) PROVE Stamped'
  <2>1. /\ \A q \in DatabaseRequest \ {r} : req'[q] = req[q]
        /\ req'[r].old = {} /\ req'[r].at \notin {"insert", "pruned"}
    BY <1>1, DatabaseAsks
  <2>2. backups' = backups
    BY <1>1 DEF Asking, Create, Get, Settings, Delete, Backup, DeleteBackup, Restore
  <2>3. QED
    BY <2>1, <2>2, StampedBy
<1>2. ASSUME NEW r \in DatabaseRequest,
             Working(r) \/ ApplyFails(r) \/ DumpFails(r) \/ AbandonRequest(r)
      PROVE  Stamped'
  <2>0. \A q \in DatabaseRequest \ {r} : req'[q] = req[q]
    BY <1>2, DatabaseWorks
  <2>1. req[r].old \subseteq Recorded
    BY DEF Recorded
  <2>2. CASE Dump(r)
    <3>1. backups' = backups /\ req'[r].old = req[r].old /\ req'[r].ord = made + 1
      BY <2>2, DatabaseStamp DEF Dump
    <3>2. QED
      BY <2>0, <3>1, StampedFresh
  <2>3. CASE InsertBackup(r) /\ Exists
    <3>1. PICK n : n = [ord |-> req[r].ord, file |-> req[r].file]
      OBVIOUS
    <3>2. backups' = backups \cup {n} /\ n.ord = req[r].ord /\ req[r].at = "insert"
      BY <2>3, <3>1 DEF InsertBackup
    <3>3. req'[r].at = "choose" /\ req'[r].old = req[r].old
      BY <2>3, DatabaseMoveTo DEF InsertBackup, After, DatabaseStage
    <3>4. Recorded' \subseteq Recorded \cup {n}
      <4>1. \A q \in DatabaseRequest : req'[q].old = req[q].old
        BY <2>0, <3>3
      <4>2. QED
        BY <3>2, <4>1 DEF Recorded
    <3>5. ASSUME NEW p \in DatabaseRequest, req'[p].at = "insert"
          PROVE  /\ \A b \in Recorded' : b.ord # req'[p].ord
                 /\ \A q \in DatabaseRequest \ {p} :
                        req'[q].at \in {"insert", "pruned"} => req'[q].ord # req'[p].ord
      <4>1. p # r /\ req'[p] = req[p]
        BY <2>0, <3>3, <3>5
      <4>2. n.ord # req[p].ord
        BY <3>2, <3>5, <4>1 DEF Stamped
      <4>3. \A b \in Recorded : b.ord # req[p].ord
        BY <3>5, <4>1 DEF Stamped
      <4>4. \A q \in DatabaseRequest \ {p} :
                req'[q].at \in {"insert", "pruned"} => req'[q].ord # req'[p].ord
        BY <2>0, <3>3, <3>5, <4>1 DEF Stamped
      <4>5. QED
        BY <3>4, <4>1, <4>2, <4>3, <4>4
    <3>6. QED
      BY <3>5 DEF Stamped
  <2>4. CASE ~Dump(r) /\ ~(InsertBackup(r) /\ Exists)
    <3>1. backups' \subseteq backups
      BY <1>2, <2>4 DEF Working, Publish, Sync, ApplySettings, MarkApplied, RemoveDirectory,
         DropRow, StartDump, InsertBackup, ChooseOld, PruneFile, PruneRow, Unlist, Empty, Load,
         ApplyFails, DumpFails, AbandonRequest
    <3>2. Beyond(req[r].keep) \subseteq Recorded /\ Idle.old = {} /\ Idle.at = "idle"
      BY DatabaseIdle DEF Beyond, Recorded
    <3>3. /\ req'[r].old \subseteq Recorded /\ req'[r].at # "insert"
          /\ req'[r].at = "pruned" => \E b \in Recorded : req'[r].ord = b.ord
      BY <1>2, <2>1, <2>4, <3>2, DatabaseWorks
    <3>4. QED
      BY <2>0, <3>1, <3>3, StampedBy
  <2>5. QED
    BY <2>2, <2>3, <2>4
<1>3. ASSUME NEW r \in DatabaseRequest, GoingAmiss(r) PROVE Stamped'
  <2>1. backups' = backups /\ \A q \in DatabaseRequest \ {r} : req'[q] = req[q]
    BY <1>3, DatabaseAmiss, DatabaseAmissKeeps
  <2>2. req[r].old \subseteq Recorded /\ Idle.old = {} /\ Idle.at = "idle"
    BY DatabaseIdle DEF Recorded
  <2>3. \/ req'[r].old = req[r].old /\ req'[r].ord = made + 1
        \/ /\ req'[r].old \subseteq Recorded /\ req'[r].at # "insert"
           /\ req'[r].at = "pruned" => \E b \in Recorded : req'[r].ord = b.ord
    BY <1>3, <2>2, DatabaseAmiss
  <2>4. QED
    BY <2>1, <2>3, StampedBy, StampedFresh
<1>4. CASE \/ Deploy \/ DeployFails \/ Watch \/ WatchTimesOut \/ Mark \/ MarkLost \/ Reap
           \/ ReapFails \/ PodReady \/ PodFails \/ Tick \/ UNCHANGED databaseVars
  <2>1. UNCHANGED <<backups, req>>
    BY <1>4, DatabaseTasks
  <2>2. QED
    BY <2>1 DEF Stamped, Recorded
<1>5. CASE DatabaseCrash
  BY <1>5, DatabaseIdle DEF DatabaseCrash, Stamped
<1>6. QED
  BY <1>1, <1>2, <1>3, <1>4, <1>5 DEF DatabaseNext

\* Whoever says that the database failed has it from a failure.
LEMMA FailingNext ==
    ASSUME DatabaseTyped, Failing, [DatabaseNext]_databaseVars
    PROVE  Failing'
<1> USE DEF row, cluster, disk
<1>0. mishaps \subseteq mishaps'
  BY MishapsKept
<1>1. ASSUME UNCHANGED <<pod, task, status>>, NEW r \in DatabaseRequest,
             \A q \in DatabaseRequest \ {r} : req'[q] = req[q],
             req'[r].at \notin {"bad", "sync"}
      PROVE  Failing'
  BY <1>0, <1>1 DEF Failing, At
<1>2. ASSUME NEW r \in DatabaseRequest, Asking(r) PROVE Failing'
  <2>1. /\ \A q \in DatabaseRequest \ {r} : req'[q] = req[q]
        /\ pod' = pod /\ task'.at = task.at
        /\ status' = status \/ status' = "provisioning"
    BY <1>2, DatabaseAsks DEF Asking, Create, Get, Settings, Delete, Backup, DeleteBackup, Restore,
       DatabaseTyped
  <2>2. CASE Get(r)
    <3>1. UNCHANGED <<pod, task, status>> /\ req'[r].at = "sync" /\ req'[r].st = Actual(status)
      BY <1>2, <2>2, DatabaseAsks DEF Get
    <3>2. Actual(status) = "failed" => status = "failed" \/ pod = "failed"
      BY DEF Actual
    <3>3. QED
      BY <1>0, <2>1, <3>1, <3>2 DEF Failing, At
  <2>3. CASE ~Get(r)
    <3>1. req'[r].at \notin {"bad", "sync"}
      BY <1>2, <2>3, DatabaseAsks
    <3>2. QED
      BY <1>0, <2>1, <3>1 DEF Failing, At
  <2>4. QED
    BY <2>2, <2>3
<1>3. ASSUME NEW r \in DatabaseRequest,
             Working(r) \/ ApplyFails(r) \/ DumpFails(r) \/ AbandonRequest(r)
      PROVE  Failing'
  <2>1. \A q \in DatabaseRequest \ {r} : req'[q] = req[q]
    BY <1>3, DatabaseWorks
  <2>2. CASE ApplyFails(r)
    BY <1>0, <2>2 DEF ApplyFails, Mishap, Failing
  <2>3. CASE ~ApplyFails(r)
    <3>1. req'[r].at \notin {"bad", "sync"}
      BY <1>3, <2>3, DatabaseWorks, DatabaseIdle
    <3>2. CASE Sync(r) \/ MarkApplied(r)
      <4>1. UNCHANGED <<pod, task>>
        BY <3>2 DEF Sync, MarkApplied
      <4>2. status' = "failed" => \/ status = "failed" \/ req[r].at = "bad"
                                  \/ (req[r].at = "sync" /\ req[r].st = "failed")
        BY <3>2 DEF Sync, MarkApplied, SetStatus
      <4>3. QED
        BY <1>0, <2>1, <3>1, <4>1, <4>2 DEF Failing, At
    <3>3. CASE Publish(r)
      <4>1. pod' = pod /\ task'.at = "deploy" /\ status' = status
        BY <3>3 DEF Publish, DatabaseTyped
      <4>2. QED
        BY <1>0, <2>1, <3>1, <4>1 DEF Failing, At
    <3>4. CASE ApplySettings(r)
      <4>1. task' = task /\ status' = status /\ (pod' = "failed" => pod = "failed")
        BY <3>4 DEF ApplySettings, Deployed
      <4>2. QED
        BY <1>0, <2>1, <3>1, <4>1 DEF Failing, At
    <3>5. CASE DropRow(r)
      <4>1. UNCHANGED <<pod, task>> /\ status' = "gone"
        BY <3>5 DEF DropRow
      <4>2. QED
        BY <1>0, <2>1, <3>1, <4>1 DEF Failing, At
    <3>6. CASE UNCHANGED <<pod, task, status>>
      BY <1>1, <2>1, <3>1, <3>6
    <3>7. QED
      BY <1>3, <2>3, <3>2, <3>3, <3>4, <3>5, <3>6 DEF Working, RemoveDirectory, StartDump, Dump,
         InsertBackup, ChooseOld, PruneFile, PruneRow, Unlist, Empty, Load, DumpFails,
         AbandonRequest
  <2>4. QED
    BY <2>2, <2>3
<1>9. ASSUME NEW r \in DatabaseRequest, GoingAmiss(r) PROVE Failing'
  <2>1. /\ UNCHANGED <<pod, task, status>> /\ req'[r].at \notin {"bad", "sync"}
        /\ \A q \in DatabaseRequest \ {r} : req'[q] = req[q]
    BY <1>9, DatabaseAmiss, DatabaseAmissKeeps, DatabaseIdle
  <2>2. QED
    BY <1>1, <2>1
<1>4. CASE DeployFails \/ WatchTimesOut \/ PodFails
  BY <1>0, <1>4 DEF DeployFails, WatchTimesOut, PodFails, Mishap, Failing
<1>5. CASE Deploy \/ Watch \/ Mark \/ MarkLost \/ Reap \/ ReapFails \/ PodReady
  <2>1. UNCHANGED req
    BY <1>5 DEF Deploy, Watch, Mark, MarkLost, Reap, ReapFails, PodReady
  <2>2. /\ pod' = "failed" => pod = "failed"
        /\ task'.at = "bad" => task.at = "bad" \/ pod = "failed"
        /\ status' = "failed" => status = "failed" \/ task.at = "bad"
    BY <1>5 DEF Deploy, Watch, Mark, MarkLost, Reap, ReapFails, PodReady, Deployed, Actual,
       SetStatus,
       DatabaseTyped
  <2>3. QED
    BY <1>0, <2>1, <2>2 DEF Failing, At
<1>6. CASE DatabaseCrash
  <2>1. UNCHANGED <<pod, status>> /\ task'.at = "none"
        /\ \A r \in DatabaseRequest : req'[r].at = "idle"
    BY <1>6, DatabaseIdle DEF DatabaseCrash, DatabaseTyped
  <2>2. QED
    BY <1>0, <2>1 DEF Failing, At
<1>7. CASE Tick \/ UNCHANGED databaseVars
  BY <1>0, <1>7 DEF Tick, databaseVars, Failing, At
<1>8. QED
  BY <1>2, <1>3, <1>4, <1>5, <1>6, <1>7, <1>9 DEF DatabaseNext

\* Whoever deletes a single backup has said so.
LEMMA UnlistingNext ==
    ASSUME DatabaseTyped, Unlisting, [DatabaseNext]_databaseVars
    PROVE  Unlisting'
<1>0. mishaps \subseteq mishaps'
  BY MishapsKept
<1>1. ASSUME NEW r \in DatabaseRequest, Asking(r) PROVE Unlisting'
  <2>1. \A q \in DatabaseRequest \ {r} : req'[q] = req[q]
    BY <1>1, DatabaseAsks
  <2>2. req'[r].at = "unlist" => "unlisted" \in mishaps'
    BY <1>1, DatabaseAsks DEF DeleteBackup, Mishap
  <2>3. QED
    BY <1>0, <2>1, <2>2 DEF Unlisting, At
<1>2. ASSUME NEW r \in DatabaseRequest,
             Working(r) \/ ApplyFails(r) \/ DumpFails(r) \/ AbandonRequest(r)
      PROVE  Unlisting'
  <2>1. req'[r].at # "unlist" /\ \A q \in DatabaseRequest \ {r} : req'[q] = req[q]
    BY <1>2, DatabaseWorks, DatabaseIdle
  <2>2. QED
    BY <1>0, <2>1 DEF Unlisting, At
<1>3. CASE \/ Deploy \/ DeployFails \/ Watch \/ WatchTimesOut \/ Mark \/ MarkLost \/ Reap
           \/ ReapFails \/ PodReady \/ PodFails \/ Tick \/ UNCHANGED databaseVars
  <2>1. UNCHANGED req
    BY <1>3 DEF Deploy, DeployFails, Watch, WatchTimesOut, Mark, MarkLost, Reap, ReapFails,
       PodReady, PodFails, Tick, databaseVars
  <2>2. QED
    BY <1>0, <2>1 DEF Unlisting, At
<1>6. ASSUME NEW r \in DatabaseRequest, GoingAmiss(r) PROVE Unlisting'
  <2>1. req'[r].at # "unlist" /\ \A q \in DatabaseRequest \ {r} : req'[q] = req[q]
    BY <1>6, DatabaseAmiss, DatabaseIdle
  <2>2. QED
    BY <1>0, <2>1 DEF Unlisting, At
<1>4. CASE DatabaseCrash
  BY <1>0, <1>4, DatabaseIdle DEF DatabaseCrash, Unlisting, At
<1>5. QED
  BY <1>1, <1>2, <1>3, <1>4, <1>6 DEF DatabaseNext

\* The stage after each step.
LEMMA DatabaseStages ==
    ASSUME DatabaseTyped, NEW r \in DatabaseRequest
    PROVE  /\ Publish(r) \/ Sync(r) \/ MarkApplied(r) \/ DropRow(r) \/ DumpFails(r) \/ Unlist(r)
              \/ Load(r) \/ AbandonRequest(r) => req'[r].at = "idle"
           /\ ApplySettings(r) => req'[r].at = "good"
           /\ ApplyFails(r) => req'[r].at = "bad"
           /\ RemoveDirectory(r) => req'[r].at = "drop"
           /\ StartDump(r) => req'[r].at = "dumping" /\ req'[r].file = req[r].file
           /\ Dump(r) => req'[r].at = "insert" /\ req'[r].file = req[r].file
           /\ InsertBackup(r) => req'[r].at = (IF Exists THEN "choose" ELSE "idle")
           /\ ChooseOld(r) \/ PruneRow(r) => req'[r].at = "prune"
           /\ PruneFile(r) => req'[r].at \in {"idle", "pruned"}
           /\ Empty(r) => req'[r].at = "load"
<1>1. ASSUME End(r) PROVE req'[r].at = "idle"
  BY <1>1, DatabaseEnd, DatabaseIdle
<1>2. ASSUME NEW l \in DatabaseStage, MoveTo(r, l)
      PROVE  req'[r].at = l /\ req'[r].file = req[r].file
  BY <1>2, DatabaseMoveTo
<1>3. Publish(r) \/ Sync(r) \/ MarkApplied(r) \/ DropRow(r) \/ DumpFails(r) \/ Unlist(r)
      \/ Load(r) \/ AbandonRequest(r) => req'[r].at = "idle"
  BY <1>1 DEF Publish, Sync, MarkApplied, DropRow, DumpFails, Unlist, Load, AbandonRequest
<1>4. ApplySettings(r) => req'[r].at = "good"
  BY <1>2 DEF ApplySettings, DatabaseStage
<1>5. ApplyFails(r) => req'[r].at = "bad"
  BY <1>2 DEF ApplyFails, DatabaseStage
<1>6. RemoveDirectory(r) => req'[r].at = "drop"
  BY <1>2 DEF RemoveDirectory, DatabaseStage
<1>7. StartDump(r) => req'[r].at = "dumping" /\ req'[r].file = req[r].file
  BY <1>2 DEF StartDump, DatabaseStage
<1>8. Dump(r) => req'[r].at = "insert" /\ req'[r].file = req[r].file
  BY DatabaseStamp DEF Dump
<1>9. InsertBackup(r) => req'[r].at = (IF Exists THEN "choose" ELSE "idle")
  BY <1>1, <1>2 DEF InsertBackup, After, DatabaseStage
<1>10. PruneRow(r) => req'[r].at = "prune"
  BY <1>2 DEF PruneRow, DatabaseStage
<1>11. ChooseOld(r) => req'[r].at = "prune"
  BY DatabaseFields DEF ChooseOld, DatabaseState
<1>12. ASSUME PruneFile(r) PROVE req'[r].at \in {"idle", "pruned"}
  <2>1. CASE req[r].old = {}
    BY <1>1, <1>12, <2>1 DEF PruneFile
  <2>2. CASE req[r].old # {}
    <3>1. PICK b \in req[r].old :
              req' = [req EXCEPT ![r].at = "pruned", ![r].ord = b.ord, ![r].old = @ \ {b}]
      BY <1>12, <2>2 DEF PruneFile
    <3>2. req'[r].at = "pruned"
      BY <3>1, DatabaseFields DEF DatabaseState
    <3>3. QED
      BY <3>2
  <2>3. QED
    BY <2>1, <2>2
<1>13. Empty(r) => req'[r].at = "load"
  BY <1>2 DEF Empty, DatabaseStage
<1>14. QED
  BY <1>3, <1>4, <1>5, <1>6, <1>7, <1>8, <1>9, <1>10, <1>11, <1>12, <1>13

\* A request that neither begins nor ends a deletion.
LEMMA GoingBy ==
    ASSUME Going, NEW r \in DatabaseRequest, \A q \in DatabaseRequest \ {r} : req'[q] = req[q],
           req'[r].at \in {"clear", "drop"} <=> req[r].at \in {"clear", "drop"},
           req'[r].at = "drop" => req[r].at = "drop",
           Deleting \/ status = "gone" =>
                req'[r].at \notin {"publish", "apply", "good"} /\ ~BackingUp(r)',
           UNCHANGED <<task, reaper, pod>>, status' = "gone" <=> status = "gone",
           files = NoFiles => files' = NoFiles, mishaps \subseteq mishaps'
    PROVE  Going'
<1>1. Deleting' <=> Deleting
  BY DEF Deleting, At
<1>2. At("drop")' # {} => At("drop") # {}
  BY DEF At
<1>3. Deleting \/ status = "gone" => \A q \in DatabaseRequest :
          req'[q].at \notin {"publish", "apply", "good"} /\ ~BackingUp(q)'
  BY DEF Going, BackingUp
<1>4. QED
  BY <1>1, <1>2, <1>3 DEF Going

\* A deletion that meets nobody leaves nothing, in whatever order its parts end.
LEMMA GoingNext ==
    ASSUME DatabaseTyped, Aged, Going, [DatabaseNext]_databaseVars, ~Except({"race", "left"})'
    PROVE  Going'
<1> USE DEF row, cluster, disk
<1>0. "race" \notin mishaps' /\ "left" \notin mishaps'
  BY DEF Except
<1>8. mishaps \subseteq mishaps'
  BY MishapsKept
<1>1. ASSUME NEW r \in DatabaseRequest, Asking(r) PROVE Going'
  <2>0. req[r].at = "idle" /\ \A q \in DatabaseRequest \ {r} : req'[q] = req[q]
    BY <1>1, DatabaseAsks
  <2>1. ASSUME NEW watches \in BOOLEAN, Create(r, watches), req'[r].at = "publish" PROVE Going'
    <3>1. task.at = "none" /\ \A q \in DatabaseRequest : req[q].at = "idle"
      BY <2>1 DEF Create, Aged
    <3>2. ~Deleting /\ ~reaper
      BY <2>1, <3>1 DEF Deleting, At, Going, Create
    <3>3. ~Deleting' /\ At("drop")' = {}
      BY <2>0, <2>1, <3>1 DEF Deleting, At
    <3>4. reaper' = reaper /\ status' = "provisioning"
      BY <2>1 DEF Create
    <3>5. QED
      BY <3>2, <3>3, <3>4 DEF Going
  <2>2. CASE Get(r) /\ req'[r].at = "sync"
    BY <2>0, <2>2, DatabaseAsks, <1>8, GoingBy DEF Get, BackingUp
  <2>3. ASSUME NEW n \in Retention, Settings(r, n), req'[r].at = "apply" PROVE Going'
    <3>1. ~Deleting /\ status # "gone" /\ UNCHANGED <<status, task, reaper, pod, files>>
      BY <1>0, <2>3 DEF Settings, Mishap, Named, Exists
    <3>2. req[r].at = "idle" /\ \A q \in DatabaseRequest \ {r} : req'[q] = req[q]
      BY <1>1, DatabaseAsks
    <3>3. QED
      BY <2>3, <3>1, <3>2, <1>8, GoingBy
  <2>4. CASE Delete(r) /\ req'[r].at = "clear"
    <3>1. /\ task.at = "none" /\ \A q \in DatabaseRequest : req[q] = Idle
      BY <1>0, <2>4 DEF Delete, Mishap, Named
    <3>2. \A q \in DatabaseRequest \ {r} : req'[q].at = "idle"
      BY <2>0, <3>1, DatabaseIdle
    <3>3. /\ reaper' = TRUE /\ task' = task /\ status' # "gone"
      BY <2>4 DEF Delete, Exists
    <3>4. Deleting' /\ At("drop")' = {}
      BY <2>4, <3>2 DEF Deleting, At
    <3>5. \A q \in DatabaseRequest :
              req'[q].at \notin {"publish", "apply", "good"} /\ ~BackingUp(q)'
      BY <2>4, <3>2 DEF BackingUp
    <3>6. QED
      BY <3>1, <3>3, <3>4, <3>5 DEF Going
  <2>5. CASE Backup(r) /\ req'[r].at = "dump"
    <3>1. ~Deleting /\ status # "gone" /\ UNCHANGED <<status, task, reaper, pod, files>>
      BY <1>0, <2>5 DEF Backup, Mishap, Named, Exists
    <3>2. req[r].at = "idle" /\ \A q \in DatabaseRequest \ {r} : req'[q] = req[q]
      BY <1>1, DatabaseAsks
    <3>3. QED
      BY <2>5, <3>1, <3>2, <1>8, GoingBy
  <2>6. ASSUME NEW b \in backups, DeleteBackup(r, b), req'[r].at = "unlist" PROVE Going'
    <3>1. /\ UNCHANGED <<status, task, reaper, pod>>
          /\ files' \in {files, [files EXCEPT ![b.file] = "none"]}
      BY <2>6 DEF DeleteBackup
    <3>2. files = NoFiles => files' = NoFiles
      BY <3>1 DEF NoFiles
    <3>3. req[r].at = "idle" /\ \A q \in DatabaseRequest \ {r} : req'[q] = req[q]
      BY <1>1, DatabaseAsks
    <3>4. QED
      BY <2>6, <3>1, <3>2, <3>3, <1>8, GoingBy DEF BackingUp
  <2>7. ASSUME NEW b \in backups, Restore(r, b), req'[r].at = "empty" PROVE Going'
    <3>1. UNCHANGED <<status, task, reaper, pod, files>>
      BY <2>7 DEF Restore
    <3>2. req[r].at = "idle" /\ \A q \in DatabaseRequest \ {r} : req'[q] = req[q]
      BY <1>1, DatabaseAsks
    <3>3. QED
      BY <2>7, <3>1, <3>2, <1>8, GoingBy DEF BackingUp
  <2>8. QED
    BY <1>1, <2>1, <2>2, <2>3, <2>4, <2>5, <2>6, <2>7, DatabaseAsks
<1>2. ASSUME NEW r \in DatabaseRequest,
             Working(r) \/ ApplyFails(r) \/ DumpFails(r) \/ AbandonRequest(r)
      PROVE  Going'
  <2>0. \A q \in DatabaseRequest \ {r} : req'[q] = req[q]
    BY <1>2, DatabaseWorks
  <2>1. ~AbandonRequest(r)
    BY <1>0 DEF AbandonRequest, Mishap
  <2>2. CASE Publish(r)
    <3>1. ~Deleting /\ status # "gone"
      BY <2>2 DEF Publish, Going
    <3>2. ~Deleting' /\ status' = status /\ reaper' = reaper
      BY <2>0, <2>2, <3>1, DatabaseStages DEF Publish, Deleting, At
    <3>3. At("drop")' = {}
      BY <3>2 DEF Deleting
    <3>4. QED
      BY <3>1, <3>2, <3>3 DEF Going
  <2>3. CASE ApplySettings(r)
    <3>1. ~Deleting /\ status # "gone"
      BY <2>3 DEF ApplySettings, Going
    <3>2. ~Deleting' /\ status' = status /\ reaper' = reaper
      BY <2>0, <2>3, <3>1, DatabaseStages DEF ApplySettings, Deleting, At
    <3>3. At("drop")' = {}
      BY <3>2 DEF Deleting
    <3>4. QED
      BY <3>1, <3>2, <3>3 DEF Going
  <2>4. CASE RemoveDirectory(r)
    <3>1. Deleting
      BY <2>4 DEF RemoveDirectory, Deleting, At
    <3>2. req'[r].at = "drop"
      BY <2>4, DatabaseStages
    <3>3. Deleting' /\ files' = NoFiles /\ UNCHANGED <<status, task, reaper, pod>>
      BY <2>4, <3>2 DEF RemoveDirectory, Deleting, At
    <3>4. \A q \in DatabaseRequest :
              req'[q].at \notin {"publish", "apply", "good"} /\ ~BackingUp(q)'
      BY <2>0, <3>1, <3>2 DEF Going, BackingUp
    <3>5. QED
      BY <3>1, <3>3, <3>4 DEF Going
  <2>5. CASE DropRow(r)
    <3>1. Deleting /\ At("drop") # {}
      BY <2>5 DEF DropRow, Deleting, At
    <3>2. req'[r].at = "idle"
      BY <2>5, DatabaseStages
    <3>3. status' = "gone" /\ UNCHANGED <<files, task, reaper, pod>>
      BY <2>5 DEF DropRow
    <3>4. \A q \in DatabaseRequest :
              req'[q].at \notin {"publish", "apply", "good"} /\ ~BackingUp(q)'
      BY <2>0, <3>1, <3>2 DEF Going, BackingUp
    <3>5. QED
      BY <1>8, <3>1, <3>3, <3>4 DEF Going
  <2>6. CASE Sync(r) \/ MarkApplied(r)
    <3>1. /\ UNCHANGED <<task, reaper, pod, files>> /\ (status' = "gone" <=> status = "gone")
          /\ req[r].at \in {"sync", "good", "bad"}
      BY <2>6, DatabaseFields DEF Sync, MarkApplied, SetStatus, Exists
    <3>2. req'[r].at = "idle"
      BY <2>6, DatabaseStages
    <3>3. QED
      BY <2>0, <3>1, <3>2, <1>8, GoingBy DEF BackingUp
  <2>7. CASE Unlist(r) \/ Empty(r) \/ Load(r) \/ ApplyFails(r)
    <3>1. /\ UNCHANGED <<status, task, reaper, pod, files>>
          /\ req[r].at \in {"unlist", "empty", "load", "apply"}
      BY <2>7 DEF Unlist, Empty, Load, ApplyFails
    <3>2. req'[r].at \in {"idle", "load", "bad"}
      BY <2>7, DatabaseStages
    <3>3. QED
      BY <2>0, <3>1, <3>2, <1>8, GoingBy DEF BackingUp
  <2>8. CASE \/ StartDump(r) \/ Dump(r) \/ DumpFails(r) \/ InsertBackup(r) \/ ChooseOld(r)
             \/ PruneFile(r) \/ PruneRow(r)
    <3>1. BackingUp(r) /\ UNCHANGED <<status, reaper>>
      BY <2>8 DEF StartDump, Dump, DumpFails, InsertBackup, ChooseOld, PruneFile, PruneRow,
         BackingUp
    <3>2. ~Deleting /\ status # "gone"
      BY <3>1 DEF Going
    <3>3. req'[r].at \notin {"clear", "drop"}
      BY <2>8, DatabaseStages
    <3>4. ~Deleting' /\ At("drop")' = {}
      BY <2>0, <3>2, <3>3 DEF Deleting, At
    <3>5. QED
      BY <3>1, <3>2, <3>4 DEF Going
  <2>9. QED
    BY <1>2, <2>1, <2>2, <2>3, <2>4, <2>5, <2>6, <2>7, <2>8 DEF Working
<1>3. CASE Deploy \/ DeployFails \/ Watch \/ WatchTimesOut \/ Mark \/ MarkLost
  <2>1. task.at # "none" /\ UNCHANGED <<req, reaper>> /\ (status' = "gone" <=> status = "gone")
    BY <1>3 DEF Deploy, DeployFails, Watch, WatchTimesOut, Mark, MarkLost, SetStatus, Exists
  <2>2. ~Deleting /\ status # "gone"
    BY <2>1 DEF Going
  <2>3. ~Deleting' /\ At("drop")' = {}
    BY <2>1, <2>2 DEF Deleting, At
  <2>4. QED
    BY <2>1, <2>2, <2>3 DEF Going
<1>4. CASE Reap \/ PodReady \/ PodFails \/ Tick \/ UNCHANGED databaseVars
  <2>1. UNCHANGED <<req, status, files, task>>
    BY <1>4 DEF Reap, PodReady, PodFails, Tick, databaseVars
  <2>2. (Deleting' <=> Deleting) /\ At("drop")' = At("drop")
    BY <2>1 DEF Deleting, At
  <2>3. \A q \in DatabaseRequest : BackingUp(q)' <=> BackingUp(q)
    BY <2>1 DEF BackingUp
  <2>4. reaper' => reaper
    BY <1>4 DEF Reap, PodReady, PodFails, Tick, databaseVars
  <2>5. reaper \/ pod = "none" => reaper' \/ pod' = "none"
    BY <1>4 DEF Reap, PodReady, PodFails, Tick, databaseVars
  <2>6. QED
    BY <1>8, <2>1, <2>2, <2>3, <2>4, <2>5 DEF Going
<1>5. ~ReapFails
  BY <1>0 DEF ReapFails, Mishap
<1>6. CASE DatabaseCrash
  <2>1. ~(task.at # "none" \/ reaper \/ \E r \in DatabaseRequest : req[r] # Idle)
    BY <1>0, <1>6 DEF DatabaseCrash, Mishap, Named
  <2>2. \A r \in DatabaseRequest : req[r].at = "idle" /\ req'[r].at = "idle"
    BY <1>6, <2>1, DatabaseIdle DEF DatabaseCrash
  <2>3. task'.at = "none" /\ ~reaper' /\ ~reaper /\ UNCHANGED <<pod, status, files>>
    BY <1>6, <2>1 DEF DatabaseCrash, DatabaseTyped
  <2>4. ~Deleting' /\ At("drop")' = {} /\ \A r \in DatabaseRequest : ~BackingUp(r)'
    BY <2>2 DEF Deleting, At, BackingUp
  <2>5. QED
    BY <1>8, <2>2, <2>3, <2>4 DEF Going
<1>9. ASSUME NEW r \in DatabaseRequest, GoingAmiss(r) PROVE Going'
  <2>0. /\ \A q \in DatabaseRequest \ {r} : req'[q] = req[q]
        /\ UNCHANGED <<status, task, reaper, pod, files>>
    BY <1>9, DatabaseAmiss, DatabaseAmissKeeps
  <2>1. CASE RemoveDirectoryFails(r) /\ req[r].at = "clear" /\ req'[r].at = "drop"
    <3>1. Deleting /\ Deleting'
      BY <2>1 DEF Deleting, At
    <3>2. "remains" \in mishaps'
      BY <2>1 DEF RemoveDirectoryFails, Mishap
    <3>3. \A q \in DatabaseRequest :
              req'[q].at \notin {"publish", "apply", "good"} /\ ~BackingUp(q)'
      BY <2>0, <2>1, <3>1 DEF Going, BackingUp
    <3>4. QED
      BY <2>0, <3>1, <3>2, <3>3 DEF Going
  <2>2. CASE /\ req[r].at \notin {"clear", "drop"} /\ req'[r].at \notin {"clear", "drop"}
             /\ req'[r].at \notin {"publish", "apply", "good"}
             /\ BackingUp(r)' => BackingUp(r)
    <3>1. Deleting \/ status = "gone" => ~BackingUp(r)'
      BY <2>2 DEF Going
    <3>2. QED
      BY <1>8, <2>0, <2>2, <3>1, GoingBy
  <2>3. QED
    BY <1>9, <2>1, <2>2, DatabaseAmiss, DatabaseIdle DEF BackingUp
<1>7. QED
  BY <1>1, <1>2, <1>3, <1>4, <1>5, <1>6, <1>9 DEF DatabaseNext

\* A request whose step says nothing of the status.
LEMMA StandsBy ==
    ASSUME Stands, NEW r \in DatabaseRequest, \A q \in DatabaseRequest \ {r} : req'[q] = req[q],
           req'[r].at \notin {"good", "sync"}, req[r].at # "publish",
           req[r].at \in {"clear", "drop"} => req'[r].at \in {"clear", "drop"},
           UNCHANGED <<task, pod, status>>, mishaps \subseteq mishaps'
    PROVE  Stands'
<1>1. Deleting => Deleting'
  BY DEF Deleting, At
<1>2. At("publish") # {} => At("publish")' # {}
  BY DEF At
<1>3. QED
  BY <1>1, <1>2 DEF Stands

\* Nobody says that a database runs, or is about to, which has no pod.
LEMMA StandsNext ==
    ASSUME DatabaseTyped, Aged, Going, Stands, [DatabaseNext]_databaseVars,
           ~Except({"race", "left"})'
    PROVE  Stands'
<1> USE DEF row, cluster, disk
<1>0. "race" \notin mishaps' /\ "left" \notin mishaps'
  BY DEF Except
<1>12. mishaps \subseteq mishaps'
  BY MishapsKept
<1>1. pod' # "none" => Stands'
  BY DEF Stands
<1>2. ASSUME NEW r \in DatabaseRequest, Asking(r) PROVE Stands'
  <2>0. req[r].at = "idle" /\ \A q \in DatabaseRequest \ {r} : req'[q] = req[q]
    BY <1>2, DatabaseAsks
  <2>1. ASSUME NEW watches \in BOOLEAN, Create(r, watches), req'[r].at = "publish" PROVE Stands'
    <3>1. task.at = "none" /\ \A q \in DatabaseRequest : req[q].at = "idle"
      BY <2>1 DEF Create, Aged
    <3>2. task'.at = "none" /\ status' = "provisioning"
      BY <2>1, <3>1 DEF Create, DatabaseTyped
    <3>3. \A q \in DatabaseRequest : req'[q].at \notin {"good", "sync"}
      BY <2>0, <2>1, <3>1
    <3>4. At("publish")' # {}
      BY <2>1 DEF At
    <3>5. QED
      BY <1>12, <3>2, <3>3, <3>4 DEF Stands
  <2>2. CASE Get(r)
    <3>1. /\ req'[r].at = "sync" /\ req'[r].st = Actual(status)
          /\ UNCHANGED <<task, pod, status>>
      BY <1>2, <2>2, DatabaseAsks DEF Get
    <3>2. Actual(status) # "failed" => pod # "none" \/ Deleting
      BY <2>2 DEF Actual, Get, Exists, Stands
    <3>3. (Deleting => Deleting') /\ (At("publish") # {} => At("publish")' # {})
      BY <2>0 DEF Deleting, At
    <3>4. QED
      BY <1>12, <2>0, <3>1, <3>2, <3>3 DEF Stands
  <2>3. CASE \/ (\E n \in Retention : Settings(r, n)) \/ Delete(r) \/ Backup(r)
             \/ \E b \in backups : DeleteBackup(r, b) \/ Restore(r, b)
    <3>1. UNCHANGED <<task, pod, status>>
      BY <2>3 DEF Settings, Delete, Backup, DeleteBackup, Restore
    <3>2. CASE Get(r)
      BY <2>2, <3>2
    <3>3. CASE \E watches \in BOOLEAN : Create(r, watches)
      BY <3>1, <3>3 DEF Create
    <3>4. CASE ~Get(r) /\ ~(\E watches \in BOOLEAN : Create(r, watches))
      <4>1. req'[r].at \notin {"good", "sync"}
        BY <1>2, <3>4, DatabaseAsks
      <4>2. QED
        BY <2>0, <3>1, <4>1, <1>12, StandsBy
    <3>5. QED
      BY <3>2, <3>3, <3>4
  <2>4. CASE (\E watches \in BOOLEAN : Create(r, watches)) /\ req'[r].at = "publish"
    BY <2>1, <2>4
  <2>5. \/ (\E watches \in BOOLEAN : Create(r, watches)) /\ req'[r].at = "publish"
        \/ Get(r) \/ (\E n \in Retention : Settings(r, n)) \/ Delete(r) \/ Backup(r)
        \/ \E b \in backups : DeleteBackup(r, b) \/ Restore(r, b)
    BY <1>2, DatabaseAsks
  <2>6. QED
    BY <2>2, <2>3, <2>4, <2>5
<1>3. ASSUME NEW r \in DatabaseRequest,
             Working(r) \/ ApplyFails(r) \/ DumpFails(r) \/ AbandonRequest(r)
      PROVE  Stands'
  <2>0. \A q \in DatabaseRequest \ {r} : req'[q] = req[q]
    BY <1>3, DatabaseWorks
  <2>1. ~AbandonRequest(r)
    BY <1>0 DEF AbandonRequest, Mishap
  <2>2. CASE Publish(r)
    <3>1. /\ UNCHANGED <<pod, status>> /\ task'.at = "deploy" /\ req[r].at = "publish"
          /\ req'[r].at = "idle"
      BY <2>2, DatabaseStages DEF Publish, DatabaseTyped
    <3>2. Deleting => Deleting'
      BY <2>0, <3>1 DEF Deleting, At
    <3>3. QED
      BY <1>12, <2>0, <3>1, <3>2 DEF Stands
  <2>3. CASE Sync(r)
    <3>1. /\ UNCHANGED <<task, pod>> /\ req[r].at = "sync" /\ req'[r].at = "idle"
          /\ req[r].st \in {"provisioning", "running", "failed"}
      BY <2>3, DatabaseStages, DatabaseFields DEF Sync, Aged
    <3>2. Deleting => Deleting'
      BY <2>0, <3>1 DEF Deleting, At
    <3>3. At("publish") # {} => At("publish")' # {}
      BY <2>0, <3>1 DEF At
    <3>4. CASE Exists
      <4>1. status' = req[r].st /\ status # "gone"
        BY <2>3, <3>4 DEF Sync, SetStatus, Exists
      <4>2. req[r].st # "failed" => pod # "none" \/ Deleting
        BY <3>1, <4>1 DEF Stands
      <4>3. QED
        BY <1>12, <2>0, <3>1, <3>2, <4>1, <4>2 DEF Stands
    <3>5. CASE ~Exists
      <4>1. status' = status
        BY <2>3, <3>5 DEF Sync, SetStatus
      <4>2. QED
        BY <1>12, <2>0, <3>1, <3>2, <3>3, <4>1 DEF Stands
    <3>6. QED
      BY <3>4, <3>5
  <2>4. CASE ApplySettings(r)
    <3>1. pod' # "none"
      BY <2>4 DEF ApplySettings, Deployed
    <3>2. QED
      BY <1>1, <3>1
  <2>5. CASE MarkApplied(r)
    <3>1. UNCHANGED <<task, pod>> /\ req'[r].at = "idle" /\ req[r].at \in {"good", "bad"}
      BY <2>5, DatabaseStages DEF MarkApplied
    <3>2. CASE req[r].at = "good"
      BY <1>1, <3>1, <3>2 DEF Stands
    <3>3. CASE req[r].at = "bad"
      <4>1. status' \notin {"running", "provisioning"} /\ (status = "gone" => status' = "gone")
        BY <2>5, <3>3 DEF MarkApplied, SetStatus, Exists
      <4>2. Deleting => Deleting'
        BY <2>0, <3>1 DEF Deleting, At
      <4>3. QED
        BY <2>0, <3>1, <4>1, <4>2 DEF Stands
    <3>4. QED
      BY <3>1, <3>2, <3>3
  <2>6. CASE DropRow(r)
    <3>1. UNCHANGED <<task, pod>> /\ req'[r].at = "idle" /\ status' = "gone"
      BY <2>6, DatabaseStages DEF DropRow
    <3>2. QED
      BY <2>0, <3>1 DEF Stands
  <2>7. CASE \/ RemoveDirectory(r) \/ Unlist(r) \/ Empty(r) \/ Load(r) \/ ApplyFails(r)
             \/ StartDump(r) \/ Dump(r) \/ DumpFails(r) \/ InsertBackup(r) \/ ChooseOld(r)
             \/ PruneFile(r) \/ PruneRow(r)
    <3>1. /\ UNCHANGED <<task, pod, status>> /\ req[r].at # "publish"
          /\ req[r].at \in {"clear", "drop"} => RemoveDirectory(r)
      BY <2>7 DEF RemoveDirectory, Unlist, Empty, Load, ApplyFails, StartDump, Dump, DumpFails,
         InsertBackup, ChooseOld, PruneFile, PruneRow
    <3>2. req'[r].at \notin {"good", "sync"}
      BY <2>7, DatabaseStages
    <3>3. RemoveDirectory(r) => req'[r].at = "drop"
      BY DatabaseStages
    <3>4. QED
      BY <2>0, <3>1, <3>2, <3>3, <1>12, StandsBy
  <2>8. QED
    BY <1>3, <2>1, <2>2, <2>3, <2>4, <2>5, <2>6, <2>7 DEF Working
<1>4. CASE Deploy \/ Watch \/ WatchTimesOut \/ PodReady \/ PodFails
  <2>1. pod' # "none"
    BY <1>4 DEF Deploy, Watch, WatchTimesOut, PodReady, PodFails, Deployed, Stands
  <2>2. QED
    BY <1>1, <2>1
<1>5. CASE DeployFails
  <2>1. UNCHANGED <<pod, status, req>> /\ task'.at = "bad"
    BY <1>5 DEF DeployFails, DatabaseTyped
  <2>2. Deleting' <=> Deleting
    BY <2>1 DEF Deleting, At
  <2>3. QED
    BY <1>12, <2>1, <2>2 DEF Stands
<1>13. CASE MarkLost
  <2>1. /\ UNCHANGED <<pod, status, req>> /\ task'.at = "none" /\ task.at \in {"good", "bad"}
        /\ task.at = "bad" => "unmarked" \in mishaps'
    BY <1>13 DEF MarkLost, Mishap, Named, DatabaseTyped
  <2>2. Deleting' <=> Deleting
    BY <2>1 DEF Deleting, At
  <2>3. At("publish")' = At("publish")
    BY <2>1 DEF At
  <2>4. CASE task.at = "good"
    BY <1>1, <2>1, <2>4 DEF Stands
  <2>5. CASE task.at = "bad"
    BY <1>12, <2>1, <2>2, <2>3, <2>5 DEF Stands
  <2>6. QED
    BY <2>1, <2>4, <2>5
<1>14. ASSUME NEW r \in DatabaseRequest, GoingAmiss(r) PROVE Stands'
  <2>1. /\ UNCHANGED <<task, pod, status>> /\ \A q \in DatabaseRequest \ {r} : req'[q] = req[q]
        /\ req'[r].at \notin {"good", "sync"} /\ req[r].at # "publish"
        /\ req[r].at \in {"clear", "drop"} => req'[r].at \in {"clear", "drop"}
    BY <1>14, DatabaseAmiss, DatabaseAmissKeeps, DatabaseIdle
  <2>2. QED
    BY <1>12, <2>1, StandsBy
<1>6. CASE Mark
  <2>1. UNCHANGED <<pod, req>> /\ task'.at = "none" /\ task.at \in {"good", "bad"}
    BY <1>6 DEF Mark, DatabaseTyped
  <2>2. CASE task.at = "good"
    BY <1>1, <2>1, <2>2 DEF Stands
  <2>3. CASE task.at = "bad"
    <3>1. status' \notin {"running", "provisioning"} /\ (status = "gone" => status' = "gone")
      BY <1>6, <2>3 DEF Mark, SetStatus, Exists
    <3>2. Deleting' <=> Deleting
      BY <2>1 DEF Deleting, At
    <3>3. QED
      BY <2>1, <3>1, <3>2 DEF Stands
  <2>4. QED
    BY <2>1, <2>2, <2>3
<1>7. CASE Reap
  <2>1. UNCHANGED <<status, req, task>> /\ (Deleting \/ status = "gone")
    BY <1>7 DEF Reap, Going
  <2>2. Deleting' <=> Deleting
    BY <2>1 DEF Deleting, At
  <2>3. QED
    BY <2>1, <2>2 DEF Stands, Going
<1>8. ~ReapFails
  BY <1>0 DEF ReapFails, Mishap
<1>9. CASE DatabaseCrash
  <2>1. ~(task.at # "none" \/ reaper \/ \E r \in DatabaseRequest : req[r] # Idle)
    BY <1>0, <1>9 DEF DatabaseCrash, Mishap, Named
  <2>2. \A r \in DatabaseRequest : req[r].at = "idle" /\ req'[r].at = "idle"
    BY <1>9, <2>1, DatabaseIdle DEF DatabaseCrash
  <2>3. task'.at = "none" /\ UNCHANGED <<pod, status>>
    BY <1>9, <2>1 DEF DatabaseCrash, DatabaseTyped
  <2>4. ~Deleting /\ At("publish") = {}
    BY <2>2 DEF Deleting, At
  <2>5. QED
    BY <1>12, <2>1, <2>2, <2>3, <2>4 DEF Stands
<1>10. CASE Tick \/ UNCHANGED databaseVars
  <2>1. UNCHANGED <<task, pod, status, req>>
    BY <1>10 DEF Tick, databaseVars
  <2>2. QED
    BY <1>12, <2>1 DEF Stands, Deleting, At
<1>11. QED
  BY <1>2, <1>3, <1>4, <1>5, <1>6, <1>7, <1>8, <1>9, <1>10, <1>13, <1>14 DEF DatabaseNext

\* The process ends when nobody is at work.
LEMMA DatabaseCrashesIdle ==
    ASSUME DatabaseCrash, "left" \notin mishaps'
    PROVE  /\ \A r \in DatabaseRequest : req[r] = Idle /\ req'[r] = Idle
           /\ UNCHANGED <<status, keep, backups, made, data, files>>
<1>1. ~\E r \in DatabaseRequest : req[r] # Idle
  BY DEF DatabaseCrash, Mishap, Named
<1>2. QED
  BY <1>1 DEF DatabaseCrash, row, disk

\* A file is whole unless somebody is writing it.
LEMMA PartialNext ==
    ASSUME DatabaseTyped, Partial, [DatabaseNext]_databaseVars,
           ~Except({"left", "short", "remnant"})'
    PROVE  Partial'
<1> USE DEF row, cluster, disk
<1>0. {"left", "short", "remnant"} \cap mishaps' = {}
  BY DEF Except
<1>1. ASSUME NEW r \in DatabaseRequest, \A q \in DatabaseRequest \ {r} : req'[q] = req[q],
             req[r].at # "dumping", \A s \in Second : files'[s] = "partial" => files[s] = "partial"
      PROVE  Partial'
  <2> SUFFICES ASSUME NEW s \in Second, files'[s] = "partial"
               PROVE  \E q \in DatabaseRequest : req'[q].at = "dumping" /\ req'[q].file = s
    BY DEF Partial
  <2>1. PICK q \in DatabaseRequest : req[q].at = "dumping" /\ req[q].file = s
    BY <1>1 DEF Partial
  <2>2. QED
    BY <1>1, <2>1
<1>2. ASSUME NEW r \in DatabaseRequest, Asking(r) PROVE Partial'
  <2>1. \A s \in Second : files'[s] = "partial" => files[s] = "partial"
    BY <1>2 DEF Asking, Create, Get, Settings, Delete, Backup, DeleteBackup, Restore, DatabaseTyped
  <2>2. req[r].at = "idle" /\ \A q \in DatabaseRequest \ {r} : req'[q] = req[q]
    BY <1>2, DatabaseAsks
  <2>3. QED
    BY <1>1, <2>1, <2>2
<1>3. ASSUME NEW r \in DatabaseRequest,
             Working(r) \/ ApplyFails(r) \/ DumpFails(r) \/ AbandonRequest(r)
      PROVE  Partial'
  <2>0. \A q \in DatabaseRequest \ {r} : req'[q] = req[q]
    BY <1>3, DatabaseWorks
  <2>1. PICK f \in Second : f = req[r].file
    BY DatabaseFields
  <2>2. ~AbandonRequest(r)
    BY <1>0 DEF AbandonRequest, Mishap
  <2>3. CASE StartDump(r)
    <3>1. files' = [files EXCEPT ![f] = "partial"] /\ req[r].at = "dump"
      BY <2>1, <2>3 DEF StartDump
    <3>2. req'[r].at = "dumping" /\ req'[r].file = f
      BY <2>1, <2>3, DatabaseStages
    <3>3. ASSUME NEW s \in Second, files'[s] = "partial"
          PROVE  \E q \in DatabaseRequest : req'[q].at = "dumping" /\ req'[q].file = s
      <4>1. CASE s = f
        BY <3>2, <4>1
      <4>2. CASE s # f
        <5>1. files[s] = "partial"
          BY <3>1, <3>3, <4>2 DEF DatabaseTyped
        <5>2. PICK q \in DatabaseRequest : req[q].at = "dumping" /\ req[q].file = s
          BY <5>1 DEF Partial
        <5>3. QED
          BY <2>0, <3>1, <5>2
      <4>3. QED
        BY <4>1, <4>2
    <3>4. QED
      BY <3>3 DEF Partial
  <2>4. CASE Dump(r) \/ DumpFails(r)
    <3>1. files'[f] # "partial" /\ \A s \in Second \ {f} : files'[s] = files[s]
      BY <2>1, <2>4 DEF Dump, DumpFails, DatabaseTyped
    <3>2. ASSUME NEW s \in Second, files'[s] = "partial"
          PROVE  \E q \in DatabaseRequest : req'[q].at = "dumping" /\ req'[q].file = s
      <4>1. s # f /\ files[s] = "partial"
        BY <3>1, <3>2
      <4>2. PICK q \in DatabaseRequest : req[q].at = "dumping" /\ req[q].file = s
        BY <4>1 DEF Partial
      <4>3. QED
        BY <2>0, <2>1, <4>1, <4>2
    <3>3. QED
      BY <3>2 DEF Partial
  <2>5. CASE ~(StartDump(r) \/ Dump(r) \/ DumpFails(r))
    <3>1. req[r].at # "dumping"
      BY <1>3, <2>2, <2>5 DEF Working, Publish, Sync, ApplySettings, MarkApplied, RemoveDirectory,
         DropRow, InsertBackup, ChooseOld, PruneFile, PruneRow, Unlist, Empty, Load, ApplyFails
    <3>2. \A s \in Second : files'[s] = "partial" => files[s] = "partial"
      BY <1>3, <2>2, <2>5 DEF Working, Publish, Sync, ApplySettings, MarkApplied, RemoveDirectory,
         DropRow, InsertBackup, ChooseOld, PruneFile, PruneRow, Unlist, Empty, Load, ApplyFails,
         NoFiles, DatabaseTyped
    <3>3. QED
      BY <1>1, <2>0, <3>1, <3>2
  <2>6. QED
    BY <2>3, <2>4, <2>5
<1>7. ASSUME NEW r \in DatabaseRequest, GoingAmiss(r) PROVE Partial'
  <2>1. /\ files' = files /\ \A q \in DatabaseRequest \ {r} : req'[q] = req[q]
    BY <1>7, DatabaseAmiss, DatabaseAmissKeeps
  <2>2. ~DumpShort(r) /\ ~DumpLeaves(r)
    BY <1>0 DEF DumpShort, DumpLeaves, Mishap
  <2>3. req[r].at # "dumping"
    BY <1>7, <2>2, DatabaseAmiss
  <2>4. QED
    BY <1>1, <2>1, <2>3
<1>4. CASE \/ Deploy \/ DeployFails \/ Watch \/ WatchTimesOut \/ Mark \/ MarkLost \/ Reap
           \/ ReapFails \/ PodReady \/ PodFails \/ Tick \/ UNCHANGED databaseVars
  BY <1>4, DatabaseTasks DEF Partial
<1>5. CASE DatabaseCrash
  <2>1. /\ \A r \in DatabaseRequest : req'[r] = req[r]
        /\ files' = files
    BY <1>0, <1>5, DatabaseCrashesIdle
  <2>2. QED
    BY <2>1 DEF Partial
<1>6. QED
  BY <1>2, <1>3, <1>4, <1>5, <1>7 DEF DatabaseNext

\* What a restore has emptied, it loads.
LEMMA FillingNext ==
    ASSUME DatabaseTyped, Partial, Filling, [DatabaseNext]_databaseVars,
           ~Except({"restores", "during", "pulled", "left", "short", "remnant", "unloaded"})'
    PROVE  Filling'
<1> USE DEF row, cluster, disk
<1>0. {"restores", "during", "pulled", "left", "short", "remnant", "unloaded"} \cap mishaps' = {}
  BY DEF Except
<1>1. ASSUME NEW r \in DatabaseRequest, \A q \in DatabaseRequest \ {r} : req'[q] = req[q],
             req[r].at # "load", req'[r].at \notin {"empty", "load", "dumping"}, data' = data
      PROVE  Filling'
  <2>1. /\ At("load")' = At("load") /\ At("empty")' \subseteq At("empty")
        /\ At("dumping")' \subseteq At("dumping")
    BY <1>1 DEF At
  <2>2. QED
    BY <1>1, <2>1 DEF Filling
<1>2. ASSUME NEW r \in DatabaseRequest, Asking(r) PROVE Filling'
  <2>1. /\ req[r].at = "idle" /\ \A q \in DatabaseRequest \ {r} : req'[q] = req[q]
        /\ data' = data
    BY <1>2, DatabaseAsks DEF Asking, Create, Get, Settings, Delete, Backup, DeleteBackup, Restore
  <2>2. ASSUME NEW b \in backups, Restore(r, b), req'[r].at = "empty" PROVE Filling'
    <3>1. At("empty") = {} /\ At("load") = {}
      BY <1>0, <2>2 DEF Restore, Mishap, Named
    <3>2. At("load")' = {} /\ \A q \in At("empty")' : q = r
      BY <2>1, <2>2, <3>1 DEF At
    <3>3. data' = "whole"
      BY <2>1, <3>1 DEF Filling
    <3>4. QED
      BY <3>2, <3>3 DEF Filling
  <2>3. CASE req'[r].at \notin {"empty", "load", "dumping"}
    BY <1>1, <2>1, <2>3
  <2>4. QED
    BY <1>2, <2>2, <2>3, DatabaseAsks
<1>3. ASSUME NEW r \in DatabaseRequest,
             Working(r) \/ ApplyFails(r) \/ DumpFails(r) \/ AbandonRequest(r)
      PROVE  Filling'
  <2>0. \A q \in DatabaseRequest \ {r} : req'[q] = req[q]
    BY <1>3, DatabaseWorks
  <2>1. ~AbandonRequest(r)
    BY <1>0 DEF AbandonRequest, Mishap
  <2>2. CASE StartDump(r)
    <3>1. data = "whole" /\ data' = data /\ req[r].at = "dump" /\ req'[r].at = "dumping"
      BY <1>0, <2>2, DatabaseStages DEF StartDump, Mishap, Named
    <3>2. At("load") = {}
      BY <3>1 DEF Filling
    <3>3. At("load")' = {} /\ At("empty")' = At("empty")
      BY <2>0, <3>1, <3>2 DEF At
    <3>4. QED
      BY <3>1, <3>2, <3>3 DEF Filling
  <2>3. CASE Empty(r)
    <3>1. /\ At("dumping") = {} /\ data' = "torn" /\ req[r].at = "empty" /\ req'[r].at = "load"
      BY <1>0, <2>3, DatabaseStages DEF Empty, Mishap, Named
    <3>2. \A q \in At("empty") \cup At("load") : q = r
      BY <3>1 DEF Filling, At
    <3>3. /\ \A q \in At("empty")' \cup At("load")' : q = r
          /\ At("load")' # {} /\ At("dumping")' = {}
      BY <2>0, <3>1, <3>2 DEF At
    <3>4. QED
      BY <3>1, <3>3 DEF Filling
  <2>4. CASE Load(r)
    <3>1. PICK f \in Second : f = req[r].file
      BY DatabaseFields
    <3>2. /\ req[r].at = "load" /\ req'[r].at = "idle"
          /\ data' = IF files[f] = "whole" THEN "whole" ELSE "torn"
      BY <2>4, <3>1, DatabaseStages DEF Load
    <3>3. files[f] # "none"
      BY <1>0, <2>4, <3>1 DEF Load, Mishap, Named
    <3>4. At("dumping") = {} /\ \A q \in At("empty") \cup At("load") : q = r
      BY <3>2 DEF Filling, At
    <3>5. files[f] # "partial"
      BY <3>4 DEF Partial, At
    <3>6. data' = "whole"
      BY <3>2, <3>3, <3>5 DEF DatabaseTyped
    <3>7. At("empty")' = {} /\ At("load")' = {}
      BY <2>0, <3>2, <3>4 DEF At
    <3>8. QED
      BY <3>6, <3>7 DEF Filling
  <2>5. CASE ~(StartDump(r) \/ Empty(r) \/ Load(r))
    <3>1. req[r].at # "load" /\ data' = data
      BY <1>3, <2>1, <2>5 DEF Working, Publish, Sync, ApplySettings, MarkApplied, RemoveDirectory,
         DropRow, Dump, InsertBackup, ChooseOld, PruneFile, PruneRow, Unlist, ApplyFails, DumpFails
    <3>2. req'[r].at \notin {"empty", "load", "dumping"}
      BY <1>3, <2>5, DatabaseWorks, DatabaseIdle
    <3>3. QED
      BY <1>1, <2>0, <3>1, <3>2
  <2>6. QED
    BY <2>2, <2>3, <2>4, <2>5
<1>7. ASSUME NEW r \in DatabaseRequest, GoingAmiss(r) PROVE Filling'
  <2>1. ~LoadAmiss(r)
    BY <1>0 DEF LoadAmiss, Mishap
  <2>2. data' = data /\ \A q \in DatabaseRequest \ {r} : req'[q] = req[q]
    BY <1>7, <2>1, DatabaseAmiss, DatabaseAmissKeeps
  <2>3. req[r].at # "load" /\ req'[r].at \notin {"empty", "load", "dumping"}
    BY <1>7, <2>1, DatabaseAmiss, DatabaseIdle
  <2>4. QED
    BY <1>1, <2>2, <2>3
<1>4. CASE \/ Deploy \/ DeployFails \/ Watch \/ WatchTimesOut \/ Mark \/ MarkLost \/ Reap
           \/ ReapFails \/ PodReady \/ PodFails \/ Tick \/ UNCHANGED databaseVars
  BY <1>4, DatabaseTasks DEF Filling, At
<1>5. CASE DatabaseCrash
  <2>1. (\A r \in DatabaseRequest : req'[r] = req[r]) /\ data' = data
    BY <1>0, <1>5, DatabaseCrashesIdle
  <2>2. QED
    BY <2>1 DEF Filling, At
<1>6. QED
  BY <1>2, <1>3, <1>4, <1>5, <1>7 DEF DatabaseNext

\* What names files after a step of one request that records no backup.
LEMMA RecordedBy ==
    ASSUME DatabaseTyped, NEW r \in DatabaseRequest,
           \A q \in DatabaseRequest \ {r} : req'[q] = req[q],
           backups' \subseteq backups, req'[r].old \subseteq Recorded
    PROVE  Recorded' \subseteq Recorded /\ Recorded \subseteq BackupRow
<1>1. \A q \in DatabaseRequest : req'[q].old \subseteq Recorded
  BY DEF Recorded
<1>2. Recorded' \subseteq Recorded
  BY <1>1 DEF Recorded
<1>3. Recorded \subseteq BackupRow
  BY DatabaseFields DEF Recorded, DatabaseTyped
<1>4. QED
  BY <1>2, <1>3

\* A request that touches no file and begins no backup.
LEMMA FilesBy ==
    ASSUME DatabaseTyped, Files, NEW r \in DatabaseRequest,
           \A q \in DatabaseRequest \ {r} : req'[q] = req[q],
           files' = files, backups' \subseteq backups, req'[r].old \subseteq Recorded,
           ~Writes(r)', BackingUp(r)' => BackingUp(r),
           req'[r].at \in {"clear", "drop"} => req[r].at \in {"clear", "drop"},
           req[r].at = "drop" => req'[r].at = "drop" \/ backups' = {},
           req[r].at \in {"pruned", "unlist"} => \A b \in backups' : b.ord # req[r].ord
    PROVE  Files'
<1>1. Recorded' \subseteq Recorded
  BY RecordedBy
<1>2. Deleting' => Deleting
  BY DEF Deleting, At
<1>3. Deleting' => \A q \in DatabaseRequest : ~BackingUp(q)'
  BY <1>2 DEF Files, BackingUp
<1>4. \A q \in DatabaseRequest : Writes(q)' => q # r /\ Writes(q) /\ req'[q] = req[q]
  BY DEF Writes
<1>5. \A q \in DatabaseRequest : Writes(q)' =>
        /\ \A b \in Recorded' : b.file # req'[q].file
        /\ \A p \in DatabaseRequest : Writes(p)' /\ req'[p].file = req'[q].file => p = q
        /\ req'[q].at = "insert" => files'[req'[q].file] = "whole"
  BY <1>1, <1>4 DEF Files
<1>6. ASSUME NEW b \in backups'
      PROVE  \/ files'[b.file] = "whole" \/ At("drop")' # {}
             \/ \E q \in DatabaseRequest :
                    req'[q].at \in {"pruned", "unlist"} /\ req'[q].ord = b.ord
  <2>1. CASE files[b.file] = "whole"
    BY <2>1
  <2>2. CASE At("drop") # {}
    <3>1. PICK q \in DatabaseRequest : req[q].at = "drop"
      BY <2>2 DEF At
    <3>2. req'[q].at = "drop"
      BY <3>1, <1>6
    <3>3. QED
      BY <3>2 DEF At
  <2>3. CASE \E q \in DatabaseRequest : req[q].at \in {"pruned", "unlist"} /\ req[q].ord = b.ord
    BY <2>3, <1>6
  <2>4. QED
    BY <2>1, <2>2, <2>3, <1>6 DEF Files
<1>7. \A b, c \in Recorded' : b.file = c.file => b = c
  BY <1>1 DEF Files
<1>8. QED
  BY <1>3, <1>5, <1>6, <1>7 DEF Files

\* A request that removes the file of a backup, and will remove its row.
LEMMA FilesTaken ==
    ASSUME DatabaseTyped, Files, NEW r \in DatabaseRequest,
           \A q \in DatabaseRequest \ {r} : req'[q] = req[q],
           NEW b \in Recorded, files' \in {files, [files EXCEPT ![b.file] = "none"]},
           backups' = backups,
           req'[r].old \subseteq Recorded, req'[r].at \in {"pruned", "unlist"},
           req'[r].ord = b.ord, req[r].at \notin {"drop", "pruned", "unlist"},
           BackingUp(r)' => BackingUp(r)
    PROVE  Files'
<1>1. Recorded' \subseteq Recorded /\ Recorded \subseteq BackupRow
  BY RecordedBy
<1>2. \A s \in Second : s # b.file => files'[s] = files[s]
  BY DEF DatabaseTyped
<1>3. Deleting' => Deleting
  BY DEF Deleting, At
<1>4. Deleting' => \A q \in DatabaseRequest : ~BackingUp(q)'
  BY <1>3 DEF Files, BackingUp
<1>5. \A q \in DatabaseRequest : Writes(q)' => q # r /\ Writes(q) /\ req'[q] = req[q]
  BY DEF Writes
<1>6. \A q \in DatabaseRequest : Writes(q)' =>
        /\ \A c \in Recorded' : c.file # req'[q].file
        /\ \A p \in DatabaseRequest : Writes(p)' /\ req'[p].file = req'[q].file => p = q
        /\ req'[q].at = "insert" => files'[req'[q].file] = "whole"
  <2> SUFFICES ASSUME NEW q \in DatabaseRequest, Writes(q)'
               PROVE  /\ \A c \in Recorded' : c.file # req'[q].file
                      /\ \A p \in DatabaseRequest :
                            Writes(p)' /\ req'[p].file = req'[q].file => p = q
                      /\ req'[q].at = "insert" => files'[req'[q].file] = "whole"
    OBVIOUS
  <2>1. q # r /\ Writes(q) /\ req'[q] = req[q]
    BY <1>5
  <2>2. req[q].file # b.file /\ req[q].file \in Second
    BY <2>1, DatabaseFields DEF Files
  <2>3. req[q].at = "insert" => files[req[q].file] = "whole"
    BY <2>1 DEF Files
  <2>4. req'[q].at = "insert" => files'[req'[q].file] = "whole"
    BY <1>2, <2>1, <2>2, <2>3
  <2>5. QED
    BY <1>1, <1>5, <2>1, <2>4 DEF Files
<1>7. ASSUME NEW c \in backups'
      PROVE  \/ files'[c.file] = "whole" \/ At("drop")' # {}
             \/ \E q \in DatabaseRequest :
                    req'[q].at \in {"pruned", "unlist"} /\ req'[q].ord = c.ord
  <2>1. CASE c.file = b.file
    <3>1. c = b
      BY <1>7, <2>1 DEF Files, Recorded
    <3>2. QED
      BY <3>1
  <2>2. CASE c.file # b.file
    <3>1. c.file \in Second
      BY <1>7, DatabaseFields DEF DatabaseTyped
    <3>2. CASE files[c.file] = "whole"
      BY <1>2, <2>2, <3>1, <3>2
    <3>3. CASE At("drop") # {}
      <4>1. PICK q \in DatabaseRequest : req[q].at = "drop"
        BY <3>3 DEF At
      <4>2. req'[q].at = "drop"
        BY <4>1
      <4>3. QED
        BY <4>2 DEF At
    <3>4. CASE \E q \in DatabaseRequest : req[q].at \in {"pruned", "unlist"} /\ req[q].ord = c.ord
      BY <3>4
    <3>5. QED
      BY <1>7, <3>2, <3>3, <3>4 DEF Files
  <2>3. QED
    BY <2>1, <2>2
<1>8. \A c, d \in Recorded' : c.file = d.file => c = d
  BY <1>1 DEF Files
<1>9. QED
  BY <1>4, <1>6, <1>7, <1>8 DEF Files

\* A backup that writes its file.
LEMMA FilesWritten ==
    ASSUME DatabaseTyped, Files, NEW r \in DatabaseRequest,
           \A q \in DatabaseRequest \ {r} : req'[q] = req[q],
           NEW v, files' = [files EXCEPT ![req[r].file] = v], backups' = backups,
           req[r].at \in {"dump", "dumping"}, req'[r].old \subseteq Recorded,
           \/ req'[r].at = "idle"
           \/ /\ req'[r].at \in {"dumping", "insert"} /\ req'[r].file = req[r].file
              /\ req'[r].at = "insert" => v = "whole"
    PROVE  Files'
<1>1. Recorded' \subseteq Recorded /\ Recorded \subseteq BackupRow
  BY RecordedBy
<1>2. PICK f \in Second : f = req[r].file
  BY DatabaseFields
<1>3. files'[f] = v /\ \A s \in Second : s # f => files'[s] = files[s]
  BY <1>2 DEF DatabaseTyped
<1>4. Writes(r) /\ BackingUp(r)
  BY DEF Writes, BackingUp
<1>5. ~Deleting
  BY <1>4 DEF Files
<1>6. ~Deleting'
  BY <1>5 DEF Deleting, At
<1>7. \A q \in DatabaseRequest : Writes(q)' =>
        /\ Writes(q) /\ req'[q].file = req[q].file
        /\ req'[q].at = "insert" => (q = r /\ v = "whole") \/ (q # r /\ req[q].at = "insert")
  BY <1>4 DEF Writes
<1>8. \A q \in DatabaseRequest : Writes(q)' =>
        /\ \A c \in Recorded' : c.file # req'[q].file
        /\ \A p \in DatabaseRequest : Writes(p)' /\ req'[p].file = req'[q].file => p = q
        /\ req'[q].at = "insert" => files'[req'[q].file] = "whole"
  <2> SUFFICES ASSUME NEW q \in DatabaseRequest, Writes(q)'
               PROVE  /\ \A c \in Recorded' : c.file # req'[q].file
                      /\ \A p \in DatabaseRequest :
                            Writes(p)' /\ req'[p].file = req'[q].file => p = q
                      /\ req'[q].at = "insert" => files'[req'[q].file] = "whole"
    OBVIOUS
  <2>1. Writes(q) /\ req'[q].file = req[q].file
    BY <1>7
  <2>2. \A c \in Recorded : c.file # req[q].file
    BY <2>1 DEF Files
  <2>3. \A p \in DatabaseRequest : Writes(p)' /\ req'[p].file = req'[q].file => p = q
    BY <1>7, <2>1 DEF Files
  <2>4. CASE q = r
    <3>1. req'[q].at = "insert" => files'[req'[q].file] = "whole"
      BY <1>2, <1>3, <1>7, <2>1, <2>4
    <3>2. QED
      BY <1>1, <2>1, <2>2, <2>3, <3>1
  <2>5. CASE q # r
    <3>1. req[q].file # f /\ req[q].file \in Second
      BY <1>2, <1>4, <2>1, <2>5, DatabaseFields DEF Files
    <3>2. req'[q].at = "insert" => files[req[q].file] = "whole"
      BY <1>7, <2>1, <2>5 DEF Files
    <3>3. req'[q].at = "insert" => files'[req'[q].file] = "whole"
      BY <1>3, <2>1, <3>1, <3>2
    <3>4. QED
      BY <1>1, <2>1, <2>2, <2>3, <3>3
  <2>6. QED
    BY <2>4, <2>5
<1>9. ASSUME NEW c \in backups'
      PROVE  \/ files'[c.file] = "whole" \/ At("drop")' # {}
             \/ \E q \in DatabaseRequest :
                    req'[q].at \in {"pruned", "unlist"} /\ req'[q].ord = c.ord
  <2>1. c.file # f /\ c.file \in Second
    BY <1>2, <1>4, <1>9, DatabaseFields DEF Files, Recorded, DatabaseTyped
  <2>2. files'[c.file] = files[c.file]
    BY <1>3, <2>1
  <2>3. At("drop") = {}
    BY <1>5 DEF Deleting
  <2>4. \/ files[c.file] = "whole"
        \/ \E q \in DatabaseRequest : req[q].at \in {"pruned", "unlist"} /\ req[q].ord = c.ord
    BY <1>9, <2>3 DEF Files
  <2>5. QED
    BY <2>2, <2>4
<1>10. \A c, d \in Recorded' : c.file = d.file => c = d
  BY <1>1 DEF Files
<1>11. QED
  BY <1>6, <1>8, <1>9, <1>10 DEF Files

\* A backup that is recorded has its file, which nobody else takes away.
LEMMA FilesNext ==
    ASSUME DatabaseTyped, Aged, Files, [DatabaseNext]_databaseVars,
           ~Except({"same", "race", "left", "short", "unpruned"})'
    PROVE  Files'
<1> USE DEF row, cluster, disk
<1>0. {"same", "race", "left", "short", "unpruned"} \cap mishaps' = {}
  BY DEF Except
<1>1. ASSUME NEW r \in DatabaseRequest, Asking(r) PROVE Files'
  <2>1. /\ req[r].at = "idle" /\ \A q \in DatabaseRequest \ {r} : req'[q] = req[q]
        /\ req'[r].old \subseteq Recorded /\ ~BackingUp(r) /\ ~Writes(r)
    BY <1>1, DatabaseAsks DEF BackingUp, Writes
  <2>2. ASSUME UNCHANGED <<files, backups>>, req'[r].at \in {"publish", "sync", "apply", "empty"}
        PROVE  Files'
    <3>1. ~Writes(r)' /\ ~BackingUp(r)'
      BY <2>2 DEF Writes, BackingUp
    <3>2. QED
      BY <2>1, <2>2, <3>1, FilesBy
  <2>3. CASE Delete(r) /\ req'[r].at = "clear"
    <3>1. (\A q \in DatabaseRequest : req[q] = Idle) /\ UNCHANGED <<files, backups>>
      BY <1>0, <2>3 DEF Delete, Mishap, Named
    <3>2. \A q \in DatabaseRequest : req'[q].at \in {"idle", "clear"}
      BY <2>1, <2>3, <3>1, DatabaseIdle
    <3>3. \A q \in DatabaseRequest : ~BackingUp(q)' /\ ~Writes(q)'
      BY <3>2 DEF BackingUp, Writes
    <3>4. At("drop") = {} /\ \A q \in DatabaseRequest : req[q].at \notin {"pruned", "unlist"}
      BY <3>1, DatabaseIdle DEF At
    <3>5. \A b \in backups' : files'[b.file] = "whole"
      BY <3>1, <3>4 DEF Files
    <3>6. \A b, c \in Recorded' : b.file = c.file => b = c
      BY <2>1, <3>1, RecordedBy DEF Files
    <3>7. QED
      BY <3>3, <3>5, <3>6 DEF Files
  <2>4. CASE /\ Backup(r) /\ req'[r].at = "dump" /\ req'[r].file = second
    <3>1. ~Deleting /\ ~Taken(second) /\ UNCHANGED <<files, backups>>
      BY <1>0, <2>4 DEF Backup, Mishap, Named
    <3>2. ~Deleting'
      BY <2>1, <2>4, <3>1 DEF Deleting, At
    <3>3. Recorded' \subseteq Recorded
      BY <2>1, <3>1, RecordedBy
    <3>4. /\ \A b \in Recorded : b.file # second
          /\ \A q \in DatabaseRequest : Writes(q) => req[q].file # second
      BY <3>1 DEF Taken, Recorded, Writes, BackingUp
    <3>5. \A q \in DatabaseRequest \ {r} : Writes(q)' => Writes(q) /\ req'[q] = req[q]
      BY <2>1 DEF Writes
    <3>6. \A q \in DatabaseRequest : Writes(q)' =>
            /\ \A b \in Recorded' : b.file # req'[q].file
            /\ \A p \in DatabaseRequest : Writes(p)' /\ req'[p].file = req'[q].file => p = q
            /\ req'[q].at = "insert" => files'[req'[q].file] = "whole"
      <4>1. ASSUME NEW q \in DatabaseRequest, Writes(q)'
            PROVE  \A b \in Recorded' : b.file # req'[q].file
        BY <2>4, <3>3, <3>4, <3>5, <4>1 DEF Files
      <4>2. ASSUME NEW q \in DatabaseRequest, Writes(q)', NEW p \in DatabaseRequest, Writes(p)',
                   req'[p].file = req'[q].file
            PROVE  p = q
        BY <2>4, <3>4, <3>5, <4>2 DEF Files
      <4>3. ASSUME NEW q \in DatabaseRequest, Writes(q)', req'[q].at = "insert"
            PROVE  files'[req'[q].file] = "whole"
        BY <2>4, <3>1, <3>5, <4>3 DEF Files
      <4>4. QED
        BY <4>1, <4>2, <4>3
    <3>7. At("drop") = {}
      BY <3>1 DEF Deleting
    <3>8. \A b \in backups' : \/ files'[b.file] = "whole"
                              \/ \E q \in DatabaseRequest :
                                    req'[q].at \in {"pruned", "unlist"} /\ req'[q].ord = b.ord
      BY <2>1, <3>1, <3>7 DEF Files
    <3>9. \A b, c \in Recorded' : b.file = c.file => b = c
      BY <3>3 DEF Files
    <3>10. QED
      BY <3>2, <3>6, <3>8, <3>9 DEF Files
  <2>5. ASSUME NEW b \in backups, DeleteBackup(r, b), req'[r].at = "unlist", req'[r].ord = b.ord
        PROVE  Files'
    <3>1. /\ b \in Recorded /\ backups' = backups
          /\ files' \in {files, [files EXCEPT ![b.file] = "none"]}
      BY <2>5 DEF DeleteBackup, Recorded
    <3>2. ~BackingUp(r)'
      BY <2>5 DEF BackingUp
    <3>3. QED
      BY <2>1, <2>5, <3>1, <3>2, FilesTaken
  <2>6. ASSUME NEW watches \in BOOLEAN, Create(r, watches) PROVE UNCHANGED <<files, backups>>
    BY <2>6 DEF Create
  <2>7. ASSUME NEW n \in Retention, Settings(r, n) PROVE UNCHANGED <<files, backups>>
    BY <2>7 DEF Settings
  <2>8. ASSUME NEW b \in backups, Restore(r, b) PROVE UNCHANGED <<files, backups>>
    BY <2>8 DEF Restore
  <2>9. Get(r) => UNCHANGED <<files, backups>>
    BY DEF Get
  <2>10. \/ UNCHANGED <<files, backups>> /\ req'[r].at \in {"publish", "sync", "apply", "empty"}
         \/ Delete(r) /\ req'[r].at = "clear"
         \/ Backup(r) /\ req'[r].at = "dump" /\ req'[r].file = second
         \/ \E b \in backups : DeleteBackup(r, b) /\ req'[r].at = "unlist" /\ req'[r].ord = b.ord
    BY <1>1, <2>6, <2>7, <2>8, <2>9, DatabaseAsks
  <2>11. QED
    BY <2>2, <2>3, <2>4, <2>5, <2>10
<1>2. ASSUME NEW r \in DatabaseRequest,
             Working(r) \/ ApplyFails(r) \/ DumpFails(r) \/ AbandonRequest(r)
      PROVE  Files'
  <2>0. \A q \in DatabaseRequest \ {r} : req'[q] = req[q]
    BY <1>2, DatabaseWorks
  <2>1. ~AbandonRequest(r)
    BY <1>0 DEF AbandonRequest, Mishap
  <2>2. req[r].old \subseteq Recorded /\ Idle.old \subseteq Recorded
    BY DatabaseIdle DEF Recorded
  <2>3. CASE StartDump(r) \/ Dump(r) \/ DumpFails(r)
    <3>1. PICK v : files' = [files EXCEPT ![req[r].file] = v] /\ (Dump(r) => v = "whole")
      BY <2>3 DEF StartDump, Dump, DumpFails
    <3>2. backups' = backups /\ req[r].at \in {"dump", "dumping"}
      BY <2>3 DEF StartDump, Dump, DumpFails
    <3>3. req'[r].old \subseteq Recorded
      <4>1. req'[r] = Idle \/ req'[r].old = req[r].old
        BY <2>3, DatabaseEnd, DatabaseMoveTo, DatabaseStamp
           DEF StartDump, Dump, DumpFails, DatabaseStage
      <4>2. QED
        BY <2>2, <4>1
    <3>4. \/ req'[r].at = "idle"
          \/ /\ req'[r].at \in {"dumping", "insert"} /\ req'[r].file = req[r].file
             /\ req'[r].at = "insert" => v = "whole"
      BY <2>3, <3>1, DatabaseStages
    <3>5. QED
      BY <2>0, <3>1, <3>2, <3>3, <3>4, FilesWritten
  <2>4. CASE InsertBackup(r) /\ Exists
    <3>1. PICK f \in Second : f = req[r].file
      BY DatabaseFields
    <3>2. PICK b : b = [ord |-> req[r].ord, file |-> f]
      OBVIOUS
    <3>3. /\ req[r].at = "insert" /\ backups' = backups \cup {b} /\ b.file = f /\ files' = files
      BY <2>4, <3>1, <3>2 DEF InsertBackup
    <3>4. req'[r].at = "choose" /\ req'[r].old = req[r].old
      BY <2>4, DatabaseMoveTo DEF InsertBackup, After, DatabaseStage
    <3>5. Recorded' \subseteq Recorded \cup {b}
      <4>1. \A q \in DatabaseRequest : req'[q].old = req[q].old
        BY <2>0, <3>4
      <4>2. QED
        BY <3>3, <4>1 DEF Recorded
    <3>6. Writes(r) /\ BackingUp(r)
      BY <3>3 DEF Writes, BackingUp
    <3>7. ~Deleting
      BY <3>6 DEF Files
    <3>8. ~Deleting' /\ At("drop") = {}
      BY <2>0, <3>4, <3>7 DEF Deleting, At
    <3>9. files[f] = "whole" /\ \A c \in Recorded : c.file # f
      BY <3>1, <3>3, <3>6 DEF Files
    <3>10. \A c, d \in Recorded' : c.file = d.file => c = d
      BY <3>3, <3>5, <3>9 DEF Files
    <3>11. \A q \in DatabaseRequest : Writes(q)' =>
              q # r /\ Writes(q) /\ req'[q] = req[q]
      BY <2>0, <3>4 DEF Writes
    <3>12. ASSUME NEW q \in DatabaseRequest, Writes(q)'
           PROVE  /\ \A c \in Recorded' : c.file # req'[q].file
                  /\ \A p \in DatabaseRequest : Writes(p)' /\ req'[p].file = req'[q].file => p = q
                  /\ req'[q].at = "insert" => files'[req'[q].file] = "whole"
      <4>1. q # r /\ Writes(q) /\ req'[q] = req[q]
        BY <3>11, <3>12
      <4>2. req[q].file # f /\ \A c \in Recorded : c.file # req[q].file
        BY <3>1, <3>6, <4>1 DEF Files
      <4>3. \A c \in Recorded' : c.file # req'[q].file
        BY <3>3, <3>5, <4>1, <4>2
      <4>4. \A p \in DatabaseRequest : Writes(p)' /\ req'[p].file = req'[q].file => p = q
        BY <3>11, <4>1 DEF Files
      <4>5. req'[q].at = "insert" => files'[req'[q].file] = "whole"
        BY <3>3, <4>1 DEF Files
      <4>6. QED
        BY <4>3, <4>4, <4>5
    <3>13. \A c \in backups' : \/ files'[c.file] = "whole"
                               \/ \E q \in DatabaseRequest :
                                    req'[q].at \in {"pruned", "unlist"} /\ req'[q].ord = c.ord
      <4>1. ASSUME NEW c \in backups
            PROVE  \/ files'[c.file] = "whole"
                   \/ \E q \in DatabaseRequest :
                        req'[q].at \in {"pruned", "unlist"} /\ req'[q].ord = c.ord
        <5>1. \/ files[c.file] = "whole"
              \/ \E q \in DatabaseRequest : req[q].at \in {"pruned", "unlist"} /\ req[q].ord = c.ord
          BY <3>8 DEF Files
        <5>2. QED
          BY <2>0, <3>3, <5>1
      <4>2. QED
        BY <3>3, <3>9, <4>1
    <3>14. QED
      BY <3>8, <3>10, <3>12, <3>13 DEF Files
  <2>5. CASE RemoveDirectory(r)
    <3>1. /\ req[r].at = "clear" /\ req'[r].at = "drop" /\ req'[r].old = req[r].old
          /\ backups' = backups
      BY <2>5, DatabaseMoveTo DEF RemoveDirectory, DatabaseStage
    <3>2. Deleting
      BY <3>1 DEF Deleting, At
    <3>3. \A q \in DatabaseRequest : ~BackingUp(q)'
      BY <2>0, <3>1, <3>2 DEF Files, BackingUp
    <3>4. \A q \in DatabaseRequest : ~Writes(q)'
      BY <3>3 DEF Writes, BackingUp
    <3>5. At("drop")' # {}
      BY <3>1 DEF At
    <3>6. \A c, d \in Recorded' : c.file = d.file => c = d
      BY <2>0, <2>2, <3>1, RecordedBy DEF Files
    <3>7. QED
      BY <3>3, <3>4, <3>5, <3>6 DEF Files
  <2>6. CASE PruneFile(r) /\ req[r].old # {}
    <3>1. PICK b \in req[r].old :
              /\ req'[r].at = "pruned" /\ req'[r].ord = b.ord /\ req'[r].old = req[r].old \ {b}
              /\ files' = [files EXCEPT ![b.file] = "none"]
      <4>1. PICK b \in req[r].old :
              /\ files' = [files EXCEPT ![b.file] = "none"]
              /\ req' = [req EXCEPT ![r].at = "pruned", ![r].ord = b.ord, ![r].old = @ \ {b}]
        BY <2>6 DEF PruneFile
      <4>2. /\ req'[r].at = "pruned" /\ req'[r].ord = b.ord /\ req'[r].old = req[r].old \ {b}
        BY <4>1, DatabaseFields DEF DatabaseState
      <4>3. QED
        BY <4>1, <4>2
    <3>2. b \in Recorded /\ req'[r].old \subseteq Recorded
      BY <2>2, <3>1
    <3>3. req[r].at = "prune" /\ backups' = backups
      BY <2>6 DEF PruneFile
    <3>4. BackingUp(r)
      BY <3>3 DEF BackingUp
    <3>5. QED
      BY <2>0, <3>1, <3>2, <3>3, <3>4, FilesTaken
  <2>7. CASE ChooseOld(r)
    <3>1. /\ UNCHANGED <<files, backups>> /\ req[r].at = "choose" /\ req'[r].at = "prune"
          /\ req'[r].old = Beyond(req[r].keep)
      BY <2>7, DatabaseFields DEF ChooseOld, DatabaseState
    <3>2. req'[r].old \subseteq Recorded
      BY <3>1 DEF Beyond, Recorded
    <3>3. ~Writes(r)' /\ BackingUp(r)
      BY <3>1 DEF Writes, BackingUp
    <3>4. QED
      BY <2>0, <3>1, <3>2, <3>3, FilesBy
  <2>8. CASE PruneRow(r)
    <3>1. /\ files' = files /\ backups' = backups \ Pruned(r) /\ req[r].at = "pruned"
          /\ req'[r].at = "prune" /\ req'[r].old = req[r].old
      BY <2>8, DatabaseMoveTo DEF PruneRow, DatabaseStage
    <3>2. \A b \in backups' : b.ord # req[r].ord
      BY <3>1 DEF Pruned
    <3>3. ~Writes(r)' /\ BackingUp(r) /\ backups' \subseteq backups
      BY <3>1 DEF Writes, BackingUp
    <3>4. QED
      BY <2>0, <2>2, <3>1, <3>2, <3>3, FilesBy
  <2>9. CASE ApplySettings(r) \/ ApplyFails(r) \/ Empty(r)
    <3>1. /\ UNCHANGED <<files, backups>> /\ req[r].at \in {"apply", "empty"}
          /\ req'[r].at \in {"good", "bad", "load"} /\ req'[r].old = req[r].old
      BY <2>9, DatabaseMoveTo DEF ApplySettings, ApplyFails, Empty, DatabaseStage
    <3>2. ~Writes(r)' /\ ~BackingUp(r)'
      BY <3>1 DEF Writes, BackingUp
    <3>3. QED
      BY <2>0, <2>2, <3>1, <3>2, FilesBy
  <2>10. CASE \/ Publish(r) \/ Sync(r) \/ MarkApplied(r) \/ DropRow(r) \/ Unlist(r) \/ Load(r)
              \/ (InsertBackup(r) /\ ~Exists) \/ (PruneFile(r) /\ req[r].old = {})
    <3>1. End(r)
      BY <2>10 DEF Publish, Sync, MarkApplied, DropRow, Unlist, Load, InsertBackup, PruneFile
    <3>2. req'[r].at = "idle" /\ req'[r].old = {}
      BY <3>1, DatabaseEnd, DatabaseIdle
    <3>3. /\ files' = files /\ backups' \subseteq backups
          /\ req[r].at = "drop" => backups' = {}
          /\ req[r].at \in {"pruned", "unlist"} => backups' = backups \ Pruned(r)
      BY <2>10 DEF Publish, Sync, MarkApplied, DropRow, Unlist, Load, InsertBackup, PruneFile
    <3>4. req[r].at \in {"pruned", "unlist"} => \A b \in backups' : b.ord # req[r].ord
      BY <3>3 DEF Pruned
    <3>5. ~Writes(r)' /\ ~BackingUp(r)'
      BY <3>2 DEF Writes, BackingUp
    <3>6. QED
      BY <2>0, <3>2, <3>3, <3>4, <3>5, FilesBy
  <2>11. QED
    BY <1>2, <2>1, <2>3, <2>4, <2>5, <2>6, <2>7, <2>8, <2>9, <2>10 DEF Working
<1>6. ASSUME NEW r \in DatabaseRequest, GoingAmiss(r) PROVE Files'
  <2>0. /\ UNCHANGED <<files, backups>> /\ \A q \in DatabaseRequest \ {r} : req'[q] = req[q]
    BY <1>6, DatabaseAmiss, DatabaseAmissKeeps
  <2>1. ~DumpShort(r) /\ ~PruneRowLost(r)
    BY <1>0 DEF DumpShort, PruneRowLost, Mishap
  <2>2. req[r].old \subseteq Recorded /\ Idle.old \subseteq Recorded
    BY DatabaseIdle DEF Recorded
  <2>3. ASSUME NEW b \in req[r].old, req[r].at = "prune", req'[r].at = "pruned",
               req'[r].ord = b.ord, req'[r].old = req[r].old \ {b}
        PROVE  Files'
    <3>1. b \in Recorded /\ req'[r].old \subseteq Recorded /\ BackingUp(r)
      BY <2>2, <2>3 DEF BackingUp
    <3>2. QED
      BY <2>0, <2>3, <3>1, FilesTaken
  <2>4. CASE /\ req'[r].old \subseteq Recorded
             /\ \/ req'[r].at = "idle" /\ req[r].at \notin {"drop", "pruned", "unlist"}
                \/ req'[r].at = "drop" /\ req[r].at = "clear"
    <3>1. ~Writes(r)' /\ ~BackingUp(r)'
      BY <2>4 DEF Writes, BackingUp
    <3>2. QED
      BY <2>0, <2>4, <3>1, FilesBy
  <2>5. QED
    BY <1>6, <2>1, <2>2, <2>3, <2>4, DatabaseAmiss, DatabaseIdle
<1>3. CASE \/ Deploy \/ DeployFails \/ Watch \/ WatchTimesOut \/ Mark \/ MarkLost \/ Reap
           \/ ReapFails \/ PodReady \/ PodFails \/ Tick \/ UNCHANGED databaseVars
  <2>1. UNCHANGED <<files, backups, req>>
    BY <1>3, DatabaseTasks
  <2>2. QED
    BY <2>1 DEF Files, Deleting, At, BackingUp, Recorded, Writes
<1>4. CASE DatabaseCrash
  <2>1. /\ \A r \in DatabaseRequest : req'[r] = req[r] /\ req[r] = Idle
        /\ UNCHANGED <<files, backups>>
    BY <1>0, <1>4, DatabaseCrashesIdle
  <2>2. \A r \in DatabaseRequest : ~Writes(r)' /\ ~BackingUp(r)'
    BY <2>1, DatabaseIdle DEF Writes, BackingUp
  <2>3. Recorded' = Recorded
    BY <2>1 DEF Recorded
  <2>4. At("drop") = {} /\ \A r \in DatabaseRequest : req[r].at \notin {"pruned", "unlist"}
    BY <2>1, DatabaseIdle DEF At
  <2>5. \A b \in backups' : files'[b.file] = "whole"
    BY <2>1, <2>4 DEF Files
  <2>6. QED
    BY <2>2, <2>3, <2>5 DEF Files
<1>5. QED
  BY <1>1, <1>2, <1>3, <1>4, <1>6 DEF DatabaseNext

\* A request that neither records nor removes a backup.
LEMMA RetainingBy ==
    ASSUME DatabaseTyped, Retaining, NEW r \in DatabaseRequest,
           \A q \in DatabaseRequest \ {r} : req'[q] = req[q],
           backups' = backups, keep' = keep, BackingUp(r)' => req'[r].keep = keep,
           \A b \in backups : Marked(r, b)' => Marked(r, b) \/ Cardinality(Newer(b)) >= keep
    PROVE  Retaining'
<1>1. \A b : Newer(b)' = Newer(b)
  BY DEF Newer
<1>2. \A q \in DatabaseRequest : BackingUp(q)' => req'[q].keep = keep'
  BY DEF Retaining, BackingUp
<1>3. ASSUME NEW q \in DatabaseRequest, NEW b \in backups', Marked(q, b)'
      PROVE  Cardinality(Newer(b)') >= keep'
  <2>1. CASE q = r
    BY <1>1, <1>3, <2>1 DEF Retaining
  <2>2. CASE q # r
    <3>1. Marked(q, b)
      BY <1>3, <2>2 DEF Marked
    <3>2. QED
      BY <1>1, <1>3, <3>1 DEF Retaining
  <2>3. QED
    BY <2>1, <2>2
<1>4. QED
  BY <1>2, <1>3 DEF Retaining

\* What is about to be removed keeps as many newer backups as are to be kept, also when
\* another backup removes its own.
LEMMA RetainingNext ==
    ASSUME DatabaseTyped, Aged, Stamped, Unlisting, Retaining, [DatabaseNext]_databaseVars,
           ~Except({"unlisted", "resized"})'
    PROVE  Retaining'
<1> USE DEF row, cluster, disk
<1>0. "unlisted" \notin mishaps' /\ "resized" \notin mishaps' /\ mishaps \subseteq mishaps'
  BY MishapsKept DEF Except
<1>1. ASSUME NEW r \in DatabaseRequest, req'[r].old = {}, req'[r].at # "pruned"
      PROVE  \A b \in backups : ~Marked(r, b)'
  BY <1>1 DEF Marked
<1>2. ASSUME NEW r \in DatabaseRequest, Asking(r) PROVE Retaining'
  <2>1. /\ req[r].at = "idle" /\ \A q \in DatabaseRequest \ {r} : req'[q] = req[q]
        /\ req'[r].old = {}
    BY <1>2, DatabaseAsks
  <2>2. ASSUME NEW n \in Retention, Settings(r, n), req'[r].at = "apply" PROVE Retaining'
    <3>1. ~BackingUp(r)' /\ (\A b \in backups : ~Marked(r, b)') /\ backups' = backups
      BY <1>1, <2>1, <2>2 DEF BackingUp, Settings
    <3>2. CASE n = keep
      <4>1. keep' = keep
        BY <2>2, <3>2 DEF Settings
      <4>2. QED
        BY <2>1, <3>1, <4>1, RetainingBy
    <3>3. CASE n # keep
      <4>1. \A q \in DatabaseRequest : ~BackingUp(q)
        BY <1>0, <2>2, <3>3 DEF Settings, Mishap, Named
      <4>2. \A q \in DatabaseRequest : ~BackingUp(q)'
        BY <2>1, <3>1, <4>1 DEF BackingUp
      <4>3. \A q \in DatabaseRequest : req'[q].old = {} /\ req'[q].at # "pruned"
        BY <2>1, <2>2, <4>1 DEF BackingUp, Aged
      <4>4. QED
        BY <4>2, <4>3 DEF Retaining, Marked
    <3>4. QED
      BY <3>2, <3>3
  <2>3. CASE Backup(r) /\ req'[r].at = "dump" /\ req'[r].keep = keep
    <3>1. keep' = keep /\ backups' = backups /\ \A b \in backups : ~Marked(r, b)'
      BY <1>1, <2>1, <2>3 DEF Backup
    <3>2. QED
      BY <2>1, <2>3, <3>1, RetainingBy
  <2>4. ASSUME NEW b \in backups, DeleteBackup(r, b) PROVE FALSE
    BY <1>0, <2>4 DEF DeleteBackup, Mishap
  <2>5. ASSUME keep' = keep, backups' = backups,
               req'[r].at \in {"publish", "sync", "clear", "empty"}
        PROVE  Retaining'
    <3>1. ~BackingUp(r)' /\ \A b \in backups : ~Marked(r, b)'
      BY <1>1, <2>1, <2>5 DEF BackingUp
    <3>2. QED
      BY <2>1, <2>5, <3>1, RetainingBy
  <2>6. ASSUME NEW watches \in BOOLEAN, Create(r, watches) PROVE UNCHANGED <<keep, backups>>
    BY <2>6 DEF Create
  <2>7. ASSUME NEW b \in backups, Restore(r, b) PROVE UNCHANGED <<keep, backups>>
    BY <2>7 DEF Restore
  <2>8. Get(r) \/ Delete(r) => UNCHANGED <<keep, backups>>
    BY DEF Get, Delete
  <2>9. \/ UNCHANGED <<keep, backups>> /\ req'[r].at \in {"publish", "sync", "clear", "empty"}
        \/ \E n \in Retention : Settings(r, n) /\ req'[r].at = "apply"
        \/ Backup(r) /\ req'[r].at = "dump" /\ req'[r].keep = keep
        \/ \E b \in backups : DeleteBackup(r, b)
    BY <1>2, <2>6, <2>7, <2>8, DatabaseAsks
  <2>10. QED
    BY <2>2, <2>3, <2>4, <2>5, <2>9
<1>3. ASSUME NEW r \in DatabaseRequest,
             Working(r) \/ ApplyFails(r) \/ DumpFails(r) \/ AbandonRequest(r)
      PROVE  Retaining'
  <2>0. \A q \in DatabaseRequest \ {r} : req'[q] = req[q]
    BY <1>3, DatabaseWorks
  <2>1. ~Unlist(r)
    BY <1>0 DEF Unlist, Unlisting, At
  <2>2. /\ \A b \in backups : b \in BackupRow /\ b.ord \in Nat
        /\ IsFiniteSet(backups) /\ made \in Nat /\ keep \in Nat
    BY DatabaseFields DEF DatabaseTyped
  <2>3. \A b : /\ IsFiniteSet(Newer(b)) /\ IsFiniteSet(Newer(b)')
               /\ Cardinality(Newer(b)) \in Nat /\ Cardinality(Newer(b)') \in Nat
    <3>1. \A b : Newer(b) \subseteq backups /\ Newer(b)' \subseteq backups'
      BY DEF Newer
    <3>2. IsFiniteSet(backups')
      BY DatabaseTypedNext DEF DatabaseTyped
    <3>3. QED
      BY <2>2, <3>1, <3>2, FS_Subset, FS_CardinalityType
  <2>4. CASE InsertBackup(r) /\ Exists
    <3>1. PICK n : n = [ord |-> req[r].ord, file |-> req[r].file]
      OBVIOUS
    <3>2. /\ backups' = backups \cup {n} /\ n.ord = req[r].ord /\ keep' = keep
          /\ req[r].at = "insert"
      BY <2>4, <3>1 DEF InsertBackup
    <3>3. /\ req'[r].at = "choose" /\ req'[r].old = req[r].old /\ req'[r].keep = req[r].keep
      BY <2>4, DatabaseMoveTo DEF InsertBackup, After, DatabaseStage
    <3>4. req'[r].old = {}
      BY <3>2, <3>3 DEF Aged
    <3>5. \A q \in DatabaseRequest : BackingUp(q)' => req'[q].keep = keep'
      <4>1. req[r].keep = keep
        BY <3>2 DEF Retaining, BackingUp
      <4>2. QED
        BY <2>0, <3>2, <3>3, <4>1 DEF Retaining, BackingUp
    <3>6. ASSUME NEW q \in DatabaseRequest, NEW b \in backups', Marked(q, b)'
          PROVE  Cardinality(Newer(b)') >= keep'
      <4>1. q # r /\ Marked(q, b)
        BY <2>0, <3>3, <3>4, <3>6 DEF Marked
      <4>2. b.ord # req[r].ord
        <5>1. CASE \E o \in req[q].old : o.ord = b.ord
          BY <3>2, <5>1 DEF Stamped, Recorded
        <5>2. CASE req[q].at = "pruned" /\ req[q].ord = b.ord
          BY <3>2, <4>1, <5>2 DEF Stamped
        <5>3. QED
          BY <4>1, <5>1, <5>2 DEF Marked
      <4>3. b # n
        BY <3>2, <4>2
      <4>4. b \in backups /\ Cardinality(Newer(b)) >= keep
        BY <3>2, <3>6, <4>1, <4>3 DEF Retaining
      <4>5. Newer(b) \subseteq Newer(b)'
        BY <3>2 DEF Newer
      <4>6. Cardinality(Newer(b)) <= Cardinality(Newer(b)')
        BY <2>3, <4>5, FS_Subset
      <4>7. QED
        BY <2>2, <2>3, <3>2, <4>4, <4>6
    <3>7. QED
      BY <3>5, <3>6 DEF Retaining
  <2>5. CASE PruneRow(r)
    <3>1. /\ backups' = backups \ Pruned(r) /\ keep' = keep /\ req[r].at = "pruned"
          /\ req'[r].at = "prune" /\ req'[r].old = req[r].old /\ req'[r].keep = req[r].keep
      BY <2>5, DatabaseMoveTo DEF PruneRow, DatabaseStage
    <3>2. \A q \in DatabaseRequest : BackingUp(q)' => req'[q].keep = keep'
      BY <2>0, <3>1 DEF Retaining, BackingUp
    <3>3. ASSUME NEW q \in DatabaseRequest, NEW b \in backups', Marked(q, b)'
          PROVE  Cardinality(Newer(b)') >= keep'
      <4>1. b \in backups /\ Marked(q, b)
        BY <2>0, <3>1, <3>3 DEF Marked
      <4>2. Cardinality(Newer(b)) >= keep
        BY <4>1 DEF Retaining
      <4>3. CASE Newer(b) \cap Pruned(r) = {}
        <5>1. Newer(b)' = Newer(b)
          BY <3>1, <4>3 DEF Newer
        <5>2. QED
          BY <3>1, <4>2, <5>1
      <4>4. CASE Newer(b) \cap Pruned(r) # {}
        <5>1. PICK c \in backups : c.ord > b.ord /\ c.ord = req[r].ord
          BY <4>4 DEF Newer, Pruned
        <5>2. Cardinality(Newer(c)) >= keep
          BY <3>1, <5>1 DEF Retaining, Marked
        <5>3. Newer(c) \subseteq Newer(b)'
          <6>1. ASSUME NEW d \in Newer(c) PROVE d \in Newer(b)'
            <7>1. d \in backups /\ d.ord > c.ord
              BY <6>1 DEF Newer
            <7>2. d.ord # req[r].ord /\ d.ord > b.ord
              BY <2>2, <4>1, <5>1, <7>1
            <7>3. QED
              BY <3>1, <7>1, <7>2 DEF Newer, Pruned
          <6>2. QED
            BY <6>1
        <5>4. Cardinality(Newer(c)) <= Cardinality(Newer(b)')
          BY <2>3, <5>3, FS_Subset
        <5>5. QED
          BY <2>2, <2>3, <3>1, <5>2, <5>4
      <4>5. QED
        BY <4>3, <4>4
    <3>4. QED
      BY <3>2, <3>3 DEF Retaining
  <2>6. CASE ChooseOld(r)
    <3>1. /\ UNCHANGED <<keep, backups>> /\ req[r].at = "choose" /\ req'[r].at = "prune"
          /\ req'[r].keep = req[r].keep /\ req'[r].old = Beyond(req[r].keep)
      BY <2>6, DatabaseFields DEF ChooseOld, DatabaseState
    <3>2. req[r].keep = keep
      BY <3>1 DEF Retaining, BackingUp
    <3>3. \A b \in backups : Marked(r, b)' => Cardinality(Newer(b)) >= keep
      <4> SUFFICES ASSUME NEW b \in backups, Marked(r, b)' PROVE Cardinality(Newer(b)) >= keep
        OBVIOUS
      <4>1. PICK o \in Beyond(keep) : o.ord = b.ord
        BY <3>1, <3>2 DEF Marked
      <4>2. o \in backups /\ Cardinality(Newer(o)) >= keep
        BY DEF Beyond
      <4>3. o = b
        BY <4>1, <4>2 DEF Aged
      <4>4. QED
        BY <4>2, <4>3
    <3>4. QED
      BY <2>0, <3>1, <3>2, <3>3, RetainingBy
  <2>7. CASE PruneFile(r) /\ req[r].old # {}
    <3>1. PICK o \in req[r].old :
              req' = [req EXCEPT ![r].at = "pruned", ![r].ord = o.ord, ![r].old = @ \ {o}]
      BY <2>7 DEF PruneFile
    <3>2. /\ req'[r].at = "pruned" /\ req'[r].ord = o.ord /\ req'[r].old = req[r].old \ {o}
          /\ req'[r].keep = req[r].keep /\ req[r].at = "prune" /\ UNCHANGED <<keep, backups>>
      BY <2>7, <3>1, DatabaseFields DEF DatabaseState, PruneFile
    <3>3. req[r].keep = keep
      BY <3>2 DEF Retaining, BackingUp
    <3>4. \A b \in backups : Marked(r, b)' => Marked(r, b)
      BY <3>1, <3>2 DEF Marked
    <3>5. QED
      BY <2>0, <3>2, <3>3, <3>4, RetainingBy
  <2>8. CASE DropRow(r)
    <3>1. req'[r] = Idle /\ keep' = keep /\ backups' = {}
      BY <2>8, DatabaseEnd DEF DropRow
    <3>2. \A q \in DatabaseRequest : BackingUp(q)' => req'[q].keep = keep'
      BY <2>0, <3>1, DatabaseIdle DEF Retaining, BackingUp
    <3>3. QED
      BY <3>1, <3>2 DEF Retaining
  <2>9. CASE \/ Publish(r) \/ Sync(r) \/ MarkApplied(r) \/ DumpFails(r) \/ Load(r)
             \/ AbandonRequest(r)
             \/ (InsertBackup(r) /\ ~Exists) \/ (PruneFile(r) /\ req[r].old = {})
    <3>1. End(r) /\ UNCHANGED <<keep, backups>>
      BY <2>9 DEF Publish, Sync, MarkApplied, DumpFails, Load, AbandonRequest, InsertBackup,
         PruneFile
    <3>2. req'[r].at = "idle" /\ req'[r].old = {}
      BY <3>1, DatabaseEnd, DatabaseIdle
    <3>3. ~BackingUp(r)' /\ \A b \in backups : ~Marked(r, b)'
      BY <1>1, <3>2 DEF BackingUp
    <3>4. QED
      BY <2>0, <3>1, <3>3, RetainingBy
  <2>12. CASE Dump(r)
    <3>1. /\ UNCHANGED <<keep, backups>> /\ req'[r].keep = req[r].keep /\ req'[r].at = "insert"
          /\ req'[r].old = req[r].old /\ req[r].at = "dumping"
      BY <2>12, DatabaseStamp DEF Dump
    <3>2. req'[r].keep = keep /\ \A b \in backups : Marked(r, b)' => Marked(r, b)
      BY <3>1 DEF Retaining, BackingUp, Marked
    <3>3. QED
      BY <2>0, <3>1, <3>2, RetainingBy
  <2>10. CASE \/ ApplySettings(r) \/ ApplyFails(r) \/ RemoveDirectory(r) \/ StartDump(r)
              \/ Empty(r)
    <3>1. /\ UNCHANGED <<keep, backups>> /\ req'[r].keep = req[r].keep
          /\ req'[r].old = req[r].old /\ req'[r].at # "pruned"
          /\ BackingUp(r)' => BackingUp(r)
      <4>1. PICK l \in {"good", "bad", "drop", "dumping", "load"} : MoveTo(r, l)
        BY <2>10 DEF ApplySettings, ApplyFails, RemoveDirectory, StartDump, Empty
      <4>2. l = "dumping" => StartDump(r)
        <5>1. req'[r].at = l
          BY <4>1, DatabaseMoveTo DEF DatabaseStage
        <5>2. QED
          BY <2>10, <5>1, DatabaseStages
      <4>3. StartDump(r) => req[r].at = "dump"
        BY DEF StartDump
      <4>4. /\ req'[r].keep = req[r].keep /\ req'[r].old = req[r].old /\ req'[r].at = l
        BY <4>1, DatabaseMoveTo DEF DatabaseStage
      <4>5. UNCHANGED <<keep, backups>>
        BY <2>10 DEF ApplySettings, ApplyFails, RemoveDirectory, StartDump, Empty
      <4>6. QED
        BY <4>2, <4>3, <4>4, <4>5 DEF BackingUp
    <3>2. BackingUp(r)' => req'[r].keep = keep
      BY <3>1 DEF Retaining
    <3>3. \A b \in backups : Marked(r, b)' => Marked(r, b)
      BY <3>1 DEF Marked
    <3>4. QED
      BY <2>0, <3>1, <3>2, <3>3, RetainingBy
  <2>11. QED
    BY <1>3, <2>1, <2>4, <2>5, <2>6, <2>7, <2>8, <2>9, <2>10, <2>12 DEF Working
<1>7. ASSUME NEW r \in DatabaseRequest, GoingAmiss(r) PROVE Retaining'
  <2>1. UNCHANGED <<keep, backups>> /\ \A q \in DatabaseRequest \ {r} : req'[q] = req[q]
    BY <1>7, DatabaseAmiss, DatabaseAmissKeeps
  <2>2. CASE req'[r] = Idle
    <3>1. ~BackingUp(r)' /\ \A b \in backups : ~Marked(r, b)'
      BY <2>2, DatabaseIdle DEF BackingUp, Marked
    <3>2. QED
      BY <2>1, <3>1, RetainingBy
  <2>3. CASE /\ req'[r].keep = req[r].keep /\ req'[r].old = req[r].old
             /\ \/ req[r].at = "dumping" /\ req'[r].at = "insert"
                \/ req[r].at = "clear" /\ req'[r].at = "drop"
                \/ req[r].at = "pruned" /\ req'[r].at = "prune"
    <3>1. BackingUp(r)' => req'[r].keep = keep
      BY <2>3 DEF Retaining, BackingUp
    <3>2. \A b \in backups : Marked(r, b)' => Marked(r, b)
      BY <2>3 DEF Marked
    <3>3. QED
      BY <2>1, <3>1, <3>2, RetainingBy
  <2>4. ASSUME NEW o \in req[r].old, req[r].at = "prune", req'[r].at = "pruned",
               req'[r].ord = o.ord, req'[r].old = req[r].old \ {o}, req'[r].keep = req[r].keep
        PROVE  Retaining'
    <3>1. req'[r].keep = keep
      BY <2>4 DEF Retaining, BackingUp
    <3>2. \A b \in backups : Marked(r, b)' => Marked(r, b)
      BY <2>4 DEF Marked
    <3>3. QED
      BY <2>1, <3>1, <3>2, RetainingBy
  <2>5. QED
    BY <1>7, <2>2, <2>3, <2>4, DatabaseAmiss
<1>4. CASE \/ Deploy \/ DeployFails \/ Watch \/ WatchTimesOut \/ Mark \/ MarkLost \/ Reap
           \/ ReapFails \/ PodReady \/ PodFails \/ Tick \/ UNCHANGED databaseVars
  <2>1. UNCHANGED <<keep, backups, req>>
    BY <1>4, DatabaseTasks
  <2>2. QED
    BY <2>1 DEF Retaining, BackingUp, Marked, Newer
<1>5. CASE DatabaseCrash
  <2>1. /\ \A r \in DatabaseRequest : req'[r].at = "idle" /\ req'[r].old = {}
        /\ UNCHANGED <<keep, backups>>
    BY <1>5, DatabaseIdle DEF DatabaseCrash
  <2>2. QED
    BY <2>1 DEF Retaining, BackingUp, Marked
<1>6. QED
  BY <1>2, <1>3, <1>4, <1>5, <1>7 DEF DatabaseNext

LEMMA DatabaseInvInit == DatabaseInit => DatabaseInv
<1> SUFFICES ASSUME DatabaseInit PROVE DatabaseInv
  OBVIOUS
<1>1. /\ \A r \in DatabaseRequest : req[r] = Idle /\ req[r].at = "idle" /\ req[r].old = {}
      /\ task.at = "none" /\ ~reaper /\ data = "whole"
  BY DatabaseIdle DEF DatabaseInit
<1>2. \A l : l # "idle" => At(l) = {}
  BY <1>1 DEF At
<1>3. ~Deleting /\ \A r \in DatabaseRequest : ~Writes(r) /\ ~BackingUp(r)
  BY <1>1, <1>2 DEF Deleting, Writes, BackingUp
<1>4. Failing /\ Unlisting
  BY <1>1, <1>2 DEF Failing, Unlisting, DatabaseInit
<1>5. Files
  <2>1. Recorded = backups
    BY <1>1 DEF Recorded
  <2>2. 0 \in Second
    BY DatabaseConstantsOK DEF Second
  <2>3. /\ \A b \in backups : files[b.file] = "whole"
        /\ \A b, c \in backups : b = c
    BY <2>2 DEF DatabaseInit, NoFiles
  <2>4. QED
    BY <1>3, <2>1, <2>3 DEF Files
<1>6. Partial
  BY DEF Partial, DatabaseInit, NoFiles
<1>7. Filling
  BY <1>1, <1>2 DEF Filling
<1>8. Going /\ Stands
  <2>1. status \in {"none", "running"} /\ (status = "running" => pod # "none")
    BY DEF DatabaseInit
  <2>2. QED
    BY <1>1, <1>2, <1>3, <2>1 DEF Going, Stands
<1>9. Retaining
  BY <1>1, <1>3 DEF Retaining, Marked
<1>11. Stamped
  BY <1>1 DEF Stamped
<1>10. QED
  BY <1>11, <1>4, <1>5, <1>6, <1>7, <1>8, <1>9, DatabaseTypedInit, AgedInit DEF DatabaseInv

LEMMA DatabaseInvNext == DatabaseInv /\ [DatabaseNext]_databaseVars => DatabaseInv'
<1> SUFFICES ASSUME DatabaseInv, [DatabaseNext]_databaseVars PROVE DatabaseInv'
  OBVIOUS
<1>1. DatabaseTyped /\ Aged /\ Stamped /\ Failing /\ Unlisting
  BY DEF DatabaseInv
<1>2. DatabaseTyped' /\ Aged' /\ Stamped' /\ Failing' /\ Unlisting'
  BY <1>1, DatabaseTypedNext, AgedNext, StampedNext, FailingNext, UnlistingNext
<1>3. \A names : ~Except(names)' => ~Except(names)
  BY MishapsKept
<1>4. ~Except({"same", "race", "left", "short", "unpruned"})' => Files'
  BY <1>1, <1>3, FilesNext DEF DatabaseInv
<1>5. ~Except({"left", "short", "remnant"})' => Partial'
  BY <1>1, <1>3, PartialNext DEF DatabaseInv
<1>6. ~Except({"restores", "during", "pulled", "left", "short", "remnant", "unloaded"})' => Filling'
  <2> SUFFICES ASSUME ~Except({"restores", "during", "pulled", "left", "short", "remnant",
                               "unloaded"})'
               PROVE  Filling'
    OBVIOUS
  <2>1. ~Except({"left", "short", "remnant"})
    BY <1>3 DEF Except
  <2>2. QED
    BY <1>1, <1>3, <2>1, FillingNext DEF DatabaseInv
<1>7. ~Except({"race", "left"})' => Going' /\ Stands'
  BY <1>1, <1>3, GoingNext, StandsNext DEF DatabaseInv
<1>8. ~Except({"unlisted", "resized"})' => Retaining'
  BY <1>1, <1>3, RetainingNext DEF DatabaseInv
<1>9. QED
  BY <1>2, <1>4, <1>5, <1>6, <1>7, <1>8 DEF DatabaseInv

LEMMA DatabaseInvAlways == DatabaseSpec => []DatabaseInv
BY DatabaseInvInit, DatabaseInvNext, PTL DEF DatabaseSpec

\* Every variable of a managed database keeps its type; no two backups are of one age, and
\* those of a database that is gone are gone with it.
THEOREM DatabaseTypeCorrect == DatabaseSpec => []DatabaseTypeOK
<1>1. DatabaseInv => DatabaseTypeOK
  BY DEF DatabaseInv, DatabaseTyped, Aged, BackupRow, DatabaseTypeOK
<1>2. QED
  BY <1>1, DatabaseInvAlways, PTL

\* However backups, their retention and deletions of single ones overlap, a backup that is
\* listed has its whole file when nobody is at work (perform_database_backup), unless two
\* began in one second, one met the deletion of the database or came out short, the DELETE of
\* its row failed unseen, or a request was cut off.
THEOREM RowsHaveFilesAlways == DatabaseSpec => []RowsHaveFiles
<1>1. DatabaseInv => RowsHaveFiles
  <2> SUFFICES ASSUME DatabaseInv, Quiet,
                      ~Except({"same", "during", "race", "left", "short", "unpruned"})
               PROVE  \A b \in backups : files[b.file] = "whole"
    BY DEF RowsHaveFiles
  <2>1. Files
    BY DEF DatabaseInv, Except
  <2>2. \A r \in DatabaseRequest : req[r].at = "idle"
    BY DatabaseIdle DEF Quiet
  <2>3. At("drop") = {}
    BY <2>2 DEF At
  <2>4. QED
    BY <2>1, <2>2, <2>3 DEF Files
<1>2. QED
  BY <1>1, DatabaseInvAlways, PTL

\* What a restore empties it also fills (restore_sql_via_job): the data is whole when nobody
\* is at work, unless restores met one another or a backup, their file was short, the remnant
\* of a failed dump or pulled away, the engine hid that loading failed, or one was cut off.
THEOREM DataIsWholeAlways == DatabaseSpec => []DataIsWhole
<1>1. DatabaseInv => DataIsWhole
  <2> SUFFICES ASSUME DatabaseInv, Quiet,
                      ~Except({"restores", "same", "during", "pulled", "race", "left",
                               "short", "remnant", "unloaded"})
               PROVE  data = "whole"
    BY DEF DataIsWhole
  <2>1. Filling
    BY DEF DatabaseInv, Except
  <2>2. At("load") = {}
    BY DatabaseIdle DEF Quiet, At
  <2>3. QED
    BY <2>1, <2>2 DEF Filling
<1>2. QED
  BY <1>1, DatabaseInvAlways, PTL

\* The row tells the truth of the StatefulSet once everything is done (update_db_status and
\* its callers), but for a failure that could not be written, and a deletion leaves neither pod
\* nor files (delete_database), but for a directory that could not be removed, unless it met
\* another request or the provisioning, Kubernetes did not answer, or it was cut off.
THEOREM RowIsTrueAlways == DatabaseSpec => []RowIsTrue
<1>1. DatabaseInv => RowIsTrue
  <2> SUFFICES ASSUME DatabaseInv, Settled, ~Except({"race", "left"}) PROVE
        /\ status = "running" => pod # "none"
        /\ status = "provisioning" => pod # "none" \/ "unmarked" \in mishaps
        /\ status = "failed" => "failure" \in mishaps
        /\ status = "gone" => pod = "none" /\ ("remains" \in mishaps \/ files = NoFiles)
    BY DEF RowIsTrue, StatusIsTrue, GoneIsGone, Except
  <2>1. Going /\ Stands /\ Failing
    BY DEF DatabaseInv
  <2>2. task.at = "none" /\ ~reaper /\ \A r \in DatabaseRequest : req[r].at = "idle"
    BY DatabaseIdle DEF Settled, Quiet
  <2>3. ~Deleting /\ At("publish") = {}
    BY <2>2 DEF Deleting, At
  <2>4. /\ status = "running" => pod # "none"
        /\ status = "provisioning" => pod # "none" \/ "unmarked" \in mishaps
    BY <2>1, <2>2, <2>3 DEF Stands
  <2>5. status = "failed" => "failure" \in mishaps
    BY <2>1 DEF Failing
  <2>6. status = "gone" => pod = "none" /\ ("remains" \in mishaps \/ files = NoFiles)
    BY <2>1, <2>2 DEF Going
  <2>7. QED
    BY <2>4, <2>5, <2>6
<1>2. QED
  BY <1>1, DatabaseInvAlways, PTL

\* Retention removes a backup only while as many newer ones are listed as were to be kept when
\* the backup began (perform_database_backup), also while another does the same, unless single
\* backups are deleted or the retention is changed meanwhile.
THEOREM NewestKeptAlways == DatabaseSpec => NewestKept
<1> DEFINE Step == \A r \in DatabaseRequest :
              req[r].at = "prune" /\ req'[r].at = "pruned" =>
                \/ \A b \in backups : b.ord = req'[r].ord => Cardinality(Newer(b)) >= req[r].keep
                \/ Except({"unlisted", "resized"})
<1>1. DatabaseInv /\ [DatabaseNext]_databaseVars => Step
  <2> SUFFICES ASSUME DatabaseInv, [DatabaseNext]_databaseVars, NEW r \in DatabaseRequest,
                      req[r].at = "prune", req'[r].at = "pruned",
                      ~Except({"unlisted", "resized"}),
                      NEW b \in backups, b.ord = req'[r].ord
               PROVE  Cardinality(Newer(b)) >= req[r].keep
    OBVIOUS
  <2>1. Retaining /\ DatabaseTyped
    BY DEF DatabaseInv
  <2>2. (PruneFile(r) /\ req[r].old # {}) \/ PruneKeepsFile(r)
    <3>1. ASSUME NEW q \in DatabaseRequest,
                 \/ Asking(q) \/ Working(q) \/ ApplyFails(q) \/ DumpFails(q) \/ AbandonRequest(q)
                 \/ GoingAmiss(q)
          PROVE  q = r
      BY <2>1, <3>1, DatabaseAsks, DatabaseWorks, DatabaseAmiss
    <3>2. ~Asking(r)
      BY <2>1, DatabaseAsks
    <3>3. Working(r) \/ ApplyFails(r) \/ DumpFails(r) \/ AbandonRequest(r)
          => PruneFile(r) /\ req[r].old # {}
      BY <2>1, DatabaseWorks, DatabaseIdle
    <3>7. GoingAmiss(r) => PruneKeepsFile(r)
      BY <2>1, DatabaseAmiss, DatabaseIdle
    <3>4. ~DatabaseCrash
      BY DatabaseIdle DEF DatabaseCrash
    <3>5. ~(\/ Deploy \/ DeployFails \/ Watch \/ WatchTimesOut \/ Mark \/ MarkLost \/ Reap
            \/ ReapFails \/ PodReady \/ PodFails \/ Tick \/ UNCHANGED databaseVars)
      BY DatabaseTasks
    <3>6. QED
      BY <3>1, <3>2, <3>3, <3>4, <3>5, <3>7 DEF DatabaseNext
  <2>3. PICK o \in req[r].old :
            req' = [req EXCEPT ![r].at = "pruned", ![r].ord = o.ord, ![r].old = @ \ {o}]
    BY <2>2 DEF PruneFile, PruneKeepsFile
  <2>4. b.ord = o.ord
    BY <2>1, <2>3, DatabaseFields DEF DatabaseState
  <2>5. Cardinality(Newer(b)) >= keep
    BY <2>1, <2>3, <2>4 DEF Retaining, Marked
  <2>6. req[r].keep = keep
    BY <2>1 DEF Retaining, BackingUp
  <2>7. QED
    BY <2>5, <2>6
<1>2. QED
  BY <1>1, DatabaseInvAlways, PTL DEF DatabaseSpec, NewestKept
=============================================================================
