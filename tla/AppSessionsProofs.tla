-------------------------- MODULE AppSessionsProofs --------------------------
(***************************************************************************)
(* Types, the single use of refresh tokens, and the end of sessions, for   *)
(* any number of services, requests, names of variables and events.        *)
(***************************************************************************)
EXTENDS AppSessions, TLAPS

Stage == SigningIn \cup Ending \cup
         {"idle", "appid", "mint", "unpublish", "drop", "keyvar", "unkeyvar", "answer"}
Kinds == {"none", "signin", "integrate", "verify", "create", "rotate"}
Req == [at : Stage, s : SUBSET Service, kind : Kinds,
        token : Nat, session : Nat, pw : Nat, value : Nat, key : Key]

\* The requests, of which TypeOK says nothing: one at work is about one service
ReqOK ==
    /\ made \in Nat
    /\ req \in [Request -> Req]
    /\ \A r \in Request : req[r].at # "idle" =>
        \E s \in used : req[r].s = {s}

Typed == TypeOK /\ ReqOK

-----------------------------------------------------------------------------
(***************************************************************************)
(* Types.                                                                  *)
(***************************************************************************)

LEMMA IdleType == Idle \in Req
BY SessionConstantsOK DEF Idle, Req, Stage, Kinds

LEMMA ServiceOf ==
    ASSUME NEW r \in Request, NEW s \in Service, req[r].s = {s}
    PROVE  S(r) = s
BY DEF S

\* The service of a request at work
LEMMA ServiceType ==
    ASSUME Typed, NEW r \in Request, req[r].at # "idle"
    PROVE  S(r) \in Service /\ S(r) \in used /\ req[r].s = {S(r)}
<1>1. PICK s \in used : req[r].s = {s}
  BY DEF Typed, ReqOK
<1>2. s \in Service
  BY DEF Typed, TypeOK
<1> QED
  BY <1>1, <1>2, ServiceOf

LEMMA TypeInit == Init => Typed
<1> SUFFICES ASSUME Init PROVE Typed
  OBVIOUS
<1> USE DEF Init
<1>1. TypeOK
  <2>1. CASE live = {} /\ keys = {}
    BY <2>1, SessionConstantsOK DEF TypeOK, NoUser, Free
  <2>2. ASSUME NEW s \in Service, live = {s}, keys = {[s |-> s, id |-> 0]}
        PROVE  TypeOK
    BY <2>2, SessionConstantsOK DEF TypeOK, NoUser, Free
  <2> QED
    BY <2>1, <2>2
<1>2. ReqOK
  BY IdleType DEF ReqOK, Idle
<1> QED
  BY <1>1, <1>2 DEF Typed

\* A request begins: it is about a service that there is
LEMMA BeginTyped ==
    ASSUME Typed, NEW r \in Request, NEW s \in Service, NEW state \in Req,
           Begin(r, s, state), s \in used', used \subseteq used', made' \in Nat
    PROVE  ReqOK' /\ events' \in 0..MaxEvents
<1>1. req' = [req EXCEPT ![r] = [state EXCEPT !.s = {s}]]
  BY DEF Begin
<1>2. [state EXCEPT !.s = {s}] \in Req /\ [state EXCEPT !.s = {s}].s = {s}
  BY DEF Req
<1>3. req' \in [Request -> Req]
  BY <1>1, <1>2 DEF Typed, ReqOK
<1>4. \A q \in Request : req'[q].at # "idle" => \E x \in used' : req'[q].s = {x}
  BY <1>1, <1>2 DEF Typed, ReqOK
<1>5. events' \in 0..MaxEvents
  BY SessionConstantsOK DEF Begin, Event, Typed, TypeOK
<1> QED
  BY <1>3, <1>4, <1>5 DEF ReqOK

\* A request goes on, or ends
LEMMA GotoTyped ==
    ASSUME Typed, NEW r \in Request, req[r].at # "idle", NEW state \in Req,
           state.s = req[r].s, req' = [req EXCEPT ![r] = state],
           used' = used, made' \in Nat
    PROVE  ReqOK'
BY DEF Typed, ReqOK

LEMMA EndTyped ==
    ASSUME Typed, NEW r \in Request, End(r), used' = used, made' \in Nat
    PROVE  ReqOK'
BY IdleType DEF Typed, ReqOK, End, Idle

LEMMA GoOnTyped ==
    ASSUME Typed, NEW r \in Request, req[r].at # "idle", NEW l \in Stage, Goto(r, l),
           used' = used, made' \in Nat
    PROVE  ReqOK'
<1> DEFINE state == [req[r] EXCEPT !.at = l]
<1>1. req[r] \in Req
  BY DEF Typed, ReqOK
<1>2. state \in Req /\ state.s = req[r].s
  BY <1>1 DEF Req
<1>3. req' = [req EXCEPT ![r] = state]
  BY DEF Goto
<1> QED
  BY <1>2, <1>3, GotoTyped

LEMMA FurtherTyped ==
    ASSUME Typed, NEW r \in Request, req[r].at # "idle", Further(r),
           used' = used, made' \in Nat
    PROVE  ReqOK'
<1>a. req[r] \in Req
  BY DEF Typed, ReqOK
<1>1. CASE End(r)
  BY <1>1, EndTyped
<1>2. ASSUME NEW l \in Stage, NEW k \in Key, req' = [req EXCEPT ![r].at = l, ![r].key = k]
      PROVE  ReqOK'
  <2> DEFINE state == [req[r] EXCEPT !.at = l, !.key = k]
  <2>1. state \in Req /\ state.s = req[r].s
    BY <1>a DEF Req
  <2> QED
    BY <1>2, <2>1, GotoTyped
<1> QED
  BY <1>1, <1>2, SessionConstantsOK DEF Further, Stage, SigningIn

LEMMA KnownTyped ==
    ASSUME Typed, NEW r \in Request, req[r].at # "idle", NEW v \in Nat, Known(r, v),
           used' = used, made' \in Nat
    PROVE  ReqOK'
<1>a. req[r] \in Req
  BY DEF Typed, ReqOK
<1>1. CASE req' = [req EXCEPT ![r].at = "issue", ![r].value = v]
  <2> DEFINE state == [req[r] EXCEPT !.at = "issue", !.value = v]
  <2>1. state \in Req /\ state.s = req[r].s
    BY <1>a DEF Req, Stage, SigningIn
  <2> QED
    BY <1>1, <2>1, GotoTyped
<1>2. CASE req' = [req EXCEPT ![r].at = "appid", ![r].key = AppId]
  <2> DEFINE state == [req[r] EXCEPT !.at = "appid", !.key = AppId]
  <2>1. state \in Req /\ state.s = req[r].s
    BY <1>a, SessionConstantsOK DEF Req, Stage
  <2> QED
    BY <1>2, <2>1, GotoTyped
<1> QED
  BY <1>1, <1>2, FurtherTyped, EndTyped DEF Known

\* A variable that somebody else takes over
LEMMA TakeOverTyped ==
    ASSUME Typed, NEW k \in Key, TakeOver(k)
    PROVE  pool' \in [Key -> {Free} \cup [of : {{s} : s \in Service}, value : Nat]]
BY DEF TakeOver, Typed, TypeOK

\* The steps of requests, each of which leaves what is there well typed
LEMMA SecretTyped ==
    ASSUME Typed, NEW r \in Request, Lookup(r) \/ FindKey(r) \/ Publish(r) \/ PublishId(r)
    PROVE  Typed'
<1> USE DEF rows, published
<1>1. /\ req[r].at # "idle" /\ req[r] \in Req /\ made + 1 \in Nat
      /\ S(r) \in Service /\ req[r].s = {S(r)} /\ req[r].key \in Key
  BY ServiceType DEF Lookup, FindKey, Publish, PublishId, Typed, ReqOK, Req
<1>3. CASE Lookup(r)
  <2>1. TypeOK' /\ used' = used /\ made' = made
    BY <1>3 DEF Lookup, Typed, TypeOK
  <2>2. CASE Own(S(r)) = {}
    BY <1>1, <1>3, <2>1, <2>2, GoOnTyped DEF Lookup, Stage, SigningIn, Typed, ReqOK
  <2>3. ASSUME NEW k \in Own(S(r)), Known(r, pool[k].value)
        PROVE  ReqOK'
    <3>1. pool[k].value \in Nat
      BY DEF Own, Typed, TypeOK, Free
    <3> QED
      BY <1>1, <2>1, <2>3, <3>1, KnownTyped DEF Typed, ReqOK
  <2> QED
    BY <1>3, <2>1, <2>2, <2>3 DEF Lookup, Typed
<1>4. CASE FindKey(r)
  <2>1. TypeOK' /\ used' = used /\ made' = made
    BY <1>4 DEF FindKey, Typed, TypeOK
  <2>2. PICK k \in Key : req' = [req EXCEPT ![r].at = "publish", ![r].key = k]
    BY <1>4, SessionConstantsOK DEF FindKey, Own
  <2> DEFINE state == [req[r] EXCEPT !.at = "publish", !.key = k]
  <2>3. state \in Req /\ state.s = req[r].s
    BY <1>1 DEF Req, Stage, SigningIn
  <2> QED
    BY <1>1, <2>1, <2>2, <2>3, GotoTyped DEF Typed, ReqOK
<1>5. CASE Publish(r)
  <2>2. [of |-> req[r].s, value |-> made + 1] \in [of : {{s} : s \in Service}, value : Nat]
    BY <1>1
  <2>3. TypeOK'
    BY <1>1, <1>5, <2>2 DEF Publish, Typed, TypeOK
  <2>4. used' = used /\ made' \in Nat
    BY <1>1, <1>5 DEF Publish
  <2> QED
    BY <1>1, <1>5, <2>3, <2>4, KnownTyped DEF Publish, Typed
<1>6. CASE PublishId(r)
  <2>1. [of |-> req[r].s, value |-> 0] \in [of : {{s} : s \in Service}, value : Nat]
    BY <1>1
  <2>2. TypeOK'
    BY <1>1, <1>6, <2>1 DEF PublishId, Typed, TypeOK
  <2>3. used' = used /\ made' \in Nat
    BY <1>6 DEF PublishId, Typed, ReqOK
  <2> QED
    BY <1>1, <1>6, <2>2, <2>3, FurtherTyped, EndTyped DEF PublishId, Typed
<1> QED
  BY <1>3, <1>4, <1>5, <1>6

LEMMA ServiceTyped ==
    ASSUME Typed, NEW r \in Request,
           Unpublish(r) \/ DropService(r) \/ MintKey(r) \/ PublishKey(r) \/ UnpublishKey(r)
    PROVE  Typed'
<1> USE DEF rows, published
<1>1. /\ req[r].at # "idle" /\ req[r] \in Req
      /\ S(r) \in Service /\ req[r].s = {S(r)}
  BY ServiceType DEF Unpublish, DropService, MintKey, PublishKey, UnpublishKey, Typed, ReqOK
<1>2. CASE Unpublish(r)
  <2>1. TypeOK'
    BY <1>2 DEF Unpublish, Typed, TypeOK
  <2> QED
    BY <1>1, <1>2, <2>1, GoOnTyped DEF Unpublish, Stage, Typed, ReqOK
<1>3. CASE DropService(r)
  <2>1. /\ live' = live \ {S(r)} /\ user' = [user EXCEPT ![S(r)] = NoUser]
        /\ tokens' = {t \in tokens : t.s # S(r)} /\ keys' = {x \in keys : x.s # S(r)}
        /\ UNCHANGED <<used, pool, keyVars, events>>
    BY <1>1, <1>3 DEF DropService
  <2>2. keys' \subseteq [s : live', id : Nat]
    BY <2>1 DEF Typed, TypeOK
  <2>3. TypeOK'
    BY <1>1, <2>1, <2>2 DEF Typed, TypeOK, NoUser
  <2> QED
    BY <1>3, <2>3, EndTyped DEF DropService, Typed, ReqOK
<1>4. CASE PublishKey(r) \/ UnpublishKey(r)
  <2>1. keyVars' \subseteq Nat /\ UNCHANGED rows /\ made' = made
    BY <1>1, <1>4 DEF PublishKey, UnpublishKey, Typed, TypeOK, Req
  <2>2. pool' \in [Key -> {Free} \cup [of : {{s} : s \in Service}, value : Nat]]
    BY <1>4, TakeOverTyped DEF PublishKey, UnpublishKey, Typed, TypeOK
  <2>3. events' \in 0..MaxEvents
    BY <1>4, SessionConstantsOK DEF PublishKey, UnpublishKey, Event, Typed, TypeOK
  <2>4. TypeOK'
    BY <2>1, <2>2, <2>3 DEF Typed, TypeOK
  <2> QED
    BY <1>4, <2>1, <2>4, EndTyped DEF PublishKey, UnpublishKey, Typed, ReqOK
<1>5. CASE MintKey(r)
  <2>0. made + 1 \in Nat
    BY DEF Typed, ReqOK
  <2>1. made' \in Nat /\ used' = used
    BY <1>5 DEF MintKey, Typed, ReqOK
  <2>2. TypeOK'
    BY <1>1, <1>5 DEF MintKey, Typed, TypeOK, ReqOK
  <2>3. CASE End(r)
    BY <2>1, <2>2, <2>3, EndTyped DEF Typed
  <2>4. CASE req' = [req EXCEPT ![r].at = "keyvar", ![r].token = made + 1]
    <3> DEFINE state == [req[r] EXCEPT !.at = "keyvar", !.token = made + 1]
    <3>1. state \in Req /\ state.s = req[r].s
      BY <1>1, <2>0 DEF Req, Stage
    <3> QED
      BY <1>1, <2>1, <2>2, <2>4, <3>1, GotoTyped DEF Typed
  <2> QED
    BY <1>5, <2>3, <2>4 DEF MintKey
<1> QED
  BY <1>2, <1>3, <1>4, <1>5

\* Only the user of s changes, and there is one afterwards
UserOnly(s) ==
    /\ s \in live
    /\ \E u \in [st : {"active", "suspended"}, pw : Nat, role : BOOLEAN] :
        user' = [user EXCEPT ![s] = u]
    /\ UNCHANGED <<live, used, tokens, keys, published, events>>

LEMMA UserTyped ==
    ASSUME TypeOK, NEW s \in Service, UserOnly(s)
    PROVE  TypeOK'
<1>1. PICK u \in [st : {"active", "suspended"}, pw : Nat, role : BOOLEAN] :
        user' = [user EXCEPT ![s] = u]
  BY DEF UserOnly
<1>2. user' \in [Service -> [st : {"none", "active", "suspended"}, pw : Nat, role : BOOLEAN]]
  BY <1>1 DEF TypeOK
<1>3. \A x \in Service : x # s => user'[x] = user[x]
  BY <1>1 DEF TypeOK
<1>4. user'[s].st # "none" /\ s \in live
  BY <1>1 DEF TypeOK, UserOnly
<1> QED
  BY <1>2, <1>3, <1>4 DEF UserOnly, published, TypeOK

LEMMA SignInTyped ==
    ASSUME Typed, NEW r \in Request,
           \/ InsertUser(r) \/ InsertRole(r) \/ Consume(r) \/ CheckStatus(r)
           \/ Issue(r) \/ EndSessions(r) \/ Answer(r)
    PROVE  Typed'
<1> USE DEF rows, published
<1>1. /\ req[r].at # "idle" /\ req[r] \in Req /\ made + 1 \in Nat
      /\ S(r) \in Service /\ req[r].s = {S(r)} /\ S(r) \in used
  BY ServiceType
     DEF InsertUser, InsertRole, Consume, CheckStatus, Issue, EndSessions, Answer,
         Ending, Typed, ReqOK
<1>2. CASE InsertUser(r)
  <2> DEFINE state == [req[r] EXCEPT !.at = "role", !.pw = 1]
  <2>1. CASE S(r) \in live /\ user[S(r)].st = "none"
    <3>1. state \in Req /\ state.s = req[r].s
      BY <1>1 DEF Req, Stage, SigningIn
    <3>2. req' = [req EXCEPT ![r] = state]
      BY <1>2, <2>1 DEF InsertUser
    <3>3. ReqOK'
      BY <1>1, <1>2, <3>1, <3>2, GotoTyped DEF InsertUser, Typed, ReqOK
    <3>4. UserOnly(S(r))
      BY <1>1, <1>2, <2>1 DEF UserOnly, InsertUser, Typed, TypeOK
    <3>5. TypeOK'
      BY <1>1, <3>4, UserTyped DEF Typed
    <3> QED
      BY <3>3, <3>5 DEF Typed
  <2>2. CASE ~(S(r) \in live /\ user[S(r)].st = "none")
    <3>1. TypeOK'
      BY <1>2, <2>2 DEF InsertUser, Typed, TypeOK
    <3> QED
      BY <1>2, <2>2, <3>1, EndTyped DEF InsertUser, Typed, ReqOK
  <2> QED
    BY <2>1, <2>2
<1>3. CASE InsertRole(r)
  <2>1. CASE user[S(r)].st # "none"
    <3>1. S(r) \in live
      BY <1>1, <2>1 DEF Typed, TypeOK, NoUser
    <3>2. UserOnly(S(r))
      <4> DEFINE u == [user[S(r)] EXCEPT !.role = TRUE]
      <4>1. u \in [st : {"active", "suspended"}, pw : Nat, role : BOOLEAN]
        <5>1. user[S(r)] \in [st : {"none", "active", "suspended"}, pw : Nat, role : BOOLEAN]
          BY <1>1 DEF Typed, TypeOK
        <5> QED
          BY <2>1, <5>1
      <4>2. user' = [user EXCEPT ![S(r)] = u]
        BY <1>3, <2>1 DEF InsertRole
      <4> QED
        BY <1>3, <3>1, <4>1, <4>2 DEF UserOnly, InsertRole
    <3>3. TypeOK'
      BY <1>1, <3>2, UserTyped DEF Typed
    <3> QED
      BY <1>1, <1>3, <2>1, <3>3, GoOnTyped DEF InsertRole, Stage, SigningIn, Typed, ReqOK
  <2>2. CASE user[S(r)].st = "none"
    <3>1. TypeOK'
      BY <1>3, <2>2 DEF InsertRole, Typed, TypeOK
    <3> QED
      BY <1>3, <2>2, <3>1, EndTyped DEF InsertRole, Typed, ReqOK
  <2> QED
    BY <2>1, <2>2
<1>4. CASE Consume(r) \/ CheckStatus(r) \/ EndSessions(r) \/ Answer(r)
  <2>1. tokens' \subseteq tokens /\ UNCHANGED <<live, used, user, keys, pool, keyVars, events, made>>
    BY <1>4 DEF Consume, CheckStatus, EndSessions, Answer
  <2>2. TypeOK'
    BY <2>1 DEF Typed, TypeOK
  <2>3. \/ Goto(r, "status") \/ Goto(r, "lookup") \/ End(r)
    BY <1>4 DEF Consume, CheckStatus, EndSessions, Answer
  <2>4. made' \in Nat
    BY <2>1 DEF Typed, ReqOK
  <2> QED
    BY <1>1, <2>1, <2>2, <2>3, <2>4, GoOnTyped, EndTyped DEF Stage, SigningIn, Typed
<1>5. CASE Issue(r)
  <2>1. made' \in Nat /\ used' = used
    BY <1>1, <1>5 DEF Issue, Typed, ReqOK
  <2>2. ReqOK'
    BY <1>5, <2>1, EndTyped DEF Issue
  <2> DEFINE new == [s |-> S(r), id |-> made + 1, pw |-> req[r].pw,
                     session |-> IF req[r].session = 0 THEN made + 1 ELSE req[r].session]
  <2>3. new \in [s : Service, id : Nat, session : Nat, pw : Nat]
    BY <1>1 DEF Req
  <2>4. TypeOK'
    BY <1>5, <2>3 DEF Issue, Typed, TypeOK
  <2> QED
    BY <2>2, <2>4 DEF Typed
<1> QED
  BY <1>2, <1>3, <1>4, <1>5

\* The requests that begin: those that change no row but a user's
LEMMA AskingUsersTyped ==
    ASSUME Typed, NEW r \in Request, NEW s \in Service,
           \/ Integrate(r, s) \/ Verify(r, s) \/ Rotate(r, s) \/ DeleteService(r, s)
           \/ Register(r, s) \/ Login(r, s) \/ ResetPassword(r, s)
           \/ \E st \in {"active", "suspended"} : SetStatus(r, s, st)
           \/ \E has \in BOOLEAN : SetRole(r, s, has)
    PROVE  Typed'
<1> USE DEF rows, published, SignIn
<1>1. user[s].st # "none" => s \in live
  BY DEF Typed, TypeOK, NoUser
<1>2. s \in used
  BY <1>1 DEF Integrate, Verify, Rotate, DeleteService, Register, Login, ResetPassword,
              SetStatus, SetRole, Admitted, Typed, TypeOK
<1>3. UNCHANGED <<live, used, tokens, keys, published, made>>
  BY DEF Integrate, Verify, Rotate, DeleteService, Register, Login, ResetPassword, SetStatus, SetRole
<1>4. \/ UNCHANGED user
      \/ /\ s \in live /\ user[s].st # "none"
         /\ \/ \E st \in {"active", "suspended"} : user' = [user EXCEPT ![s].st = st]
            \/ \E has \in BOOLEAN : user' = [user EXCEPT ![s].role = has]
            \/ user' = [user EXCEPT ![s].pw = @ + 1]
  BY <1>1 DEF Integrate, Verify, Rotate, DeleteService, Register, Login, ResetPassword, SetStatus, SetRole
<1>6. ReqOK' /\ events' \in 0..MaxEvents
  <2>1. CASE \E has \in BOOLEAN : SetRole(r, s, has)
    BY <2>1, SessionConstantsOK DEF SetRole, Event, Typed, TypeOK, ReqOK
  <2>2. user[s].pw \in Nat
    BY DEF Typed, TypeOK
  <2>3. CASE \E state \in Req : Begin(r, s, state)
    BY <1>2, <1>3, <2>3, BeginTyped DEF Typed, ReqOK
  <2>4. ASSUME ~\E has \in BOOLEAN : SetRole(r, s, has)
        PROVE  \E state \in Req : Begin(r, s, state)
    <3> USE IdleType DEF Req, Stage, Kinds, SigningIn, Ending, Idle
    <3>1. CASE Integrate(r, s)
      BY <3>1 DEF Integrate
    <3>2. CASE Rotate(r, s)
      BY <3>2 DEF Rotate
    <3>3. CASE DeleteService(r, s)
      BY <3>3 DEF DeleteService
    <3>4. CASE Register(r, s)
      BY <3>4 DEF Register
    <3>5. CASE Login(r, s)
      BY <2>2, <3>5 DEF Login
    <3>6. CASE ResetPassword(r, s)
      BY <3>6 DEF ResetPassword
    <3>7. CASE \E st \in {"active", "suspended"} : SetStatus(r, s, st)
      BY <3>7 DEF SetStatus
    <3>8. CASE Verify(r, s)
      BY <3>8 DEF Verify
    <3> QED
      BY <2>4, <3>8, <3>1, <3>2, <3>3, <3>4, <3>5, <3>6, <3>7
  <2> QED
    BY <2>1, <2>3, <2>4
<1>7. /\ user' \in [Service -> [st : {"none", "active", "suspended"}, pw : Nat, role : BOOLEAN]]
      /\ \A x \in Service : user[x].st # "none" => user'[x].st # "none"
      /\ \A x \in Service \ live : user'[x] = user[x]
  BY <1>4 DEF Typed, TypeOK
<1>8. TypeOK'
  BY <1>3, <1>6, <1>7 DEF Typed, TypeOK
<1> QED
  BY <1>6, <1>8 DEF Typed

\* Those that make or delete a service or a key, or show a token
LEMMA AskingRowsTyped ==
    ASSUME Typed, NEW r \in Request,
           \/ \E s \in Service : CreateHidden(r, s) \/ CreateKey(r, s)
           \/ \E s \in Service, l \in Creating, k \in Key : CreateService(r, s, l, k)
           \/ \E x \in keys : DeleteKey(r, x)
           \/ \E t \in tokens : Refresh(r, t) \/ Logout(r, t)
    PROVE  Typed'
<1> USE DEF rows, published
<1>1. made \in Nat /\ made + 1 \in Nat
  BY DEF Typed, ReqOK
<1>2. ASSUME NEW s \in Service, CreateHidden(r, s) \/ \E l \in Creating, k \in Key : CreateService(r, s, l, k)
      PROVE  Typed'
  <2>1. /\ s \notin used /\ live' = live \cup {s} /\ used' = used \cup {s}
        /\ UNCHANGED <<user, tokens, keys, pool, keyVars, made>>
    BY <1>2 DEF CreateHidden, CreateService
  <2>2. ReqOK' /\ events' \in 0..MaxEvents
    <3>1. CASE CreateHidden(r, s)
      BY <2>1, <3>1, SessionConstantsOK DEF CreateHidden, Event, Typed, TypeOK, ReqOK
    <3>2. ASSUME NEW l \in Creating, NEW k \in Key, CreateService(r, s, l, k)
          PROVE  ReqOK' /\ events' \in 0..MaxEvents
      <4> DEFINE state == [Idle EXCEPT !.at = l, !.kind = "create", !.key = k]
      <4>1. state \in Req
        BY DEF Req, Stage, Kinds, Creating, SigningIn, Idle
      <4>2. Begin(r, s, state)
        BY <3>2 DEF CreateService
      <4> QED
        BY <1>1, <2>1, <4>1, <4>2, BeginTyped
    <3> QED
      BY <1>2, <3>1, <3>2
  <2>3. TypeOK'
    BY <2>1, <2>2 DEF Typed, TypeOK
  <2> QED
    BY <2>2, <2>3 DEF Typed
<1>3. ASSUME NEW s \in Service, CreateKey(r, s)
      PROVE  Typed'
  <2> DEFINE state == [Idle EXCEPT !.at = "keyvar", !.token = made + 1]
  <2>1. state \in Req
    BY <1>1, SessionConstantsOK DEF Req, Stage, Kinds, Idle
  <2>2. ReqOK' /\ events' \in 0..MaxEvents
    BY <1>1, <1>3, <2>1, BeginTyped DEF CreateKey, Typed, TypeOK
  <2>3. TypeOK'
    BY <1>1, <1>3, <2>2 DEF CreateKey, Typed, TypeOK
  <2> QED
    BY <2>2, <2>3 DEF Typed
<1>4. ASSUME NEW x \in keys, DeleteKey(r, x)
      PROVE  Typed'
  <2>1. x.s \in Service /\ x.s \in used /\ x.id \in Nat
    BY DEF Typed, TypeOK
  <2> DEFINE state == [Idle EXCEPT !.at = "unkeyvar", !.token = x.id]
  <2>2. state \in Req
    BY <2>1, SessionConstantsOK DEF Req, Stage, Kinds, Idle
  <2>3. ReqOK' /\ events' \in 0..MaxEvents
    BY <1>1, <1>4, <2>1, <2>2, BeginTyped DEF DeleteKey
  <2>4. TypeOK'
    BY <1>4, <2>3 DEF DeleteKey, Typed, TypeOK
  <2> QED
    BY <2>3, <2>4 DEF Typed
<1>5. ASSUME NEW t \in tokens, Refresh(r, t)
      PROVE  Typed'
  <2>1. t \in [s : Service, id : Nat, session : Nat, pw : Nat]
    BY DEF Typed, TypeOK
  <2> DEFINE state == [[Idle EXCEPT !.at = "consume", !.token = t.id, !.session = t.session,
                                   !.pw = t.pw] EXCEPT !.kind = "signin"]
  <2>2. state \in Req
    BY <2>1, SessionConstantsOK DEF Req, Stage, Kinds, SigningIn, Idle
  <2>3. Begin(r, t.s, state) /\ t.s \in live
    BY <1>5 DEF Refresh, SignIn, Admitted
  <2>4. ReqOK' /\ events' \in 0..MaxEvents
    BY <1>1, <1>5, <2>1, <2>2, <2>3, BeginTyped DEF Refresh, Typed, TypeOK
  <2>5. TypeOK'
    BY <1>5, <2>4 DEF Refresh, Typed, TypeOK
  <2> QED
    BY <2>4, <2>5 DEF Typed
<1>6. ASSUME NEW t \in tokens, Logout(r, t)
      PROVE  Typed'
  BY <1>6, SessionConstantsOK DEF Logout, Event, Typed, TypeOK, ReqOK
<1> QED
  BY <1>2, <1>3, <1>4, <1>5, <1>6

LEMMA CutTyped ==
    ASSUME Typed, Crash \/ \E r \in Request : Dropped(r) \/ Abandon(r)
    PROVE  Typed'
<1> USE DEF rows, published
<1>1. UNCHANGED <<rows, keyVars, made>> /\ events' \in 0..MaxEvents
  <2>1. UNCHANGED <<rows, keyVars, made>> /\ Event
    BY DEF Crash, Dropped, Abandon
  <2> QED
    BY <2>1, SessionConstantsOK DEF Event, Typed, TypeOK
<1> DEFINE Pool == [Key -> {Free} \cup [of : {{s} : s \in Service}, value : Nat]]
<1>2. ASSUME pool' \in Pool PROVE TypeOK'
  BY <1>1, <1>2 DEF Typed, TypeOK
<1>3. made' \in Nat /\ used' = used
  BY <1>1 DEF Typed, ReqOK
<1>4. CASE Crash
  <2>1. pool \in Pool /\ Pruned \in Pool
    BY DEF Typed, TypeOK, Pruned
  <2>2. \A s \in live : [of |-> {s}, value |-> 0] \in [of : {{x} : x \in Service}, value : Nat]
    BY DEF Typed, TypeOK
  <2>3. pool' \in Pool
    BY <1>4, <2>1, <2>2 DEF Crash
  <2> QED
    BY <1>2, <1>3, <1>4, <2>3, IdleType DEF Crash, Typed, ReqOK, Idle
<1>5. ASSUME NEW r \in Request, Dropped(r) \/ Abandon(r)
      PROVE  Typed'
  <2>1. \/ End(r) \/ (req[r].at = "unpublish" /\ Goto(r, "drop"))
        \/ req[r].at \in {"appid", "publish"} /\ Further(r)
    BY <1>5 DEF Dropped, Abandon
  <2>2. TypeOK'
    BY <1>2, <1>5 DEF Dropped, Abandon, Typed, TypeOK
  <2> QED
    BY <1>3, <2>1, <2>2, EndTyped, GoOnTyped, FurtherTyped DEF Stage, Typed
<1> QED
  BY <1>4, <1>5

\* Somebody else sets, removes or renames a variable
LEMMA HandTyped ==
    ASSUME Typed, NEW k \in Key, EditVariable(k) \/ \E j \in Key : RenameVariable(j, k)
    PROVE  Typed'
<1> USE DEF rows
<1>1. UNCHANGED <<rows, keyVars, req, made>> /\ events' \in 0..MaxEvents
  <2>1. UNCHANGED <<rows, keyVars, req, made>> /\ Event
    BY DEF EditVariable, RenameVariable
  <2> QED
    BY <2>1, SessionConstantsOK DEF Event, Typed, TypeOK
<1>2. pool' \in [Key -> {Free} \cup [of : {{s} : s \in Service}, value : Nat]]
  <2>1. CASE EditVariable(k)
    BY <2>1, TakeOverTyped DEF EditVariable
  <2>2. ASSUME NEW j \in Key, RenameVariable(j, k)
        PROVE  pool' \in [Key -> {Free} \cup [of : {{s} : s \in Service}, value : Nat]]
    BY <2>2 DEF RenameVariable, Typed, TypeOK
  <2> QED
    BY <2>1, <2>2
<1>3. TypeOK'
  BY <1>1, <1>2 DEF Typed, TypeOK
<1> QED
  BY <1>1, <1>3 DEF Typed, ReqOK

LEMMA TypeNext == Typed /\ [Next]_vars => Typed'
<1> SUFFICES ASSUME Typed, [Next]_vars PROVE Typed'
  OBVIOUS
<1>1. CASE UNCHANGED vars
  BY <1>1 DEF vars, rows, published, Typed, TypeOK, ReqOK
<1>2. ASSUME NEW r \in Request, Asking(r)
      PROVE  Typed'
  BY <1>2, AskingUsersTyped, AskingRowsTyped DEF Asking
<1>3. ASSUME NEW r \in Request, Working(r)
      PROVE  Typed'
  BY <1>3, SecretTyped, ServiceTyped, SignInTyped DEF Working
<1> QED
  BY <1>1, <1>2, <1>3, CutTyped, HandTyped DEF Next

\* Types hold in every reachable state.
THEOREM TypeCorrect == Spec => []TypeOK
<1>1. Typed => TypeOK
  BY DEF Typed
<1> QED
  BY <1>1, TypeInit, TypeNext, PTL DEF Spec

-----------------------------------------------------------------------------
(***************************************************************************)
(* The single use of refresh tokens.  A request that consumed one holds    *)
(* its session until it issues the next: nobody else holds it, and no      *)
(* token has it.                                                           *)
(***************************************************************************)

Holds(r) == req[r].session # 0 /\ req[r].at # "consume"
Shows(r) == req[r].at = "consume"

Numbered(t) == t.id \in 1..made /\ t.session \in 1..made
Sessions ==
    /\ \A t \in tokens : Numbered(t)
    /\ \A t, u \in tokens : t.id = u.id => t = u
    /\ SingleUse
    /\ \A r \in Request : req[r].session \in 0..made
    /\ \A r \in Request : Shows(r) =>
        /\ req[r].session # 0 /\ req[r].token \in 0..made
        /\ \A t \in tokens : t.id = req[r].token => t.session = req[r].session
    /\ \A r \in Request : Holds(r) => \A t \in tokens : t.session # req[r].session
    /\ \A r, q \in Request :
        Holds(r) /\ Holds(q) /\ req[r].session = req[q].session => r = q

\* What most steps do: they show, hold and issue nothing
Elsewhere ==
    /\ tokens' \subseteq tokens
    /\ made' = made \/ made' = made + 1
    /\ \A r \in Request :
        \/ req'[r].session = 0 /\ req'[r].at # "consume"
        \/ /\ req'[r].session = req[r].session
           /\ req'[r].at = "consume" <=> req[r].at = "consume"
           /\ req'[r].at = "consume" => req'[r].token = req[r].token

LEMMA SessionsElsewhere ==
    ASSUME Typed, Sessions, Elsewhere
    PROVE  Sessions'
<1>1. made \in Nat /\ 0..made \subseteq 0..made' /\ 1..made \subseteq 1..made'
  BY DEF Elsewhere, Typed, ReqOK
<1>2. \A r \in Request :
        /\ Holds(r)' => Holds(r) /\ req'[r].session = req[r].session
        /\ Shows(r)' => Shows(r) /\ req'[r].session = req[r].session
                        /\ req'[r].token = req[r].token
  BY DEF Elsewhere, Holds, Shows
<1>3. \A r \in Request : req'[r].session \in 0..made'
  BY <1>1 DEF Elsewhere, Sessions
<1>4. \A t \in tokens' : t \in tokens /\ Numbered(t)'
  BY <1>1 DEF Elsewhere, Sessions, Numbered
<1> QED
  BY <1>1, <1>2, <1>3, <1>4 DEF Sessions, SingleUse

\* A request goes on, having consumed nothing
Moves(r) ==
    \/ \E l \in Stage \ {"consume"} : Goto(r, l)
    \/ \E v \in Nat : req' = [req EXCEPT ![r].at = "issue", ![r].value = v]
    \/ \E l \in Stage \ {"consume"}, k \in Key :
          req' = [req EXCEPT ![r].at = l, ![r].key = k]
    \/ \E i \in Nat : req' = [req EXCEPT ![r].at = "keyvar", ![r].token = i]
    \/ req' = [req EXCEPT ![r].at = "role", ![r].pw = 1]

LEMMA FurtherMoves ==
    ASSUME NEW r \in Request, Further(r)
    PROVE  End(r) \/ Moves(r)
BY SessionConstantsOK DEF Further, Moves, Stage, SigningIn

LEMMA KnownMoves ==
    ASSUME NEW r \in Request, NEW v \in Nat, Known(r, v)
    PROVE  End(r) \/ Moves(r)
BY FurtherMoves, SessionConstantsOK DEF Known, Moves, Stage, SigningIn

LEMMA MovesOn ==
    ASSUME Typed, NEW r \in Request, Moves(r)
    PROVE  /\ \A q \in Request : q # r => req'[q] = req[q]
           /\ req'[r].session = req[r].session /\ req'[r].at # "consume"
<1>a. req \in [Request -> Req] /\ req[r] \in Req
  BY DEF Typed, ReqOK
<1>1. ASSUME NEW l \in Stage \ {"consume"}, Goto(r, l)
      PROVE  req'[r].session = req[r].session /\ req'[r].at # "consume"
  <2>1. req'[r] = [req[r] EXCEPT !.at = l]
    BY <1>a, <1>1 DEF Goto
  <2> QED
    BY <1>a, <2>1 DEF Req
<1>2. ASSUME NEW v \in Nat, req' = [req EXCEPT ![r].at = "issue", ![r].value = v]
      PROVE  req'[r].session = req[r].session /\ req'[r].at # "consume"
  <2>1. req'[r] = [req[r] EXCEPT !.at = "issue", !.value = v]
    BY <1>a, <1>2
  <2> QED
    BY <1>a, <2>1 DEF Req
<1>3. ASSUME NEW l \in Stage \ {"consume"}, NEW k \in Key,
             req' = [req EXCEPT ![r].at = l, ![r].key = k]
      PROVE  req'[r].session = req[r].session /\ req'[r].at # "consume"
  <2>1. req'[r] = [req[r] EXCEPT !.at = l, !.key = k]
    BY <1>a, <1>3
  <2> QED
    BY <1>a, <2>1 DEF Req
<1>4. ASSUME NEW i \in Nat, req' = [req EXCEPT ![r].at = "keyvar", ![r].token = i]
      PROVE  req'[r].session = req[r].session /\ req'[r].at # "consume"
  <2>1. req'[r] = [req[r] EXCEPT !.at = "keyvar", !.token = i]
    BY <1>a, <1>4
  <2> QED
    BY <1>a, <2>1 DEF Req
<1>5. ASSUME req' = [req EXCEPT ![r].at = "role", ![r].pw = 1]
      PROVE  req'[r].session = req[r].session /\ req'[r].at # "consume"
  <2>1. req'[r] = [req[r] EXCEPT !.at = "role", !.pw = 1]
    BY <1>a, <1>5
  <2> QED
    BY <1>a, <2>1 DEF Req
<1>6. \A q \in Request : q # r => req'[q] = req[q]
  BY <1>a DEF Moves, Goto
<1> QED
  BY <1>1, <1>2, <1>3, <1>4, <1>5, <1>6 DEF Moves

LEMMA WorkElsewhere ==
    ASSUME Typed, NEW r \in Request,
           \/ Lookup(r) \/ FindKey(r) \/ Publish(r) \/ PublishId(r) \/ Unpublish(r)
           \/ DropService(r) \/ MintKey(r) \/ PublishKey(r) \/ UnpublishKey(r)
           \/ InsertUser(r) \/ InsertRole(r) \/ CheckStatus(r) \/ EndSessions(r) \/ Answer(r)
           \/ Dropped(r) \/ Abandon(r)
    PROVE  Elsewhere
<1> USE DEF rows, published
<1>1. tokens' \subseteq tokens /\ (made' = made \/ made' = made + 1)
  BY DEF Lookup, FindKey, Publish, PublishId, Unpublish, DropService, MintKey, PublishKey,
         UnpublishKey, InsertUser, InsertRole, CheckStatus, EndSessions, Answer, Dropped, Abandon
<1>2. End(r) \/ (req[r].at # "consume" /\ Moves(r))
  <2>1. CASE Lookup(r)
    <3>1. \A k \in Own(S(r)) : pool[k].value \in Nat
      BY DEF Own, Typed, TypeOK, Free
    <3>2. CASE Goto(r, "findkey")
      BY <2>1, <3>2 DEF Lookup, Moves, Stage, SigningIn
    <3> QED
      BY <2>1, <3>1, <3>2, KnownMoves DEF Lookup
  <2>2. CASE FindKey(r)
    BY <2>2, SessionConstantsOK DEF FindKey, Own, Moves, Stage, SigningIn
  <2>3. CASE Publish(r)
    BY <2>3, KnownMoves DEF Publish, Typed, ReqOK
  <2>4. CASE \/ Unpublish(r) \/ DropService(r) \/ PublishKey(r) \/ UnpublishKey(r)
             \/ InsertUser(r) \/ InsertRole(r) \/ CheckStatus(r)
    BY <2>4 DEF Unpublish, DropService, PublishKey, UnpublishKey, InsertUser, InsertRole,
                CheckStatus, Moves, Stage, SigningIn
  <2>5. CASE EndSessions(r) \/ Answer(r) \/ Abandon(r)
    BY <2>5 DEF EndSessions, Answer, Abandon
  <2>6. CASE PublishId(r) \/ Dropped(r)
    BY <2>6, FurtherMoves DEF PublishId, Dropped, Moves, Stage, Ending
  <2>7. CASE MintKey(r)
    BY <2>7 DEF MintKey, Moves, Typed, ReqOK
  <2> QED
    BY <2>1, <2>2, <2>3, <2>4, <2>5, <2>6, <2>7
<1>3. CASE End(r)
  BY <1>1, <1>3 DEF Elsewhere, End, Idle, Typed, ReqOK
<1>4. CASE req[r].at # "consume" /\ Moves(r)
  BY <1>1, <1>4, MovesOn DEF Elsewhere
<1> QED
  BY <1>2, <1>3, <1>4

\* r has become the request state
Begun(r) ==
    /\ req'[r].session = 0 /\ req'[r].at # "consume"
    /\ \A q \in Request : q # r => req'[q] = req[q]

\* The stages of sign-ins alone, and a request that is none, nor ends sessions
OfSignIn == {"user", "role", "consume", "status", "issue"}
Plain(state) ==
    /\ state.session = 0 /\ state.kind # "signin"
    /\ state.at \notin OfSignIn \cup Ending

PlainAsk(r) ==
    \/ \E s \in Service :
        \/ Integrate(r, s) \/ Verify(r, s) \/ Rotate(r, s) \/ DeleteService(r, s)
        \/ CreateKey(r, s)
        \/ \E l \in Creating, k \in Key : CreateService(r, s, l, k)
    \/ \E x \in keys : DeleteKey(r, x)

LEMMA AskingPlainly ==
    ASSUME Typed, NEW r \in Request, PlainAsk(r)
    PROVE  \E s \in Service, state \in Req : Begin(r, s, state) /\ Plain(state)
<1> DEFINE Begins(s) == \E state \in Req : Begin(r, s, state) /\ Plain(state)
<1>1. ASSUME NEW s \in Service, Integrate(r, s)
      PROVE  Begins(s)
  <2> DEFINE state == [Idle EXCEPT !.at = "lookup", !.kind = "integrate"]
  <2>1. state \in Req /\ Plain(state)
    BY SessionConstantsOK DEF Plain, OfSignIn, Req, Stage, Kinds, Creating, SigningIn, Ending, Idle
  <2>2. Begin(r, s, state)
    BY <1>1 DEF Integrate
  <2> QED
    BY <2>1, <2>2
<1>2. ASSUME NEW s \in Service, Rotate(r, s)
      PROVE  Begins(s)
  <2> DEFINE state == [Idle EXCEPT !.at = "findkey", !.kind = "rotate"]
  <2>1. state \in Req /\ Plain(state)
    BY SessionConstantsOK DEF Plain, OfSignIn, Req, Stage, Kinds, Creating, SigningIn, Ending, Idle
  <2>2. Begin(r, s, state)
    BY <1>2 DEF Rotate
  <2> QED
    BY <2>1, <2>2
<1>3. ASSUME NEW s \in Service, DeleteService(r, s)
      PROVE  Begins(s)
  <2> DEFINE state == [Idle EXCEPT !.at = "unpublish"]
  <2>1. state \in Req /\ Plain(state)
    BY SessionConstantsOK DEF Plain, OfSignIn, Req, Stage, Kinds, Creating, SigningIn, Ending, Idle
  <2>2. Begin(r, s, state)
    BY <1>3 DEF DeleteService
  <2> QED
    BY <2>1, <2>2
<1>4. ASSUME NEW s \in Service, NEW l \in Creating, NEW k \in Key, CreateService(r, s, l, k)
      PROVE  Begins(s)
  <2> DEFINE state == [Idle EXCEPT !.at = l, !.kind = "create", !.key = k]
  <2>1. state \in Req /\ Plain(state)
    BY SessionConstantsOK DEF Plain, OfSignIn, Req, Stage, Kinds, Creating, SigningIn, Ending, Idle
  <2>2. Begin(r, s, state)
    BY <1>4 DEF CreateService
  <2> QED
    BY <2>1, <2>2
<1>5. ASSUME NEW s \in Service, CreateKey(r, s)
      PROVE  Begins(s)
  <2>0. made + 1 \in Nat
    BY DEF Typed, ReqOK
  <2> DEFINE state == [Idle EXCEPT !.at = "keyvar", !.token = made + 1]
  <2>1. state \in Req /\ Plain(state)
    BY <2>0, SessionConstantsOK DEF Plain, OfSignIn, Req, Stage, Kinds, Creating, SigningIn, Ending, Idle
  <2>2. Begin(r, s, state)
    BY <1>5 DEF CreateKey
  <2> QED
    BY <2>0, <2>1, <2>2
<1>6. ASSUME NEW x \in keys, DeleteKey(r, x)
      PROVE  x.s \in Service /\ Begins(x.s)
  <2>0. x.s \in Service /\ x.id \in Nat
    BY DEF Typed, TypeOK
  <2> DEFINE state == [Idle EXCEPT !.at = "unkeyvar", !.token = x.id]
  <2>1. state \in Req /\ Plain(state)
    BY <2>0, SessionConstantsOK DEF Plain, OfSignIn, Req, Stage, Kinds, Creating, SigningIn, Ending, Idle
  <2>2. Begin(r, x.s, state)
    BY <1>6 DEF DeleteKey
  <2> QED
    BY <2>0, <2>1, <2>2
<1>7. ASSUME NEW s \in Service, Verify(r, s)
      PROVE  Begins(s)
  <2> DEFINE state == [Idle EXCEPT !.at = "lookup", !.kind = "verify"]
  <2>1. state \in Req /\ Plain(state)
    BY SessionConstantsOK DEF Plain, OfSignIn, Req, Stage, Kinds, SigningIn, Ending, Idle
  <2>2. Begin(r, s, state)
    BY <1>7 DEF Verify
  <2> QED
    BY <2>1, <2>2
<1> QED
  BY <1>1, <1>2, <1>3, <1>4, <1>5, <1>6, <1>7 DEF PlainAsk

LEMMA AskingQuietly ==
    ASSUME Typed, NEW r \in Request, Asking(r), ~\E t \in tokens : Refresh(r, t)
    PROVE  \/ UNCHANGED req
           \/ \E s \in Service, state \in Req :
                Begin(r, s, state) /\ state.session = 0 /\ state.at # "consume"
<1> USE DEF SignIn
<1> DEFINE Begins(s) == \E state \in Req :
              Begin(r, s, state) /\ state.session = 0 /\ state.at # "consume"
<1>1. CASE PlainAsk(r)
  BY <1>1, AskingPlainly DEF Plain, OfSignIn
<1>2. ASSUME NEW s \in Service, Register(r, s)
      PROVE  Begins(s)
  <2> DEFINE state == [[Idle EXCEPT !.at = "user"] EXCEPT !.kind = "signin"]
  <2>1. state \in Req /\ state.session = 0 /\ state.at # "consume"
    BY SessionConstantsOK DEF Req, Stage, Kinds, SigningIn, Idle
  <2>2. Begin(r, s, state)
    BY <1>2 DEF Register
  <2> QED
    BY <2>1, <2>2
<1>3. ASSUME NEW s \in Service, Login(r, s)
      PROVE  Begins(s)
  <2> DEFINE state == [[Idle EXCEPT !.at = "lookup", !.pw = user[s].pw] EXCEPT !.kind = "signin"]
  <2>1. user[s].pw \in Nat
    BY DEF Typed, TypeOK
  <2>2. state \in Req /\ state.session = 0 /\ state.at # "consume"
    BY <2>1, SessionConstantsOK DEF Req, Stage, Kinds, SigningIn, Idle
  <2>3. Begin(r, s, state)
    BY <1>3 DEF Login
  <2> QED
    BY <2>2, <2>3
<1>4. ASSUME NEW s \in Service, ResetPassword(r, s)
      PROVE  Begins(s)
  BY <1>4, SessionConstantsOK DEF ResetPassword, Req, Stage, Kinds, Ending, Idle
<1>5. ASSUME NEW s \in Service, NEW st \in {"active", "suspended"}, SetStatus(r, s, st)
      PROVE  Begins(s)
  BY <1>5, SessionConstantsOK DEF SetStatus, Req, Stage, Kinds, SigningIn, Ending, Idle
<1>6. CASE \/ \E s \in Service : CreateHidden(r, s) \/ \E has \in BOOLEAN : SetRole(r, s, has)
           \/ \E t \in tokens : Logout(r, t)
  BY <1>6 DEF CreateHidden, SetRole, Logout
<1> QED
  BY <1>1, <1>2, <1>3, <1>4, <1>5, <1>6 DEF Asking, PlainAsk

LEMMA AskingElsewhere ==
    ASSUME Typed, NEW r \in Request, Asking(r), ~\E t \in tokens : Refresh(r, t)
    PROVE  Elsewhere
<1> USE DEF rows, published, SignIn
<1>1. tokens' \subseteq tokens /\ (made' = made \/ made' = made + 1)
  BY DEF Asking, Integrate, Verify, Rotate, CreateHidden, DeleteService, CreateService, CreateKey,
         Register, Login, ResetPassword, SetStatus, SetRole, DeleteKey, Logout
<1>2. UNCHANGED req \/ Begun(r)
  <2>1. ASSUME NEW s \in Service, NEW state \in Req, Begin(r, s, state),
               state.session = 0, state.at # "consume"
        PROVE  Begun(r)
    BY <2>1 DEF Begin, Begun, Req, Typed, ReqOK
  <2> QED
    BY AskingQuietly, <2>1
<1> QED
  BY <1>1, <1>2 DEF Elsewhere, Begun

\* A token is shown: it has the session that the request takes with it
LEMMA RefreshSessions ==
    ASSUME Typed, Sessions, NEW r \in Request, NEW t \in tokens, Refresh(r, t)
    PROVE  Sessions'
<1> DEFINE state == [[Idle EXCEPT !.at = "consume", !.token = t.id, !.session = t.session,
                                 !.pw = t.pw] EXCEPT !.kind = "signin"]
<1>1. /\ req' = [req EXCEPT ![r] = [state EXCEPT !.s = {t.s}]]
      /\ UNCHANGED <<tokens, made>>
  BY DEF Refresh, SignIn, Begin, rows
<1>2. /\ req'[r].at = "consume" /\ req'[r].token = t.id /\ req'[r].session = t.session
      /\ \A q \in Request : q # r => req'[q] = req[q]
  BY <1>1 DEF Idle, Typed, ReqOK
<1>3. made \in Nat /\ t.id \in 1..made /\ t.session \in 1..made
  BY DEF Typed, ReqOK, Sessions, Numbered
<1>4. \A u \in tokens : u.id = t.id => u.session = t.session
  BY DEF Sessions
<1>5. ~Holds(r)' /\ \A q \in Request : q # r => (Holds(q)' <=> Holds(q)) /\ (Shows(q)' <=> Shows(q))
  BY <1>2 DEF Holds, Shows
<1>6. \A q \in Request : req'[q].session \in 0..made'
  BY <1>1, <1>2, <1>3 DEF Sessions
<1>7. \A q \in Request : Shows(q)' =>
        /\ req'[q].session # 0 /\ req'[q].token \in 0..made'
        /\ \A u \in tokens' : u.id = req'[q].token => u.session = req'[q].session
  BY <1>1, <1>2, <1>3, <1>4, <1>5 DEF Sessions
<1>8. \A q \in Request : Holds(q)' => \A u \in tokens' : u.session # req'[q].session
  BY <1>1, <1>2, <1>5 DEF Sessions
<1>9. \A p, q \in Request : Holds(p)' /\ Holds(q)' /\ req'[p].session = req'[q].session => p = q
  BY <1>2, <1>5 DEF Sessions
<1>10. (\A u \in tokens' : Numbered(u)') /\ (\A u, v \in tokens' : u.id = v.id => u = v) /\ SingleUse'
  BY <1>1 DEF Sessions, Numbered, SingleUse
<1> QED
  BY <1>6, <1>7, <1>8, <1>9, <1>10 DEF Sessions

\* Whoever gets the row holds its session; nobody else does, and no other token has it
LEMMA ConsumeSessions ==
    ASSUME Typed, Sessions, NEW r \in Request, Consume(r)
    PROVE  Sessions'
<1>1. /\ req[r].at = "consume" /\ tokens' = tokens \ Presented(r) /\ made' = made
      /\ IF Presented(r) # {} THEN Goto(r, "status") ELSE End(r)
  BY DEF Consume
<1>2. CASE Presented(r) = {}
  <2>1. req' = [req EXCEPT ![r] = Idle] /\ tokens' \subseteq tokens
    BY <1>1, <1>2 DEF End
  <2>2. Elsewhere
    BY <1>1, <2>1 DEF Elsewhere, Idle, Typed, ReqOK
  <2> QED
    BY <2>2, SessionsElsewhere
<1>3. CASE Presented(r) # {}
  <2>1. PICK t \in tokens : t.id = req[r].token
    BY <1>3 DEF Presented
  <2>2. /\ t.session = req[r].session /\ req[r].session # 0
        /\ \A u \in tokens' : u \in tokens /\ u # t
        /\ \A u \in tokens' : u.session # t.session
    BY <1>1, <2>1 DEF Sessions, Shows, SingleUse, Presented
  <2>3. /\ req'[r].at = "status" /\ req'[r].session = req[r].session
        /\ \A q \in Request : q # r => req'[q] = req[q]
    <3>1. req' = [req EXCEPT ![r].at = "status"] /\ req[r] \in Req /\ req \in [Request -> Req]
      BY <1>1, <1>3 DEF Goto, Typed, ReqOK
    <3> QED
      BY <3>1 DEF Req
  <2>4. \A q \in Request : Holds(q) => req[q].session # t.session
    BY DEF Sessions
  <2>5. /\ ~Shows(r)'
        /\ \A q \in Request : q # r => (Holds(q)' <=> Holds(q)) /\ (Shows(q)' <=> Shows(q))
    BY <2>3 DEF Holds, Shows
  <2>6. \A q \in Request : req'[q].session \in 0..made'
    BY <1>1, <2>3 DEF Sessions
  <2>7. \A q \in Request : Shows(q)' =>
          /\ req'[q].session # 0 /\ req'[q].token \in 0..made'
          /\ \A u \in tokens' : u.id = req'[q].token => u.session = req'[q].session
    BY <1>1, <2>2, <2>3, <2>5 DEF Sessions
  <2>8. \A q \in Request : Holds(q)' => \A u \in tokens' : u.session # req'[q].session
    BY <2>2, <2>3, <2>5 DEF Sessions
  <2>9. \A p, q \in Request : Holds(p)' /\ Holds(q)' /\ req'[p].session = req'[q].session => p = q
    BY <2>2, <2>3, <2>4, <2>5 DEF Sessions
  <2>10. (\A u \in tokens' : Numbered(u)') /\ (\A u, v \in tokens' : u.id = v.id => u = v) /\ SingleUse'
    BY <1>1, <2>2 DEF Sessions, Numbered, SingleUse
  <2> QED
    BY <2>6, <2>7, <2>8, <2>9, <2>10 DEF Sessions
<1> QED
  BY <1>2, <1>3

\* The token that is issued has a new name, and a session that is new or was held
LEMMA IssueSessions ==
    ASSUME Typed, Sessions, NEW r \in Request, Issue(r)
    PROVE  Sessions'
<1>1. req[r].at = "issue" /\ req' = [req EXCEPT ![r] = Idle] /\ made \in Nat
  BY DEF Issue, End, Typed, ReqOK
<1>2. /\ req'[r].session = 0 /\ req'[r].at # "consume"
      /\ \A q \in Request : q # r => req'[q] = req[q]
  BY <1>1 DEF Idle, Typed, ReqOK
<1>3. CASE user[S(r)].st = "none"
  <2>1. Elsewhere
    BY <1>2, <1>3 DEF Issue, Elsewhere
  <2> QED
    BY <2>1, SessionsElsewhere
<1>4. CASE user[S(r)].st # "none"
  <2> DEFINE new == [s |-> S(r), id |-> made + 1, pw |-> req[r].pw,
                     session |-> IF req[r].session = 0 THEN made + 1 ELSE req[r].session]
  <2>1. tokens' = tokens \cup {new} /\ made' = made + 1
    BY <1>4 DEF Issue
  <2>2. req[r].session \in 0..made /\ new.id = made + 1 /\ new.session \in 1..made'
    BY <1>1, <2>1 DEF Sessions
  <2>3. \A t \in tokens : t.id \in 1..made /\ t.session \in 1..made
    BY DEF Sessions, Numbered
  <2>4. \A t \in tokens : t.id # new.id /\ t.session # new.session
    <3>1. CASE req[r].session = 0
      BY <1>1, <2>3, <3>1
    <3>2. CASE req[r].session # 0
      <4>1. Holds(r) /\ new.session = req[r].session
        BY <1>1, <3>2 DEF Holds
      <4> QED
        BY <1>1, <2>3, <4>1 DEF Sessions
    <3> QED
      BY <3>1, <3>2
  <2>5. \A q \in Request : Holds(q)' => Holds(q) /\ q # r /\ req'[q].session = req[q].session
                                        /\ req[q].session # new.session
    <3>1. ASSUME NEW q \in Request, Holds(q)'
          PROVE  Holds(q) /\ q # r /\ req'[q].session = req[q].session
      BY <1>2, <3>1 DEF Holds
    <3>2. ASSUME NEW q \in Request, Holds(q), q # r
          PROVE  req[q].session # new.session
      <4>1. req[q].session \in 0..made
        BY DEF Sessions
      <4>2. CASE req[r].session = 0
        BY <1>1, <4>1, <4>2
      <4>3. CASE req[r].session # 0
        <5>1. Holds(r) /\ new.session = req[r].session
          BY <1>1, <4>3 DEF Holds
        <5> QED
          BY <3>2, <5>1 DEF Sessions
      <4> QED
        BY <4>2, <4>3
    <3> QED
      BY <3>1, <3>2
  <2>6. \A q \in Request : req'[q].session \in 0..made'
    <3>1. 0..made \subseteq 0..made' /\ 0 \in 0..made'
      BY <1>1, <2>1
    <3> QED
      BY <1>2, <3>1 DEF Sessions
  <2>7. ASSUME NEW q \in Request, Shows(q)'
        PROVE  /\ req'[q].session # 0 /\ req'[q].token \in 0..made'
               /\ \A u \in tokens' : u.id = req'[q].token => u.session = req'[q].session
    <3>1. Shows(q) /\ req'[q] = req[q]
      BY <1>2, <2>7 DEF Shows
    <3>2. req[q].session # 0 /\ req[q].token \in 0..made /\ req[q].token # new.id
      BY <1>1, <3>1 DEF Sessions
    <3> QED
      BY <1>1, <2>1, <3>1, <3>2 DEF Sessions
  <2>8. \A q \in Request : Holds(q)' => \A u \in tokens' : u.session # req'[q].session
    BY <2>1, <2>5 DEF Sessions
  <2>9. \A p, q \in Request : Holds(p)' /\ Holds(q)' /\ req'[p].session = req'[q].session => p = q
    BY <2>5 DEF Sessions
  <2>10. \A u \in tokens' : Numbered(u)'
    BY <1>1, <2>1, <2>2, <2>3 DEF Numbered
  <2>11. (\A u, v \in tokens' : u.id = v.id => u = v) /\ SingleUse'
    BY <2>1, <2>4 DEF Sessions, SingleUse
  <2> QED
    BY <2>6, <2>7, <2>8, <2>9, <2>10, <2>11 DEF Sessions
<1> QED
  BY <1>3, <1>4

\* Another hand on a variable leaves rows and requests alone
Hand(k) == EditVariable(k) \/ \E j \in Key : RenameVariable(j, k)

LEMMA HandStill ==
    ASSUME NEW k \in Key, Hand(k)
    PROVE  UNCHANGED <<rows, keyVars, signed, req, made>> /\ mishaps \subseteq mishaps'
BY DEF Hand, EditVariable, RenameVariable, TakeOver, Mishap

LEMMA SessionsNext == Typed /\ Sessions /\ [Next]_vars => Sessions'
<1> SUFFICES ASSUME Typed, Sessions, [Next]_vars PROVE Sessions'
  OBVIOUS
<1>1. CASE UNCHANGED vars \/ Crash \/ \E k \in Key : Hand(k)
  <2>1. Elsewhere
    <3>1. CASE UNCHANGED vars \/ \E k \in Key : Hand(k)
      BY <3>1, HandStill DEF vars, rows, Elsewhere
    <3>2. CASE Crash
      BY <3>2 DEF Crash, rows, Elsewhere, Idle
    <3> QED
      BY <1>1, <3>1, <3>2
  <2> QED
    BY <2>1, SessionsElsewhere
<1>2. ASSUME NEW r \in Request, Asking(r)
      PROVE  Sessions'
  BY <1>2, AskingElsewhere, SessionsElsewhere, RefreshSessions
<1>3. ASSUME NEW r \in Request, Working(r) \/ Dropped(r) \/ Abandon(r)
      PROVE  Sessions'
  BY <1>3, WorkElsewhere, SessionsElsewhere, ConsumeSessions, IssueSessions DEF Working
<1> QED
  BY <1>1, <1>2, <1>3 DEF Next, Hand

LEMMA SessionsInit == Init => Sessions
BY DEF Init, Sessions, SingleUse, Idle, Holds, Shows

\* Of any number of requests that show one refresh token, one gets its row, and until it
\* has issued the next one the session has none (refresh_app_token, issue_token_pair).
THEOREM SingleUseAlways == Spec => []SingleUse
<1>1. Typed /\ Sessions => SingleUse
  BY DEF Sessions
<1> QED
  BY <1>1, TypeInit, TypeNext, SessionsInit, SessionsNext, PTL DEF Spec

-----------------------------------------------------------------------------
(***************************************************************************)
(* The end of sessions.  While a suspension or a reset has its second      *)
(* statement before it, no sign-in of that user is at work; a sign-in at   *)
(* work, and a token that nobody is about to delete, have the password of  *)
(* an active user.                                                         *)
(***************************************************************************)

Clean == ~Except({"overlap", "left"})
Signin(r) == req[r].kind = "signin"
Good(s, pw) == user[s].st = "active" /\ user[s].pw = pw

Staged == \A r \in Request :
    (Signin(r) => req[r].at \in SigningIn) /\ (req[r].at \in OfSignIn => Signin(r))
Apart == \A r, q \in Request : Signin(r) /\ req[q].at \in Ending => req[r].s # req[q].s
TokensGood == \A t \in tokens : EndingOf(t.s) \/ Good(t.s, t.pw)
SignInsGood == \A r \in Request : \A s \in Service :
    Signin(r) /\ req[r].at # "user" /\ req[r].s = {s} => s \notin live \/ Good(s, req[r].pw)

Ends == Staged /\ (Clean => Apart /\ TokensGood /\ SignInsGood)

\* r goes on, or ends or begins as something that is no sign-in
Onward(r) ==
    /\ \A q \in Request : q # r => req'[q] = req[q]
    /\ req[r].at \notin Ending /\ req'[r].at \notin Ending
    /\ \/ req'[r].kind # "signin" /\ req'[r].at \notin OfSignIn
       \/ /\ req'[r].kind = req[r].kind /\ req'[r].s = req[r].s /\ req'[r].pw = req[r].pw
          /\ Signin(r) => req'[r].at \in SigningIn /\ req[r].at # "user"
          /\ req'[r].at \in OfSignIn => Signin(r)

\* The rows that matter stay
Steady ==
    /\ mishaps \subseteq mishaps' /\ tokens' \subseteq tokens /\ live' \cap used \subseteq live
    /\ \A s \in Service : user'[s].st = user[s].st /\ user'[s].pw = user[s].pw

LEMMA EndsOnward ==
    ASSUME Typed, Ends, NEW r \in Request, Onward(r), Steady
    PROVE  Ends'
<1>1. Staged'
  BY DEF Ends, Staged, Onward, Signin
<1>2. ASSUME Clean'
      PROVE  Apart' /\ TokensGood' /\ SignInsGood'
  <2>1. Clean /\ Apart /\ TokensGood /\ SignInsGood
    BY <1>2 DEF Ends, Clean, Except, Steady
  <2>2. Apart'
    BY <2>1 DEF Apart, Onward, Signin
  <2>3. \A s \in Service : EndingOf(s) => EndingOf(s)'
    BY DEF EndingOf, Of, Onward
  <2>4. \A t \in tokens : t.s \in Service
    BY DEF Typed, TypeOK
  <2>5. TokensGood'
    BY <2>1, <2>3, <2>4 DEF TokensGood, Good, Steady
  <2>6. SignInsGood'
    <3> SUFFICES ASSUME NEW q \in Request, NEW s \in Service,
                        Signin(q)', req'[q].at # "user", req'[q].s = {s}, s \in live'
                 PROVE  Good(s, req[q].pw)' /\ req'[q].pw = req[q].pw
      BY DEF SignInsGood, Good
    <3>1. Signin(q) /\ req[q].at # "user" /\ req[q].s = {s} /\ req'[q].pw = req[q].pw
      BY DEF Onward, Signin
    <3>2. s \in used
      BY <3>1 DEF Typed, ReqOK, Idle, Ends, Staged, SigningIn
    <3>3. s \in live
      BY <3>2 DEF Steady
    <3> QED
      BY <2>1, <3>1, <3>3 DEF SignInsGood, Good, Steady
  <2> QED
    BY <2>2, <2>5, <2>6
<1> QED
  BY <1>1, <1>2 DEF Ends

LEMMA EndOnward ==
    ASSUME Typed, NEW r \in Request, req[r].at \notin Ending, End(r)
    PROVE  Onward(r)
BY DEF End, Idle, Onward, OfSignIn, Ending, Typed, ReqOK

LEMMA GotoOnward ==
    ASSUME Typed, NEW r \in Request, NEW l \in Stage \ Ending, Goto(r, l),
           req[r].at \notin Ending \cup {"user"},
           Signin(r) => l \in SigningIn, l \in OfSignIn => Signin(r)
    PROVE  Onward(r)
<1>1. req'[r] = [req[r] EXCEPT !.at = l] /\ req[r] \in Req
  BY DEF Goto, Typed, ReqOK
<1>2. \A q \in Request : q # r => req'[q] = req[q]
  BY DEF Goto, Typed, ReqOK
<1>3. /\ req'[r].at = l /\ req'[r].kind = req[r].kind /\ req'[r].s = req[r].s
      /\ req'[r].pw = req[r].pw
  BY <1>1 DEF Req
<1> QED
  BY <1>2, <1>3 DEF Onward, Signin

LEMMA BeginOnward ==
    ASSUME Typed, NEW r \in Request, NEW s \in Service, NEW state \in Req, Begin(r, s, state),
           state.kind # "signin", state.at \notin OfSignIn \cup Ending
    PROVE  Onward(r)
<1>1. /\ req'[r] = [state EXCEPT !.s = {s}] /\ req[r] = Idle
      /\ \A q \in Request : q # r => req'[q] = req[q]
  BY DEF Begin, Typed, ReqOK
<1>2. req'[r].kind = state.kind /\ req'[r].at = state.at
  BY <1>1 DEF Req
<1> QED
  BY <1>1, <1>2 DEF Onward, Idle, Ending

LEMMA FurtherOnward ==
    ASSUME Typed, NEW r \in Request, Further(r), req[r].kind = "create",
           req[r].at \notin Ending
    PROVE  Onward(r)
<1>a. req \in [Request -> Req] /\ req[r] \in Req
  BY DEF Typed, ReqOK
<1>1. ASSUME NEW l \in {"mint", "publish"}, NEW k \in Key,
             req' = [req EXCEPT ![r].at = l, ![r].key = k]
      PROVE  Onward(r)
  <2>1. req'[r] = [req[r] EXCEPT !.at = l, !.key = k] /\ \A q \in Request : q # r => req'[q] = req[q]
    BY <1>a, <1>1
  <2>2. req'[r].at = l /\ req'[r].kind = "create"
    BY <1>a, <2>1 DEF Req
  <2> QED
    BY <2>1, <2>2 DEF Onward, OfSignIn, Ending
<1> QED
  BY <1>1, EndOnward, SessionConstantsOK DEF Further

LEMMA KnownOnward ==
    ASSUME Typed, Staged, NEW r \in Request, NEW v \in Nat, Known(r, v),
           req[r].at \notin Ending \cup {"user"}
    PROVE  Onward(r)
<1>a. req \in [Request -> Req] /\ req[r] \in Req
  BY DEF Typed, ReqOK
<1>1. CASE req[r].kind = "signin" /\ req' = [req EXCEPT ![r].at = "issue", ![r].value = v]
  <2>1. /\ req'[r] = [req[r] EXCEPT !.at = "issue", !.value = v]
        /\ \A q \in Request : q # r => req'[q] = req[q]
    BY <1>a, <1>1
  <2>2. /\ req'[r].at = "issue" /\ req'[r].kind = req[r].kind /\ req'[r].s = req[r].s
        /\ req'[r].pw = req[r].pw
    BY <1>a, <2>1 DEF Req
  <2> QED
    BY <1>1, <2>1, <2>2 DEF Onward, Signin, SigningIn, Ending
<1>2. CASE req[r].kind = "integrate" /\ req' = [req EXCEPT ![r].at = "appid", ![r].key = AppId]
  <2>1. /\ req'[r] = [req[r] EXCEPT !.at = "appid", !.key = AppId]
        /\ \A q \in Request : q # r => req'[q] = req[q]
    BY <1>a, <1>2
  <2>2. req'[r].at = "appid" /\ req'[r].kind = "integrate"
    BY <1>a, <1>2, <2>1 DEF Req
  <2> QED
    BY <2>1, <2>2 DEF Onward, OfSignIn, Ending
<1> QED
  BY <1>1, <1>2, FurtherOnward, EndOnward DEF Known

LEMMA WorkOnward ==
    ASSUME Typed, Ends, NEW r \in Request,
           \/ Lookup(r) \/ FindKey(r) \/ Publish(r) \/ PublishId(r) \/ Unpublish(r)
           \/ MintKey(r) \/ PublishKey(r) \/ UnpublishKey(r) \/ InsertRole(r) \/ CheckStatus(r) \/ Answer(r) \/ Consume(r)
    PROVE  Ends'
<1> USE DEF rows, published
<1>1. Steady
  <2>1. mishaps \subseteq mishaps' /\ tokens' \subseteq tokens /\ live' = live
    BY DEF Lookup, FindKey, Publish, PublishId, TakeOver, Mishap, Unpublish, MintKey, PublishKey,
           UnpublishKey, InsertRole, CheckStatus, Answer, Consume
  <2>2. \A s \in Service : user'[s].st = user[s].st /\ user'[s].pw = user[s].pw
    <3>1. CASE InsertRole(r)
      <4>1. user' = user \/ user' = [user EXCEPT ![S(r)].role = TRUE]
        BY <3>1 DEF InsertRole
      <4> QED
        BY <4>1 DEF Typed, TypeOK
    <3>2. CASE ~InsertRole(r)
      <4>1. user' = user
        BY <3>2 DEF Lookup, FindKey, Publish, PublishId, Unpublish, MintKey, PublishKey,
                    UnpublishKey, CheckStatus, Answer, Consume
      <4> QED
        BY <4>1
    <3> QED
      BY <3>1, <3>2
  <2> QED
    BY <2>1, <2>2 DEF Steady
<1>2. Onward(r)
  <2>1. Staged /\ (req[r].at \in OfSignIn => Signin(r)) /\ (Signin(r) => req[r].at \in SigningIn)
    BY DEF Ends, Staged
  <2>2. CASE Lookup(r)
    <3>1. \A k \in Own(S(r)) : pool[k].value \in Nat
      BY DEF Own, Typed, TypeOK, Free
    <3>2. CASE Goto(r, "findkey")
      BY <2>2, <3>2, GotoOnward DEF Lookup, Stage, SigningIn, Ending, OfSignIn
    <3>3. ASSUME NEW k \in Own(S(r)), Known(r, pool[k].value)
          PROVE  Onward(r)
      BY <2>1, <2>2, <3>1, <3>3, KnownOnward DEF Lookup, Ending
    <3> QED
      BY <2>2, <3>2, <3>3 DEF Lookup
  <2>3. CASE FindKey(r)
    <3>1. PICK k \in Key : req' = [req EXCEPT ![r].at = "publish", ![r].key = k]
      BY <2>3, SessionConstantsOK DEF FindKey, Own
    <3>2. /\ req[r] \in Req /\ req'[r] = [req[r] EXCEPT !.at = "publish", !.key = k]
          /\ \A q \in Request : q # r => req'[q] = req[q]
      BY <3>1 DEF Typed, ReqOK
    <3>3. /\ req'[r].at = "publish" /\ req'[r].kind = req[r].kind /\ req'[r].s = req[r].s
          /\ req'[r].pw = req[r].pw
      BY <3>2 DEF Req
    <3> QED
      BY <2>3, <3>2, <3>3 DEF FindKey, Onward, Signin, SigningIn, Ending, OfSignIn
  <2>4. CASE Publish(r)
    <3>1. made + 1 \in Nat
      BY DEF Typed, ReqOK
    <3> QED
      BY <2>1, <2>4, <3>1, KnownOnward DEF Publish, Ending
  <2>5. CASE \/ Unpublish(r) \/ InsertRole(r) \/ CheckStatus(r) \/ Consume(r)
    <3>1. \/ End(r) /\ req[r].at \notin Ending
          \/ Goto(r, "drop") /\ req[r].at = "unpublish"
          \/ Goto(r, "lookup") /\ req[r].at \in {"role", "status"}
          \/ Goto(r, "status") /\ req[r].at = "consume"
      BY <2>5 DEF Unpublish, InsertRole, CheckStatus, Consume, Ending
    <3>2. ASSUME Goto(r, "drop"), req[r].at = "unpublish"
          PROVE  Onward(r)
      BY <2>1, <3>2, GotoOnward DEF Stage, Ending, SigningIn, OfSignIn
    <3>3. ASSUME NEW l \in {"lookup", "status"}, Goto(r, l),
                 req[r].at \in {"role", "status", "consume"}
          PROVE  Onward(r)
      BY <2>1, <3>3, GotoOnward DEF Stage, Ending, SigningIn, OfSignIn
    <3> QED
      BY <3>1, <3>2, <3>3, EndOnward
  <2>6. CASE PublishKey(r) \/ UnpublishKey(r) \/ Answer(r)
    BY <2>6, EndOnward DEF PublishKey, UnpublishKey, Answer, Ending
  <2>7. CASE PublishId(r)
    BY <2>7, EndOnward, FurtherOnward DEF PublishId, Ending
  <2>8. CASE MintKey(r)
    <3>1. CASE End(r)
      BY <2>8, <3>1, EndOnward DEF MintKey, Ending
    <3>2. CASE req' = [req EXCEPT ![r].at = "keyvar", ![r].token = made + 1]
      <4>1. /\ req[r] \in Req /\ req'[r] = [req[r] EXCEPT !.at = "keyvar", !.token = made + 1]
            /\ \A p \in Request : p # r => req'[p] = req[p]
        BY <3>2 DEF Typed, ReqOK
      <4>2. req'[r].at = "keyvar" /\ req'[r].kind = req[r].kind
        BY <4>1 DEF Req
      <4>3. req[r].kind # "signin"
        BY <2>1, <2>8 DEF MintKey, Signin, SigningIn
      <4> QED
        BY <2>8, <4>1, <4>2, <4>3 DEF MintKey, Onward, OfSignIn, Ending
    <3> QED
      BY <2>8, <3>1, <3>2 DEF MintKey
  <2> QED
    BY <2>2, <2>3, <2>4, <2>5, <2>6, <2>7, <2>8
<1> QED
  BY <1>1, <1>2, EndsOnward

LEMMA AskOnward ==
    ASSUME Typed, Ends, NEW r \in Request,
           \/ PlainAsk(r)
           \/ \E s \in Service : CreateHidden(r, s) \/ \E has \in BOOLEAN : SetRole(r, s, has)
           \/ \E t \in tokens : Logout(r, t)
    PROVE  Ends'
<1> USE DEF rows, published
<1>1. Steady
  <2>1. mishaps \subseteq mishaps' /\ tokens' \subseteq tokens /\ live' \cap used \subseteq live
    BY DEF PlainAsk, Integrate, Verify, Rotate, DeleteService, CreateKey, CreateService, DeleteKey,
           CreateHidden, SetRole, Logout, Mishap
  <2>2. \A s \in Service : user'[s].st = user[s].st /\ user'[s].pw = user[s].pw
    <3>1. CASE \E s \in Service : \E has \in BOOLEAN : SetRole(r, s, has)
      BY <3>1 DEF SetRole, Typed, TypeOK
    <3>2. CASE ~\E s \in Service : \E has \in BOOLEAN : SetRole(r, s, has)
      <4>1. user' = user
        BY <3>2 DEF PlainAsk, Integrate, Verify, Rotate, DeleteService, CreateKey, CreateService,
                    DeleteKey, CreateHidden, Logout
      <4> QED
        BY <4>1
    <3> QED
      BY <3>1, <3>2
  <2> QED
    BY <2>1, <2>2 DEF Steady
<1>2. Onward(r)
  <2>1. CASE PlainAsk(r)
    BY <2>1, AskingPlainly, BeginOnward DEF Plain
  <2>2. CASE ~PlainAsk(r)
    <3>1. req' = req /\ req[r] = Idle
      BY <2>2 DEF CreateHidden, SetRole, Logout
    <3> QED
      BY <3>1 DEF Onward, Idle, Ending, OfSignIn
  <2> QED
    BY <2>1, <2>2
<1> QED
  BY <1>1, <1>2, EndsOnward

\* Rows and requests stay as they are
LEMMA EndsStill ==
    ASSUME Ends, UNCHANGED <<rows, req>>, mishaps \subseteq mishaps'
    PROVE  Ends'
<1>1. Clean' => Clean
  BY DEF Clean, Except
<1> QED
  BY <1>1 DEF Ends, Staged, Apart, TokensGood, SignInsGood, Signin, Good, EndingOf, Of, rows

\* Only an event that is one of the two mishaps
LEMMA EndsMishap ==
    ASSUME Typed, Ends, Crash \/ \E r \in Request : Dropped(r) \/ Abandon(r)
    PROVE  Ends'
<1>1. CASE Crash /\ \A r \in Request : req[r] = Idle
  <2>1. req' = req /\ UNCHANGED rows /\ mishaps \subseteq mishaps'
    BY <1>1 DEF Crash, Mishap, Typed, ReqOK
  <2> QED
    BY <2>1, EndsStill
<1>2. CASE ~(Crash /\ \A r \in Request : req[r] = Idle)
  <2> DEFINE Cut ==
        /\ "left" \in mishaps'
        /\ \A q \in Request : \/ req'[q] = req[q] \/ req'[q] = Idle
                              \/ /\ req[q].kind # "signin" /\ req'[q].kind = req[q].kind
                                 /\ req'[q].at \in {"drop", "mint", "publish"}
  <2>1. Cut
    <3>1. CASE Crash
      <4>1. \E r \in Request : req[r] # Idle
        BY <1>2, <3>1
      <4> QED
        BY <3>1, <4>1 DEF Crash, Mishap, Named
    <3>2. ASSUME NEW r \in Request, Dropped(r)
          PROVE  Cut
      <4>1. "left" \in mishaps' /\ req[r] \in Req /\ req \in [Request -> Req]
        BY <3>2 DEF Dropped, Mishap, Typed, ReqOK
      <4>2. CASE req[r].at = "unpublish" /\ Goto(r, "drop")
        <5>1. req' = [req EXCEPT ![r].at = "drop"] /\ req[r].kind # "signin"
          BY <4>2 DEF Goto, Ends, Staged, Signin, SigningIn
        <5> QED
          BY <4>1, <5>1 DEF Req
      <4>3. CASE End(r)
        BY <4>1, <4>3 DEF End
      <4>4. ASSUME NEW l \in {"mint", "publish"}, NEW k \in Key, req[r].kind = "create",
                   req' = [req EXCEPT ![r].at = l, ![r].key = k]
            PROVE  Cut
        <5>1. req'[r] = [req[r] EXCEPT !.at = l, !.key = k] /\ \A q \in Request : q # r => req'[q] = req[q]
          BY <4>1, <4>4
        <5>2. req'[r].at = l /\ req'[r].kind = "create"
          BY <4>1, <4>4, <5>1 DEF Req
        <5> QED
          BY <4>1, <4>4, <5>1, <5>2
      <4> QED
        BY <3>2, <4>2, <4>3, <4>4, SessionConstantsOK DEF Dropped, Further
    <3>3. ASSUME NEW r \in Request, Abandon(r)
          PROVE  Cut
      BY <3>3 DEF Abandon, Mishap, End, Typed, ReqOK
    <3> QED
      BY <3>1, <3>2, <3>3
  <2>2. ~Clean'
    BY <2>1 DEF Clean, Except
  <2>3. Staged'
    BY <2>1 DEF Ends, Staged, Signin, Idle, OfSignIn
  <2> QED
    BY <2>2, <2>3 DEF Ends
<1> QED
  BY <1>1, <1>2

\* A sign-in begins with the user's password, or that of the token which it shows
LEMMA EndsSignIn ==
    ASSUME Typed, Ends, NEW r \in Request,
           \/ \E s \in Service : Register(r, s) \/ Login(r, s)
           \/ \E t \in tokens : Refresh(r, t)
    PROVE  Ends'
<1> USE DEF rows
<1>1. PICK s \in Service :
        /\ (\E state : SignIn(r, s, state)) /\ UNCHANGED <<live, used, user, tokens>>
        /\ req'[r].at \in {"user", "lookup", "consume"} /\ req'[r].kind = "signin"
        /\ req'[r].s = {s} /\ \A q \in Request : q # r => req'[q] = req[q]
        /\ \/ req'[r].at = "user" \/ Good(s, req'[r].pw)
           \/ \E t \in tokens : t.s = s /\ req'[r].pw = t.pw
  <2> DEFINE Started(s, state) ==
        /\ SignIn(r, s, state) /\ UNCHANGED <<live, used, user, tokens>>
        /\ req'[r].at \in {"user", "lookup", "consume"} /\ req'[r].kind = "signin"
        /\ req'[r].s = {s} /\ \A q \in Request : q # r => req'[q] = req[q]
        /\ \/ req'[r].at = "user" \/ Good(s, req'[r].pw)
           \/ \E t \in tokens : t.s = s /\ req'[r].pw = t.pw
  <2>1. ASSUME NEW s \in Service, Register(r, s)
        PROVE  Started(s, [Idle EXCEPT !.at = "user"])
    BY <2>1 DEF Register, SignIn, Begin, Idle, Typed, ReqOK
  <2>2. ASSUME NEW s \in Service, Login(r, s)
        PROVE  Started(s, [Idle EXCEPT !.at = "lookup", !.pw = user[s].pw])
    BY <2>2 DEF Login, SignIn, Begin, Idle, Good, Typed, ReqOK
  <2>3. ASSUME NEW t \in tokens, Refresh(r, t)
        PROVE  /\ t.s \in Service
               /\ Started(t.s, [Idle EXCEPT !.at = "consume", !.token = t.id,
                                           !.session = t.session, !.pw = t.pw])
    <3> DEFINE state == [Idle EXCEPT !.at = "consume", !.token = t.id, !.session = t.session,
                                     !.pw = t.pw]
    <3>1. /\ SignIn(r, t.s, state) /\ UNCHANGED <<live, used, user, tokens>>
          /\ t.s \in Service /\ req \in [Request -> Req]
      BY <2>3 DEF Refresh, Typed, TypeOK, ReqOK
    <3>2. req' = [req EXCEPT ![r] = [[state EXCEPT !.kind = "signin"] EXCEPT !.s = {t.s}]]
      BY <3>1 DEF SignIn, Begin
    <3> HIDE DEF state
    <3>3. /\ req'[r] = [[state EXCEPT !.kind = "signin"] EXCEPT !.s = {t.s}]
          /\ \A q \in Request : q # r => req'[q] = req[q]
      BY <3>1, <3>2
    <3>4. /\ req'[r].at = "consume" /\ req'[r].kind = "signin" /\ req'[r].s = {t.s}
          /\ req'[r].pw = t.pw
      BY <3>3 DEF state, Idle
    <3> QED
      BY <3>1, <3>3, <3>4 DEF state
  <2> QED
    BY <2>1, <2>2, <2>3
<1>2. Staged'
  BY <1>1 DEF Ends, Staged, Signin, SigningIn
<1>3. ASSUME Clean'
      PROVE  Apart' /\ TokensGood' /\ SignInsGood'
  <2>1. Clean /\ Apart /\ TokensGood /\ SignInsGood /\ ~EndingOf(s)
    BY <1>1, <1>3 DEF SignIn, Mishap, Named, Clean, Except, Ends
  <2>2. \A q \in Request : req'[q].at \in Ending => q # r /\ req[q].at \in Ending /\ req[q].s # {s}
    BY <1>1, <2>1 DEF EndingOf, Of, Ending
  <2>3. Apart'
    BY <1>1, <2>1, <2>2 DEF Apart, Signin
  <2>4. \A x \in Service : EndingOf(x) => EndingOf(x)'
    <3>1. req[r] = Idle
      BY <1>1 DEF SignIn, Begin
    <3>2. \A q \in Request : req[q].at \in Ending => q # r
      BY <3>1 DEF Idle, Ending
    <3> QED
      BY <1>1, <3>2 DEF EndingOf, Of
  <2>5. TokensGood'
    BY <1>1, <2>1, <2>4 DEF TokensGood, Good, Typed, TypeOK
  <2>6. req'[r].at = "user" \/ Good(s, req'[r].pw)
    BY <1>1, <2>1 DEF TokensGood
  <2>7. SignInsGood'
    BY <1>1, <2>1, <2>6 DEF SignInsGood, Signin, Good
  <2> QED
    BY <2>3, <2>5, <2>7
<1> QED
  BY <1>2, <1>3 DEF Ends

\* A user is made where there was none: nobody had signed him in
LEMMA EndsInsertUser ==
    ASSUME Typed, Ends, NEW r \in Request, InsertUser(r)
    PROVE  Ends'
<1> USE DEF rows
<1>0. PICK u \in Service : S(r) = u /\ req[r].s = {u}
  BY ServiceType DEF InsertUser
<1>1. /\ req[r].at = "user" /\ S(r) = u /\ req[r].s = {u} /\ Signin(r)
      /\ req[r] \in Req /\ req \in [Request -> Req]
  BY <1>0 DEF InsertUser, Typed, ReqOK, Ends, Staged, OfSignIn
<1>2. CASE ~(u \in live /\ user[u].st = "none")
  <2>1. Onward(r)
    BY <1>1, <1>2, EndOnward DEF InsertUser, Ending
  <2>2. Steady
    BY <1>1, <1>2 DEF InsertUser, Steady
  <2> QED
    BY <2>1, <2>2, EndsOnward
<1>3. CASE u \in live /\ user[u].st = "none"
  <2>1. /\ user' = [user EXCEPT ![u] = [st |-> "active", pw |-> 1, role |-> FALSE]]
        /\ req' = [req EXCEPT ![r].at = "role", ![r].pw = 1]
        /\ UNCHANGED <<live, used, tokens, mishaps>>
    BY <1>1, <1>3 DEF InsertUser
  <2>2. /\ req'[r].at = "role" /\ req'[r].kind = req[r].kind /\ req'[r].s = req[r].s
        /\ req'[r].pw = 1 /\ \A q \in Request : q # r => req'[q] = req[q]
    <3>1. req'[r] = [req[r] EXCEPT !.at = "role", !.pw = 1]
      BY <1>1, <2>1
    <3> QED
      BY <1>1, <2>1, <3>1 DEF Req
  <2>3. /\ user'[u].st = "active" /\ user'[u].pw = 1
        /\ \A x \in Service : x # u => user'[x] = user[x]
    BY <2>1 DEF Typed, TypeOK
  <2>4. Staged'
    BY <1>1, <2>2 DEF Ends, Staged, Signin, SigningIn
  <2>5. ASSUME Clean'
        PROVE  Apart' /\ TokensGood' /\ SignInsGood'
    <3>1. Clean /\ Apart /\ TokensGood /\ SignInsGood
      BY <2>1, <2>5 DEF Clean, Except, Ends
    <3>2. Apart'
      BY <2>2, <3>1 DEF Apart, Signin, Ending
    <3>3. \A x \in Service : EndingOf(x) => EndingOf(x)'
      BY <1>1, <2>2 DEF EndingOf, Of, Ending
    <3>4. \A t \in tokens : t.s \in Service /\ t.s # u
      BY <1>3 DEF Typed, TypeOK
    <3>5. TokensGood'
      BY <2>1, <2>3, <3>1, <3>3, <3>4 DEF TokensGood, Good
    <3>6. ASSUME NEW q \in Request, NEW s \in Service,
                 Signin(q)', req'[q].at # "user", req'[q].s = {s}, s \in live'
          PROVE  user'[s].st = "active" /\ user'[s].pw = req'[q].pw
      <4>1. CASE q = r
        BY <1>1, <2>2, <2>3, <3>6, <4>1
      <4>2. CASE q # r
        <5>1. Good(s, req[q].pw)
          BY <2>1, <2>2, <3>1, <3>6, <4>2 DEF SignInsGood, Signin
        <5>2. s # u
          BY <1>3, <5>1 DEF Good
        <5> QED
          BY <2>2, <2>3, <4>2, <5>1, <5>2 DEF Good
      <4> QED
        BY <4>1, <4>2
    <3>7. SignInsGood'
      BY <3>6 DEF SignInsGood, Good
    <3> QED
      BY <3>2, <3>5, <3>7
  <2> QED
    BY <2>4, <2>5 DEF Ends
<1> QED
  BY <1>2, <1>3

\* The token that is issued has the password with which the sign-in began
LEMMA EndsIssue ==
    ASSUME Typed, Ends, NEW r \in Request, Issue(r)
    PROVE  Ends'
<1> USE DEF rows
<1>1. PICK s \in Service : S(r) = s /\ req[r].s = {s}
  BY ServiceType DEF Issue
<1>2. /\ req[r].at = "issue" /\ Signin(r) /\ UNCHANGED <<live, used, user, mishaps>>
      /\ req' = [req EXCEPT ![r] = Idle]
  BY DEF Issue, End, Ends, Staged, OfSignIn
<1>3. req'[r] = Idle /\ \A q \in Request : q # r => req'[q] = req[q]
  BY <1>2 DEF Typed, ReqOK
<1>4. Staged'
  BY <1>3 DEF Ends, Staged, Signin, Idle, OfSignIn
<1>5. ASSUME Clean'
      PROVE  Apart' /\ TokensGood' /\ SignInsGood'
  <2>1. Clean /\ Apart /\ TokensGood /\ SignInsGood
    BY <1>2, <1>5 DEF Clean, Except, Ends
  <2>2. Apart' /\ SignInsGood'
    BY <1>2, <1>3, <2>1 DEF Apart, SignInsGood, Signin, Good, Idle, Ending
  <2>3. \A x \in Service : EndingOf(x) => EndingOf(x)'
    BY <1>2, <1>3 DEF EndingOf, Of, Ending
  <2>4. \A t \in tokens' :
        t \in tokens \/ (t.s = s /\ t.pw = req[r].pw /\ user[s].st # "none")
    <3> DEFINE new == [s |-> S(r), id |-> made + 1, pw |-> req[r].pw,
                       session |-> IF req[r].session = 0 THEN made + 1 ELSE req[r].session]
    <3>1. new.s = s /\ new.pw = req[r].pw
      BY <1>1
    <3>2. tokens' = tokens \/ (tokens' = tokens \cup {new} /\ user[s].st # "none")
      BY <1>1 DEF Issue
    <3> HIDE DEF new
    <3> QED
      BY <3>1, <3>2
  <2>5. user[s].st # "none" => Good(s, req[r].pw)
    BY <1>1, <1>2, <2>1 DEF SignInsGood, Typed, TypeOK, NoUser
  <2>6. \A t \in tokens : t.s \in Service
    BY DEF Typed, TypeOK
  <2>7. TokensGood'
    BY <1>2, <2>1, <2>3, <2>4, <2>5, <2>6 DEF TokensGood, Good
  <2> QED
    BY <2>2, <2>7
<1> QED
  BY <1>4, <1>5 DEF Ends

\* The second statement of a suspension or a reset, and the deletion of a service: the
\* tokens go
LEMMA EndsTokens ==
    ASSUME Typed, Ends, NEW r \in Request, EndSessions(r) \/ DropService(r)
    PROVE  Ends'
<1> USE DEF rows
<1>1. PICK s \in Service : S(r) = s /\ req[r].s = {s}
  BY ServiceType DEF EndSessions, DropService, Ending
<1>2. /\ tokens' = {t \in tokens : t.s # s} /\ UNCHANGED mishaps
      /\ live' \subseteq live /\ req' = [req EXCEPT ![r] = Idle]
      /\ \A x \in Service : x # s => user'[x] = user[x]
      /\ s \in live' => user'[s] = user[s]
  BY <1>1 DEF EndSessions, DropService, End, Typed, TypeOK
<1>3. req'[r] = Idle /\ \A q \in Request : q # r => req'[q] = req[q]
  BY <1>2 DEF Typed, ReqOK
<1>4. Staged'
  BY <1>3 DEF Ends, Staged, Signin, Idle, OfSignIn
<1>5. ASSUME Clean'
      PROVE  Apart' /\ TokensGood' /\ SignInsGood'
  <2>1. Clean /\ Apart /\ TokensGood /\ SignInsGood
    BY <1>2, <1>5 DEF Clean, Except, Ends
  <2>2. Apart'
    BY <1>3, <2>1 DEF Apart, Signin, Idle, Ending
  <2>3. \A x \in Service : x # s /\ EndingOf(x) => EndingOf(x)'
    BY <1>1, <1>3 DEF EndingOf, Of
  <2>4. TokensGood'
    BY <1>2, <2>1, <2>3 DEF TokensGood, Good, Typed, TypeOK
  <2>5. SignInsGood'
    BY <1>2, <1>3, <2>1 DEF SignInsGood, Signin, Good, Idle
  <2> QED
    BY <2>2, <2>4, <2>5
<1> QED
  BY <1>4, <1>5 DEF Ends

\* Its first statement: no sign-in of the user is at work, or it is a mishap
LEMMA EndsHold ==
    ASSUME Typed, Ends, NEW r \in Request, NEW s \in Service,
           ResetPassword(r, s) \/ \E st \in {"active", "suspended"} : SetStatus(r, s, st)
    PROVE  Ends'
<1> USE DEF rows
<1>1. /\ req[r] = Idle /\ UNCHANGED <<live, used, tokens>>
      /\ \A x \in Service : x # s => user'[x] = user[x]
      /\ mishaps \subseteq mishaps' /\ user[s].st # "none"
  BY DEF ResetPassword, SetStatus, Begin, Mishap, Typed, TypeOK
<1>2. /\ req'[r].kind = "none" /\ req'[r].s = {s}
      /\ \A q \in Request : q # r => req'[q] = req[q]
      /\ req'[r].at \in Ending \cup {"answer"}
  <2>1. PICK l \in Ending \cup {"answer"} : Begin(r, s, [Idle EXCEPT !.at = l])
    <3>1. CASE ResetPassword(r, s)
      BY <3>1 DEF ResetPassword, Ending
    <3>2. CASE SetStatus(r, s, "suspended")
      BY <3>2 DEF SetStatus, Ending
    <3>3. CASE SetStatus(r, s, "active")
      BY <3>3 DEF SetStatus
    <3> QED
      BY <3>1, <3>2, <3>3
  <2> QED
    BY <2>1 DEF Begin, Idle, Typed, ReqOK
<1>3. \/ req'[r].at \in Ending /\ ("overlap" \in mishaps' \/ ~Signing(s))
      \/ req'[r].at = "answer" /\ user'[s].st = "active" /\ user'[s].pw = user[s].pw
  <2>1. CASE ResetPassword(r, s)
    BY <2>1 DEF ResetPassword, Begin, Idle, Mishap, Named, Ending, Typed, ReqOK
  <2>2. CASE SetStatus(r, s, "suspended")
    BY <2>2 DEF SetStatus, Begin, Idle, Mishap, Named, Ending, Typed, ReqOK
  <2>3. CASE SetStatus(r, s, "active")
    BY <2>3 DEF SetStatus, Begin, Idle, Typed, TypeOK, ReqOK
  <2> QED
    BY <2>1, <2>2, <2>3
<1>4. Staged'
  BY <1>2 DEF Ends, Staged, Signin, Ending, OfSignIn
<1>5. ASSUME Clean'
      PROVE  Apart' /\ TokensGood' /\ SignInsGood'
  <2>1. Clean /\ Staged /\ Apart /\ TokensGood /\ SignInsGood
    BY <1>1, <1>5 DEF Clean, Except, Ends
  <2>2. req'[r].at \in Ending => \A q \in Request : Signin(q) => req[q].s # {s}
    BY <1>3, <1>5, <2>1 DEF Clean, Except, Signing, Of, Staged, Ending
  <2>3. Apart'
    BY <1>2, <2>1, <2>2 DEF Apart, Signin, Ending
  <2>4. \A x \in Service : EndingOf(x) => EndingOf(x)'
    <3>1. \A q \in Request : req[q].at \in Ending => q # r
      BY <1>1 DEF Idle, Ending
    <3> QED
      BY <1>2, <3>1 DEF EndingOf, Of
  <2>5. TokensGood'
    <3>1. CASE req'[r].at \in Ending
      <4>1. EndingOf(s)'
        BY <1>2, <3>1 DEF EndingOf, Of
      <4> QED
        BY <1>1, <2>1, <2>4, <4>1 DEF TokensGood, Good, Typed, TypeOK
    <3>2. CASE req'[r].at = "answer"
      BY <1>1, <1>3, <2>1, <2>4, <3>2 DEF TokensGood, Good, Ending, Typed, TypeOK
    <3> QED
      BY <1>2, <3>1, <3>2
  <2>6. SignInsGood'
    <3> SUFFICES ASSUME NEW q \in Request, NEW x \in Service,
                        Signin(q)', req'[q].at # "user", req'[q].s = {x}, x \in live'
                 PROVE  user'[x].st = "active" /\ user'[x].pw = req'[q].pw
      BY DEF SignInsGood, Good
    <3>1. q # r /\ Signin(q) /\ req'[q] = req[q]
      BY <1>2 DEF Signin
    <3>2. Good(x, req[q].pw)
      BY <1>1, <2>1, <3>1 DEF SignInsGood
    <3>3. CASE x # s
      BY <1>1, <3>1, <3>2, <3>3 DEF Good
    <3>4. CASE x = s
      <4>1. req'[r].at \notin Ending
        BY <2>2, <3>1, <3>4
      <4> QED
        BY <1>3, <3>1, <3>2, <3>4, <4>1 DEF Good
    <3> QED
      BY <3>3, <3>4
  <2> QED
    BY <2>3, <2>5, <2>6
<1> QED
  BY <1>4, <1>5 DEF Ends

LEMMA EndsNext == Typed /\ Ends /\ [Next]_vars => Ends'
<1> SUFFICES ASSUME Typed, Ends, [Next]_vars PROVE Ends'
  OBVIOUS
<1>1. CASE UNCHANGED vars \/ \E k \in Key : Hand(k)
  BY <1>1, HandStill, EndsStill DEF vars
<1>2. ASSUME NEW r \in Request, Asking(r)
      PROVE  Ends'
  BY <1>2, AskOnward, EndsSignIn, EndsHold DEF Asking, PlainAsk
<1>3. ASSUME NEW r \in Request, Working(r)
      PROVE  Ends'
  BY <1>3, WorkOnward, EndsInsertUser, EndsIssue, EndsTokens DEF Working
<1> QED
  BY <1>1, <1>2, <1>3, EndsMishap DEF Next, Hand

LEMMA EndsInit == Init => Ends
BY DEF Init, Ends, Staged, Apart, TokensGood, SignInsGood, Signin, Idle, OfSignIn

\* Suspensions and resets leave no refresh token of a user who may not sign in, or of an
\* earlier password, unless a sign-in overlapped or a statement failed
\* (update_app_user_status, reset_app_user_password).
THEOREM SessionsEndAlways == Spec => []SessionsEnd
<1>1. Typed /\ Ends => SessionsEnd
  <2> SUFFICES ASSUME Typed, Ends, Quiet, Clean, NEW t \in tokens
               PROVE  user[t.s].st = "active" /\ t.pw = user[t.s].pw
    BY DEF SessionsEnd, Clean
  <2>1. ~EndingOf(t.s)
    BY DEF Quiet, EndingOf, Of, Idle, Ending
  <2> QED
    BY <2>1 DEF Ends, TokensGood, Good
<1> QED
  BY <1>1, TypeInit, TypeNext, EndsInit, EndsNext, PTL DEF Spec

-----------------------------------------------------------------------------
(***************************************************************************)
(* What a step does to the requests: one of them goes on, and only certain *)
(* steps reach certain stages.                                             *)
(***************************************************************************)

\* r alone moves; what has happened has happened
Alone(r) ==
    /\ \A q \in Request : q # r => req'[q] = req[q]
    /\ mishaps \subseteq mishaps' /\ used \subseteq used'

\* Nobody becomes a user, or loses his role but by SetRole
RolesStay == \A s \in Service : user'[s].st # "none" =>
    user[s].st # "none" /\ (user[s].role => user'[s].role \/ "unroled" \in mishaps')

\* A request that begins
LEMMA AskShape ==
    ASSUME Typed, NEW r \in Request, Asking(r)
    PROVE  /\ Alone(r) /\ req[r] = Idle /\ live \subseteq live' /\ live' \cap used \subseteq live
           /\ pool' = pool /\ keyVars' = keyVars /\ signed' = signed /\ RolesStay
           /\ req'[r].at \notin {"keyvar", "unkeyvar"} => keys' = keys
           /\ req'[r].at \notin {"issue", "drop", "role"}
           /\ req'[r].kind = "rotate" => "rotated" \in mishaps'
           /\ req'[r].at = "unpublish" => \E s \in Service : DeleteService(r, s)
           /\ req'[r].at = "keyvar" => \E s \in Service : CreateKey(r, s)
           /\ req'[r].at = "unkeyvar" => \E x \in keys : DeleteKey(r, x)
<1> USE DEF rows, published
<1> DEFINE Shape ==
      /\ \A q \in Request : q # r => req'[q] = req[q]
      /\ req[r] = Idle /\ live \subseteq live' /\ live' \cap used \subseteq live
      /\ mishaps \subseteq mishaps' /\ used \subseteq used'
      /\ pool' = pool /\ keyVars' = keyVars /\ signed' = signed /\ RolesStay
      Stays == /\ keys' = keys
               /\ req'[r].at \notin {"issue", "drop", "role", "unpublish", "keyvar", "unkeyvar"}
<1>a. req \in [Request -> Req]
  BY DEF Typed, ReqOK
<1>b. ASSUME user' = user PROVE RolesStay
  BY <1>b DEF RolesStay
<1>1. ASSUME NEW s \in Service, Integrate(r, s) \/ Verify(r, s)
      PROVE  Shape /\ Stays /\ req'[r].kind # "rotate"
  BY <1>1, <1>a, <1>b DEF Integrate, Verify, Begin, Idle
<1>2. ASSUME NEW s \in Service, Rotate(r, s) PROVE Shape /\ Stays /\ "rotated" \in mishaps'
  BY <1>2, <1>a, <1>b DEF Rotate, Begin, Mishap, Idle
<1>3. ASSUME NEW s \in Service, CreateHidden(r, s) \/ \E has \in BOOLEAN : SetRole(r, s, has)
      PROVE  Shape /\ Stays /\ req'[r].kind # "rotate"
  <2>1. RolesStay
    <3>1. ASSUME NEW has \in BOOLEAN, SetRole(r, s, has) PROVE RolesStay
      BY <3>1 DEF SetRole, Mishap, Named, RolesStay, Typed, TypeOK
    <3> QED
      BY <1>3, <1>b, <3>1 DEF CreateHidden
  <2> QED
    BY <1>3, <1>a, <2>1 DEF CreateHidden, SetRole, Mishap, Named, Idle
<1>4. ASSUME NEW s \in Service, DeleteService(r, s)
      PROVE  Shape /\ keys' = keys /\ req'[r].at = "unpublish" /\ req'[r].kind # "rotate"
  BY <1>4, <1>a, <1>b DEF DeleteService, Begin, Mishap, Named, Idle
<1>5. ASSUME NEW s \in Service, NEW l \in Creating, NEW k \in Key, CreateService(r, s, l, k)
      PROVE  Shape /\ Stays /\ req'[r].kind # "rotate"
  BY <1>5, <1>a, <1>b DEF CreateService, Creating, Begin, Idle
<1>6. ASSUME NEW s \in Service, CreateKey(r, s)
      PROVE  Shape /\ req'[r].at = "keyvar" /\ req'[r].kind # "rotate"
  BY <1>6, <1>a, <1>b DEF CreateKey, Begin, Mishap, Named, Idle
<1>7. ASSUME NEW s \in Service, Register(r, s) \/ Login(r, s)
      PROVE  Shape /\ Stays /\ req'[r].kind # "rotate"
  BY <1>7, <1>a, <1>b DEF Register, Login, SignIn, Begin, Mishap, Named, Idle
<1>8. ASSUME NEW s \in Service,
             ResetPassword(r, s) \/ \E st \in {"active", "suspended"} : SetStatus(r, s, st)
      PROVE  Shape /\ Stays /\ req'[r].kind # "rotate"
  <2>1. PICK l \in {"reset", "suspended", "answer"} : Begin(r, s, [Idle EXCEPT !.at = l])
    BY <1>8 DEF ResetPassword, SetStatus
  <2>2. /\ req'[r] = [[Idle EXCEPT !.at = l] EXCEPT !.s = {s}] /\ req[r] = Idle
        /\ \A q \in Request : q # r => req'[q] = req[q]
    BY <1>a, <2>1 DEF Begin
  <2>3. req'[r].at = l /\ req'[r].kind = "none"
    BY <2>2 DEF Idle
  <2>4. RolesStay
    <3>1. ASSUME ResetPassword(r, s) PROVE RolesStay
      BY <3>1 DEF ResetPassword, RolesStay, Typed, TypeOK
    <3>2. ASSUME NEW st \in {"active", "suspended"}, SetStatus(r, s, st) PROVE RolesStay
      BY <3>2 DEF SetStatus, RolesStay, Typed, TypeOK
    <3> QED
      BY <1>8, <3>1, <3>2
  <2> QED
    BY <1>8, <2>2, <2>3, <2>4 DEF ResetPassword, SetStatus, Mishap
<1>9. ASSUME NEW x \in keys, DeleteKey(r, x)
      PROVE  Shape /\ req'[r].at = "unkeyvar" /\ req'[r].kind # "rotate"
  BY <1>9, <1>a, <1>b DEF DeleteKey, Begin, Mishap, Named, Idle
<1>10. ASSUME NEW t \in tokens, Refresh(r, t)
       PROVE  Shape /\ Stays /\ req'[r].kind # "rotate"
  BY <1>10, <1>a, <1>b DEF Refresh, SignIn, Begin, Mishap, Named, Idle
<1>11. ASSUME NEW t \in tokens, Logout(r, t)
       PROVE  Shape /\ Stays /\ req'[r].kind # "rotate"
  BY <1>11, <1>a, <1>b DEF Logout, Idle
<1>12. Shape
  BY <1>1, <1>2, <1>3, <1>4, <1>5, <1>6, <1>7, <1>8, <1>9, <1>10, <1>11 DEF Asking
<1>13. req'[r].kind = "rotate" => "rotated" \in mishaps'
  BY <1>1, <1>2, <1>3, <1>4, <1>5, <1>6, <1>7, <1>8, <1>9, <1>10, <1>11 DEF Asking
<1>14. \/ Stays
       \/ keys' = keys /\ req'[r].at = "unpublish" /\ \E s \in Service : DeleteService(r, s)
       \/ req'[r].at = "keyvar" /\ \E s \in Service : CreateKey(r, s)
       \/ req'[r].at = "unkeyvar" /\ \E x \in keys : DeleteKey(r, x)
  BY <1>1, <1>2, <1>3, <1>4, <1>5, <1>6, <1>7, <1>8, <1>9, <1>10, <1>11 DEF Asking
<1> QED
  BY <1>12, <1>13, <1>14 DEF Alone

\* A request that goes on keeps its service, its kind and its token until it ends
LEMMA WorkShape ==
    ASSUME Typed, NEW r \in Request, Working(r)
    PROVE  /\ Alone(r) /\ req[r].at # "idle"
           /\ \/ req'[r] = Idle
              \/ /\ req'[r].s = req[r].s /\ req'[r].kind = req[r].kind
                 /\ req'[r].at = "issue" => Lookup(r) \/ Publish(r)
                 /\ req'[r].at = "drop" => Unpublish(r)
                 /\ req'[r].at = "role" => InsertUser(r)
                 /\ req'[r].at = "keyvar" => MintKey(r)
                 /\ req'[r].at \notin {"unpublish", "unkeyvar", "idle"}
<1> USE DEF rows, published
<1> DEFINE Goes(at) ==
      req'[r].s = req[r].s /\ req'[r].kind = req[r].kind /\ req'[r].at = at
           Others == \A q \in Request : q # r => req'[q] = req[q]
<1>a. req \in [Request -> Req] /\ req[r] \in Req
  BY DEF Typed, ReqOK
<1>b. ASSUME End(r) PROVE req'[r] = Idle /\ Others
  BY <1>a, <1>b DEF End
<1>c. ASSUME NEW l, Goto(r, l)
      PROVE  Goes(l) /\ Others
  <2>1. req'[r] = [req[r] EXCEPT !.at = l] /\ Others
    BY <1>a, <1>c DEF Goto
  <2> QED
    BY <1>a, <2>1 DEF Req
<1>d. ASSUME NEW l, NEW k, req' = [req EXCEPT ![r].at = l, ![r].key = k]
      PROVE  Goes(l) /\ Others
  <2>1. req'[r] = [req[r] EXCEPT !.at = l, !.key = k] /\ Others
    BY <1>a, <1>d
  <2> QED
    BY <1>a, <2>1 DEF Req
<1>e. ASSUME Further(r)
      PROVE  (req'[r] = Idle \/ Goes("mint") \/ Goes("publish")) /\ Others
  BY <1>b, <1>d, <1>e DEF Further
<1>f. ASSUME NEW v, Known(r, v)
      PROVE  /\ \/ req'[r] = Idle \/ Goes("issue") \/ Goes("appid") \/ Goes("mint")
                \/ Goes("publish")
             /\ Others
  <2>1. CASE End(r)
    BY <2>1, <1>b
  <2>2. CASE req' = [req EXCEPT ![r].at = "issue", ![r].value = v]
    <3>1. req'[r] = [req[r] EXCEPT !.at = "issue", !.value = v] /\ Others
      BY <1>a, <2>2
    <3> QED
      BY <1>a, <3>1 DEF Req
  <2>3. CASE Further(r)
    BY <1>e, <2>3
  <2>4. CASE req' = [req EXCEPT ![r].at = "appid", ![r].key = AppId]
    BY <1>d, <2>4
  <2> QED
    BY <1>f, <2>1, <2>2, <2>3, <2>4 DEF Known
<1> HIDE DEF Goes, Others
<1> DEFINE Shape(ends) ==
      /\ Others
      /\ mishaps \subseteq mishaps' /\ used \subseteq used' /\ req[r].at # "idle"
      /\ req'[r] = Idle \/ \E l \in ends : Goes(l)
<1>1. ASSUME Lookup(r) PROVE Shape({"findkey", "issue", "appid", "mint", "publish"})
  BY <1>1, <1>c, <1>f DEF Lookup
<1>2. ASSUME FindKey(r) PROVE Shape({"publish"})
  BY <1>2, <1>d DEF FindKey
<1>3. ASSUME Publish(r) PROVE Shape({"issue", "appid", "mint", "publish"})
  BY <1>3, <1>f DEF Publish, Mishap
<1>4. ASSUME Unpublish(r) PROVE Shape({"drop"})
  BY <1>4, <1>c DEF Unpublish
<1>5. ASSUME InsertUser(r) PROVE Shape({"role"})
  <2>1. CASE End(r)
    BY <1>5, <1>b, <2>1 DEF InsertUser
  <2>2. CASE req' = [req EXCEPT ![r].at = "role", ![r].pw = 1]
    <3>1. req'[r] = [req[r] EXCEPT !.at = "role", !.pw = 1]
      BY <1>a, <2>2
    <3>2. Goes("role") /\ Others
      BY <1>a, <2>2, <3>1 DEF Req, Goes, Others
    <3> QED
      BY <1>5, <3>2 DEF InsertUser
  <2> QED
    BY <1>5, <2>1, <2>2 DEF InsertUser
<1>6. ASSUME InsertRole(r) \/ CheckStatus(r) \/ Consume(r) PROVE Shape({"lookup", "status"})
  BY <1>6, <1>b, <1>c DEF InsertRole, CheckStatus, Consume
<1>7. ASSUME DropService(r) \/ PublishKey(r) \/ UnpublishKey(r) \/ Issue(r) \/ EndSessions(r)
             \/ Answer(r)
      PROVE  Shape({})
  BY <1>7, <1>b DEF DropService, PublishKey, TakeOver, Mishap, UnpublishKey, Issue, EndSessions,
                    Answer, Ending
<1>8. ASSUME PublishId(r) PROVE Shape({"mint", "publish"})
  BY <1>8, <1>b, <1>e DEF PublishId, Mishap
<1>9. ASSUME MintKey(r) PROVE Shape({"keyvar"})
  <2>1. CASE End(r)
    BY <1>9, <1>b, <2>1 DEF MintKey, Mishap
  <2>2. CASE req' = [req EXCEPT ![r].at = "keyvar", ![r].token = made + 1]
    <3>1. req'[r] = [req[r] EXCEPT !.at = "keyvar", !.token = made + 1]
      BY <1>a, <2>2
    <3>2. Goes("keyvar") /\ Others
      BY <1>a, <2>2, <3>1 DEF Req, Goes, Others
    <3> QED
      BY <1>9, <3>2 DEF MintKey, Mishap
  <2> QED
    BY <1>9, <2>1, <2>2 DEF MintKey
<1>10. Others /\ mishaps \subseteq mishaps' /\ used \subseteq used' /\ req[r].at # "idle"
  BY <1>1, <1>2, <1>3, <1>4, <1>5, <1>6, <1>7, <1>8, <1>9 DEF Working
<1>11. \/ req'[r] = Idle
       \/ \E l \in {"findkey", "publish", "lookup", "status", "appid", "mint"} : Goes(l)
       \/ Goes("issue") /\ (Lookup(r) \/ Publish(r))
       \/ Goes("drop") /\ Unpublish(r)
       \/ Goes("role") /\ InsertUser(r)
       \/ Goes("keyvar") /\ MintKey(r)
  BY <1>1, <1>2, <1>3, <1>4, <1>5, <1>6, <1>7, <1>8, <1>9 DEF Working
<1> QED
  BY <1>10, <1>11 DEF Alone, Goes, Others

\* A sign-in signs with the secret that it knows
LEMMA KnownIssue ==
    ASSUME Typed, NEW r \in Request, NEW v, Known(r, v), req'[r].at = "issue"
    PROVE  req'[r].value = v
<1>a. req \in [Request -> Req] /\ req[r] \in Req
  BY DEF Typed, ReqOK
<1>1. CASE req' = [req EXCEPT ![r].at = "issue", ![r].value = v]
  <2>1. req'[r] = [req[r] EXCEPT !.at = "issue", !.value = v]
    BY <1>a, <1>1
  <2> QED
    BY <1>a, <2>1 DEF Req
<1>2. ~End(r)
  BY <1>a DEF End, Idle
<1>3. ASSUME NEW l \in {"appid", "mint", "publish"}, NEW k,
             req' = [req EXCEPT ![r].at = l, ![r].key = k]
      PROVE  FALSE
  <2>1. req'[r] = [req[r] EXCEPT !.at = l, !.key = k]
    BY <1>a, <1>3
  <2> QED
    BY <1>a, <2>1 DEF Req
<1> QED
  BY <1>1, <1>2, <1>3 DEF Known, Further

-----------------------------------------------------------------------------
(***************************************************************************)
(* What verifies the access tokens.  As long as none of the mishaps that   *)
(* the property names has happened, a service has at most one secret,      *)
(* which is published when it has none: before anything was signed, and    *)
(* before any sign-in has got as far as issue_token_pair.                  *)
(***************************************************************************)

Undisturbed == ~Except({"rotated", "shared", "first", "race", "left", "overwritten"})
Verifies(s, v) ==
    s \in live /\ ~Deleting(s) => Own(s) # {} /\ \A k \in Own(s) : pool[k].value = v

OneSecret == \A s \in Service : \A j, k \in Own(s) : pool[j].value = pool[k].value
SignedVerify == \A t \in signed : Verifies(t.s, t.value)
IssuesVerify == \A r \in Request : \A s \in Service :
    req[r].at = "issue" /\ req[r].s = {s} => Verifies(s, req[r].value)

Secrets ==
    /\ \A t \in signed : t.s \in used
    /\ Undisturbed =>
        /\ \A r \in Request : req[r].kind # "rotate"
        /\ OneSecret /\ SignedVerify /\ IssuesVerify

\* The same secrets are published, if under other names
SameSecrets == \A s \in Service :
    /\ \A k \in Own(s)' : \E j \in Own(s) : pool'[k].value = pool[j].value
    /\ \A j \in Own(s) : \E k \in Own(s)' : pool'[k].value = pool[j].value

LEMMA SameRows ==
    ASSUME \A k \in Key : pool'[k] = pool[k] \/ (pool[k].value = 0 /\ pool'[k].value = 0)
    PROVE  SameSecrets
<1>1. \A s \in Service : Own(s)' = Own(s) /\ \A k \in Own(s) : pool'[k] = pool[k]
  BY DEF Own, Secret
<1> QED
  BY <1>1 DEF SameSecrets

LEMMA SameVerify ==
    ASSUME SameSecrets, NEW s \in Service, NEW v, Verifies(s, v),
           s \in live' => s \in live, Deleting(s) /\ s \in live' => Deleting(s)'
    PROVE  Verifies(s, v)'
<1> SUFFICES ASSUME s \in live', ~Deleting(s)'
             PROVE  Own(s)' # {} /\ \A k \in Own(s)' : pool'[k].value = v
  BY DEF Verifies
<1>1. Own(s) # {} /\ \A j \in Own(s) : pool[j].value = v
  BY DEF Verifies
<1> QED
  BY <1>1 DEF SameSecrets

LEMMA SameOne ==
    ASSUME SameSecrets, OneSecret
    PROVE  OneSecret'
<1> SUFFICES ASSUME NEW s \in Service, NEW j \in Own(s)', NEW k \in Own(s)'
             PROVE  pool'[j].value = pool'[k].value
  BY DEF OneSecret
<1>1. PICK a \in Own(s) : pool'[j].value = pool[a].value
  BY DEF SameSecrets
<1>2. PICK b \in Own(s) : pool'[k].value = pool[b].value
  BY DEF SameSecrets
<1> QED
  BY <1>1, <1>2 DEF OneSecret

\* The service of a request that is not about to end without one
LEMMA OfType ==
    ASSUME Typed, NEW r \in Request, NEW s \in Service, req[r].s = {s}, req[r].at # "idle"
    PROVE  s \in used /\ S(r) = s
BY ServiceOf DEF Typed, ReqOK

\* A service that a request is about to delete stays so while that request is not done
LEMMA DeletingAlone ==
    ASSUME Typed, NEW r \in Request, Alone(r), NEW s \in Service,
           Deleting(s), req[r].at \notin {"unpublish", "drop"}
    PROVE  Deleting(s)'
BY DEF Alone, Deleting, Of

\* What most steps do: no secret is published, and nothing signed but what is verified
LEMMA SecretsElsewhere ==
    ASSUME Typed, Secrets, NEW r \in Request, Alone(r),
           Undisturbed' => SameSecrets, live' \cap used \subseteq live,
           \A s \in Service : Deleting(s) /\ s \in live' => Deleting(s)',
           \A t \in signed' : t \in signed \/
                /\ req[r].at = "issue" /\ req[r].s = {t.s} /\ t.s \in Service
                /\ t.value = req[r].value,
           req'[r].kind = "rotate" => req[r].kind = "rotate" \/ "rotated" \in mishaps',
           req'[r].at = "issue" =>
                /\ req[r].at # "idle" /\ req'[r].s = req[r].s
                /\ \E k \in Own(S(r)) : req'[r].value = pool[k].value
    PROVE  Secrets'
<1>2. \A t \in signed' : t.s \in used /\ t.s \in used'
  BY DEF Alone, Secrets, Typed, ReqOK
<1>3. ASSUME Undisturbed'
      PROVE  /\ \A q \in Request : req'[q].kind # "rotate"
             /\ OneSecret' /\ SignedVerify' /\ IssuesVerify'
  <2>1. Undisturbed /\ "rotated" \notin mishaps'
    BY <1>3 DEF Undisturbed, Except, Alone
  <2>2. ASSUME NEW s \in Service, NEW v, Verifies(s, v), s \in used
        PROVE  Verifies(s, v)'
    BY <1>3, <2>2, SameVerify
  <2>3. \A q \in Request : req'[q].kind # "rotate"
    BY <2>1 DEF Secrets, Alone
  <2>4. OneSecret'
    BY <1>3, <2>1, SameOne DEF Secrets
  <2>5. SignedVerify'
    <3> SUFFICES ASSUME NEW t \in signed' PROVE Verifies(t.s, t.value)'
      BY DEF SignedVerify
    <3>1. t.s \in Service /\ t.s \in used
      BY <1>2 DEF Typed, TypeOK
    <3>2. Verifies(t.s, t.value)
      BY <2>1, <3>1 DEF Secrets, SignedVerify, IssuesVerify
    <3> QED
      BY <2>2, <3>1, <3>2
  <2>6. IssuesVerify'
    <3> SUFFICES ASSUME NEW q \in Request, NEW s \in Service,
                        req'[q].at = "issue", req'[q].s = {s}
                 PROVE  Verifies(s, req[q].value)'
      BY DEF IssuesVerify
    <3>1. req[q].at # "idle" /\ req[q].s = {s}
      BY DEF Alone
    <3>2. s \in used /\ S(q) = s
      BY <3>1, OfType
    <3>3. PICK v : v = req'[q].value
      OBVIOUS
    <3>4. Verifies(s, v)
      <4>1. CASE q = r
        <5>1. PICK k \in Own(s) : v = pool[k].value
          BY <3>2, <3>3, <4>1
        <5> QED
          BY <2>1, <5>1 DEF Secrets, OneSecret, Verifies
      <4>2. CASE q # r
        BY <2>1, <3>3, <4>2 DEF Alone, Secrets, IssuesVerify
      <4> QED
        BY <4>1, <4>2
    <3> QED
      BY <2>2, <3>2, <3>3, <3>4 DEF Verifies
  <2> QED
    BY <2>3, <2>4, <2>5, <2>6
<1> QED
  BY <1>2, <1>3 DEF Secrets

\* A request begins: what is live was live, or has nothing signed
LEMMA SecretsAsk ==
    ASSUME Typed, Secrets, NEW r \in Request, Asking(r)
    PROVE  Secrets'
<1>1. /\ Alone(r) /\ req[r] = Idle /\ pool' = pool /\ signed' = signed
      /\ live' \cap used \subseteq live
      /\ req'[r].at # "issue" /\ (req'[r].kind = "rotate" => "rotated" \in mishaps')
  BY AskShape
<1>2. \A s \in Service : Deleting(s) => Deleting(s)'
  BY <1>1, DeletingAlone DEF Idle
<1>3. SameSecrets
  BY <1>1, SameRows
<1> QED
  BY <1>1, <1>2, <1>3, SecretsElsewhere

\* A request goes on
LEMMA SecretsPublish ==
    ASSUME Typed, Secrets, NEW r \in Request, Publish(r)
    PROVE  Secrets'
<1> USE DEF rows, published
<1> DEFINE key == req[r].key
<1>1. PICK s \in Service : req[r].s = {s} /\ S(r) = s /\ s \in used /\ req[r].at = "publish"
  BY ServiceType, OfType DEF Publish
<1>2. /\ Alone(r) /\ key \in Key /\ made + 1 \in Nat /\ Working(r)
      /\ pool' = [pool EXCEPT ![key] = [of |-> {s}, value |-> made + 1]]
      /\ UNCHANGED <<live, used, signed>>
  <2>1. Alone(r) /\ Working(r)
    BY WorkShape DEF Working
  <2>2. key \in Key /\ made + 1 \in Nat
    BY DEF Typed, ReqOK, Req
  <2> QED
    BY <1>1, <2>1, <2>2 DEF Publish
<1>3. \A t \in signed' : t.s \in used'
  BY <1>2 DEF Secrets
<1>4. ASSUME Undisturbed'
      PROVE  /\ \A q \in Request : req'[q].kind # "rotate"
             /\ OneSecret' /\ SignedVerify' /\ IssuesVerify'
  <2>1. /\ Undisturbed /\ (Secret(key) => pool[key].of = {s}) /\ s \in live /\ ~Deleting(s)
        /\ req[r].kind = "rotate" \/ Own(s) = {}
    BY <1>1, <1>4 DEF Undisturbed, Except, Publish, Mishap, Named
  <2>2. req[r].kind # "rotate" /\ Own(s) = {} /\ ~Secret(key)
    BY <1>2, <2>1 DEF Secrets, Own
  <2>3. \A q \in Request : req'[q].kind # "rotate"
    BY <1>2, <2>1, WorkShape DEF Secrets, Alone, Idle
  <2>4. /\ Own(s)' = {key} /\ pool'[key].value = made + 1
        /\ \A x \in Service : x # s => Own(x)' = Own(x) /\ key \notin Own(x)
    <3>1. made + 1 # 0
      BY DEF Typed, ReqOK
    <3> QED
      BY <1>2, <2>2, <3>1 DEF Own, Secret, Typed, TypeOK
  <2>5. \A k \in Key : k # key => pool'[k] = pool[k]
    BY <1>2 DEF Typed, TypeOK
  <2>6. OneSecret'
    BY <2>1, <2>4, <2>5 DEF Secrets, OneSecret, Own
  <2>7. \A x \in Service : Deleting(x) => Deleting(x)'
    BY <1>1, <1>2, DeletingAlone
  <2>8. ASSUME NEW x \in Service, NEW v, Verifies(x, v)
        PROVE  x # s /\ Verifies(x, v)'
    BY <1>2, <2>1, <2>2, <2>4, <2>5, <2>7, <2>8 DEF Verifies, Own
  <2>9. SignedVerify'
    <3>1. \A t \in signed : t.s \in Service
      BY DEF Secrets, Typed, TypeOK
    <3> QED
      BY <1>2, <2>1, <2>8, <3>1 DEF Secrets, SignedVerify
  <2>10. IssuesVerify'
    <3> SUFFICES ASSUME NEW q \in Request, NEW x \in Service,
                        req'[q].at = "issue", req'[q].s = {x}
                 PROVE  Verifies(x, req[q].value)'
      BY DEF IssuesVerify
    <3>1. CASE q # r
      <4>1. req'[q] = req[q] /\ Verifies(x, req[q].value)
        BY <1>2, <2>1, <3>1 DEF Secrets, IssuesVerify, Alone
      <4>2. PICK v : v = req[q].value
        OBVIOUS
      <4> QED
        BY <2>8, <4>1, <4>2 DEF Verifies
    <3>2. CASE q = r
      <4>1. x = s /\ req'[r].value = made + 1
        <5>3. req'[r].s = req[r].s
          BY <1>2, <3>2, WorkShape DEF Idle
        <5>4. req'[r].value = made + 1
          BY <3>2, KnownIssue DEF Publish
        <5> QED
          BY <1>1, <3>2, <5>3, <5>4
      <4> QED
        BY <2>4, <3>2, <4>1 DEF Verifies
    <3> QED
      BY <3>1, <3>2
  <2> QED
    BY <2>3, <2>6, <2>9, <2>10
<1> QED
  BY <1>3, <1>4 DEF Secrets

LEMMA SecretsUnpublish ==
    ASSUME Typed, Secrets, NEW r \in Request, Unpublish(r)
    PROVE  Secrets'
<1> USE DEF rows, published
<1>1. PICK s \in Service : req[r].s = {s} /\ S(r) = s /\ req[r].at = "unpublish"
  BY ServiceType, OfType DEF Unpublish
<1>2. /\ Alone(r) /\ Working(r) /\ UNCHANGED <<live, used, signed, mishaps>>
      /\ pool' = [k \in Key |-> IF pool[k].of = {s} THEN Free ELSE pool[k]]
      /\ req'[r].at = "drop" /\ req'[r].kind = req[r].kind /\ req'[r].s = {s}
  <2>1. req'[r] = [req[r] EXCEPT !.at = "drop"] /\ req[r] \in Req
    BY DEF Unpublish, Goto, Typed, ReqOK
  <2>2. Alone(r) /\ Working(r)
    BY WorkShape DEF Working
  <2> QED
    BY <1>1, <2>1, <2>2 DEF Unpublish, Req
<1>3. ASSUME Undisturbed'
      PROVE  /\ \A q \in Request : req'[q].kind # "rotate"
             /\ OneSecret' /\ SignedVerify' /\ IssuesVerify'
  <2>1. Undisturbed
    BY <1>2, <1>3 DEF Undisturbed, Except
  <2>2. \A q \in Request : req'[q].kind # "rotate"
    BY <1>2, <2>1 DEF Secrets, Alone
  <2>3. Own(s)' = {} /\ \A x \in Service : x # s => Own(x)' = Own(x) /\ Own(x) \cap Own(s) = {}
    BY <1>2 DEF Own, Secret, Free
  <2>4. \A x \in Service : x # s => \A k \in Own(x) : pool'[k] = pool[k]
    BY <1>2, <2>3 DEF Own
  <2>5. OneSecret'
    BY <2>1, <2>3, <2>4 DEF Secrets, OneSecret
  <2>6. Deleting(s)' /\ \A x \in Service : x # s /\ Deleting(x) => Deleting(x)'
    BY <1>1, <1>2 DEF Deleting, Of, Alone
  <2>7. ASSUME NEW x \in Service, NEW v, Verifies(x, v)
        PROVE  Verifies(x, v)'
    BY <1>2, <2>3, <2>4, <2>6, <2>7 DEF Verifies
  <2>8. SignedVerify' /\ IssuesVerify'
    <3>1. \A t \in signed : t.s \in Service
      BY DEF Secrets, Typed, TypeOK
    <3>2. SignedVerify'
      BY <1>2, <2>1, <2>7, <3>1 DEF Secrets, SignedVerify
    <3>3. ASSUME NEW q \in Request, NEW x \in Service, req'[q].at = "issue", req'[q].s = {x}
          PROVE  Verifies(x, req[q].value)'
      <4>1. req'[q] = req[q] /\ Verifies(x, req[q].value)
        BY <1>2, <2>1, <3>3 DEF Secrets, IssuesVerify, Alone
      <4>2. PICK v : v = req[q].value
        OBVIOUS
      <4> QED
        BY <2>7, <4>1, <4>2 DEF Verifies
    <3> QED
      BY <3>2, <3>3 DEF IssuesVerify
  <2> QED
    BY <2>2, <2>5, <2>8
<1> QED
  BY <1>2, <1>3 DEF Secrets

\* Taking over is harmless unless it is a secret that is taken over
LEMMA TakenSame ==
    ASSUME Typed, NEW k \in Key, TakeOver(k)
    PROVE  "overwritten" \in mishaps' \/ SameSecrets
<1>1. CASE Secret(k)
  BY <1>1 DEF TakeOver, Mishap, Named
<1>2. CASE ~Secret(k)
  BY <1>2, SameRows DEF TakeOver, Secret, Free, Typed, TypeOK
<1> QED
  BY <1>1, <1>2

LEMMA SecretsWork ==
    ASSUME Typed, Secrets, NEW r \in Request, Working(r)
    PROVE  Secrets'
<1> USE DEF rows, published
<1>1. CASE Publish(r)
  BY <1>1, SecretsPublish
<1>2. CASE Unpublish(r)
  BY <1>2, SecretsUnpublish
<1>3. CASE ~Publish(r) /\ ~Unpublish(r)
  <2>1. PICK s \in Service : req[r].s = {s} /\ S(r) = s
    BY ServiceType, OfType, WorkShape
  <2>2. /\ Alone(r) /\ req[r].at # "idle"
        /\ req'[r].kind = "rotate" => req[r].kind = "rotate"
    BY WorkShape DEF Idle
  <2>3. (Undisturbed' => SameSecrets) /\ live' \subseteq live
    <3>1. CASE PublishId(r)
      <4>1. /\ pool' = [pool EXCEPT ![req[r].key] = [of |-> {s}, value |-> 0]] /\ live' = live
            /\ "overwritten" \in mishaps' \/ ~Secret(req[r].key)
        BY <2>1, <3>1 DEF PublishId, Mishap, Named
      <4> QED
        BY <4>1, SameRows DEF Undisturbed, Except, Secret, Typed, TypeOK
    <3>2. CASE PublishKey(r)
      BY <3>2, TakenSame, SameRows DEF PublishKey, Undisturbed, Except
    <3>3. CASE ~PublishId(r) /\ ~PublishKey(r)
      <4>1. pool' = pool /\ live' \subseteq live
        BY <1>3, <3>3 DEF Working, Lookup, FindKey, DropService, MintKey, UnpublishKey,
                InsertUser, InsertRole, Consume, CheckStatus, Issue, EndSessions, Answer
      <4> QED
        BY <4>1, SameRows
    <3> QED
      BY <3>1, <3>2, <3>3
  <2>4. ASSUME NEW x \in Service, Deleting(x), x \in live'
        PROVE  Deleting(x)'
    <3>1. CASE req[r].at \notin {"unpublish", "drop"}
      BY <2>2, <2>4, <3>1, DeletingAlone
    <3>2. CASE req[r].at \in {"unpublish", "drop"}
      <4>1. DropService(r)
        BY <1>3, <3>2 DEF Working, Lookup, FindKey, PublishId, MintKey, PublishKey, UnpublishKey,
               InsertUser, InsertRole, Consume, CheckStatus, Issue, EndSessions, Answer, Ending
      <4>2. x # s
        BY <2>1, <2>4, <4>1 DEF DropService
      <4> QED
        BY <2>1, <2>2, <2>4, <4>2 DEF Alone, Deleting, Of
    <3> QED
      BY <3>1, <3>2
  <2>5. \A t \in signed' : t \in signed \/
          /\ req[r].at = "issue" /\ req[r].s = {t.s} /\ t.s \in Service /\ t.value = req[r].value
    <3>1. CASE Issue(r)
      BY <2>1, <3>1 DEF Issue
    <3>2. CASE ~Issue(r)
      BY <1>3, <3>2 DEF Working, Lookup, FindKey, PublishId, DropService, MintKey, PublishKey,
             UnpublishKey, InsertUser, InsertRole, Consume, CheckStatus, EndSessions, Answer
    <3> QED
      BY <3>1, <3>2
  <2>6. ASSUME req'[r].at = "issue"
        PROVE  /\ req'[r].s = req[r].s
               /\ \E k \in Own(S(r)) : req'[r].value = pool[k].value
    <3>1. Lookup(r) /\ req'[r].s = req[r].s /\ req'[r] # Idle
      BY <1>3, <2>6, WorkShape DEF Idle
    <3>2. PICK k \in Own(S(r)) : Known(r, pool[k].value)
      BY <2>6, <3>1 DEF Lookup, Goto, Req, Typed, ReqOK
    <3>5. req'[r].value = pool[k].value
      BY <2>6, <3>2, KnownIssue
    <3> QED
      BY <3>1, <3>5
  <2> QED
    BY <2>2, <2>3, <2>4, <2>5, <2>6, SecretsElsewhere
<1> QED
  BY <1>1, <1>2, <1>3

\* What is cut off is a mishap of both this property and the next
LEMMA CutShape ==
    ASSUME Typed, Crash \/ \E r \in Request : Dropped(r) \/ Abandon(r)
    PROVE  /\ UNCHANGED <<rows, keyVars, signed>> /\ mishaps \subseteq mishaps'
           /\ "left" \in mishaps' \/ (Crash /\ UNCHANGED req)
<1>1. CASE Crash
  <2>1. UNCHANGED <<rows, keyVars, signed>> /\ mishaps \subseteq mishaps'
    BY <1>1 DEF Crash, Mishap
  <2>2. CASE \E r \in Request : req[r] # Idle
    BY <1>1, <2>1, <2>2 DEF Crash, Mishap, Named
  <2>3. CASE \A r \in Request : req[r] = Idle
    <3>1. req' = req
      BY <1>1, <2>3 DEF Crash, Typed, ReqOK
    <3> QED
      BY <1>1, <2>1, <3>1
  <2> QED
    BY <2>1, <2>2, <2>3
<1>2. ASSUME NEW r \in Request, Dropped(r) \/ Abandon(r)
      PROVE  UNCHANGED <<rows, keyVars, signed>> /\ mishaps \subseteq mishaps' /\ "left" \in mishaps'
  BY <1>2 DEF Dropped, Abandon, Mishap, published
<1> QED
  BY <1>1, <1>2

\* The start of the process publishes ids, and takes over no secret unless that is noted
LEMMA CrashSecrets ==
    ASSUME Typed, Crash
    PROVE  "overwritten" \in mishaps' \/ SameSecrets
<1>1. \A k \in Key : pool'[k] = pool[k] \/ pool'[k].value = 0
  <2>1. \A p \in {pool, Pruned} : \A k \in Key : p[k] = pool[k] \/ p[k].value = 0
    BY DEF Pruned, Free
  <2>2. \A p \in {pool, Pruned} : p = [k \in Key |-> p[k]]
    BY DEF Pruned, Typed, TypeOK
  <2>3. PICK p \in {pool, Pruned} :
          pool' = p \/ \E s \in live : pool' = [p EXCEPT ![AppId] = [of |-> {s}, value |-> 0]]
    BY DEF Crash
  <2>4. CASE pool' = p
    BY <2>1, <2>4
  <2>5. ASSUME NEW s \in live, pool' = [p EXCEPT ![AppId] = [of |-> {s}, value |-> 0]]
        PROVE  \A k \in Key : pool'[k] = pool[k] \/ pool'[k].value = 0
    BY <2>1, <2>2, <2>5
  <2> QED
    BY <2>3, <2>4, <2>5
<1>2. "overwritten" \in mishaps' \/ \A k \in Key : Secret(k) => pool'[k] = pool[k]
  BY DEF Crash, Mishap, Named
<1> QED
  BY <1>1, <1>2, SameRows DEF Secret

LEMMA HandSecrets ==
    ASSUME Typed, NEW k \in Key, Hand(k)
    PROVE  "overwritten" \in mishaps' \/ SameSecrets
<1>1. CASE EditVariable(k)
  BY <1>1, TakenSame DEF EditVariable
<1>2. ASSUME NEW j \in Key, RenameVariable(j, k)
      PROVE  SameSecrets
  <2>1. /\ pool' = [pool EXCEPT ![j] = Free, ![k] = pool[j]]
        /\ pool[k] = Free /\ pool[j] # Free /\ j # k
    BY <1>2 DEF RenameVariable
  <2>2. /\ pool'[j] = Free /\ pool'[k] = pool[j]
        /\ \A i \in Key \ {j, k} : pool'[i] = pool[i]
    BY <2>1 DEF Typed, TypeOK
  <2>3. \A s \in Service :
          Own(s)' = IF j \in Own(s) THEN (Own(s) \ {j}) \cup {k} ELSE Own(s)
    <3> SUFFICES ASSUME NEW s \in Service
                 PROVE  Own(s)' = IF j \in Own(s) THEN (Own(s) \ {j}) \cup {k} ELSE Own(s)
      OBVIOUS
    <3>1. \A i \in Key \ {j, k} : i \in Own(s)' <=> i \in Own(s)
      BY <2>2 DEF Own, Secret
    <3>2. j \notin Own(s)' /\ (k \in Own(s)' <=> j \in Own(s))
      BY <2>2 DEF Own, Secret, Free
    <3>3. Own(s) \subseteq Key /\ Own(s)' \subseteq Key /\ k \notin Own(s)
      BY <2>1 DEF Own, Secret, Free
    <3> QED
      BY <2>1, <3>1, <3>2, <3>3
  <2>4. \A s \in Service : k \notin Own(s)
    BY <2>1 DEF Own, Secret, Free
  <2>5. ASSUME NEW s \in Service
        PROVE  /\ \A i \in Own(s)' : \E h \in Own(s) : pool'[i].value = pool[h].value
               /\ \A h \in Own(s) : \E i \in Own(s)' : pool'[i].value = pool[h].value
    <3>1. Own(s) \subseteq Key
      BY DEF Own
    <3>2. CASE j \in Own(s)
      <4>1. Own(s)' = (Own(s) \ {j}) \cup {k}
        BY <2>3, <3>2
      <4> QED
        BY <2>2, <2>4, <3>1, <3>2, <4>1
    <3>3. CASE j \notin Own(s)
      <4>1. Own(s)' = Own(s)
        BY <2>3, <3>3
      <4> QED
        BY <2>2, <2>4, <3>1, <3>3, <4>1
    <3> QED
      BY <3>2, <3>3
  <2> QED
    BY <2>5 DEF SameSecrets
<1> QED
  BY <1>1, <1>2 DEF Hand

\* Rows, tokens and requests stay as they are
LEMMA SecretsStill ==
    ASSUME Typed, Secrets, UNCHANGED <<rows, signed, req>>, mishaps \subseteq mishaps',
           Undisturbed' => SameSecrets
    PROVE  Secrets'
<1>1. UNCHANGED <<live, used, signed, req>> /\ \A s \in Service : Deleting(s)' = Deleting(s)
  BY DEF rows, Deleting, Of
<1>2. \A t \in signed : t.s \in Service
  BY DEF Secrets, Typed, TypeOK
<1>3. ASSUME Undisturbed' PROVE OneSecret' /\ SignedVerify' /\ IssuesVerify' /\ Undisturbed
  <2>1. Undisturbed /\ SameSecrets
    BY <1>3 DEF Undisturbed, Except
  <2>2. ASSUME NEW s \in Service, NEW v, Verifies(s, v) PROVE Verifies(s, v)'
    BY <1>1, <2>1, <2>2, SameVerify
  <2>3. OneSecret'
    BY <2>1, SameOne DEF Secrets
  <2>4. SignedVerify'
    BY <1>1, <1>2, <2>1, <2>2 DEF Secrets, SignedVerify
  <2>5. IssuesVerify'
    BY <1>1, <2>1, <2>2 DEF Secrets, IssuesVerify
  <2> QED
    BY <2>1, <2>3, <2>4, <2>5
<1> QED
  BY <1>1, <1>3 DEF Secrets

LEMMA SecretsNext == Typed /\ Secrets /\ [Next]_vars => Secrets'
<1> SUFFICES ASSUME Typed, Secrets, [Next]_vars PROVE Secrets'
  OBVIOUS
<1>1. CASE UNCHANGED vars
  <2>1. UNCHANGED <<rows, signed, req, mishaps, pool>>
    BY <1>1 DEF vars, published
  <2> QED
    BY <2>1, SameRows, SecretsStill
<1>2. ASSUME "left" \in mishaps', UNCHANGED <<rows, signed>> PROVE Secrets'
  BY <1>2 DEF rows, Secrets, Undisturbed, Except
<1>3. ASSUME Crash \/ \E r \in Request : Dropped(r) \/ Abandon(r) PROVE Secrets'
  <2>1. CASE "left" \in mishaps'
    BY <1>2, <1>3, <2>1, CutShape
  <2>2. CASE "left" \notin mishaps'
    BY <1>3, <2>2, CutShape, CrashSecrets, SecretsStill DEF Undisturbed, Except
  <2> QED
    BY <2>1, <2>2
<1>4. ASSUME NEW k \in Key, Hand(k) PROVE Secrets'
  BY <1>4, HandStill, HandSecrets, SecretsStill DEF Undisturbed, Except
<1> QED
  BY <1>1, <1>3, <1>4, SecretsAsk, SecretsWork DEF Next, Hand

LEMMA SecretsInit == Init => Secrets
BY DEF Init, Secrets, OneSecret, SignedVerify, IssuesVerify, Own, Free, Idle

\* Every access token that was handed out is signed with the secret that its service, and
\* an application that verifies it, looks up, but after the mishaps named
\* (get_or_create_secret).
THEOREM TokensVerifyAlways == Spec => []TokensVerify
<1>1. Typed /\ Secrets => TokensVerify
  BY DEF Secrets, Undisturbed, TokensVerify, SignedVerify, Verifies
<1> QED
  BY <1>1, TypeInit, TypeNext, SecretsInit, SecretsNext, PTL DEF Spec

-----------------------------------------------------------------------------
(***************************************************************************)
(* What belongs to a service.  While no deletion overlapped with another   *)
(* request and nothing was cut off, what is left to do is in the hands of  *)
(* a request: to publish or to take back an API key, to give a new user    *)
(* his role.                                                               *)
(***************************************************************************)

Calm == ~Except({"race", "left"})
Rows(s) == {k \in Key : pool[k].of = {s}}
OwnersLive == \A s \in Service : Rows(s) # {} => s \in live /\ \A r \in Of(s) : req[r].at # "drop"
RolesGiven == \A s \in Service :
    user[s].st # "none" => user[s].role \/ \E r \in Of(s) : req[r].at = "role"
NoKeysOfDeleted == \A s \in Service : Deleting(s) => \A x \in keys : x.s # s
ToPublish == \A r \in Request : req[r].at = "keyvar" =>
    \E x \in keys : x.id = req[r].token /\ req[r].s = {x.s}
Accounted(i) ==
    \/ \E x \in keys : x.id = i
    \/ \E r \in Request : req[r].at = "unkeyvar" /\ req[r].token = i
KeysKnown == NoKeysOfDeleted /\ ToPublish /\ \A i \in keyVars : Accounted(i)

Belongs == Calm =>
    /\ OwnersLive
    /\ RolesGiven \/ Except({"unroled"})
    /\ KeysKnown \/ Except({"orphaned"})

\* A secret or an id is published for a service that is there, and taken back before its row goes
LEMMA TakenRows ==
    ASSUME Typed, NEW k \in Key, TakeOver(k)
    PROVE  \A s \in Service : Rows(s)' \subseteq Rows(s)
BY DEF TakeOver, Rows, Free, Typed, TypeOK

LEMMA OwnersStep ==
    ASSUME Typed, OwnersLive, NEW r \in Request, Asking(r) \/ Working(r), Calm'
    PROVE  OwnersLive'
<1> USE DEF rows, published
<1>a. req \in [Request -> Req] /\ (\A q \in Request : q # r => req'[q] = req[q])
  BY AskShape, WorkShape DEF Alone, Typed, ReqOK
<1>1. ASSUME \A s \in Service : Rows(s)' \subseteq Rows(s), req'[r].at # "drop", live \subseteq live'
      PROVE  OwnersLive'
  <2> SUFFICES ASSUME NEW s \in Service, Rows(s)' # {}
               PROVE  s \in live' /\ \A q \in Of(s)' : req'[q].at # "drop"
    BY DEF OwnersLive
  <2>1. s \in live /\ \A q \in Of(s) : req[q].at # "drop"
    BY <1>1 DEF OwnersLive
  <2> QED
    BY <1>1, <1>a, <2>1 DEF Of
<1>2. ASSUME Asking(r) PROVE OwnersLive'
  <2>1. pool' = pool /\ live \subseteq live' /\ req'[r].at # "drop"
    BY <1>2, AskShape
  <2> QED
    BY <1>1, <1>2, <2>1 DEF Rows
<1>3. ASSUME Working(r) PROVE OwnersLive'
  <2>1. PICK s \in Service : req[r].s = {s} /\ S(r) = s /\ s \in used
    BY <1>3, ServiceType, WorkShape
  <2>2. /\ req'[r].at = "drop" => Unpublish(r)
        /\ req'[r].s = {s} \/ req'[r] = Idle
    <3>1. \/ req'[r] = Idle
          \/ req'[r].s = req[r].s /\ (req'[r].at = "drop" => Unpublish(r))
      BY <1>3, WorkShape
    <3> QED
      BY <2>1, <3>1 DEF Idle
  <2>3. CASE Publish(r)
    <3>1. s \in live /\ ~Deleting(s)
      BY <2>1, <2>3 DEF Publish, Mishap, Named, Calm, Except
    <3>2. /\ live' = live /\ req[r].key \in Key /\ req'[r].at # "drop"
          /\ pool' = [pool EXCEPT ![req[r].key] = [of |-> {s}, value |-> made + 1]]
      BY <2>1, <2>2, <2>3, <1>a DEF Publish, Unpublish, Req
    <3>3. \A x \in Service : x # s => Rows(x)' \subseteq Rows(x)
      BY <3>2 DEF Rows, Typed, TypeOK
    <3>4. ASSUME NEW x \in Service, Rows(x)' # {}
          PROVE  x \in live' /\ \A q \in Of(x)' : req'[q].at # "drop"
      <4>1. x \in live /\ \A q \in Of(x) : req[q].at # "drop"
        BY <3>1, <3>3, <3>4 DEF OwnersLive, Deleting
      <4> QED
        BY <1>a, <3>2, <4>1 DEF Of
    <3> QED
      BY <3>4 DEF OwnersLive
  <2>7. CASE PublishId(r)
    <3>1. s \in live /\ ~Deleting(s)
      BY <2>1, <2>7 DEF PublishId, Mishap, Named, Calm, Except
    <3>2. /\ live' = live /\ req[r].key \in Key /\ req'[r].at # "drop"
          /\ pool' = [pool EXCEPT ![req[r].key] = [of |-> {s}, value |-> 0]]
      BY <2>1, <2>2, <2>7, <1>a DEF PublishId, Unpublish, Req
    <3>3. \A x \in Service : x # s => Rows(x)' \subseteq Rows(x)
      BY <3>2 DEF Rows, Typed, TypeOK
    <3>4. ASSUME NEW x \in Service, Rows(x)' # {}
          PROVE  x \in live' /\ \A q \in Of(x)' : req'[q].at # "drop"
      <4>1. x \in live /\ \A q \in Of(x) : req[q].at # "drop"
        BY <3>1, <3>3, <3>4 DEF OwnersLive, Deleting
      <4> QED
        BY <1>a, <3>2, <4>1 DEF Of
    <3> QED
      BY <3>4 DEF OwnersLive
  <2>8. CASE PublishKey(r)
    <3>1. live' = live /\ (pool' = pool \/ \E k \in Key : TakeOver(k))
      BY <2>8 DEF PublishKey
    <3>2. \A x \in Service : Rows(x)' \subseteq Rows(x)
      BY <3>1, TakenRows DEF Rows
    <3> QED
      BY <1>1, <2>2, <2>8, <3>1, <3>2 DEF Unpublish, PublishKey
  <2>4. CASE Unpublish(r)
    <3>1. /\ live' = live /\ pool' = [k \in Key |-> IF pool[k].of = {s} THEN Free ELSE pool[k]]
      BY <2>1, <2>4 DEF Unpublish
    <3>2. Rows(s)' = {} /\ \A x \in Service : x # s => Rows(x)' \subseteq Rows(x)
      BY <3>1 DEF Rows, Free
    <3>3. ASSUME NEW x \in Service, Rows(x)' # {}
          PROVE  x \in live' /\ \A q \in Of(x)' : req'[q].at # "drop"
      <4>1. x # s /\ x \in live /\ \A q \in Of(x) : req[q].at # "drop"
        BY <3>2, <3>3 DEF OwnersLive
      <4>2. r \notin Of(x)'
        BY <2>2, <4>1 DEF Of, Idle
      <4> QED
        BY <1>a, <3>1, <4>1, <4>2 DEF Of
    <3> QED
      BY <3>3 DEF OwnersLive
  <2>5. CASE DropService(r)
    <3>1. live' = live \ {s} /\ pool' = pool /\ req[r].at = "drop"
      BY <2>1, <2>5 DEF DropService
    <3>2. Rows(s) = {} /\ \A x \in Service : Rows(x)' = Rows(x)
      BY <2>1, <3>1 DEF OwnersLive, Of, Rows
    <3>3. ASSUME NEW x \in Service, Rows(x)' # {}
          PROVE  x \in live' /\ \A q \in Of(x)' : req'[q].at # "drop"
      <4>1. x # s /\ x \in live /\ \A q \in Of(x) : req[q].at # "drop"
        BY <3>2, <3>3 DEF OwnersLive
      <4>2. r \notin Of(x)'
        BY <2>2, <4>1 DEF Of, Idle
      <4> QED
        BY <1>a, <3>1, <4>1, <4>2 DEF Of
    <3> QED
      BY <3>3 DEF OwnersLive
  <2>6. CASE /\ ~Publish(r) /\ ~PublishId(r) /\ ~PublishKey(r)
             /\ ~Unpublish(r) /\ ~DropService(r)
    <3>1. pool' = pool /\ live' = live
      BY <1>3, <2>6 DEF Working, Lookup, FindKey, MintKey, UnpublishKey, InsertUser, InsertRole,
                        Consume, CheckStatus, Issue, EndSessions, Answer
    <3> QED
      BY <1>1, <2>2, <2>6, <3>1 DEF Rows
  <2> QED
    BY <2>3, <2>4, <2>5, <2>6, <2>7, <2>8
<1> QED
  BY <1>2, <1>3

\* A new user's role is in the hands of his sign-in
LEMMA RolesStep ==
    ASSUME Typed, RolesGiven, NEW r \in Request, Asking(r) \/ Working(r)
    PROVE  RolesGiven' \/ "unroled" \in mishaps'
<1> USE DEF rows, published
<1>a. req \in [Request -> Req] /\ (\A q \in Request : q # r => req'[q] = req[q])
  BY AskShape, WorkShape DEF Alone, Typed, ReqOK
<1>1. ASSUME RolesStay, req[r].at # "role"
      PROVE  RolesGiven' \/ "unroled" \in mishaps'
  <2> SUFFICES ASSUME "unroled" \notin mishaps', NEW s \in Service, user'[s].st # "none",
                      ~user'[s].role
               PROVE  \E q \in Of(s)' : req'[q].at = "role"
    BY DEF RolesGiven
  <2>1. user[s].st # "none" /\ ~user[s].role
    BY <1>1 DEF RolesStay
  <2>2. PICK q \in Of(s) : req[q].at = "role"
    BY <2>1 DEF RolesGiven
  <2> QED
    BY <1>1, <1>a, <2>2 DEF Of
<1>2. ASSUME Asking(r) PROVE RolesStay /\ req[r].at # "role"
  BY <1>2, AskShape DEF Idle
<1>3. ASSUME Working(r) PROVE RolesGiven' \/ "unroled" \in mishaps'
  <2>1. PICK s \in Service : req[r].s = {s} /\ S(r) = s /\ s \in used
    BY <1>3, ServiceType, WorkShape
  <2>2. ASSUME \A x \in Service \ {s} : user'[x] = user[x],
               user'[s].st = "none" \/ user'[s].role \/ (req'[r].at = "role" /\ req'[r].s = {s})
        PROVE  RolesGiven'
    <3> SUFFICES ASSUME NEW x \in Service, x # s, user[x].st # "none", ~user[x].role
                 PROVE  \E q \in Of(x)' : req'[q].at = "role"
      BY <2>2 DEF RolesGiven, Of
    <3>1. PICK q \in Of(x) : req[q].at = "role"
      BY DEF RolesGiven
    <3> QED
      BY <1>a, <2>1, <3>1 DEF Of
  <2>3. CASE InsertUser(r)
    <3>1. CASE UNCHANGED user
      BY <1>1, <2>3, <3>1 DEF InsertUser, RolesStay
    <3>2. CASE ~UNCHANGED user
      <4>1. /\ user' = [user EXCEPT ![s] = [st |-> "active", pw |-> 1, role |-> FALSE]]
            /\ req' = [req EXCEPT ![r].at = "role", ![r].pw = 1]
        BY <2>1, <2>3, <3>2 DEF InsertUser
      <4>2. req'[r] = [req[r] EXCEPT !.at = "role", !.pw = 1]
        BY <1>a, <4>1
      <4>3. req'[r].at = "role" /\ req'[r].s = {s}
        BY <1>a, <2>1, <4>2 DEF Req
      <4> QED
        BY <2>2, <4>1, <4>3 DEF Typed, TypeOK
    <3> QED
      BY <3>1, <3>2
  <2>4. CASE InsertRole(r)
    <3>1. /\ \A x \in Service \ {s} : user'[x] = user[x]
          /\ user'[s].st = "none" \/ user'[s].role
      BY <2>1, <2>4 DEF InsertRole, Typed, TypeOK
    <3> QED
      BY <2>2, <3>1
  <2>5. CASE DropService(r)
    <3>1. user' = [user EXCEPT ![s] = NoUser]
      BY <2>1, <2>5 DEF DropService
    <3>2. (\A x \in Service \ {s} : user'[x] = user[x]) /\ user'[s].st = "none"
      BY <3>1 DEF Typed, TypeOK, NoUser
    <3> QED
      BY <2>2, <3>2
  <2>6. CASE ~InsertUser(r) /\ ~InsertRole(r) /\ ~DropService(r)
    <3>1. user' = user /\ req[r].at # "role"
      BY <1>3, <2>6 DEF Working, Lookup, FindKey, Publish, PublishId, Unpublish, MintKey, PublishKey, UnpublishKey,
                        Consume, CheckStatus, Issue, EndSessions, Answer, Ending
    <3> QED
      BY <1>1, <3>1 DEF RolesStay
  <2> QED
    BY <2>3, <2>4, <2>5, <2>6
<1> QED
  BY <1>1, <1>2, <1>3

\* A published API key has its row, or a request to take it back
LEMMA KeysStep ==
    ASSUME Typed, KeysKnown, NEW r \in Request, Asking(r) \/ Working(r), Calm'
    PROVE  KeysKnown' \/ "orphaned" \in mishaps'
<1> USE DEF rows, published
<1>a. req \in [Request -> Req] /\ (\A q \in Request : q # r => req'[q] = req[q])
  BY AskShape, WorkShape DEF Alone, Typed, ReqOK
<1>b. keys \subseteq [s : Service, id : Nat]
  BY DEF Typed, TypeOK
\* The steps that leave the keys alone
<1>1. ASSUME keys' = keys, keyVars' = keyVars, req[r].at # "unkeyvar", req'[r].at # "keyvar",
             \A s \in Service : req'[r].s = {s} /\ req'[r].at \in {"unpublish", "drop"} =>
                                 \A x \in keys : x.s # s
      PROVE  KeysKnown'
  <2>1. NoKeysOfDeleted'
    <3> SUFFICES ASSUME NEW q \in Request, NEW s \in Service, req'[q].s = {s},
                        req'[q].at \in {"unpublish", "drop"}
                 PROVE  \A x \in keys : x.s # s
      BY <1>1 DEF NoKeysOfDeleted, Deleting, Of
    <3>1. CASE q = r
      BY <1>1, <3>1
    <3>2. CASE q # r
      BY <1>a, <3>2 DEF KeysKnown, NoKeysOfDeleted, Deleting, Of
    <3> QED
      BY <3>1, <3>2
  <2>2. ToPublish'
    BY <1>1, <1>a DEF KeysKnown, ToPublish
  <2>3. \A i \in keyVars : Accounted(i)'
    BY <1>1, <1>a DEF KeysKnown, Accounted
  <2> QED
    BY <1>1, <2>1, <2>2, <2>3 DEF KeysKnown
\* A key is made, which its request is about to publish
<1>0. ASSUME NEW s \in Service, keys' = keys \cup {[s |-> s, id |-> made + 1]}, keyVars' = keyVars,
             req[r].at \notin {"unkeyvar", "keyvar"}, ~Deleting(s),
             req'[r].at = "keyvar", req'[r].token = made + 1, req'[r].s = {s}
      PROVE  KeysKnown'
  <2> DEFINE new == [s |-> s, id |-> made + 1]
  <2>4. NoKeysOfDeleted'
    <3> SUFFICES ASSUME NEW q \in Request, NEW z \in Service, req'[q].s = {z},
                        req'[q].at \in {"unpublish", "drop"}
                 PROVE  \A x \in keys' : x.s # z
      BY DEF NoKeysOfDeleted, Deleting, Of
    <3>1. Deleting(z)
      BY <1>0, <1>a DEF Deleting, Of
    <3> QED
      BY <1>0, <3>1 DEF KeysKnown, NoKeysOfDeleted
  <2>5. ToPublish'
    <3> SUFFICES ASSUME NEW q \in Request, req'[q].at = "keyvar"
                 PROVE  \E x \in keys' : x.id = req'[q].token /\ req'[q].s = {x.s}
      BY DEF ToPublish
    <3>1. CASE q = r
      <4>1. new \in keys' /\ new.id = req'[q].token /\ req'[q].s = {new.s}
        BY <1>0, <3>1
      <4> QED
        BY <4>1
    <3>2. CASE q # r
      BY <1>0, <1>a, <3>2 DEF KeysKnown, ToPublish
    <3> QED
      BY <3>1, <3>2
  <2>6. ASSUME NEW i \in keyVars PROVE Accounted(i)'
    <3>1. Accounted(i) /\ keys \subseteq keys' /\ req[r].at # "unkeyvar"
      BY <1>0 DEF KeysKnown
    <3> QED
      BY <1>a, <3>1 DEF Accounted
  <2> QED
    BY <1>0, <2>4, <2>5, <2>6 DEF KeysKnown
<1>2. ASSUME NEW s \in Service, CreateKey(r, s) PROVE KeysKnown'
  <2>1. /\ req'[r] = [[Idle EXCEPT !.at = "keyvar", !.token = made + 1] EXCEPT !.s = {s}]
        /\ keys' = keys \cup {[s |-> s, id |-> made + 1]} /\ keyVars' = keyVars /\ req[r] = Idle
    BY <1>2, <1>a DEF CreateKey, Begin
  <2>2. ~Deleting(s)
    BY <1>2 DEF CreateKey, Mishap, Named, Calm, Except
  <2>3. req'[r].at = "keyvar" /\ req'[r].token = made + 1 /\ req'[r].s = {s}
    BY <2>1 DEF Idle
  <2> QED
    BY <1>0, <2>1, <2>2, <2>3 DEF Idle
<1>3. ASSUME NEW x \in keys, DeleteKey(r, x) PROVE KeysKnown'
  <2>1. /\ req'[r] = [[Idle EXCEPT !.at = "unkeyvar", !.token = x.id] EXCEPT !.s = {x.s}]
        /\ keys' = keys \ {x} /\ keyVars' = keyVars /\ req[r] = Idle
    BY <1>3, <1>a DEF DeleteKey, Begin
  <2>2. \A q \in Request : req[q].at = "keyvar" => req[q].s # {x.s}
    BY <1>3 DEF DeleteKey, Mishap, Named, Calm, Except, Of
  <2>3. req'[r].at = "unkeyvar" /\ req'[r].token = x.id
    BY <2>1 DEF Idle
  <2>4. NoKeysOfDeleted'
    BY <1>a, <2>1, <2>3 DEF KeysKnown, NoKeysOfDeleted, Deleting, Of
  <2>5. ToPublish'
    <3> SUFFICES ASSUME NEW q \in Request, req'[q].at = "keyvar"
                 PROVE  \E y \in keys' : y.id = req'[q].token /\ req'[q].s = {y.s}
      BY DEF ToPublish
    <3>1. req[q].at = "keyvar" /\ req'[q] = req[q]
      BY <1>a, <2>3
    <3>2. PICK y \in keys : y.id = req[q].token /\ req[q].s = {y.s}
      BY <3>1 DEF KeysKnown, ToPublish
    <3> QED
      BY <2>1, <2>2, <3>1, <3>2
  <2>6. ASSUME NEW i \in keyVars PROVE Accounted(i)'
    <3>1. CASE x.id = i
      BY <2>3, <3>1 DEF Accounted
    <3>2. ASSUME NEW y \in keys, y.id = i, x.id # i PROVE Accounted(i)'
      BY <2>1, <3>2 DEF Accounted
    <3>3. ASSUME NEW q \in Request, req[q].at = "unkeyvar", req[q].token = i PROVE Accounted(i)'
      BY <1>a, <2>1, <3>3 DEF Accounted, Idle
    <3> QED
      BY <3>1, <3>2, <3>3 DEF KeysKnown, Accounted
  <2> QED
    BY <2>1, <2>4, <2>5, <2>6 DEF KeysKnown
<1>4. ASSUME NEW s \in Service, DeleteService(r, s) PROVE KeysKnown' \/ "orphaned" \in mishaps'
  <2>1. /\ req'[r] = [[Idle EXCEPT !.at = "unpublish"] EXCEPT !.s = {s}]
        /\ keys' = keys /\ keyVars' = keyVars /\ req[r] = Idle
        /\ "orphaned" \in mishaps' \/ \A x \in keys : x.s # s
    BY <1>4, <1>a DEF DeleteService, Begin, Mishap, Named
  <2>2. req'[r].at = "unpublish" /\ req'[r].s = {s} /\ req[r].at = "idle"
    BY <2>1 DEF Idle
  <2> QED
    BY <1>1, <2>1, <2>2
<1>5. ASSUME Asking(r) PROVE KeysKnown' \/ "orphaned" \in mishaps'
  <2>1. /\ req[r].at = "idle" /\ keyVars' = keyVars /\ req'[r].at # "drop"
        /\ req'[r].at \notin {"keyvar", "unkeyvar"} => keys' = keys
    BY <1>5, AskShape DEF Idle
  <2>2. CASE req'[r].at \in {"unpublish", "keyvar", "unkeyvar"}
    BY <1>2, <1>3, <1>4, <1>5, <2>2, AskShape
  <2> QED
    BY <1>1, <2>1, <2>2
<1>6. ASSUME Working(r) PROVE KeysKnown'
  <2>1. PICK s \in Service : req[r].s = {s} /\ S(r) = s /\ s \in used
    BY <1>6, ServiceType, WorkShape
  <2>2. /\ req'[r].at \notin {"unpublish", "unkeyvar"} /\ (req'[r].at = "keyvar" => MintKey(r))
        /\ req'[r].at = "drop" => Unpublish(r) /\ req'[r].s = {s}
    <3>1. \/ req'[r] = Idle
          \/ /\ req'[r].s = req[r].s /\ (req'[r].at = "drop" => Unpublish(r))
             /\ req'[r].at \notin {"unpublish", "unkeyvar"} /\ (req'[r].at = "keyvar" => MintKey(r))
      BY <1>6, WorkShape
    <3> QED
      BY <2>1, <3>1 DEF Idle
  <2>3. req[r].at \in {"unpublish", "drop"} => \A x \in keys : x.s # s
    BY <2>1 DEF KeysKnown, NoKeysOfDeleted, Deleting, Of
  <2>4. CASE PublishKey(r)
    <3>1. keys' = keys /\ keyVars' = keyVars \cup {req[r].token} /\ req[r].at = "keyvar"
      BY <2>4 DEF PublishKey
    <3>2. NoKeysOfDeleted' /\ ToPublish'
      BY <1>a, <2>2, <2>4, <3>1 DEF Unpublish, MintKey, KeysKnown, NoKeysOfDeleted, ToPublish, Deleting, Of
    <3>3. ASSUME NEW i \in keyVars' PROVE Accounted(i)'
      <4>1. CASE i = req[r].token
        BY <3>1, <4>1 DEF KeysKnown, ToPublish, Accounted
      <4>2. CASE i # req[r].token
        BY <1>a, <3>1, <4>2 DEF KeysKnown, Accounted
      <4> QED
        BY <4>1, <4>2
    <3> QED
      BY <3>2, <3>3 DEF KeysKnown
  <2>5. CASE UnpublishKey(r)
    <3>1. keys' = keys /\ keyVars' = keyVars \ {req[r].token} /\ req[r].at = "unkeyvar"
      BY <2>5 DEF UnpublishKey
    <3>2. NoKeysOfDeleted' /\ ToPublish'
      BY <1>a, <2>2, <2>5, <3>1 DEF Unpublish, MintKey, KeysKnown, NoKeysOfDeleted, ToPublish, Deleting, Of
    <3>3. ASSUME NEW i \in keyVars' PROVE Accounted(i)'
      BY <1>a, <3>1 DEF KeysKnown, Accounted
    <3> QED
      BY <3>2, <3>3 DEF KeysKnown
  <2>6. CASE DropService(r)
    <3>1. keys' = {x \in keys : x.s # s} /\ keyVars' = keyVars /\ req[r].at = "drop"
      BY <2>1, <2>6 DEF DropService
    <3>2. keys' = keys
      BY <2>3, <3>1
    <3>3. req'[r].at \notin {"drop", "keyvar"}
      BY <2>2, <3>1 DEF Unpublish, MintKey
    <3> QED
      BY <1>1, <2>2, <3>1, <3>2, <3>3
  <2>8. CASE MintKey(r)
    <3>1. CASE s \in live
      <4>1. /\ keys' = keys \cup {[s |-> s, id |-> made + 1]} /\ keyVars' = keyVars
            /\ req[r].at = "mint" /\ ~Deleting(s)
            /\ req' = [req EXCEPT ![r].at = "keyvar", ![r].token = made + 1]
        BY <2>1, <2>8, <3>1 DEF MintKey, Mishap, Named, Calm, Except
      <4>2. req'[r] = [req[r] EXCEPT !.at = "keyvar", !.token = made + 1] /\ req[r] \in Req
        BY <1>a, <4>1
      <4>3. req'[r].at = "keyvar" /\ req'[r].token = made + 1 /\ req'[r].s = {s}
        BY <2>1, <4>2 DEF Req
      <4> QED
        BY <1>0, <4>1, <4>3
    <3>2. CASE s \notin live
      <4>1. keys' = keys /\ keyVars' = keyVars /\ req[r].at = "mint" /\ req'[r] = Idle
        BY <1>a, <2>1, <2>8, <3>2 DEF MintKey, End
      <4> QED
        BY <1>1, <4>1 DEF Idle
    <3> QED
      BY <3>1, <3>2
  <2>7. CASE ~PublishKey(r) /\ ~UnpublishKey(r) /\ ~DropService(r) /\ ~MintKey(r)
    <3>1. keys' = keys /\ keyVars' = keyVars /\ req[r].at # "unkeyvar"
      BY <1>6, <2>7 DEF Working, Lookup, FindKey, Publish, PublishId, Unpublish, InsertUser, InsertRole,
                        Consume, CheckStatus, Issue, EndSessions, Answer, Ending
    <3>2. req'[r].at = "drop" => req[r].at = "unpublish" /\ req'[r].s = {s}
      BY <2>2 DEF Unpublish
    <3>3. req'[r].at \notin {"keyvar", "unpublish"}
      BY <2>2, <2>7
    <3>4. \A z \in Service : req'[r].s = {z} /\ req'[r].at \in {"unpublish", "drop"} =>
                              \A x \in keys : x.s # z
      BY <2>3, <3>2, <3>3
    <3> QED
      BY <1>1, <3>1, <3>3, <3>4
  <2> QED
    BY <2>4, <2>5, <2>6, <2>7, <2>8
<1> QED
  BY <1>5, <1>6

\* Rows and requests stay as they are, and no service has published anything new
LEMMA BelongsStill ==
    ASSUME Belongs, UNCHANGED <<rows, keyVars, req>>, mishaps \subseteq mishaps',
           \A s \in Service : Rows(s)' # {} => Rows(s) # {} \/ (s \in live /\ ~Deleting(s))
    PROVE  Belongs'
<1>1. UNCHANGED <<live, user, keys, keyVars, req>>
  BY DEF rows
<1>2. OwnersLive => OwnersLive'
  BY <1>1 DEF OwnersLive, Deleting, Of
<1>3. (RolesGiven => RolesGiven') /\ (KeysKnown => KeysKnown')
  BY <1>1 DEF RolesGiven, KeysKnown, NoKeysOfDeleted, ToPublish, Accounted, Deleting, Of
<1> QED
  BY <1>2, <1>3 DEF Belongs, Calm, Except

LEMMA HandRows ==
    ASSUME Typed, NEW k \in Key, Hand(k)
    PROVE  \A s \in Service : Rows(s)' # {} => Rows(s) # {}
<1>1. CASE EditVariable(k)
  BY <1>1, TakenRows DEF EditVariable
<1>2. ASSUME NEW j \in Key, RenameVariable(j, k), NEW s \in Service, NEW i \in Rows(s)'
      PROVE  Rows(s) # {}
  <2>1. i \in Key /\ pool'[i].of = {s}
    BY <1>2 DEF Rows
  <2>2. pool'[i] = pool[i] \/ pool'[i] = Free \/ pool'[i] = pool[j]
    BY <1>2, <2>1 DEF RenameVariable, Typed, TypeOK
  <2>3. pool[i].of = {s} \/ pool[j].of = {s}
    BY <2>1, <2>2 DEF Free
  <2> QED
    BY <1>2, <2>1, <2>3 DEF Rows
<1> QED
  BY <1>1, <1>2 DEF Hand

LEMMA CrashRows ==
    ASSUME Typed, Crash
    PROVE  \A s \in Service : Rows(s)' # {} => Rows(s) # {} \/ s \in live
<1>1. PICK p \in {pool, Pruned} :
        pool' = p \/ \E s \in live : pool' = [p EXCEPT ![AppId] = [of |-> {s}, value |-> 0]]
  BY DEF Crash
<1>2. /\ \A k \in Key : p[k] = pool[k] \/ p[k].of = {}
      /\ p = [k \in Key |-> p[k]]
  BY DEF Pruned, Free, Typed, TypeOK
<1>3. ASSUME NEW s \in Service, NEW k \in Rows(s)'
      PROVE  Rows(s) # {} \/ s \in live
  <2>1. k \in Key /\ pool'[k].of = {s}
    BY <1>3 DEF Rows
  <2>2. CASE pool' = p
    BY <1>2, <2>1, <2>2 DEF Rows
  <2>3. ASSUME NEW x \in live, pool' = [p EXCEPT ![AppId] = [of |-> {x}, value |-> 0]]
        PROVE  Rows(s) # {} \/ s \in live
    <3>1. CASE k = AppId
      BY <1>2, <2>1, <2>3, <3>1
    <3>2. CASE k # AppId
      <4>1. pool'[k] = p[k]
        BY <1>2, <2>1, <2>3, <3>2
      <4> QED
        BY <1>2, <2>1, <4>1 DEF Rows
    <3> QED
      BY <3>1, <3>2
  <2> QED
    BY <1>1, <2>2, <2>3
<1> QED
  BY <1>3

LEMMA BelongsNext == Typed /\ Belongs /\ [Next]_vars => Belongs'
<1> SUFFICES ASSUME Typed, Belongs, [Next]_vars PROVE Belongs'
  OBVIOUS
<1>1. CASE UNCHANGED vars
  <2>1. UNCHANGED <<rows, keyVars, req, mishaps, pool>>
    BY <1>1 DEF vars, published
  <2> QED
    BY <2>1, BelongsStill DEF Rows
<1>2. ASSUME "left" \in mishaps' PROVE Belongs'
  BY <1>2 DEF Belongs, Calm, Except
<1>3. ASSUME Crash \/ \E r \in Request : Dropped(r) \/ Abandon(r) PROVE Belongs'
  <2>1. CASE Crash /\ UNCHANGED req
    <3>1. \A s \in Service : ~Deleting(s)
      BY <2>1 DEF Crash, Deleting, Of, Idle
    <3> QED
      BY <2>1, <3>1, CutShape, CrashRows, BelongsStill
  <2> QED
    BY <1>2, <1>3, <2>1, CutShape
<1>5. ASSUME NEW k \in Key, Hand(k) PROVE Belongs'
  BY <1>5, HandStill, HandRows, BelongsStill
<1>4. ASSUME NEW r \in Request, Asking(r) \/ Working(r) PROVE Belongs'
  <2>1. mishaps \subseteq mishaps'
    BY <1>4, AskShape, WorkShape DEF Alone
  <2>2. SUFFICES ASSUME Calm'
                 PROVE  /\ OwnersLive'
                        /\ RolesGiven' \/ "unroled" \in mishaps'
                        /\ KeysKnown' \/ "orphaned" \in mishaps'
    BY DEF Belongs, Except
  <2>3. /\ OwnersLive
        /\ RolesGiven \/ "unroled" \in mishaps'
        /\ KeysKnown \/ "orphaned" \in mishaps'
    BY <2>1, <2>2 DEF Belongs, Calm, Except
  <2> QED
    BY <1>4, <2>2, <2>3, OwnersStep, RolesStep, KeysStep
<1> QED
  BY <1>1, <1>3, <1>4, <1>5 DEF Next, Hand

LEMMA BelongsInit == Init => Belongs
<1> SUFFICES ASSUME Init PROVE OwnersLive /\ RolesGiven /\ KeysKnown
  BY DEF Belongs
<1>1. /\ \A r \in Request : req[r].at = "idle"
      /\ \A s \in Service : user[s].st = "none"
      /\ \A k \in Key : pool[k].of = {}
      /\ keyVars = {}
  BY DEF Init, Idle, NoUser, Free
<1> QED
  BY <1>1 DEF OwnersLive, RolesGiven, KeysKnown, NoKeysOfDeleted, ToPublish, Accounted,
              Rows, Deleting, Of

\* When no request is at work, published secrets and API keys have their rows, and users
\* their role, but after the mishaps named (delete_baas_service, list_app_users_with_roles).
THEOREM RowsBelongAlways == Spec => []RowsBelong
<1>1. Typed /\ Belongs => RowsBelong
  <2> SUFFICES ASSUME Typed, Belongs, Quiet, Calm PROVE RowsBelong
    BY DEF RowsBelong, Calm
  <2>1. \A r \in Request : req[r].at = "idle"
    BY DEF Quiet, Idle
  <2>2. \A k \in Key : \A s \in Service : pool[k].of = {s} => s \in live
    BY DEF Belongs, OwnersLive, Rows
  <2>3. keyVars \subseteq {x.id : x \in keys} \/ Except({"orphaned"})
    BY <2>1 DEF Belongs, KeysKnown, Accounted
  <2>4. \A s \in Service : user[s].st # "none" => user[s].role \/ Except({"unroled"})
    BY <2>1 DEF Belongs, RolesGiven, Of
  <2> QED
    BY <2>2, <2>3, <2>4 DEF RowsBelong
<1> QED
  BY <1>1, TypeInit, TypeNext, BelongsInit, BelongsNext, PTL DEF Spec
=============================================================================
