----------------------------- MODULE AppSessions -----------------------------
(***************************************************************************)
(* The end users of BaaS services: their sign-ins, refresh tokens and the  *)
(* secrets that sign their access tokens (controllers/                     *)
(* app_user_controller.rs, utils/app_auth.rs).                             *)
(*                                                                         *)
(* The services are of one project.  A service has no column for its       *)
(* secret: its secret is the row of the project's variables that names the *)
(* service as its source, under a key that the services of the project may *)
(* share, and whoever needs a secret that is not there makes one.  Others  *)
(* write the same variables: the ids of services are published under a     *)
(* chosen name or HERMES_AUTH_APP_ID, also when the process starts, and    *)
(* users and other resources set, rename and remove variables.  Nothing is *)
(* locked and there is no transaction.  One action is one statement; a     *)
(* service has at most one end user and a user one role.                   *)
(***************************************************************************)
EXTENDS Naturals, FiniteSets

CONSTANTS
    Service,    \* services of one project
    Request,    \* requests in flight
    Key,        \* names of variables
    Default,    \* HERMES_AUTH_SECRET
    AppId,      \* HERMES_AUTH_APP_ID
    Retired,    \* names that the start of the process prunes, as HERMES_APP_ID
    MaxEvents   \* bound: requests, failures, crashes and variables in other hands

ASSUME SessionConstantsOK == {Default, AppId} \cup Retired \subseteq Key /\ MaxEvents \in Nat

VARIABLES
    live, used, \* services that have a row, and that ever had one
    user,       \* user[s]: the end user of s
    tokens,     \* rows of app_refresh_tokens
    keys,       \* rows of app_api_keys
    pool,       \* pool[k]: whose secret or, without a value, whose id is under k
    keyVars,    \* API keys that were published to the project, under whatever name
    signed,     \* access tokens that were handed out
    req,        \* req[r]: a request
    made,       \* the secrets, tokens and keys made so far, which names them
    events,
    mishaps     \* ghost: the mishaps that happened

rows == <<live, used, user, tokens, keys>>
published == <<pool, keyVars>>
vars == <<rows, published, signed, req, made, events, mishaps>>

Free == [of |-> {}, value |-> 0]
NoUser == [st |-> "none", pw |-> 0, role |-> FALSE]
Idle == [at |-> "idle", s |-> {}, kind |-> "none", token |-> 0, session |-> 0, pw |-> 0, value |-> 0, key |-> Default]

Init ==
    /\ \/ live = {} /\ keys = {}
       \/ \E s \in Service : live = {s} /\ keys = {[s |-> s, id |-> 0]}
    /\ used = live
    /\ user = [s \in Service |-> NoUser]
    /\ tokens = {} /\ pool = [k \in Key |-> Free] /\ keyVars = {} /\ signed = {}
    /\ req = [r \in Request |-> Idle]
    /\ made = 0 /\ events = 0 /\ mishaps = {}

Event == events < MaxEvents /\ events' = events + 1
Named(name, happened) == IF happened THEN {name} ELSE {}
Mishap(names) == mishaps' = mishaps \cup names
Goto(r, l) == req' = [req EXCEPT ![r].at = l]
End(r) == req' = [req EXCEPT ![r] = Idle]
S(r) == CHOOSE s \in Service : req[r].s = {s}
Of(s) == {r \in Request : req[r].s = {s}}
SigningIn == {"user", "role", "consume", "status", "lookup", "findkey", "publish", "issue"}
Creating == {"appid", "publish", "mint"}
Ending == {"suspended", "reset"}
Deleting(s) == \E r \in Of(s) : req[r].at \in {"unpublish", "drop"}
Signing(s) == \E r \in Of(s) : req[r].at \in SigningIn
EndingOf(s) == \E r \in Of(s) : req[r].at \in Ending
Begin(r, s, state) ==
    /\ req[r] = Idle /\ Event
    /\ req' = [req EXCEPT ![r] = [state EXCEPT !.s = {s}]]

-----------------------------------------------------------------------------
(***************************************************************************)
(* The secret of a service: utils/app_auth.rs                              *)
(***************************************************************************)

Secret(k) == pool[k].value # 0
Own(s) == {k \in Key : pool[k].of = {s} /\ Secret(k)}

\* What else a creation was asked to publish: the secret after the id, then an API key
Further(r) ==
    \/ End(r)
    \/ req' = [req EXCEPT ![r].at = "mint", ![r].key = Default]
    \/ /\ req[r].at = "appid"
       /\ \E k \in Key : req' = [req EXCEPT ![r].at = "publish", ![r].key = k]

\* The secret is known: a sign-in signs, get_auth_integration publishes the service's id
Known(r, v) ==
    \/ req[r].kind = "signin" /\ req' = [req EXCEPT ![r].at = "issue", ![r].value = v]
    \/ req[r].kind = "integrate" /\ req' = [req EXCEPT ![r].at = "appid", ![r].key = AppId]
    \/ req[r].kind = "create" /\ Further(r)
    \/ req[r].kind \in {"verify", "rotate"} /\ End(r)

\* get_or_create_secret
Lookup(r) ==
    /\ req[r].at = "lookup"
    /\ IF Own(S(r)) = {} THEN Goto(r, "findkey")
       ELSE \E k \in Own(S(r)) : Known(r, pool[k].value)
    /\ UNCHANGED <<rows, published, signed, made, events, mishaps>>

\* rotate_secret: under the key that the service has, or else the default
FindKey(r) ==
    /\ req[r].at = "findkey"
    /\ \E k \in IF Own(S(r)) = {} THEN {Default} ELSE Own(S(r)) :
        req' = [req EXCEPT ![r].at = "publish", ![r].key = k]
    /\ UNCHANGED <<rows, published, signed, made, events, mishaps>>

\* publish_baas_var: the row of the key is taken over, whosever it was
Publish(r) ==
    /\ req[r].at = "publish"
    /\ pool' = [pool EXCEPT ![req[r].key] = [of |-> req[r].s, value |-> made + 1]]
    /\ made' = made + 1
    /\ Known(r, made + 1)
    /\ Mishap(Named("shared", Secret(req[r].key) /\ pool[req[r].key].of # req[r].s)
              \cup Named("first", req[r].kind # "rotate" /\ Own(S(r)) # {})
              \cup Named("race", S(r) \notin live \/ Deleting(S(r))))
    /\ UNCHANGED <<rows, keyVars, signed, events>>

\* Something that is no service's takes the row of a key over, or removes it
TakeOver(k) ==
    /\ pool' = [pool EXCEPT ![k] = Free]
    /\ Mishap(Named("overwritten", Secret(k)))

\* publish_baas_var of an id, which takes the row over too, be it its own service's secret
PublishId(r) ==
    /\ req[r].at = "appid"
    /\ pool' = [pool EXCEPT ![req[r].key] = [of |-> req[r].s, value |-> 0]]
    /\ IF req[r].kind = "create" THEN Further(r) ELSE End(r)
    /\ Mishap(Named("overwritten", Secret(req[r].key))
              \cup Named("race", S(r) \notin live \/ Deleting(S(r))))
    /\ UNCHANGED <<rows, keyVars, signed, made, events>>

\* get_auth_integration
Integrate(r, s) ==
    /\ s \in live
    /\ Begin(r, s, [Idle EXCEPT !.at = "lookup", !.kind = "integrate"])
    /\ UNCHANGED <<rows, published, signed, made, mishaps>>

Rotate(r, s) ==
    /\ s \in live
    /\ Begin(r, s, [Idle EXCEPT !.at = "findkey", !.kind = "rotate"])
    /\ Mishap({"rotated"})
    /\ UNCHANGED <<rows, published, signed, made>>

-----------------------------------------------------------------------------
(***************************************************************************)
(* Services and their API keys                                             *)
(***************************************************************************)

\* create_baas_service: the row, then whatever was asked to be published, which may be nothing
CreateService(r, s, l, k) ==
    /\ s \notin used /\ (l = "mint" => k = Default)
    /\ Begin(r, s, [Idle EXCEPT !.at = l, !.kind = "create", !.key = k])
    /\ live' = live \cup {s} /\ used' = used \cup {s}
    /\ UNCHANGED <<user, tokens, keys, published, signed, made, mishaps>>

CreateHidden(r, s) ==
    /\ s \notin used
    /\ req[r] = Idle /\ Event /\ UNCHANGED req
    /\ live' = live \cup {s} /\ used' = used \cup {s}
    /\ UNCHANGED <<user, tokens, keys, published, signed, made, mishaps>>

\* The API key of a creation; its service may have been deleted since
MintKey(r) ==
    /\ req[r].at = "mint"
    /\ IF S(r) \in live
       THEN /\ keys' = keys \cup {[s |-> S(r), id |-> made + 1]} /\ made' = made + 1
            /\ req' = [req EXCEPT ![r].at = "keyvar", ![r].token = made + 1]
            /\ Mishap(Named("race", Deleting(S(r))))
       ELSE UNCHANGED <<keys, made, mishaps>> /\ End(r)
    /\ UNCHANGED <<live, used, user, tokens, published, signed, events>>

\* delete_baas_service
DeleteService(r, s) ==
    /\ s \in live
    /\ Begin(r, s, [Idle EXCEPT !.at = "unpublish"])
    /\ Mishap(Named("race", Of(s) # {}) \cup Named("orphaned", \E x \in keys : x.s = s))
    /\ UNCHANGED <<rows, published, signed, made>>

Unpublish_Project(r) ==
    /\ req[r].at = "unpublish"
    /\ pool' = [k \in Key |-> Free]
    /\ Goto(r, "drop")
    /\ UNCHANGED <<rows, keyVars, signed, made, events, mishaps>>

Unpublish(r) ==
    /\ req[r].at = "unpublish"
    /\ pool' = [k \in Key |-> IF pool[k].of = req[r].s THEN Free ELSE pool[k]]
    /\ Goto(r, "drop")
    /\ UNCHANGED <<rows, keyVars, signed, made, events, mishaps>>

\* The row goes with its users, tokens and keys
DropService(r) ==
    /\ req[r].at = "drop"
    /\ live' = live \ req[r].s
    /\ user' = [user EXCEPT ![S(r)] = NoUser]
    /\ tokens' = {t \in tokens : t.s # S(r)}
    /\ keys' = {x \in keys : x.s # S(r)}
    /\ End(r)
    /\ UNCHANGED <<used, published, signed, made, events, mishaps>>

\* create_app_api_key
CreateKey(r, s) ==
    /\ s \in live
    /\ Begin(r, s, [Idle EXCEPT !.at = "keyvar", !.token = made + 1])
    /\ keys' = keys \cup {[s |-> s, id |-> made + 1]} /\ made' = made + 1
    /\ Mishap(Named("race", Deleting(s)))
    /\ UNCHANGED <<live, used, user, tokens, published, signed>>

\* Its name may be that of a variable that there is, which counts as an event
PublishKey(r) ==
    /\ req[r].at = "keyvar"
    /\ keyVars' = keyVars \cup {req[r].token}
    /\ \/ UNCHANGED <<pool, mishaps, events>>
       \/ Event /\ \E k \in Key : pool[k] # Free /\ TakeOver(k)
    /\ End(r)
    /\ UNCHANGED <<rows, signed, made>>

\* delete_app_api_key
DeleteKey(r, x) ==
    /\ x \in keys
    /\ Begin(r, x.s, [Idle EXCEPT !.at = "unkeyvar", !.token = x.id])
    /\ keys' = keys \ {x}
    /\ Mishap(Named("race", \E q \in Of(x.s) : req[q].at = "keyvar"))
    /\ UNCHANGED <<live, used, user, tokens, published, signed, made>>

UnpublishKey_Skipped(r) ==
    /\ req[r].at = "unkeyvar"
    /\ End(r)
    /\ UNCHANGED <<rows, published, signed, made, events, mishaps>>

UnpublishKey(r) ==
    /\ req[r].at = "unkeyvar"
    /\ keyVars' = keyVars \ {req[r].token}
    /\ End(r)
    /\ UNCHANGED <<rows, pool, signed, made, events, mishaps>>

-----------------------------------------------------------------------------
(***************************************************************************)
(* The project's variables in other hands: users and other resources       *)
(***************************************************************************)

\* set_project_env, delete_project_env, publish_project_env of a database or bucket
EditVariable(k) ==
    /\ pool[k] # Free /\ Event
    /\ TakeOver(k)
    /\ UNCHANGED <<rows, keyVars, signed, req, made>>

\* rename_project_env: to a name that is not taken
RenameVariable(j, k) ==
    /\ pool[j] # Free /\ pool[k] = Free /\ Event
    /\ pool' = [pool EXCEPT ![j] = Free, ![k] = pool[j]]
    /\ UNCHANGED <<rows, keyVars, signed, req, made, mishaps>>

-----------------------------------------------------------------------------
(***************************************************************************)
(* Sign-ins                                                                *)
(***************************************************************************)

\* What every public call asks first: an API key of the service
Admitted(s) == s \in live /\ \E x \in keys : x.s = s
SignIn(r, s, state) ==
    /\ Admitted(s)
    /\ Begin(r, s, [state EXCEPT !.kind = "signin"])
    /\ Mishap(Named("overlap", EndingOf(s)) \cup Named("race", Deleting(s)))

\* verify_app_token
Verify(r, s) ==
    /\ Admitted(s)
    /\ Begin(r, s, [Idle EXCEPT !.at = "lookup", !.kind = "verify"])
    /\ UNCHANGED <<rows, published, signed, made, mishaps>>

Register(r, s) ==
    /\ user[s].st = "none"
    /\ SignIn(r, s, [Idle EXCEPT !.at = "user"])
    /\ UNCHANGED <<rows, published, signed, made>>

\* Nobody else has the identifier by now, and the service is still there
InsertUser(r) ==
    /\ req[r].at = "user"
    /\ IF S(r) \in live /\ user[S(r)].st = "none"
       THEN /\ user' = [user EXCEPT ![S(r)] = [st |-> "active", pw |-> 1, role |-> FALSE]]
            /\ req' = [req EXCEPT ![r].at = "role", ![r].pw = 1]
       ELSE UNCHANGED user /\ End(r)
    /\ UNCHANGED <<live, used, tokens, keys, published, signed, made, events, mishaps>>

InsertRole(r) ==
    /\ req[r].at = "role"
    /\ IF user[S(r)].st # "none"
       THEN user' = [user EXCEPT ![S(r)].role = TRUE] /\ Goto(r, "lookup")
       ELSE UNCHANGED user /\ End(r)
    /\ UNCHANGED <<live, used, tokens, keys, published, signed, made, events, mishaps>>

\* The password is compared, and the account is active
Login(r, s) ==
    /\ user[s].st = "active"
    /\ SignIn(r, s, [Idle EXCEPT !.at = "lookup", !.pw = user[s].pw])
    /\ UNCHANGED <<rows, published, signed, made>>

Refresh(r, t) ==
    /\ t \in tokens
    /\ SignIn(r, t.s, [Idle EXCEPT !.at = "consume", !.token = t.id, !.session = t.session, !.pw = t.pw])
    /\ UNCHANGED <<rows, published, signed, made>>

\* DELETE ... RETURNING: one of two that show the same token gets the row
Presented(r) == {t \in tokens : t.id = req[r].token}
Consume_Read(r) ==
    /\ req[r].at = "consume"
    /\ IF Presented(r) # {} THEN Goto(r, "status") ELSE End(r)
    /\ UNCHANGED <<rows, published, signed, made, events, mishaps>>

Consume(r) ==
    /\ req[r].at = "consume"
    /\ tokens' = tokens \ Presented(r)
    /\ IF Presented(r) # {} THEN Goto(r, "status") ELSE End(r)
    /\ UNCHANGED <<live, used, user, keys, published, signed, made, events, mishaps>>

CheckStatus(r) ==
    /\ req[r].at = "status"
    /\ IF user[S(r)].st = "active" THEN Goto(r, "lookup") ELSE End(r)
    /\ UNCHANGED <<rows, published, signed, made, events, mishaps>>

\* issue_token_pair: the access token is signed, and handed out once the refresh
\* token has its row
Issue(r) ==
    /\ req[r].at = "issue"
    /\ IF user[S(r)].st # "none"
       THEN /\ tokens' = tokens \cup
                {[s |-> S(r), id |-> made + 1, pw |-> req[r].pw,
                  session |-> IF req[r].session = 0 THEN made + 1 ELSE req[r].session]}
            /\ made' = made + 1
            /\ signed' = signed \cup {[s |-> S(r), value |-> req[r].value]}
       ELSE UNCHANGED <<tokens, made, signed>>
    /\ End(r)
    /\ UNCHANGED <<live, used, user, keys, published, events, mishaps>>

Logout(r, t) ==
    /\ t \in tokens /\ Admitted(t.s)
    /\ req[r] = Idle /\ Event /\ UNCHANGED req
    /\ tokens' = tokens \ {t}
    /\ UNCHANGED <<live, used, user, keys, published, signed, made, mishaps>>

-----------------------------------------------------------------------------
(***************************************************************************)
(* The workspace's hold on a user                                          *)
(***************************************************************************)

\* update_app_user_status
SetStatus(r, s, st) ==
    /\ user[s].st # "none"
    /\ Begin(r, s, [Idle EXCEPT !.at = IF st = "suspended" THEN "suspended" ELSE "answer"])
    /\ user' = [user EXCEPT ![s].st = st]
    /\ Mishap(Named("overlap", st = "suspended" /\ Signing(s)))
    /\ UNCHANGED <<live, used, tokens, keys, published, signed, made>>

\* reset_app_user_password
ResetPassword(r, s) ==
    /\ user[s].st # "none"
    /\ Begin(r, s, [Idle EXCEPT !.at = "reset"])
    /\ user' = [user EXCEPT ![s].pw = @ + 1]
    /\ Mishap(Named("overlap", Signing(s)))
    /\ UNCHANGED <<live, used, tokens, keys, published, signed, made>>

EndSessions_OfSuspended(r) ==
    /\ req[r].at \in Ending
    /\ tokens' = {t \in tokens : t.s # S(r) \/ req[r].at = "reset"}
    /\ End(r)
    /\ UNCHANGED <<live, used, user, keys, published, signed, made, events, mishaps>>

EndSessions(r) ==
    /\ req[r].at \in Ending
    /\ tokens' = {t \in tokens : t.s # S(r)}
    /\ End(r)
    /\ UNCHANGED <<live, used, user, keys, published, signed, made, events, mishaps>>

Answer(r) ==
    /\ req[r].at = "answer"
    /\ End(r)
    /\ UNCHANGED <<rows, published, signed, made, events, mishaps>>

\* assign_user_role_to_app, remove_user_role_from_app
SetRole(r, s, has) ==
    /\ user[s].st # "none" /\ user[s].role # has
    /\ req[r] = Idle /\ Event /\ UNCHANGED req
    /\ user' = [user EXCEPT ![s].role = has]
    /\ Mishap(Named("unroled", ~has))
    /\ UNCHANGED <<live, used, tokens, keys, published, signed, made>>

-----------------------------------------------------------------------------
\* Statements whose error is dropped (let _ =) fail, and the handler goes on
Dropped(r) ==
    /\ Event
    /\ \/ req[r].at \in Ending \cup {"keyvar", "unkeyvar"} /\ End(r)
       \/ req[r].at = "unpublish" /\ Goto(r, "drop")
       \/ req[r].at = "appid" /\ (IF req[r].kind = "create" THEN Further(r) ELSE End(r))
       \/ req[r].at = "publish" /\ req[r].kind = "create" /\ Further(r)
    /\ Mishap({"left"})
    /\ UNCHANGED <<rows, published, signed, made>>

\* A statement that fails, a client that leaves
Abandon(r) ==
    /\ req[r] # Idle /\ Event
    /\ End(r)
    /\ Mishap({"left"})
    /\ UNCHANGED <<rows, published, signed, made>>

\* The process dies and starts again.  Before it serves anybody it prunes the retired names
\* and publishes the ids of all services under the one name, unless a statement fails
\* (reconcile_baas_published_ids).
Pruned == [k \in Key |-> IF k \in Retired /\ pool[k].of # {} THEN Free ELSE pool[k]]
Crash ==
    /\ Event
    /\ req' = [r \in Request |-> Idle]
    /\ \E p \in {pool, Pruned} :
        \/ pool' = p
        \/ \E s \in live : pool' = [p EXCEPT ![AppId] = [of |-> {s}, value |-> 0]]
    /\ Mishap(Named("left", \E r \in Request : req[r] # Idle)
              \cup Named("overwritten", \E k \in Key : Secret(k) /\ pool'[k] # pool[k]))
    /\ UNCHANGED <<rows, keyVars, signed, made>>

Asking(r) ==
    \/ \E s \in Service :
        \/ Integrate(r, s) \/ Verify(r, s) \/ Rotate(r, s)
        \/ CreateHidden(r, s) \/ DeleteService(r, s)
        \/ \E l \in Creating, k \in Key : CreateService(r, s, l, k)
        \/ CreateKey(r, s) \/ Register(r, s) \/ Login(r, s) \/ ResetPassword(r, s)
        \/ \E st \in {"active", "suspended"} : SetStatus(r, s, st)
        \/ \E has \in BOOLEAN : SetRole(r, s, has)
    \/ \E x \in keys : DeleteKey(r, x)
    \/ \E t \in tokens : Refresh(r, t) \/ Logout(r, t)

Working(r) ==
    \/ Lookup(r) \/ FindKey(r) \/ Publish(r) \/ PublishId(r) \/ Unpublish(r) \/ DropService(r)
    \/ MintKey(r) \/ PublishKey(r) \/ UnpublishKey(r) \/ InsertUser(r) \/ InsertRole(r) \/ Consume(r)
    \/ CheckStatus(r) \/ Issue(r) \/ EndSessions(r) \/ Answer(r)

Next ==
    \/ \E r \in Request : Asking(r) \/ Working(r) \/ Dropped(r) \/ Abandon(r)
    \/ \E k \in Key : EditVariable(k) \/ \E j \in Key : RenameVariable(j, k)
    \/ Crash

Spec == Init /\ [][Next]_vars

-----------------------------------------------------------------------------
Except(names) == mishaps \cap names # {}
Quiet == req = [r \in Request |-> Idle]

\* Types; what belongs to a service goes with it, and a token to a user.
TypeOK ==
    /\ live \subseteq used /\ used \subseteq Service
    /\ user \in [Service -> [st : {"none", "active", "suspended"}, pw : Nat, role : BOOLEAN]]
    /\ tokens \subseteq [s : Service, id : Nat, session : Nat, pw : Nat]
    /\ keys \subseteq [s : live, id : Nat]
    /\ \A t \in tokens : user[t.s].st # "none"
    /\ \A s \in Service \ live : user[s] = NoUser
    /\ pool \in [Key -> {Free} \cup [of : {{s} : s \in Service}, value : Nat]]
    /\ keyVars \subseteq Nat /\ events \in 0..MaxEvents

\* A sign-in has at most one refresh token at a time, whichever requests show the same
\* token at once (refresh_app_token).
SingleUse == \A t, u \in tokens : t.session = u.session => t = u

\* Unless a sign-in overlaps with it or its second statement fails, a suspension and the
\* reset of a password leave no refresh token: when no request is at work a suspended user
\* has none, and those of an active user are of sign-ins with the present password
\* (update_app_user_status, reset_app_user_password).
SessionsEnd ==
    Quiet /\ ~Except({"overlap", "left"}) =>
        \A t \in tokens : user[t.s].st = "active" /\ t.pw = user[t.s].pw

\* Unless a rotation was asked for, two services publish under one key, two requests make
\* the first secret, a service is being deleted, a statement fails, or an id, an API key or
\* a hand takes over the variable of a secret, every access token that was handed out is
\* signed with the secret that its service, and an application that verifies it, will look
\* up (get_or_create_secret).
TokensVerify ==
    ~Except({"rotated", "shared", "first", "race", "left", "overwritten"}) =>
        \A t \in signed : t.s \in live /\ ~Deleting(t.s) =>
            Own(t.s) # {} /\ \A k \in Own(t.s) : pool[k].value = t.value

\* Unless requests overlap with the deletion of their service or key, or one is cut off,
\* when no request is at work a published secret or id is of a service and a published API
\* key is one, but for those of deleted services; and a user has the role without which
\* the users' list leaves him out, unless it was taken (list_app_users_with_roles).
RowsBelong ==
    Quiet /\ ~Except({"race", "left"}) =>
        /\ \A k \in Key : \A s \in Service : pool[k].of = {s} => s \in live
        /\ keyVars \subseteq {x.id : x \in keys} \/ Except({"orphaned"})
        /\ \A s \in Service : user[s].st # "none" => user[s].role \/ Except({"unroled"})
=============================================================================
