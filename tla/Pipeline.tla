------------------------------ MODULE Pipeline ------------------------------
(***************************************************************************)
(* A request on its way through the API: the middleware stack that         *)
(* core/registrar.py builds (CORS, trace id, state, access log, identity,  *)
(* locale, operation log), the guards of the route, the handler, the       *)
(* exception handlers and the background task that follows the answer.     *)
(*                                                                         *)
(* Handlers are told apart by the guard they stand behind and by what they *)
(* commit; the tables they change are reduced to what a guard or a later   *)
(* handler can see: who has an account, whether it is enabled, the roles   *)
(* it is linked to.  Tokens are the business of Sessions: here a token is  *)
(* accepted or not.                                                        *)
(***************************************************************************)
EXTENDS Naturals, FiniteSets

CONSTANTS
  Slots,          \* requests in flight at a time
  Accounts,       \* the accounts there are or may come to be
  Boss,           \* the administrator that `create-admin` has made
  None,           \* no account, no identity
  Settings,       \* the settings to be considered: ENVIRONMENT and DEMO_MODE
  CallsOf,        \* bound: the routes that are called from a slot, and by whom
  MaxLogged       \* bound: the logins and unknown paths, which are logged, that are sent

VARIABLES
  settings,   \* the environment and the demo mode the server was started with
  roles,      \* the names in table role
  holds,      \* holds[a]: the roles account a is linked to (table user_role)
  standing,   \* standing[a]: "absent", "enabled" or "disabled"
  identity,   \* identity[a]: the roles in the identity cached for a, or None
  pc,         \* where each request is
  req,        \* what each request carries
  logins,     \* history: requests sent that are logged, and logins answered either way
  logged,     \* the rows of table login_log, and those that could not be written
  operations, \* the routes with a row in table opera_log
  everHeld    \* history: the roles each account has ever been linked to

database == <<roles, holds, standing>>
history == <<logins, everHeld>>
logs == <<logged, operations>>
vars == <<settings, roles, holds, standing, identity, pc, req, logins, logged, operations, everHeld>>

RoleNames == {"admin", "user"}
Identities == SUBSET RoleNames

\* The routes, one for each guard and effect:
\*   login             POST   /auth/login             rate limit
\*   account           GET    /auth/me, /users/me     require_authenticated
\*   patchAccount      PATCH  /users/me               require_authenticated
\*   patchProfile      PATCH  /athletes/me            require_athlete
\*   setStatus         PATCH  /admin/athletes/{id}/status    require_admin
\*   createAthlete     POST   /admin/athletes         require_admin
\*   readRole          GET    /role/{pk}             a bearer token
\*   editRole          POST, PUT /role                a bearer token
\*   deleteRole        DELETE /role                   a bearer token
\*   clearLoginLogs    DELETE /login_log              rbac_verify
\*   clearOperaLogs    DELETE /opera_log              rbac_verify
\*   editPolicy        POST, PUT, DELETE /casbin      rbac_verify
\*   stray             a path below /admin/api/v1, where no route is: the API is
\*                     at /api/v1, the administration at /api/v1/admin
AdminRoutes == {"setStatus", "createAthlete"}
Writes == AdminRoutes \cup {"login", "patchProfile", "deleteRole"}
LoginLogRoutes == {"clearLoginLogs"}
OperaLogRoutes == {"clearOperaLogs"}
PolicyRoutes == {"editPolicy"}
LoggedRoutes == {"login", "stray"}
RbacRoutes == LoginLogRoutes \cup OperaLogRoutes \cup PolicyRoutes
Routes == Writes \cup RbacRoutes \cup {"account", "patchAccount", "readRole", "editRole", "stray"}

ASSUME PipelineAssumption ==
  /\ IsFiniteSet(Slots)
  /\ Boss \in Accounts /\ None \notin Accounts
  /\ Settings \subseteq [environment : {"dev", "preprod", "prod"}, demo : BOOLEAN]
  /\ CallsOf \in [Slots -> SUBSET [route : Routes, who : Accounts \cup {None}]]
  /\ MaxLogged \in Nat

\* What the login log tells of an attempt.
Attempts == {"ok", "fail"}

NoRequest ==
  [route |-> "none",
   who |-> None,        \* the account of the bearer token, or of the login
   target |-> None,     \* the account set_status works on
   user |-> None,       \* request.user: the roles of the identity
   locale |-> FALSE,    \* request.state.locale has been set
   effect |-> FALSE,    \* the transaction of the handler has committed
   attempt |-> "none",  \* the login attempt to be logged after the answer
   record |-> FALSE,    \* a row of the operation log is on its way
   answer |-> "none",   \* ok, failed (200 with the body of fail), refused (4xx), error (500)
   shape |-> "none"]    \* json with a trace id, untraced json, or bare text

Init ==
  /\ settings \in Settings
  /\ roles = {"admin"}
  /\ holds = [a \in Accounts |-> IF a = Boss THEN {"admin"} ELSE {}]
  /\ standing = [a \in Accounts |-> IF a = Boss THEN "enabled" ELSE "absent"]
  /\ identity = [a \in Accounts |-> None]
  /\ pc = [r \in Slots |-> "idle"]
  /\ req = [r \in Slots |-> NoRequest]
  /\ logins = [sent |-> 0, ok |-> 0, fail |-> 0]
  /\ logged = [ok |-> 0, fail |-> 0, lost |-> 0]
  /\ operations = {}
  /\ everHeld = holds

Goto(r, there) == pc' = [pc EXCEPT ![r] = there]

-----------------------------------------------------------------------------
(* Answers                                                                 *)

\* OperaLogMiddleware logs what lies below /client, /admin, /company or /mentor
\* followed by FASTAPI_API_V1_PATH, which is none of the routes.
LoggedPath(route) == route = "stray"

\* What has got through the identity and the locale is inside OperaLogMiddleware.
\* execute_request takes down answers and exceptions alike.
Recorded(r) == pc[r] \in {"guard", "handler", "invalidate"} /\ LoggedPath(req[r].route)

\* The answer of request r leaves; `done` says whether its handler committed.
\* Of a request that committed nothing, and is not recorded, only the answer is
\* kept.  A login that is answered is counted with its outcome.
Respond(r, answer, shape, done, attempt) ==
  /\ Goto(r, "answered")
  /\ LET kept == IF done \/ answer = "ok" \/ Recorded(r) THEN req[r] ELSE NoRequest
     IN req' = [req EXCEPT ![r] =
          [NoRequest EXCEPT !.route = kept.route, !.who = kept.who, !.answer = answer,
             !.shape = shape, !.effect = done, !.attempt = attempt, !.record = Recorded(r)]]
  /\ logins' = IF attempt = "none" THEN logins ELSE [logins EXCEPT ![attempt] = @ + 1]
  /\ UNCHANGED <<settings, logs>>

Succeed(r) == Respond(r, "ok", "json", req[r].route \in Writes, "none")

\* The handlers of HTTPException, of RequestValidationError and of the classes
\* of errors.py run inside the stack.
Refuse(r) == Respond(r, "refused", "json", FALSE, "none")

\* auth_exception_handler answers by itself, without a trace id.
RefuseIdentity(r, answer) == Respond(r, answer, "untraced", FALSE, "none")

\* Any other exception climbs to the outermost layer, whose handler is the one
\* registered last for status 500.  Outside dev it translates its message, and
\* fails itself when no locale has been set: the parent application then
\* answers with bare text.
Crash(r) ==
  LET shape == IF settings.environment # "dev" /\ ~req[r].locale THEN "bare" ELSE "json"
  IN Respond(r, "error", shape, req[r].effect, "none")

-----------------------------------------------------------------------------
(* The middleware stack                                                    *)

\* A request comes in: with a bearer token, or without an Authorization header;
\* a login with the e-mail of an account, or with an unknown one.  The rest of
\* its payload is chosen where the handler uses it.
Arrive(r, route, who) ==
  /\ pc[r] = "idle"
  /\ who # None => standing[who] # "absent"
  /\ route \in LoggedRoutes => logins.sent < MaxLogged
  /\ Goto(r, "auth")
  /\ req' = [req EXCEPT ![r] = [NoRequest EXCEPT !.route = route, !.who = who]]
  /\ logins' = IF route \in LoggedRoutes THEN [logins EXCEPT !.sent = @ + 1] ELSE logins
  /\ UNCHANGED <<settings, database, identity, logs, everHeld>>

\* StateMiddleware asks Redis where the address is; a failure is
\* nobody's to catch.
LocateFails(r) == Crash(r)

\* Behind it, JwtAuthMiddleware.authenticate up to the cached identity: a path
\* in TOKEN_REQUEST_PATH_EXCLUDE and a request without a token go on as nobody;
\* a token that does not hold is refused; a failure of Redis is answered with
\* 500.  Nothing shared but the cached identity is read on the way.
Authenticate(r) ==
  /\ pc[r] = "auth"
  /\ \/ LocateFails(r)
     \/ /\ req[r].route = "login" \/ req[r].who = None
        /\ Goto(r, "guard")
        /\ UNCHANGED <<settings, req, logins, logs>>
     \/ /\ req[r].route # "login" /\ req[r].who # None
        /\ \/ \E answer \in {"refused", "error"} : RefuseIdentity(r, answer)
           \/ /\ Goto(r, IF identity[req[r].who] = None THEN "load" ELSE "guard")
              /\ req' = [req EXCEPT ![r].user = identity[req[r].who]]
              /\ UNCHANGED <<settings, logins, logs>>
  /\ UNCHANGED <<database, identity, everHeld>>

\* get_current_user reads the row with its roles.  That all of them are disabled
\* cannot be: nothing writes Role.status, whose default is 1.  An error of SQLAlchemy has a
\* `code` of its own, which is no HTTP status: building the answer fails, and
\* that exception climbs to the outermost layer.
LoadUser(r) ==
  /\ pc[r] = "load"
  /\ \/ /\ standing[req[r].who] = "enabled"
        /\ Goto(r, "cache")
        /\ req' = [req EXCEPT ![r].user = holds[req[r].who]]
        /\ UNCHANGED <<settings, logins, logs>>
     \/ standing[req[r].who] # "enabled" /\ RefuseIdentity(r, "refused")
     \/ Crash(r)
     \/ RefuseIdentity(r, "error")
  /\ UNCHANGED <<database, identity, everHeld>>

\* Mutant: the identity is cached with all the roles there are.
CacheUserAllRoles(r) ==
  /\ pc[r] = "cache"
  /\ identity' = [identity EXCEPT ![req[r].who] = roles]
  /\ Goto(r, "guard")
  /\ UNCHANGED <<settings, req, logins, logs, database, everHeld>>

\* SETEX of the identity, by what was read.
CacheUser(r) ==
  /\ pc[r] = "cache"
  /\ \/ /\ identity' = [identity EXCEPT ![req[r].who] = req[r].user]
        /\ Goto(r, "guard")
        /\ UNCHANGED <<settings, req, logins, logs>>
     \/ RefuseIdentity(r, "error") /\ UNCHANGED identity
  /\ UNCHANGED <<database, everHeld>>

-----------------------------------------------------------------------------
(* The guards                                                              *)

\* demo_site: in demo mode only reads, the login and the logout pass.
DemoAllows(route) == settings.demo => route \in {"account", "readRole", "login", "stray"}

\* Mutant: any identity opens the administrator's routes.
PermitsAnyUser(r) == req[r].route = "login" \/ req[r].user # None

\* permission.py and HTTPBearer: what the guard of the route asks for.
Permits(r) ==
  LET user == req[r].user
  IN CASE req[r].route \in {"login", "stray"} -> TRUE
       [] req[r].route \in AdminRoutes -> user # None /\ "admin" \in user
       [] req[r].route = "patchProfile" -> user # None /\ "user" \in user
       [] OTHER -> user # None

\* Mutant: the locale is set behind the guards.
GuardWithoutLocale(r) ==
  /\ pc[r] = "guard"
  /\ \/ /\ DemoAllows(req[r].route) /\ Permits(r)
        /\ Goto(r, "handler")
        /\ UNCHANGED <<settings, req, logins, logs>>
     \/ ~(DemoAllows(req[r].route) /\ Permits(r)) /\ Refuse(r)
     \/ req[r].route = "login" /\ (Refuse(r) \/ Crash(r))
  /\ UNCHANGED <<database, identity, everHeld>>

\* The window of the login's rate limit is full.
RateLimited(r) == req[r].route = "login" /\ Refuse(r)

\* What is to be recorded has its body parsed as JSON first: an exception of
\* OperaLogMiddleware itself, which is not recorded.
BadArguments(r) ==
  /\ LoggedPath(req[r].route)
  /\ Goto(r, "answered")
  /\ req' = [req EXCEPT ![r] = [NoRequest EXCEPT !.answer = "error", !.shape = "json"]]
  /\ UNCHANGED <<settings, logins, logs>>

\* I18nMiddleware sets the locale; the operation log passes on what it does not
\* record; then the dependencies of the route run: demo_site, the rate limit of
\* login, the guard.  An error of Redis in the limiter is an unknown exception.
Guard(r) ==
  /\ pc[r] = "guard"
  /\ \/ /\ DemoAllows(req[r].route) /\ Permits(r)
        /\ Goto(r, "handler")
        /\ req' = [req EXCEPT ![r].locale = TRUE]
        /\ UNCHANGED <<settings, logins, logs>>
     \/ ~(DemoAllows(req[r].route) /\ Permits(r)) /\ Refuse(r)
     \/ RateLimited(r)
     \/ BadArguments(r)
     \/ req[r].route = "login" /\ Respond(r, "error", "json", FALSE, "none")
  /\ UNCHANGED <<database, identity, everHeld>>

-----------------------------------------------------------------------------
(* The handlers                                                            *)

\* auth_service.login: an unknown e-mail is refused and not logged; a wrong
\* password or a disabled account is refused, and the failure is logged by the
\* background task of the exception; a success is logged by the background
\* task of the answer, once the transaction has committed.
Login(r) ==
  /\ pc[r] = "handler" /\ req[r].route = "login"
  /\ IF req[r].who = None
     THEN Refuse(r)
     ELSE \/ Respond(r, "refused", "json", FALSE, "fail")
          \/ standing[req[r].who] = "enabled" /\ Respond(r, "ok", "json", TRUE, "ok")
  /\ UNCHANGED <<database, identity, everHeld>>

\* GET /auth/me and /users/me: the identity as it is.
Account(r) ==
  /\ pc[r] = "handler" /\ req[r].route = "account"
  /\ Succeed(r)
  /\ UNCHANGED <<database, identity, everHeld>>

\* PATCH /athletes/me: the profile of the account.
PatchProfile(r) ==
  /\ pc[r] = "handler" /\ req[r].route = "patchProfile"
  /\ Succeed(r)
  /\ UNCHANGED <<database, identity, everHeld>>

\* An athlete's account has a profile, the administrator's has none.
HasProfile(a) == a # Boss /\ standing[a] # "absent"

\* set_status up to its commit.
SetStatus(r) ==
  /\ pc[r] = "handler" /\ req[r].route = "setStatus"
  /\ \/ \E a \in Accounts, value \in {"enabled", "disabled"} :
          /\ HasProfile(a)
          /\ standing' = [standing EXCEPT ![a] = value]
          /\ Goto(r, "invalidate")
          /\ req' = [req EXCEPT ![r].effect = TRUE, ![r].target = a]
          /\ UNCHANGED <<settings, logins, logs>>
     \/ Refuse(r) /\ UNCHANGED standing
  /\ UNCHANGED <<roles, holds, identity, everHeld>>

\* _invalidate_sessions after the commit; when Redis fails, the commit stays.
Invalidate(r) ==
  /\ pc[r] = "invalidate"
  /\ \/ identity' = [identity EXCEPT ![req[r].target] = None] /\ Succeed(r)
     \/ Crash(r) /\ UNCHANGED identity
  /\ UNCHANGED <<database, everHeld>>

\* Mutant: the account is made by user_dao.add, which attaches the role admin.
CreateAthleteByAdd(r) ==
  /\ pc[r] = "handler" /\ req[r].route = "createAthlete"
  /\ \E a \in Accounts :
       /\ standing[a] = "absent"
       /\ standing' = [standing EXCEPT ![a] = "enabled"]
       /\ roles' = roles \cup {"admin"}
       /\ holds' = [holds EXCEPT ![a] = {"admin"}]
       /\ everHeld' = [everHeld EXCEPT ![a] = @ \cup {"admin"}]
       /\ Succeed(r)
  /\ UNCHANGED identity

\* AthleteService.create: the role row is created if it is missing; an e-mail
\* in use, or a licence in use, is refused.
CreateAthlete(r) ==
  /\ pc[r] = "handler" /\ req[r].route = "createAthlete"
  /\ \/ \E a \in Accounts :
          /\ standing[a] = "absent"
          /\ standing' = [standing EXCEPT ![a] = "enabled"]
          /\ roles' = roles \cup {"user"}
          /\ holds' = [holds EXCEPT ![a] = {"user"}]
          /\ everHeld' = [everHeld EXCEPT ![a] = @ \cup {"user"}]
          /\ Succeed(r)
     \/ Refuse(r) /\ UNCHANGED <<database, everHeld>>
  /\ UNCHANGED identity

\* The links of a role go with its row (user_role, ON DELETE CASCADE).
DropLinks(names) == holds' = [a \in Accounts |-> holds[a] \ names]

\* Mutant: the number of deleted rows is not looked at.
DeleteRoleAlwaysOk(r) ==
  /\ pc[r] = "handler" /\ req[r].route = "deleteRole"
  /\ \E names \in Identities \ {{}} :
       /\ roles' = roles \ names
       /\ DropLinks(names)
       /\ Respond(r, "ok", "json", names \cap roles # {}, "none")
  /\ UNCHANGED <<standing, identity, everHeld>>

\* Mutant: the links do not go with the row.
DeleteRoleOnly(r) ==
  /\ pc[r] = "handler" /\ req[r].route = "deleteRole"
  /\ \E names \in Identities \ {{}} :
       /\ roles' = roles \ names
       /\ IF names \cap roles # {} THEN Succeed(r) ELSE Respond(r, "failed", "json", FALSE, "none")
  /\ UNCHANGED <<holds, standing, identity, everHeld>>

\* delete_role: the cached identities stay.  When no row matched, fail() answers
\* with status 200.
DeleteRole(r) ==
  /\ pc[r] = "handler" /\ req[r].route = "deleteRole"
  /\ \E names \in Identities \ {{}} :
       /\ roles' = roles \ names
       /\ DropLinks(names)
       /\ IF names \cap roles # {} THEN Succeed(r) ELSE Respond(r, "failed", "json", FALSE, "none")
  /\ UNCHANGED <<standing, identity, everHeld>>

\* The router finds no route: 404.
NotFound(r) ==
  /\ pc[r] = "handler" /\ req[r].route = "stray"
  /\ Refuse(r)
  /\ UNCHANGED <<database, identity, everHeld>>

\* get_role: an id that no role has makes select_as_dict(None) fail.
ReadRole(r) ==
  /\ pc[r] = "handler" /\ req[r].route = "readRole"
  /\ \/ roles # {} /\ Succeed(r)
     \/ Crash(r)
  /\ UNCHANGED <<database, identity, everHeld>>

\* role_service.create and update refuse a name in use or an unknown role.
\* What gets further fails: CreateRoleParam carries data_scope, which Role has
\* not, and role_dao has no update_roleinfo.
EditRole(r) ==
  /\ pc[r] = "handler" /\ req[r].route = "editRole"
  /\ Refuse(r) \/ Crash(r)
  /\ UNCHANGED <<database, identity, everHeld>>

\* PATCH /users/me: user_service.update calls user_dao.update_user_info, which
\* does not exist.
PatchAccount(r) ==
  /\ pc[r] = "handler" /\ req[r].route = "patchAccount"
  /\ Crash(r)
  /\ UNCHANGED <<database, identity, everHeld>>

\* rbac_verify reads request.user.is_superuser, which CurrentUserIns has not:
\* nothing behind it is ever reached.
RbacVerify(r) ==
  /\ pc[r] = "handler" /\ req[r].route \in RbacRoutes
  /\ Crash(r)
  /\ UNCHANGED <<database, identity, everHeld>>

\* Any handler may be given a payload that is refused (422), or fail before it
\* commits.
FailHandler(r) ==
  /\ pc[r] = "handler"
  /\ Refuse(r) \/ Crash(r)
  /\ UNCHANGED <<database, identity, everHeld>>

\* OperaLogService.create runs in a task of its own, whose errors nobody sees.
LogOperation(r) ==
  \/ operations' = operations \cup (IF req[r].record THEN {req[r].route} ELSE {})
  \/ req[r].record /\ UNCHANGED operations

\* The answer is out and its tasks run: LoginLogService.create adds the row of
\* the attempt in a transaction of its own, and swallows its errors.
Finish(r) ==
  /\ pc[r] = "answered"
  /\ IF req[r].attempt = "none" THEN UNCHANGED logged
     ELSE \E row \in {req[r].attempt, "lost"} : logged' = [logged EXCEPT ![row] = @ + 1]
  /\ LogOperation(r)
  /\ Goto(r, "idle")
  /\ req' = [req EXCEPT ![r] = NoRequest]
  /\ UNCHANGED <<settings, database, identity, history>>

\* The worker dies: whatever it had not committed or sent is gone.
Kill(r) ==
  /\ pc[r] # "idle"
  /\ Goto(r, "idle")
  /\ req' = [req EXCEPT ![r] = NoRequest]
  /\ logged' = IF req[r].attempt = "none" THEN logged ELSE [logged EXCEPT !.lost = @ + 1]
  /\ UNCHANGED <<settings, database, identity, operations, history>>

\* JWT_USER_REDIS_EXPIRE_SECONDS after the SETEX.
ExpireIdentity(a) ==
  /\ identity[a] # None
  /\ identity' = [identity EXCEPT ![a] = None]
  /\ UNCHANGED <<settings, database, pc, req, logs, history>>

-----------------------------------------------------------------------------
Request(r) ==
  \E call \in CallsOf[r] : Arrive(r, call.route, call.who)

Serve(r) ==
  \/ Authenticate(r) \/ LoadUser(r) \/ CacheUser(r) \/ Guard(r)
  \/ Login(r) \/ Account(r) \/ PatchProfile(r) \/ SetStatus(r) \/ Invalidate(r)
  \/ CreateAthlete(r) \/ DeleteRole(r) \/ ReadRole(r) \/ EditRole(r) \/ PatchAccount(r)
  \/ RbacVerify(r) \/ NotFound(r) \/ FailHandler(r) \/ Finish(r)

Next ==
  \/ \E r \in Slots : Request(r) \/ Serve(r) \/ Kill(r)
  \/ \E a \in Accounts : ExpireIdentity(a)

Spec == Init /\ [][Next]_vars

\* A request that was taken up goes on, and every TTL ends.
FairSpec ==
  /\ Spec
  /\ \A r \in Slots : WF_vars(Serve(r))
  /\ \A a \in Accounts : WF_vars(ExpireIdentity(a))

-----------------------------------------------------------------------------
(* Properties                                                              *)

Steps == {"idle", "auth", "load", "cache", "guard", "handler", "invalidate", "answered"}

Requests ==
  [route : Routes \cup {"none"}, who : Accounts \cup {None}, target : Accounts \cup {None},
   user : Identities \cup {None}, locale : BOOLEAN, effect : BOOLEAN,
   attempt : Attempts \cup {"none"}, record : BOOLEAN,
   answer : {"none", "ok", "failed", "refused", "error"},
   shape : {"none", "json", "untraced", "bare"}]

\* Every variable keeps its type, and a link points to a role there is.
TypeOK ==
  /\ settings \in Settings
  /\ roles \in Identities
  /\ holds \in [Accounts -> SUBSET roles]
  /\ standing \in [Accounts -> {"absent", "enabled", "disabled"}]
  /\ identity \in [Accounts -> Identities \cup {None}]
  /\ pc \in [Slots -> Steps]
  /\ req \in [Slots -> Requests]
  /\ logins \in [sent : 0 .. MaxLogged, ok : 0 .. MaxLogged, fail : 0 .. MaxLogged]
  /\ logged \in [ok : 0 .. MaxLogged, fail : 0 .. MaxLogged, lost : 0 .. MaxLogged]
  /\ operations \subseteq Routes
  /\ everHeld \in [Accounts -> Identities]

\* What the client is told is what the database has: a request that was refused
\* or told of a failure has committed nothing, and one that writes and is told
\* of success has committed.  Only a 500 may hide a commit (set_status, whose
\* invalidation follows its transaction).
AnswersTellTheTruth ==
  \A r \in Slots : pc[r] = "answered" =>
    /\ req[r].answer \in {"refused", "failed"} => ~req[r].effect
    /\ req[r].answer = "ok" /\ req[r].route \in Writes => req[r].effect

\* Whatever has committed, and every login attempt that will be logged, is
\* answered with a JSON body and a trace id: the failures that are answered
\* otherwise (StateMiddleware, JwtAuthMiddleware) come before any handler.
CommitsAreTraced ==
  \A r \in Slots : pc[r] = "answered" /\ (req[r].effect \/ req[r].attempt # "none")
    => req[r].shape = "json"

\* Through caches that outlive the deletion of a role, nobody commits on a
\* guarded route without having been given its role by the application.
OnlyRoleHoldersCommit ==
  \A r \in Slots : req[r].effect =>
    /\ req[r].route \in AdminRoutes => "admin" \in everHeld[req[r].who]
    /\ req[r].route = "patchProfile" => "user" \in everHeld[req[r].who]

\* The login log has one row for each attempt that reached a password check, with
\* its outcome, unless the row was lost.
LoginLogAgrees ==
  /\ logged.ok <= logins.ok /\ logged.fail <= logins.fail
  /\ logins.ok + logins.fail =
       logged.ok + logged.fail + logged.lost
         + Cardinality({r \in Slots : pc[r] = "answered" /\ req[r].attempt # "none"})

\* A role that an account has lost for good is lost in its cached identity too,
\* although no code clears it: the copy ends with its TTL, and a new one is
\* made from the row.
LostRoleIsForgotten ==
  \A a \in Accounts, role \in RoleNames :
    <>[](role \notin holds[a]) => <>[](identity[a] # None => role \notin identity[a])

LockedOut == \A a \in Accounts : "admin" \notin holds[a]

\* The administrators' role can be deleted while accounts are linked to it.
\* From then on the API has no administrator and never makes one; what
\* identities are still cached run out, and no administrator's route commits
\* any more.
LockoutIsFinal ==
  /\ [][LockedOut => LockedOut']_vars
  /\ <>[]LockedOut =>
       <>[](\A r \in Slots : req[r].route \in AdminRoutes => ~req[r].effect)

=============================================================================
