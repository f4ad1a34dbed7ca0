------------------------------ MODULE Sessions ------------------------------
(***************************************************************************)
(* The sessions of ONE account: tokens and identity cache in Redis, the    *)
(* account row in Postgres, the requests in flight between the two.        *)
(*                                                                         *)
(* Every Redis key of the session code starts with the account's ULID      *)
(* (fixed length), so no prefix delete of one account touches another: one *)
(* account is the whole system as far as these keys go.                    *)
(*                                                                         *)
(* Every step is what one request does between two awaits: one Redis       *)
(* command or one database transaction.  A JWT holds the account and its   *)
(* expiry in seconds, so a token IS the second it was minted in.           *)
(***************************************************************************)
EXTENDS Naturals, FiniteSets

CONSTANTS
  Requests,          \* request slots of the account's clients
  Admins,            \* request slots of administrators acting on the account
  Browsers,          \* where the cookie and the bearer token live
  BrowserOf,         \* the browser a request slot belongs to
  None,              \* no token, no cached identity
  MultiLogin,        \* User.is_multi_login: no code of the application sets it
  RefreshExcluded,   \* /auth/token/new is in TOKEN_REQUEST_PATH_EXCLUDE
  RequestsMayFail,   \* a Redis timeout, a database error or a killed worker
  MaxTime,           \* bound: the last second told apart, and all later ones
  MaxCommits         \* bound on the commits of administrators

ASSUME SessionsAssumption ==
  /\ IsFiniteSet(Requests)
  /\ BrowserOf \in [Requests -> Browsers]
  /\ Requests \cap Admins = {}
  /\ MultiLogin \in BOOLEAN
  /\ RefreshExcluded \in BOOLEAN
  /\ RequestsMayFail \in BOOLEAN
  /\ MaxTime \in Nat /\ MaxCommits \in Nat
  /\ None \notin Nat

VARIABLES
  now,        \* the clock, in seconds
  account,    \* the row of table user: its state, and the commits of
              \*   administrators it has seen
  live,       \* live[f]: the tokens that have a key of family f in Redis
  identity,   \* oissu:user:<x_id>: the commits that the row it copies had seen,
              \*   or None
  cookie,     \* cookie[b]: the refresh token browser b sends, or None
  bearer,     \* bearer[b]: the access token browser b sends, or None
  pc,         \* where each request is
  loc,        \* the local variables of each request
  late,       \* history: what was written, since the last commit of an
              \*   administrator, by requests that had read the row before
  swept,      \* history: the key families cleared since, by that commit's request
  stored      \* history: stored[r][f], the last token slot r wrote (~MultiLogin)

store == <<live, identity>>
client == <<cookie, bearer>>
history == <<late, swept, stored>>
vars == <<now, account, live, identity, cookie, bearer, pc, loc, late, swept, stored>>

Families == {"access", "refresh"}        \* TOKEN_REDIS_PREFIX, TOKEN_REFRESH_REDIS_PREFIX
Stores == Families \cup {"identity"}
Token == 0 .. MaxTime
OptToken == Token \cup {None}
Commits == 0 .. MaxCommits
Procs == Requests \cup Admins

Enabled == account.state = "enabled"

NoLocals ==
  [op |-> "none",                        \* the route
   fam |-> "access",                     \* the key family being worked on
   held |-> [f \in Families |-> None],   \* the tokens the request carries
   minted |-> [f \in Families |-> None], \* the tokens it has made
   found |-> {},                         \* the keys its SCAN has to return
   epoch |-> 0]                          \* account.commits when it read the row

Init ==
  /\ now = 0
  /\ account = [state |-> "enabled", commits |-> 0]
  /\ live = [f \in Families |-> {}]
  /\ identity = None
  /\ cookie = [b \in Browsers |-> None]
  /\ bearer = [b \in Browsers |-> None]
  /\ pc = [p \in Procs |-> "idle"]
  /\ loc = [p \in Procs |-> NoLocals]
  /\ late = [s \in Stores |-> {}]
  /\ swept = {}
  /\ stored = [r \in Requests |-> [f \in Families |-> None]]

Goto(p, there) == pc' = [pc EXCEPT ![p] = there]

\* The response is out, or the request was refused.
Finish(p) ==
  /\ Goto(p, "idle")
  /\ loc' = [loc EXCEPT ![p] = NoLocals]

\* What request r writes into store s is late if an administrator has committed
\* since r read the row: tokens of an account that is still enabled may be.
NoteLate(r, s, v) ==
  late' = IF loc[r].epoch = account.commits \/ (Enabled /\ s # "identity") THEN late
          ELSE [late EXCEPT ![s] = @ \cup {v}]

-----------------------------------------------------------------------------
(* POST /auth/login and the authentication of every other call             *)

\* Mutant: login forgets the status check.
LoginStartUnchecked(r) ==
  /\ pc[r] = "idle"
  /\ Goto(r, "mint")
  /\ loc' = [loc EXCEPT ![r] = [NoLocals EXCEPT !.op = "login", !.epoch = account.commits]]
  /\ UNCHANGED <<now, account, store, client, history>>

\* login up to its status check; a refused attempt changes nothing here.
LoginStart(r) ==
  /\ pc[r] = "idle"
  /\ Enabled
  /\ Goto(r, "mint")
  /\ loc' = [loc EXCEPT ![r] = [NoLocals EXCEPT !.op = "login", !.epoch = account.commits]]
  /\ UNCHANGED <<now, account, store, client, history>>

\* jwt_authentication: the access key must exist.  A path in
\* TOKEN_REQUEST_PATH_EXCLUDE is never authenticated, and DependsAuth then
\* refuses it.
CallStart(r, op) ==
  /\ pc[r] = "idle"
  /\ op = "refresh" => ~RefreshExcluded
  /\ bearer[BrowserOf[r]] \in live["access"]
  /\ Goto(r, "identity")
  /\ loc' = [loc EXCEPT ![r] =
       [NoLocals EXCEPT !.op = op,
          !.held = IF op \in {"refresh", "logout"}
                   THEN [access |-> bearer[BrowserOf[r]], refresh |-> cookie[BrowserOf[r]]]
                   ELSE @]]
  /\ UNCHANGED <<now, account, store, client, history>>

\* Mutant: logout clears both prefixes whatever is_multi_login says.
HandlerLogsOutAll(op) ==
  CASE op = "refresh" -> "readRow"
    [] op = "logout" -> "scan"
    [] OTHER -> "serve"

\* Where the handler starts once the middleware has let the request in.
Handler(op) ==
  CASE op = "refresh" -> "readRow"
    [] op = "logout" -> IF MultiLogin THEN "drop" ELSE "scan"
    [] OTHER -> "serve"

\* The identity is cached: it is believed, the row is not read.
IdentityHit(r) ==
  /\ pc[r] = "identity"
  /\ identity # None
  /\ Goto(r, Handler(loc[r].op))
  /\ UNCHANGED <<now, account, store, client, loc, history>>

IdentityMiss(r) ==
  /\ pc[r] = "identity"
  /\ identity = None
  /\ Goto(r, "load")
  /\ UNCHANGED <<now, account, store, client, loc, history>>

\* Mutant: get_current_user forgets the status check.
LoadUserUnchecked(r) ==
  /\ pc[r] = "load"
  /\ Goto(r, "cache")
  /\ loc' = [loc EXCEPT ![r].epoch = account.commits]
  /\ UNCHANGED <<now, account, store, client, history>>

\* get_current_user, then the SETEX of the copy it returned.  The status of the
\* roles is checked as well, which no code ever sets: it never refuses.
LoadUser(r) ==
  /\ pc[r] = "load"
  /\ IF Enabled
     THEN /\ Goto(r, "cache")
          /\ loc' = [loc EXCEPT ![r].epoch = account.commits]
     ELSE Finish(r)
  /\ UNCHANGED <<now, account, store, client, history>>

CacheUser(r) ==
  /\ pc[r] = "cache"
  /\ identity' = loc[r].epoch
  /\ NoteLate(r, "identity", loc[r].epoch)
  /\ Goto(r, Handler(loc[r].op))
  /\ loc' = [loc EXCEPT ![r].epoch = 0]
  /\ UNCHANGED <<now, account, live, client, swept, stored>>

-----------------------------------------------------------------------------
(* Handlers of authenticated calls                                         *)

\* GET /users/me and /auth/me answer with request.user.  PATCH /users/me ends
\* in an AttributeError (user_dao has no update_user_info): no row changes.
Serve(r) ==
  /\ pc[r] = "serve"
  /\ Finish(r)
  /\ UNCHANGED <<now, account, store, client, history>>

\* new_token: the cookie, then the row, then the refresh key.
RefreshRead(r) ==
  /\ pc[r] = "readRow"
  /\ IF loc[r].held["refresh"] # None /\ Enabled
     THEN /\ Goto(r, "getRefresh")
          /\ loc' = [loc EXCEPT ![r].epoch = account.commits]
     ELSE Finish(r)
  /\ UNCHANGED <<now, account, store, client, history>>

RefreshCheck(r) ==
  /\ pc[r] = "getRefresh"
  /\ IF loc[r].held["refresh"] \in live["refresh"]
     THEN Goto(r, "mint") /\ UNCHANGED loc
     ELSE Finish(r)
  /\ UNCHANGED <<now, account, store, client, history>>

\* DEL of the tokens the request carries, the access key first: the end of a
\* logout (several sessions allowed) and of a refresh.
DropHeld(r) ==
  LET f == loc[r].fam IN
  /\ pc[r] = "drop"
  /\ live' = [live EXCEPT ![f] = @ \ {loc[r].held[f]}]
  /\ IF f = "access"
     THEN loc' = [loc EXCEPT ![r].fam = "refresh"] /\ UNCHANGED pc
     ELSE /\ Goto(r, IF loc[r].op = "refresh" THEN "answer" ELSE "dropIdentity")
          /\ UNCHANGED loc
  /\ UNCHANGED <<now, account, identity, client, history>>

\* The last command of logout, and its response: the cookie is gone.
DropIdentity(r) ==
  /\ pc[r] = "dropIdentity"
  /\ identity' = None
  /\ cookie' = [cookie EXCEPT ![BrowserOf[r]] = None]
  /\ Finish(r)
  /\ UNCHANGED <<now, account, live, bearer, history>>

-----------------------------------------------------------------------------
(* create_access_token, create_refresh_token, delete_prefix                *)

Mint(r) ==
  /\ pc[r] = "mint"
  /\ loc' = [loc EXCEPT ![r].minted[loc[r].fam] = now]
  /\ Goto(r, IF MultiLogin THEN "store" ELSE "scan")
  /\ UNCHANGED <<now, account, store, client, history>>

\* delete_prefix: a SCAN returns the keys present from its start to its end
\* and perhaps some that came in between; then one DEL removes them.
Scan(p) ==
  /\ pc[p] = "scan"
  /\ loc' = [loc EXCEPT ![p].found = live[loc[p].fam]]
  /\ Goto(p, "sweep")
  /\ UNCHANGED <<now, account, store, client, history>>

\* Mutant: one DEL of the first key found, not of all of them.
SweepFirstKey(p) ==
  IF loc[p].found = {} THEN UNCHANGED live
  ELSE \E t \in loc[p].found : live' = [live EXCEPT ![loc[p].fam] = @ \ {t}]

SweepKeys(p) ==
  \E more \in SUBSET live[loc[p].fam] :
    live' = [live EXCEPT ![loc[p].fam] = @ \ (loc[p].found \cup more)]

\* Mutant: _invalidate_sessions forgets the refresh prefix.
SweepNextAccessOnly(p) ==
  CASE loc[p].op \in {"login", "refresh"} -> Goto(p, "store") /\ UNCHANGED loc
    [] loc[p].op = "admin" -> Goto(p, "scanIdentity") /\ UNCHANGED loc
    [] OTHER -> Goto(p, "dropIdentity") /\ UNCHANGED loc

\* The other family is next, unless the sweep makes room for a new token.
SweepNext(p) ==
  CASE loc[p].op \in {"login", "refresh"} ->
         /\ Goto(p, "store")
         /\ loc' = [loc EXCEPT ![p].found = {}]
    [] loc[p].op = "logout" /\ loc[p].fam = "refresh" ->
         /\ Goto(p, "dropIdentity")
         /\ loc' = [loc EXCEPT ![p].found = {}]
    [] loc[p].op = "admin" /\ loc[p].fam = "refresh" ->
         /\ Goto(p, "scanIdentity")
         /\ loc' = [loc EXCEPT ![p].found = {}]
    [] OTHER ->
         /\ Goto(p, "scan")
         /\ loc' = [loc EXCEPT ![p].found = {}, ![p].fam = "refresh"]

\* The commit that counts is the last one.
NoteSwept(p, s) ==
  swept' = IF p \in Admins /\ loc[p].epoch = account.commits
           THEN swept \cup {s} ELSE swept

\* Whose tokens are live matters only where sessions are limited.
NoteStored(r, f, t) ==
  stored' = IF MultiLogin THEN stored ELSE [stored EXCEPT ![r][f] = t]

Sweep(p) ==
  /\ pc[p] = "sweep"
  /\ SweepKeys(p)
  /\ SweepNext(p)
  /\ NoteSwept(p, loc[p].fam)
  /\ UNCHANGED <<now, account, identity, client, late, stored>>

\* Mutant: the refresh token is stored before it is made.
StoreBeforeMint(r) ==
  LET f == loc[r].fam
      t == loc[r].minted[f] IN
  /\ pc[r] = "store"
  /\ live' = [live EXCEPT ![f] = @ \cup {t}]
  /\ NoteLate(r, f, t)
  /\ NoteStored(r, f, t)
  /\ IF f = "access"
     THEN UNCHANGED pc /\ loc' = [loc EXCEPT ![r].fam = "refresh"]
     ELSE Finish(r)
  /\ UNCHANGED <<now, account, identity, client, swept>>

\* SETEX; the refresh token is made after the access token is stored.
Store(r) ==
  LET f == loc[r].fam
      t == loc[r].minted[f] IN
  /\ pc[r] = "store"
  /\ live' = [live EXCEPT ![f] = @ \cup {t}]
  /\ NoteLate(r, f, t)
  /\ NoteStored(r, f, t)
  /\ IF f = "access"
     THEN Goto(r, "mint") /\ loc' = [loc EXCEPT ![r].fam = "refresh"]
     ELSE /\ Goto(r, IF loc[r].op = "login" THEN "answer" ELSE "drop")
          /\ loc' = [loc EXCEPT ![r].fam = "access"]
  /\ UNCHANGED <<now, account, identity, client, swept>>

\* The response carries both tokens.  login updates, re-reads and commits the
\* row first: if it was deleted meanwhile the call fails, the keys stay.  It
\* writes last_login_time, which is not told apart.
Answer(r) ==
  LET deleted == loc[r].op = "login" /\ account.state = "deleted" IN
  /\ pc[r] = "answer"
  /\ IF deleted
     THEN UNCHANGED client
     ELSE /\ cookie' = [cookie EXCEPT ![BrowserOf[r]] = loc[r].minted["refresh"]]
          /\ bearer' = [bearer EXCEPT ![BrowserOf[r]] = loc[r].minted["access"]]
  /\ Finish(r)
  /\ UNCHANGED <<now, account, store, history>>

-----------------------------------------------------------------------------
(* AthleteService.set_status and .delete                                   *)

\* The transaction commits first; the sessions are cleared afterwards.
Commit(a, state) ==
  /\ pc[a] = "idle"
  /\ account.state # "deleted"
  /\ account.commits < MaxCommits
  /\ account' = [state |-> state, commits |-> account.commits + 1]
  /\ Goto(a, "scan")
  /\ loc' = [loc EXCEPT ![a] = [NoLocals EXCEPT !.op = "admin", !.epoch = account.commits + 1]]
  /\ late' = [s \in Stores |-> {}]
  /\ swept' = {}
  /\ UNCHANGED <<now, store, client, stored>>

SetStatus(a) == Commit(a, "enabled") \/ Commit(a, "disabled")
DeleteAthlete(a) == Commit(a, "deleted")

\* delete_prefix on the one identity key: the SCAN meets it, or it was absent.
ScanIdentity(a) ==
  /\ pc[a] = "scanIdentity"
  /\ \/ /\ Goto(a, "sweepIdentity")
        /\ UNCHANGED <<loc, swept>>
     \/ /\ identity = None
        /\ Finish(a)
        /\ NoteSwept(a, "identity")
  /\ UNCHANGED <<now, account, store, client, late, stored>>

\* Mutant: the identity is looked for under user.id, its key has the x_id.
SweepIdentityById(a) ==
  /\ pc[a] = "sweepIdentity"
  /\ Finish(a)
  /\ NoteSwept(a, "identity")
  /\ UNCHANGED <<now, account, store, client, late, stored>>

SweepIdentity(a) ==
  /\ pc[a] = "sweepIdentity"
  /\ identity' = None
  /\ Finish(a)
  /\ NoteSwept(a, "identity")
  /\ UNCHANGED <<now, account, live, client, late, stored>>

-----------------------------------------------------------------------------
(* Time and failure                                                        *)

Tick ==
  /\ now < MaxTime
  /\ now' = now + 1
  /\ UNCHANGED <<account, store, client, pc, loc, history>>

\* A TTL runs out.  A step of the clock is a second or more; the last second
\* stands for all later ones too.
ExpireToken(f, t) ==
  /\ t \in live[f]
  /\ t < now \/ now = MaxTime
  /\ live' = [live EXCEPT ![f] = @ \ {t}]
  /\ UNCHANGED <<now, account, identity, client, pc, loc, history>>

\* The entry is not dated: it may run out whenever it exists.
ExpireIdentity ==
  /\ identity # None
  /\ identity' = None
  /\ UNCHANGED <<now, account, live, client, pc, loc, history>>

\* An exception or a crash ends the request where it is; what it did stays.
Fail(p) ==
  /\ RequestsMayFail
  /\ pc[p] # "idle"
  /\ Finish(p)
  /\ UNCHANGED <<now, account, store, client, history>>

-----------------------------------------------------------------------------
Start(r) ==
  \/ LoginStart(r)
  \/ \E op \in {"me", "refresh", "logout"} : CallStart(r, op)

RequestStep(r) ==
  \/ IdentityHit(r) \/ IdentityMiss(r) \/ LoadUser(r) \/ CacheUser(r)
  \/ Serve(r)
  \/ RefreshRead(r) \/ RefreshCheck(r)
  \/ DropHeld(r) \/ DropIdentity(r)
  \/ Mint(r) \/ Scan(r) \/ Sweep(r) \/ Store(r) \/ Answer(r)

AdminStep(a) == Scan(a) \/ Sweep(a) \/ ScanIdentity(a) \/ SweepIdentity(a)

Expire == ExpireIdentity \/ \E f \in Families : \E t \in live[f] : ExpireToken(f, t)

Next ==
  \/ \E r \in Requests : Start(r) \/ RequestStep(r)
  \/ \E a \in Admins : SetStatus(a) \/ DeleteAthlete(a) \/ AdminStep(a)
  \/ \E p \in Procs : Fail(p)
  \/ Tick
  \/ Expire

Spec == Init /\ [][Next]_vars

\* A request the server has taken up goes on; the clock runs and every TTL
\* ends.  Nobody has to send a request.
Fairness ==
  /\ \A r \in Requests : WF_vars(RequestStep(r))
  /\ \A a \in Admins : WF_vars(AdminStep(a))
  /\ WF_vars(Tick)
  /\ WF_vars(ExpireIdentity)
  /\ \A f \in Families : \A t \in Token : WF_vars(ExpireToken(f, t))

FairSpec == Spec /\ Fairness

-----------------------------------------------------------------------------
(* Properties                                                              *)

Ops == {"none", "login", "me", "refresh", "logout", "admin"}
Steps == {"idle", "mint", "store", "answer", "identity", "load", "cache", "serve", "readRow",
          "getRefresh", "drop", "dropIdentity", "scan", "sweep", "scanIdentity", "sweepIdentity"}

Locals == [op : Ops, fam : Families, held : [Families -> OptToken],
           minted : [Families -> OptToken], found : SUBSET Token, epoch : Commits]

\* Every variable keeps its type.
TypeOK ==
  /\ now \in Token
  /\ account \in [state : {"enabled", "disabled", "deleted"}, commits : Commits]
  /\ live \in [Families -> SUBSET Token]
  /\ identity \in Commits \cup {None}
  /\ cookie \in [Browsers -> OptToken]
  /\ bearer \in [Browsers -> OptToken]
  /\ pc \in [Procs -> Steps]
  /\ loc \in [Procs -> Locals]
  /\ late \in [Stores -> SUBSET (Token \cup Commits)]
  /\ swept \in SUBSET Stores
  /\ stored \in [Requests -> [Families -> OptToken]]

\* What the account has in Redis under a key family.
InRedis(s) == IF s = "identity" THEN {identity} \ {None} ELSE live[s]

\* Once a family has been cleared after the commit that disabled or deleted
\* the account, it holds nothing but what was written by requests that had
\* checked the account before that commit (set_status, delete,
\* _invalidate_sessions against login, new_token and authenticate).
SweptIsClear ==
  ~Enabled => \A s \in swept : InRedis(s) \subseteq late[s]

\* The same, as the administrator sees it: when no such request is left and
\* none was cut short, the whole account has been cleared.
RevocationComplete ==
  (~Enabled /\ ~RequestsMayFail /\ \A a \in Admins : pc[a] = "idle")
     => \A s \in Stores : InRedis(s) \subseteq late[s]

\* Whatever the administrator changed: when the identity has been cleared after
\* the last commit, or when set_status or delete has answered, requests are not
\* served from a copy of an older row, unless a request that had read that row
\* stored it since.
IdentityIsCurrent ==
  LET cleared == \/ "identity" \in swept
                 \/ ~RequestsMayFail /\ \A a \in Admins : pc[a] = "idle"
  IN cleared /\ account.commits > 0 => identity \in {None, account.commits} \cup late["identity"]

\* A request that is about to hand out tokens or to cache an identity saw an
\* enabled account, unless an administrator has committed since.
Checked(r) ==
  \/ pc[r] \in {"cache", "getRefresh", "mint", "store", "answer"}
  \/ pc[r] \in {"scan", "sweep", "drop"} /\ loc[r].op # "logout"
GrantsOnlyEnabled ==
  \A r \in Requests : Checked(r) /\ loc[r].epoch = account.commits => Enabled

\* An account limited to one session never has more live tokens of a family
\* than sign-ins that can run at the same time, however many there have been:
\* each removes what the ones before it left, even one that swept while another
\* was about to store (create_access_token, create_refresh_token).
BoundedSessions ==
  ~MultiLogin => \A f \in Families : Cardinality(live[f]) <= Cardinality(Requests)

\* With several sessions allowed, and no administrator at work, a token goes
\* only by its TTL or because the request that carries it ends it: no login,
\* logout or refresh revokes another session's token.
SessionsIndependent ==
  [][ (MultiLogin /\ \A a \in Admins : pc[a] = "idle" /\ pc'[a] = "idle")
      => \A f \in Families : \A t \in live[f] \ live'[f] :
           \/ Expire
           \/ \E r \in Requests : pc[r] = "drop" /\ loc[r].held[f] = t ]_vars

\* An account that stays disabled or deleted ends with no session at all, even
\* if requests fail and logins overlap the revocation: login, new_token and
\* authenticate all check the row, so what slipped through dies with its TTL.
DisabledEventuallyLockedOut ==
  <>[]~Enabled => <>[](\A s \in Stores : InRedis(s) = {})

-----------------------------------------------------------------------------
(* The inductive invariant behind the safety properties                    *)

\* Which route a request can be on at each step, and what it has made by then;
\* nobody has read a row of the future.
ControlInv ==
  /\ \A r \in Requests :
       /\ pc[r] \in {"mint", "store"} => loc[r].op \in {"login", "refresh"}
       /\ pc[r] \in {"readRow", "getRefresh"} => loc[r].op = "refresh"
       /\ pc[r] \in {"identity", "load", "cache"}
            => loc[r].op \in {"me", "refresh", "logout"}
       /\ pc[r] \in {"scan", "sweep"}
            => loc[r].op \in {"login", "refresh", "logout"} /\ ~MultiLogin
       /\ pc[r] \in {"store", "scan", "sweep"} /\ loc[r].op # "logout"
            => loc[r].minted[loc[r].fam] # None
  /\ \A a \in Admins : pc[a] # "idle" =>
       /\ loc[a].op = "admin"
       /\ pc[a] \in {"scan", "sweep", "scanIdentity", "sweepIdentity"}
  /\ \A p \in Procs : loc[p].epoch <= account.commits

\* Between SCAN and DEL the administrator's request already knows all that is
\* not late.
SweepInv ==
  ~Enabled => \A a \in Admins :
    (pc[a] = "sweep" /\ loc[a].epoch = account.commits)
      => live[loc[a].fam] \subseteq loc[a].found \cup late[loc[a].fam]

\* How far the request behind the last commit has come.
Cleared(a) ==
  CASE pc[a] \in {"scanIdentity", "sweepIdentity"} -> Families
    [] pc[a] \in {"scan", "sweep"} /\ loc[a].fam = "refresh" -> {"access"}
    [] OTHER -> {}
RevokerInv ==
  (account.commits > 0 /\ ~RequestsMayFail) =>
    \/ swept = Stores
    \/ \E a \in Admins : pc[a] # "idle" /\ loc[a].epoch = account.commits /\ Cleared(a) \subseteq swept

\* Where sessions are limited, each live token is the last one that some
\* request wrote, and no request about to write another still owns one.
Owns(r, f, t) ==
  /\ stored[r][f] = t
  /\ loc[r].fam = f => pc[r] # "store" /\ (pc[r] = "sweep" => t \in loc[r].found)
OwnerInv ==
  ~MultiLogin => \A f \in Families : \A t \in live[f] : \E r \in Requests : Owns(r, f, t)

\* Nobody disables an account without a commit; what the sweep of the identity
\* leaves is a copy of the present row, or late.
IdentityInv ==
  /\ account.commits = 0 => Enabled
  /\ "identity" \in swept => identity \in {None, account.commits} \cup late["identity"]

IInv ==
  /\ TypeOK /\ ControlInv /\ GrantsOnlyEnabled
  /\ SweptIsClear /\ SweepInv /\ RevokerInv /\ IdentityInv /\ OwnerInv

-----------------------------------------------------------------------------
(* What the code says of itself, and does not do                           *)

\* athlete_service.py:211 "Drop cached tokens/identity so a status change
\* takes effect at once": when set_status or delete has answered, a disabled
\* account has no session left.
StatusChangeAtOnce ==
  (~Enabled /\ \A a \in Admins : pc[a] = "idle") => live["access"] = {}

\* auth_service.py:177 "Signing out on the phone must not sign the laptop out
\* too: end only the session this request carries".
PhoneLogoutKeepsLaptop ==
  [][ \A r \in Requests : \A b \in Browsers \ {BrowserOf[r]} :
        (pc[r] = "drop" /\ loc[r].op = "logout" /\ loc'[r].fam # loc[r].fam
           /\ bearer[b] \in live["access"])
        => bearer[b] \in live'["access"] ]_vars

\* models/user.py:25-27 "Set it to False on an account that must be limited to
\* one session at a time".
OneSessionAtATime == ~MultiLogin => Cardinality(live["access"]) <= 1

=============================================================================
