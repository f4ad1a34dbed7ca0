# OISSU CONNECT backend: models, checks and proofs

TLA+ models of the backend under `src/backend` (FastAPI, async SQLAlchemy on
Postgres, Redis): what they cover, what TLC checks on small instances, what
TLAPS proves for every instance, and what is left out. Paths below are relative
to `src/backend` unless they start with `src/`.

## 1. The system and its parts

| Part | State | Operations | Talks to |
|---|---|---|---|
| Sessions (`common/security/jwt.py`, `middleware/jwt_auth_middleware.py`, `auth_service.py`, `athlete_service._invalidate_sessions`, `database/db_redis.py`) | Redis keys `oissu:token:<id>:<jwt>`, `oissu:refresh_token:…`, the cached identity `oissu:user:<x_id>`; the account row; cookie and bearer token of each browser | login, authenticate, new_token, logout, set_status, delete | Postgres row, then Redis, with an `await` between any two |
| Registry (`athlete_service.py`, `performance_service.py`, `crud/`, `cli.py`, `seeder/demo_seed.py`) | tables `user`, `user_role`, `role`, `athlete`, `performance` | create, update, update_me, set_status, delete; record, update, delete of a result; create-admin; seed and purge | Postgres only; set_status and delete then call Sessions |
| Dashboard (`dashboard_service.py`, the aggregates in `crud/crud_performance.py` and `crud_athlete.py`) | none: answers of five and twelve queries, folded | my dashboard, the administrator's dashboard | reads the Registry's tables, query by query |
| Pipeline (`core/registrar.py` middleware stack, `state_middleware.py`, `jwt_auth_middleware.py`, guards, `exception_handler.py`, `opera_log_middleware.py`, `login_log_service.py`, role and account routes) | roles and their links, cached identities, the login log, the operation log | every routed request, from the middleware to its answer and background task; paths that have no route | wraps Sessions and Registry |
| Deployment (`alembic/`, `entrypoint-api.sh`, `register_init`, `create_table`, `src/docker-compose.yml`, `src/docker-run.sh`) | tables, `alembic_version`, the chain of revisions, the restart count | upgrade, create_all, generate, deploy, start, restart | runs before the server serves; the operator runs beside it |
| Listings (`common/pagination.py`, the `get_list` and `get_select` of athletes, results, accounts, roles, login log and operation log) | none: a walk keeps the number of its page | filter, count, order, cut a page, follow a link | reads the Registry's tables and the logs |
| Casbin policies, password reset, mail, OAuth, storage, sockets, i18n, observability, plugins | – | see section 8 | – |

What is hard here, and why a unit test hardly reaches it:

- every `await` lets another request in: a check on a row is old by the time the
  token or the identity it allowed is stored;
- `delete_prefix` is a `SCAN` loop and one `DEL`, not a transaction;
- a JWT has no nonce and second resolution, so that two sign-ins may be given
  the same key;
- transactions run under READ COMMITTED, look keys up first and write them
  later; unique indexes, foreign keys and row locks decide the races;
- a commit is followed by an invalidation that may fail, a response by a
  background task that may fail;
- the dashboards have no snapshot: a commit may fall between two queries;
- a list is cut by offset, its total is counted by another statement, and most of
  its orders leave ties: rows move over the edges of pages;
- two processes may migrate the same database, and both Alembic and
  `create_all` create tables;
- the restart policy is finite.

What makes each part correct:

- Sessions: what is disabled or deleted is revoked and stays so; nothing is
  granted on a disabled row; sessions are independent, or bounded in number;
- Registry: accounts and profiles come and go together, results never outlive
  their athlete, a transaction is one step of the registry, a conflict is a
  message unless there was a race, locks are taken in one order but for the
  licences that updates exchange, and nobody waits forever;
- Dashboard: each figure is what its name says, and the figures agree unless
  somebody commits meanwhile;
- Pipeline: answers tell what was committed, commits are traceable, only the
  holders of a role pass its guard, the login log has a row for each attempt;
- Listings: a walk along the links shows each row once or there is a reason, and
  it ends on the page that was announced as the last;
- Deployment: the schema is always that of a revision, what serves is
  migrated, every boot ends, only faults from outside exhaust the restarts.

## 2. Modules

| Module | What it is |
|---|---|
| `Sessions.tla` | one account, its Redis keys, browsers, requests and administrators; one action per Redis command or transaction |
| `SessionsProofs.tla` | theorems about `Sessions` |
| `Registry.tla` | the tables and the transactions that write them, statement by statement |
| `RegistryProofs.tla` | theorems about `Registry`: types, results and their athletes |
| `RequestProofs.tla` | theorems about `Registry` without purge and seeder: accounts and profiles, conflicts, and that it implements `RegistryAbs` |
| `RegistryAbs.tla` | what the registry promises: athletes, their results, administrators, one atomic step per operation |
| `Dashboard.tla` | the queries and folds of both dashboards, with commits in between |
| `DashboardProofs.tla` | theorems about `Dashboard` |
| `Pipeline.tla` | the way of one request through middleware, guard, handler, exception handlers and background task |
| `PipelineProofs.tla` | theorems about `Pipeline` |
| `Listing.tla` | a client's walk through the pages of one list, with commits in between |
| `ListingProofs.tla` | theorems about `Listing` |
| `FiniteTheorems.tla` | lemmas about finite sets and sums over them, for `DashboardProofs` and `ListingProofs` |
| `Deployment.tla` | revisions, upgrades, startup, restarts, of a developer's stack and of production |
| `DeploymentProofs.tla` | theorems about `Deployment` |
| `MCSessions`, `MCRegistry`, `MCDashboard`, `MCPipeline` | values of the constants for TLC; `Deployment` and `Listing` are given theirs in their `.cfg` |

Operators whose comment starts with "Mutant" are wrong versions of the
definition that follows them, each the way a plausible slip would leave the
code: they are never used by a specification, and each shows that some property
notices the slip.

### Sessions

One account is the whole system as far as Redis is concerned: keys carry the
account's id, and no code touches those of two accounts at once. A token is the
second it was minted in (`exp` in whole seconds and `sub` are the whole
payload). `pc[p]` says which `await` the request of slot `p` is at, `loc[p]`
holds its local variables: route, the tokens it carries, what it has minted,
what `SCAN` has found, which version of the row it has read.

| Action | Code |
|---|---|
| `LoginStart`, `Mint`, `Scan`, `Sweep`, `Store`, `Answer` | `auth_service.new_user_login_two`, `create_access_token`, `create_refresh_token`, `delete_prefix` |
| `CallStart`, `IdentityHit`, `IdentityMiss`, `LoadUser`, `CacheUser`, `Serve` | `jwt_auth_middleware.authenticate`, `get_token` |
| `RefreshRead`, `RefreshCheck`, `DropHeld`, `DropIdentity` | `new_token`, `create_new_token`, `logout` |
| `SetStatus`, `DeleteAthlete`, `ScanIdentity`, `SweepIdentity` | `athlete_service.set_status`, `delete`, `_invalidate_sessions` |
| `Tick`, `ExpireToken`, `ExpireIdentity`, `Fail` | the clock, Redis' TTLs, a request that dies between two steps |

A version of the row is the number of commits of administrators it has seen; the
login's own `UPDATE` of `last_login_time` makes none. `late`, `swept` and `stored`
are history: what requests that had read the row before the last commit have
written since, which families that commit's request has cleared, and the last
token each slot wrote. They let the properties say what a sweep can and cannot
promise, of the identity also when the commit has left the account enabled.

`RefreshExcluded` is `TOKEN_REQUEST_PATH_EXCLUDE` of `core/conf.py`: as shipped
(TRUE) the middleware leaves `/auth/token/new` anonymous and its own guard
refuses it, so that no session is ever refreshed. `SessionsLiveness` sets it
FALSE, and so checks `new_token` as it works behind the middleware otherwise.

### Registry and RegistryAbs

Each operation is a `Program`, a sequence of statements. `tx[c]` is the open
transaction of client `c`: the rows it has inserted (`ins`) and removed or
replaced (`del`), the parents it holds `FOR KEY SHARE` (`share`), what it has
read, and where it is. A statement reads `Visible` rows – committed ones and its
own – so that two statements of a transaction may see different states, as READ
COMMITTED has it. An insert waits while another transaction holds the same
unique key (`KeyContended`), an update or delete while another holds the row
(`RowLocked`), the delete of an athlete while a result of it is being inserted
(`Referenced`); when the wait is over the statement looks again. `Cascade` is
`ON DELETE CASCADE`. `Fail` is a client that goes away or a worker that dies:
everything uncommitted is gone. `Waits(c, d)` is the lock table, client by client:
whose end the statement of `c` waits for. `Deadlocked` is what Postgres does when
somebody waits, through others, for himself: it ends one of them, with a 500.
`AdminEmail` is the `ADMIN_EMAIL` of the seeder's environment, inside the demo
domains or not. `Blank` is the empty licence, which
`AthleteUpdate` admits and `athlete_service.update` never looks up.

`RegistryAbs` has three variables, the athletes, the results and the
administrators. The refinement maps an athlete to the join of a profile with its
account. `ImplementsRegistry` is the whole of `RegistryAbs!Spec` under this
mapping: a commit is one step of the registry, every other step is none. A new
record of the registry may have any id that no other has; `Next` takes it from the
records of the next state, so that no bound on ids is part of the promise.

### Dashboard

`Queries(d)` is the list of queries of a dashboard, `Ask` starts one, `Run`
takes the answer of the next query from the tables of that moment, `Respond`
gives the dashboard out; the writers of the Registry are five atomic commits
that may fall between any two queries. `Heaps` are the orders in which Postgres may
find rows that an `ORDER BY` does not tell apart: `top_results` orders by ranking
and date alone, so that any of them may decide which row of a tie comes first or
makes the limit (`TopResults`). `UserResponse` and `AdminResponse` are
the service's folds over the answers, `PickBest`, `Seasons`, `Evolution`,
`MedalCount`, `BestResults` among them. Dates are months, marks small numbers. A
group of the history (an event, a season) is the set of its positions, since two
positions may hold results that look the same; `rows[i]` is the result at `i`, and
the order of the positions is that of the list `_pick_best` is given.

### Pipeline

`Arrive` chooses a route and a caller; `LocateFails`, `Authenticate`, `LoadUser`
and `CacheUser` are the middlewares; `Guard` is the dependency of the route and
the limiter of the login; then one action per handler, `Crash` for an exception
nobody expects, `Finish` for the background task that writes the login log, and
`Kill` for the worker. The answer of a request is told apart by what the client
learns (`ok`, `failed`, `refused`, `error`) and by its shape: JSON with a trace
id, JSON without one, or the bare text of starlette. The shape follows from where
the exception is raised: outside development the handler of 500 translates its
message and needs `request.state.locale`, which is set only after the identity
middleware has called on.

Two background tasks follow an answer. One writes the login log. The other writes
the operation log, of what `LoggedPath` lets through: the filter of
`opera_log_middleware.py` wants `/client`, `/admin`, `/company` or `/mentor` in
front of `/api/v1`, and the routes are mounted at `/api/v1`, the administrator's
at `/api/v1/admin`. So it lets no route through, and only paths that no route
answers are logged (`stray`). `readRole` stands for the routes that end in a 500 on an
unknown id. Deleting roles leaves the identities that were cached with them:
`LockoutIsFinal` says what becomes of an installation whose `admin` role is
deleted that way.

### Listing

A walk is one client that asks for the first page of one list and follows
`next`. A page is two statements, `Count` and `Fetch`, each on what is committed
when it starts. A row is an id and its `place`, the value its list is ordered by;
rows that the filters leave out have none. `Before` is the `ORDER BY` of each
list; where it does not tell rows apart, `Ahead` takes the order of an arbitrary
heap, another one for each `SELECT`. `Window` is the limit and offset, `Links`
the links of the answer. `Enter`, `Leave` and `Move` are the commits of others: no
row leaves a log, and timestamps are not edited. `BadFilter` are the filters whose
column the table lacks (`data_scope` of a role, `username` of a log).

`times` counts how often a row has been shown; `stayed`, `left`, `entered`, `torn`
and `tied` record what happened meanwhile, so that the properties can name every
reason for which a row may be missed or repeated, and no other.

### Deployment

Tables are told apart by the revision that brings them. An upgrade is one
transaction over all missing revisions (`alembic/env.py`; DDL is transactional on Postgres),
and so is `create_all`; each is split into what it reads (`PlanUpgrade`,
`MigrateByHand`, `Start`) and what it writes (`Apply`, `MigratedByHand`,
`CreateTable`), and `Clash` says when the work of another makes it fail. `Fail`
is the restart policy: `deploy.restart_policy` of `docker-compose.yml`
(`on-failure`, three attempts) for production, none for a developer, whose
server runs under `--reload` and stalls instead. The attempts last for the life of
the container, however long it served in between; `Down` is `docker compose down`,
after which `Up` starts with all of them. `Generate` is
`alembic revision --autogenerate`, `Deploy` a new image.

## 3. Runs

| Run | Question | Bounds |
|---|---|---|
| `SessionsRevocation` | What do set_status and delete leave behind, whatever overlaps them? Does anyone lose a session of another? | two requests of one browser, one administrator, one commit, two seconds |
| `SessionsLiveness` | With one session per account, failures and refreshes: is an identity that is served as new as the last commit, and does a disabled account end locked out? | one request at a time, one administrator, two commits, two seconds |
| `SessionsAtOnce` (refuted) | "takes effect at once" (`athlete_service.py:211`) | two requests, one commit |
| `SessionsOneAtATime` (refuted) | "limited to one session at a time" (`models/user.py:25-27`) | two browsers, two seconds, nobody else |
| `SessionsPhone` (refuted) | "Signing out on the phone must not sign the laptop out too" (`auth_service.py:177`) | two browsers, two seconds |
| `RegistryAccounts` | Do overlapping requests that change accounts, profiles and results, cut off anywhere, stay steps of the registry? Who waits for whom? | two clients, one e-mail, an athlete's licence, another and the empty one, up to three ids drawn, a fresh database and one in use |
| `RegistryResults` | The same of results, purge and seed, cut off anywhere; does a lock outlive its transaction? | two clients, the demo licence, an `ADMIN_EMAIL` outside the demo domains, up to two results |
| `Dashboard` | Are the figures right, and do they agree? | any subset of six candidate results, two athletes, one commit, ties in either order |
| `Pipeline` | Do answers, commits and roles agree? Is a deleted administrator's role final? | all routes from one slot, those with an effect or an open guard by three callers, the others by two; deletions of roles from another slot; one login; production and a demonstration |
| `Listing` | What may a walk through the pages miss or repeat, and does it end? | six lists, three rows, four places, pages of one and two rows, two commits |
| `Deployment` | From any revision: schema, serving, restarts, new models | three restarts, chains up to five revisions, one added model |
| `DeploymentModels` (refuted) | "just create `backend/models/<name>.py` … and run `shaapi db generate`" (`models/__init__.py:16-18`) | as above |

Why the bounds are enough to be interesting. Two requests and an administrator
suffice for every overlap the source can have on one account: a writer, the
sweeper, and one more writer whose keys the sweep must not miss. Two seconds
hold both equal and different tokens. Two clients reach each pair of statements
in every order. They can also wait for each other. Where updates look the licence
up first, that takes a third request, which moves licences between the look-up and
the write of the other two; the empty licence is not looked up, so that two do.
`RegistryAccounts` has it and reaches such a deadlock. In `RegistryResults` nobody waits
in a ring at all, with purge and seed among those who might. The databases are the fresh one and one with an administrator,
an athlete and a result, so that the first steps already meet rows. The six
results have two seasons, a competition that spans two months and two seasons,
two units, one of them also in capitals, ties of dates and of rankings, a medal with
another label, and the amended form of a result; they tie in two heaps, one the
other way round. Five revisions are the three shipped and two that
a developer generates, an empty one among them. Three rows on pages of one are three pages, so that a row
can cross an edge that was shown while another is still to come; two commits let
one row leave and another come in, within one page or between two. In no run does a
bound end a request: it only keeps new ones from starting, which is why the
Sessions and Registry runs do not check for deadlock, nor does Listing, whose walk
comes to an end. Dashboard, Pipeline and Deployment do.

What the refuted runs show:

- `SessionsAtOnce`: a login reads an enabled row, the administrator's commit and
  sweep go by, the login stores its tokens: the account is disabled and has a
  live access key, until its TTL. What does hold is `SweptIsClear`,
  `RevocationComplete` and `DisabledEventuallyLockedOut`.
- `SessionsOneAtATime`: `create_access_token` deletes the keys of the account and then
  stores its own, with an `await` in between; of two sign-ins that overlap both may
  sweep before either stores. What holds is `BoundedSessions` (`SessionsAreBounded`,
  section 5): no more live tokens than sign-ins that can overlap.
- `SessionsPhone`: two logins within a second get the same JWT, hence one key;
  the logout of one ends the other.
- `DeploymentModels`: with `DB_AUTO_CREATE`, on by default, the development
  server reloads on the new file and `create_all` makes the table first; the
  revision generated next is empty, and production never gets the table. Where
  it is off, as in `.env.template`, the promise holds
  (`MigratedModelsReachProduction`).

More facts that modelling brought to light, and that no run of their own shows:

- Two first athletes at once both miss the role row, and the second insert violates
  the unique index: a 500, though `crud_user.py:142-144` promises a fresh database
  that works without seeding. Alone, no request ends so (`SequentialNeverErrors`),
  but for one: an update to the empty licence when another athlete has it already,
  which `if new_license` (`athlete_service.py:120`) does not look up.
- Updates that exchange licences may wait for each other. Postgres ends one of them,
  and its client gets a 500. Every other ring is excluded (`OnlyLicencesDeadlock`).
- The purge selects profiles by licence prefix and accounts by e-mail domain
  (`demo_seed.py:309-317`): an athlete who was given a licence with the prefix loses
  the profile and keeps the account.
- A second run of the seeder with an `ADMIN_EMAIL` outside the demo domains meets the
  administrator of the first run, and its insert fails after its purge has
  committed, though `demo_seed.py:178` calls it idempotent. `RegistryResults` has
  such an address: the purge and the failure are steps of the registry, but the demo
  data are gone.
- `_seasons` hands a whole season, with all its events, to `_pick_best`, which is made
  for "the best mark of a homogeneous group (same event, same unit)"
  (`dashboard_service.py:48`) and takes the direction of the first row's unit: seconds
  are compared with metres. `BestIsUnbeaten` is therefore about the best mark of an
  event, and only where its marks are in one unit.
- The chart is said to be the history "reversed" (`performance_service.py:108`), but a
  stable sort leaves results of one date in the order of the history, the later id
  first. So the chart ends with the head of the latest results if and only if no
  other result has its date (`EvolutionIsChronological`).
- The operation log holds no row of any route, though the repository's README
  announces "Login & operation logs" (`src/README.md:217`): see Pipeline in section 2.
- A restart policy of three attempts is one for the life of the container
  (`Down` in section 2): faults that lie weeks apart add up.

## 4. Fairness

- `Sessions!Fairness`: weak fairness of each request's and administrator's next
  step (a coroutine that can run is run by the event loop), of the clock, and of
  each TTL. Nobody has to send a request, and a request may always die instead of
  going on (`Fail` is not fair, but a dead request is not continued either).
- Registry has none. That nobody waits for ever is said without it, as invariants of
  the lock table: who waits does so for a transaction that is under way
  (`NobodyWaitsInVain`), and not in a ring, but for licences, which Postgres breaks
  (`OnlyLicencesDeadlock`, `Deadlocked`).
- `Pipeline!FairSpec`: weak fairness of serving a request that was taken up, and
  of the TTL of each cached identity.
- `Listing!FairSpec`: weak fairness of the request (a statement ends, or fails) and
  of the client's next step; those who commit need not.
- `Deployment!Spec`: weak fairness of a container's boot, a sequence of
  commands. Neither the operator nor the developer has to do anything, and
  the server need not come up: `BootEnds` lets the policy give up.

## 5. What is proved

Each proof module has an inductive invariant of its own (`IInv`, or `TypeInv` where types are all there is), a lemma that the
initial states have it, lemmas that each action keeps it, and the theorems that
follow from it. All are proved from the named assumption on the constants in
the module of the component alone (`SessionsAssumption`, `RegistryAssumption`,
`DashboardAssumption`, `PipelineAssumption`, `ListingAssumption`,
`DeploymentAssumption`), which TLC
evaluates in every run of those modules. `FiniteTheorems` assumes nothing.

`SessionsProofs` holds for any set of requests, administrators and browsers, any
clock and any number of commits. The safety properties are not inductive: that
a sweep leaves nothing rests on what `SCAN` has seen (`SweepInv`), that it is
complete rests on how far the administrator's request has come (`RevokerInv`),
that sessions are bounded rests on each live token being the last one that some
request wrote (`OwnerInv`), that an identity is current on which version of the row
was read for it (`IdentityInv`), and all rest on which route can be at which step
(`ControlInv`). The conjunction of these, `IInv`, holds initially and is kept by
every action, one lemma per action or group of actions that change the same
variables. From it:

| Theorem | Statement |
|---|---|
| `SessionsType` | `[]TypeOK` |
| `GrantsChecked` | nobody is handed a token or cached on a row read as disabled, unless an administrator has committed since |
| `SweptStaysClear` | a family cleared after the account was disabled holds only what overlapping requests wrote |
| `RevocationIsComplete` | when the administrator's request is through, every family has been cleared |
| `IdentityStaysCurrent` | when set_status or delete has answered, whatever it changed, the cached identity is of the row as it is now, or a request that had read the row before stored it since |
| `SessionsAreBounded` | at most one live token of a family per concurrent request, where sessions are limited |
| `SessionsStayIndependent` | an action property: no request revokes a token it does not carry |

`DeploymentProofs` holds for any length of the chain of revisions, and any number of
attempts. Its invariant has a part about data and one about production's
container. Data: no table is created twice in a chain and production's chain is
the start of the developer's (`ChainInv`); a database has the tables of its
revision, and no others where `create_all` does not run (`TablesInv`); whatever
is planned is a stretch of the chain, in production up to its end, with the
database at one of the stretch's ends (`PlansInv`); the chain makes all models there
were when it was extended (`GeneratedInv`). Container: behind the upgrade the
database is at the end of the chain (`BootInv`), and all attempts but one have
been spent on faults (`CountInv`). The heart of it is `ClashIsLate`: in production an
upgrade clashes only with another that has taken the database to the end of the
chain, and so at most once per deployment.

| Theorem | Statement |
|---|---|
| `DeploymentType` | `[]TypeOK` |
| `SchemaFollowsRevision` | production's tables are those of its revision, always |
| `ServesMigrated` | production never serves ahead of its database |
| `OnlyFaultsExhaust` | the policy gives up only after as many faults as attempts |
| `GeneratedIsServed` | where only migrations make tables, generated models reach production |

`RegistryProofs` holds for any number of clients, any of the ten operations and
any e-mails and licences, in both databases. That no result outlives its
athlete cannot be seen from the committed tables: the foreign key has done its
work before the commit. `ProgressInv` says what a transaction can have read,
written and locked at each statement of its program; `IdsInv` that two versions
of athletes with one id are versions of one athlete; `LocksInv` that a row
that is being replaced or removed is committed, and one transaction's alone;
`ShareInv` that an athlete who is held for a result is there, and whoever
writes its row leaves it there; `CascadeInv` that a transaction behind its last
cascade has left no result of the athletes it deletes. All actions but `Commit` are `Work`:
they leave the tables alone, lock free rows only, and add rows under new ids or
in the place of rows they hold; `WorkKeeps` shows once that this keeps the
invariant. `CommitResults` is the heart of it: a result of the new tables is an old
one whose athlete stays or is replaced, or a new one whose athlete is held.

| Theorem | Statement |
|---|---|
| `RegistryType` | `[]TypeOK` |
| `ResultsHaveAthletes` | every committed result has its athlete |

`RequestProofs` continues it under the assumption `NobodyPurges`: the operations in
flight are those of the administration routes and `cli create-admin`. The
assumption is needed: the purge takes a profile by its licence and an account by
its address, and an athlete whose licence was given the demo prefix keeps the
account and loses the profile. `PInv` adds to the invariant of `RegistryProofs` that
accounts and profiles match in the committed tables (`Matched`), and what a transaction
can have written of them by the statement it is at (`AccountProgress`), that accounts
with one id are one account (`AccountIds`), that one which is being replaced or
removed is committed and one transaction's alone (`AccountLocks`), and that a
deletion behind its cascade has left no profile of the account (`ProfilesGone`).
The last is why no create can slip in a profile behind a cascade: a profile is
written by the transaction that writes its account, and nobody else sees that
account before the commit. Statements `Settle` (the tables stay; what is in
progress keeps its bookkeeping) except `Commit`, whose cases are in
`CommitMatched`. `AloneInv` then says what a request that overlaps with no other has
looked up and still holds true when it writes.

The refinement needs more of the records than whom they belong to. `RInv` adds
what a transaction has written of them, field by field (`RecordProgress`: a create
the e-mail and the licence of its payload, an update the licence and nothing else of
the row it holds, a deletion one account at most, and results of profiles it
deletes only); that keys are unique, in the tables and among whatever is in
progress, in whatever order it is committed (`KeysInv`); that results with one id
are one (`ResultIds`); and that the account a deletion has read of a profile is
nobody's but an athlete's, which may be gone when the `DELETE` runs (`SeenInv`).
TLC found no violation of `RInv` on the instance of `RegistryAccounts` with the routes' operations
before it was proved. A statement that is not a commit `Writes`: the tables stay,
so the registry does, and `WritesKeep` shows once that `RInv` does. Then each
operation's commit has its image: `CreateImplements` is `Register`,
`StatusSet` is `SetActive`, `LicenseSet` is `ChangeLicense`, `DeleteImplements` is
`Remove`, with the results that `CascadeInv` says are all of them, `RecordImplements` and
`DiscardImplements` are `Record` and `Discard`; one that has lost a race, and an
amendment, commits nothing that the registry shows (`Stays`).

| Theorem | Statement |
|---|---|
| `OneProfileEach` | every account of role USER has exactly one profile, an ADMIN none, and no profile lacks its account |
| `OnlyRacesError` | an action property: only a request that overlapped with another, or an update to an empty licence, ends in an `IntegrityError` |
| `RequestsImplementRegistry` | the refinement: `Spec => RegistryAbs!Spec` under the mapping of section 3, every commit one step of the registry or none |

`DashboardProofs` holds for any results and athletes, finitely many, and any number of
commits between the queries; the sizes of the excerpts are positive, as the
service's 5 and 8 are, and a ranking is a number or missing. None of the figures is
inductive: each is folded from answers that were given at different moments.
`IInv` says what the answers are worth. `AnswerInv`: the queries a dashboard is
past have their answers in its view. `HistoryInv`: the history in a view is the
ordered list of some set of rows with distinct ids, though the table may no longer
be that set; so what is said of the history alone holds whoever commits.
`QuietInv`: until somebody commits, each answer is what its query would return
again; so what relates two answers holds of one and the same table. `TableInv`
keeps the table a set of results with distinct ids. That results never lack an
athlete needs that an amended result keeps its athlete, as `PerformanceUpdate` has
no `athlete_id`.

The figures then follow from what the folds compute for every input. Sums over a
set of records are taken apart by the sums over its groups (`SumOfGroups`,
`SeasonsSum`), counts by the counts of disjoint parts (`CountOfParts`);
`HistoryIs` says that `Sorted` lists each row once, `EvolutionIs` that the chart is
the history back to front by date, `PickBestIs` that the first of the unbeaten is
found. `SeasonMonths` is about dates alone, and holds for every one.

| Theorem | Statement |
|---|---|
| `DashboardType` | `[]TypeOK` |
| `SeasonMonths` | the season of a date is the one whose twelve months, September to August, it falls in |
| `SeasonsCountEachResultOnce` | the seasons of an athlete split the history by those months, none is empty, and their counts add up to the total |
| `BestMarksAreBest` | an event has one best result, and where all its marks are in one unit none beats it |
| `ChartMeetsLatest` | the chart holds the whole history by ascending date, and its last point is the head of the latest results if and only if no other result has that date |
| `QuietDashboardsAddUp` | all figures of a dashboard that no commit disturbed agree: disciplines, seasons, medals, competitions, excerpts, best ranking |

`FiniteTheorems` holds what these and the listings need of finite sets: the least and
the greatest of finitely many numbers, the enumeration of a finite linear order
(`InLine`, `LineIs`), that images and intervals are no larger than they should be,
and `Total`, the sum of a function over a finite set, with `MapThenSumSet` as the
models use it. Induction is by the smallest counterexample: the families of
subsets for which a statement fails have a smallest member (`SmallestMember`),
which needs no induction theorem with an operator as its parameter.

`PipelineProofs` holds for any number of requests in flight and of accounts, any
settings and limits. The twenty actions change a request in one of five ways (it
arrives, goes on, is answered, ends or is killed), which `StepShape` shows once.
`ControlInv` says what a request can have done by the step it is at, `AnswerInv`
what an answer may hide, `RoleInv` that links, caches and identities in flight
hold only roles that were given, and `CountInv` that each login that was sent is
on its way, answered, logged, lost or gone.

| Theorem | Statement |
|---|---|
| `PipelineType` | `[]TypeOK` |
| `AnswersAreTrue` | a refusal has committed nothing, a success has committed |
| `CommitsHaveTraces` | what has committed or will be logged is answered with a trace id |
| `CommitsAreEntitled` | nobody commits on a guarded route who was never given its role |
| `LogsAreTrue` | the login log has a row for each answered attempt unless it was lost, and no other |
| `LockoutStays` | an action property: once no account has the role `admin`, none is given it |

`ListingProofs` holds for any lists, any number of rows and commits, and pages of any
size. A walk is followed by positions: a row that has kept its place and has not
been shown is behind the pages that have been, as long as nothing leaves
(`MissedInv`); one that has been shown is on them, as long as nothing comes in
(`RepeatedInv`); and the number of rows that was counted still holds, or the list
has grown, or the page is torn (`TotalInv`, `LengthInv`). `Quotient` and
`NextPage` are the arithmetic of `ceil(total / size)`; `OrderIsLinear` and
`WindowSize` that a list has an n-th row for each n up to its length, whatever heap
it is read from, and how many of them a window shows.

| Theorem | Statement |
|---|---|
| `ListingType` | `[]TypeOK` |
| `NothingMissedInVain` | a row that kept its place is missed only when another has left, the last page was torn, or there was a tie |
| `NothingRepeatedInVain` | a row is shown twice only when one has come in, or there was a tie |
| `LastPageIsLast` | while nothing leaves, a walk ends on the page that `last` names |
| `PagesHoldWhatTheyPromise` | a page that no commit tore holds as many rows as its total, number and size announce |

## 6. What is only model-checked

- Registry with the purge and the seeder in flight (`RegistryResults`):
  `ImplementsRegistry`. `OneProfilePerAccount` does not hold there (section 5).
- What Registry says of locks: `OnlyLicencesDeadlock` and `NobodyWaitsInVain`.
- Liveness (`DisabledEventuallyLockedOut`, `LostRoleIsForgotten`, `WalkEnds`,
  `BootEnds`, and in `LockoutIsFinal` the half that states that what is cached wears
  off): TLAPS proves nothing about fairness and `ENABLED`.

The other way round, `BoundedSessions` and `LoginLogAgrees` are proved for all
constants and checked by no run.

Known limits of the bounds: the deadlocks that `RegistryAccounts` reaches are those of two
updates, through the empty licence; rings of three or more requests, in which
licences go round, are in no run.

## 7. Abstractions worth knowing

- Sessions: the fast path of the middleware is the identity's presence in Redis;
  roles inside it belong to Pipeline. `LoadUser`, here and there, has no check of
  the roles' status (`jwt.py:187-190`): the routes that would set `Role.status` end in a
  500 before they write (`EditRole` in Pipeline), no command or seeder does, and so
  the check refuses nobody. Passwords and captchas are the choice of a
  caller.
- Registry: rows of a multi-row `DELETE` are locked in the order of their ids;
  gaps in a sequence after a failed insert are not told apart; the first read of
  `update_me` and `create` that finds the caller is left out; the answer of a
  request is kept for one step.
- Dashboard: rounding of `average_ranking`, names and labels are left out;
  `normalize_unit` is the constant `Normal`.
- Pipeline: routes that only read are represented by one; rate limiting is the
  refusal of a login; wording is left out.
- Listing: filters are whether a row has a place in the list; the order of rows
  that the `ORDER BY` leaves tied is any, page by page; the size of a page is one
  of a few; the account of an athlete, which a third statement (`selectin`)
  fetches although `app/admin/schema/athlete.py:75-77` speaks of no second round-trip, is
  left out.
- Deployment: staging is like production; downgrades, offline mode and plugins
  are left out.

## 8. Not modelled

- Casbin policies: each route that writes them is behind `rbac_verify`, which
  reads `request.user.is_superuser`; the identity has no such field, so that the
  route ends in a 500 for everyone (`RbacVerify` in Pipeline).
- What a row of the operation log holds (arguments, masking, times, agent): the
  rows there are, of paths without a route, tell nothing of the application.
- Password reset, deletion by e-mail, secure tokens: no route reaches them.
- Mail, OAuth, object storage, socket.io, observability, log encryption,
  translations, schemas: I/O or pure output, without state of their own.
- The limiter's own script and the IP lookup: only their outcomes.

## 9. Plan

Done: Sessions, Registry, Dashboard, Pipeline, Listing and Deployment with their
proofs, the abstract specification of the Registry.

Next, in this order:

1. Registry: requests of three clients on a smaller set of operations, for longer
   rings of licences.
2. `RequestProofs`: the images of the purge and of the seeder in `RegistryAbs`.
   Accounts of role USER may then be without a profile, so that `Matched` has to be
   weakened to its second and third parts, and a transaction may delete several rows.
3. `RequestProofs`: that rings of locks go through licences, for any number of
   clients; `Waits` and the order in which a program locks are a ranking for it.

## 10. Running it

`tlc -config <name>.cfg <module>` with the module of the table in section 2, for
instance `tlc -config SessionsRevocation.cfg MCSessions`, and `tlapm
SessionsProofs.tla`, likewise `RegistryProofs`, `RequestProofs`,
`FiniteTheorems`, `DashboardProofs`, `PipelineProofs`, `ListingProofs`
and `DeploymentProofs`. The longest runs, `SessionsRevocation`,
`SessionsLiveness`, `RegistryAccounts`, `RegistryResults`, `Dashboard`, `Pipeline`, `Listing`
and `Deployment`, take one to three minutes each; the longest proofs,
`RegistryProofs` and `RequestProofs`, some five and eight.
