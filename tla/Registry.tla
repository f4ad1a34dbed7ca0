------------------------------ MODULE Registry ------------------------------
(***************************************************************************)
(* Athletes, their login accounts, their results and the roles: what the   *)
(* administration routes, `cli create-admin' and the demo seeder do to     *)
(* Postgres, statement by statement, at READ COMMITTED (the default, which *)
(* db_postgres.py does not change).                                        *)
(*                                                                         *)
(* Each request is one transaction (the seeder: two).  A statement sees    *)
(* what is committed when it starts and what its own transaction wrote; a  *)
(* write waits for the transaction that holds the row or the unique key it *)
(* needs.  The tables of the transaction in progress are its ins (row      *)
(* versions written) and del (row versions superseded, hence locked).      *)
(***************************************************************************)
EXTENDS Naturals, Sequences, FiniteSets

CONSTANTS
  Clients,           \* requests and commands in flight
  Operations,        \* the operations they perform
  Emails, Licenses,  \* what an administrator may type
  DemoEmails,        \* addresses of the demo domains
  DemoEmail,         \* the address of the seeder's athlete
  DemoLicense,       \* a licence with the demo prefix
  AdminEmail,        \* ADMIN_EMAIL in the environment of the seeder
  Boss, Jane,        \* the addresses of the accounts of a database in use
  JaneLicense,
  Blank,             \* the empty licence, which an update may give
  Databases,         \* how the database may start: fresh, without a row, or in use
  RequestsMayFail,   \* a connection lost, a worker killed
  MaxId,             \* bound: no request that adds an account starts above this id
  MaxResult,         \* bound: nor one that adds a result, above this one
  None

AllOperations == {"create", "update", "setStatus", "delete", "record", "amend", "discard",
                  "createAdmin", "purge", "seed"}

ASSUME RegistryAssumption ==
  /\ IsFiniteSet(Clients)
  /\ Operations \subseteq AllOperations
  /\ Databases \subseteq {"fresh", "inUse"}
  /\ RequestsMayFail \in BOOLEAN
  /\ MaxId \in Nat /\ MaxResult \in Nat
  /\ Boss # Jane
  /\ DemoEmail \in DemoEmails
  /\ None \notin Emails \cup Licenses
  /\ Blank \notin {None, JaneLicense, DemoLicense}

VARIABLES
  db,       \* db[t]: the committed rows of table t
  seq,      \* seq[t]: the last id drawn from the sequence of table t
  tx,       \* tx[c]: the request of c and its open transaction
  answer    \* the answer the last step gave a client, or none

vars == <<db, seq, tx, answer>>

Tables == {"role", "user", "athlete", "performance"}
Numbered == {"user", "athlete", "performance"}
NoRows == [t \in Tables |-> {}]

\* A client without a request.
NoTx ==
  [op |-> "none", at |-> 1,
   email |-> None, license |-> None, on |-> TRUE,            \* the payload
   pk |-> 0,            \* the id in the path, then that of the last insert
   seen |-> None,       \* the row its first query returned
   todo |-> {},         \* the ids its DELETE has still to reach
   ins |-> NoRows, del |-> NoRows,
   share |-> {},        \* the athletes it holds FOR KEY SHARE
   alone |-> TRUE]      \* history: no other request was in flight with it

Busy(c) == tx[c].op # "none"

\* A database with an administrator and an athlete who has one result.
InUse ==
  [role |-> {"admin", "user"},
   user |-> {[id |-> 1, email |-> Boss, role |-> "admin", active |-> TRUE],
             [id |-> 2, email |-> Jane, role |-> "user", active |-> TRUE]},
   athlete |-> {[id |-> 1, user |-> 2, license |-> JaneLicense]},
   performance |-> {[id |-> 1, athlete |-> 1]}]

Filled(d) == IF d = "fresh" THEN NoRows ELSE InUse

Init ==
  /\ \E d \in Databases :
       /\ db = Filled(d)
       /\ seq = [t \in Numbered |-> Cardinality(db[t])]
  /\ tx = [c \in Clients |-> NoTx]
  /\ answer = "none"

-----------------------------------------------------------------------------
(* What Postgres does *)

Visible(c, t) == (db[t] \ tx[c].del[t]) \cup tx[c].ins[t]

\* The unique indexes: role.name, user.email, athlete.license_number.
SameKey(t, r, s) ==
  \/ t = "role" /\ r = s
  \/ t = "user" /\ r.email = s.email
  \/ t = "athlete" /\ r.license = s.license

\* d has written, or superseded, a row with that key.
HoldsKey(d, t, row) == \E r \in tx[d].ins[t] \cup tx[d].del[t] : SameKey(t, r, row)

KeyContended(c, t, row) == \E d \in Clients \ {c} : HoldsKey(d, t, row)

RowLocked(c, t, r) == \E d \in Clients \ {c} : r \in tx[d].del[t]

\* Mutant: a result's transaction does not hold the athlete it refers to.
ReferencedNever(c, a) == FALSE

\* An insert that refers to athlete a is open: it may not be deleted, and its
\* unique columns may not change.
Referenced(c, a) == \E d \in Clients \ {c} : a.id \in tx[d].share

\* d deletes athlete a, or changes its unique column.
ChangesKey(d, a) ==
  /\ a \in tx[d].del["athlete"]
  /\ ~ \E r \in tx[d].ins["athlete"] : r.id = a.id /\ r.license = a.license

\* Mutant: performance.athlete_id without its foreign key.
KeyLockedNever(c, a) == FALSE

KeyLocked(c, a) == \E d \in Clients \ {c} : ChangesKey(d, a)

\* The ids of the rows that c has deleted.
Gone(c, t) == {r.id : r \in tx[c].del[t]} \ {r.id : r \in tx[c].ins[t]}

\* Mutant: athlete.user_id without ON DELETE CASCADE.
DoomedResults(c, t) ==
  {r \in Visible(c, t) : t = "performance" /\ r.athlete \in Gone(c, "athlete")}

\* ON DELETE CASCADE: the rows whose parent the transaction has deleted.
Doomed(c, t) ==
  {r \in Visible(c, t) : \/ t = "athlete" /\ r.user \in Gone(c, "user")
                         \/ t = "performance" /\ r.athlete \in Gone(c, "athlete")}

-----------------------------------------------------------------------------
(* The operations: their statements, in order *)

\* Mutant: the account is committed before the profile is inserted.
CreateInTwo == <<"freeEmail", "freeLicense", "getUserRole", "addUserRole", "addUser", "commit",
                 "addAthlete", "commit">>

Create == <<"freeEmail", "freeLicense", "getUserRole", "addUserRole", "addUser", "addAthlete",
            "commit">>
\* Mutant: an update also writes the account, which a delete takes first.
UpdateWithAccount == <<"findAthlete", "freeLicense", "lockAthlete", "writeAthlete", "writeUser",
                       "commit">>

Update == <<"findAthlete", "freeLicense", "lockAthlete", "writeAthlete", "commit">>
SetStatus == <<"findAthlete", "writeUser", "commit">>
Delete == <<"findAthlete", "deleteUsers", "cascade", "commit">>
Record == <<"findAthlete", "addPerformance", "commit">>
Amend == <<"findPerformance", "lockPerformance", "commit">>
Discard == <<"findPerformance", "deletePerformances", "commit">>
\* Mutant: the command forgets its explicit commit.
CreateAdminNoCommit == <<"freeEmail", "getAdminRole", "addAdminRole", "addAdmin">>

CreateAdmin == <<"freeEmail", "getAdminRole", "addAdminRole", "addAdmin", "commit">>
\* Mutant: the purge takes the profiles first.
PurgeProfilesFirst == <<"scanAthletes", "deleteAthletes", "cascade", "scanUsers", "deleteUsers",
                        "cascade", "commit">>

Purge == <<"scanUsers", "deleteUsers", "cascade", "scanAthletes", "deleteAthletes", "cascade",
           "commit">>

Fill == <<"getAdminRole", "addAdminRole", "getUserRole", "addUserRole",
          "addAdmin", "addUser", "addAthlete", "addPerformance", "commit">>

Program(op) ==
  CASE op = "create" -> Create
    [] op = "update" -> Update
    [] op = "setStatus" -> SetStatus
    [] op = "delete" -> Delete
    [] op = "record" -> Record
    [] op = "amend" -> Amend
    [] op = "discard" -> Discard
    [] op = "createAdmin" -> CreateAdmin
    [] op = "purge" -> Purge
    [] op = "seed" -> Purge \o Fill

At(c, step) == Busy(c) /\ Program(tx[c].op)[tx[c].at] = step

\* The next statement of c, its transaction being t so far.
Advance(c, t) ==
  /\ tx' = [tx EXCEPT ![c] = [t EXCEPT !.at = @ + 1]]
  /\ answer' = "none"

Proceed(c, t) == Advance(c, t) /\ UNCHANGED <<db, seq>>

\* Past the statement after this one, which has nothing to do.
Skip(c) == Proceed(c, [tx[c] EXCEPT !.at = @ + 1])

\* Mutant: the transaction of a request that raises is left open.
AbortLeftOpen(c, how) ==
  /\ tx' = [tx EXCEPT ![c].op = "none"]
  /\ answer' = how
  /\ UNCHANGED <<db, seq>>

\* Roll back and answer: "refused" is a 403 or 404, "error" the 500 of an
\* IntegrityError.
Abort(c, how) ==
  /\ tx' = [tx EXCEPT ![c] = NoTx]
  /\ answer' = how
  /\ UNCHANGED <<db, seq>>

-----------------------------------------------------------------------------
(* Requests *)

WithinBounds(op) ==
  /\ op \in {"create", "createAdmin", "seed"} => seq["user"] < MaxId
  /\ op \in {"record", "seed"} => seq["performance"] < MaxResult

\* What a payload may hold.  Ids are those of rows that a screen has shown: rows
\* of db now, which may be gone when the request reads them.
EmailsFor(op) ==
  CASE op \in {"create", "createAdmin"} -> Emails
    [] op = "seed" -> {DemoEmail}
    [] OTHER -> {None}

LicensesFor(op) ==
  CASE op = "create" -> Licenses \ {Blank}
    [] op = "update" -> Licenses \cup {None}
    [] op = "seed" -> {DemoLicense}
    [] OTHER -> {None}

IdsFor(op) ==
  CASE op \in {"update", "setStatus", "delete", "record"} -> {a.id : a \in db["athlete"]}
    [] op \in {"amend", "discard"} -> {r.id : r \in db["performance"]}
    [] OTHER -> {0}

StatusesFor(op) == IF op = "setStatus" THEN BOOLEAN ELSE {TRUE}

Start(c, op) ==
  /\ ~Busy(c)
  /\ WithinBounds(op)
  /\ \E e \in EmailsFor(op), l \in LicensesFor(op), i \in IdsFor(op), on \in StatusesFor(op) :
       tx' = [d \in Clients |->
                IF d = c THEN [NoTx EXCEPT !.op = op, !.email = e, !.license = l, !.pk = i,
                                           !.on = on, !.alone = \A f \in Clients : ~Busy(f)]
                ELSE IF Busy(d) THEN [tx[d] EXCEPT !.alone = FALSE] ELSE tx[d]]
  /\ answer' = "none"
  /\ UNCHANGED <<db, seq>>

-----------------------------------------------------------------------------
(* Queries *)

FreeEmail(c) ==
  /\ At(c, "freeEmail")
  /\ IF \E u \in Visible(c, "user") : u.email = tx[c].email
     THEN Abort(c, "refused")
     ELSE Proceed(c, tx[c])

\* Mutant: update leaves the licence to the unique index.
FreeLicenseOnCreate(c) ==
  /\ At(c, "freeLicense")
  /\ IF tx[c].op = "create" /\ \E a \in Visible(c, "athlete") : a.license = tx[c].license
     THEN Abort(c, "refused")
     ELSE Proceed(c, tx[c])

\* update looks a licence up only when it is given, not empty and not the one
\* the athlete had when it was read.
FreeLicense(c) ==
  /\ At(c, "freeLicense")
  /\ LET asked == tx[c].op = "create" \/ tx[c].license \notin {None, Blank, tx[c].seen.license}
     IN IF asked /\ \E a \in Visible(c, "athlete") : a.license = tx[c].license
        THEN Abort(c, "refused")
        ELSE Proceed(c, tx[c])

\* athlete_dao.get: 404, or the row, whose user_id set_status and delete use.
FindAthlete(c) ==
  /\ At(c, "findAthlete")
  /\ IF \E a \in Visible(c, "athlete") : a.id = tx[c].pk
     THEN \E a \in Visible(c, "athlete") :
            a.id = tx[c].pk /\ Proceed(c, [tx[c] EXCEPT !.seen = a, !.todo = {a.user}])
     ELSE Abort(c, "refused")

FindPerformance(c) ==
  /\ At(c, "findPerformance")
  /\ IF \E r \in Visible(c, "performance") : r.id = tx[c].pk
     THEN Proceed(c, [tx[c] EXCEPT !.todo = {tx[c].pk}])
     ELSE Abort(c, "refused")

\* role_dao.get_by_name: a role that exists is not added.
GetRole(c, name) == IF name \in Visible(c, "role") THEN Skip(c) ELSE Proceed(c, tx[c])

GetUserRole(c) == At(c, "getUserRole") /\ GetRole(c, "user")
GetAdminRole(c) == At(c, "getAdminRole") /\ GetRole(c, "admin")

\* The rows the two DELETE ... LIKE of the purge find in their snapshot.
ScanUsers(c) ==
  /\ At(c, "scanUsers")
  /\ Proceed(c, [tx[c] EXCEPT !.todo =
       {u.id : u \in {v \in Visible(c, "user") : v.email \in DemoEmails}}])

ScanAthletes(c) ==
  /\ At(c, "scanAthletes")
  /\ Proceed(c, [tx[c] EXCEPT !.todo =
       {a.id : a \in {b \in Visible(c, "athlete") : b.license = DemoLicense}}])

-----------------------------------------------------------------------------
(* Writes.  None is enabled while the statement would wait. *)

\* INSERT, which draws the row's id (a rollback does not give it back; the
\* gaps that failed inserts leave are not told apart).
Insert(c, t, row) ==
  /\ ~KeyContended(c, t, row)
  /\ IF \E r \in Visible(c, t) : SameKey(t, r, row)
     THEN Abort(c, "error")
     ELSE /\ Advance(c, [tx[c] EXCEPT !.ins[t] = @ \cup {row},
                                      !.pk = IF t \in Numbered THEN row.id ELSE @])
          /\ seq' = IF t \in Numbered THEN [seq EXCEPT ![t] = @ + 1] ELSE seq
          /\ UNCHANGED db

AddUserRole(c) == At(c, "addUserRole") /\ Insert(c, "role", "user")
AddAdminRole(c) == At(c, "addAdminRole") /\ Insert(c, "role", "admin")

AddUser(c) ==
  /\ At(c, "addUser")
  /\ Insert(c, "user", [id |-> seq["user"] + 1, email |-> tx[c].email,
                        role |-> "user", active |-> TRUE])

AdminAddress(c) == IF tx[c].op = "seed" THEN AdminEmail ELSE tx[c].email

AddAdmin(c) ==
  /\ At(c, "addAdmin")
  /\ Insert(c, "user", [id |-> seq["user"] + 1, role |-> "admin", active |-> TRUE,
                        email |-> AdminAddress(c)])

AddAthlete(c) ==
  /\ At(c, "addAthlete")
  /\ Insert(c, "athlete", [id |-> seq["athlete"] + 1, user |-> tx[c].pk,
                           license |-> tx[c].license])

\* The foreign key waits for whoever deletes the athlete, then holds its row
\* until the commit; without the row, an IntegrityError.
AddPerformance(c) ==
  /\ At(c, "addPerformance")
  /\ IF \E a \in Visible(c, "athlete") : a.id = tx[c].pk
     THEN \E a \in Visible(c, "athlete") :
            /\ a.id = tx[c].pk
            /\ ~KeyLocked(c, a)
            /\ LET row == [id |-> seq["performance"] + 1, athlete |-> a.id]
               IN Advance(c, [tx[c] EXCEPT !.share = @ \cup {a.id},
                                           !.ins["performance"] = @ \cup {row}])
            /\ seq' = [seq EXCEPT !["performance"] = @ + 1]
            /\ UNCHANGED db
     ELSE Abort(c, "error")

\* A new version of a row whose keys do not change.
Overwrite(c, t, old, new) ==
  /\ ~RowLocked(c, t, old)
  /\ Proceed(c, [tx[c] EXCEPT !.del[t] = @ \cup {old}, !.ins[t] = @ \cup {new}])

\* UPDATE athlete: lock the row; then, if the licence changes, its index.
\* The row may be gone: the update reaches no row and count is 0.
LockAthlete(c) ==
  /\ At(c, "lockAthlete")
  /\ IF \E a \in Visible(c, "athlete") : a.id = tx[c].pk
     THEN \E a \in Visible(c, "athlete") :
            /\ a.id = tx[c].pk
            /\ ~RowLocked(c, "athlete", a)
            /\ IF tx[c].license \in {None, a.license}
               THEN Proceed(c, [tx[c] EXCEPT !.at = @ + 1, !.del["athlete"] = {a},
                                             !.ins["athlete"] = {a}])
               ELSE /\ ~Referenced(c, a)
                    /\ Proceed(c, [tx[c] EXCEPT !.seen = a, !.del["athlete"] = {a}])
     ELSE Skip(c)

WriteAthlete(c) ==
  /\ At(c, "writeAthlete")
  /\ LET row == [tx[c].seen EXCEPT !.license = tx[c].license]
     IN /\ ~KeyContended(c, "athlete", row)
        /\ IF \E a \in Visible(c, "athlete") : SameKey("athlete", a, row)
           THEN Abort(c, "error")
           ELSE Proceed(c, [tx[c] EXCEPT !.ins["athlete"] = {row}])

\* user_dao.set_status, by the user_id that was read: no row if it is gone.
WriteUser(c) ==
  /\ At(c, "writeUser")
  /\ IF \E u \in Visible(c, "user") : u.id = tx[c].seen.user
     THEN \E u \in Visible(c, "user") :
            /\ u.id = tx[c].seen.user
            /\ Overwrite(c, "user", u, [u EXCEPT !.active = tx[c].on])
     ELSE Proceed(c, tx[c])

LockPerformance(c) ==
  /\ At(c, "lockPerformance")
  /\ IF \E r \in Visible(c, "performance") : r.id = tx[c].pk
     THEN \E r \in Visible(c, "performance") :
            r.id = tx[c].pk /\ Overwrite(c, "performance", r, r)
     ELSE Proceed(c, tx[c])

\* One row of the statement, or the end of it when none of rows is left.  A
\* scan meets the rows in the order of the heap, here that of their ids.
DeleteFrom(c, t, rows) ==
  \/ rows = {} /\ Proceed(c, [tx[c] EXCEPT !.todo = {}])
  \/ \E r \in rows :
       /\ \A s \in rows : r.id <= s.id
       /\ ~RowLocked(c, t, r)
       /\ t = "athlete" => ~Referenced(c, r)
       /\ tx' = [tx EXCEPT ![c].del[t] = @ \cup {r}]
       /\ answer' = "none"
       /\ UNCHANGED <<db, seq>>

UsersLeft(c) == {u \in Visible(c, "user") : u.id \in tx[c].todo}
DeleteUsers(c) == At(c, "deleteUsers") /\ DeleteFrom(c, "user", UsersLeft(c))

\* The row is tested again once its lock is free.
AthletesLeft(c) ==
  {a \in Visible(c, "athlete") : a.id \in tx[c].todo /\ a.license = DemoLicense}
DeleteAthletes(c) == At(c, "deleteAthletes") /\ DeleteFrom(c, "athlete", AthletesLeft(c))

PerformancesLeft(c) == {r \in Visible(c, "performance") : r.id \in tx[c].todo}
DeletePerformances(c) ==
  At(c, "deletePerformances") /\ DeleteFrom(c, "performance", PerformancesLeft(c))

Cascade(c) ==
  /\ At(c, "cascade")
  /\ IF Doomed(c, "athlete") # {}
     THEN DeleteFrom(c, "athlete", Doomed(c, "athlete"))
     ELSE DeleteFrom(c, "performance", Doomed(c, "performance"))

\* COMMIT; the seeder then opens its second transaction.
Commit(c) ==
  /\ At(c, "commit")
  /\ db' = [t \in Tables |-> (db[t] \ tx[c].del[t]) \cup tx[c].ins[t]]
  /\ IF tx[c].at = Len(Program(tx[c].op))
     THEN /\ tx' = [tx EXCEPT ![c] = NoTx]
          /\ answer' = "ok"
     ELSE Advance(c, [tx[c] EXCEPT !.ins = NoRows, !.del = NoRows, !.share = {}])
  /\ UNCHANGED seq

\* The connection or the worker is lost: Postgres rolls back.
Fail(c) ==
  /\ RequestsMayFail
  /\ Busy(c)
  /\ Abort(c, "none")

-----------------------------------------------------------------------------
(* Deadlocks *)

\* The first of the rows that a deletion has still to reach is d's.
HoldsFirst(d, t, rows) ==
  \E r \in rows :
    /\ \A s \in rows : r.id <= s.id
    /\ r \in tx[d].del[t] \/ (t = "athlete" /\ r.id \in tx[d].share)

\* The statement of c waits for the end of d: what keeps each write above from
\* being enabled, client by client.
Waits(c, d) ==
  /\ c # d /\ Busy(c) /\ Busy(d)
  /\ \/ At(c, "addUserRole") /\ HoldsKey(d, "role", "user")
     \/ At(c, "addAdminRole") /\ HoldsKey(d, "role", "admin")
     \/ At(c, "addUser") /\ HoldsKey(d, "user", [email |-> tx[c].email])
     \/ At(c, "addAdmin") /\ HoldsKey(d, "user", [email |-> AdminAddress(c)])
     \/ At(c, "addAthlete") /\ HoldsKey(d, "athlete", [license |-> tx[c].license])
     \/ At(c, "writeAthlete") /\ HoldsKey(d, "athlete", [license |-> tx[c].license])
     \/ At(c, "addPerformance") /\ \E a \in Visible(c, "athlete") :
          a.id = tx[c].pk /\ ChangesKey(d, a)
     \/ At(c, "lockAthlete") /\ \E a \in Visible(c, "athlete") :
          /\ a.id = tx[c].pk
          /\ \/ a \in tx[d].del["athlete"]
             \/ tx[c].license \notin {None, a.license} /\ a.id \in tx[d].share
     \/ At(c, "writeUser") /\ \E u \in Visible(c, "user") :
          u.id = tx[c].seen.user /\ u \in tx[d].del["user"]
     \/ At(c, "lockPerformance") /\ \E r \in Visible(c, "performance") :
          r.id = tx[c].pk /\ r \in tx[d].del["performance"]
     \/ At(c, "deleteUsers") /\ HoldsFirst(d, "user", UsersLeft(c))
     \/ At(c, "deleteAthletes") /\ HoldsFirst(d, "athlete", AthletesLeft(c))
     \/ At(c, "deletePerformances") /\ HoldsFirst(d, "performance", PerformancesLeft(c))
     \/ At(c, "cascade") /\ IF Doomed(c, "athlete") # {}
          THEN HoldsFirst(d, "athlete", Doomed(c, "athlete"))
          ELSE HoldsFirst(d, "performance", Doomed(c, "performance"))

\* c waits, through others, for itself.
OnRing(c) ==
  /\ \E d \in Clients : Waits(c, d)
  /\ \E n \in 1 .. Cardinality(Clients) : \E path \in [1 .. n -> Clients] :
       /\ Waits(c, path[1]) /\ path[n] = c
       /\ \A i \in 1 .. n - 1 : Waits(path[i], path[i + 1])

\* After deadlock_timeout Postgres ends one of those that wait for each other:
\* an exception without a status of its own, hence a 500.
Deadlocked(c) == OnRing(c) /\ Abort(c, "error")

-----------------------------------------------------------------------------

Step(c) ==
  \/ FreeEmail(c) \/ FreeLicense(c) \/ FindAthlete(c) \/ FindPerformance(c)
  \/ GetUserRole(c) \/ GetAdminRole(c) \/ ScanUsers(c) \/ ScanAthletes(c)
  \/ AddUserRole(c) \/ AddAdminRole(c) \/ AddUser(c) \/ AddAdmin(c)
  \/ AddAthlete(c) \/ AddPerformance(c)
  \/ LockAthlete(c) \/ WriteAthlete(c) \/ WriteUser(c) \/ LockPerformance(c)
  \/ DeleteUsers(c) \/ DeleteAthletes(c) \/ DeletePerformances(c) \/ Cascade(c)
  \/ Commit(c)

Next ==
  \E c \in Clients :
    \/ \E op \in Operations : Start(c, op)
    \/ Step(c)
    \/ Fail(c)
    \/ Deadlocked(c)

Spec == Init /\ [][Next]_vars

-----------------------------------------------------------------------------
(* Properties *)

Rows(t) ==
  CASE t = "role" -> {"admin", "user"}
    [] t = "user" -> [id : Nat, email : Emails \cup DemoEmails \cup {AdminEmail, Boss, Jane},
                      role : {"admin", "user"}, active : BOOLEAN]
    [] t = "athlete" -> [id : Nat, user : Nat, license : Licenses \cup {DemoLicense, JaneLicense}]
    [] t = "performance" -> [id : Nat, athlete : Nat]

\* Type invariant: the rows of each table, the requests and their answers.
TypeOK ==
  /\ DOMAIN db = Tables
  /\ \A t \in Tables : \A r \in db[t] : r \in Rows(t)
  /\ seq \in [Numbered -> Nat]
  /\ answer \in {"none", "ok", "refused", "error"}
  /\ \A c \in Clients :
       /\ tx[c].op \in Operations \cup {"none"}
       /\ Busy(c) => tx[c].at \in 1 .. Len(Program(tx[c].op))
       /\ \A t \in Tables : \A r \in tx[c].ins[t] \cup tx[c].del[t] : r \in Rows(t)

\* "Exactly one profile per User of role USER (an ADMIN has none)", and no
\* profile without its account (models/athlete.py:12-14 and 22-26): the API
\* commits the two together, whatever overlaps.  The purge breaks it when an
\* administrator has given an athlete a licence with the demo prefix: it
\* deletes the profile by its licence and leaves the account.
OneProfilePerAccount ==
  /\ \A u \in db["user"] :
       Cardinality({a \in db["athlete"] : a.user = u.id}) = (IF u.role = "user" THEN 1 ELSE 0)
  /\ \A a \in db["athlete"] : \E u \in db["user"] : u.id = a.user

\* A result recorded while its athlete is being deleted does not survive the
\* athlete: performance_service.create has looked the athlete up, but only the
\* foreign key makes it wait for the delete.
NoOrphanResults ==
  \A r \in db["performance"] : \E a \in db["athlete"] : a.id = r.athlete

\* Every request looks the keys it needs up before it writes them, so that a
\* conflict is a 403 or 404 with a message.  Only a race with another request
\* may end in the 500 of the generic handler, or an update to the licence that
\* another athlete has left empty: `if new_license' (athlete_service.py:120)
\* does not look that up.
SequentialNeverErrors ==
  [][\A c \in Clients : answer' = "error" /\ Busy(c) /\ ~Busy(c)' =>
       ~tx[c].alone \/ (tx[c].op = "update" /\ tx[c].license = Blank)]_vars

\* Requests that all wait for each other: each takes role, account, athlete and
\* result in that order, and within a table by id, so that only an update that
\* has locked its athlete and waits for the new licence can close a ring.
OnlyLicencesDeadlock ==
  \A D \in SUBSET Clients \ {{}} :
    (\A c \in D : \E d \in D : Waits(c, d)) => \E c \in D : At(c, "writeAthlete")

\* No lock outlives its transaction: a request under way can go on unless it
\* waits for another that is under way too.  So where nobody waits in a ring
\* somebody can always go on, and a ring is what Postgres breaks.
NobodyWaitsInVain ==
  \A c \in Clients : Busy(c) => (ENABLED Step(c) <=> ~\E d \in Clients : Waits(c, d))

-----------------------------------------------------------------------------
(* The registry that the tables implement: an athlete is a profile joined  *)
(* with its account, as every screen shows it.                             *)

People(d) ==
  {[id |-> p[1].id, email |-> p[2].email, license |-> p[1].license, active |-> p[2].active] :
     p \in {q \in d["athlete"] \X d["user"] : q[1].user = q[2].id}}
AdminsOf(d) == {u.email : u \in {v \in d["user"] : v.role = "admin"}}

Abs == INSTANCE RegistryAbs WITH
  Emails <- Emails \cup {AdminEmail},
  Starts <- {[people |-> People(Filled(d)), results |-> Filled(d)["performance"],
              admins |-> AdminsOf(Filled(d))] : d \in Databases},
  people <- People(db), results <- db["performance"], admins <- AdminsOf(db)

\* Each transaction is one step of the registry, or none: what create, delete
\* and the seeder write together is never seen apart, the purge takes demo
\* records only, and a request that has lost a race changes nothing.
ImplementsRegistry == Abs!Spec

=============================================================================
