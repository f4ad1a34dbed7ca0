---------------------------- MODULE RequestProofs ----------------------------
(***************************************************************************)
(* Theorems about Registry as long as nobody runs the purge or the seeder, *)
(* which starts with it: for any number of requests of the administration  *)
(* routes and `cli create-admin', accounts and profiles go together, and   *)
(* only a race ends in an IntegrityError.                                  *)
(***************************************************************************)
EXTENDS RegistryProofs

-----------------------------------------------------------------------------
(* Accounts and profiles: the inductive invariant                          *)

NobodyPurges == "purge" \notin Operations /\ "seed" \notin Operations

\* What a transaction can already have written of accounts and profiles, by
\* the statement it is at.
AccountProgress(t) ==
  /\ t.op \notin {"create", "createAdmin", "setStatus"} => t.ins["user"] = {}
  /\ t.op \notin {"delete", "setStatus"} => t.del["user"] = {}
  /\ t.op = "create" /\ t.at <= 5 => t.ins["user"] = {}
  /\ t.op = "create" /\ t.at >= 6 =>
       \E u \in t.ins["user"] :
         /\ u.role = "user"
         /\ t.at = 6 => t.pk = u.id
         /\ t.at = 7 => /\ \E a \in t.ins["athlete"] : a.user = u.id
                        /\ \A a \in t.ins["athlete"] : a.user = u.id
  /\ t.op = "createAdmin" /\ t.at <= 4 => t.ins["user"] = {}
  /\ t.op = "createAdmin" => \A u \in t.ins["user"] : u.role = "admin"
  /\ t.op = "setStatus" /\ t.at <= 2 => t.ins["user"] = {} /\ t.del["user"] = {}
  /\ t.op = "setStatus" =>
       /\ \A u \in t.ins["user"] : \E v \in t.del["user"] : v.id = u.id /\ v.role = u.role
       /\ \A v \in t.del["user"] : \E u \in t.ins["user"] : u.id = v.id /\ u.role = v.role
  /\ t.op = "delete" => \A a \in t.del["athlete"] : \E v \in t.del["user"] : v.id = a.user
  /\ t.op = "update" /\ t.at = 5 =>
       /\ \A a \in t.del["athlete"] : \E b \in t.ins["athlete"] : b.user = a.user
       /\ \A b \in t.ins["athlete"] : \E a \in t.del["athlete"] : a.user = b.user
  /\ \A u, v \in t.ins["user"] : u = v

AccountsInv == \A c \in Clients : AccountProgress(tx[c])

\* Two accounts never have the same id.
AccountIds ==
  /\ \A u, v \in db["user"] : u.id = v.id => u = v
  /\ \A u \in db["user"] : u.id <= seq["user"]
  /\ \A c \in Clients : \A u \in tx[c].ins["user"] :
       /\ u.id <= seq["user"]
       /\ \/ \E v \in tx[c].del["user"] : v.id = u.id
          \/ /\ \A v \in db["user"] : v.id # u.id
             /\ \A d \in Clients \ {c} : \A v \in tx[d].ins["user"] : v.id # u.id

\* An account that is being replaced or deleted is committed, and one
\* transaction's alone.
AccountLocks ==
  \A c \in Clients :
    /\ tx[c].del["user"] \subseteq db["user"]
    /\ \A d \in Clients \ {c} : tx[c].del["user"] \cap tx[d].del["user"] = {}

\* Behind its cascade, a deletion has left no profile of the account.
ProfilesGone ==
  \A c \in Clients : tx[c].op = "delete" /\ tx[c].at = 4 => Doomed(c, "athlete") = {}

\* The committed accounts and profiles match.
Matched ==
  /\ \A u \in db["user"] : u.role = "user" => \E a \in db["athlete"] : a.user = u.id
  /\ \A a \in db["athlete"] : \E u \in db["user"] : u.id = a.user /\ u.role = "user"
  /\ \A a, b \in db["athlete"] : a.user = b.user => a = b

PInv == IInv /\ AccountsInv /\ AccountIds /\ AccountLocks /\ ProfilesGone /\ Matched

-----------------------------------------------------------------------------
(* Steps that are not commits                                              *)

\* Accounts and profiles in a step of c that leaves the tables alone.
Settles(c) ==
  /\ \A d \in Clients \ {c} : tx'[d].pk = tx[d].pk
  /\ AccountProgress(tx'[c])
  /\ seq["user"] <= seq'["user"]
  /\ \A u \in tx'[c].del["user"] :
       u \in tx[c].del["user"] \/ (u \in db["user"] /\ ~RowLocked(c, "user", u))
  /\ \A u \in tx'[c].ins["user"] :
       /\ u.id <= seq'["user"]
       /\ \/ \E v \in tx'[c].del["user"] : v.id = u.id
          \/ u \in tx[c].ins["user"] /\ tx[c].del["user"] \subseteq tx'[c].del["user"]
          \/ seq["user"] < u.id
  /\ tx'[c].op = "delete" /\ tx'[c].at = 4 => Doomed(c, "athlete")' = {}

\* The ids of accounts are numbers.
LEMMA AccountTypes ==
  ASSUME TypeInv
  PROVE  /\ seq["user"] \in Nat
         /\ \A u \in db["user"] : u.id \in Nat /\ u.role \in {"admin", "user"}
         /\ \A c \in Clients : \A u \in tx[c].ins["user"] \cup tx[c].del["user"] : u.id \in Nat
<1>1. "user" \in Tables /\ "user" \in Numbered
  BY DEF Tables, Numbered
<1>2. /\ db["user"] \subseteq Rows("user")
      /\ \A c \in Clients : tx[c].ins["user"] \cup tx[c].del["user"] \subseteq Rows("user")
  BY <1>1, RowsOf DEF TypeInv, Transactions
<1>3. \A u \in Rows("user") : u.id \in Nat /\ u.role \in {"admin", "user"}
  BY DEF Rows
<1> QED
  BY <1>1, <1>2, <1>3 DEF TypeInv

LEMMA SettlesIds ==
  ASSUME PInv, NEW c \in Clients, Good(c), Settles(c)
  PROVE  AccountIds'
<1> USE DEF Good, Only, Work, Settles
<1>1. seq["user"] \in Nat /\ seq'["user"] \in Nat
  <2>1. TypeInv /\ TypeInv' /\ "user" \in Numbered
    BY DEF PInv, IInv, Numbered
  <2> QED
    BY <2>1 DEF TypeInv
<1>2. /\ \A u \in db["user"] : u.id \in Nat
      /\ \A d \in Clients : \A u \in tx[d].ins["user"] : u.id \in Nat
  BY AccountTypes DEF PInv, IInv
<1>3. \A d \in Clients : \A u \in tx'[d].ins["user"] : u.id \in Nat
  <2>1. \A d \in Clients : tx'[d].ins \in RowSets
    BY DEF TypeInv, Transactions
  <2>2. \A d \in Clients : tx'[d].ins["user"] \subseteq Rows("user")
    BY <2>1, RowsOf DEF Tables
  <2> QED
    BY <2>2 DEF Rows
<1>4. /\ \A u, v \in db'["user"] : u.id = v.id => u = v
      /\ \A u \in db'["user"] : u.id <= seq'["user"]
  BY <1>1, <1>2 DEF PInv, AccountIds
<1>5. \A v \in tx'[c].del["user"] : v \in db["user"]
  BY DEF PInv, AccountLocks
<1>6. ASSUME NEW u \in tx'[c].ins["user"]
      PROVE  /\ u.id <= seq'["user"]
             /\ \/ \E v \in tx'[c].del["user"] : v.id = u.id
                \/ /\ \A v \in db'["user"] : v.id # u.id
                   /\ \A d \in Clients \ {c} : \A v \in tx'[d].ins["user"] : v.id # u.id
  <2>1. CASE \E v \in tx'[c].del["user"] : v.id = u.id
    BY <2>1
  <2>2. CASE u \in tx[c].ins["user"] /\ tx[c].del["user"] \subseteq tx'[c].del["user"]
    BY <2>2 DEF PInv, AccountIds
  <2>3. CASE seq["user"] < u.id
    <3>1. \A v \in db["user"] : v.id # u.id
      BY <1>1, <1>2, <1>3, <2>3 DEF PInv, AccountIds
    <3>2. \A d \in Clients \ {c} : \A v \in tx[d].ins["user"] : v.id # u.id
      BY <1>1, <1>2, <1>3, <2>3 DEF PInv, AccountIds
    <3> QED
      BY <3>1, <3>2
  <2> QED
    BY <2>1, <2>2, <2>3
<1>7. ASSUME NEW d \in Clients \ {c}, NEW u \in tx'[d].ins["user"]
      PROVE  /\ u.id <= seq'["user"]
             /\ \/ \E v \in tx'[d].del["user"] : v.id = u.id
                \/ /\ \A v \in db'["user"] : v.id # u.id
                   /\ \A e \in Clients \ {d} : \A v \in tx'[e].ins["user"] : v.id # u.id
  <2>1. u \in tx[d].ins["user"] /\ u.id \in Nat /\ u.id <= seq["user"]
    BY <1>2 DEF PInv, AccountIds
  <2>2. u.id <= seq'["user"]
    BY <1>1, <2>1
  <2>3. CASE \E v \in tx[d].del["user"] : v.id = u.id
    BY <2>2, <2>3
  <2>4. CASE ~ \E v \in tx[d].del["user"] : v.id = u.id
    <3>1. /\ \A v \in db["user"] : v.id # u.id
          /\ \A e \in Clients \ {d} : \A v \in tx[e].ins["user"] : v.id # u.id
      BY <2>1, <2>4 DEF PInv, AccountIds
    <3>2. ASSUME NEW v \in tx'[c].ins["user"] PROVE v.id # u.id
      <4>1. CASE \E w \in tx'[c].del["user"] : w.id = v.id
        BY <1>5, <3>1, <4>1
      <4>2. CASE v \in tx[c].ins["user"]
        BY <3>1, <4>2
      <4>3. CASE seq["user"] < v.id
        BY <1>1, <1>3, <2>1, <4>3
      <4> QED
        BY <4>1, <4>2, <4>3
    <3> QED
      BY <2>2, <3>1, <3>2
  <2> QED
    BY <2>3, <2>4
<1> QED
  BY <1>4, <1>6, <1>7 DEF AccountIds

LEMMA SettlesKeeps ==
  ASSUME PInv, NEW c \in Clients, Good(c), Settles(c)
  PROVE  PInv'
<1> USE DEF Good, Only, Work, Settles
<1>1. IInv'
  BY WorkKeeps DEF PInv
<1>2. AccountsInv'
  <2>1. ASSUME NEW d \in Clients \ {c} PROVE AccountProgress(tx'[d])
    <3>1. AccountProgress(tx[d]) /\ tx'[d].pk = tx[d].pk
      BY DEF PInv, AccountsInv
    <3> QED
      BY <3>1, SMTT(30) DEF AccountProgress
  <2> QED
    BY <2>1 DEF AccountsInv
<1>3. AccountLocks'
  <2>1. \A d \in Clients : tx'[d].del["user"] \subseteq db'["user"]
    BY DEF PInv, AccountLocks
  <2>2. ASSUME NEW d \in Clients, NEW e \in Clients \ {d}
        PROVE  tx'[d].del["user"] \cap tx'[e].del["user"] = {}
    <3>1. ASSUME NEW f \in Clients \ {c} PROVE tx'[c].del["user"] \cap tx'[f].del["user"] = {}
      BY DEF PInv, AccountLocks, RowLocked
    <3> QED
      BY <3>1 DEF PInv, AccountLocks
  <2> QED
    BY <2>1, <2>2 DEF AccountLocks
<1>4. ProfilesGone'
  <2>1. ASSUME NEW d \in Clients \ {c}, tx'[d].op = "delete", tx'[d].at = 4
        PROVE  Doomed(d, "athlete")' = {}
    <3>1. Doomed(d, "athlete")' = Doomed(d, "athlete")
      BY <2>1 DEF Doomed, Visible, Gone
    <3> QED
      BY <2>1, <3>1 DEF PInv, ProfilesGone
  <2> QED
    BY <2>1 DEF ProfilesGone
<1>5. Matched'
  BY DEF PInv, Matched
<1> QED
  BY <1>1, <1>2, <1>3, <1>4, <1>5, SettlesIds DEF PInv

-----------------------------------------------------------------------------
(* Commits                                                                 *)

\* What c commits, by its operation.
Commits(c) ==
  LET t == tx[c]
  IN  \/ /\ t.op = "create" /\ t.del["user"] = {} /\ t.del["athlete"] = {}
         /\ \E u \in t.ins["user"], a \in t.ins["athlete"] :
              /\ u.role = "user" /\ a.user = u.id
              /\ t.ins["user"] = {u} /\ t.ins["athlete"] = {a}
      \/ /\ t.op = "createAdmin" /\ t.del["user"] = {}
         /\ t.ins["athlete"] = {} /\ t.del["athlete"] = {}
         /\ \A u \in t.ins["user"] : u.role = "admin"
      \/ /\ t.op = "setStatus" /\ t.ins["athlete"] = {} /\ t.del["athlete"] = {}
         /\ \A u \in t.ins["user"] : \E v \in t.del["user"] : v.id = u.id /\ v.role = u.role
         /\ \A v \in t.del["user"] : \E u \in t.ins["user"] : u.id = v.id /\ u.role = v.role
      \/ /\ t.op = "update" /\ t.ins["user"] = {} /\ t.del["user"] = {}
         /\ \A a \in t.del["athlete"] : \E b \in t.ins["athlete"] : b.user = a.user
         /\ \A b \in t.ins["athlete"] : \E a \in t.del["athlete"] : a.user = b.user
      \/ /\ t.op = "delete" /\ t.ins["user"] = {} /\ t.ins["athlete"] = {}
         /\ \A a \in t.del["athlete"] : \E v \in t.del["user"] : v.id = a.user
         /\ Doomed(c, "athlete") = {}
      \/ /\ t.op \notin {"none", "create", "createAdmin", "setStatus", "update", "delete"}
         /\ t.ins["user"] = {} /\ t.del["user"] = {}
         /\ t.ins["athlete"] = {} /\ t.del["athlete"] = {}

LEMMA CommitsOf ==
  ASSUME NobodyPurges, PInv, NEW c \in Clients, Commit(c)
  PROVE  /\ Commits(c) /\ Committed(c) /\ tx'[c] = NoTx
         /\ seq' = seq /\ \A d \in Clients \ {c} : tx'[d] = tx[d]
         /\ db'["user"] = (db["user"] \ tx[c].del["user"]) \cup tx[c].ins["user"]
         /\ db'["athlete"] = (db["athlete"] \ tx[c].del["athlete"]) \cup tx[c].ins["athlete"]
<1> DEFINE t == tx[c]
<1>1. IInv /\ TypeInv /\ ProgressInv /\ Busy(c) /\ At(c, "commit")
  BY DEF PInv, IInv, Commit, At
<1>2. Places(c) /\ t.op \in Operations /\ t.op \in AllOperations /\ Progress(t)
  BY <1>1, OpenPlaces DEF ProgressInv
<1>3. \/ Is(c, "create", 7) \/ Is(c, "update", 5) \/ Is(c, "delete", 4)
      \/ \E op \in {"setStatus", "record", "amend", "discard"} : Is(c, op, 3)
      \/ Is(c, "createAdmin", 5)
  BY <1>1, <1>2 DEF Places, NobodyPurges, Is
<1>4. AccountProgress(t)
  BY DEF PInv, AccountsInv
<1>5. Commits(c)
  <2>1. CASE Is(c, "create", 7)
    BY <1>2, <1>4, <2>1 DEF Commits, AccountProgress, Progress, Deleting, Is
  <2>2. CASE Is(c, "update", 5)
    BY <1>2, <1>4, <2>2 DEF Commits, AccountProgress, Is
  <2>3. CASE Is(c, "delete", 4)
    <3>1. Doomed(c, "athlete") = {}
      BY <2>3 DEF PInv, ProfilesGone, Is
    <3> QED
      BY <1>2, <1>4, <2>3, <3>1 DEF Commits, AccountProgress, Progress, Deleting, Is
  <2>4. CASE \E op \in {"setStatus", "record", "amend", "discard"} : Is(c, op, 3)
    BY <1>2, <1>4, <2>4 DEF Commits, AccountProgress, Progress, Deleting, Is
  <2>5. CASE Is(c, "createAdmin", 5)
    BY <1>2, <1>4, <2>5 DEF Commits, AccountProgress, Progress, Deleting, Is
  <2> QED
    BY <1>3, <2>1, <2>2, <2>3, <2>4, <2>5
<1>6. t.at = Len(Program(t.op))
  <2>1. t.at = Size[t.op]
    BY <1>3 DEF Size, Is
  <2> QED
    BY <1>2, <2>1, Sizes, Zenon
<1>7. tx' = [tx EXCEPT ![c] = NoTx] /\ seq' = seq
  BY <1>6 DEF Commit
<1>8. tx'[c] = NoTx /\ \A d \in Clients \ {c} : tx'[d] = tx[d]
  BY <1>1, <1>7 DEF TypeInv
<1>9. Committed(c)
  BY <1>1, CommitShape
<1>10. \A u \in {"user", "athlete"} : db'[u] = (db[u] \ tx[c].del[u]) \cup tx[c].ins[u]
  BY DEF Commit, Tables
<1> QED
  BY <1>5, <1>7, <1>8, <1>9, <1>10

LEMMA NoTxRows ==
  /\ NoTx.op = "none" /\ NoTx.ins["user"] = {} /\ NoTx.del["user"] = {}
  /\ NoTx.ins["athlete"] = {} /\ NoTx.del["athlete"] = {}
  BY NoTxType DEF NoRows, Tables

LEMMA CommitAccountIds ==
  ASSUME NobodyPurges, PInv, NEW c \in Clients, Commit(c)
  PROVE  AccountIds'
<1>1. /\ tx'[c].ins["user"] = {} /\ tx'[c].del["user"] = {}
      /\ seq' = seq /\ \A d \in Clients \ {c} : tx'[d] = tx[d]
      /\ db'["user"] = (db["user"] \ tx[c].del["user"]) \cup tx[c].ins["user"]
  BY CommitsOf, NoTxRows
<1>2. \A u \in db'["user"] : u.id <= seq'["user"]
  BY <1>1 DEF PInv, AccountIds
<1>3. \A u, v \in tx[c].ins["user"] : u = v
  BY DEF PInv, AccountsInv, AccountProgress
<1>4. ASSUME NEW e \in db["user"] \ tx[c].del["user"], NEW f \in tx[c].ins["user"]
      PROVE  e.id # f.id
  <2>1. tx[c].del["user"] \subseteq db["user"]
    BY DEF PInv, AccountLocks
  <2>2. CASE \E g \in tx[c].del["user"] : g.id = f.id
    BY <2>1, <2>2 DEF PInv, AccountIds
  <2>3. CASE \A g \in db["user"] : g.id # f.id
    BY <2>3
  <2> QED
    BY <2>2, <2>3 DEF PInv, AccountIds
<1>5. \A u, v \in db'["user"] : u.id = v.id => u = v
  BY <1>1, <1>3, <1>4 DEF PInv, AccountIds
<1>6. ASSUME NEW d \in Clients, NEW u \in tx'[d].ins["user"]
      PROVE  /\ u.id <= seq'["user"]
             /\ \/ \E v \in tx'[d].del["user"] : v.id = u.id
                \/ /\ \A v \in db'["user"] : v.id # u.id
                   /\ \A e \in Clients \ {d} : \A v \in tx'[e].ins["user"] : v.id # u.id
  <2>1. d # c /\ u \in tx[d].ins["user"] /\ tx'[d] = tx[d]
    BY <1>1
  <2>2. u.id <= seq'["user"]
    BY <1>1, <2>1 DEF PInv, AccountIds
  <2>3. CASE \E v \in tx[d].del["user"] : v.id = u.id
    BY <2>1, <2>2, <2>3
  <2>4. CASE /\ \A v \in db["user"] : v.id # u.id
             /\ \A e \in Clients \ {d} : \A v \in tx[e].ins["user"] : v.id # u.id
    <3>1. \A v \in db'["user"] : v.id # u.id
      BY <1>1, <2>1, <2>4
    <3>2. ASSUME NEW e \in Clients \ {d}, NEW v \in tx'[e].ins["user"] PROVE v.id # u.id
      BY <1>1, <2>4
    <3> QED
      BY <2>2, <3>1, <3>2
  <2> QED
    BY <2>1, <2>3, <2>4 DEF PInv, AccountIds
<1> QED
  BY <1>2, <1>5, <1>6 DEF AccountIds

\* A transaction open beside the commit: the accounts it replaces or deletes
\* stay, and its cascade has nothing new to reach.
LEMMA CommitBesides ==
  ASSUME NobodyPurges, PInv, NEW c \in Clients, Commit(c)
  PROVE  AccountLocks' /\ ProfilesGone'
<1>1. /\ tx'[c] = NoTx /\ tx'[c].op = "none" /\ tx'[c].del["user"] = {}
      /\ \A d \in Clients \ {c} : tx'[d] = tx[d]
      /\ db'["user"] = (db["user"] \ tx[c].del["user"]) \cup tx[c].ins["user"]
      /\ db'["athlete"] = (db["athlete"] \ tx[c].del["athlete"]) \cup tx[c].ins["athlete"]
  BY CommitsOf, NoTxRows
<1>2. AccountLocks'
  <2>1. ASSUME NEW d \in Clients
        PROVE  /\ tx'[d].del["user"] \subseteq db'["user"]
               /\ \A e \in Clients \ {d} : tx'[d].del["user"] \cap tx'[e].del["user"] = {}
    <3>1. CASE d = c
      BY <1>1, <3>1
    <3>2. CASE d # c
      <4>1. /\ tx'[d].del["user"] = tx[d].del["user"]
            /\ tx[d].del["user"] \cap tx[c].del["user"] = {}
            /\ tx[d].del["user"] \subseteq db["user"]
        BY <1>1, <3>2 DEF PInv, AccountLocks
      <4>2. ASSUME NEW e \in Clients \ {d} PROVE tx'[d].del["user"] \cap tx'[e].del["user"] = {}
        BY <1>1, <4>1 DEF PInv, AccountLocks
      <4> QED
        BY <1>1, <4>1, <4>2
    <3> QED
      BY <3>1, <3>2
  <2> QED
    BY <2>1 DEF AccountLocks
<1>3. ASSUME NEW d \in Clients, tx'[d].op = "delete", tx'[d].at = 4
      PROVE  Doomed(d, "athlete")' = {}
  <2>1. d # c /\ tx'[d] = tx[d] /\ tx[d].op = "delete" /\ tx[d].at = 4
    BY <1>1, <1>3
  <2>2. Doomed(d, "athlete") = {}
    BY <2>1 DEF PInv, ProfilesGone
  <2>3. Gone(d, "user")' = Gone(d, "user")
    BY <2>1 DEF Gone
  <2>4. tx[d].ins["athlete"] = {}
    BY <2>1 DEF PInv, IInv, ProgressInv, Progress, Deleting
  <2>5. ASSUME NEW a \in Doomed(d, "athlete")' PROVE FALSE
    <3>1. a \in db'["athlete"] \ tx[d].del["athlete"] /\ a.user \in Gone(d, "user")
      BY <2>1, <2>3, <2>4 DEF Doomed, Visible
    <3>2. a \notin db["athlete"]
      BY <2>2, <3>1 DEF Doomed, Visible
    <3>3. a \in tx[c].ins["athlete"]
      BY <1>1, <3>1, <3>2
    <3>4. PICK v \in tx[d].del["user"] : v.id = a.user
      BY <3>1 DEF Gone
    <3>5. v \in db["user"]
      BY DEF PInv, AccountLocks
    <3>6. tx[c].op = "create" \/ tx[c].op = "update"
      BY <3>3, CommitsOf DEF Commits
    <3>7. CASE tx[c].op = "create"
      <4>1. \E u \in tx[c].ins["user"] : a.user = u.id /\ tx[c].del["user"] = {}
        BY <3>3, <3>7, CommitsOf DEF Commits
      <4> QED
        BY <3>4, <3>5, <4>1 DEF PInv, AccountIds
    <3>8. CASE tx[c].op = "update"
      <4>1. PICK b \in tx[c].del["athlete"] : b.user = a.user
        BY <3>3, <3>8, CommitsOf DEF Commits
      <4>2. b \in db["athlete"] /\ b \notin tx[d].del["athlete"]
        BY <2>1 DEF PInv, IInv, LocksInv
      <4>3. b \in Doomed(d, "athlete")
        BY <3>1, <4>1, <4>2 DEF Doomed, Visible
      <4> QED
        BY <2>2, <4>3
    <3> QED
      BY <3>6, <3>7, <3>8
  <2> QED
    BY <2>5
<1> QED
  BY <1>2, <1>3 DEF ProfilesGone

\* The heart of it: whatever is committed, accounts of role USER and profiles
\* still match.
LEMMA CommitMatched ==
  ASSUME NobodyPurges, PInv, NEW c \in Clients, Commit(c)
  PROVE  Matched'
<1> DEFINE users == db["user"]
           athletes == db["athlete"]
           t == tx[c]
<1>1. /\ Commits(c)
      /\ db'["user"] = (users \ t.del["user"]) \cup t.ins["user"]
      /\ db'["athlete"] = (athletes \ t.del["athlete"]) \cup t.ins["athlete"]
  BY CommitsOf
<1>2. /\ \A u \in users : u.role = "user" => \E a \in athletes : a.user = u.id
      /\ \A a \in athletes : \E u \in users : u.id = a.user /\ u.role = "user"
      /\ \A a, b \in athletes : a.user = b.user => a = b
  BY DEF PInv, Matched
<1>3. t.del["user"] \subseteq users /\ t.del["athlete"] \subseteq athletes
  BY DEF PInv, AccountLocks, IInv, LocksInv
<1>4. /\ \A u, v \in users : u.id = v.id => u = v
      /\ \A a, b \in t.ins["athlete"] : a = b
  BY DEF PInv, AccountIds, IInv, ProgressInv, Progress
<1>5. CASE t.op = "create"
  <2>1. /\ t.del["user"] = {} /\ t.del["athlete"] = {}
        /\ \E u \in t.ins["user"], a \in t.ins["athlete"] :
             /\ u.role = "user" /\ a.user = u.id
             /\ t.ins["user"] = {u} /\ t.ins["athlete"] = {a}
    BY <1>1, <1>5 DEF Commits
  <2>2. PICK u \in t.ins["user"], a \in t.ins["athlete"] :
             /\ u.role = "user" /\ a.user = u.id
             /\ t.ins["user"] = {u} /\ t.ins["athlete"] = {a}
    BY <2>1
  <2>3. \A v \in users : v.id # u.id
    BY <2>1, <2>2 DEF PInv, AccountIds
  <2> QED
    BY <1>1, <1>2, <2>1, <2>2, <2>3 DEF Matched
<1>6. CASE t.op = "createAdmin"
  BY <1>1, <1>2, <1>6 DEF Commits, Matched
<1>7. CASE t.op = "setStatus"
  <2>1. /\ db'["athlete"] = athletes
        /\ \A u \in t.ins["user"] : \E v \in t.del["user"] : v.id = u.id /\ v.role = u.role
        /\ \A v \in t.del["user"] : \E u \in t.ins["user"] : u.id = v.id /\ u.role = v.role
    BY <1>1, <1>7 DEF Commits
  <2>2. \A u \in db'["user"] : \E v \in users : v.id = u.id /\ v.role = u.role
    BY <1>1, <1>3, <2>1
  <2>3. \A v \in users : \E u \in db'["user"] : u.id = v.id /\ u.role = v.role
    BY <1>1, <2>1
  <2> QED
    BY <1>2, <2>1, <2>2, <2>3 DEF Matched
<1>8. CASE t.op = "update"
  <2>1. /\ db'["user"] = users
        /\ \A a \in t.del["athlete"] : \E b \in t.ins["athlete"] : b.user = a.user
        /\ \A b \in t.ins["athlete"] : \E a \in t.del["athlete"] : a.user = b.user
    BY <1>1, <1>8 DEF Commits
  <2>2. \A b \in db'["athlete"] : \E a \in athletes : a.user = b.user
    BY <1>1, <1>3, <2>1
  <2>3. \A a \in athletes : \E b \in db'["athlete"] : b.user = a.user
    BY <1>1, <2>1
  <2>4. ASSUME NEW a \in athletes \ t.del["athlete"], NEW b \in t.ins["athlete"]
        PROVE  a.user # b.user
    BY <1>2, <1>3, <2>1
  <2>5. \A a, b \in db'["athlete"] : a.user = b.user => a = b
    BY <1>1, <1>2, <1>4, <2>4
  <2> QED
    BY <1>2, <2>1, <2>2, <2>3, <2>5 DEF Matched
<1>9. CASE t.op = "delete"
  <2>1. /\ t.ins["user"] = {} /\ t.ins["athlete"] = {}
        /\ \A a \in t.del["athlete"] : \E v \in t.del["user"] : v.id = a.user
        /\ Doomed(c, "athlete") = {}
    BY <1>1, <1>9 DEF Commits
  <2>2. ASSUME NEW a \in athletes \ t.del["athlete"], NEW v \in t.del["user"]
        PROVE  v.id # a.user
    BY <2>1 DEF Doomed, Visible, Gone
  <2>3. ASSUME NEW a \in t.del["athlete"], NEW u \in users \ t.del["user"]
        PROVE  u.id # a.user
    BY <1>3, <1>4, <2>1
  <2> QED
    BY <1>1, <1>2, <2>1, <2>2, <2>3 DEF Matched
<1>10. CASE t.op \notin {"create", "createAdmin", "setStatus", "update", "delete"}
  BY <1>1, <1>2, <1>10 DEF Commits, Matched
<1> QED
  BY <1>5, <1>6, <1>7, <1>8, <1>9, <1>10

LEMMA CommitPInv ==
  ASSUME NobodyPurges, PInv, NEW c \in Clients, Commit(c)
  PROVE  PInv'
<1>1. IInv'
  BY CommitKeeps DEF PInv
<1>2. AccountsInv'
  <2>1. tx'[c] = NoTx /\ \A d \in Clients \ {c} : tx'[d] = tx[d]
    BY CommitsOf
  <2>2. AccountProgress(NoTx)
    BY NoTxRows DEF AccountProgress
  <2> QED
    BY <2>1, <2>2 DEF PInv, AccountsInv
<1> QED
  BY <1>1, <1>2, CommitAccountIds, CommitBesides, CommitMatched DEF PInv

-----------------------------------------------------------------------------
(* Steps that leave accounts and profiles alone                            *)

\* All of c's transaction, one statement further.
LEMMA Forward ==
  ASSUME PInv, NEW c \in Clients, NEW t \in Transactions, Advance(c, t)
  PROVE  /\ tx'[c].op = t.op /\ tx'[c].at = t.at + 1 /\ tx'[c].pk = t.pk
         /\ tx'[c].ins = t.ins /\ tx'[c].del = t.del /\ tx'[c].seen = t.seen
         /\ tx'[c].email = t.email /\ tx'[c].license = t.license /\ tx'[c].alone = t.alone
         /\ \A d \in Clients \ {c} : tx'[d] = tx[d]
<1>1. tx'[c] = [t EXCEPT !.at = t.at + 1] /\ \A d \in Clients \ {c} : tx'[d] = tx[d]
  BY DEF Advance, PInv, IInv, TypeInv
<1> QED
  BY <1>1 DEF Transactions

\* c's request does not write accounts or profiles, nor does it pass the
\* statement that does.
Same(c) ==
  /\ tx[c].op # "none" /\ tx'[c].op = tx[c].op
  /\ tx'[c].pk = tx[c].pk /\ seq'["user"] = seq["user"]
  /\ \A t \in {"user", "athlete"} : tx'[c].ins[t] = tx[c].ins[t] /\ tx'[c].del[t] = tx[c].del[t]
  /\ \A d \in Clients \ {c} : tx'[d].pk = tx[d].pk
  /\ tx[c].at <= tx'[c].at
  /\ tx[c].op = "create" => tx'[c].at <= 5
  /\ tx[c].op = "createAdmin" => tx'[c].at <= 4
  /\ tx[c].op = "setStatus" => tx'[c].at <= 2
  /\ tx[c].op = "update" => tx'[c].at <= 4
  /\ tx[c].op = "delete" => tx'[c].at <= 3 \/ Doomed(c, "athlete") = {}

LEMMA SameSettles ==
  ASSUME PInv, NEW c \in Clients, Good(c), Same(c)
  PROVE  Settles(c)
<1>1. AccountProgress(tx[c]) /\ tx[c].at \in Nat /\ tx'[c].at \in Nat
  BY DEF PInv, AccountsInv, IInv, Good, TypeInv, Transactions
<1>2. AccountProgress(tx'[c])
  BY <1>1 DEF AccountProgress, Same
<1>3. seq["user"] <= seq'["user"] /\ \A u \in tx[c].ins["user"] : u.id <= seq["user"]
  BY AccountTypes DEF PInv, IInv, AccountIds, Same
<1>4. db' = db
  BY DEF Good, Work
<1>5. tx'[c].op = "delete" /\ tx'[c].at = 4 => Doomed(c, "athlete")' = {}
  <2>1. Doomed(c, "athlete")' = Doomed(c, "athlete")
    BY <1>4 DEF Doomed, Visible, Gone, Same
  <2> QED
    BY <1>1, <2>1 DEF Same
<1> QED
  BY <1>2, <1>3, <1>5 DEF Settles, Same

\* The usual case: it goes on with t.
Like(c, t) ==
  /\ t \in Transactions /\ t.op = tx[c].op /\ t.pk = tx[c].pk
  /\ \A u \in {"user", "athlete"} : t.ins[u] = tx[c].ins[u] /\ t.del[u] = tx[c].del[u]
  /\ tx[c].at <= t.at
  /\ t.op = "create" => t.at <= 4
  /\ t.op = "createAdmin" => t.at <= 3
  /\ t.op = "setStatus" => t.at = 1
  /\ t.op = "update" => t.at <= 3
  /\ t.op = "delete" => t.at <= 2 \/ Doomed(c, "athlete") = {}

LEMMA LikeSettles ==
  ASSUME PInv, NEW c \in Clients, Busy(c), Good(c), NEW t, Like(c, t), Advance(c, t),
         seq'["user"] = seq["user"]
  PROVE  Settles(c)
<1>1. t.at \in Nat /\ tx[c].at \in Nat
  BY DEF Like, Transactions, PInv, IInv, TypeInv
<1>2. /\ tx'[c].op = t.op /\ tx'[c].at = t.at + 1 /\ tx'[c].pk = t.pk
      /\ tx'[c].ins = t.ins /\ tx'[c].del = t.del
      /\ \A d \in Clients \ {c} : tx'[d] = tx[d]
  BY Forward DEF Like
<1>3. Same(c)
  BY <1>1, <1>2 DEF Same, Like, Busy
<1> QED
  BY <1>3, SameSettles

LEMMA AbortSettles ==
  ASSUME PInv, NEW c \in Clients, NEW how \in {"none", "refused", "error"}, Abort(c, how)
  PROVE  Settles(c) /\ Good(c)
<1>1. Good(c)
  BY Aborting DEF PInv, IInv
<1>2. tx'[c] = NoTx /\ seq' = seq /\ \A d \in Clients \ {c} : tx'[d] = tx[d]
  BY DEF Abort, PInv, IInv, TypeInv
<1>3. AccountProgress(NoTx)
  BY NoTxRows DEF AccountProgress
<1>4. seq["user"] \in Nat
  BY AccountTypes DEF PInv, IInv
<1> QED
  BY <1>1, <1>2, <1>3, <1>4, NoTxRows DEF Settles

LEMMA StartSettles ==
  ASSUME PInv, NEW c \in Clients, NEW op \in Operations, Start(c, op)
  PROVE  Settles(c) /\ Good(c)
<1>1. Good(c)
  BY StartGood DEF PInv
<1>2. PICK e \in EmailsFor(op), l \in LicensesFor(op), i \in IdsFor(op), on \in StatusesFor(op) :
        tx' = [d \in Clients |->
                 IF d = c THEN [NoTx EXCEPT !.op = op, !.email = e, !.license = l, !.pk = i,
                                            !.on = on, !.alone = \A f \in Clients : ~Busy(f)]
                 ELSE IF Busy(d) THEN [tx[d] EXCEPT !.alone = FALSE] ELSE tx[d]]
  BY DEF Start
<1>3. /\ tx'[c].op = op /\ tx'[c].at = 1
      /\ \A t \in {"user", "athlete"} : tx'[c].ins[t] = {} /\ tx'[c].del[t] = {}
  <2> DEFINE n == [NoTx EXCEPT !.op = op, !.email = e, !.license = l, !.pk = i, !.on = on,
                               !.alone = \A f \in Clients : ~Busy(f)]
  <2>1. tx'[c] = n
    BY <1>2
  <2>2. n.op = op /\ n.at = NoTx.at /\ n.ins = NoTx.ins /\ n.del = NoTx.del
    BY NoTxType DEF Transactions
  <2> HIDE DEF n
  <2> QED
    BY <2>1, <2>2, NoTxType, NoTxRows
<1>4. \A d \in Clients \ {c} : tx'[d].pk = tx[d].pk
  <2>1. \A d \in Clients \ {c} : tx'[d] = [tx[d] EXCEPT !.alone = FALSE] \/ tx'[d] = tx[d]
    BY <1>2
  <2>2. \A d \in Clients : tx[d] \in Transactions
    BY DEF PInv, IInv, TypeInv
  <2> QED
    BY <2>1, <2>2 DEF Transactions
<1>5. AccountProgress(tx'[c])
  BY <1>3 DEF AccountProgress
<1>6. seq' = seq /\ seq["user"] \in Nat
  BY AccountTypes DEF PInv, IInv, Start
<1> QED
  BY <1>1, <1>3, <1>4, <1>5, <1>6 DEF Settles

LEMMA QueriesSettle ==
  ASSUME NobodyPurges, PInv, NEW c \in Clients,
         \/ FreeEmail(c) \/ FreeLicense(c) \/ GetUserRole(c) \/ GetAdminRole(c)
         \/ FindAthlete(c) \/ FindPerformance(c) \/ ScanUsers(c) \/ ScanAthletes(c)
  PROVE  Settles(c) /\ Good(c)
<1>1. Busy(c) /\ Good(c)
  BY QueriesGood
  DEF PInv, FreeEmail, FreeLicense, GetUserRole, GetAdminRole, FindAthlete, FindPerformance,
      ScanUsers, ScanAthletes, At
<1>2. Places(c) /\ tx[c].op \in Operations /\ tx[c] \in Transactions
  BY <1>1, OpenPlaces DEF PInv, IInv, TypeInv
<1>3. ASSUME Abort(c, "refused") PROVE Settles(c)
  BY <1>3, AbortSettles
<1>4. ASSUME NEW t, Like(c, t), Proceed(c, t) PROVE Settles(c)
  BY <1>1, <1>4, LikeSettles DEF Proceed
<1>5. tx[c].at \in Nat
  BY <1>2 DEF Transactions
<1>6. CASE FreeEmail(c)
  <2>1. Is(c, "create", 1) \/ Is(c, "createAdmin", 1)
    BY <1>2, <1>6 DEF Places, FreeEmail
  <2>2. Like(c, tx[c])
    BY <1>2, <2>1 DEF Like, Is
  <2> QED
    BY <1>1, <1>3, <1>4, <1>6, <2>2 DEF FreeEmail
<1>7. CASE FreeLicense(c)
  <2>1. Is(c, "create", 2) \/ Is(c, "update", 2)
    BY <1>2, <1>7 DEF Places, FreeLicense
  <2>2. Like(c, tx[c])
    BY <1>2, <2>1 DEF Like, Is
  <2> QED
    BY <1>1, <1>3, <1>4, <1>7, <2>2 DEF FreeLicense
<1>8. CASE GetUserRole(c) \/ GetAdminRole(c)
  <2>1. Is(c, "create", 3) \/ Is(c, "createAdmin", 2)
    BY <1>2, <1>8 DEF Places, GetUserRole, GetAdminRole, NobodyPurges, Is
  <2> DEFINE t == [tx[c] EXCEPT !.at = @ + 1]
  <2>2. Like(c, tx[c])
    BY <1>2, <2>1 DEF Like, Is
  <2>3. /\ t \in Transactions /\ t.at = tx[c].at + 1 /\ t.op = tx[c].op /\ t.pk = tx[c].pk
        /\ t.ins = tx[c].ins /\ t.del = tx[c].del
    BY <1>2 DEF Transactions
  <2>4. Skip(c) => Proceed(c, t)
    BY DEF Skip
  <2> HIDE DEF t
  <2>5. Like(c, t)
    BY <2>1, <2>3 DEF Like, Is
  <2> QED
    BY <1>1, <1>4, <1>8, <2>2, <2>4, <2>5 DEF GetUserRole, GetAdminRole, GetRole
<1>9. CASE FindAthlete(c)
  <2>1. CASE Abort(c, "refused")
    BY <1>1, <1>3, <2>1
  <2>2. CASE \E a \in Visible(c, "athlete") :
               a.id = tx[c].pk /\ Proceed(c, [tx[c] EXCEPT !.seen = a, !.todo = {a.user}])
    <3>1. PICK a \in Visible(c, "athlete") :
                 Proceed(c, [tx[c] EXCEPT !.seen = a, !.todo = {a.user}])
      BY <2>2
    <3>2. a \in Rows("athlete") /\ a.user \in Nat
      <4>1. /\ db["athlete"] \subseteq Rows("athlete")
            /\ tx[c].ins["athlete"] \subseteq Rows("athlete")
        BY <1>2, RowsOf DEF PInv, IInv, TypeInv, Transactions, Tables
      <4> QED
        BY <4>1, AthleteRows DEF Visible
    <3> DEFINE t == [tx[c] EXCEPT !.seen = a, !.todo = {a.user}]
    <3>3. /\ t \in Transactions /\ t.at = tx[c].at /\ t.op = tx[c].op /\ t.pk = tx[c].pk
          /\ t.ins = tx[c].ins /\ t.del = tx[c].del
      BY <1>2, <3>2 DEF Transactions
    <3>4. \E op \in {"update", "setStatus", "delete", "record"} : Is(c, op, 1)
      BY <1>2, <1>9 DEF Places, FindAthlete
    <3> HIDE DEF t
    <3>5. Like(c, t)
      BY <3>3, <3>4 DEF Like, Is
    <3> QED
      BY <1>1, <1>4, <3>1, <3>5 DEF t
  <2> QED
    BY <1>9, <2>1, <2>2 DEF FindAthlete
<1>10. CASE FindPerformance(c) \/ ScanUsers(c) \/ ScanAthletes(c)
  <2>1. Is(c, "amend", 1) \/ Is(c, "discard", 1)
    BY <1>2, <1>10 DEF Places, FindPerformance, ScanUsers, ScanAthletes, NobodyPurges, Is
  <2>2. FindPerformance(c)
    <3>1. ~ScanUsers(c) /\ ~ScanAthletes(c)
      BY <1>2, <2>1 DEF Places, ScanUsers, ScanAthletes, Is
    <3> QED
      BY <1>10, <3>1
  <2> DEFINE t == [tx[c] EXCEPT !.todo = {tx[c].pk}]
  <2>3. /\ t \in Transactions /\ t.at = tx[c].at /\ t.op = tx[c].op /\ t.pk = tx[c].pk
        /\ t.ins = tx[c].ins /\ t.del = tx[c].del
    BY <1>2 DEF Transactions
  <2>4. Abort(c, "refused") \/ Proceed(c, t)
    BY <2>2 DEF FindPerformance
  <2> HIDE DEF t
  <2>5. Like(c, t)
    BY <2>1, <2>3 DEF Like, Is
  <2> QED
    BY <1>1, <1>3, <1>4, <2>4, <2>5
<1> QED
  BY <1>6, <1>7, <1>8, <1>9, <1>10, <1>1

-----------------------------------------------------------------------------
(* Inserts                                                                 *)

\* The insert has succeeded, and n is c's transaction with the row.
Inserted(c, t, row, n) ==
  /\ Advance(c, n) /\ db' = db
  /\ seq' = IF t \in Numbered THEN [seq EXCEPT ![t] = @ + 1] ELSE seq
  /\ n.op = tx[c].op /\ n.at = tx[c].at
  /\ n.pk = IF t \in Numbered THEN row.id ELSE tx[c].pk
  /\ n.email = tx[c].email /\ n.license = tx[c].license /\ n.alone = tx[c].alone
  /\ n.on = tx[c].on /\ n.seen = tx[c].seen /\ n.todo = tx[c].todo
  /\ n.del = tx[c].del
  /\ n.ins[t] = tx[c].ins[t] \cup {row}
  /\ \A u \in Tables \ {t} : n.ins[u] = tx[c].ins[u]

LEMMA Inserting ==
  ASSUME PInv, NEW c \in Clients, NEW t \in Tables, NEW row \in Rows(t), Insert(c, t, row),
         ~Abort(c, "error")
  PROVE  \E n \in Transactions : Inserted(c, t, row, n)
<1>1. tx[c] \in Transactions /\ tx[c].pk \in Nat
  BY DEF PInv, IInv, TypeInv, Transactions
<1> DEFINE p == IF t \in Numbered THEN row.id ELSE tx[c].pk
           n == [tx[c] EXCEPT !.ins[t] = @ \cup {row}, !.pk = p]
<1>2. /\ Advance(c, n) /\ db' = db
      /\ seq' = IF t \in Numbered THEN [seq EXCEPT ![t] = @ + 1] ELSE seq
  BY DEF Insert
<1>3. p \in Nat
  BY <1>1 DEF Rows, Numbered
<1>4. p = IF t \in Numbered THEN row.id ELSE tx[c].pk
  OBVIOUS
<1> HIDE DEF p
<1> DEFINE x == tx[c]
<1>5. n = [x EXCEPT !.ins[t] = @ \cup {row}, !.pk = p] /\ x \in Transactions
  BY <1>1
<1> HIDE DEF n, x
<1>6. n \in Transactions
  BY <1>3, <1>5, Written
<1>7. /\ n.op = x.op /\ n.at = x.at /\ n.pk = p /\ n.del = x.del
      /\ n.email = x.email /\ n.license = x.license /\ n.alone = x.alone
      /\ n.on = x.on /\ n.seen = x.seen /\ n.todo = x.todo
      /\ n.ins = [x.ins EXCEPT ![t] = x.ins[t] \cup {row}]
  BY <1>5 DEF Transactions
<1>8. n.ins[t] = x.ins[t] \cup {row} /\ \A u \in Tables \ {t} : n.ins[u] = x.ins[u]
  <2>1. x.ins \in RowSets
    BY <1>5 DEF Transactions
  <2> QED
    BY <1>7, <2>1 DEF RowSets
<1> QED
  BY <1>2, <1>4, <1>6, <1>7, <1>8 DEF x, Inserted

LEMMA AddRoleSettles ==
  ASSUME NobodyPurges, PInv, NEW c \in Clients, AddUserRole(c) \/ AddAdminRole(c)
  PROVE  Settles(c) /\ Good(c)
<1>1. Busy(c) /\ Good(c)
  BY RolesAndAccountsGood DEF PInv, AddUserRole, AddAdminRole, At
<1>2. Places(c) /\ tx[c].op \in Operations /\ tx[c] \in Transactions
  BY <1>1, OpenPlaces DEF PInv, IInv, TypeInv
<1>3. Is(c, "create", 4) \/ Is(c, "createAdmin", 3)
  BY <1>2 DEF Places, AddUserRole, AddAdminRole, NobodyPurges, Is
<1>4. PICK row \in Rows("role") : Insert(c, "role", row)
  BY DEF AddUserRole, AddAdminRole, Rows
<1>5. CASE Abort(c, "error")
  BY <1>5, AbortSettles
<1>6. CASE ~Abort(c, "error")
  <2>1. "role" \in Tables /\ "role" \notin Numbered
    BY DEF Tables, Numbered
  <2>2. PICK n \in Transactions : Inserted(c, "role", row, n)
    BY <1>4, <1>6, <2>1, Inserting, Zenon
  <2>3. Like(c, n)
    <3>1. n.at \in Nat
      BY DEF Transactions
    <3> QED
      BY <1>3, <2>1, <2>2, <3>1 DEF Like, Is, Tables, Inserted
  <2> QED
    BY <1>1, <2>1, <2>2, <2>3, LikeSettles DEF Inserted
<1> QED
  BY <1>5, <1>6

\* The account that AddUser or AddAdmin writes has an id of its own.
LEMMA AddAccountSettles ==
  ASSUME NobodyPurges, PInv, NEW c \in Clients, AddUser(c) \/ AddAdmin(c)
  PROVE  Settles(c) /\ Good(c)
<1>1. Busy(c) /\ Good(c)
  BY RolesAndAccountsGood DEF PInv, AddUser, AddAdmin, At
<1>2. Places(c) /\ tx[c].op \in Operations /\ tx[c] \in Transactions /\ Progress(tx[c])
  BY <1>1, OpenPlaces DEF PInv, IInv, TypeInv, ProgressInv
<1>3. \/ AddUser(c) /\ Is(c, "create", 5)
      \/ AddAdmin(c) /\ Is(c, "createAdmin", 4)
  BY <1>2 DEF Places, AddUser, AddAdmin, NobodyPurges, Is
<1>4. seq["user"] \in Nat /\ "user" \in Tables /\ "user" \in Numbered
      /\ "athlete" \in Tables \ {"user"} /\ tx[c].ins["user"] = {} /\ AccountProgress(tx[c])
      /\ tx[c].email \in Mails
  BY <1>2, <1>3, AccountTypes
  DEF PInv, IInv, AccountsInv, AccountProgress, Is, Tables, Numbered, Progress
<1>5. PICK row \in Rows("user") :
             /\ Insert(c, "user", row) /\ row.id = seq["user"] + 1
             /\ row.role = IF AddUser(c) /\ Is(c, "create", 5) THEN "user" ELSE "admin"
  <2>1. CASE AddUser(c) /\ Is(c, "create", 5)
    <3> DEFINE row == [id |-> seq["user"] + 1, email |-> tx[c].email, role |-> "user",
                       active |-> TRUE]
    <3>1. Insert(c, "user", row)
      BY <2>1 DEF AddUser
    <3>2. row \in Rows("user") /\ row.id = seq["user"] + 1 /\ row.role = "user"
      BY <1>4 DEF Rows, Mails
    <3> HIDE DEF row
    <3> QED
      BY <2>1, <3>1, <3>2
  <2>2. CASE AddAdmin(c) /\ Is(c, "createAdmin", 4)
    <3> DEFINE row == [id |-> seq["user"] + 1, role |-> "admin", active |-> TRUE,
                       email |-> IF tx[c].op = "seed" THEN AdminEmail ELSE tx[c].email]
    <3>1. Insert(c, "user", row)
      BY <2>2 DEF AddAdmin, AdminAddress
    <3>2. row \in Rows("user") /\ row.id = seq["user"] + 1 /\ row.role = "admin"
      BY <1>4 DEF Rows, Mails
    <3> HIDE DEF row
    <3> QED
      BY <2>2, <3>1, <3>2 DEF Is
  <2> QED
    BY <1>3, <2>1, <2>2
<1>6. CASE Abort(c, "error")
  BY <1>6, AbortSettles
<1>7. CASE ~Abort(c, "error")
  <2>1. PICK n \in Transactions : Inserted(c, "user", row, n)
    BY <1>4, <1>5, <1>7, Inserting, Zenon
  <2>2. /\ tx'[c].op = tx[c].op /\ tx'[c].at = tx[c].at + 1 /\ tx'[c].pk = row.id
        /\ tx'[c].del = tx[c].del /\ tx'[c].ins["user"] = {row}
        /\ \A d \in Clients \ {c} : tx'[d] = tx[d]
    BY <1>4, <2>1, Forward DEF Inserted
  <2>3. seq'["user"] = seq["user"] + 1
    BY <1>4, <2>1 DEF PInv, IInv, TypeInv, Inserted
  <2>4. AccountProgress(tx'[c])
    <3>1. CASE AddUser(c) /\ Is(c, "create", 5)
      BY <1>4, <1>5, <2>2, <3>1 DEF AccountProgress, Is
    <3>2. CASE AddAdmin(c) /\ Is(c, "createAdmin", 4)
      BY <1>4, <1>5, <2>2, <3>2 DEF AccountProgress, Is
    <3> QED
      BY <1>3, <3>1, <3>2
  <2>5. tx'[c].op # "delete"
    BY <1>3, <2>2 DEF Is
  <2> QED
    BY <1>1, <1>4, <1>5, <2>2, <2>3, <2>4, <2>5 DEF Settles
<1> QED
  BY <1>6, <1>7

LEMMA AddAthleteSettles ==
  ASSUME NobodyPurges, PInv, NEW c \in Clients, AddAthlete(c)
  PROVE  Settles(c) /\ Good(c)
<1> DEFINE row == [id |-> seq["athlete"] + 1, user |-> tx[c].pk, license |-> tx[c].license]
<1>1. Busy(c) /\ Good(c)
  BY AddAthleteGood DEF PInv, AddAthlete, At
<1>2. Places(c) /\ tx[c].op \in Operations /\ tx[c] \in Transactions /\ Progress(tx[c])
  BY <1>1, OpenPlaces DEF PInv, IInv, TypeInv, ProgressInv
<1>3. Is(c, "create", 6)
  BY <1>2 DEF Places, AddAthlete, NobodyPurges, Is
<1>4. /\ seq["user"] \in Nat /\ seq["athlete"] \in Nat
      /\ "athlete" \in Tables /\ "athlete" \in Numbered /\ "user" \in Tables \ {"athlete"}
      /\ tx[c].ins["athlete"] = {} /\ AccountProgress(tx[c])
      /\ tx[c].license \in Plates /\ tx[c].pk \in Nat
  BY <1>2, <1>3, AccountTypes
  DEF PInv, IInv, AccountsInv, TypeInv, Is, Tables, Numbered, Progress, Transactions
<1>5. row \in Rows("athlete") /\ row.user = tx[c].pk
  BY <1>4 DEF Rows, Plates
<1>6. Insert(c, "athlete", row)
  BY DEF AddAthlete
<1> HIDE DEF row
<1>7. CASE Abort(c, "error")
  BY <1>7, AbortSettles
<1>8. CASE ~Abort(c, "error")
  <2>1. PICK n \in Transactions : Inserted(c, "athlete", row, n)
    BY <1>4, <1>5, <1>6, <1>8, Inserting, Zenon
  <2>2. /\ tx'[c].op = "create" /\ tx'[c].at = 7
        /\ tx'[c].del = tx[c].del /\ tx'[c].ins["athlete"] = {row}
        /\ tx'[c].ins["user"] = tx[c].ins["user"]
        /\ \A d \in Clients \ {c} : tx'[d] = tx[d]
    BY <1>3, <1>4, <2>1, Forward DEF Is, Inserted
  <2>3. seq'["user"] = seq["user"]
    BY <1>4, <2>1 DEF PInv, IInv, TypeInv, Numbered, Inserted
  <2>4. AccountProgress(tx'[c])
    BY <1>3, <1>4, <1>5, <2>2 DEF AccountProgress, Is
  <2>5. \A u \in tx[c].ins["user"] : u.id <= seq["user"]
    BY DEF PInv, AccountIds
  <2> QED
    BY <1>1, <1>4, <2>2, <2>3, <2>4, <2>5 DEF Settles
<1> QED
  BY <1>7, <1>8

-----------------------------------------------------------------------------
(* Updates                                                                 *)

LEMMA LockAthleteSettles ==
  ASSUME PInv, NEW c \in Clients, LockAthlete(c)
  PROVE  Settles(c) /\ Good(c)
<1> DEFINE x == tx[c]
<1>1. Busy(c) /\ Good(c)
  BY LockAthleteGood DEF PInv, LockAthlete, At
<1>2. /\ Places(c) /\ TypeInv /\ x \in Transactions /\ Progress(x) /\ AccountProgress(x)
      /\ x.ins \in RowSets /\ x.del \in RowSets
      /\ "athlete" \in Tables /\ "user" \in Tables /\ seq["user"] \in Nat
  BY <1>1, OpenFacts, AccountTypes DEF PInv, IInv, Transactions, Tables, AccountsInv
<1>3. /\ x.op = "update" /\ x.at = 3
      /\ x.ins["athlete"] = {} /\ x.del["athlete"] = {}
      /\ x.ins["user"] = {} /\ x.del["user"] = {}
  <2>1. Is(c, "update", 3)
    BY <1>2 DEF Places, LockAthlete
  <2> QED
    BY <1>2, <2>1 DEF Is, Progress, AccountProgress
<1>4. ASSUME NEW n \in Transactions, Proceed(c, n), n.op = "update", n.at \in {3, 4},
             n.ins["user"] = {}, n.del["user"] = {},
             n.at = 4 => n.ins["athlete"] = n.del["athlete"]
      PROVE  Settles(c)
  <2>1. /\ tx'[c].op = "update" /\ tx'[c].at = n.at + 1
        /\ tx'[c].ins = n.ins /\ tx'[c].del = n.del
        /\ \A d \in Clients \ {c} : tx'[d] = tx[d]
    BY <1>4, Forward DEF Proceed
  <2>2. AccountProgress(tx'[c])
    BY <1>4, <2>1 DEF AccountProgress
  <2>3. seq' = seq
    BY <1>4 DEF Proceed
  <2> QED
    BY <1>2, <1>4, <2>1, <2>2, <2>3 DEF Settles
<1>5. CASE Skip(c)
  <2> DEFINE n == [x EXCEPT !.at = x.at + 1]
  <2>1. Proceed(c, n)
    BY <1>5 DEF Skip
  <2>2. n \in Transactions /\ n.op = "update" /\ n.at = 4 /\ n.ins = x.ins /\ n.del = x.del
    BY <1>2, <1>3 DEF Transactions
  <2> HIDE DEF n
  <2> QED
    BY <1>1, <1>3, <1>4, <2>1, <2>2
<1>6. ASSUME NEW a \in Visible(c, "athlete"),
             \/ Proceed(c, [x EXCEPT !.at = @ + 1, !.del["athlete"] = {a}, !.ins["athlete"] = {a}])
             \/ Proceed(c, [x EXCEPT !.seen = a, !.del["athlete"] = {a}])
      PROVE  Settles(c)
  <2>1. a \in Rows("athlete")
    <3>1. a \in db["athlete"]
      BY <1>3, <1>6 DEF Visible
    <3> QED
      BY <1>2, <3>1, RowsOf DEF TypeInv
  <2> DEFINE del == [x.del EXCEPT !["athlete"] = {a}]
             ins == [x.ins EXCEPT !["athlete"] = {a}]
             far == [x EXCEPT !.at = x.at + 1, !.del = del, !.ins = ins]
             near == [x EXCEPT !.seen = a, !.del = del]
  <2>2. Proceed(c, far) \/ Proceed(c, near)
    BY <1>6
  <2>3. /\ ins = [x.ins EXCEPT !["athlete"] = {a}] /\ del = [x.del EXCEPT !["athlete"] = {a}]
        /\ {a} \in SUBSET Rows("athlete")
    BY <2>1
  <2>4. ins["athlete"] = {a} /\ del["athlete"] = {a} /\ ins["user"] = {} /\ del["user"] = {}
    BY <1>2, <1>3 DEF RowSets
  <2> HIDE DEF ins, del, far, near
  <2>5. ins \in RowSets /\ del \in RowSets
    BY <1>2, <2>3, RowsChanged
  <2>6. /\ far \in Transactions /\ far.op = x.op /\ far.at = x.at + 1
        /\ far.ins = ins /\ far.del = del
    <3>1. x.at + 1 \in Nat
      BY <1>3
    <3> HIDE DEF x
    <3> QED
      BY <1>2, <2>5, <3>1 DEF Transactions, far
  <2>7. /\ near \in Transactions /\ near.op = x.op /\ near.at = x.at
        /\ near.ins = x.ins /\ near.del = del
    <3> HIDE DEF x
    <3> QED
      BY <1>2, <2>1, <2>5 DEF Transactions, near
  <2>8. CASE Proceed(c, far)
    <3>1. /\ far.op = "update" /\ far.at = 4 /\ far.ins["user"] = {} /\ far.del["user"] = {}
          /\ far.ins["athlete"] = far.del["athlete"]
      BY <1>3, <2>4, <2>6
    <3> QED
      BY <1>4, <2>6, <2>8, <3>1
  <2>9. CASE Proceed(c, near)
    BY <1>3, <1>4, <2>4, <2>7, <2>9
  <2> QED
    BY <2>2, <2>8, <2>9
<1> QED
  BY <1>1, <1>5, <1>6 DEF LockAthlete

\* The new version of an athlete is of the same account.
LEMMA WriteAthleteSettles ==
  ASSUME PInv, NEW c \in Clients, WriteAthlete(c)
  PROVE  Settles(c) /\ Good(c)
<1> DEFINE x == tx[c]
           row == [x.seen EXCEPT !.license = x.license]
<1>1. Busy(c) /\ Good(c)
  BY WriteAthleteGood DEF PInv, WriteAthlete, At
<1>2. /\ Places(c) /\ TypeInv /\ x \in Transactions /\ Progress(x) /\ AccountProgress(x)
      /\ x.ins \in RowSets /\ seq["user"] \in Nat
      /\ "athlete" \in Tables /\ "user" \in Tables
  BY <1>1, OpenFacts, AccountTypes DEF PInv, IInv, Transactions, Tables, AccountsInv
<1>3. /\ x.op = "update" /\ x.at = 4 /\ x.seen \in Rows("athlete") /\ x.license \in Plates
      /\ x.del["athlete"] = {x.seen}
      /\ x.ins["user"] = {} /\ x.del["user"] = {}
  <2>1. Is(c, "update", 4)
    BY <1>2 DEF Places, WriteAthlete
  <2> QED
    BY <1>2, <2>1 DEF Is, Progress, AccountProgress
<1>4. row \in Rows("athlete") /\ row.user = x.seen.user
  BY <1>3 DEF Rows, Plates
<1>5. CASE Abort(c, "error")
  BY <1>5, AbortSettles
<1>6. CASE Proceed(c, [x EXCEPT !.ins["athlete"] = {row}])
  <2> HIDE DEF row
  <2> DEFINE ins == [x.ins EXCEPT !["athlete"] = {row}]
             n == [x EXCEPT !.ins = ins]
  <2>1. Proceed(c, n)
    BY <1>6
  <2>2. ins = [x.ins EXCEPT !["athlete"] = {row}] /\ {row} \in SUBSET Rows("athlete")
    BY <1>4
  <2>3. ins["athlete"] = {row} /\ ins["user"] = {}
    BY <1>2, <1>3 DEF RowSets
  <2> HIDE DEF ins, n
  <2>4. ins \in RowSets
    BY <1>2, <2>2, RowsChanged
  <2>5. n \in Transactions /\ n.op = x.op /\ n.at = x.at /\ n.ins = ins /\ n.del = x.del
    BY <1>2, <2>4 DEF Transactions, n
  <2>6. /\ tx'[c].op = "update" /\ tx'[c].at = 5
        /\ tx'[c].ins["athlete"] = {row} /\ tx'[c].del["athlete"] = {x.seen}
        /\ tx'[c].ins["user"] = {} /\ tx'[c].del["user"] = {}
        /\ \A d \in Clients \ {c} : tx'[d] = tx[d]
    BY <1>3, <2>1, <2>3, <2>5, Forward DEF Proceed
  <2>7. AccountProgress(tx'[c])
    BY <1>4, <2>6 DEF AccountProgress
  <2>8. seq' = seq
    BY <2>1 DEF Proceed
  <2> QED
    BY <1>1, <1>2, <2>6, <2>7, <2>8 DEF Settles
<1> QED
  BY <1>5, <1>6 DEF WriteAthlete

\* The new version of an account keeps its id and its role.
LEMMA WriteUserSettles ==
  ASSUME PInv, NEW c \in Clients, WriteUser(c)
  PROVE  Settles(c) /\ Good(c)
<1> DEFINE x == tx[c]
<1>1. Busy(c) /\ Good(c)
  BY WriteUserGood DEF PInv, WriteUser, At
<1>2. /\ Places(c) /\ TypeInv /\ x \in Transactions /\ AccountProgress(x)
      /\ x.ins \in RowSets /\ x.del \in RowSets /\ "user" \in Tables /\ seq["user"] \in Nat
  BY <1>1, OpenFacts, AccountTypes DEF PInv, IInv, Transactions, Tables, AccountsInv
<1>3. Is(c, "setStatus", 2)
  BY <1>2 DEF Places, WriteUser
<1>4. x.op = "setStatus" /\ x.at = 2 /\ x.ins["user"] = {} /\ x.del["user"] = {}
  BY <1>2, <1>3 DEF Is, AccountProgress
<1>5. CASE Proceed(c, x)
  <2>1. /\ tx'[c].op = "setStatus" /\ tx'[c].at = 3
        /\ tx'[c].ins["user"] = {} /\ tx'[c].del["user"] = {}
        /\ seq' = seq /\ \A d \in Clients \ {c} : tx'[d] = tx[d]
    BY <1>2, <1>4, <1>5, Forward DEF Proceed
  <2>2. AccountProgress(tx'[c])
    BY <2>1 DEF AccountProgress
  <2> QED
    BY <1>1, <1>2, <2>1, <2>2 DEF Settles
<1>6. ASSUME NEW u \in Visible(c, "user"), Overwrite(c, "user", u, [u EXCEPT !.active = x.on])
      PROVE  Settles(c)
  <2> DEFINE v == [u EXCEPT !.active = x.on]
             ins == [x.ins EXCEPT !["user"] = x.ins["user"] \cup {v}]
             del == [x.del EXCEPT !["user"] = x.del["user"] \cup {u}]
             n == [x EXCEPT !.del = del, !.ins = ins]
  <2>1. Proceed(c, n) /\ ~RowLocked(c, "user", u)
    BY <1>6 DEF Overwrite
  <2>2. u \in db["user"] /\ u \in Rows("user")
    <3>1. u \in db["user"]
      BY <1>4, <1>6 DEF Visible
    <3> QED
      BY <1>2, <3>1, RowsOf DEF TypeInv
  <2>3. v \in Rows("user") /\ v.id = u.id /\ v.role = u.role
    <3>1. x.on \in BOOLEAN
      BY <1>2 DEF Transactions
    <3> QED
      BY <2>2, <3>1 DEF Rows
  <2> HIDE DEF v
  <2>4. /\ ins = [x.ins EXCEPT !["user"] = x.ins["user"] \cup {v}]
        /\ del = [x.del EXCEPT !["user"] = x.del["user"] \cup {u}]
        /\ x.ins["user"] \cup {v} \in SUBSET Rows("user")
        /\ x.del["user"] \cup {u} \in SUBSET Rows("user")
    BY <1>4, <2>2, <2>3
  <2>5. ins["user"] = {v} /\ del["user"] = {u}
    BY <1>2, <1>4 DEF RowSets
  <2> HIDE DEF ins, del, n
  <2>6. ins \in RowSets /\ del \in RowSets
    BY <1>2, <2>4, RowsChanged
  <2>7. n \in Transactions /\ n.op = x.op /\ n.at = x.at /\ n.ins = ins /\ n.del = del
    <3> HIDE DEF x
    <3> QED
      BY <1>2, <2>6 DEF Transactions, n
  <2>8. /\ tx'[c].op = "setStatus" /\ tx'[c].at = 3
        /\ tx'[c].ins["user"] = {v} /\ tx'[c].del["user"] = {u}
        /\ seq' = seq /\ \A d \in Clients \ {c} : tx'[d] = tx[d]
    BY <1>4, <2>1, <2>5, <2>7, Forward DEF Proceed
  <2>9. AccountProgress(tx'[c])
    BY <2>3, <2>8 DEF AccountProgress
  <2>10. v.id <= seq["user"]
    BY <2>2, <2>3 DEF PInv, AccountIds
  <2> QED
    BY <1>2, <2>1, <2>2, <2>3, <2>8, <2>9, <2>10 DEF Settles
<1> QED
  BY <1>1, <1>5, <1>6 DEF WriteUser

-----------------------------------------------------------------------------
(* Results, and deletions                                                  *)

LEMMA ResultsSettle ==
  ASSUME NobodyPurges, PInv, NEW c \in Clients, AddPerformance(c) \/ LockPerformance(c)
  PROVE  Settles(c) /\ Good(c)
<1> DEFINE x == tx[c]
<1>1. Busy(c) /\ Good(c)
  BY AddPerformanceGood, LockPerformanceGood DEF PInv, AddPerformance, LockPerformance, At
<1>2. /\ Places(c) /\ TypeInv /\ x \in Transactions /\ x.op \in Operations
      /\ x.ins \in RowSets /\ x.del \in RowSets /\ seq \in [Numbered -> Nat]
      /\ "performance" \in Tables /\ "athlete" \in Tables /\ "user" \in Tables
  BY <1>1, OpenPlaces DEF PInv, IInv, TypeInv, Transactions, Tables
<1>3. x.op \in {"record", "amend"} /\ x.at = 2
  <2>1. Is(c, "record", 2) \/ Is(c, "amend", 2)
    BY <1>2 DEF Places, AddPerformance, LockPerformance, NobodyPurges, Is
  <2> QED
    BY <2>1 DEF Is
<1>4. CASE Abort(c, "error")
  BY <1>4, AbortSettles
<1>5. CASE Proceed(c, x)
  <2>1. Like(c, x)
    BY <1>2, <1>3 DEF Like
  <2> QED
    BY <1>1, <1>5, <2>1, LikeSettles DEF Proceed
\* Whatever a result adds to c's transaction.
<1>6. ASSUME NEW n \in Transactions, Advance(c, n), seq'["user"] = seq["user"], n.op = x.op,
             n.at = x.at, n.pk = x.pk, n.ins["user"] = x.ins["user"],
             n.del["user"] = x.del["user"], n.ins["athlete"] = x.ins["athlete"],
             n.del["athlete"] = x.del["athlete"]
      PROVE  Settles(c)
  <2>1. Like(c, n)
    BY <1>3, <1>6 DEF Like
  <2> QED
    BY <1>1, <1>6, <2>1, LikeSettles
<1>7. CASE AddPerformance(c) /\ ~Abort(c, "error")
  <2>1. PICK a \in Visible(c, "athlete") :
               /\ Advance(c, [tx[c] EXCEPT !.share = @ \cup {a.id},
                                           !.ins["performance"] =
                                             @ \cup {[id |-> seq["performance"] + 1,
                                                      athlete |-> a.id]}])
               /\ seq' = [seq EXCEPT !["performance"] = @ + 1]
    BY <1>7 DEF AddPerformance
  <2> DEFINE row == [id |-> seq["performance"] + 1, athlete |-> a.id]
             ins == [x.ins EXCEPT !["performance"] = x.ins["performance"] \cup {row}]
             n == [x EXCEPT !.share = x.share \cup {a.id}, !.ins = ins]
  <2>2. Advance(c, n) /\ seq'["user"] = seq["user"]
    BY <1>2, <2>1 DEF Numbered
  <2>3. a.id \in Nat /\ row \in Rows("performance")
    <3>1. a.id \in Nat
      BY <1>2, AthleteIds DEF Visible
    <3> QED
      BY <1>2, <3>1 DEF Rows, Numbered
  <2> HIDE DEF row
  <2>4. /\ ins = [x.ins EXCEPT !["performance"] = x.ins["performance"] \cup {row}]
        /\ x.ins["performance"] \cup {row} \in SUBSET Rows("performance")
    BY <1>2, <2>3, RowsOf
  <2>5. ins["athlete"] = x.ins["athlete"] /\ ins["user"] = x.ins["user"]
    BY <1>2 DEF RowSets
  <2> HIDE DEF ins, n
  <2>6. ins \in RowSets
    BY <1>2, <2>4, RowsChanged
  <2>7. /\ n \in Transactions /\ n.op = x.op /\ n.at = x.at /\ n.pk = x.pk
        /\ n.ins = ins /\ n.del = x.del
    <3> HIDE DEF x
    <3> QED
      BY <1>2, <2>3, <2>6 DEF Transactions, n
  <2>8. /\ n.ins["user"] = x.ins["user"] /\ n.ins["athlete"] = x.ins["athlete"]
        /\ n.del["user"] = x.del["user"] /\ n.del["athlete"] = x.del["athlete"]
    BY <2>5, <2>7
  <2> QED
    BY <1>1, <1>6, <2>2, <2>7, <2>8
<1>8. ASSUME NEW r \in Visible(c, "performance"), Overwrite(c, "performance", r, r)
      PROVE  Settles(c)
  <2> DEFINE ins == [x.ins EXCEPT !["performance"] = x.ins["performance"] \cup {r}]
             del == [x.del EXCEPT !["performance"] = x.del["performance"] \cup {r}]
             n == [x EXCEPT !.del = del, !.ins = ins]
  <2>1. Proceed(c, n)
    BY <1>8 DEF Overwrite
  <2>2. r \in Rows("performance")
    <3>1. db["performance"] \subseteq Rows("performance")
          /\ x.ins["performance"] \subseteq Rows("performance")
      BY <1>2, RowsOf DEF TypeInv
    <3> QED
      BY <3>1 DEF Visible
  <2>3. /\ ins = [x.ins EXCEPT !["performance"] = x.ins["performance"] \cup {r}]
        /\ del = [x.del EXCEPT !["performance"] = x.del["performance"] \cup {r}]
        /\ x.ins["performance"] \cup {r} \in SUBSET Rows("performance")
        /\ x.del["performance"] \cup {r} \in SUBSET Rows("performance")
    BY <1>2, <2>2, RowsOf
  <2>4. /\ ins["athlete"] = x.ins["athlete"] /\ ins["user"] = x.ins["user"]
        /\ del["athlete"] = x.del["athlete"] /\ del["user"] = x.del["user"]
    BY <1>2 DEF RowSets
  <2> HIDE DEF ins, del, n
  <2>5. ins \in RowSets /\ del \in RowSets
    BY <1>2, <2>3, RowsChanged
  <2>6. /\ n \in Transactions /\ n.op = x.op /\ n.at = x.at /\ n.pk = x.pk
        /\ n.ins = ins /\ n.del = del
    <3> HIDE DEF x
    <3> QED
      BY <1>2, <2>5 DEF Transactions, n
  <2> QED
    BY <1>6, <2>1, <2>4, <2>6 DEF Proceed
<1> QED
  BY <1>1, <1>4, <1>5, <1>7, <1>8 DEF LockPerformance

LEMMA DeletedRow ==
  ASSUME PInv, NEW c \in Clients, NEW t \in Tables, NEW r,
         tx' = [tx EXCEPT ![c].del[t] = @ \cup {r}]
  PROVE  /\ tx'[c].op = tx[c].op /\ tx'[c].at = tx[c].at /\ tx'[c].pk = tx[c].pk
         /\ tx'[c].ins = tx[c].ins /\ tx'[c].del[t] = tx[c].del[t] \cup {r}
         /\ \A u \in Tables \ {t} : tx'[c].del[u] = tx[c].del[u]
         /\ \A d \in Clients \ {c} : tx'[d] = tx[d]
<1> DEFINE x == tx[c]
           del == [x.del EXCEPT ![t] = x.del[t] \cup {r}]
           n == [x EXCEPT !.del = del]
<1>1. x \in Transactions /\ x.del \in RowSets /\ tx \in [Clients -> Transactions]
  BY DEF PInv, IInv, TypeInv, Transactions
<1>2. tx'[c] = n /\ \A d \in Clients \ {c} : tx'[d] = tx[d]
  BY <1>1 DEF Transactions
<1>3. del[t] = x.del[t] \cup {r} /\ \A u \in Tables \ {t} : del[u] = x.del[u]
  BY <1>1 DEF RowSets
<1> HIDE DEF del
<1>4. n.op = x.op /\ n.at = x.at /\ n.pk = x.pk /\ n.ins = x.ins /\ n.del = del
  BY <1>1 DEF Transactions
<1> HIDE DEF n
<1> QED
  BY <1>2, <1>3, <1>4

LEMMA DeletionsSettle ==
  ASSUME NobodyPurges, PInv, NEW c \in Clients,
         DeleteUsers(c) \/ DeleteAthletes(c) \/ DeletePerformances(c) \/ Cascade(c)
  PROVE  Settles(c) /\ Good(c)
<1> DEFINE x == tx[c]
<1>1. Busy(c) /\ Good(c)
  BY DeletionsGood DEF PInv, DeleteUsers, DeleteAthletes, DeletePerformances, Cascade, At
<1>2. /\ Places(c) /\ x \in Transactions /\ x.op \in Operations /\ x.at \in Nat
      /\ AccountProgress(x) /\ Progress(x) /\ seq["user"] \in Nat
      /\ "performance" \in Tables /\ "athlete" \in Tables /\ "user" \in Tables
  BY <1>1, OpenPlaces, AccountTypes
  DEF PInv, IInv, TypeInv, Transactions, Tables, AccountsInv, ProgressInv
<1>3. \/ DeleteUsers(c) /\ Is(c, "delete", 2)
      \/ DeletePerformances(c) /\ Is(c, "discard", 2)
      \/ Cascade(c) /\ Is(c, "delete", 3)
  BY <1>2 DEF Places, DeleteUsers, DeleteAthletes, DeletePerformances, Cascade, NobodyPurges, Is
\* The end of a statement.
<1>4. ASSUME Proceed(c, [x EXCEPT !.todo = {}]),
             \/ x.op = "delete" /\ (x.at = 2 \/ Doomed(c, "athlete") = {})
             \/ x.op = "discard"
      PROVE  Settles(c)
  <2> DEFINE n == [x EXCEPT !.todo = {}]
  <2>1. /\ n \in Transactions /\ n.op = x.op /\ n.at = x.at /\ n.pk = x.pk
        /\ n.ins = x.ins /\ n.del = x.del
    BY <1>2 DEF Transactions
  <2>2. Proceed(c, n)
    BY <1>4
  <2> HIDE DEF n
  <2>3. Like(c, n)
    BY <1>2, <1>4, <2>1 DEF Like
  <2> QED
    BY <1>1, <2>2, <2>3, LikeSettles DEF Proceed
\* A result goes.
<1>5. ASSUME NEW r, tx' = [tx EXCEPT ![c].del["performance"] = @ \cup {r}], seq' = seq,
             x.op = "discard" \/ (x.op = "delete" /\ x.at = 3)
      PROVE  Settles(c)
  <2>1. /\ tx'[c].op = x.op /\ tx'[c].at = x.at /\ tx'[c].pk = x.pk
        /\ tx'[c].ins = x.ins
        /\ \A u \in Tables \ {"performance"} : tx'[c].del[u] = x.del[u]
        /\ \A d \in Clients \ {c} : tx'[d] = tx[d]
    BY <1>2, <1>5, DeletedRow
  <2>2. Same(c)
    BY <1>2, <1>5, <2>1 DEF Same
  <2> QED
    BY <1>1, <2>2, SameSettles
\* An account or a profile goes.
<1>6. ASSUME NEW t \in {"user", "athlete"}, NEW r, x.op = "delete", x.at \in {2, 3},
             tx' = [tx EXCEPT ![c].del[t] = @ \cup {r}], seq' = seq,
             t = "user" => r \in db["user"] /\ ~RowLocked(c, "user", r),
             t = "athlete" => \E v \in x.del["user"] : v.id = r.user
      PROVE  Settles(c)
  <2>1. /\ tx'[c].op = x.op /\ tx'[c].at = x.at /\ tx'[c].ins = x.ins
        /\ tx'[c].del[t] = x.del[t] \cup {r}
        /\ \A u \in Tables \ {t} : tx'[c].del[u] = x.del[u]
        /\ \A d \in Clients \ {c} : tx'[d] = tx[d]
    <3>1. t \in Tables /\ tx' = [tx EXCEPT ![c].del[t] = @ \cup {r}]
      BY <1>2, <1>6
    <3> QED
      BY <3>1, DeletedRow
  <2>2. x.ins["user"] = {} /\ \A a \in x.del["athlete"] : \E v \in x.del["user"] : v.id = a.user
    BY <1>2, <1>6 DEF AccountProgress
  <2>3. AccountProgress(tx'[c])
    <3>1. \A a \in tx'[c].del["athlete"] : \E v \in tx'[c].del["user"] : v.id = a.user
      BY <1>2, <1>6, <2>1, <2>2
    <3> QED
      BY <1>6, <2>1, <2>2, <3>1 DEF AccountProgress
  <2>4. \A u \in tx'[c].del["user"] :
          u \in x.del["user"] \/ (u \in db["user"] /\ ~RowLocked(c, "user", u))
    BY <1>2, <1>6, <2>1
  <2> QED
    BY <1>2, <1>6, <2>1, <2>2, <2>3, <2>4 DEF Settles
<1>7. CASE DeleteUsers(c) /\ Is(c, "delete", 2)
  <2>1. x.op = "delete" /\ x.at = 2 /\ x.ins["user"] = {}
    BY <1>2, <1>7 DEF Is, AccountProgress
  <2>2. PICK rows \in SUBSET Visible(c, "user") : DeleteFrom(c, "user", rows)
    BY <1>7 DEF DeleteUsers, UsersLeft
  <2>3. rows \subseteq db["user"]
    BY <2>1 DEF Visible
  <2> QED
    BY <1>1, <1>4, <1>6, <2>1, <2>2, <2>3 DEF DeleteFrom
<1>8. CASE DeletePerformances(c) /\ Is(c, "discard", 2)
  <2>1. PICK rows : DeleteFrom(c, "performance", rows)
    BY <1>8 DEF DeletePerformances, PerformancesLeft
  <2> QED
    BY <1>1, <1>4, <1>5, <1>8, <2>1 DEF DeleteFrom, Is
<1>9. CASE Cascade(c) /\ Is(c, "delete", 3)
  <2>1. x.op = "delete" /\ x.at = 3
    BY <1>9 DEF Is
  <2>2. CASE Doomed(c, "athlete") # {}
    <3>1. DeleteFrom(c, "athlete", Doomed(c, "athlete"))
      BY <1>9, <2>2 DEF Cascade
    <3>2. PICK r \in Doomed(c, "athlete") :
                 tx' = [tx EXCEPT ![c].del["athlete"] = @ \cup {r}] /\ seq' = seq
      BY <2>2, <3>1 DEF DeleteFrom
    <3>3. \E v \in x.del["user"] : v.id = r.user
      BY DEF Doomed, Gone
    <3> QED
      BY <1>1, <1>6, <2>1, <3>2, <3>3
  <2>3. CASE Doomed(c, "athlete") = {}
    <3>1. DeleteFrom(c, "performance", Doomed(c, "performance"))
      BY <1>9, <2>3 DEF Cascade
    <3> QED
      BY <1>1, <1>4, <1>5, <2>1, <2>3, <3>1 DEF DeleteFrom
  <2> QED
    BY <2>2, <2>3
<1> QED
  BY <1>3, <1>7, <1>8, <1>9

-----------------------------------------------------------------------------
(* The theorem about accounts and profiles                                 *)

LEMMA InitProfiles == Init => PInv
<1> SUFFICES ASSUME Init PROVE PInv
  OBVIOUS
<1>1. IInv
  BY InitInv
<1>2. PICK d \in Databases : db = Filled(d) /\ seq = [t \in Numbered |-> Cardinality(db[t])]
  BY DEF Init
<1>3. \A c \in Clients : tx[c] = NoTx
  BY DEF Init
<1>4. AccountsInv /\ AccountLocks /\ ProfilesGone
  BY <1>3, NoTxRows DEF AccountsInv, AccountProgress, AccountLocks, ProfilesGone
<1>5. CASE db = NoRows
  <2>1. db["user"] = {} /\ db["athlete"] = {}
    BY <1>5 DEF NoRows, Tables
  <2> QED
    BY <1>1, <1>3, <1>4, <2>1, NoTxRows DEF PInv, AccountIds, Matched
<1>6. CASE db = InUse
  <2> DEFINE boss == [id |-> 1, email |-> Boss, role |-> "admin", active |-> TRUE]
             jane == [id |-> 2, email |-> Jane, role |-> "user", active |-> TRUE]
             profile == [id |-> 1, user |-> 2, license |-> JaneLicense]
  <2>1. db["user"] = {boss} \cup {jane} /\ db["athlete"] = {profile}
    BY <1>6 DEF InUse
  <2>2. /\ boss.id = 1 /\ boss.role = "admin" /\ jane.id = 2 /\ jane.role = "user"
        /\ profile.user = 2 /\ boss # jane
    OBVIOUS
  <2> HIDE DEF boss, jane, profile
  <2>3. seq["user"] = 2
    <3>1. IsFiniteSet({boss}) /\ Cardinality({boss}) = 1 /\ jane \notin {boss}
      BY <2>2, FS_Singleton
    <3>2. Cardinality({boss} \cup {jane}) = 2
      BY <3>1, FS_AddElement
    <3> QED
      BY <1>2, <2>1, <3>2 DEF Numbered
  <2>4. AccountIds
    BY <1>3, <2>1, <2>2, <2>3, NoTxRows DEF AccountIds
  <2>5. Matched
    BY <2>1, <2>2 DEF Matched
  <2> QED
    BY <1>1, <1>4, <2>4, <2>5 DEF PInv
<1> QED
  BY <1>2, <1>5, <1>6 DEF Filled

LEMMA NextProfiles ==
  ASSUME NobodyPurges, PInv, [Next]_vars
  PROVE  PInv'
<1>1. CASE UNCHANGED vars
  <2>1. tx' = tx /\ db' = db /\ seq' = seq /\ answer' = answer /\ IInv'
    BY <1>1, NextInv DEF vars, PInv
  <2> QED
    BY <2>1 DEF PInv, AccountsInv, AccountIds, AccountLocks, ProfilesGone, Matched, Doomed,
                Visible, Gone
<1>2. ASSUME NEW c \in Clients, NEW op \in Operations, Start(c, op) PROVE PInv'
  BY <1>2, StartSettles, SettlesKeeps
<1>3. ASSUME NEW c \in Clients, Fail(c) \/ Deadlocked(c) PROVE PInv'
  BY <1>3, AbortSettles, SettlesKeeps DEF Fail, Deadlocked
<1>4. ASSUME NEW c \in Clients, Step(c) PROVE PInv'
  <2>1. CASE \/ FreeEmail(c) \/ FreeLicense(c) \/ GetUserRole(c) \/ GetAdminRole(c)
             \/ FindAthlete(c) \/ FindPerformance(c) \/ ScanUsers(c) \/ ScanAthletes(c)
    BY <2>1, QueriesSettle, SettlesKeeps
  <2>2. CASE AddUserRole(c) \/ AddAdminRole(c)
    BY <2>2, AddRoleSettles, SettlesKeeps
  <2>3. CASE AddUser(c) \/ AddAdmin(c)
    BY <2>3, AddAccountSettles, SettlesKeeps
  <2>4. CASE AddAthlete(c)
    BY <2>4, AddAthleteSettles, SettlesKeeps
  <2>5. CASE AddPerformance(c) \/ LockPerformance(c)
    BY <2>5, ResultsSettle, SettlesKeeps
  <2>6. CASE LockAthlete(c)
    BY <2>6, LockAthleteSettles, SettlesKeeps
  <2>7. CASE WriteAthlete(c)
    BY <2>7, WriteAthleteSettles, SettlesKeeps
  <2>8. CASE WriteUser(c)
    BY <2>8, WriteUserSettles, SettlesKeeps
  <2>9. CASE DeleteUsers(c) \/ DeleteAthletes(c) \/ DeletePerformances(c) \/ Cascade(c)
    BY <2>9, DeletionsSettle, SettlesKeeps
  <2>10. CASE Commit(c)
    BY <2>10, CommitPInv
  <2> QED
    BY <1>4, <2>1, <2>2, <2>3, <2>4, <2>5, <2>6, <2>7, <2>8, <2>9, <2>10 DEF Step
<1> QED
  BY <1>1, <1>2, <1>3, <1>4 DEF Next

LEMMA OneEach ==
  ASSUME PInv
  PROVE  OneProfilePerAccount
<1>1. ASSUME NEW u \in db["user"]
      PROVE  Cardinality({a \in db["athlete"] : a.user = u.id}) =
               (IF u.role = "user" THEN 1 ELSE 0)
  <2> DEFINE mine == {a \in db["athlete"] : a.user = u.id}
  <2>1. CASE u.role = "user"
    <3>1. PICK a \in db["athlete"] : a.user = u.id
      BY <2>1 DEF PInv, Matched
    <3>2. mine = {a}
      BY <3>1 DEF PInv, Matched
    <3> HIDE DEF mine
    <3>3. Cardinality(mine) = 1
      BY <3>2, FS_Singleton
    <3> QED
      BY <2>1, <3>3 DEF mine
  <2>2. CASE u.role # "user"
    <3>1. mine = {}
      BY <2>2 DEF PInv, Matched, AccountIds
    <3> HIDE DEF mine
    <3>2. Cardinality(mine) = 0
      BY <3>1, FS_EmptySet
    <3> QED
      BY <2>2, <3>2 DEF mine
  <2> QED
    BY <2>1, <2>2
<1>2. \A a \in db["athlete"] : \E u \in db["user"] : u.id = a.user
  BY DEF PInv, Matched
<1> QED
  BY <1>1, <1>2 DEF OneProfilePerAccount

\* As long as nobody runs the purge or the seeder, every account of role USER
\* has exactly one profile, an ADMIN none, and no profile is without its
\* account, however many requests overlap and fail: whoever commits an account
\* commits its profile with it, and a cascade misses none.
THEOREM OneProfileEach ==
  ASSUME NobodyPurges
  PROVE  Spec => []OneProfilePerAccount
<1>1. Init => PInv
  BY InitProfiles
<1>2. PInv /\ [Next]_vars => PInv'
  BY NextProfiles
<1>3. PInv => OneProfilePerAccount
  BY OneEach
<1> QED
  BY <1>1, <1>2, <1>3, PTL DEF Spec

-----------------------------------------------------------------------------
(* Requests that overlap with no other                                     *)

Alone(c) == Busy(c) /\ tx[c].alone

\* What a request has looked up and not yet written, if nobody interferes.
LookedUp(c) ==
  LET t == tx[c]
  IN  /\ \/ t.op = "create" /\ t.at \in 2 .. 5
         \/ t.op = "createAdmin" /\ t.at \in 2 .. 4
         => \A u \in Visible(c, "user") : u.email # t.email
      /\ t.op = "create" /\ t.at \in 3 .. 6 =>
           \A a \in Visible(c, "athlete") : a.license # t.license
      /\ t.op = "create" /\ t.at = 4 => "user" \notin Visible(c, "role")
      /\ t.op = "createAdmin" /\ t.at = 3 => "admin" \notin Visible(c, "role")
      /\ t.op = "record" /\ t.at = 2 => \E a \in Visible(c, "athlete") : a.id = t.pk
      /\ t.op = "update" /\ t.at \in 2 .. 3 => t.seen \in db["athlete"] /\ t.seen.id = t.pk
      /\ t.op = "update" /\ t.at = 3 =>
           \/ t.license \in {None, Blank, t.seen.license}
           \/ \A a \in Visible(c, "athlete") : a.license # t.license
      /\ t.op = "update" /\ t.at = 4 =>
           \/ t.license = Blank
           \/ \A a \in Visible(c, "athlete") : a.license # t.license

AloneInv ==
  \A c \in Clients : Alone(c) => LookedUp(c) /\ \A d \in Clients \ {c} : ~Busy(d)

\* A step of c's request, which may have company from now on or be over.
Continues(c) ==
  /\ Busy(c) /\ \A d \in Clients \ {c} : tx'[d] = tx[d]
  /\ Busy(c)' /\ tx'[c].alone => tx[c].alone /\ LookedUp(c)'

LEMMA ContinuesKeeps ==
  ASSUME AloneInv, NEW c \in Clients, Continues(c)
  PROVE  AloneInv'
  BY DEF AloneInv, Alone, Continues, Busy

LEMMA StartAlone ==
  ASSUME PInv, AloneInv, NEW c \in Clients, NEW op \in Operations, Start(c, op)
  PROVE  AloneInv'
<1>1. PICK e \in EmailsFor(op), l \in LicensesFor(op), i \in IdsFor(op), on \in StatusesFor(op) :
        tx' = [d \in Clients |->
                 IF d = c THEN [NoTx EXCEPT !.op = op, !.email = e, !.license = l, !.pk = i,
                                            !.on = on, !.alone = \A f \in Clients : ~Busy(f)]
                 ELSE IF Busy(d) THEN [tx[d] EXCEPT !.alone = FALSE] ELSE tx[d]]
  BY DEF Start
<1>2. tx'[c].at = 1 /\ (tx'[c].alone => \A f \in Clients : ~Busy(f))
  <2> DEFINE alone == \A f \in Clients : ~Busy(f)
             n == [NoTx EXCEPT !.op = op, !.email = e, !.license = l, !.pk = i, !.on = on,
                               !.alone = alone]
  <2>1. tx'[c] = n
    BY <1>1
  <2> HIDE DEF alone
  <2>2. n.at = 1 /\ n.alone = alone
    BY NoTxType DEF Transactions
  <2> HIDE DEF n
  <2> QED
    BY <2>1, <2>2 DEF alone
<1>3. ASSUME NEW d \in Clients \ {c}
      PROVE  Busy(d)' => Busy(d) /\ ~tx'[d].alone
  <2>1. tx[d] \in Transactions
    BY DEF PInv, IInv, TypeInv
  <2>2. CASE Busy(d)
    <3>1. tx'[d] = [tx[d] EXCEPT !.alone = FALSE]
      BY <1>1, <2>2
    <3> QED
      BY <2>1, <2>2, <3>1 DEF Transactions
  <2>3. CASE ~Busy(d)
    <3>1. tx'[d] = tx[d]
      BY <1>1, <2>3
    <3> QED
      BY <2>3, <3>1 DEF Busy
  <2> QED
    BY <2>2, <2>3
<1>4. LookedUp(c)'
  BY <1>2 DEF LookedUp
<1> QED
  BY <1>2, <1>3, <1>4 DEF AloneInv, Alone

LEMMA AbortContinues ==
  ASSUME PInv, NEW c \in Clients, NEW how, Busy(c), Abort(c, how)
  PROVE  Continues(c)
<1>1. tx'[c] = NoTx /\ \A d \in Clients \ {c} : tx'[d] = tx[d]
  BY DEF Abort, PInv, IInv, TypeInv
<1> QED
  BY <1>1, NoTxRows DEF Continues, Busy

\* A step on which the next statement depends for nothing.
LEMMA RestContinues ==
  ASSUME PInv, NEW c \in Clients, Busy(c), NEW n \in Transactions, Advance(c, n),
         n.alone = tx[c].alone,
         \/ n.op \notin {"create", "createAdmin", "record", "update"}
         \/ n.op = "create" /\ n.at = 6
         \/ n.op = "createAdmin" /\ n.at = 4
         \/ n.op = "record" /\ n.at = 2
         \/ n.op = "update" /\ n.at = 4
  PROVE  Continues(c)
<1>1. /\ tx'[c].op = n.op /\ tx'[c].at = n.at + 1 /\ tx'[c].alone = n.alone
      /\ \A d \in Clients \ {c} : tx'[d] = tx[d]
  BY Forward
<1>2. LookedUp(c)'
  BY <1>1 DEF LookedUp
<1> QED
  BY <1>1, <1>2 DEF Continues

\* A query leaves what is visible.
LEMMA Seeing ==
  ASSUME PInv, NEW c \in Clients, NEW n \in Transactions, Proceed(c, n),
         n.ins = tx[c].ins, n.del = tx[c].del
  PROVE  db' = db /\ \A t \in Tables : Visible(c, t)' = Visible(c, t)
<1>1. db' = db /\ tx'[c].ins = tx[c].ins /\ tx'[c].del = tx[c].del
  BY Forward DEF Proceed
<1> QED
  BY <1>1 DEF Visible

LEMMA QueriesContinue ==
  ASSUME NobodyPurges, PInv, AloneInv, NEW c \in Clients,
         \/ FreeEmail(c) \/ FreeLicense(c) \/ GetUserRole(c) \/ GetAdminRole(c)
         \/ FindAthlete(c) \/ FindPerformance(c) \/ ScanUsers(c) \/ ScanAthletes(c)
  PROVE  Continues(c)
<1> DEFINE x == tx[c]
<1>1. Busy(c)
  BY DEF FreeEmail, FreeLicense, GetUserRole, GetAdminRole, FindAthlete, FindPerformance,
         ScanUsers, ScanAthletes, At
<1>2. /\ Places(c) /\ x.op \in Operations /\ x \in Transactions /\ Progress(x) /\ TypeInv
      /\ "user" \in Tables /\ "athlete" \in Tables /\ "role" \in Tables
      /\ x.alone => LookedUp(c)
  BY <1>1, OpenPlaces DEF PInv, IInv, TypeInv, ProgressInv, Tables, AloneInv, Alone
<1>3. ASSUME Abort(c, "refused") PROVE Continues(c)
  BY <1>1, <1>3, AbortContinues
\* What is looked up stays so.
<1>4. ASSUME NEW n \in Transactions, Proceed(c, n), n.ins = x.ins, n.del = x.del
      PROVE  /\ tx'[c].op = n.op /\ tx'[c].at = n.at + 1 /\ tx'[c].pk = n.pk
             /\ tx'[c].seen = n.seen /\ tx'[c].email = n.email /\ tx'[c].license = n.license
             /\ tx'[c].alone = n.alone
             /\ \A d \in Clients \ {c} : tx'[d] = tx[d]
             /\ db' = db /\ Visible(c, "user")' = Visible(c, "user")
             /\ Visible(c, "athlete")' = Visible(c, "athlete")
             /\ Visible(c, "role")' = Visible(c, "role")
  BY <1>2, <1>4, Forward, Seeing DEF Proceed
<1>5. CASE FreeEmail(c) /\ ~Abort(c, "refused")
  <2>1. Is(c, "create", 1) \/ Is(c, "createAdmin", 1)
    BY <1>2, <1>5 DEF Places, FreeEmail
  <2>2. Proceed(c, x) /\ \A u \in Visible(c, "user") : u.email # x.email
    BY <1>5 DEF FreeEmail
  <2>3. LookedUp(c)'
    BY <1>2, <1>4, <2>1, <2>2 DEF LookedUp, Is
  <2> QED
    BY <1>1, <1>2, <1>4, <2>2, <2>3 DEF Continues
<1>6. CASE FreeLicense(c) /\ ~Abort(c, "refused")
  <2>1. Is(c, "create", 2) \/ Is(c, "update", 2)
    BY <1>2, <1>6 DEF Places, FreeLicense
  <2>2. /\ Proceed(c, x)
        /\ \/ x.op # "create" /\ x.license \in {None, Blank, x.seen.license}
           \/ \A a \in Visible(c, "athlete") : a.license # x.license
    BY <1>6 DEF FreeLicense
  <2>3. x.alone => LookedUp(c)'
    BY <1>2, <1>4, <2>1, <2>2 DEF LookedUp, Is
  <2> QED
    BY <1>1, <1>2, <1>4, <2>2, <2>3 DEF Continues
<1>7. CASE GetUserRole(c) \/ GetAdminRole(c)
  <2>1. \/ GetUserRole(c) /\ x.op = "create" /\ x.at = 3
        \/ GetAdminRole(c) /\ x.op = "createAdmin" /\ x.at = 2
    <3>1. \/ GetUserRole(c) /\ Is(c, "create", 3)
          \/ GetAdminRole(c) /\ Is(c, "createAdmin", 2)
      BY <1>2, <1>7 DEF Places, GetUserRole, GetAdminRole, NobodyPurges, Is
    <3> QED
      BY <3>1 DEF Is
  <2> DEFINE n == [x EXCEPT !.at = @ + 1]
  <2>2. /\ n \in Transactions /\ n.at = x.at + 1 /\ n.op = x.op /\ n.pk = x.pk
        /\ n.email = x.email /\ n.license = x.license /\ n.alone = x.alone /\ n.seen = x.seen
        /\ n.ins = x.ins /\ n.del = x.del
    BY <1>2 DEF Transactions
  <2>3. \/ Proceed(c, n)
        \/ Proceed(c, x) /\ (x.op = "create" => "user" \notin Visible(c, "role"))
                         /\ (x.op = "createAdmin" => "admin" \notin Visible(c, "role"))
    BY <2>1 DEF GetUserRole, GetAdminRole, GetRole, Skip
  <2> HIDE DEF n
  <2>4. CASE Proceed(c, n)
    <3>1. x.alone => LookedUp(c)'
      BY <1>2, <1>4, <2>1, <2>2, <2>4 DEF LookedUp
    <3> QED
      BY <1>1, <1>4, <2>2, <2>4, <3>1 DEF Continues
  <2>5. CASE /\ Proceed(c, x)
             /\ x.op = "create" => "user" \notin Visible(c, "role")
             /\ x.op = "createAdmin" => "admin" \notin Visible(c, "role")
    <3>1. x.alone => LookedUp(c)'
      BY <1>2, <1>4, <2>1, <2>5 DEF LookedUp
    <3> QED
      BY <1>1, <1>2, <1>4, <2>5, <3>1 DEF Continues
  <2> QED
    BY <2>3, <2>4, <2>5
<1>8. CASE FindAthlete(c) /\ ~Abort(c, "refused")
  <2>1. x.op \in {"update", "setStatus", "delete", "record"} /\ x.at = 1
    BY <1>2, <1>8 DEF Places, FindAthlete, Is
  <2>2. PICK a \in Visible(c, "athlete") :
               a.id = x.pk /\ Proceed(c, [x EXCEPT !.seen = a, !.todo = {a.user}])
    BY <1>8 DEF FindAthlete
  <2>3. a \in Rows("athlete") /\ a.user \in Nat
    <3>1. db["athlete"] \subseteq Rows("athlete") /\ x.ins["athlete"] \subseteq Rows("athlete")
      BY <1>2, RowsOf DEF TypeInv, Transactions
    <3> QED
      BY <3>1, AthleteRows DEF Visible
  <2> DEFINE n == [x EXCEPT !.seen = a, !.todo = {a.user}]
  <2>4. /\ n \in Transactions /\ n.at = x.at /\ n.op = x.op /\ n.pk = x.pk /\ n.seen = a
        /\ n.alone = x.alone /\ n.ins = x.ins /\ n.del = x.del
    BY <1>2, <2>3 DEF Transactions
  <2>5. Proceed(c, n)
    BY <2>2
  <2> HIDE DEF n
  <2>6. x.op = "update" => a \in db["athlete"]
    BY <1>2, <2>1 DEF Visible, Progress
  <2>7. LookedUp(c)'
    BY <1>4, <2>1, <2>2, <2>4, <2>5, <2>6 DEF LookedUp
  <2> QED
    BY <1>1, <1>4, <2>4, <2>5, <2>7 DEF Continues
<1>9. CASE FindPerformance(c) /\ ~Abort(c, "refused")
  <2>1. x.op \in {"amend", "discard"}
    BY <1>2, <1>9 DEF Places, FindPerformance, Is
  <2> DEFINE n == [x EXCEPT !.todo = {x.pk}]
  <2>2. n \in Transactions /\ n.op = x.op /\ n.alone = x.alone
    BY <1>2 DEF Transactions
  <2>3. Proceed(c, n)
    BY <1>9 DEF FindPerformance
  <2> HIDE DEF n
  <2> QED
    BY <1>1, <2>1, <2>2, <2>3, RestContinues DEF Proceed
<1>10. ~ScanUsers(c) /\ ~ScanAthletes(c)
  BY <1>2 DEF Places, ScanUsers, ScanAthletes, NobodyPurges, Is
<1> QED
  BY <1>3, <1>5, <1>6, <1>7, <1>8, <1>9, <1>10

LEMMA InsertsContinue ==
  ASSUME NobodyPurges, PInv, AloneInv, NEW c \in Clients, NEW t \in {"role", "user", "athlete"},
         NEW row \in Rows(t), Insert(c, t, row), Busy(c),
         \/ t = "role" /\ Is(c, "create", 4)
         \/ t = "role" /\ Is(c, "createAdmin", 3)
         \/ t = "user" /\ Is(c, "create", 5)
         \/ t = "user" /\ Is(c, "createAdmin", 4)
         \/ t = "athlete" /\ Is(c, "create", 6)
  PROVE  Continues(c)
<1>1. CASE Abort(c, "error")
  BY <1>1, AbortContinues
<1>2. CASE ~Abort(c, "error")
  <2>1. t \in Tables
    BY DEF Tables
  <2>2. PICK n \in Transactions : Inserted(c, t, row, n)
    BY <1>2, <2>1, Inserting, Zenon
  <2>3. Advance(c, n) /\ n.op = tx[c].op /\ n.at = tx[c].at /\ n.alone = tx[c].alone /\ db' = db
    BY <2>2 DEF Inserted
  <2>4. CASE (t = "user" /\ Is(c, "createAdmin", 4)) \/ (t = "athlete" /\ Is(c, "create", 6))
    BY <2>3, <2>4, RestContinues DEF Is
  <2>5. CASE /\ t \in {"role", "user"}
             /\ \/ t = "role" /\ Is(c, "create", 4)
                \/ t = "role" /\ Is(c, "createAdmin", 3)
                \/ t = "user" /\ Is(c, "create", 5)
    <3>1. /\ tx'[c].op = tx[c].op /\ tx'[c].at = tx[c].at + 1 /\ tx'[c].email = tx[c].email
          /\ tx'[c].license = tx[c].license /\ tx'[c].alone = tx[c].alone
          /\ \A d \in Clients \ {c} : tx'[d] = tx[d]
          /\ tx'[c].ins = n.ins /\ tx'[c].del = n.del
      BY <2>2, <2>3, Forward DEF Inserted
    <3>2. \A u \in Tables \ {t} : tx'[c].ins[u] = tx[c].ins[u] /\ tx'[c].del[u] = tx[c].del[u]
      BY <2>2, <3>1 DEF Inserted
    <3>3. /\ Visible(c, "athlete")' = Visible(c, "athlete")
          /\ t = "role" => Visible(c, "user")' = Visible(c, "user")
      BY <2>3, <2>5, <3>2 DEF Visible, Tables
    <3>4. tx[c].alone => LookedUp(c)'
      <4>1. SUFFICES ASSUME tx[c].alone PROVE LookedUp(c)'
        OBVIOUS
      <4>2. LookedUp(c)
        BY <4>1 DEF AloneInv, Alone
      <4> QED
        BY <2>5, <3>1, <3>3, <4>2 DEF LookedUp, Is
    <3> QED
      BY <3>1, <3>4 DEF Continues
  <2> QED
    BY <2>4, <2>5
<1> QED
  BY <1>1, <1>2

LEMMA AddsContinue ==
  ASSUME NobodyPurges, PInv, AloneInv, NEW c \in Clients,
         AddUserRole(c) \/ AddAdminRole(c) \/ AddUser(c) \/ AddAdmin(c) \/ AddAthlete(c)
  PROVE  Continues(c)
<1>1. Busy(c)
  BY DEF AddUserRole, AddAdminRole, AddUser, AddAdmin, AddAthlete, At
<1>2. /\ Places(c) /\ tx[c].op \in Operations /\ tx[c] \in Transactions /\ Progress(tx[c])
      /\ seq["user"] \in Nat /\ seq["athlete"] \in Nat
  BY <1>1, OpenPlaces DEF PInv, IInv, TypeInv, ProgressInv, Numbered
<1>3. CASE AddUserRole(c) \/ AddAdminRole(c)
  <2>1. Is(c, "create", 4) \/ Is(c, "createAdmin", 3)
    BY <1>2, <1>3 DEF Places, AddUserRole, AddAdminRole, NobodyPurges, Is
  <2>2. PICK row \in Rows("role") : Insert(c, "role", row)
    BY <1>3 DEF AddUserRole, AddAdminRole, Rows
  <2> QED
    BY <1>1, <2>1, <2>2, InsertsContinue
<1>4. CASE AddUser(c)
  <2> DEFINE row == [id |-> seq["user"] + 1, email |-> tx[c].email, role |-> "user",
                     active |-> TRUE]
  <2>1. Is(c, "create", 5)
    BY <1>2, <1>4 DEF Places, AddUser, NobodyPurges, Is
  <2>2. Insert(c, "user", row)
    BY <1>4 DEF AddUser
  <2>3. row \in Rows("user")
    BY <1>2, <2>1 DEF Rows, Mails, Progress, Is
  <2> HIDE DEF row
  <2> QED
    BY <1>1, <2>1, <2>2, <2>3, InsertsContinue
<1>5. CASE AddAdmin(c)
  <2> DEFINE mail == IF tx[c].op = "seed" THEN AdminEmail ELSE tx[c].email
             row == [id |-> seq["user"] + 1, role |-> "admin", active |-> TRUE, email |-> mail]
  <2>1. Is(c, "createAdmin", 4)
    BY <1>2, <1>5 DEF Places, AddAdmin, NobodyPurges, Is
  <2>2. Insert(c, "user", row)
    BY <1>5 DEF AddAdmin, AdminAddress
  <2>3. row \in Rows("user")
    BY <1>2, <2>1 DEF Rows, Mails, Progress, Is
  <2> HIDE DEF row
  <2> QED
    BY <1>1, <2>1, <2>2, <2>3, InsertsContinue
<1>6. CASE AddAthlete(c)
  <2> DEFINE row == [id |-> seq["athlete"] + 1, user |-> tx[c].pk, license |-> tx[c].license]
  <2>1. Is(c, "create", 6)
    BY <1>2, <1>6 DEF Places, AddAthlete, NobodyPurges, Is
  <2>2. Insert(c, "athlete", row)
    BY <1>6 DEF AddAthlete
  <2>3. row \in Rows("athlete")
    BY <1>2, <2>1 DEF Rows, Plates, Progress, Is, Transactions
  <2> HIDE DEF row
  <2> QED
    BY <1>1, <2>1, <2>2, <2>3, InsertsContinue
<1> QED
  BY <1>3, <1>4, <1>5, <1>6

LEMMA LockAthleteContinues ==
  ASSUME PInv, AloneInv, NEW c \in Clients, LockAthlete(c)
  PROVE  Continues(c)
<1> DEFINE x == tx[c]
<1>1. Busy(c)
  BY DEF LockAthlete, At
<1>2. /\ Places(c) /\ TypeInv /\ x \in Transactions /\ Progress(x)
      /\ x.ins \in RowSets /\ x.del \in RowSets /\ "athlete" \in Tables
      /\ x.alone => LookedUp(c)
  BY <1>1, OpenFacts DEF PInv, IInv, Transactions, Tables, AloneInv, Alone
<1>3. x.op = "update" /\ x.at = 3 /\ x.ins["athlete"] = {} /\ x.del["athlete"] = {}
  <2>1. Is(c, "update", 3)
    BY <1>2 DEF Places, LockAthlete
  <2> QED
    BY <1>2, <2>1 DEF Is, Progress
<1>4. CASE Skip(c)
  <2> DEFINE n == [x EXCEPT !.at = x.at + 1]
  <2>1. Proceed(c, n)
    BY <1>4 DEF Skip
  <2>2. n \in Transactions /\ n.op = "update" /\ n.at = 4 /\ n.alone = x.alone
    BY <1>2, <1>3 DEF Transactions
  <2> HIDE DEF n
  <2> QED
    BY <1>1, <2>1, <2>2, RestContinues DEF Proceed
<1>5. ASSUME NEW a \in Visible(c, "athlete"), a.id = x.pk,
             \/ Proceed(c, [x EXCEPT !.at = @ + 1, !.del["athlete"] = {a}, !.ins["athlete"] = {a}])
             \/ /\ x.license \notin {None, a.license}
                /\ Proceed(c, [x EXCEPT !.seen = a, !.del["athlete"] = {a}])
      PROVE  Continues(c)
  <2>1. a \in db["athlete"] /\ a \in Rows("athlete")
    <3>1. a \in db["athlete"]
      BY <1>3, <1>5 DEF Visible
    <3> QED
      BY <1>2, <3>1, RowsOf DEF TypeInv
  <2> DEFINE del == [x.del EXCEPT !["athlete"] = {a}]
             ins == [x.ins EXCEPT !["athlete"] = {a}]
             far == [x EXCEPT !.at = x.at + 1, !.del = del, !.ins = ins]
             near == [x EXCEPT !.seen = a, !.del = del]
  <2>2. Proceed(c, far) \/ (x.license \notin {None, a.license} /\ Proceed(c, near))
    BY <1>5
  <2>3. /\ ins = [x.ins EXCEPT !["athlete"] = {a}] /\ del = [x.del EXCEPT !["athlete"] = {a}]
        /\ {a} \in SUBSET Rows("athlete")
    BY <2>1
  <2> HIDE DEF ins, del, far, near
  <2>4. ins \in RowSets /\ del \in RowSets
    BY <1>2, <2>3, RowsChanged
  <2>5. far \in Transactions /\ far.op = x.op /\ far.at = x.at + 1 /\ far.alone = x.alone
    <3>1. x.at + 1 \in Nat
      BY <1>3
    <3> HIDE DEF x
    <3> QED
      BY <1>2, <2>4, <3>1 DEF Transactions, far
  <2>6. /\ near \in Transactions /\ near.op = x.op /\ near.at = x.at /\ near.alone = x.alone
        /\ near.license = x.license /\ near.ins = x.ins
    <3> HIDE DEF x
    <3> QED
      BY <1>2, <2>1, <2>4 DEF Transactions, near
  <2>7. CASE Proceed(c, far)
    <3>1. far.op = "update" /\ far.at = 4
      BY <1>3, <2>5
    <3> QED
      BY <1>1, <2>5, <2>7, <3>1, RestContinues DEF Proceed
  <2>8. CASE x.license \notin {None, a.license} /\ Proceed(c, near)
    <3>1. /\ tx'[c].op = "update" /\ tx'[c].at = 4 /\ tx'[c].alone = x.alone
          /\ tx'[c].license = x.license /\ tx'[c].ins = x.ins /\ db' = db
          /\ \A d \in Clients \ {c} : tx'[d] = tx[d]
      BY <1>3, <2>6, <2>8, Forward DEF Proceed
    <3>2. \A b \in Visible(c, "athlete")' : b \in Visible(c, "athlete")
      BY <1>3, <3>1 DEF Visible
    <3>3. ASSUME x.alone PROVE LookedUp(c)'
      <4>1. x.seen \in db["athlete"] /\ x.seen.id = x.pk
        BY <1>2, <1>3, <3>3 DEF LookedUp
      <4>2. a = x.seen
        BY <1>5, <2>1, <4>1 DEF PInv, IInv, IdsInv
      <4>3. x.license = Blank \/ \A b \in Visible(c, "athlete") : b.license # x.license
        BY <1>2, <1>3, <2>8, <3>3, <4>2 DEF LookedUp
      <4> QED
        BY <3>1, <3>2, <4>3 DEF LookedUp
    <3> QED
      BY <1>1, <3>1, <3>3 DEF Continues
  <2> QED
    BY <2>2, <2>7, <2>8
<1> QED
  BY <1>4, <1>5 DEF LockAthlete

LEMMA RowsContinue ==
  ASSUME NobodyPurges, PInv, NEW c \in Clients,
         DeleteUsers(c) \/ DeleteAthletes(c) \/ DeletePerformances(c) \/ Cascade(c)
  PROVE  Continues(c)
<1> DEFINE n == [tx[c] EXCEPT !.todo = {}]
<1>1. Busy(c)
  BY DEF DeleteUsers, DeleteAthletes, DeletePerformances, Cascade, At
<1>2. Places(c) /\ tx[c] \in Transactions /\ tx[c].op \in Operations
  BY <1>1, OpenPlaces DEF PInv, IInv, TypeInv
<1>3. tx[c].op \in {"delete", "discard"}
  BY <1>2 DEF Places, DeleteUsers, DeleteAthletes, DeletePerformances, Cascade, NobodyPurges, Is
<1>4. PICK t \in Tables : \E rows : DeleteFrom(c, t, rows)
  BY DEF DeleteUsers, DeleteAthletes, DeletePerformances, Cascade, Tables
<1>5. CASE Proceed(c, n)
  <2>1. n \in Transactions /\ n.op = tx[c].op /\ n.alone = tx[c].alone
    BY <1>2 DEF Transactions
  <2> HIDE DEF n
  <2> QED
    BY <1>1, <1>3, <1>5, <2>1, RestContinues DEF Proceed
<1>6. ASSUME NEW r, tx' = [tx EXCEPT ![c].del[t] = @ \cup {r}]
      PROVE  Continues(c)
  <2>1. tx'[c].op = tx[c].op /\ \A d \in Clients \ {c} : tx'[d] = tx[d]
    BY <1>6, DeletedRow
  <2>2. tx'[c].alone = tx[c].alone
    BY <1>2, <1>6 DEF Transactions, PInv, IInv, TypeInv
  <2>3. LookedUp(c)'
    BY <1>3, <2>1 DEF LookedUp
  <2> QED
    BY <1>1, <2>1, <2>2, <2>3 DEF Continues
<1> QED
  BY <1>4, <1>5, <1>6 DEF DeleteFrom

LEMMA OthersContinue ==
  ASSUME NobodyPurges, PInv, NEW c \in Clients,
         AddPerformance(c) \/ WriteAthlete(c) \/ WriteUser(c) \/ LockPerformance(c) \/ Commit(c)
  PROVE  Continues(c)
<1> DEFINE x == tx[c]
<1>1. Busy(c)
  BY DEF AddPerformance, WriteAthlete, WriteUser, LockPerformance, Commit, At
<1>2. Places(c) /\ x \in Transactions /\ x.op \in Operations /\ tx \in [Clients -> Transactions]
  BY <1>1, OpenPlaces DEF PInv, IInv, TypeInv
<1>3. CASE Commit(c)
  <2>1. tx'[c] = NoTx /\ \A d \in Clients \ {c} : tx'[d] = tx[d]
    BY <1>3, CommitsOf
  <2> QED
    BY <1>1, <2>1, NoTxRows DEF Continues, Busy
<1>4. CASE AddPerformance(c) \/ WriteAthlete(c) \/ WriteUser(c) \/ LockPerformance(c)
  <2>1. /\ x.op \in {"record", "update", "setStatus", "amend"}
        /\ x.op = "record" => x.at = 2
        /\ x.op = "update" => x.at = 4
    <3>1. \/ Is(c, "record", 2) \/ Is(c, "update", 4) \/ Is(c, "setStatus", 2)
          \/ Is(c, "amend", 2)
      BY <1>2, <1>4
      DEF Places, AddPerformance, WriteAthlete, WriteUser, LockPerformance, NobodyPurges, Is
    <3> QED
      BY <3>1 DEF Is
  <2>2. CASE Abort(c, "error")
    BY <1>1, <2>2, AbortContinues
\* Whatever the statement writes.
  <2>3. ASSUME NEW share, NEW ins, NEW del,
               Advance(c, [x EXCEPT !.share = share, !.ins = ins, !.del = del])
        PROVE  Continues(c)
    <3> DEFINE n == [x EXCEPT !.share = share, !.ins = ins, !.del = del]
    <3>1. n.op = x.op /\ n.at = x.at /\ n.alone = x.alone
      BY <1>2 DEF Transactions
    <3>2. /\ tx'[c].op = n.op /\ tx'[c].at = n.at + 1 /\ tx'[c].alone = n.alone
          /\ \A d \in Clients \ {c} : tx'[d] = tx[d]
      BY <1>2, <2>3 DEF Advance, Transactions
    <3> HIDE DEF n
    <3>3. LookedUp(c)'
      BY <2>1, <3>1, <3>2 DEF LookedUp
    <3> QED
      BY <1>1, <3>1, <3>2, <3>3 DEF Continues
  <2>4. CASE Proceed(c, x)
    <3>1. /\ tx'[c].op = x.op /\ tx'[c].at = x.at + 1 /\ tx'[c].alone = x.alone
          /\ \A d \in Clients \ {c} : tx'[d] = tx[d]
      BY <1>2, <2>4, Forward DEF Proceed
    <3>2. LookedUp(c)'
      BY <2>1, <3>1 DEF LookedUp
    <3> QED
      BY <1>1, <3>1, <3>2 DEF Continues
  <2>5. CASE AddPerformance(c)
    <3>1. CASE \E a \in Visible(c, "athlete") : a.id = x.pk
      <4>1. PICK a \in Visible(c, "athlete") :
                   Advance(c, [x EXCEPT !.share = @ \cup {a.id},
                                        !.ins["performance"] =
                                          @ \cup {[id |-> seq["performance"] + 1,
                                                   athlete |-> a.id]}])
        BY <2>5, <3>1 DEF AddPerformance
      <4> DEFINE share == x.share \cup {a.id}
                 ins == [x.ins EXCEPT !["performance"] =
                           @ \cup {[id |-> seq["performance"] + 1, athlete |-> a.id]}]
      <4>2. Advance(c, [x EXCEPT !.share = share, !.ins = ins])
        BY <4>1
      <4> HIDE DEF share, ins
      <4>3. [x EXCEPT !.share = share, !.ins = ins] =
              [x EXCEPT !.share = share, !.ins = ins, !.del = x.del]
        BY <1>2 DEF Transactions
      <4>4. Advance(c, [x EXCEPT !.share = share, !.ins = ins, !.del = x.del])
        BY <4>2, <4>3, Zenon
      <4> QED
        BY <2>3, <4>4
    <3> QED
      BY <2>2, <2>5, <3>1 DEF AddPerformance
  <2>6. CASE WriteAthlete(c)
    <3> DEFINE row == [x.seen EXCEPT !.license = x.license]
               ins == [x.ins EXCEPT !["athlete"] = {row}]
    <3>1. Abort(c, "error") \/ Advance(c, [x EXCEPT !.ins = ins])
      BY <2>6 DEF WriteAthlete, Proceed
    <3> HIDE DEF ins
    <3>2. [x EXCEPT !.ins = ins] = [x EXCEPT !.share = x.share, !.ins = ins, !.del = x.del]
      BY <1>2 DEF Transactions
    <3>3. CASE Advance(c, [x EXCEPT !.ins = ins])
      <4>1. Advance(c, [x EXCEPT !.share = x.share, !.ins = ins, !.del = x.del])
        BY <3>2, <3>3, Zenon
      <4> QED
        BY <2>3, <4>1
    <3> QED
      BY <2>2, <3>1, <3>3
  <2>7. ASSUME NEW t, NEW old, NEW new, Overwrite(c, t, old, new)
        PROVE  Continues(c)
    <3> DEFINE ins == [x.ins EXCEPT ![t] = @ \cup {new}]
               del == [x.del EXCEPT ![t] = @ \cup {old}]
    <3>1. Advance(c, [x EXCEPT !.del = del, !.ins = ins])
      BY <2>7 DEF Overwrite, Proceed
    <3> HIDE DEF ins, del
    <3>2. [x EXCEPT !.del = del, !.ins = ins] =
            [x EXCEPT !.share = x.share, !.ins = ins, !.del = del]
      BY <1>2 DEF Transactions
    <3>3. Advance(c, [x EXCEPT !.share = x.share, !.ins = ins, !.del = del])
      BY <3>1, <3>2, Zenon
    <3> QED
      BY <2>3, <3>3
  <2>8. CASE WriteUser(c)
    <3>1. CASE \E u \in Visible(c, "user") : u.id = x.seen.user
      <4>1. PICK u : Overwrite(c, "user", u, [u EXCEPT !.active = x.on])
        BY <2>8, <3>1 DEF WriteUser
      <4> QED
        BY <2>7, <4>1
    <3> QED
      BY <2>4, <2>8, <3>1 DEF WriteUser
  <2>9. CASE LockPerformance(c)
    <3>1. CASE \E r \in Visible(c, "performance") : r.id = x.pk
      <4>1. PICK r : Overwrite(c, "performance", r, r)
        BY <2>9, <3>1 DEF LockPerformance
      <4> QED
        BY <2>7, <4>1
    <3> QED
      BY <2>4, <2>9, <3>1 DEF LockPerformance
  <2> QED
    BY <1>4, <2>5, <2>6, <2>8, <2>9
<1> QED
  BY <1>3, <1>4

LEMMA NextAlone ==
  ASSUME NobodyPurges, PInv, AloneInv, [Next]_vars
  PROVE  AloneInv'
<1>1. CASE UNCHANGED vars
  BY <1>1 DEF vars, AloneInv, Alone, Busy, LookedUp, Visible
<1>2. ASSUME NEW c \in Clients, NEW op \in Operations, Start(c, op) PROVE AloneInv'
  BY <1>2, StartAlone
<1>3. ASSUME NEW c \in Clients, Fail(c) PROVE AloneInv'
  BY <1>3, AbortContinues, ContinuesKeeps DEF Fail
<1>5. ASSUME NEW c \in Clients, Deadlocked(c) PROVE AloneInv'
  BY <1>5, AbortContinues, ContinuesKeeps DEF Deadlocked, OnRing, Waits
<1>4. ASSUME NEW c \in Clients, Step(c) PROVE AloneInv'
  <2>1. CASE \/ FreeEmail(c) \/ FreeLicense(c) \/ GetUserRole(c) \/ GetAdminRole(c)
             \/ FindAthlete(c) \/ FindPerformance(c) \/ ScanUsers(c) \/ ScanAthletes(c)
    BY <2>1, QueriesContinue, ContinuesKeeps
  <2>2. CASE AddUserRole(c) \/ AddAdminRole(c) \/ AddUser(c) \/ AddAdmin(c) \/ AddAthlete(c)
    BY <2>2, AddsContinue, ContinuesKeeps
  <2>3. CASE LockAthlete(c)
    BY <2>3, LockAthleteContinues, ContinuesKeeps
  <2>4. CASE DeleteUsers(c) \/ DeleteAthletes(c) \/ DeletePerformances(c) \/ Cascade(c)
    BY <2>4, RowsContinue, ContinuesKeeps
  <2>5. CASE AddPerformance(c) \/ WriteAthlete(c) \/ WriteUser(c) \/ LockPerformance(c) \/ Commit(c)
    BY <2>5, OthersContinue, ContinuesKeeps
  <2> QED
    BY <1>4, <2>1, <2>2, <2>3, <2>4, <2>5 DEF Step
<1> QED
  BY <1>1, <1>2, <1>3, <1>4, <1>5 DEF Next

LEMMA InitAlone ==
  ASSUME Init
  PROVE  AloneInv
<1>1. \A c \in Clients : tx[c] = NoTx
  BY DEF Init
<1> QED
  BY <1>1, NoTxRows DEF AloneInv, Alone, Busy

\* The statements an IntegrityError can come from.
LEMMA Conflicts ==
  ASSUME NEW c \in Clients, answer' = "error",
         (\E op \in Operations : Start(c, op)) \/ Fail(c) \/ Step(c)
  PROVE  /\ Abort(c, "error")
         /\ \/ AddUserRole(c) \/ AddAdminRole(c) \/ AddUser(c) \/ AddAdmin(c) \/ AddAthlete(c)
            \/ AddPerformance(c) \/ WriteAthlete(c)
<1>1. ~Fail(c) /\ \A op \in Operations : ~Start(c, op)
  BY DEF Fail, Start, Abort
<1>2. /\ ~FreeEmail(c) /\ ~FreeLicense(c) /\ ~GetUserRole(c) /\ ~GetAdminRole(c)
      /\ ~FindAthlete(c) /\ ~FindPerformance(c) /\ ~ScanUsers(c) /\ ~ScanAthletes(c)
  BY DEF FreeEmail, FreeLicense, GetUserRole, GetAdminRole, FindAthlete, FindPerformance,
         ScanUsers, ScanAthletes, GetRole, Skip, Proceed, Advance, Abort
<1>3. ~LockAthlete(c) /\ ~WriteUser(c) /\ ~LockPerformance(c) /\ ~Commit(c)
  BY DEF LockAthlete, WriteUser, LockPerformance, Commit, Overwrite, Skip, Proceed, Advance
<1>4. ~DeleteUsers(c) /\ ~DeleteAthletes(c) /\ ~DeletePerformances(c) /\ ~Cascade(c)
  BY DEF DeleteUsers, DeleteAthletes, DeletePerformances, Cascade, DeleteFrom, Proceed, Advance
<1>5. CASE AddUserRole(c) \/ AddAdminRole(c) \/ AddUser(c) \/ AddAdmin(c) \/ AddAthlete(c)
  BY <1>5 DEF AddUserRole, AddAdminRole, AddUser, AddAdmin, AddAthlete, Insert, Advance
<1>6. CASE AddPerformance(c) \/ WriteAthlete(c)
  BY <1>6 DEF AddPerformance, WriteAthlete, Proceed, Advance
<1> QED
  BY <1>1, <1>2, <1>3, <1>4, <1>5, <1>6 DEF Step

\* A request that overlapped with no other has looked up whatever an insert of
\* its could conflict with.
LEMMA ErrorsAreRaces ==
  ASSUME NobodyPurges, PInv, AloneInv, [Next]_vars, NEW c \in Clients,
         answer' = "error", Busy(c), ~Busy(c)', tx[c].alone
  PROVE  tx[c].op = "update" /\ tx[c].license = Blank
<1> DEFINE x == tx[c]
<1>1. PICK d \in Clients : (\E op \in Operations : Start(d, op)) \/ Step(d) \/ Fail(d)
  <2>1. ~UNCHANGED vars
    BY DEF vars, Busy
  <2>2. ASSUME NEW d \in Clients PROVE ~Deadlocked(d)
    <3> SUFFICES ASSUME Deadlocked(d) PROVE FALSE
      OBVIOUS
    <3>1. PICK e \in Clients : Waits(d, e)
      BY DEF Deadlocked, OnRing
    <3>2. d = c
      BY DEF Deadlocked, Abort, Busy, PInv, IInv, TypeInv
    <3> QED
      BY <3>1, <3>2 DEF Waits, AloneInv, Alone
  <2> QED
    BY <2>1, <2>2 DEF Next
<1>2. /\ Abort(d, "error")
      /\ \/ AddUserRole(d) \/ AddAdminRole(d) \/ AddUser(d) \/ AddAdmin(d) \/ AddAthlete(d)
         \/ AddPerformance(d) \/ WriteAthlete(d)
  BY <1>1, Conflicts
<1>3. d = c
  BY <1>2 DEF Abort, Busy, PInv, IInv, TypeInv
<1>4. LookedUp(c) /\ Places(c) /\ x \in Transactions /\ x.op \in Operations /\ Progress(x)
  BY OpenPlaces DEF AloneInv, Alone, PInv, IInv, TypeInv, ProgressInv
<1>5. ASSUME NEW t \in {"role", "user", "athlete"}, NEW row, Insert(c, t, row)
      PROVE  \E r \in Visible(c, t) : SameKey(t, r, row)
  BY <1>5 DEF Insert, Advance
<1>6. ~AddUserRole(c)
  <2> SUFFICES ASSUME AddUserRole(c) PROVE FALSE
    OBVIOUS
  <2>1. Is(c, "create", 4)
    BY <1>4 DEF Places, AddUserRole, NobodyPurges, Is
  <2>2. \E r \in Visible(c, "role") : SameKey("role", r, "user")
    BY <1>5 DEF AddUserRole
  <2> QED
    BY <1>4, <2>1, <2>2 DEF SameKey, LookedUp, Is
<1>7. ~AddAdminRole(c)
  <2> SUFFICES ASSUME AddAdminRole(c) PROVE FALSE
    OBVIOUS
  <2>1. Is(c, "createAdmin", 3)
    BY <1>4 DEF Places, AddAdminRole, NobodyPurges, Is
  <2>2. \E r \in Visible(c, "role") : SameKey("role", r, "admin")
    BY <1>5 DEF AddAdminRole
  <2> QED
    BY <1>4, <2>1, <2>2 DEF SameKey, LookedUp, Is
<1>8. ~AddUser(c)
  <2> SUFFICES ASSUME AddUser(c) PROVE FALSE
    OBVIOUS
  <2>1. Is(c, "create", 5)
    BY <1>4 DEF Places, AddUser, NobodyPurges, Is
  <2>2. \E r \in Visible(c, "user") : r.email = x.email
    BY <1>5 DEF AddUser, SameKey
  <2> QED
    BY <1>4, <2>1, <2>2 DEF LookedUp, Is
<1>9. ~AddAdmin(c)
  <2> SUFFICES ASSUME AddAdmin(c) PROVE FALSE
    OBVIOUS
  <2>1. Is(c, "createAdmin", 4)
    BY <1>4 DEF Places, AddAdmin, NobodyPurges, Is
  <2>2. x.op # "seed"
    BY <2>1 DEF Is
  <2>3. \E r \in Visible(c, "user") : r.email = x.email
    BY <1>5, <2>2 DEF AddAdmin, AdminAddress, SameKey
  <2> QED
    BY <1>4, <2>1, <2>3 DEF LookedUp, Is
<1>10. ~AddAthlete(c)
  <2> SUFFICES ASSUME AddAthlete(c) PROVE FALSE
    OBVIOUS
  <2>1. Is(c, "create", 6)
    BY <1>4 DEF Places, AddAthlete, NobodyPurges, Is
  <2>2. \E r \in Visible(c, "athlete") : r.license = x.license
    BY <1>5 DEF AddAthlete, SameKey
  <2> QED
    BY <1>4, <2>1, <2>2 DEF LookedUp, Is
<1>11. ~AddPerformance(c)
  <2> SUFFICES ASSUME AddPerformance(c) PROVE FALSE
    OBVIOUS
  <2>1. Is(c, "record", 2)
    BY <1>4 DEF Places, AddPerformance, NobodyPurges, Is
  <2>2. ~ \E a \in Visible(c, "athlete") : a.id = x.pk
    BY DEF AddPerformance, Advance
  <2> QED
    BY <1>4, <2>1, <2>2 DEF LookedUp, Is
<1>12. CASE WriteAthlete(c)
  <2> DEFINE row == [x.seen EXCEPT !.license = x.license]
  <2>1. Is(c, "update", 4)
    BY <1>4, <1>12 DEF Places, WriteAthlete, NobodyPurges, Is
  <2>2. x.seen \in Rows("athlete")
    BY <1>4, <2>1 DEF Progress, Is
  <2>3. row.license = x.license
    BY <2>2 DEF Rows
  <2> HIDE DEF row
  <2>4. \E a \in Visible(c, "athlete") : SameKey("athlete", a, row)
    BY <1>12 DEF WriteAthlete, Proceed, Advance, row
  <2> QED
    BY <1>4, <2>1, <2>3, <2>4 DEF SameKey, LookedUp, Is
<1> QED
  BY <1>2, <1>3, <1>6, <1>7, <1>8, <1>9, <1>10, <1>11, <1>12

\* As long as nobody runs the purge or the seeder, the 500 of an IntegrityError
\* is the answer of a request that overlapped with another, or of an update to
\* an empty licence: every other conflict was found by a query and answered with
\* a 403 or 404, for any number of clients, emails and licences.
THEOREM OnlyRacesError ==
  ASSUME NobodyPurges
  PROVE  Spec => SequentialNeverErrors
<1> DEFINE Told == \A c \in Clients :
                     answer' = "error" /\ Busy(c) /\ ~Busy(c)' =>
                       ~tx[c].alone \/ (tx[c].op = "update" /\ tx[c].license = Blank)
<1>1. Init => PInv /\ AloneInv
  BY InitProfiles, InitAlone
<1>2. PInv /\ AloneInv /\ [Next]_vars => (PInv /\ AloneInv)'
  BY NextProfiles, NextAlone
<1>3. PInv /\ AloneInv /\ [Next]_vars => [Told]_vars
  BY ErrorsAreRaces
<1> QED
  BY <1>1, <1>2, <1>3, PTL DEF Spec, SequentialNeverErrors

-----------------------------------------------------------------------------
(* The registry that requests implement: the inductive invariant           *)

\* The records that a transaction reads, writes and removes, by its operation.
RecordProgress(t) ==
  /\ t.op \in {"create", "createAdmin"} =>
       t.email \in Emails /\ \A u \in t.ins["user"] : u.email = t.email
  /\ t.op = "create" =>
       /\ t.license \in Licenses
       /\ \A u \in t.ins["user"] : u.active = TRUE
       /\ \A a \in t.ins["athlete"] : a.license = t.license
  /\ t.op = "createAdmin" /\ t.at = 5 => t.ins["user"] # {}
  /\ t.op = "update" => t.license \in Licenses \cup {None}
  /\ t.op = "update" /\ t.at = 4 => t.license \in Licenses
  /\ t.op = "update" /\ t.at = 5 =>
       \/ t.ins["athlete"] = {} /\ t.del["athlete"] = {}
       \/ \E a \in t.del["athlete"] :
            /\ t.del["athlete"] = {a}
            /\ \/ t.ins["athlete"] = {a}
               \/ /\ t.license \in Licenses
                  /\ t.ins["athlete"] = {[a EXCEPT !.license = t.license]}
  /\ t.op = "setStatus" =>
       \/ t.ins["user"] = {} /\ t.del["user"] = {}
       \/ \E u \in t.del["user"] :
            t.del["user"] = {u} /\ t.ins["user"] = {[u EXCEPT !.active = t.on]}
  /\ t.op = "delete" =>
       /\ t.at = 1 => t.del["user"] = {}
       /\ t.at >= 2 => t.todo \subseteq {t.seen.user}
       /\ \A u \in t.del["user"] : u.id = t.seen.user
       /\ \A r \in t.del["performance"] : \E a \in t.del["athlete"] : a.id = r.athlete
  /\ t.op = "discard" =>
       /\ t.at >= 2 => t.todo \subseteq {t.pk}
       /\ \A r \in t.del["performance"] : r.id = t.pk
  /\ t.op = "amend" => t.ins["performance"] = t.del["performance"]
  /\ t.op = "record" =>
       /\ t.at <= 2 => t.ins["performance"] = {}
       /\ \A r, s \in t.ins["performance"] : r = s
  /\ t.op \notin {"amend", "delete", "discard"} => t.del["performance"] = {}

RecordsInv == \A c \in Clients : RecordProgress(tx[c])

\* No two accounts have one e-mail, no two athletes one licence: neither in the
\* tables, nor once what is in progress is committed, in whatever order.
KeysInv ==
  \A t \in {"user", "athlete"} :
    /\ \A r, s \in db[t] : SameKey(t, r, s) => r = s
    /\ \A c \in Clients : \A r \in tx[c].ins[t] :
         /\ \A s \in db[t] \ tx[c].del[t] : ~SameKey(t, r, s)
         /\ \A d \in Clients \ {c} : \A s \in tx[d].ins[t] : ~SameKey(t, r, s)

\* Two results never have the same id.
ResultIds ==
  /\ \A r, s \in db["performance"] : r.id = s.id => r = s
  /\ \A r \in db["performance"] : r.id <= seq["performance"]
  /\ \A c \in Clients : \A r \in tx[c].ins["performance"] :
       /\ r.id <= seq["performance"]
       /\ \/ r \in tx[c].del["performance"]
          \/ /\ \A s \in db["performance"] : s.id # r.id
             /\ \A d \in Clients \ {c} : \A s \in tx[d].ins["performance"] : s.id # r.id

\* An account that a deletion has read of a profile is nobody's but an athlete's.
SeenInv ==
  \A c \in Clients : tx[c].op = "delete" /\ tx[c].at >= 2 =>
    /\ tx[c].seen.user \in Nat /\ tx[c].seen.user <= seq["user"]
    /\ \A u \in db["user"] : u.id = tx[c].seen.user => u.role = "user"
    /\ \A d \in Clients : \A u \in tx[d].ins["user"] : u.id = tx[c].seen.user => u.role = "user"

RInv == RecordsInv /\ KeysInv /\ ResultIds /\ SeenInv

-----------------------------------------------------------------------------
(* What a step that is not a commit does to them                           *)

\* The new rows of c replace rows that it holds and that have their keys, or
\* have keys that nobody else has, written or committed.
NewKeys(c) ==
  \A t \in {"user", "athlete"} : \A r \in tx'[c].ins[t] :
    \/ r \in tx[c].ins[t] /\ tx[c].del[t] \subseteq tx'[c].del[t]
    \/ \E s \in db[t] : s \in tx'[c].del[t] /\ SameKey(t, s, r) /\ ~RowLocked(c, t, s)
    \/ /\ tx[c].del[t] \subseteq tx'[c].del[t]
       /\ ~KeyContended(c, t, r)
       /\ \A s \in Visible(c, t) : ~SameKey(t, s, r)

Writes(c) ==
  /\ \A d \in Clients \ {c} : tx'[d].on = tx[d].on /\ tx'[d].todo = tx[d].todo
  /\ RecordProgress(tx'[c])
  /\ NewKeys(c)
  /\ seq["performance"] <= seq'["performance"]
  /\ \A r \in tx'[c].ins["performance"] :
       /\ r.id <= seq'["performance"]
       /\ \/ r \in tx'[c].del["performance"]
          \/ /\ r \in tx[c].ins["performance"]
             /\ tx[c].del["performance"] \subseteq tx'[c].del["performance"]
          \/ seq["performance"] < r.id
  /\ tx'[c].op = "delete" /\ tx'[c].at >= 2 =>
       \/ tx[c].op = "delete" /\ tx[c].at >= 2 /\ tx'[c].seen = tx[c].seen
       \/ tx'[c].seen \in db["athlete"]

\* To have the same key is an equivalence of the rows of a table.
LEMMA SameKeys ==
  ASSUME NEW t \in {"user", "athlete"}
  PROVE  /\ \A r : SameKey(t, r, r)
         /\ \A r, s : SameKey(t, r, s) => SameKey(t, s, r)
         /\ \A r, s, q : SameKey(t, r, s) /\ SameKey(t, s, q) => SameKey(t, r, q)
  BY DEF SameKey

LEMMA WritesKeys ==
  ASSUME PInv, PInv', KeysInv, NEW c \in Clients, Only(c), db' = db, NewKeys(c)
  PROVE  KeysInv'
<1> SUFFICES ASSUME NEW t \in {"user", "athlete"}
             PROVE  /\ \A r, s \in db'[t] : SameKey(t, r, s) => r = s
                    /\ \A d \in Clients : \A r \in tx'[d].ins[t] :
                         /\ \A s \in db'[t] \ tx'[d].del[t] : ~SameKey(t, r, s)
                         /\ \A e \in Clients \ {d} : \A s \in tx'[e].ins[t] : ~SameKey(t, r, s)
  BY DEF KeysInv, SameKey
<1>1. \A r, s \in db[t] : SameKey(t, r, s) => r = s
  BY DEF KeysInv
<1>2. \A d \in Clients : \A r \in tx[d].ins[t] :
        /\ \A s \in db[t] \ tx[d].del[t] : ~SameKey(t, r, s)
        /\ \A e \in Clients \ {d} : \A s \in tx[e].ins[t] : ~SameKey(t, r, s)
  BY DEF KeysInv
<1>3. \A d \in Clients \ {c} : tx'[d].ins[t] = tx[d].ins[t] /\ tx'[d].del[t] = tx[d].del[t]
  BY DEF Only
<1>4. ASSUME NEW r \in tx'[c].ins[t]
      PROVE  /\ \A s \in db[t] \ tx'[c].del[t] : ~SameKey(t, r, s)
             /\ \A e \in Clients \ {c} : \A s \in tx[e].ins[t] : ~SameKey(t, r, s)
  <2>1. CASE r \in tx[c].ins[t] /\ tx[c].del[t] \subseteq tx'[c].del[t]
    BY <1>2, <2>1
  <2>2. CASE \E s \in db[t] : s \in tx'[c].del[t] /\ SameKey(t, s, r) /\ ~RowLocked(c, t, s)
    <3>1. PICK s \in db[t] : s \in tx'[c].del[t] /\ SameKey(t, s, r) /\ ~RowLocked(c, t, s)
      BY <2>2
    <3>2. ASSUME NEW q \in db[t] \ tx'[c].del[t], SameKey(t, r, q) PROVE FALSE
      BY <1>1, <3>1, <3>2, SameKeys
    <3>3. ASSUME NEW e \in Clients \ {c}, NEW q \in tx[e].ins[t], SameKey(t, r, q) PROVE FALSE
      <4>1. s \in db[t] \ tx[e].del[t]
        BY <3>1 DEF RowLocked
      <4>2. SameKey(t, q, s)
        BY <3>1, <3>3, SameKeys
      <4> QED
        BY <1>2, <4>1, <4>2
    <3> QED
      BY <3>2, <3>3
  <2>3. CASE /\ tx[c].del[t] \subseteq tx'[c].del[t]
             /\ ~KeyContended(c, t, r)
             /\ \A s \in Visible(c, t) : ~SameKey(t, s, r)
    <3>1. ASSUME NEW s \in db[t] \ tx'[c].del[t] PROVE ~SameKey(t, r, s)
      <4>1. s \in Visible(c, t)
        BY <2>3 DEF Visible
      <4> QED
        BY <2>3, <4>1, SameKeys
    <3>2. ASSUME NEW e \in Clients \ {c}, NEW s \in tx[e].ins[t] PROVE ~SameKey(t, r, s)
      <4>1. ~SameKey(t, s, r)
        BY <2>3 DEF KeyContended, HoldsKey
      <4> QED
        BY <4>1, SameKeys
    <3> QED
      BY <3>1, <3>2
  <2> QED
    BY <2>1, <2>2, <2>3 DEF NewKeys
<1>5. ASSUME NEW d \in Clients, NEW r \in tx'[d].ins[t]
      PROVE  /\ \A s \in db[t] \ tx'[d].del[t] : ~SameKey(t, r, s)
             /\ \A e \in Clients \ {d} : \A s \in tx'[e].ins[t] : ~SameKey(t, r, s)
  <2>1. CASE d = c
    BY <1>3, <1>4, <2>1
  <2>2. CASE d # c
    <3>1. r \in tx[d].ins[t] /\ tx'[d].del[t] = tx[d].del[t]
      BY <1>3, <2>2
    <3>2. ASSUME NEW e \in Clients \ {d}, NEW s \in tx'[e].ins[t] PROVE ~SameKey(t, r, s)
      <4>1. CASE e = c
        BY <1>4, <2>2, <3>1, <4>1, SameKeys
      <4>2. CASE e # c
        BY <1>2, <1>3, <3>1, <4>2
      <4> QED
        BY <4>1, <4>2
    <3> QED
      BY <1>2, <3>1, <3>2
  <2> QED
    BY <2>1, <2>2
<1> QED
  BY <1>1, <1>5

LEMMA ResultTypes ==
  ASSUME TypeInv
  PROVE  /\ seq["performance"] \in Nat
         /\ \A r \in db["performance"] : r.id \in Nat
         /\ \A c \in Clients : \A r \in tx[c].ins["performance"] \cup tx[c].del["performance"] :
              r.id \in Nat
<1>1. "performance" \in Tables /\ "performance" \in Numbered
  BY DEF Tables, Numbered
<1>2. /\ db["performance"] \subseteq Rows("performance")
      /\ \A c \in Clients :
           tx[c].ins["performance"] \cup tx[c].del["performance"] \subseteq Rows("performance")
  BY <1>1, RowsOf DEF TypeInv, Transactions
<1>3. \A r \in Rows("performance") : r.id \in Nat
  BY DEF Rows
<1> QED
  BY <1>1, <1>2, <1>3 DEF TypeInv

LEMMA WritesIds ==
  ASSUME PInv, PInv', ResultIds, NEW c \in Clients, Only(c), db' = db, Writes(c)
  PROVE  ResultIds'
<1> DEFINE p == "performance"
<1>1. seq[p] \in Nat /\ seq'[p] \in Nat /\ seq[p] <= seq'[p]
  <2>1. TypeInv /\ TypeInv' /\ p \in Numbered
    BY DEF PInv, IInv, Numbered
  <2> QED
    BY <2>1 DEF TypeInv, Writes
<1>2. /\ \A r \in db[p] : r.id \in Nat
      /\ \A d \in Clients : \A r \in tx[d].ins[p] : r.id \in Nat
  BY ResultTypes DEF PInv, IInv
<1>3. \A r \in tx'[c].ins[p] : r.id \in Nat
  <2>1. tx'[c].ins \in RowSets
    BY DEF PInv, IInv, TypeInv, Transactions
  <2>2. tx'[c].ins[p] \subseteq Rows(p)
    BY <2>1, RowsOf DEF Tables
  <2> QED
    BY <2>2 DEF Rows
<1>4. /\ \A r, s \in db[p] : r.id = s.id => r = s
      /\ \A r \in db[p] : r.id <= seq[p]
      /\ \A d \in Clients : \A r \in tx[d].ins[p] :
           /\ r.id <= seq[p]
           /\ \/ r \in tx[d].del[p]
              \/ /\ \A s \in db[p] : s.id # r.id
                 /\ \A e \in Clients \ {d} : \A s \in tx[e].ins[p] : s.id # r.id
  BY DEF ResultIds
<1>5. \A d \in Clients \ {c} : tx'[d].ins[p] = tx[d].ins[p] /\ tx'[d].del[p] = tx[d].del[p]
  BY DEF Only
<1>6. \A d \in Clients : tx[d].del[p] \subseteq db[p] /\ tx'[d].del[p] \subseteq db[p]
  BY DEF PInv, IInv, LocksInv
<1>7. ASSUME NEW r \in tx'[c].ins[p], r \notin tx'[c].del[p]
      PROVE  /\ \A s \in db[p] : s.id # r.id
             /\ \A e \in Clients \ {c} : \A s \in tx[e].ins[p] : s.id # r.id
  <2>1. CASE r \in tx[c].ins[p] /\ tx[c].del[p] \subseteq tx'[c].del[p]
    BY <1>4, <1>7, <2>1
  <2>2. CASE seq[p] < r.id
    BY <1>1, <1>2, <1>3, <1>4, <2>2
  <2> QED
    BY <1>7, <2>1, <2>2 DEF Writes
<1>8. ASSUME NEW d \in Clients, NEW r \in tx'[d].ins[p], r \notin tx'[d].del[p]
      PROVE  /\ \A s \in db[p] : s.id # r.id
             /\ \A e \in Clients \ {d} : \A s \in tx'[e].ins[p] : s.id # r.id
  <2>1. CASE d = c
    BY <1>5, <1>7, <1>8, <2>1
  <2>2. CASE d # c
    <3>1. /\ \A s \in db[p] : s.id # r.id
          /\ \A e \in Clients \ {d} : \A s \in tx[e].ins[p] : s.id # r.id
      BY <1>4, <1>5, <1>8, <2>2
    <3>2. ASSUME NEW s \in tx'[c].ins[p] PROVE s.id # r.id
      BY <1>5, <1>6, <1>7, <1>8, <2>2, <3>1
    <3> QED
      BY <1>5, <3>1, <3>2
  <2> QED
    BY <2>1, <2>2
<1>9. ASSUME NEW d \in Clients, NEW r \in tx'[d].ins[p] PROVE r.id <= seq'[p]
  <2>1. CASE d = c
    BY <2>1 DEF Writes
  <2>2. CASE d # c
    <3>1. r \in tx[d].ins[p] /\ r.id \in Nat /\ r.id <= seq[p]
      BY <1>2, <1>4, <1>5, <2>2
    <3> QED
      BY <1>1, <3>1
  <2> QED
    BY <2>1, <2>2
<1>10. \A r \in db[p] : r.id <= seq'[p]
  BY <1>1, <1>2, <1>4
<1> QED
  BY <1>4, <1>8, <1>9, <1>10 DEF ResultIds

\* An account that c writes anew has the role of the one it replaces.
LEMMA NewAccounts ==
  ASSUME PInv', NEW d \in Clients, NEW u \in tx'[d].ins["user"]
  PROVE  \/ \E v \in db'["user"] : v.id = u.id /\ v.role = u.role
         \/ /\ \A v \in db'["user"] : v.id # u.id
            /\ tx'[d].del["user"] = {}
<1>1. AccountProgress(tx'[d]) /\ tx'[d].del["user"] \subseteq db'["user"]
  BY DEF PInv, AccountsInv, AccountLocks
<1>2. CASE tx'[d].op = "setStatus"
  BY <1>1, <1>2 DEF AccountProgress
<1>3. CASE tx'[d].op # "setStatus"
  <2>1. tx'[d].del["user"] = {}
    BY <1>1, <1>3 DEF AccountProgress
  <2> QED
    BY <2>1 DEF PInv, AccountIds
<1> QED
  BY <1>2, <1>3

LEMMA WritesSeen ==
  ASSUME PInv, PInv', SeenInv, NEW c \in Clients, Good(c), Settles(c), Writes(c)
  PROVE  SeenInv'
<1>1. /\ db' = db /\ Only(c) /\ seq["user"] \in Nat /\ seq'["user"] \in Nat
      /\ seq["user"] <= seq'["user"]
  BY AccountTypes DEF Good, Work, Settles, PInv, IInv, TypeInv, Numbered
<1>2. \A d \in Clients \ {c} : tx'[d].ins["user"] = tx[d].ins["user"]
  BY <1>1 DEF Only
<1>3. ASSUME NEW d \in Clients, tx'[d].op = "delete", tx'[d].at >= 2
      PROVE  \/ tx[d].op = "delete" /\ tx[d].at >= 2 /\ tx'[d].seen = tx[d].seen
             \/ tx'[d].seen \in db["athlete"]
  BY <1>1, <1>3 DEF Writes, Only
<1>4. ASSUME NEW d \in Clients, tx'[d].op = "delete", tx'[d].at >= 2
      PROVE  /\ tx'[d].seen.user \in Nat /\ tx'[d].seen.user <= seq["user"]
             /\ \A u \in db["user"] : u.id = tx'[d].seen.user => u.role = "user"
  <2>1. CASE tx[d].op = "delete" /\ tx[d].at >= 2 /\ tx'[d].seen = tx[d].seen
    <3>1. tx[d].seen.user \in Nat /\ tx[d].seen.user <= seq["user"]
      BY <2>1 DEF SeenInv
    <3> QED
      BY <2>1 DEF SeenInv
  <2>2. CASE tx'[d].seen \in db["athlete"]
    <3>1. PICK u \in db["user"] : u.id = tx'[d].seen.user /\ u.role = "user"
      BY <2>2 DEF PInv, Matched
    <3>2. u.id \in Nat /\ u.id <= seq["user"]
      BY AccountTypes DEF PInv, IInv, AccountIds
    <3> QED
      BY <3>1, <3>2 DEF PInv, AccountIds
  <2> QED
    BY <1>3, <1>4, <2>1, <2>2
<1>5. ASSUME NEW d \in Clients, tx'[d].op = "delete", tx'[d].at >= 2,
             NEW e \in Clients, NEW u \in tx'[e].ins["user"], u.id = tx'[d].seen.user
      PROVE  u.role = "user"
  <2>1. CASE \E v \in db["user"] : v.id = u.id /\ v.role = u.role
    BY <1>4, <1>5, <2>1
  <2>2. CASE /\ \A v \in db["user"] : v.id # u.id
             /\ tx'[e].del["user"] = {}
    <3>1. tx[d].op = "delete" /\ tx[d].at >= 2 /\ tx'[d].seen = tx[d].seen
      BY <1>3, <1>5, <2>2 DEF PInv, Matched
    <3>2. CASE u \in tx[e].ins["user"]
      BY <1>5, <3>1, <3>2 DEF SeenInv
    <3>3. CASE u \notin tx[e].ins["user"]
      <4>1. e = c
        BY <1>2, <1>5, <3>3
      <4>2. seq["user"] < u.id
        BY <1>5, <2>2, <3>3, <4>1 DEF Settles
      <4> QED
        BY <1>1, <1>4, <1>5, <4>2
    <3> QED
      BY <3>2, <3>3
  <2> QED
    BY <1>1, <1>5, <2>1, <2>2, NewAccounts
<1>6. ASSUME NEW d \in Clients, tx'[d].op = "delete", tx'[d].at >= 2
      PROVE  tx'[d].seen.user <= seq'["user"]
  BY <1>1, <1>4, <1>6
<1> QED
  BY <1>1, <1>4, <1>5, <1>6 DEF SeenInv

LEMMA WritesKeep ==
  ASSUME PInv, PInv', RInv, NEW c \in Clients, Good(c), Settles(c), Writes(c)
  PROVE  RInv'
<1>1. Only(c) /\ db' = db
  BY DEF Good, Work
<1>2. RecordsInv'
  <2>1. ASSUME NEW d \in Clients \ {c} PROVE RecordProgress(tx'[d])
    <3>1. /\ tx'[d].op = tx[d].op /\ tx'[d].at = tx[d].at
          /\ tx'[d].email = tx[d].email /\ tx'[d].license = tx[d].license
          /\ tx'[d].seen = tx[d].seen /\ tx'[d].ins = tx[d].ins /\ tx'[d].del = tx[d].del
          /\ tx'[d].on = tx[d].on /\ tx'[d].todo = tx[d].todo /\ tx'[d].pk = tx[d].pk
      BY <1>1 DEF Only, Settles, Writes
    <3>2. RecordProgress(tx[d])
      BY DEF RInv, RecordsInv
    <3> QED
      BY <3>1, <3>2 DEF RecordProgress
  <2> QED
    BY <2>1 DEF RecordsInv, Writes
<1>3. KeysInv'
  BY <1>1, WritesKeys DEF RInv, Writes
<1>4. ResultIds'
  BY <1>1, WritesIds DEF RInv
<1>5. SeenInv'
  BY WritesSeen DEF RInv
<1> QED
  BY <1>2, <1>3, <1>4, <1>5 DEF RInv

-----------------------------------------------------------------------------
(* What a commit does to them                                              *)

\* The tables and transactions behind c's commit.
LEMMA CommitTables ==
  ASSUME NobodyPurges, PInv, NEW c \in Clients, Commit(c)
  PROVE  /\ \A t \in {"user", "athlete", "performance"} :
              /\ db'[t] = (db[t] \ tx[c].del[t]) \cup tx[c].ins[t]
              /\ tx'[c].ins[t] = {} /\ tx'[c].del[t] = {}
         /\ tx'[c].op = "none" /\ seq' = seq
         /\ \A d \in Clients \ {c} : tx'[d] = tx[d]
<1>1. tx'[c] = NoTx /\ seq' = seq /\ \A d \in Clients \ {c} : tx'[d] = tx[d]
  BY CommitsOf
<1>2. \A t \in Tables : db'[t] = (db[t] \ tx[c].del[t]) \cup tx[c].ins[t]
  BY DEF Commit
<1>3. \A t \in Tables : NoTx.ins[t] = {} /\ NoTx.del[t] = {}
  BY NoTxType DEF NoRows
<1> QED
  BY <1>1, <1>2, <1>3, NoTxType DEF Tables

LEMMA CommitKeys ==
  ASSUME NobodyPurges, PInv, KeysInv, NEW c \in Clients, Commit(c)
  PROVE  KeysInv'
<1> SUFFICES ASSUME NEW t \in {"user", "athlete"}
             PROVE  /\ \A r, s \in db'[t] : SameKey(t, r, s) => r = s
                    /\ \A d \in Clients : \A r \in tx'[d].ins[t] :
                         /\ \A s \in db'[t] \ tx'[d].del[t] : ~SameKey(t, r, s)
                         /\ \A e \in Clients \ {d} : \A s \in tx'[e].ins[t] : ~SameKey(t, r, s)
  BY DEF KeysInv, SameKey
<1>1. /\ db'[t] = (db[t] \ tx[c].del[t]) \cup tx[c].ins[t]
      /\ tx'[c].ins[t] = {} /\ tx'[c].del[t] = {}
      /\ \A d \in Clients \ {c} : tx'[d] = tx[d]
  BY CommitTables
<1>2. \A r, s \in db[t] : SameKey(t, r, s) => r = s
  BY DEF KeysInv
<1>3. \A d \in Clients : \A r \in tx[d].ins[t] :
        /\ \A s \in db[t] \ tx[d].del[t] : ~SameKey(t, r, s)
        /\ \A e \in Clients \ {d} : \A s \in tx[e].ins[t] : ~SameKey(t, r, s)
  BY DEF KeysInv
<1>4. \A r, s \in tx[c].ins[t] : r = s
  BY DEF PInv, AccountsInv, AccountProgress, IInv, ProgressInv, Progress
<1>5. \A r, s \in db'[t] : SameKey(t, r, s) => r = s
  BY <1>1, <1>2, <1>3, <1>4, SameKeys
<1>6. ASSUME NEW d \in Clients, NEW r \in tx'[d].ins[t]
      PROVE  /\ \A s \in db'[t] \ tx'[d].del[t] : ~SameKey(t, r, s)
             /\ \A e \in Clients \ {d} : \A s \in tx'[e].ins[t] : ~SameKey(t, r, s)
  <2>1. d # c /\ tx'[d] = tx[d]
    BY <1>1
  <2> QED
    BY <1>1, <1>3, <2>1
<1> QED
  BY <1>5, <1>6

LEMMA CommitResultIds ==
  ASSUME NobodyPurges, PInv, RInv, NEW c \in Clients, Commit(c)
  PROVE  ResultIds'
<1> DEFINE p == "performance"
<1>1. /\ db'[p] = (db[p] \ tx[c].del[p]) \cup tx[c].ins[p]
      /\ tx'[c].ins[p] = {} /\ tx'[c].del[p] = {} /\ seq' = seq
      /\ \A d \in Clients \ {c} : tx'[d] = tx[d]
  BY CommitTables
<1>2. /\ \A r, s \in db[p] : r.id = s.id => r = s
      /\ \A r \in db[p] : r.id <= seq[p]
      /\ \A d \in Clients : \A r \in tx[d].ins[p] :
           /\ r.id <= seq[p]
           /\ \/ r \in tx[d].del[p]
              \/ /\ \A s \in db[p] : s.id # r.id
                 /\ \A e \in Clients \ {d} : \A s \in tx[e].ins[p] : s.id # r.id
  BY DEF RInv, ResultIds
<1>3. \A d \in Clients : tx[d].del[p] \subseteq db[p]
  BY DEF PInv, IInv, LocksInv
<1>4. \A r, s \in tx[c].ins[p] : r = s \/ (r \in db[p] /\ s \in db[p])
  <2>1. RecordProgress(tx[c]) /\ Progress(tx[c]) /\ tx[c].op \in Operations
    <3>1. tx[c].op # "none"
      BY DEF Commit, At, Busy
    <3> QED
      BY <3>1 DEF RInv, RecordsInv, PInv, IInv, ProgressInv, Progress
  <2>2. CASE tx[c].op = "record"
    BY <2>1, <2>2 DEF RecordProgress
  <2>3. CASE tx[c].op = "amend"
    BY <1>3, <2>1, <2>3 DEF RecordProgress
  <2>4. CASE tx[c].op \notin {"record", "amend"}
    BY <2>1, <2>4 DEF Progress, NobodyPurges
  <2> QED
    BY <2>2, <2>3, <2>4
<1>5. \A r, s \in db'[p] : r.id = s.id => r = s
  BY <1>1, <1>2, <1>3, <1>4
<1>6. \A r \in db'[p] : r.id <= seq'[p]
  BY <1>1, <1>2
<1>7. ASSUME NEW d \in Clients, NEW r \in tx'[d].ins[p]
      PROVE  /\ r.id <= seq'[p]
             /\ \/ r \in tx'[d].del[p]
                \/ /\ \A s \in db'[p] : s.id # r.id
                   /\ \A e \in Clients \ {d} : \A s \in tx'[e].ins[p] : s.id # r.id
  <2>1. d # c /\ tx'[d] = tx[d]
    BY <1>1
  <2> QED
    BY <1>1, <1>2, <2>1
<1> QED
  BY <1>5, <1>6, <1>7 DEF ResultIds

LEMMA CommitRInv ==
  ASSUME NobodyPurges, PInv, RInv, NEW c \in Clients, Commit(c)
  PROVE  RInv'
<1>1. /\ db'["user"] = (db["user"] \ tx[c].del["user"]) \cup tx[c].ins["user"]
      /\ tx'[c].ins["user"] = {} /\ tx'[c].op = "none" /\ seq' = seq
      /\ \A d \in Clients \ {c} : tx'[d] = tx[d]
      /\ tx'[c].del["performance"] = {}
  BY CommitTables
<1>2. RecordsInv'
  <2>1. RecordProgress(tx'[c])
    BY <1>1 DEF RecordProgress
  <2> QED
    BY <1>1, <2>1 DEF RInv, RecordsInv
<1>3. SeenInv'
  <2> SUFFICES ASSUME NEW d \in Clients, tx'[d].op = "delete", tx'[d].at >= 2
               PROVE  /\ tx'[d].seen.user \in Nat /\ tx'[d].seen.user <= seq'["user"]
                      /\ \A u \in db'["user"] : u.id = tx'[d].seen.user => u.role = "user"
                      /\ \A e \in Clients : \A u \in tx'[e].ins["user"] :
                           u.id = tx'[d].seen.user => u.role = "user"
    BY DEF SeenInv
  <2>1. d # c /\ tx'[d] = tx[d]
    BY <1>1
  <2>2. /\ tx[d].seen.user \in Nat /\ tx[d].seen.user <= seq["user"]
        /\ \A u \in db["user"] : u.id = tx[d].seen.user => u.role = "user"
        /\ \A e \in Clients : \A u \in tx[e].ins["user"] :
             u.id = tx[d].seen.user => u.role = "user"
    BY <2>1 DEF RInv, SeenInv
  <2> QED
    BY <1>1, <2>1, <2>2
<1> QED
  BY <1>2, <1>3, CommitKeys, CommitResultIds DEF RInv

-----------------------------------------------------------------------------
(* Each commit is a step of the registry                                   *)

\* An athlete as the registry has it: a profile and its account.
Person(a, u) == [id |-> a.id, email |-> u.email, license |-> a.license, active |-> u.active]

LEMMA PeopleOf ==
  ASSUME NEW d, NEW p
  PROVE  p \in People(d) <=>
           \E a \in d["athlete"], u \in d["user"] : a.user = u.id /\ p = Person(a, u)
<1> DEFINE Joined == {q \in d["athlete"] \X d["user"] : q[1].user = q[2].id}
<1>1. p \in People(d) <=> \E q \in Joined : p = Person(q[1], q[2])
  BY DEF People, Person
<1>2. ASSUME NEW q \in Joined, p = Person(q[1], q[2])
      PROVE  \E a \in d["athlete"], u \in d["user"] : a.user = u.id /\ p = Person(a, u)
  BY <1>2
<1>3. ASSUME NEW a \in d["athlete"], NEW u \in d["user"], a.user = u.id, p = Person(a, u)
      PROVE  \E q \in Joined : p = Person(q[1], q[2])
  <2>1. <<a, u>> \in Joined
    BY <1>3
  <2> QED
    BY <1>3, <2>1
<1> QED
  BY <1>1, <1>2, <1>3

LEMMA AdminsOfThem ==
  ASSUME NEW d, NEW e
  PROVE  e \in AdminsOf(d) <=> \E u \in d["user"] : u.role = "admin" /\ u.email = e
  BY DEF AdminsOf

LEMMA PeopleAre ==
  /\ \A p : p \in People(db) <=>
       \E a \in db["athlete"], u \in db["user"] : a.user = u.id /\ p = Person(a, u)
  /\ \A p : p \in People(db)' <=>
       \E a \in db'["athlete"], u \in db'["user"] : a.user = u.id /\ p = Person(a, u)
<1>1. People(db)' = People(db')
  OBVIOUS
<1> QED
  BY <1>1, PeopleOf

LEMMA AdminsAre ==
  /\ \A e : e \in AdminsOf(db) <=> \E u \in db["user"] : u.role = "admin" /\ u.email = e
  /\ \A e : e \in AdminsOf(db)' <=> \E u \in db'["user"] : u.role = "admin" /\ u.email = e
<1>1. AdminsOf(db)' = AdminsOf(db')
  OBVIOUS
<1> QED
  BY <1>1, AdminsOfThem

\* The addresses and licences that are taken are those of the tables.
LEMMA Taken ==
  /\ \A e \in Abs!Logins : \E u \in db["user"] : u.email = e
  /\ \A p \in People(db) :
       \E a \in db["athlete"], u \in db["user"] : a.user = u.id /\ p = Person(a, u)
  /\ \A l : (\A a \in db["athlete"] : a.license # l) => Abs!LicenseFree(l)
<1>1. \A p \in People(db) :
        \E a \in db["athlete"], u \in db["user"] : a.user = u.id /\ p = Person(a, u)
  BY PeopleAre
<1>2. \A a, u : Person(a, u).email = u.email /\ Person(a, u).license = a.license
  BY DEF Person
<1>3. \A e \in Abs!Logins : e \in AdminsOf(db) \/ \E p \in People(db) : p.email = e
  BY DEF Abs!Logins
<1>4. \A e \in Abs!Logins : \E u \in db["user"] : u.email = e
  BY <1>1, <1>2, <1>3, AdminsAre
<1>5. \A l : (\A a \in db["athlete"] : a.license # l) => Abs!LicenseFree(l)
  BY <1>1, <1>2 DEF Abs!LicenseFree
<1> QED
  BY <1>1, <1>4, <1>5

\* The steps of the registry, by what they make of its three sets.
LEMMA Registers ==
  ASSUME NEW id, NEW e \in Emails, NEW l \in Licenses,
         e \notin Abs!Logins, Abs!LicenseFree(l), \A p \in People(db) : p.id # id,
         People(db)' =
           People(db) \cup {[id |-> id, email |-> e, license |-> l, active |-> TRUE]},
         db'["performance"] = db["performance"], AdminsOf(db)' = AdminsOf(db)
  PROVE  Abs!Next
<1>1. Abs!Register(id, e, l)
  BY DEF Abs!Register
<1>2. id \in Abs!IdsOf(People(db)')
  BY DEF Abs!IdsOf
<1> QED
  BY <1>1, <1>2 DEF Abs!Next

LEMMA ChangesLicense ==
  ASSUME NEW p \in People(db), NEW l \in Licenses, Abs!LicenseFree(l),
         People(db)' = (People(db) \ {p}) \cup {[p EXCEPT !.license = l]},
         db'["performance"] = db["performance"], AdminsOf(db)' = AdminsOf(db)
  PROVE  Abs!Next
  BY DEF Abs!ChangeLicense, Abs!Next

LEMMA SetsActive ==
  ASSUME NEW p \in People(db), NEW on \in BOOLEAN,
         People(db)' = (People(db) \ {p}) \cup {[p EXCEPT !.active = on]},
         db'["performance"] = db["performance"], AdminsOf(db)' = AdminsOf(db)
  PROVE  Abs!Next
  BY DEF Abs!SetActive, Abs!Next

LEMMA Removes ==
  ASSUME NEW p \in People(db), People(db)' = People(db) \ {p},
         db'["performance"] = {r \in db["performance"] : r.athlete # p.id},
         AdminsOf(db)' = AdminsOf(db)
  PROVE  Abs!Next
  BY DEF Abs!Remove, Abs!Next

LEMMA Records ==
  ASSUME NEW p \in People(db), NEW id, \A r \in db["performance"] : r.id # id,
         db'["performance"] = db["performance"] \cup {[id |-> id, athlete |-> p.id]},
         People(db)' = People(db), AdminsOf(db)' = AdminsOf(db)
  PROVE  Abs!Next
<1>1. Abs!Record(id, p)
  BY DEF Abs!Record
<1>2. id \in Abs!IdsOf(db'["performance"])
  BY DEF Abs!IdsOf
<1> QED
  BY <1>1, <1>2 DEF Abs!Next

LEMMA Discards ==
  ASSUME NEW r \in db["performance"], db'["performance"] = db["performance"] \ {r},
         People(db)' = People(db), AdminsOf(db)' = AdminsOf(db)
  PROVE  Abs!Next
  BY DEF Abs!Discard, Abs!Next

LEMMA AddsAdmin ==
  ASSUME NEW e \in Emails, e \notin Abs!Logins,
         AdminsOf(db)' = AdminsOf(db) \cup {e},
         People(db)' = People(db), db'["performance"] = db["performance"]
  PROVE  Abs!Next
  BY DEF Abs!AddAdmin, Abs!Next

\* The registry stays when accounts and profiles do.
LEMMA PeopleStay ==
  ASSUME db'["athlete"] = db["athlete"], db'["user"] = db["user"]
  PROVE  People(db)' = People(db) /\ AdminsOf(db)' = AdminsOf(db)
<1> DEFINE P == People(db)
           Q == People(db)'
           A == AdminsOf(db)
           B == AdminsOf(db)'
<1>1. \A p : p \in Q <=> p \in P
  BY PeopleAre
<1>2. \A e : e \in B <=> e \in A
  BY AdminsAre
<1> HIDE DEF P, Q, A, B
<1>3. P = Q /\ A = B
  BY <1>1, <1>2
<1> QED
  BY <1>3 DEF P, Q, A, B

\* What c commits, as far as every case needs it.
LEMMA CommitFacts ==
  ASSUME NobodyPurges, PInv, RInv, NEW c \in Clients, Commit(c)
  PROVE  /\ Commits(c) /\ RecordProgress(tx[c]) /\ AccountProgress(tx[c]) /\ Progress(tx[c])
         /\ db'["user"] = (db["user"] \ tx[c].del["user"]) \cup tx[c].ins["user"]
         /\ db'["athlete"] = (db["athlete"] \ tx[c].del["athlete"]) \cup tx[c].ins["athlete"]
         /\ db'["performance"] =
              (db["performance"] \ tx[c].del["performance"]) \cup tx[c].ins["performance"]
         /\ tx[c].del["user"] \subseteq db["user"]
         /\ tx[c].del["athlete"] \subseteq db["athlete"]
         /\ tx[c].del["performance"] \subseteq db["performance"]
         /\ tx[c] \in Transactions /\ tx[c].op \in AllOperations
         /\ \/ Is(c, "create", 7) \/ Is(c, "update", 5) \/ Is(c, "delete", 4)
            \/ \E op \in {"setStatus", "record", "amend", "discard"} : Is(c, op, 3)
            \/ Is(c, "createAdmin", 5)
<1>1. Commits(c)
  BY CommitsOf
<1>2. \A t \in {"user", "athlete", "performance"} :
        db'[t] = (db[t] \ tx[c].del[t]) \cup tx[c].ins[t]
  BY CommitTables
<1>3. IInv /\ TypeInv /\ ProgressInv /\ Busy(c) /\ At(c, "commit")
  BY DEF PInv, IInv, Commit, At
<1>4. Places(c) /\ tx[c].op \in Operations /\ tx[c].op \in AllOperations
  BY <1>3, OpenPlaces
<1>5. \/ Is(c, "create", 7) \/ Is(c, "update", 5) \/ Is(c, "delete", 4)
      \/ \E op \in {"setStatus", "record", "amend", "discard"} : Is(c, op, 3)
      \/ Is(c, "createAdmin", 5)
  BY <1>3, <1>4 DEF Places, NobodyPurges, Is
<1>6. RecordProgress(tx[c]) /\ AccountProgress(tx[c]) /\ Progress(tx[c])
  BY <1>3 DEF RInv, RecordsInv, PInv, AccountsInv, ProgressInv
<1>7. \A t \in {"user", "athlete", "performance"} : tx[c].del[t] \subseteq db[t]
  BY <1>3 DEF PInv, AccountLocks, IInv, LocksInv
<1>8. tx[c] \in Transactions
  BY <1>3 DEF TypeInv
<1> QED
  BY <1>1, <1>2, <1>4, <1>5, <1>6, <1>7, <1>8

\* The tables, as far as every case needs it.
LEMMA TableFacts ==
  ASSUME PInv, RInv
  PROVE  /\ \A u, v \in db["user"] : u.id = v.id => u = v
         /\ \A a, b \in db["athlete"] : a.id = b.id => a = b
         /\ \A u \in db["user"] : u.role = "user" => \E a \in db["athlete"] : a.user = u.id
         /\ \A a \in db["athlete"] : \E u \in db["user"] : u.id = a.user /\ u.role = "user"
         /\ \A a, b \in db["athlete"] : a.user = b.user => a = b
         /\ \A c \in Clients :
              /\ \A u \in tx[c].ins["user"] :
                   \A v \in db["user"] \ tx[c].del["user"] : u.email # v.email
              /\ \A a \in tx[c].ins["athlete"] :
                   \A b \in db["athlete"] \ tx[c].del["athlete"] : a.license # b.license
<1>1. \A c \in Clients :
        /\ \A u \in tx[c].ins["user"] :
             \A v \in db["user"] \ tx[c].del["user"] : u.email # v.email
        /\ \A a \in tx[c].ins["athlete"] :
             \A b \in db["athlete"] \ tx[c].del["athlete"] : a.license # b.license
  BY DEF RInv, KeysInv, SameKey
<1> QED
  BY <1>1 DEF PInv, IInv, IdsInv, AccountIds, Matched

\* create: a new account and its profile are a new athlete.
LEMMA CreateImplements ==
  ASSUME NobodyPurges, PInv, RInv, NEW c \in Clients, Commit(c), tx[c].op = "create"
  PROVE  Abs!Next
<1> DEFINE t == tx[c]
           users == db["user"]
           athletes == db["athlete"]
<1>1. PICK u \in t.ins["user"], a \in t.ins["athlete"] :
             /\ u.role = "user" /\ a.user = u.id
             /\ t.ins["user"] = {u} /\ t.ins["athlete"] = {a}
  BY CommitFacts DEF Commits
<1>2. t.del["user"] = {} /\ t.del["athlete"] = {}
  BY CommitFacts DEF Commits
<1>3. t.ins["performance"] = {} /\ t.del["performance"] = {}
  BY CommitFacts DEF Progress, RecordProgress
<1>4. /\ db'["user"] = users \cup {u} /\ db'["athlete"] = athletes \cup {a}
      /\ db'["performance"] = db["performance"]
  BY <1>1, <1>2, <1>3, CommitFacts
<1>5. /\ u.email \in Emails /\ u.active = TRUE /\ a.license \in Licenses
  <2>1. RecordProgress(t)
    BY CommitFacts
  <2> QED
    BY <1>1, <2>1 DEF RecordProgress
<1>6. (\A v \in users : v.id # u.id) /\ (\A b \in athletes : b.id # a.id)
  BY <1>1, <1>2 DEF PInv, AccountIds, IInv, IdsInv
<1>7. (\A v \in users : v.email # u.email) /\ (\A b \in athletes : b.license # a.license)
  BY <1>1, <1>2, TableFacts
<1>8. \A b \in athletes : \E v \in users : v.id = b.user
  BY TableFacts
<1>9. u.email \notin Abs!Logins /\ Abs!LicenseFree(a.license)
  BY <1>7, Taken
<1>10. \A p \in People(db) : p.id # a.id
  BY <1>6, Taken DEF Person
<1>11. \A p : p \in People(db)' <=> (p \in People(db) \/ p = Person(a, u))
  <2>1. ASSUME NEW p, NEW b \in db'["athlete"], NEW v \in db'["user"], b.user = v.id,
               p = Person(b, v)
        PROVE  p \in People(db) \/ p = Person(a, u)
    <3>1. (b = a /\ v = u) \/ (b \in athletes /\ v \in users)
      BY <1>1, <1>4, <1>6, <1>8, <2>1
    <3> QED
      BY <2>1, <3>1, PeopleAre
  <2>2. ASSUME NEW p, p \in People(db) \/ p = Person(a, u)
        PROVE  \E b \in db'["athlete"], v \in db'["user"] : b.user = v.id /\ p = Person(b, v)
    BY <1>1, <1>4, <2>2, PeopleAre
  <2> QED
    BY <2>1, <2>2, PeopleAre
<1>12. \A e : e \in AdminsOf(db)' <=> e \in AdminsOf(db)
  BY <1>1, <1>4, AdminsAre
<1> DEFINE P == People(db)
           Q == People(db)'
           A == AdminsOf(db)
           B == AdminsOf(db)'
           new == [id |-> a.id, email |-> u.email, license |-> a.license, active |-> TRUE]
<1>13. Person(a, u) = new
  BY <1>5 DEF Person
<1>14. Q = P \cup {new} /\ B = A
  <2> HIDE DEF P, Q, A, B, new
  <2>1. (\A p : p \in Q <=> (p \in P \/ p = new)) /\ (\A e : e \in B <=> e \in A)
    BY <1>11, <1>12, <1>13 DEF P, Q, A, B
  <2> QED
    BY <2>1
<1> QED
  BY <1>4, <1>5, <1>9, <1>10, <1>14, Registers

\* create-admin: a new administrator.
LEMMA CreateAdminImplements ==
  ASSUME NobodyPurges, PInv, RInv, NEW c \in Clients, Commit(c), tx[c].op = "createAdmin"
  PROVE  Abs!Next
<1> DEFINE t == tx[c]
           users == db["user"]
<1>1. RecordProgress(t) /\ AccountProgress(t) /\ Progress(t) /\ Commits(c) /\ t.at = 5
  BY CommitFacts DEF Is
<1>2. PICK u \in t.ins["user"] : u.role = "admin" /\ u.email \in Emails /\ t.ins["user"] = {u}
  <2>1. PICK u \in t.ins["user"] : u.email \in Emails
    BY <1>1 DEF RecordProgress
  <2>2. u.role = "admin" /\ \A v \in t.ins["user"] : u = v
    BY <1>1 DEF AccountProgress
  <2> QED
    BY <2>1, <2>2
<1>3. t.del["user"] = {} /\ t.ins["athlete"] = {} /\ t.del["athlete"] = {}
  BY <1>1 DEF Commits
<1>4. t.ins["performance"] = {} /\ t.del["performance"] = {}
  BY <1>1 DEF Progress, RecordProgress
<1>5. /\ db'["user"] = users \cup {u} /\ db'["athlete"] = db["athlete"]
      /\ db'["performance"] = db["performance"]
  BY <1>2, <1>3, <1>4, CommitFacts
<1>6. (\A v \in users : v.id # u.id) /\ (\A v \in users : v.email # u.email)
  <2>1. \A v \in users : v.id # u.id
    BY <1>2, <1>3 DEF PInv, AccountIds
  <2> QED
    BY <2>1, <1>2, <1>3, TableFacts
<1>7. \A a \in db["athlete"] : \E v \in users : v.id = a.user
  BY TableFacts
<1>8. u.email \notin Abs!Logins
  BY <1>6, Taken
<1>9. \A p : p \in People(db)' <=> p \in People(db)
  <2>1. ASSUME NEW a \in db["athlete"], NEW v \in db'["user"], a.user = v.id PROVE v \in users
    BY <1>5, <1>6, <1>7, <2>1
  <2> QED
    BY <1>5, <2>1, PeopleAre
<1>10. \A e : e \in AdminsOf(db)' <=> (e \in AdminsOf(db) \/ e = u.email)
  BY <1>2, <1>5, AdminsAre
<1> DEFINE P == People(db)
           Q == People(db)'
           A == AdminsOf(db)
           B == AdminsOf(db)'
<1>11. Q = P /\ B = A \cup {u.email}
  <2> HIDE DEF P, Q, A, B
  <2>1. (\A p : p \in Q <=> p \in P) /\ (\A e : e \in B <=> (e \in A \/ e = u.email))
    BY <1>9, <1>10 DEF P, Q, A, B
  <2> QED
    BY <2>1
<1> QED
  BY <1>2, <1>5, <1>8, <1>11, AddsAdmin

\* A row that an update has written anew, field by field.
LEMMA NewVersions ==
  /\ \A u \in Rows("user"), on \in BOOLEAN :
       [u EXCEPT !.active = on] = [id |-> u.id, email |-> u.email, role |-> u.role, active |-> on]
  /\ \A a \in Rows("athlete"), l \in Licenses :
       [a EXCEPT !.license = l] = [id |-> a.id, user |-> a.user, license |-> l]
  BY DEF Rows

LEMMA PersonFields ==
  ASSUME NEW a, NEW u
  PROVE  /\ Person(a, u).id = a.id /\ Person(a, u).email = u.email
         /\ Person(a, u).license = a.license /\ Person(a, u).active = u.active
         /\ \A on : [Person(a, u) EXCEPT !.active = on] =
                      [id |-> a.id, email |-> u.email, license |-> a.license, active |-> on]
         /\ \A l : [Person(a, u) EXCEPT !.license = l] =
                     [id |-> a.id, email |-> u.email, license |-> l, active |-> u.active]
  BY DEF Person

\* What the registry shows of the tables does not change.
Stays ==
  People(db)' = People(db) /\ db'["performance"] = db["performance"] /\ AdminsOf(db)' = AdminsOf(db)

\* The account u is written anew, active or not: so is the athlete it is of.
LEMMA StatusSet ==
  ASSUME PInv, RInv, NEW u \in db["user"], NEW on \in BOOLEAN, u \in Rows("user"),
         db'["user"] = (db["user"] \ {u}) \cup {[u EXCEPT !.active = on]},
         db'["athlete"] = db["athlete"], db'["performance"] = db["performance"]
  PROVE  Abs!Next \/ Stays
<1> DEFINE users == db["user"]
           athletes == db["athlete"]
           new == [u EXCEPT !.active = on]
           P == People(db)
           Q == People(db)'
           A == AdminsOf(db)
           B == AdminsOf(db)'
<1>1. new = [id |-> u.id, email |-> u.email, role |-> u.role, active |-> on]
  BY NewVersions
<1>2. new.id = u.id /\ new.email = u.email /\ new.role = u.role /\ new.active = on
  BY <1>1
<1>3. db'["user"] = (users \ {u}) \cup {new}
  OBVIOUS
<1> HIDE DEF new
<1>4. \A v, w \in users : v.id = w.id => v = w
  BY TableFacts
<1>5. \A e : e \in B <=> e \in A
  BY <1>2, <1>3, AdminsAre
<1>6. CASE \E a \in athletes : a.user = u.id
  <2>1. PICK a \in athletes : a.user = u.id
    BY <1>6
  <2>2. \A b \in athletes : b.user = u.id => b = a
    BY <2>1, TableFacts
  <2> DEFINE p == Person(a, u)
             q == Person(a, new)
  <2>3. p \in People(db)
    BY <2>1, PeopleAre
  <2>4. q = [p EXCEPT !.active = on]
    <3>1. Person(a, new) = [id |-> a.id, email |-> u.email, license |-> a.license, active |-> on]
      BY <1>2 DEF Person
    <3> QED
      BY <3>1, PersonFields
  <2>5. ASSUME NEW r, NEW b \in athletes, NEW v \in db'["user"], b.user = v.id, r = Person(b, v)
        PROVE  (r \in People(db) /\ r # p) \/ r = q
    <3>1. CASE v = new
      BY <1>2, <2>2, <2>5, <3>1
    <3>2. CASE v \in users /\ v # u
      <4>1. b # a
        BY <1>4, <2>1, <2>5, <3>2
      <4>2. b.id # a.id
        BY <4>1, TableFacts
      <4>3. r # p
        BY <2>5, <4>2, PersonFields
      <4> QED
        BY <2>5, <3>2, <4>3, PeopleAre
    <3> QED
      BY <1>3, <3>1, <3>2
  <2>6. ASSUME NEW r, (r \in People(db) /\ r # p) \/ r = q
        PROVE  \E b \in athletes, v \in db'["user"] : b.user = v.id /\ r = Person(b, v)
    <3>1. CASE r = q
      BY <1>2, <1>3, <2>1, <3>1
    <3>2. CASE r \in People(db) /\ r # p
      <4>1. PICK b \in athletes, v \in users : b.user = v.id /\ r = Person(b, v)
        BY <3>2, PeopleAre
      <4>2. v # u
        BY <2>2, <3>2, <4>1
      <4> QED
        BY <1>3, <4>1, <4>2
    <3> QED
      BY <2>6, <3>1, <3>2
  <2>7. \A r : r \in Q <=> ((r \in P /\ r # p) \/ r = q)
    BY <2>5, <2>6, PeopleAre
  <2>8. Q = (P \ {p}) \cup {q} /\ B = A
    <3> HIDE DEF P, Q, A, B, p, q
    <3> QED
      BY <1>5, <2>7
  <2> QED
    BY <2>3, <2>4, <2>8, SetsActive
<1>7. CASE ~ \E a \in athletes : a.user = u.id
  <2>1. \A r : r \in Q <=> r \in P
    BY <1>2, <1>3, <1>7, PeopleAre
  <2>2. Q = P /\ B = A
    <3> HIDE DEF P, Q, A, B
    <3> QED
      BY <1>5, <2>1
  <2> QED
    BY <2>2 DEF Stays
<1> QED
  BY <1>6, <1>7

LEMMA SetStatusImplements ==
  ASSUME NobodyPurges, PInv, RInv, NEW c \in Clients, Commit(c), tx[c].op = "setStatus"
  PROVE  Abs!Next \/ Stays
<1> DEFINE t == tx[c]
           users == db["user"]
<1>1. RecordProgress(t) /\ Progress(t) /\ Commits(c) /\ t \in Transactions
  BY CommitFacts
<1>2. t.ins["athlete"] = {} /\ t.del["athlete"] = {}
  BY <1>1 DEF Commits
<1>3. t.ins["performance"] = {} /\ t.del["performance"] = {}
  BY <1>1 DEF Progress, RecordProgress
<1>4. /\ db'["user"] = (users \ t.del["user"]) \cup t.ins["user"]
      /\ db'["athlete"] = db["athlete"] /\ db'["performance"] = db["performance"]
      /\ t.del["user"] \subseteq users
  BY <1>2, <1>3, CommitFacts
<1>5. CASE t.ins["user"] = {} /\ t.del["user"] = {}
  <2>1. db'["user"] = db["user"]
    BY <1>4, <1>5
  <2> QED
    BY <1>4, <2>1, PeopleStay DEF Stays
<1>6. CASE \E u \in t.del["user"] :
             t.del["user"] = {u} /\ t.ins["user"] = {[u EXCEPT !.active = t.on]}
  <2>1. PICK u \in t.del["user"] :
               t.del["user"] = {u} /\ t.ins["user"] = {[u EXCEPT !.active = t.on]}
    BY <1>6
  <2>2. u \in Rows("user") /\ t.on \in BOOLEAN
    <3>1. t.del \in RowSets /\ t.on \in BOOLEAN
      BY <1>1 DEF Transactions
    <3> QED
      BY <3>1, RowsOf DEF Tables
  <2>3. u \in users /\ db'["user"] = (users \ {u}) \cup {[u EXCEPT !.active = t.on]}
    BY <1>4, <2>1
  <2> QED
    BY <1>4, <2>2, <2>3, StatusSet
<1> QED
  BY <1>1, <1>5, <1>6 DEF RecordProgress

\* The profile a is written anew with the licence l, which no other has.
LEMMA LicenseSet ==
  ASSUME PInv, RInv, NEW a \in db["athlete"], NEW l \in Licenses, a \in Rows("athlete"),
         \A b \in db["athlete"] : b.license # l,
         db'["athlete"] = (db["athlete"] \ {a}) \cup {[a EXCEPT !.license = l]},
         db'["user"] = db["user"], db'["performance"] = db["performance"]
  PROVE  Abs!Next
<1> DEFINE users == db["user"]
           athletes == db["athlete"]
           new == [a EXCEPT !.license = l]
           P == People(db)
           Q == People(db)'
           A == AdminsOf(db)
           B == AdminsOf(db)'
<1>1. new = [id |-> a.id, user |-> a.user, license |-> l]
  BY NewVersions
<1>2. new.id = a.id /\ new.user = a.user /\ new.license = l
  BY <1>1
<1>3. db'["athlete"] = (athletes \ {a}) \cup {new}
  OBVIOUS
<1> HIDE DEF new
<1>4. PICK u \in users : u.id = a.user
  BY TableFacts
<1>5. \A v \in users : v.id = a.user => v = u
  BY <1>4, TableFacts
<1> DEFINE p == Person(a, u)
           q == Person(new, u)
<1>6. p \in People(db)
  BY <1>4, PeopleAre
<1>7. q = [p EXCEPT !.license = l]
  <2>1. Person(new, u) = [id |-> a.id, email |-> u.email, license |-> l, active |-> u.active]
    BY <1>2 DEF Person
  <2> QED
    BY <2>1, PersonFields
<1>8. ASSUME NEW r, NEW b \in db'["athlete"], NEW v \in users, b.user = v.id, r = Person(b, v)
      PROVE  (r \in People(db) /\ r # p) \/ r = q
  <2>1. CASE b = new
    BY <1>2, <1>5, <1>8, <2>1
  <2>2. CASE b \in athletes /\ b # a
    <3>1. b.id # a.id
      BY <2>2, TableFacts
    <3>2. r # p
      BY <1>8, <3>1, PersonFields
    <3> QED
      BY <1>8, <2>2, <3>2, PeopleAre
  <2> QED
    BY <1>3, <2>1, <2>2
<1>9. ASSUME NEW r, (r \in People(db) /\ r # p) \/ r = q
      PROVE  \E b \in db'["athlete"], v \in users : b.user = v.id /\ r = Person(b, v)
  <2>1. CASE r = q
    BY <1>2, <1>3, <1>4, <2>1
  <2>2. CASE r \in People(db) /\ r # p
    <3>1. PICK b \in athletes, v \in users : b.user = v.id /\ r = Person(b, v)
      BY <2>2, PeopleAre
    <3>2. b # a
      BY <1>5, <2>2, <3>1
    <3> QED
      BY <1>3, <3>1, <3>2
  <2> QED
    BY <1>9, <2>1, <2>2
<1>10. \A r : r \in Q <=> ((r \in P /\ r # p) \/ r = q)
  BY <1>8, <1>9, PeopleAre
<1>11. \A e : e \in B <=> e \in A
  BY AdminsAre
<1>12. Q = (P \ {p}) \cup {q} /\ B = A
  <2> HIDE DEF P, Q, A, B, p, q
  <2> QED
    BY <1>10, <1>11
<1>13. Abs!LicenseFree(l)
  BY Taken
<1> QED
  BY <1>6, <1>7, <1>12, <1>13, ChangesLicense

LEMMA UpdateImplements ==
  ASSUME NobodyPurges, PInv, RInv, NEW c \in Clients, Commit(c), tx[c].op = "update"
  PROVE  Abs!Next \/ Stays
<1> DEFINE t == tx[c]
           athletes == db["athlete"]
<1>1. RecordProgress(t) /\ Progress(t) /\ Commits(c) /\ t \in Transactions /\ t.at = 5
  BY CommitFacts DEF Is
<1>2. t.ins["user"] = {} /\ t.del["user"] = {}
  BY <1>1 DEF Commits
<1>3. t.ins["performance"] = {} /\ t.del["performance"] = {}
  BY <1>1 DEF Progress, RecordProgress, Deleting
<1>4. /\ db'["athlete"] = (athletes \ t.del["athlete"]) \cup t.ins["athlete"]
      /\ db'["user"] = db["user"] /\ db'["performance"] = db["performance"]
      /\ t.del["athlete"] \subseteq athletes
  BY <1>2, <1>3, CommitFacts
<1>5. CASE db'["athlete"] = athletes
  BY <1>4, <1>5, PeopleStay DEF Stays
<1>6. CASE \E a \in t.del["athlete"] :
             /\ t.del["athlete"] = {a} /\ t.license \in Licenses
             /\ t.ins["athlete"] = {[a EXCEPT !.license = t.license]}
  <2>1. PICK a \in t.del["athlete"] :
               /\ t.del["athlete"] = {a} /\ t.license \in Licenses
               /\ t.ins["athlete"] = {[a EXCEPT !.license = t.license]}
    BY <1>6
  <2> DEFINE new == [a EXCEPT !.license = t.license]
  <2>2. a \in Rows("athlete")
    <3>1. t.del \in RowSets
      BY <1>1 DEF Transactions
    <3> QED
      BY <3>1, RowsOf DEF Tables
  <2>3. a \in athletes /\ db'["athlete"] = (athletes \ {a}) \cup {new}
    BY <1>4, <2>1
  <2>4. new = [id |-> a.id, user |-> a.user, license |-> t.license]
    BY <2>1, <2>2, NewVersions
  <2>5. new \in t.ins["athlete"] /\ new.license = t.license
    BY <2>1, <2>4
  <2> HIDE DEF new
  <2>6. \A b \in athletes \ {a} : b.license # t.license
    BY <2>1, <2>5, TableFacts
  <2>7. CASE a.license = t.license
    <3>1. a = [id |-> a.id, user |-> a.user, license |-> a.license]
      BY <2>2 DEF Rows
    <3>2. new = a
      BY <2>4, <2>7, <3>1
    <3>3. db'["athlete"] = athletes
      BY <2>3, <3>2
    <3> QED
      BY <1>5, <3>3
  <2>8. CASE a.license # t.license
    <3>1. \A b \in athletes : b.license # t.license
      BY <2>6, <2>8
    <3> QED
      BY <1>4, <2>1, <2>2, <2>3, <3>1, LicenseSet DEF new
  <2> QED
    BY <2>7, <2>8
<1>7. \/ db'["athlete"] = athletes
      \/ \E a \in t.del["athlete"] :
           /\ t.del["athlete"] = {a} /\ t.license \in Licenses
           /\ t.ins["athlete"] = {[a EXCEPT !.license = t.license]}
  <2>1. CASE t.ins["athlete"] = {} /\ t.del["athlete"] = {}
    BY <1>4, <2>1
  <2>2. CASE \E a \in t.del["athlete"] : t.del["athlete"] = {a} /\ t.ins["athlete"] = {a}
    BY <1>4, <2>2
  <2> QED
    BY <1>1, <2>1, <2>2 DEF RecordProgress
<1> QED
  BY <1>5, <1>6, <1>7

\* delete: the account, the profile and its results go together.
LEMMA DeleteImplements ==
  ASSUME NobodyPurges, PInv, RInv, NEW c \in Clients, Commit(c), tx[c].op = "delete"
  PROVE  Abs!Next \/ Stays
<1> DEFINE t == tx[c]
           users == db["user"]
           athletes == db["athlete"]
           results == db["performance"]
<1>1. RecordProgress(t) /\ AccountProgress(t) /\ Progress(t) /\ Commits(c) /\ t.at = 4
  BY CommitFacts DEF Is
<1>2. t.ins["user"] = {} /\ t.ins["athlete"] = {} /\ Doomed(c, "athlete") = {}
  BY <1>1 DEF Commits
<1>3. t.ins["performance"] = {}
  BY <1>1 DEF Progress
<1>4. /\ db'["user"] = users \ t.del["user"] /\ db'["athlete"] = athletes \ t.del["athlete"]
      /\ db'["performance"] = results \ t.del["performance"]
      /\ t.del["user"] \subseteq users /\ t.del["athlete"] \subseteq athletes
      /\ t.del["performance"] \subseteq results
  BY <1>2, <1>3, CommitFacts
<1>5. /\ \A u \in t.del["user"] : u.id = t.seen.user
      /\ \A r \in t.del["performance"] : \E a \in t.del["athlete"] : a.id = r.athlete
      /\ \A a \in t.del["athlete"] : \E v \in t.del["user"] : v.id = a.user
  BY <1>1 DEF RecordProgress, AccountProgress
<1>6. CASE t.del["user"] = {}
  <2>1. t.del["athlete"] = {}
    BY <1>5, <1>6
  <2>2. t.del["performance"] = {}
    BY <1>5, <2>1
  <2>3. db'["user"] = users /\ db'["athlete"] = athletes /\ db'["performance"] = results
    BY <1>4, <1>6, <2>1, <2>2
  <2> QED
    BY <2>3, PeopleStay DEF Stays
<1>7. CASE t.del["user"] # {}
  <2>1. PICK u \in t.del["user"] : t.del["user"] = {u}
    BY <1>4, <1>5, <1>7, TableFacts
  <2>2. u \in users /\ u.role = "user"
    BY <1>1, <1>4, <1>5 DEF RInv, SeenInv
  <2>3. PICK a \in athletes : a.user = u.id
    BY <2>2, TableFacts
  <2>4. \A b \in athletes : b.user = u.id => b = a
    BY <2>3, TableFacts
  <2>5. t.del["athlete"] = {a}
    <3>1. u.id \in Gone(c, "user")
      BY <1>2, <2>1 DEF Gone
    <3>2. a \in t.del["athlete"]
      BY <1>2, <2>3, <3>1 DEF Doomed, Visible
    <3> QED
      BY <1>4, <1>5, <2>1, <2>4, <3>2
  <2>6. \A r \in results : r \in t.del["performance"] <=> r.athlete = a.id
    <3>1. a.id \in Gone(c, "athlete")
      BY <1>2, <2>5 DEF Gone
    <3>2. Doomed(c, "performance") = {}
      BY <1>1 DEF PInv, IInv, CascadeInv, Behind
    <3>3. \A r \in results \ t.del["performance"] : r.athlete # a.id
      BY <3>1, <3>2 DEF Doomed, Visible
    <3> QED
      BY <1>5, <2>5, <3>3
  <2> DEFINE p == Person(a, u)
             P == People(db)
             Q == People(db)'
             A == AdminsOf(db)
             B == AdminsOf(db)'
  <2>7. p \in People(db)
    BY <2>2, <2>3, PeopleAre
  <2>8. ASSUME NEW r, NEW b \in db'["athlete"], NEW v \in db'["user"], b.user = v.id,
               r = Person(b, v)
        PROVE  r \in People(db) /\ r # p
    <3>1. b \in athletes /\ b # a /\ v \in users
      BY <1>4, <2>5
    <3>2. b.id # a.id
      BY <3>1, TableFacts
    <3>3. r # p
      BY <2>8, <3>2, PersonFields
    <3> QED
      BY <2>8, <3>1, <3>3, PeopleAre
  <2>9. ASSUME NEW r, r \in People(db), r # p
        PROVE  \E b \in db'["athlete"], v \in db'["user"] : b.user = v.id /\ r = Person(b, v)
    <3>1. PICK b \in athletes, v \in users : b.user = v.id /\ r = Person(b, v)
      BY <2>9, PeopleAre
    <3>2. b # a /\ v # u
      BY <2>1, <2>2, <2>3, <2>4, <2>9, <3>1, TableFacts
    <3> QED
      BY <1>4, <2>1, <2>5, <3>1, <3>2
  <2>10. \A r : r \in Q <=> (r \in P /\ r # p)
    BY <2>8, <2>9, PeopleAre
  <2>11. \A e : e \in B <=> e \in A
    <3>1. \A v \in users : v.role = "admin" <=> (v \in db'["user"] /\ v.role = "admin")
      BY <1>4, <2>1, <2>2
    <3>2. db'["user"] \subseteq users
      BY <1>4
    <3> QED
      BY <3>1, <3>2, AdminsAre
  <2>12. Q = P \ {p} /\ B = A
    <3> HIDE DEF P, Q, A, B, p
    <3> QED
      BY <2>10, <2>11
  <2>13. db'["performance"] = {r \in results : r.athlete # p.id}
    <3>1. p.id = a.id
      BY PersonFields
    <3> QED
      BY <1>4, <2>6, <3>1
  <2> QED
    BY <2>7, <2>12, <2>13, Removes
<1> QED
  BY <1>6, <1>7

\* record: a result of an athlete that is there.
LEMMA RecordImplements ==
  ASSUME NobodyPurges, PInv, RInv, NEW c \in Clients, Commit(c), tx[c].op = "record"
  PROVE  Abs!Next \/ Stays
<1> DEFINE t == tx[c]
           results == db["performance"]
<1>1. /\ RecordProgress(t) /\ Progress(t) /\ Commits(c) /\ t \in Transactions
      /\ t.op \in Operations
  <2>1. t.op # "none"
    OBVIOUS
  <2> QED
    BY <2>1, CommitFacts DEF Progress
<1>2. /\ t.ins["user"] = {} /\ t.del["user"] = {}
      /\ t.ins["athlete"] = {} /\ t.del["athlete"] = {}
  BY <1>1 DEF Commits
<1>3. t.del["performance"] = {} /\ \A r, s \in t.ins["performance"] : r = s
  BY <1>1 DEF RecordProgress
<1>4. /\ db'["performance"] = results \cup t.ins["performance"]
      /\ db'["user"] = db["user"] /\ db'["athlete"] = db["athlete"]
  BY <1>2, <1>3, CommitFacts
<1>5. People(db)' = People(db) /\ AdminsOf(db)' = AdminsOf(db)
  BY <1>4, PeopleStay
<1>6. CASE t.ins["performance"] = {}
  BY <1>4, <1>5, <1>6 DEF Stays
<1>7. CASE t.ins["performance"] # {}
  <2>1. PICK r \in t.ins["performance"] : t.ins["performance"] = {r}
    BY <1>3, <1>7
  <2>2. r = [id |-> r.id, athlete |-> r.athlete]
    <3>1. t.ins \in RowSets
      BY <1>1 DEF Transactions
    <3>2. r \in Rows("performance")
      BY <3>1, RowsOf DEF Tables
    <3> QED
      BY <3>2 DEF Rows
  <2>3. \A s \in results : s.id # r.id
    BY <1>3 DEF RInv, ResultIds
  <2>4. PICK a \in db["athlete"] : a.id = r.athlete
    <3>1. NoOrphanResults'
      BY CommitPInv DEF PInv, IInv
    <3> QED
      BY <1>4, <3>1 DEF NoOrphanResults
  <2>5. PICK u \in db["user"] : u.id = a.user
    BY TableFacts
  <2>6. Person(a, u) \in People(db) /\ Person(a, u).id = r.athlete
    BY <2>4, <2>5, PeopleAre, PersonFields
  <2>7. db'["performance"] = results \cup {[id |-> r.id, athlete |-> Person(a, u).id]}
    BY <1>4, <2>1, <2>2, <2>6
  <2> QED
    BY <1>5, <2>3, <2>6, <2>7, Records
<1> QED
  BY <1>6, <1>7

\* amend: nothing that the registry tells apart.
LEMMA AmendImplements ==
  ASSUME NobodyPurges, PInv, RInv, NEW c \in Clients, Commit(c), tx[c].op = "amend"
  PROVE  Stays
<1> DEFINE t == tx[c]
<1>1. RecordProgress(t) /\ Commits(c)
  BY CommitFacts
<1>2. /\ t.ins["user"] = {} /\ t.del["user"] = {}
      /\ t.ins["athlete"] = {} /\ t.del["athlete"] = {}
  BY <1>1 DEF Commits
<1>3. t.ins["performance"] = t.del["performance"]
  BY <1>1 DEF RecordProgress
<1>4. /\ db'["performance"] = db["performance"]
      /\ db'["user"] = db["user"] /\ db'["athlete"] = db["athlete"]
  BY <1>2, <1>3, CommitFacts
<1> QED
  BY <1>4, PeopleStay DEF Stays

\* discard: one result, if it is still there.
LEMMA DiscardImplements ==
  ASSUME NobodyPurges, PInv, RInv, NEW c \in Clients, Commit(c), tx[c].op = "discard"
  PROVE  Abs!Next \/ Stays
<1> DEFINE t == tx[c]
           results == db["performance"]
<1>1. RecordProgress(t) /\ Progress(t) /\ Commits(c)
  BY CommitFacts
<1>2. /\ t.ins["user"] = {} /\ t.del["user"] = {}
      /\ t.ins["athlete"] = {} /\ t.del["athlete"] = {}
  BY <1>1 DEF Commits
<1>3. t.ins["performance"] = {} /\ \A r \in t.del["performance"] : r.id = t.pk
  BY <1>1 DEF Progress, RecordProgress
<1>4. /\ db'["performance"] = results \ t.del["performance"]
      /\ t.del["performance"] \subseteq results
      /\ db'["user"] = db["user"] /\ db'["athlete"] = db["athlete"]
  BY <1>2, <1>3, CommitFacts
<1>5. People(db)' = People(db) /\ AdminsOf(db)' = AdminsOf(db)
  BY <1>4, PeopleStay
<1>6. CASE t.del["performance"] = {}
  BY <1>4, <1>5, <1>6 DEF Stays
<1>7. CASE t.del["performance"] # {}
  <2>1. PICK r \in t.del["performance"] : t.del["performance"] = {r}
    BY <1>3, <1>4, <1>7 DEF RInv, ResultIds
  <2> QED
    BY <1>4, <1>5, <2>1, Discards
<1> QED
  BY <1>6, <1>7

LEMMA CommitImplements ==
  ASSUME NobodyPurges, PInv, RInv, NEW c \in Clients, Commit(c)
  PROVE  Abs!Next \/ Stays
<1>1. tx[c].op \in {"create", "update", "delete", "setStatus", "record", "amend", "discard",
                    "createAdmin"}
  BY CommitFacts DEF Is
<1> QED
  BY <1>1, CreateImplements, CreateAdminImplements, SetStatusImplements, UpdateImplements,
     DeleteImplements, RecordImplements, AmendImplements, DiscardImplements

-----------------------------------------------------------------------------
(* What each of the other statements does to the records                   *)

\* What Advance makes of the fields that Forward does not name.
LEMMA Onward ==
  ASSUME PInv, NEW c \in Clients, NEW t \in Transactions, Advance(c, t)
  PROVE  /\ tx'[c].on = t.on /\ tx'[c].todo = t.todo
         /\ \A d \in Clients \ {c} : tx'[d].on = tx[d].on /\ tx'[d].todo = tx[d].todo
<1>1. tx'[c] = [t EXCEPT !.at = t.at + 1] /\ \A d \in Clients \ {c} : tx'[d] = tx[d]
  BY DEF Advance, PInv, IInv, TypeInv
<1> QED
  BY <1>1 DEF Transactions

\* The statement writes no account, profile or result.
Reads(c) ==
  LET s == tx[c]
      t == tx'[c]
  IN  /\ seq'["performance"] = seq["performance"]
      /\ \A d \in Clients \ {c} : tx'[d].on = tx[d].on /\ tx'[d].todo = tx[d].todo
      /\ t.op = s.op /\ t.email = s.email /\ t.license = s.license /\ t.on = s.on
      /\ t.pk = s.pk /\ s.at <= t.at
      /\ \A n \in {"user", "athlete", "performance"} :
           t.ins[n] = s.ins[n] /\ t.del[n] = s.del[n]
      /\ s.op = "createAdmin" => t.at <= 4
      /\ s.op = "update" => t.at <= 3
      /\ s.op = "delete" =>
           /\ t.at >= 2
           /\ \/ s.at = 1 /\ t.seen \in db["athlete"] /\ t.todo \subseteq {t.seen.user}
              \/ s.at >= 2 /\ t.seen = s.seen /\ t.todo \subseteq s.todo
      /\ s.op = "discard" => (t.todo \subseteq {s.pk} \/ (s.at >= 2 /\ t.todo \subseteq s.todo))

LEMMA ReadsProgress ==
  ASSUME PInv, RInv, NEW c \in Clients, Reads(c), tx'[c].at \in Nat
  PROVE  RecordProgress(tx'[c])
<1> DEFINE s == tx[c]
           t == tx'[c]
<1>1. RecordProgress(s) /\ s.at \in Nat
  BY DEF RInv, RecordsInv, PInv, IInv, TypeInv, Transactions
<1>2. /\ t.op = s.op /\ t.email = s.email /\ t.license = s.license /\ t.on = s.on
      /\ t.pk = s.pk /\ s.at <= t.at
      /\ t.ins["user"] = s.ins["user"] /\ t.del["user"] = s.del["user"]
      /\ t.ins["athlete"] = s.ins["athlete"] /\ t.del["athlete"] = s.del["athlete"]
      /\ t.ins["performance"] = s.ins["performance"]
      /\ t.del["performance"] = s.del["performance"]
  BY DEF Reads
<1>3. CASE s.op = "delete"
  BY <1>1, <1>2, <1>3 DEF Reads, RecordProgress
<1>4. CASE s.op = "discard"
  BY <1>1, <1>2, <1>4 DEF Reads, RecordProgress
<1>5. CASE s.op = "update"
  <2>1. t.at <= 3
    BY <1>5 DEF Reads
  <2> QED
    BY <1>1, <1>2, <1>5, <2>1 DEF RecordProgress
<1>6. CASE s.op = "createAdmin"
  <2>1. t.at <= 4
    BY <1>6 DEF Reads
  <2> QED
    BY <1>1, <1>2, <1>6, <2>1 DEF RecordProgress
<1>7. CASE s.op \notin {"delete", "discard", "update", "createAdmin"}
  BY <1>1, <1>2, <1>7 DEF RecordProgress
<1> QED
  BY <1>3, <1>4, <1>5, <1>6, <1>7

LEMMA ReadsWrites ==
  ASSUME PInv, RInv, NEW c \in Clients, Good(c), Reads(c)
  PROVE  Writes(c)
<1>1. tx'[c].at \in Nat /\ db' = db
  BY DEF Good, Work, TypeInv, Transactions
<1>2. RecordProgress(tx'[c])
  BY <1>1, ReadsProgress
<1>3. /\ \A n \in {"user", "athlete", "performance"} :
           tx'[c].ins[n] = tx[c].ins[n] /\ tx'[c].del[n] = tx[c].del[n]
      /\ seq'["performance"] = seq["performance"] /\ tx'[c].op = tx[c].op
      /\ \A d \in Clients \ {c} : tx'[d].on = tx[d].on /\ tx'[d].todo = tx[d].todo
  BY DEF Reads
<1>4. NewKeys(c)
  BY <1>3 DEF NewKeys
<1>5. seq["performance"] \in Nat /\ \A r \in tx[c].ins["performance"] : r.id <= seq["performance"]
  BY ResultTypes DEF PInv, IInv, RInv, ResultIds
<1>6. tx'[c].op = "delete" /\ tx'[c].at >= 2 =>
        \/ tx[c].op = "delete" /\ tx[c].at >= 2 /\ tx'[c].seen = tx[c].seen
        \/ tx'[c].seen \in db["athlete"]
  BY <1>3 DEF Reads
<1> QED
  BY <1>2, <1>3, <1>4, <1>5, <1>6 DEF Writes

LEMMA AbortWrites ==
  ASSUME PInv, RInv, NEW c \in Clients, NEW how \in {"none", "refused", "error"}, Abort(c, how)
  PROVE  Writes(c)
<1>1. tx'[c] = NoTx /\ seq' = seq /\ \A d \in Clients \ {c} : tx'[d] = tx[d]
  BY DEF Abort, PInv, IInv, TypeInv
<1>2. /\ NoTx.op = "none"
      /\ \A n \in {"user", "athlete", "performance"} : NoTx.ins[n] = {} /\ NoTx.del[n] = {}
  BY NoTxType DEF NoRows, Tables
<1>3. RecordProgress(NoTx)
  BY <1>2 DEF RecordProgress
<1>4. seq["performance"] \in Nat
  BY ResultTypes DEF PInv, IInv
<1> QED
  BY <1>1, <1>2, <1>3, <1>4 DEF Writes, NewKeys

LEMMA StartWrites ==
  ASSUME NobodyPurges, PInv, RInv, NEW c \in Clients, NEW op \in Operations, Start(c, op)
  PROVE  Writes(c)
<1>1. PICK e \in EmailsFor(op), l \in LicensesFor(op), i \in IdsFor(op), on \in StatusesFor(op) :
        tx' = [d \in Clients |->
                 IF d = c THEN [NoTx EXCEPT !.op = op, !.email = e, !.license = l, !.pk = i,
                                            !.on = on, !.alone = \A f \in Clients : ~Busy(f)]
                 ELSE IF Busy(d) THEN [tx[d] EXCEPT !.alone = FALSE] ELSE tx[d]]
  BY DEF Start
<1> DEFINE t == tx'[c]
<1>2. /\ t.op = op /\ t.at = 1 /\ t.email = e /\ t.license = l
      /\ \A n \in {"user", "athlete", "performance"} : t.ins[n] = {} /\ t.del[n] = {}
  <2> DEFINE n == [NoTx EXCEPT !.op = op, !.email = e, !.license = l, !.pk = i, !.on = on,
                               !.alone = \A f \in Clients : ~Busy(f)]
  <2>1. tx'[c] = n
    BY <1>1
  <2>2. /\ n.op = op /\ n.at = NoTx.at /\ n.email = e /\ n.license = l
        /\ n.ins = NoTx.ins /\ n.del = NoTx.del
    BY NoTxType DEF Transactions
  <2> HIDE DEF n
  <2> QED
    BY <2>1, <2>2, NoTxType DEF NoRows, Tables
<1>3. \A d \in Clients \ {c} : tx'[d].on = tx[d].on /\ tx'[d].todo = tx[d].todo
  <2>1. \A d \in Clients \ {c} : tx'[d] = [tx[d] EXCEPT !.alone = FALSE] \/ tx'[d] = tx[d]
    BY <1>1
  <2>2. \A d \in Clients : tx[d] \in Transactions
    BY DEF PInv, IInv, TypeInv
  <2> QED
    BY <2>1, <2>2 DEF Transactions
<1>4. /\ op \in {"create", "createAdmin"} => e \in Emails
      /\ op = "create" => l \in Licenses
      /\ op = "update" => l \in Licenses \cup {None}
  BY DEF EmailsFor, LicensesFor
<1>5. RecordProgress(t)
  <2> HIDE DEF t
  <2>1. /\ t.ins["user"] = {} /\ t.del["user"] = {} /\ t.ins["athlete"] = {}
        /\ t.del["athlete"] = {} /\ t.ins["performance"] = {} /\ t.del["performance"] = {}
        /\ t.at # 4 /\ t.at # 5 /\ ~(t.at >= 2)
    BY <1>2
  <2> QED
    BY <1>2, <1>4, <2>1, Zenon DEF RecordProgress
<1>6. seq' = seq /\ seq["performance"] \in Nat
  BY ResultTypes DEF PInv, IInv, Start
<1> QED
  BY <1>2, <1>3, <1>5, <1>6 DEF Writes, NewKeys

\* The usual case: it goes on with t.
GoesOn(c, t) ==
  LET s == tx[c]
  IN  /\ t.op = s.op /\ t.email = s.email /\ t.license = s.license /\ t.on = s.on
      /\ t.pk = s.pk /\ s.at <= t.at
      /\ \A n \in {"user", "athlete", "performance"} :
           t.ins[n] = s.ins[n] /\ t.del[n] = s.del[n]
      /\ s.op = "createAdmin" => t.at <= 3
      /\ s.op = "update" => t.at <= 2
      /\ s.op = "delete" =>
           /\ t.at >= 1
           /\ \/ s.at = 1 /\ t.seen \in db["athlete"] /\ t.todo \subseteq {t.seen.user}
              \/ s.at >= 2 /\ t.seen = s.seen /\ t.todo \subseteq s.todo
      /\ s.op = "discard" => (t.todo \subseteq {s.pk} \/ (s.at >= 2 /\ t.todo \subseteq s.todo))

LEMMA GoesOnWrites ==
  ASSUME PInv, RInv, NEW c \in Clients, Good(c), NEW t \in Transactions, Advance(c, t),
         GoesOn(c, t), seq'["performance"] = seq["performance"]
  PROVE  Writes(c)
<1> DEFINE s == tx[c]
           n == tx'[c]
<1>1. s.at \in Nat /\ t.at \in Nat
  BY DEF PInv, IInv, TypeInv, Transactions
<1>2. /\ n.op = t.op /\ n.at = t.at + 1 /\ n.pk = t.pk /\ n.ins = t.ins /\ n.del = t.del
      /\ n.seen = t.seen /\ n.email = t.email /\ n.license = t.license
  BY Forward
<1>3. /\ n.on = t.on /\ n.todo = t.todo
      /\ \A d \in Clients \ {c} : tx'[d].on = tx[d].on /\ tx'[d].todo = tx[d].todo
  BY Onward
<1>4. Reads(c)
  BY <1>1, <1>2, <1>3 DEF Reads, GoesOn
<1> QED
  BY <1>4, ReadsWrites

LEMMA QueriesWrite ==
  ASSUME NobodyPurges, PInv, RInv, NEW c \in Clients,
         \/ FreeEmail(c) \/ FreeLicense(c) \/ GetUserRole(c) \/ GetAdminRole(c)
         \/ FindAthlete(c) \/ FindPerformance(c) \/ ScanUsers(c) \/ ScanAthletes(c)
  PROVE  Writes(c)
<1>1. Good(c) /\ Busy(c)
  BY QueriesSettle
  DEF FreeEmail, FreeLicense, GetUserRole, GetAdminRole, FindAthlete, FindPerformance,
      ScanUsers, ScanAthletes, At
<1>2. Places(c) /\ tx[c].op \in Operations /\ tx[c] \in Transactions /\ Progress(tx[c])
  BY <1>1, OpenPlaces DEF PInv, IInv, TypeInv, ProgressInv
<1>3. ASSUME Abort(c, "refused") PROVE Writes(c)
  BY <1>3, AbortWrites
<1>4. ASSUME NEW t \in Transactions, GoesOn(c, t), Proceed(c, t) PROVE Writes(c)
  BY <1>1, <1>4, GoesOnWrites DEF Proceed
<1>5. tx[c].at \in Nat
  BY <1>2 DEF Transactions
<1>6. CASE FreeEmail(c)
  <2>1. Is(c, "create", 1) \/ Is(c, "createAdmin", 1)
    BY <1>2, <1>6 DEF Places, FreeEmail
  <2>2. GoesOn(c, tx[c])
    BY <1>2, <2>1 DEF GoesOn, Is
  <2> QED
    BY <1>2, <1>3, <1>4, <1>6, <2>2 DEF FreeEmail
<1>7. CASE FreeLicense(c)
  <2>1. Is(c, "create", 2) \/ Is(c, "update", 2)
    BY <1>2, <1>7 DEF Places, FreeLicense
  <2>2. GoesOn(c, tx[c])
    BY <1>2, <2>1 DEF GoesOn, Is
  <2> QED
    BY <1>2, <1>3, <1>4, <1>7, <2>2 DEF FreeLicense
<1>8. CASE GetUserRole(c) \/ GetAdminRole(c)
  <2>1. Is(c, "create", 3) \/ Is(c, "createAdmin", 2)
    BY <1>2, <1>8 DEF Places, GetUserRole, GetAdminRole, NobodyPurges, Is
  <2> DEFINE t == [tx[c] EXCEPT !.at = @ + 1]
  <2>2. GoesOn(c, tx[c])
    BY <1>2, <2>1 DEF GoesOn, Is
  <2>3. /\ t \in Transactions /\ t.at = tx[c].at + 1 /\ t.op = tx[c].op /\ t.pk = tx[c].pk
        /\ t.email = tx[c].email /\ t.license = tx[c].license /\ t.on = tx[c].on
        /\ t.ins = tx[c].ins /\ t.del = tx[c].del
    BY <1>2 DEF Transactions
  <2>4. Skip(c) => Proceed(c, t)
    BY DEF Skip
  <2> HIDE DEF t
  <2>5. GoesOn(c, t)
    BY <2>1, <2>3 DEF GoesOn, Is
  <2> QED
    BY <1>2, <1>4, <1>8, <2>2, <2>3, <2>4, <2>5 DEF GetUserRole, GetAdminRole, GetRole
<1>9. CASE FindAthlete(c)
  <2>1. CASE Abort(c, "refused")
    BY <1>3, <2>1
  <2>2. CASE \E a \in Visible(c, "athlete") :
               a.id = tx[c].pk /\ Proceed(c, [tx[c] EXCEPT !.seen = a, !.todo = {a.user}])
    <3>1. PICK a \in Visible(c, "athlete") :
                 Proceed(c, [tx[c] EXCEPT !.seen = a, !.todo = {a.user}])
      BY <2>2
    <3>2. a \in Rows("athlete") /\ a.user \in Nat
      <4>1. /\ db["athlete"] \subseteq Rows("athlete")
            /\ tx[c].ins["athlete"] \subseteq Rows("athlete")
        BY <1>2, RowsOf DEF PInv, IInv, TypeInv, Transactions, Tables
      <4> QED
        BY <4>1, AthleteRows DEF Visible
    <3> DEFINE t == [tx[c] EXCEPT !.seen = a, !.todo = {a.user}]
    <3>3. /\ t \in Transactions /\ t.at = tx[c].at /\ t.op = tx[c].op /\ t.pk = tx[c].pk
          /\ t.email = tx[c].email /\ t.license = tx[c].license /\ t.on = tx[c].on
          /\ t.ins = tx[c].ins /\ t.del = tx[c].del /\ t.seen = a /\ t.todo = {a.user}
      BY <1>2, <3>2 DEF Transactions
    <3>4. \E op \in {"update", "setStatus", "delete", "record"} : Is(c, op, 1)
      BY <1>2, <1>9 DEF Places, FindAthlete
    <3>5. Proceed(c, t)
      BY <3>1
    <3>6. tx[c].op = "delete" => a \in db["athlete"]
      <4>1. tx[c].op = "delete" => tx[c].ins["athlete"] = {}
        BY <1>2 DEF Progress
      <4> QED
        BY <4>1 DEF Visible
    <3> HIDE DEF t
    <3>7. GoesOn(c, t)
      BY <3>3, <3>4, <3>6 DEF GoesOn, Is
    <3> QED
      BY <1>4, <3>3, <3>5, <3>7
  <2> QED
    BY <1>9, <2>1, <2>2 DEF FindAthlete
<1>10. CASE FindPerformance(c) \/ ScanUsers(c) \/ ScanAthletes(c)
  <2>1. Is(c, "amend", 1) \/ Is(c, "discard", 1)
    BY <1>2, <1>10 DEF Places, FindPerformance, ScanUsers, ScanAthletes, NobodyPurges, Is
  <2>2. FindPerformance(c)
    <3>1. ~ScanUsers(c) /\ ~ScanAthletes(c)
      BY <1>2, <2>1 DEF Places, ScanUsers, ScanAthletes, Is
    <3> QED
      BY <1>10, <3>1
  <2> DEFINE t == [tx[c] EXCEPT !.todo = {tx[c].pk}]
  <2>3. /\ t \in Transactions /\ t.at = tx[c].at /\ t.op = tx[c].op /\ t.pk = tx[c].pk
        /\ t.email = tx[c].email /\ t.license = tx[c].license /\ t.on = tx[c].on
        /\ t.ins = tx[c].ins /\ t.del = tx[c].del /\ t.todo = {tx[c].pk}
    BY <1>2 DEF Transactions
  <2>4. Abort(c, "refused") \/ Proceed(c, t)
    BY <2>2 DEF FindPerformance
  <2> HIDE DEF t
  <2>5. GoesOn(c, t)
    BY <2>1, <2>3 DEF GoesOn, Is
  <2> QED
    BY <1>3, <1>4, <2>3, <2>4, <2>5
<1> QED
  BY <1>6, <1>7, <1>8, <1>9, <1>10

LEMMA AddRoleWrites ==
  ASSUME NobodyPurges, PInv, RInv, NEW c \in Clients, AddUserRole(c) \/ AddAdminRole(c)
  PROVE  Writes(c)
<1>1. Busy(c) /\ Good(c)
  BY AddRoleSettles DEF AddUserRole, AddAdminRole, At
<1>2. Places(c) /\ tx[c].op \in Operations /\ tx[c] \in Transactions
  BY <1>1, OpenPlaces DEF PInv, IInv, TypeInv
<1>3. Is(c, "create", 4) \/ Is(c, "createAdmin", 3)
  BY <1>2 DEF Places, AddUserRole, AddAdminRole, NobodyPurges, Is
<1>4. PICK row \in Rows("role") : Insert(c, "role", row)
  BY DEF AddUserRole, AddAdminRole, Rows
<1>5. CASE Abort(c, "error")
  BY <1>5, AbortWrites
<1>6. CASE ~Abort(c, "error")
  <2>1. "role" \in Tables /\ "role" \notin Numbered
    BY DEF Tables, Numbered
  <2>2. PICK n \in Transactions : Inserted(c, "role", row, n)
    BY <1>4, <1>6, <2>1, Inserting, Zenon
  <2>3. n.at \in Nat
    BY DEF Transactions
  <2>4. GoesOn(c, n)
    BY <1>3, <2>1, <2>2, <2>3 DEF GoesOn, Is, Tables, Inserted
  <2> QED
    BY <1>1, <2>1, <2>2, <2>4, GoesOnWrites DEF Inserted
<1> QED
  BY <1>5, <1>6

\* A new account or profile has keys that are nobody's.
LEMMA InsertedWrites ==
  ASSUME PInv, RInv, NEW c \in Clients, Good(c), NEW t \in {"user", "athlete"}, NEW row,
         Insert(c, t, row), ~Abort(c, "error"), NEW n \in Transactions, Inserted(c, t, row, n),
         tx[c].op # "delete", RecordProgress(tx'[c])
  PROVE  Writes(c)
<1>1. /\ ~KeyContended(c, t, row)
      /\ \A s \in Visible(c, t) : ~SameKey(t, s, row)
  BY DEF Insert
<1>2. t \in Tables /\ t \in Numbered /\ "performance" \in Numbered /\ {"user", "athlete",
      "performance"} \subseteq Tables
  BY DEF Tables, Numbered
<1>3. /\ tx'[c].op = tx[c].op /\ tx'[c].del = tx[c].del
      /\ tx'[c].ins[t] = tx[c].ins[t] \cup {row}
      /\ \A u \in Tables \ {t} : tx'[c].ins[u] = tx[c].ins[u]
  BY Forward DEF Inserted
<1>4. NewKeys(c)
  <2> SUFFICES ASSUME NEW u \in {"user", "athlete"}, NEW r \in tx'[c].ins[u],
                      r \notin tx[c].ins[u]
               PROVE  /\ tx[c].del[u] \subseteq tx'[c].del[u]
                      /\ ~KeyContended(c, u, r)
                      /\ \A s \in Visible(c, u) : ~SameKey(u, s, r)
    BY <1>3 DEF NewKeys
  <2>1. u = t /\ r = row
    BY <1>2, <1>3
  <2> QED
    BY <1>1, <1>3, <2>1
<1>5. seq'["performance"] = seq["performance"]
  BY <1>2 DEF Inserted, PInv, IInv, TypeInv
<1>6. seq["performance"] \in Nat /\ \A r \in tx[c].ins["performance"] : r.id <= seq["performance"]
  BY ResultTypes DEF PInv, IInv, RInv, ResultIds
<1>7. \A d \in Clients \ {c} : tx'[d].on = tx[d].on /\ tx'[d].todo = tx[d].todo
  BY Onward DEF Inserted
<1>8. tx'[c].ins["performance"] = tx[c].ins["performance"]
  BY <1>2, <1>3
<1> QED
  BY <1>3, <1>4, <1>5, <1>6, <1>7, <1>8 DEF Writes

LEMMA AddAccountWrites ==
  ASSUME NobodyPurges, PInv, RInv, NEW c \in Clients, AddUser(c) \/ AddAdmin(c)
  PROVE  Writes(c)
<1> DEFINE x == tx[c]
           row == IF AddUser(c)
                  THEN [id |-> seq["user"] + 1, email |-> x.email, role |-> "user",
                        active |-> TRUE]
                  ELSE [id |-> seq["user"] + 1, role |-> "admin", active |-> TRUE,
                        email |-> IF x.op = "seed" THEN AdminEmail ELSE x.email]
<1>1. Busy(c) /\ Good(c)
  BY AddAccountSettles DEF AddUser, AddAdmin, At
<1>2. /\ Places(c) /\ x.op \in Operations /\ x \in Transactions /\ Progress(x)
      /\ AccountProgress(x) /\ RecordProgress(x)
  BY <1>1, OpenPlaces DEF PInv, IInv, TypeInv, ProgressInv, AccountsInv, RInv, RecordsInv
<1>3. \/ AddUser(c) /\ Is(c, "create", 5)
      \/ AddAdmin(c) /\ ~AddUser(c) /\ Is(c, "createAdmin", 4)
  BY <1>2 DEF Places, AddUser, AddAdmin, NobodyPurges, Is
<1>4. /\ seq["user"] \in Nat /\ "user" \in Tables /\ "user" \in Numbered
      /\ "athlete" \in Tables \ {"user"} /\ "performance" \in Tables \ {"user"}
      /\ x.email \in Emails /\ x.email \in Mails
      /\ x.ins["user"] = {} /\ x.ins["athlete"] = {} /\ x.ins["performance"] = {}
      /\ x.del["performance"] = {}
      /\ x.op = "create" => x.license \in Licenses
  <2>1. seq["user"] \in Nat /\ "user" \in Tables /\ "user" \in Numbered
        /\ "athlete" \in Tables \ {"user"} /\ "performance" \in Tables \ {"user"}
    BY AccountTypes DEF PInv, IInv, Tables, Numbered
  <2>2. x.op \in {"create", "createAdmin"} /\ x.at \in {4, 5} /\ (x.op = "create" => x.at = 5)
        /\ (x.op = "createAdmin" => x.at = 4)
    BY <1>3 DEF Is
  <2>3. x.email \in Emails /\ (x.op = "create" => x.license \in Licenses)
        /\ x.del["performance"] = {}
    BY <1>2, <2>2 DEF RecordProgress
  <2>4. x.ins["user"] = {}
    BY <1>2, <2>2 DEF AccountProgress
  <2>5. x.ins["athlete"] = {} /\ x.ins["performance"] = {}
    BY <1>2, <2>2 DEF Progress, Deleting
  <2> QED
    BY <2>1, <2>3, <2>4, <2>5 DEF Mails
<1>5. Insert(c, "user", row)
  <2>1. CASE AddUser(c)
    BY <2>1 DEF AddUser
  <2>2. CASE AddAdmin(c) /\ ~AddUser(c)
    BY <2>2 DEF AddAdmin, AdminAddress
  <2> QED
    BY <1>3, <2>1, <2>2
<1>6. /\ row \in Rows("user") /\ row.email = x.email /\ row.active = TRUE
  BY <1>3, <1>4 DEF Rows, Mails, Is
<1> HIDE DEF row
<1>7. CASE Abort(c, "error")
  BY <1>7, AbortWrites
<1>8. CASE ~Abort(c, "error")
  <2>1. PICK n \in Transactions : Inserted(c, "user", row, n)
    BY <1>4, <1>5, <1>6, <1>8, Inserting, Zenon
  <2>2. /\ tx'[c].op = x.op /\ tx'[c].at = x.at + 1 /\ tx'[c].email = x.email
        /\ tx'[c].license = x.license /\ tx'[c].del = x.del
        /\ tx'[c].ins["user"] = {row}
        /\ tx'[c].ins["athlete"] = {} /\ tx'[c].ins["performance"] = {}
    BY <1>4, <2>1, Forward DEF Inserted
  <2>3. RecordProgress(tx'[c])
    <3>1. x.op \in {"create", "createAdmin"}
      BY <1>3 DEF Is
    <3>2. /\ tx'[c].op = x.op /\ tx'[c].email \in Emails /\ tx'[c].del["performance"] = {}
          /\ \A u \in tx'[c].ins["user"] : u = row
          /\ tx'[c].ins["user"] # {} /\ tx'[c].ins["athlete"] = {}
          /\ row.email = tx'[c].email /\ row.active = TRUE
          /\ x.op = "create" => tx'[c].license \in Licenses
      BY <1>4, <1>6, <2>2
    <3> QED
      BY <3>1, <3>2 DEF RecordProgress
  <2>4. x.op # "delete"
    BY <1>3 DEF Is
  <2> QED
    BY <1>1, <1>5, <1>8, <2>1, <2>3, <2>4, InsertedWrites
<1> QED
  BY <1>7, <1>8

LEMMA AddAthleteWrites ==
  ASSUME NobodyPurges, PInv, RInv, NEW c \in Clients, AddAthlete(c)
  PROVE  Writes(c)
<1> DEFINE x == tx[c]
           row == [id |-> seq["athlete"] + 1, user |-> x.pk, license |-> x.license]
<1>1. Busy(c) /\ Good(c)
  BY AddAthleteSettles DEF AddAthlete, At
<1>2. /\ Places(c) /\ x.op \in Operations /\ x \in Transactions /\ Progress(x)
      /\ RecordProgress(x)
  BY <1>1, OpenPlaces DEF PInv, IInv, TypeInv, ProgressInv, RInv, RecordsInv
<1>3. x.op = "create" /\ x.at = 6
  BY <1>2 DEF Places, AddAthlete, NobodyPurges, Is
<1>4. /\ seq["athlete"] \in Nat /\ "athlete" \in Tables /\ "athlete" \in Numbered
      /\ "user" \in Tables \ {"athlete"} /\ "performance" \in Tables \ {"athlete"}
      /\ x.pk \in Nat
  BY <1>2 DEF PInv, IInv, TypeInv, Tables, Numbered, Transactions
<1>5. /\ x.ins["athlete"] = {}
      /\ x.email \in Emails /\ x.license \in Licenses
      /\ \A u \in x.ins["user"] : u.email = x.email /\ u.active = TRUE
      /\ x.del["performance"] = {}
  <2>1. x.ins["athlete"] = {}
    BY <1>2, <1>3 DEF Progress
  <2> QED
    BY <1>2, <1>3, <2>1 DEF RecordProgress
<1>6. row \in Rows("athlete") /\ row.license = x.license
  BY <1>4, <1>5 DEF Rows
<1>7. Insert(c, "athlete", row)
  BY DEF AddAthlete
<1> HIDE DEF row
<1>8. CASE Abort(c, "error")
  BY <1>8, AbortWrites
<1>9. CASE ~Abort(c, "error")
  <2>1. PICK n \in Transactions : Inserted(c, "athlete", row, n)
    BY <1>4, <1>6, <1>7, <1>9, Inserting, Zenon
  <2>2. /\ tx'[c].op = "create" /\ tx'[c].email = x.email
        /\ tx'[c].license = x.license /\ tx'[c].del = x.del
        /\ tx'[c].ins["athlete"] = {row} /\ tx'[c].ins["user"] = x.ins["user"]
    BY <1>3, <1>4, <1>5, <2>1, Forward DEF Inserted
  <2>3. RecordProgress(tx'[c])
    BY <1>5, <1>6, <2>2 DEF RecordProgress
  <2> QED
    BY <1>1, <1>3, <1>7, <1>9, <2>1, <2>3, InsertedWrites
<1> QED
  BY <1>8, <1>9

\* The statement writes a result, or holds one, and no account or profile.
LEMMA ResultWritten ==
  ASSUME PInv, RInv, NEW c \in Clients, Good(c), tx'[c].op \in {"record", "amend"},
         \A d \in Clients \ {c} : tx'[d].on = tx[d].on /\ tx'[d].todo = tx[d].todo,
         \A t \in {"user", "athlete"} :
           tx'[c].ins[t] = tx[c].ins[t] /\ tx'[c].del[t] = tx[c].del[t],
         RecordProgress(tx'[c]), seq["performance"] <= seq'["performance"],
         \A r \in tx'[c].ins["performance"] :
           /\ r.id <= seq'["performance"]
           /\ r \in tx'[c].del["performance"] \/ seq["performance"] < r.id
  PROVE  Writes(c)
<1>1. NewKeys(c)
  BY DEF NewKeys
<1> QED
  BY <1>1 DEF Writes

LEMMA ResultsWrite ==
  ASSUME NobodyPurges, PInv, RInv, NEW c \in Clients, AddPerformance(c) \/ LockPerformance(c)
  PROVE  Writes(c)
<1> DEFINE x == tx[c]
<1>1. Busy(c) /\ Good(c)
  BY ResultsSettle DEF AddPerformance, LockPerformance, At
<1>2. /\ Places(c) /\ TypeInv /\ x \in Transactions /\ x.op \in Operations
      /\ x.ins \in RowSets /\ x.del \in RowSets /\ seq \in [Numbered -> Nat]
      /\ "performance" \in Tables /\ "athlete" \in Tables /\ "user" \in Tables
      /\ RecordProgress(x) /\ Progress(x)
  BY <1>1, OpenPlaces
  DEF PInv, IInv, TypeInv, Transactions, Tables, ProgressInv, RInv, RecordsInv
<1>3. \/ AddPerformance(c) /\ x.op = "record" /\ x.at = 2
      \/ LockPerformance(c) /\ x.op = "amend" /\ x.at = 2
  BY <1>2 DEF Places, AddPerformance, LockPerformance, NobodyPurges, Is
<1>4. x.ins["performance"] = {} /\ x.del["performance"] = {}
  BY <1>2, <1>3 DEF RecordProgress, Progress
<1>5. CASE Abort(c, "error")
  BY <1>5, AbortWrites
<1>6. CASE Proceed(c, x)
  <2>1. GoesOn(c, x)
    BY <1>2, <1>3 DEF GoesOn, Transactions
  <2> QED
    BY <1>1, <1>2, <1>6, <2>1, GoesOnWrites DEF Proceed
<1>7. CASE AddPerformance(c) /\ x.op = "record" /\ ~Abort(c, "error")
  <2>1. PICK a \in Visible(c, "athlete") :
               /\ Advance(c, [tx[c] EXCEPT !.share = @ \cup {a.id},
                                           !.ins["performance"] =
                                             @ \cup {[id |-> seq["performance"] + 1,
                                                      athlete |-> a.id]}])
               /\ seq' = [seq EXCEPT !["performance"] = @ + 1]
    BY <1>7 DEF AddPerformance
  <2> DEFINE row == [id |-> seq["performance"] + 1, athlete |-> a.id]
             ins == [x.ins EXCEPT !["performance"] = x.ins["performance"] \cup {row}]
             n == [x EXCEPT !.share = x.share \cup {a.id}, !.ins = ins]
  <2>2. /\ Advance(c, n) /\ seq["performance"] \in Nat
        /\ seq'["performance"] = seq["performance"] + 1
    BY <1>2, <2>1 DEF Numbered
  <2>3. a.id \in Nat /\ row \in Rows("performance") /\ row.id = seq["performance"] + 1
    <3>1. a.id \in Nat
      BY <1>2, AthleteIds DEF Visible
    <3> QED
      BY <1>2, <3>1 DEF Rows, Numbered
  <2> HIDE DEF row
  <2>4. /\ ins = [x.ins EXCEPT !["performance"] = x.ins["performance"] \cup {row}]
        /\ x.ins["performance"] \cup {row} \in SUBSET Rows("performance")
    BY <1>2, <2>3, RowsOf
  <2>5. /\ ins["athlete"] = x.ins["athlete"] /\ ins["user"] = x.ins["user"]
        /\ ins["performance"] = {row}
    BY <1>2, <1>4 DEF RowSets
  <2> HIDE DEF ins, n
  <2>6. ins \in RowSets
    BY <1>2, <2>4, RowsChanged
  <2>7. /\ n \in Transactions /\ n.op = x.op /\ n.at = x.at /\ n.ins = ins /\ n.del = x.del
    <3> HIDE DEF x
    <3> QED
      BY <1>2, <2>3, <2>6 DEF Transactions, n
  <2>8. /\ tx'[c].op = "record" /\ tx'[c].at = 3 /\ tx'[c].ins = ins /\ tx'[c].del = x.del
        /\ \A d \in Clients \ {c} : tx'[d].on = tx[d].on /\ tx'[d].todo = tx[d].todo
    BY <1>3, <1>7, <2>2, <2>7, Forward, Onward
  <2>9. RecordProgress(tx'[c])
    BY <1>4, <2>5, <2>8 DEF RecordProgress
  <2>10. \A r \in tx'[c].ins["performance"] :
           r.id <= seq'["performance"] /\ seq["performance"] < r.id
    BY <2>2, <2>3, <2>5, <2>8
  <2>11. seq["performance"] <= seq'["performance"]
    BY <2>2
  <2>12. \A t \in {"user", "athlete"} :
           tx'[c].ins[t] = tx[c].ins[t] /\ tx'[c].del[t] = tx[c].del[t]
    BY <2>5, <2>8
  <2> QED
    BY <1>1, <2>8, <2>9, <2>10, <2>11, <2>12, ResultWritten
<1>8. ASSUME x.op = "amend", NEW r \in Visible(c, "performance"),
             Overwrite(c, "performance", r, r)
      PROVE  Writes(c)
  <2> DEFINE ins == [x.ins EXCEPT !["performance"] = x.ins["performance"] \cup {r}]
             del == [x.del EXCEPT !["performance"] = x.del["performance"] \cup {r}]
             n == [x EXCEPT !.del = del, !.ins = ins]
  <2>1. Proceed(c, n)
    BY <1>8 DEF Overwrite
  <2>2. r \in Rows("performance") /\ r \in db["performance"]
    <3>1. r \in db["performance"]
      BY <1>4, <1>8 DEF Visible
    <3> QED
      BY <1>2, <3>1, RowsOf DEF TypeInv
  <2>3. /\ ins = [x.ins EXCEPT !["performance"] = x.ins["performance"] \cup {r}]
        /\ del = [x.del EXCEPT !["performance"] = x.del["performance"] \cup {r}]
        /\ x.ins["performance"] \cup {r} \in SUBSET Rows("performance")
        /\ x.del["performance"] \cup {r} \in SUBSET Rows("performance")
    BY <1>2, <2>2, RowsOf
  <2>4. /\ ins["athlete"] = x.ins["athlete"] /\ ins["user"] = x.ins["user"]
        /\ del["athlete"] = x.del["athlete"] /\ del["user"] = x.del["user"]
        /\ ins["performance"] = {r} /\ del["performance"] = {r}
    BY <1>2, <1>4 DEF RowSets
  <2> HIDE DEF ins, del, n
  <2>5. ins \in RowSets /\ del \in RowSets
    BY <1>2, <2>3, RowsChanged
  <2>6. n \in Transactions /\ n.op = x.op /\ n.at = x.at /\ n.ins = ins /\ n.del = del
    <3> HIDE DEF x
    <3> QED
      BY <1>2, <2>5 DEF Transactions, n
  <2>7. /\ tx'[c].op = "amend" /\ tx'[c].ins = ins /\ tx'[c].del = del /\ seq' = seq
        /\ \A d \in Clients \ {c} : tx'[d].on = tx[d].on /\ tx'[d].todo = tx[d].todo
    BY <1>8, <2>1, <2>6, Forward, Onward DEF Proceed
  <2>8. RecordProgress(tx'[c])
    BY <2>4, <2>7 DEF RecordProgress
  <2>9. /\ seq["performance"] \in Nat /\ seq["performance"] <= seq'["performance"]
        /\ r.id <= seq'["performance"]
    BY <2>2, <2>7, ResultTypes DEF PInv, IInv, RInv, ResultIds
  <2>10. \A t \in {"user", "athlete"} :
           tx'[c].ins[t] = tx[c].ins[t] /\ tx'[c].del[t] = tx[c].del[t]
    BY <2>4, <2>7
  <2>11. \A s \in tx'[c].ins["performance"] :
           s.id <= seq'["performance"] /\ s \in tx'[c].del["performance"]
    BY <2>4, <2>7, <2>9
  <2> QED
    BY <1>1, <2>7, <2>8, <2>9, <2>10, <2>11, ResultWritten
<1>9. CASE LockPerformance(c) /\ x.op = "amend"
  BY <1>6, <1>8, <1>9 DEF LockPerformance
<1> QED
  BY <1>3, <1>5, <1>7, <1>9

\* The statement writes, or holds, rows of account or profile, and no result.
LEMMA RowsWritten ==
  ASSUME PInv, RInv, NEW c \in Clients, Good(c), tx'[c].op # "delete",
         \A d \in Clients \ {c} : tx'[d].on = tx[d].on /\ tx'[d].todo = tx[d].todo,
         NewKeys(c), RecordProgress(tx'[c]), seq' = seq,
         tx'[c].ins["performance"] = tx[c].ins["performance"],
         tx'[c].del["performance"] = tx[c].del["performance"]
  PROVE  Writes(c)
<1>1. seq["performance"] \in Nat /\ \A r \in tx[c].ins["performance"] : r.id <= seq["performance"]
  BY ResultTypes DEF PInv, IInv, RInv, ResultIds
<1> QED
  BY <1>1 DEF Writes

LEMMA LockAthleteWrites ==
  ASSUME PInv, RInv, NEW c \in Clients, LockAthlete(c)
  PROVE  Writes(c)
<1> DEFINE x == tx[c]
<1>1. Busy(c) /\ Good(c)
  BY LockAthleteSettles DEF LockAthlete, At
<1>2. /\ Places(c) /\ TypeInv /\ x \in Transactions /\ Progress(x) /\ AccountProgress(x)
      /\ RecordProgress(x) /\ x.ins \in RowSets /\ x.del \in RowSets
      /\ "athlete" \in Tables /\ "user" \in Tables /\ "performance" \in Tables
  BY <1>1, OpenFacts DEF PInv, IInv, Transactions, Tables, AccountsInv, RInv, RecordsInv
<1>3. x.op = "update" /\ x.at = 3
  BY <1>2 DEF Places, LockAthlete, Is
<1>4. /\ x.ins["athlete"] = {} /\ x.del["athlete"] = {}
      /\ x.ins["user"] = {} /\ x.del["user"] = {}
      /\ x.ins["performance"] = {} /\ x.del["performance"] = {}
      /\ x.license \in Licenses \cup {None}
  <2>1. x.ins["athlete"] = {} /\ x.del["athlete"] = {} /\ x.ins["performance"] = {}
    BY <1>2, <1>3 DEF Progress, Deleting
  <2>2. x.ins["user"] = {} /\ x.del["user"] = {}
    BY <1>2, <1>3 DEF AccountProgress
  <2>3. x.del["performance"] = {} /\ x.license \in Licenses \cup {None}
    BY <1>2, <1>3 DEF RecordProgress
  <2> QED
    BY <2>1, <2>2, <2>3
\* Whatever it locks or writes.
<1>5. ASSUME NEW n \in Transactions, Proceed(c, n), n.op = "update", n.license = x.license,
             n.ins["user"] = {}, n.ins["performance"] = {}, n.del["performance"] = {},
             \/ n.at = 4 /\ n.ins["athlete"] = {} /\ n.del["athlete"] = {}
             \/ /\ n.at = 4
                /\ \E a \in db["athlete"] :
                     /\ n.ins["athlete"] = {a} /\ n.del["athlete"] = {a}
                     /\ ~RowLocked(c, "athlete", a)
             \/ n.at = 3 /\ n.ins["athlete"] = {} /\ n.license \in Licenses
      PROVE  Writes(c)
  <2>1. /\ tx'[c].op = "update" /\ tx'[c].at = n.at + 1 /\ tx'[c].license = x.license
        /\ tx'[c].ins = n.ins /\ tx'[c].del = n.del
        /\ \A d \in Clients \ {c} : tx'[d].on = tx[d].on /\ tx'[d].todo = tx[d].todo
    BY <1>5, Forward, Onward DEF Proceed
  <2>2. RecordProgress(tx'[c])
    <3>1. CASE n.at = 4
      <4>1. tx'[c].at = 5
        BY <2>1, <3>1
      <4> QED
        BY <1>4, <1>5, <2>1, <3>1, <4>1 DEF RecordProgress
    <3>2. CASE n.at = 3
      <4>1. tx'[c].at = 4
        BY <2>1, <3>2
      <4> QED
        BY <1>4, <1>5, <2>1, <3>2, <4>1 DEF RecordProgress
    <3> QED
      BY <1>5, <3>1, <3>2
  <2>3. NewKeys(c)
    BY <1>5, <2>1 DEF NewKeys, SameKey
  <2>4. seq' = seq
    BY <1>5 DEF Proceed
  <2> QED
    BY <1>1, <1>4, <1>5, <2>1, <2>2, <2>3, <2>4, RowsWritten
<1>6. CASE Skip(c)
  <2> DEFINE n == [x EXCEPT !.at = x.at + 1]
  <2>1. Proceed(c, n)
    BY <1>6 DEF Skip
  <2>2. /\ n \in Transactions /\ n.op = "update" /\ n.at = 4 /\ n.ins = x.ins /\ n.del = x.del
        /\ n.license = x.license
    BY <1>2, <1>3 DEF Transactions
  <2> HIDE DEF n
  <2> QED
    BY <1>4, <1>5, <2>1, <2>2
<1>7. ASSUME NEW a \in Visible(c, "athlete"), ~RowLocked(c, "athlete", a),
             \/ Proceed(c, [x EXCEPT !.at = @ + 1, !.del["athlete"] = {a}, !.ins["athlete"] = {a}])
             \/ /\ x.license \notin {None, a.license}
                /\ Proceed(c, [x EXCEPT !.seen = a, !.del["athlete"] = {a}])
      PROVE  Writes(c)
  <2>1. a \in Rows("athlete") /\ a \in db["athlete"]
    <3>1. a \in db["athlete"]
      BY <1>4, <1>7 DEF Visible
    <3> QED
      BY <1>2, <3>1, RowsOf DEF TypeInv
  <2> DEFINE del == [x.del EXCEPT !["athlete"] = {a}]
             ins == [x.ins EXCEPT !["athlete"] = {a}]
             far == [x EXCEPT !.at = x.at + 1, !.del = del, !.ins = ins]
             near == [x EXCEPT !.seen = a, !.del = del]
  <2>2. Proceed(c, far) \/ (x.license \notin {None, a.license} /\ Proceed(c, near))
    BY <1>7
  <2>3. /\ ins = [x.ins EXCEPT !["athlete"] = {a}] /\ del = [x.del EXCEPT !["athlete"] = {a}]
        /\ {a} \in SUBSET Rows("athlete")
    BY <2>1
  <2>4. /\ ins["athlete"] = {a} /\ del["athlete"] = {a} /\ ins["user"] = {}
        /\ ins["performance"] = {} /\ del["performance"] = {}
    BY <1>2, <1>4 DEF RowSets
  <2> HIDE DEF ins, del, far, near
  <2>5. ins \in RowSets /\ del \in RowSets
    BY <1>2, <2>3, RowsChanged
  <2>6. /\ far \in Transactions /\ far.op = x.op /\ far.at = x.at + 1
        /\ far.ins = ins /\ far.del = del /\ far.license = x.license
    <3>1. x.at + 1 \in Nat
      BY <1>3
    <3> HIDE DEF x
    <3> QED
      BY <1>2, <2>5, <3>1 DEF Transactions, far
  <2>7. /\ near \in Transactions /\ near.op = x.op /\ near.at = x.at
        /\ near.ins = x.ins /\ near.del = del /\ near.license = x.license
    <3> HIDE DEF x
    <3> QED
      BY <1>2, <2>1, <2>5 DEF Transactions, near
  <2>8. CASE Proceed(c, far)
    <3>1. /\ far.op = "update" /\ far.at = 4 /\ far.ins["user"] = {}
          /\ far.ins["performance"] = {} /\ far.del["performance"] = {}
          /\ far.ins["athlete"] = {a} /\ far.del["athlete"] = {a}
      BY <1>3, <2>4, <2>6
    <3> QED
      BY <1>5, <1>7, <2>1, <2>6, <2>8, <3>1
  <2>9. CASE x.license \notin {None, a.license} /\ Proceed(c, near)
    <3>1. /\ near.op = "update" /\ near.at = 3 /\ near.ins["user"] = {}
          /\ near.ins["performance"] = {} /\ near.del["performance"] = {}
          /\ near.ins["athlete"] = {} /\ near.license \in Licenses
      BY <1>3, <1>4, <2>4, <2>7, <2>9
    <3> QED
      BY <1>5, <2>7, <2>9, <3>1
  <2> QED
    BY <2>2, <2>8, <2>9
<1> QED
  BY <1>6, <1>7 DEF LockAthlete

LEMMA WriteAthleteWrites ==
  ASSUME PInv, RInv, NEW c \in Clients, WriteAthlete(c)
  PROVE  Writes(c)
<1> DEFINE x == tx[c]
           row == [x.seen EXCEPT !.license = x.license]
<1>1. Busy(c) /\ Good(c)
  BY WriteAthleteSettles DEF WriteAthlete, At
<1>2. /\ Places(c) /\ TypeInv /\ x \in Transactions /\ Progress(x) /\ AccountProgress(x)
      /\ RecordProgress(x) /\ x.ins \in RowSets
      /\ "athlete" \in Tables /\ "user" \in Tables /\ "performance" \in Tables
  BY <1>1, OpenFacts DEF PInv, IInv, Transactions, Tables, AccountsInv, RInv, RecordsInv
<1>3. x.op = "update" /\ x.at = 4
  BY <1>2 DEF Places, WriteAthlete, Is
<1>4. /\ x.seen \in Rows("athlete") /\ x.license \in Plates /\ x.license \in Licenses
      /\ x.del["athlete"] = {x.seen} /\ x.ins["user"] = {} /\ x.del["user"] = {}
      /\ x.ins["performance"] = {} /\ x.del["performance"] = {}
  <2>1. /\ x.seen \in Rows("athlete") /\ x.license \in Plates /\ x.del["athlete"] = {x.seen}
        /\ x.ins["performance"] = {}
    BY <1>2, <1>3 DEF Progress, Deleting
  <2>2. x.ins["user"] = {} /\ x.del["user"] = {}
    BY <1>2, <1>3 DEF AccountProgress
  <2>3. x.license \in Licenses /\ x.del["performance"] = {}
    BY <1>2, <1>3 DEF RecordProgress
  <2> QED
    BY <2>1, <2>2, <2>3
<1>5. row \in Rows("athlete") /\ row = [x.seen EXCEPT !.license = x.license]
  BY <1>4 DEF Rows, Plates
<1>6. ~KeyContended(c, "athlete", row)
  BY DEF WriteAthlete
<1>7. CASE Abort(c, "error")
  BY <1>7, AbortWrites
<1>8. CASE /\ \A a \in Visible(c, "athlete") : ~SameKey("athlete", a, row)
           /\ Proceed(c, [x EXCEPT !.ins["athlete"] = {row}])
  <2> HIDE DEF row
  <2> DEFINE ins == [x.ins EXCEPT !["athlete"] = {row}]
             n == [x EXCEPT !.ins = ins]
  <2>1. Proceed(c, n)
    BY <1>8
  <2>2. ins = [x.ins EXCEPT !["athlete"] = {row}] /\ {row} \in SUBSET Rows("athlete")
    BY <1>5
  <2>3. ins["athlete"] = {row} /\ ins["user"] = {} /\ ins["performance"] = {}
    BY <1>2, <1>4 DEF RowSets
  <2> HIDE DEF ins, n
  <2>4. ins \in RowSets
    BY <1>2, <2>2, RowsChanged
  <2>5. /\ n \in Transactions /\ n.op = x.op /\ n.at = x.at /\ n.ins = ins /\ n.del = x.del
        /\ n.license = x.license
    BY <1>2, <2>4 DEF Transactions, n
  <2>6. /\ tx'[c].op = "update" /\ tx'[c].at = 5 /\ tx'[c].license = x.license
        /\ tx'[c].ins = ins /\ tx'[c].del = x.del /\ seq' = seq
        /\ \A d \in Clients \ {c} : tx'[d].on = tx[d].on /\ tx'[d].todo = tx[d].todo
    BY <1>3, <2>1, <2>5, Forward, Onward DEF Proceed
  <2>7. RecordProgress(tx'[c])
    <3>1. \E a \in tx'[c].del["athlete"] :
            /\ tx'[c].del["athlete"] = {a}
            /\ tx'[c].license \in Licenses
            /\ tx'[c].ins["athlete"] = {[a EXCEPT !.license = tx'[c].license]}
      <4>1. /\ x.seen \in tx'[c].del["athlete"] /\ tx'[c].del["athlete"] = {x.seen}
            /\ tx'[c].ins["athlete"] = {row} /\ tx'[c].license = x.license
        BY <1>4, <2>3, <2>6
      <4>2. {row} = {[x.seen EXCEPT !.license = tx'[c].license]}
        BY <1>5, <4>1, Zenon
      <4> QED
        BY <1>4, <4>1, <4>2, Zenon
    <3>2. tx'[c].op = "update" /\ tx'[c].license \in Licenses /\ tx'[c].del["performance"] = {}
      BY <1>4, <2>6
    <3> QED
      BY <3>1, <3>2, Zenon DEF RecordProgress
  <2>8. NewKeys(c)
    <3>1. \A r \in tx'[c].ins["athlete"] : r = row
      BY <2>3, <2>6
    <3>2. tx'[c].ins["user"] = {} /\ tx'[c].del = tx[c].del
      BY <2>3, <2>6
    <3> QED
      BY <1>6, <1>8, <3>1, <3>2 DEF NewKeys
  <2> QED
    BY <1>1, <1>4, <2>3, <2>6, <2>7, <2>8, RowsWritten
<1> QED
  BY <1>7, <1>8 DEF WriteAthlete

LEMMA WriteUserWrites ==
  ASSUME PInv, RInv, NEW c \in Clients, WriteUser(c)
  PROVE  Writes(c)
<1> DEFINE x == tx[c]
<1>1. Busy(c) /\ Good(c)
  BY WriteUserSettles DEF WriteUser, At
<1>2. /\ Places(c) /\ TypeInv /\ x \in Transactions /\ Progress(x) /\ AccountProgress(x)
      /\ RecordProgress(x) /\ x.ins \in RowSets /\ x.del \in RowSets
      /\ "athlete" \in Tables /\ "user" \in Tables /\ "performance" \in Tables
  BY <1>1, OpenFacts DEF PInv, IInv, Transactions, Tables, AccountsInv, RInv, RecordsInv
<1>3. x.op = "setStatus" /\ x.at = 2
  BY <1>2 DEF Places, WriteUser, Is
<1>4. /\ x.ins["user"] = {} /\ x.del["user"] = {}
      /\ x.ins["athlete"] = {} /\ x.del["athlete"] = {}
      /\ x.ins["performance"] = {} /\ x.del["performance"] = {}
  <2>1. x.ins["user"] = {} /\ x.del["user"] = {}
    BY <1>2, <1>3 DEF AccountProgress
  <2>2. x.ins["athlete"] = {} /\ x.del["athlete"] = {} /\ x.ins["performance"] = {}
    BY <1>2, <1>3 DEF Progress, Deleting
  <2>3. x.del["performance"] = {}
    BY <1>2, <1>3 DEF RecordProgress
  <2> QED
    BY <2>1, <2>2, <2>3
<1>5. CASE Proceed(c, x)
  <2>1. GoesOn(c, x)
    BY <1>2, <1>3 DEF GoesOn, Transactions
  <2> QED
    BY <1>1, <1>2, <1>5, <2>1, GoesOnWrites DEF Proceed
<1>6. ASSUME NEW u \in Visible(c, "user"), Overwrite(c, "user", u, [u EXCEPT !.active = x.on])
      PROVE  Writes(c)
  <2> DEFINE v == [u EXCEPT !.active = x.on]
             ins == [x.ins EXCEPT !["user"] = x.ins["user"] \cup {v}]
             del == [x.del EXCEPT !["user"] = x.del["user"] \cup {u}]
             n == [x EXCEPT !.del = del, !.ins = ins]
  <2>1. Proceed(c, n) /\ ~RowLocked(c, "user", u)
    BY <1>6 DEF Overwrite
  <2>2. u \in db["user"] /\ u \in Rows("user")
    <3>1. u \in db["user"]
      BY <1>4, <1>6 DEF Visible
    <3> QED
      BY <1>2, <3>1, RowsOf DEF TypeInv
  <2>3. v \in Rows("user") /\ v.email = u.email
    <3>1. x.on \in BOOLEAN
      BY <1>2 DEF Transactions
    <3> QED
      BY <2>2, <3>1 DEF Rows
  <2>4. v = [u EXCEPT !.active = x.on]
    OBVIOUS
  <2> HIDE DEF v
  <2>5. /\ ins = [x.ins EXCEPT !["user"] = x.ins["user"] \cup {v}]
        /\ del = [x.del EXCEPT !["user"] = x.del["user"] \cup {u}]
        /\ x.ins["user"] \cup {v} \in SUBSET Rows("user")
        /\ x.del["user"] \cup {u} \in SUBSET Rows("user")
    BY <1>4, <2>2, <2>3
  <2>6. /\ ins["user"] = {v} /\ del["user"] = {u} /\ ins["athlete"] = {}
        /\ ins["performance"] = {} /\ del["performance"] = {}
    BY <1>2, <1>4 DEF RowSets
  <2> HIDE DEF ins, del, n
  <2>7. ins \in RowSets /\ del \in RowSets
    BY <1>2, <2>5, RowsChanged
  <2>8. /\ n \in Transactions /\ n.op = x.op /\ n.at = x.at /\ n.ins = ins /\ n.del = del
        /\ n.on = x.on
    <3> HIDE DEF x
    <3> QED
      BY <1>2, <2>7 DEF Transactions, n
  <2>9. /\ tx'[c].op = "setStatus" /\ tx'[c].ins = ins /\ tx'[c].del = del /\ tx'[c].on = x.on
        /\ seq' = seq
        /\ \A d \in Clients \ {c} : tx'[d].on = tx[d].on /\ tx'[d].todo = tx[d].todo
    BY <1>3, <2>1, <2>8, Forward, Onward DEF Proceed
  <2>10. RecordProgress(tx'[c])
    <3>1. \E w \in tx'[c].del["user"] :
            /\ tx'[c].del["user"] = {w}
            /\ tx'[c].ins["user"] = {[w EXCEPT !.active = tx'[c].on]}
      <4>1. u \in tx'[c].del["user"] /\ tx'[c].del["user"] = {u} /\ tx'[c].ins["user"] = {v}
        BY <2>6, <2>9
      <4>2. {v} = {[u EXCEPT !.active = tx'[c].on]}
        BY <2>4, <2>9, Zenon
      <4> QED
        BY <4>1, <4>2, Zenon
    <3>2. tx'[c].op = "setStatus" /\ tx'[c].del["performance"] = {}
      BY <2>6, <2>9
    <3> QED
      BY <3>1, <3>2, Zenon DEF RecordProgress
  <2>11. NewKeys(c)
    <3>1. \A r \in tx'[c].ins["user"] :
            \E s \in db["user"] :
              s \in tx'[c].del["user"] /\ SameKey("user", s, r) /\ ~RowLocked(c, "user", s)
      BY <2>1, <2>2, <2>3, <2>6, <2>9 DEF SameKey
    <3>2. tx'[c].ins["athlete"] = {}
      BY <2>6, <2>9
    <3> QED
      BY <3>1, <3>2 DEF NewKeys
  <2> QED
    BY <1>1, <1>4, <2>6, <2>9, <2>10, <2>11, RowsWritten
<1> QED
  BY <1>5, <1>6 DEF WriteUser

\* What is unchanged when c's transaction supersedes the row r.
LEMMA DeletedRowOnward ==
  ASSUME PInv, NEW c \in Clients, NEW t \in Tables, NEW r,
         tx' = [tx EXCEPT ![c].del[t] = @ \cup {r}]
  PROVE  /\ tx'[c].seen = tx[c].seen /\ tx'[c].todo = tx[c].todo
         /\ tx'[c].email = tx[c].email /\ tx'[c].license = tx[c].license
<1> DEFINE x == tx[c]
           del == [x.del EXCEPT ![t] = x.del[t] \cup {r}]
           n == [x EXCEPT !.del = del]
<1>1. x \in Transactions /\ tx \in [Clients -> Transactions]
  BY DEF PInv, IInv, TypeInv
<1>2. tx'[c] = n
  BY <1>1 DEF Transactions
<1> HIDE DEF del
<1>3. n.seen = x.seen /\ n.todo = x.todo /\ n.email = x.email /\ n.license = x.license
  BY <1>1 DEF Transactions
<1> QED
  BY <1>2, <1>3

LEMMA DeletionsWrite ==
  ASSUME NobodyPurges, PInv, RInv, NEW c \in Clients,
         DeleteUsers(c) \/ DeleteAthletes(c) \/ DeletePerformances(c) \/ Cascade(c)
  PROVE  Writes(c)
<1> DEFINE x == tx[c]
<1>1. Busy(c) /\ Good(c)
  BY DeletionsSettle DEF DeleteUsers, DeleteAthletes, DeletePerformances, Cascade, At
<1>2. /\ Places(c) /\ x \in Transactions /\ x.op \in Operations /\ x.at \in Nat
      /\ RecordProgress(x) /\ Progress(x)
      /\ "performance" \in Tables /\ "athlete" \in Tables /\ "user" \in Tables
  BY <1>1, OpenPlaces
  DEF PInv, IInv, TypeInv, Transactions, Tables, ProgressInv, RInv, RecordsInv
<1>3. \/ DeleteUsers(c) /\ x.op = "delete" /\ x.at = 2
      \/ DeletePerformances(c) /\ x.op = "discard" /\ x.at = 2
      \/ Cascade(c) /\ x.op = "delete" /\ x.at = 3
  BY <1>2 DEF Places, DeleteUsers, DeleteAthletes, DeletePerformances, Cascade, NobodyPurges, Is
\* The end of a statement.
<1>4. ASSUME Proceed(c, [x EXCEPT !.todo = {}]), x.op \in {"delete", "discard"}, x.at >= 2
      PROVE  Writes(c)
  <2> DEFINE n == [x EXCEPT !.todo = {}]
  <2>1. /\ n \in Transactions /\ n.op = x.op /\ n.at = x.at /\ n.pk = x.pk /\ n.on = x.on
        /\ n.email = x.email /\ n.license = x.license /\ n.seen = x.seen
        /\ n.ins = x.ins /\ n.del = x.del /\ n.todo = {}
    BY <1>2 DEF Transactions
  <2>2. Proceed(c, n)
    BY <1>4
  <2> HIDE DEF n
  <2>3. GoesOn(c, n)
    BY <1>2, <1>4, <2>1 DEF GoesOn
  <2> QED
    BY <1>1, <2>1, <2>2, <2>3, GoesOnWrites DEF Proceed
\* A row goes.
<1>5. ASSUME NEW t \in {"user", "athlete", "performance"}, NEW r,
             tx' = [tx EXCEPT ![c].del[t] = @ \cup {r}], seq' = seq,
             x.op \in {"delete", "discard"}, x.at >= 2, x.op = "discard" => t = "performance",
             t = "user" => r.id \in x.todo,
             t = "performance" /\ x.op = "discard" => r.id \in x.todo,
             t = "performance" /\ x.op = "delete" =>
               \E a \in x.del["athlete"] : a.id = r.athlete
      PROVE  Writes(c)
  <2>1. t \in Tables
    BY <1>2
  <2>2. /\ tx'[c].op = x.op /\ tx'[c].at = x.at /\ tx'[c].pk = x.pk /\ tx'[c].ins = x.ins
        /\ tx'[c].del[t] = x.del[t] \cup {r}
        /\ \A u \in Tables \ {t} : tx'[c].del[u] = x.del[u]
        /\ \A d \in Clients \ {c} : tx'[d] = tx[d]
    BY <1>5, <2>1, DeletedRow
  <2>3. tx'[c].seen = x.seen /\ tx'[c].todo = x.todo
    BY <1>5, <2>1, DeletedRowOnward
  <2>4. \A u \in {"user", "athlete", "performance"} : x.del[u] \subseteq tx'[c].del[u]
    BY <1>2, <2>2
  <2>5. x.op = "delete" =>
          /\ x.todo \subseteq {x.seen.user}
          /\ \A u \in x.del["user"] : u.id = x.seen.user
          /\ \A q \in x.del["performance"] : \E a \in x.del["athlete"] : a.id = q.athlete
    BY <1>2, <1>5 DEF RecordProgress
  <2>6. x.op = "discard" =>
          x.todo \subseteq {x.pk} /\ \A q \in x.del["performance"] : q.id = x.pk
    BY <1>2, <1>5 DEF RecordProgress
  <2>7. RecordProgress(tx'[c])
    <3>1. CASE x.op = "delete"
      <4>1. \A u \in tx'[c].del["user"] : u.id = x.seen.user
        BY <1>2, <1>5, <2>2, <2>5, <3>1
      <4>2. \A q \in tx'[c].del["performance"] : \E a \in tx'[c].del["athlete"] : a.id = q.athlete
        BY <1>2, <1>5, <2>2, <2>4, <2>5, <3>1
      <4> QED
        BY <1>2, <1>5, <2>2, <2>3, <2>5, <3>1, <4>1, <4>2 DEF RecordProgress
    <3>2. CASE x.op = "discard"
      <4>1. \A q \in tx'[c].del["performance"] : q.id = x.pk
        BY <1>2, <1>5, <2>2, <2>6, <3>2
      <4> QED
        BY <2>2, <2>3, <2>6, <3>2, <4>1 DEF RecordProgress
    <3> QED
      BY <1>5, <3>1, <3>2
  <2>8. NewKeys(c)
    BY <2>2, <2>4 DEF NewKeys
  <2>9. seq["performance"] \in Nat /\ \A q \in x.ins["performance"] : q.id <= seq["performance"]
    BY ResultTypes DEF PInv, IInv, RInv, ResultIds
  <2> QED
    BY <1>5, <2>2, <2>3, <2>4, <2>7, <2>8, <2>9 DEF Writes
<1>6. CASE DeleteUsers(c) /\ x.op = "delete" /\ x.at = 2
  <2> DEFINE rows == {u \in Visible(c, "user") : u.id \in tx[c].todo}
  <2>1. DeleteFrom(c, "user", rows) /\ \A r \in rows : r.id \in x.todo
    BY <1>6 DEF DeleteUsers, UsersLeft
  <2> HIDE DEF rows
  <2> QED
    BY <1>4, <1>5, <1>6, <2>1 DEF DeleteFrom
<1>7. CASE DeletePerformances(c) /\ x.op = "discard" /\ x.at = 2
  <2> DEFINE rows == {r \in Visible(c, "performance") : r.id \in tx[c].todo}
  <2>1. DeleteFrom(c, "performance", rows) /\ \A r \in rows : r.id \in x.todo
    BY <1>7 DEF DeletePerformances, PerformancesLeft
  <2> HIDE DEF rows
  <2> QED
    BY <1>4, <1>5, <1>7, <2>1 DEF DeleteFrom
<1>8. CASE Cascade(c) /\ x.op = "delete" /\ x.at = 3
  <2>1. CASE Doomed(c, "athlete") # {}
    <3>1. DeleteFrom(c, "athlete", Doomed(c, "athlete"))
      BY <1>8, <2>1 DEF Cascade
    <3> QED
      BY <1>5, <1>8, <2>1, <3>1 DEF DeleteFrom
  <2>2. CASE Doomed(c, "athlete") = {}
    <3>1. DeleteFrom(c, "performance", Doomed(c, "performance"))
      BY <1>8, <2>2 DEF Cascade
    <3>2. \A r \in Doomed(c, "performance") : \E a \in x.del["athlete"] : a.id = r.athlete
      BY DEF Doomed, Gone
    <3> QED
      BY <1>4, <1>5, <1>8, <3>1, <3>2 DEF DeleteFrom
  <2> QED
    BY <2>1, <2>2
<1> QED
  BY <1>3, <1>6, <1>7, <1>8

-----------------------------------------------------------------------------
(* The theorem about the registry                                          *)

LEMMA InitRecords == Init => RInv
<1> SUFFICES ASSUME Init PROVE RInv
  OBVIOUS
<1>1. PICK d \in Databases : db = Filled(d) /\ seq = [t \in Numbered |-> Cardinality(db[t])]
  BY DEF Init
<1>2. /\ \A c \in Clients : tx[c] = NoTx
      /\ NoTx.op = "none"
      /\ \A n \in {"user", "athlete", "performance"} : NoTx.ins[n] = {} /\ NoTx.del[n] = {}
  BY NoTxType DEF Init, NoRows, Tables
<1>3. RecordsInv
  <2>1. RecordProgress(NoTx)
    BY <1>2 DEF RecordProgress
  <2> QED
    BY <1>2, <2>1 DEF RecordsInv
<1>4. SeenInv
  BY <1>2 DEF SeenInv
<1>5. CASE db = NoRows
  <2>1. db["user"] = {} /\ db["athlete"] = {} /\ db["performance"] = {}
    BY <1>5 DEF NoRows, Tables
  <2>2. KeysInv
    BY <1>2, <2>1 DEF KeysInv
  <2>3. ResultIds
    BY <1>2, <2>1 DEF ResultIds
  <2> QED
    BY <1>3, <1>4, <2>2, <2>3 DEF RInv
<1>6. CASE db = InUse
  <2> DEFINE boss == [id |-> 1, email |-> Boss, role |-> "admin", active |-> TRUE]
             jane == [id |-> 2, email |-> Jane, role |-> "user", active |-> TRUE]
             profile == [id |-> 1, user |-> 2, license |-> JaneLicense]
             result == [id |-> 1, athlete |-> 1]
  <2>1. /\ db["user"] = {boss, jane} /\ db["athlete"] = {profile}
        /\ db["performance"] = {result}
    BY <1>6 DEF InUse
  <2>2. boss.email # jane.email /\ result.id = 1
    BY RegistryAssumption
  <2> HIDE DEF boss, jane, profile, result
  <2>3. KeysInv
    BY <1>2, <2>1, <2>2 DEF KeysInv, SameKey
  <2>4. seq["performance"] = 1
    <3>1. Cardinality({result}) = 1
      BY FS_Singleton
    <3> QED
      BY <1>1, <2>1, <3>1 DEF Numbered
  <2>5. ResultIds
    BY <1>2, <2>1, <2>2, <2>4 DEF ResultIds
  <2> QED
    BY <1>3, <1>4, <2>3, <2>5 DEF RInv
<1> QED
  BY <1>1, <1>5, <1>6 DEF Filled

LEMMA InitImplements == Init => Abs!Init
<1> SUFFICES ASSUME Init PROVE Abs!Init
  OBVIOUS
<1>1. PICK d \in Databases : db = Filled(d)
  BY DEF Init
<1> QED
  BY <1>1 DEF Abs!Init

LEMMA QuietStep ==
  ASSUME PInv, PInv', RInv, NEW c \in Clients, Good(c), Settles(c), Writes(c)
  PROVE  RInv' /\ Stays
<1>1. db' = db
  BY DEF Good, Work
<1>2. Stays
  BY <1>1, PeopleStay DEF Stays
<1>3. RInv'
  BY WritesKeep
<1> QED
  BY <1>2, <1>3

LEMMA NextImplements ==
  ASSUME NobodyPurges, PInv, RInv, [Next]_vars
  PROVE  RInv' /\ (Abs!Next \/ Stays)
<1>1. PInv'
  BY NextProfiles
<1>2. CASE UNCHANGED vars
  <2>1. tx' = tx /\ db' = db /\ seq' = seq
    BY <1>2 DEF vars
  <2>2. RInv'
    BY <2>1 DEF RInv, RecordsInv, KeysInv, ResultIds, SeenInv
  <2>3. Stays
    BY <2>1, PeopleStay DEF Stays
  <2> QED
    BY <2>2, <2>3
<1>3. ASSUME NEW c \in Clients, NEW op \in Operations, Start(c, op) PROVE RInv' /\ Stays
  BY <1>1, <1>3, StartSettles, StartWrites, QuietStep
<1>4. ASSUME NEW c \in Clients, Fail(c) \/ Deadlocked(c) PROVE RInv' /\ Stays
  <2>1. \E how \in {"none", "refused", "error"} : Abort(c, how)
    BY <1>4 DEF Fail, Deadlocked
  <2> QED
    BY <1>1, <2>1, AbortSettles, AbortWrites, QuietStep
<1>5. ASSUME NEW c \in Clients, Step(c) PROVE RInv' /\ (Abs!Next \/ Stays)
  <2>1. CASE \/ FreeEmail(c) \/ FreeLicense(c) \/ GetUserRole(c) \/ GetAdminRole(c)
             \/ FindAthlete(c) \/ FindPerformance(c) \/ ScanUsers(c) \/ ScanAthletes(c)
    BY <1>1, <2>1, QueriesSettle, QueriesWrite, QuietStep
  <2>2. CASE AddUserRole(c) \/ AddAdminRole(c)
    BY <1>1, <2>2, AddRoleSettles, AddRoleWrites, QuietStep
  <2>3. CASE AddUser(c) \/ AddAdmin(c)
    BY <1>1, <2>3, AddAccountSettles, AddAccountWrites, QuietStep
  <2>4. CASE AddAthlete(c)
    BY <1>1, <2>4, AddAthleteSettles, AddAthleteWrites, QuietStep
  <2>5. CASE AddPerformance(c) \/ LockPerformance(c)
    BY <1>1, <2>5, ResultsSettle, ResultsWrite, QuietStep
  <2>6. CASE LockAthlete(c)
    BY <1>1, <2>6, LockAthleteSettles, LockAthleteWrites, QuietStep
  <2>7. CASE WriteAthlete(c)
    BY <1>1, <2>7, WriteAthleteSettles, WriteAthleteWrites, QuietStep
  <2>8. CASE WriteUser(c)
    BY <1>1, <2>8, WriteUserSettles, WriteUserWrites, QuietStep
  <2>9. CASE DeleteUsers(c) \/ DeleteAthletes(c) \/ DeletePerformances(c) \/ Cascade(c)
    BY <1>1, <2>9, DeletionsSettle, DeletionsWrite, QuietStep
  <2>10. CASE Commit(c)
    BY <2>10, CommitRInv, CommitImplements
  <2> QED
    BY <1>5, <2>1, <2>2, <2>3, <2>4, <2>5, <2>6, <2>7, <2>8, <2>9, <2>10 DEF Step
<1> QED
  BY <1>2, <1>3, <1>4, <1>5 DEF Next

\* As long as nobody runs the purge or the seeder, the tables implement the
\* registry, for any number of overlapping requests: each transaction is one
\* of its steps when it commits, or none, and nobody sees half of one
\* (athlete_service.py, performance_service.py and `cli create-admin').
THEOREM RequestsImplementRegistry ==
  ASSUME NobodyPurges
  PROVE  Spec => ImplementsRegistry
<1>1. Init => PInv /\ RInv /\ Abs!Init
  BY InitProfiles, InitRecords, InitImplements
<1>2. PInv /\ RInv /\ [Next]_vars => (PInv /\ RInv)' /\ [Abs!Next]_(Abs!vars)
  <2> SUFFICES ASSUME PInv, RInv, [Next]_vars PROVE (PInv /\ RInv)' /\ [Abs!Next]_(Abs!vars)
    OBVIOUS
  <2>1. PInv' /\ RInv' /\ (Abs!Next \/ Stays)
    BY NextProfiles, NextImplements
  <2>2. Stays => UNCHANGED Abs!vars
    BY DEF Stays, Abs!vars
  <2> QED
    BY <2>1, <2>2
<1> QED
  BY <1>1, <1>2, PTL DEF Spec, ImplementsRegistry, Abs!Spec
=============================================================================
