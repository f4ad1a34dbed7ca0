--------------------------- MODULE RegistryProofs ---------------------------
(***************************************************************************)
(* Theorems about Registry, for any number of clients, any operations and  *)
(* any e-mails and licences: results never outlive their athlete.          *)
(***************************************************************************)
EXTENDS Registry, FiniteSetTheorems, SequenceTheorems, TLAPS

-----------------------------------------------------------------------------
(* Programs                                                                *)

\* The seeder's program, written out.
SeedProgram ==
  <<"scanUsers", "deleteUsers", "cascade", "scanAthletes", "deleteAthletes", "cascade", "commit",
    "getAdminRole", "addAdminRole", "getUserRole", "addUserRole",
    "addAdmin", "addUser", "addAthlete", "addPerformance", "commit">>

LEMMA SevenAndNine ==
  ASSUME NEW S, NEW p \in Seq(S), NEW f \in Seq(S), Len(p) = 7, Len(f) = 9
  PROVE  Len(p \o f) = 16 /\ \A i \in 1 .. 16 : (p \o f)[i] = IF i <= 7 THEN p[i] ELSE f[i - 7]
<1>1. /\ Len(p \o f) = Len(p) + Len(f)
      /\ \A i \in 1 .. Len(p) + Len(f) : (p \o f)[i] = IF i <= Len(p) THEN p[i] ELSE f[i - Len(p)]
  BY ConcatProperties, Zenon
<1>2. Len(p) + Len(f) = 16
  OBVIOUS
<1> QED
  BY <1>1, <1>2

LEMMA SeedIsProgram ==
  /\ Len(Program("seed")) = 16
  /\ \A i \in 1 .. 16 : Program("seed")[i] = SeedProgram[i]
<1> DEFINE S == {Purge[i] : i \in 1 .. 7} \cup {Fill[i] : i \in 1 .. 9}
           q == Program("seed")
<1>1. Purge \in Seq(S) /\ Len(Purge) = 7
  BY DEF Purge
<1>2. Fill \in Seq(S) /\ Len(Fill) = 9
  BY DEF Fill
<1>3. q = Purge \o Fill
  BY DEF Program
<1> HIDE DEF S, q
<1>4. Len(q) = 16 /\ \A i \in 1 .. 16 : q[i] = IF i <= 7 THEN Purge[i] ELSE Fill[i - 7]
  BY <1>1, <1>2, <1>3, SevenAndNine, Zenon
<1>5. \A i \in 1 .. 7 : Purge[i] = SeedProgram[i]
  BY DEF Purge, SeedProgram
<1>6. \A i \in 1 .. 9 : Fill[i] = SeedProgram[i + 7]
  BY DEF Fill, SeedProgram
<1>7. ASSUME NEW i \in 1 .. 16 PROVE q[i] = SeedProgram[i]
  <2>1. CASE i <= 7
    BY <1>4, <1>5, <2>1
  <2>2. CASE i > 7
    <3>1. i - 7 \in 1 .. 9 /\ (i - 7) + 7 = i
      BY <2>2
    <3> QED
      BY <1>4, <1>6, <2>2, <3>1
  <2> QED
    BY <2>1, <2>2
<1> QED
  BY <1>4, <1>7 DEF q

LEMMA Lengths ==
  /\ Len(Program("create")) = 7 /\ Len(Program("update")) = 5 /\ Len(Program("setStatus")) = 3
  /\ Len(Program("delete")) = 4 /\ Len(Program("record")) = 3 /\ Len(Program("amend")) = 3
  /\ Len(Program("discard")) = 3 /\ Len(Program("createAdmin")) = 5 /\ Len(Program("purge")) = 7
  /\ Len(Program("seed")) = 16
  BY SeedIsProgram DEF Program, Create, Update, SetStatus, Delete, Record, Amend, Discard,
                       CreateAdmin, Purge

\* Client c is at statement n of operation op.
Is(c, op, n) == tx[c].op = op /\ tx[c].at = n

\* Where each statement is found.
Places(c) ==
  /\ At(c, "freeEmail") => Is(c, "create", 1) \/ Is(c, "createAdmin", 1)
  /\ At(c, "freeLicense") => Is(c, "create", 2) \/ Is(c, "update", 2)
  /\ At(c, "findAthlete") => \E op \in {"update", "setStatus", "delete", "record"} : Is(c, op, 1)
  /\ At(c, "findPerformance") => Is(c, "amend", 1) \/ Is(c, "discard", 1)
  /\ At(c, "getUserRole") => Is(c, "create", 3) \/ Is(c, "seed", 10)
  /\ At(c, "getAdminRole") => Is(c, "createAdmin", 2) \/ Is(c, "seed", 8)
  /\ At(c, "scanUsers") => Is(c, "purge", 1) \/ Is(c, "seed", 1)
  /\ At(c, "scanAthletes") => Is(c, "purge", 4) \/ Is(c, "seed", 4)
  /\ At(c, "addUserRole") => Is(c, "create", 4) \/ Is(c, "seed", 11)
  /\ At(c, "addAdminRole") => Is(c, "createAdmin", 3) \/ Is(c, "seed", 9)
  /\ At(c, "addUser") => Is(c, "create", 5) \/ Is(c, "seed", 13)
  /\ At(c, "addAdmin") => Is(c, "createAdmin", 4) \/ Is(c, "seed", 12)
  /\ At(c, "addAthlete") => Is(c, "create", 6) \/ Is(c, "seed", 14)
  /\ At(c, "addPerformance") => Is(c, "record", 2) \/ Is(c, "seed", 15)
  /\ At(c, "lockAthlete") => Is(c, "update", 3)
  /\ At(c, "writeAthlete") => Is(c, "update", 4)
  /\ At(c, "writeUser") => Is(c, "setStatus", 2)
  /\ At(c, "lockPerformance") => Is(c, "amend", 2)
  /\ At(c, "deleteUsers") => \E op \in {"delete", "purge", "seed"} : Is(c, op, 2)
  /\ At(c, "deleteAthletes") => Is(c, "purge", 5) \/ Is(c, "seed", 5)
  /\ At(c, "deletePerformances") => Is(c, "discard", 2)
  /\ At(c, "cascade") => \/ Is(c, "delete", 3)
                         \/ \E op \in {"purge", "seed"} : Is(c, op, 3) \/ Is(c, op, 6)
  /\ At(c, "commit") => \/ Is(c, "create", 7) \/ Is(c, "update", 5) \/ Is(c, "delete", 4)
                        \/ \E op \in {"setStatus", "record", "amend", "discard"} : Is(c, op, 3)
                        \/ Is(c, "createAdmin", 5) \/ Is(c, "purge", 7)
                        \/ Is(c, "seed", 7) \/ Is(c, "seed", 16)

LEMMA StatementPlaces ==
  ASSUME NEW c \in Clients, Busy(c), tx[c].op \in AllOperations,
         tx[c].at \in 1 .. Len(Program(tx[c].op))
  PROVE  Places(c)
<1> DEFINE op == tx[c].op
           n == tx[c].at
<1> USE Lengths
<1>1. CASE op = "create"
  <2>1. n \in 1 .. 7 /\ Program(op) = Create
    BY <1>1 DEF Program
  <2> QED
    BY <1>1, <2>1 DEF Places, At, Is, Create
<1>2. CASE op = "update"
  <2>1. n \in 1 .. 5 /\ Program(op) = Update
    BY <1>2 DEF Program
  <2> QED
    BY <1>2, <2>1 DEF Places, At, Is, Update
<1>3. CASE op = "setStatus"
  <2>1. n \in 1 .. 3 /\ Program(op) = SetStatus
    BY <1>3 DEF Program
  <2> QED
    BY <1>3, <2>1 DEF Places, At, Is, SetStatus
<1>4. CASE op = "delete"
  <2>1. n \in 1 .. 4 /\ Program(op) = Delete
    BY <1>4 DEF Program
  <2> QED
    BY <1>4, <2>1 DEF Places, At, Is, Delete
<1>5. CASE op = "record"
  <2>1. n \in 1 .. 3 /\ Program(op) = Record
    BY <1>5 DEF Program
  <2> QED
    BY <1>5, <2>1 DEF Places, At, Is, Record
<1>6. CASE op = "amend"
  <2>1. n \in 1 .. 3 /\ Program(op) = Amend
    BY <1>6 DEF Program
  <2> QED
    BY <1>6, <2>1 DEF Places, At, Is, Amend
<1>7. CASE op = "discard"
  <2>1. n \in 1 .. 3 /\ Program(op) = Discard
    BY <1>7 DEF Program
  <2> QED
    BY <1>7, <2>1 DEF Places, At, Is, Discard
<1>8. CASE op = "createAdmin"
  <2>1. n \in 1 .. 5 /\ Program(op) = CreateAdmin
    BY <1>8 DEF Program
  <2> QED
    BY <1>8, <2>1 DEF Places, At, Is, CreateAdmin
<1>9. CASE op = "purge"
  <2>1. n \in 1 .. 7 /\ Program(op) = Purge
    BY <1>9 DEF Program
  <2> QED
    BY <1>9, <2>1 DEF Places, At, Is, Purge
<1>10. CASE op = "seed"
  <2>1. n \in 1 .. 16
    BY <1>10
  <2>2. Program(op)[n] = SeedProgram[n]
    <3> HIDE DEF n, op
    <3>1. Program(op) = Program("seed")
      BY <1>10
    <3>2. Program("seed")[n] = SeedProgram[n]
      BY <2>1, SeedIsProgram
    <3> QED
      BY <3>1, <3>2
  <2>3. \/ n = 1 /\ Program(op)[n] = "scanUsers"
        \/ n = 2 /\ Program(op)[n] = "deleteUsers"
        \/ n = 3 /\ Program(op)[n] = "cascade"
        \/ n = 4 /\ Program(op)[n] = "scanAthletes"
        \/ n = 5 /\ Program(op)[n] = "deleteAthletes"
        \/ n = 6 /\ Program(op)[n] = "cascade"
        \/ n = 7 /\ Program(op)[n] = "commit"
        \/ n = 8 /\ Program(op)[n] = "getAdminRole"
        \/ n = 9 /\ Program(op)[n] = "addAdminRole"
        \/ n = 10 /\ Program(op)[n] = "getUserRole"
        \/ n = 11 /\ Program(op)[n] = "addUserRole"
        \/ n = 12 /\ Program(op)[n] = "addAdmin"
        \/ n = 13 /\ Program(op)[n] = "addUser"
        \/ n = 14 /\ Program(op)[n] = "addAthlete"
        \/ n = 15 /\ Program(op)[n] = "addPerformance"
        \/ n = 16 /\ Program(op)[n] = "commit"
    BY <2>1, <2>2 DEF SeedProgram
  <2> QED
    BY <1>10, <2>3 DEF Places, At, Is
<1> QED
  BY <1>1, <1>2, <1>3, <1>4, <1>5, <1>6, <1>7, <1>8, <1>9, <1>10 DEF AllOperations

-----------------------------------------------------------------------------
(* The inductive invariant                                                 *)

Mails == Emails \cup DemoEmails \cup {AdminEmail, Boss, Jane}
Plates == Licenses \cup {DemoLicense, JaneLicense}

AllRows == UNION {Rows(t) : t \in Tables}
RowSets == {f \in [Tables -> SUBSET AllRows] : \A t \in Tables : f[t] \subseteq Rows(t)}

Transactions ==
  [op : AllOperations \cup {"none"}, at : Nat, email : Mails \cup {None},
   license : Plates \cup {None}, on : BOOLEAN, pk : Nat, seen : Rows("athlete") \cup {None},
   todo : SUBSET Nat, ins : RowSets, del : RowSets, share : SUBSET Nat, alone : BOOLEAN]

TypeInv ==
  /\ db \in RowSets
  /\ seq \in [Numbered -> Nat]
  /\ tx \in [Clients -> Transactions]
  /\ answer \in {"none", "ok", "refused", "error"}

\* The request is still before, or in, the transaction that deletes.
Deleting(t) == t.op \in {"delete", "discard", "purge"} \/ (t.op = "seed" /\ t.at <= 7)

\* What a transaction can already have read and written, by the statement it
\* is at.
Progress(t) ==
  /\ t.op # "none" => t.op \in Operations /\ t.at \in 1 .. Len(Program(t.op))
  /\ t.op \in {"create", "createAdmin", "seed"} => t.email \in Mails
  /\ t.op \in {"create", "seed"} => t.license \in Plates
  /\ t.op \in {"update", "setStatus"} /\ t.at >= 2 => t.seen \in Rows("athlete")
  /\ t.op \notin {"record", "seed"} \/ Deleting(t) => t.share = {}
  /\ t.op \notin {"record", "seed", "amend"} \/ Deleting(t) => t.ins["performance"] = {}
  /\ t.op \notin {"create", "seed", "update"} \/ Deleting(t) => t.ins["athlete"] = {}
  /\ ~Deleting(t) /\ t.op # "update" => t.del["athlete"] = {}
  /\ t.op = "discard" => t.del["athlete"] = {}
  /\ t.op = "create" /\ t.at <= 6 => t.ins["athlete"] = {}
  /\ t.op = "seed" /\ t.at <= 14 => t.ins["athlete"] = {}
  /\ t.op = "amend" /\ t.at <= 2 => t.ins["performance"] = {}
  /\ t.op = "update" /\ t.at <= 3 => t.ins["athlete"] = {} /\ t.del["athlete"] = {}
  /\ t.op = "update" /\ t.at = 4 =>
       t.license \in Plates /\ t.ins["athlete"] = {} /\ t.del["athlete"] = {t.seen}
  /\ t.op = "update" /\ t.at = 5 =>
       \A a \in t.del["athlete"] : \E b \in t.ins["athlete"] : b.id = a.id
  /\ \A a, b \in t.ins["athlete"] : a = b
  /\ \A r \in t.ins["performance"] : r.athlete \in t.share \/ r \in t.del["performance"]

ProgressInv == \A c \in Clients : Progress(tx[c])

\* Two athletes never have the same id: c's new rows replace rows that it
\* holds, or have ids that nobody else has.
IdsInv ==
  /\ \A a, b \in db["athlete"] : a.id = b.id => a = b
  /\ \A a \in db["athlete"] : a.id <= seq["athlete"]
  /\ \A c \in Clients : \A a \in tx[c].ins["athlete"] :
       /\ a.id <= seq["athlete"]
       /\ \/ \E b \in tx[c].del["athlete"] : b.id = a.id
          \/ /\ \A b \in db["athlete"] : b.id # a.id
             /\ \A d \in Clients \ {c} : \A b \in tx[d].ins["athlete"] : b.id # a.id

\* A row that a transaction has superseded is committed, and is its alone.
LocksInv ==
  \A t \in {"athlete", "performance"} : \A c \in Clients :
    /\ tx[c].del[t] \subseteq db[t]
    /\ \A d \in Clients \ {c} : tx[c].del[t] \cap tx[d].del[t] = {}

\* An athlete that a result is being added to is there, and nobody removes it.
ShareInv ==
  \A c \in Clients : \A i \in tx[c].share :
    /\ \E a \in db["athlete"] \cup tx[c].ins["athlete"] : a.id = i
    /\ \A d \in Clients \ {c} : \A a \in tx[d].del["athlete"] :
         a.id = i => \E b \in tx[d].ins["athlete"] : b.id = i

\* The transaction t is behind its last cascade.
Behind(t) == (t.op = "delete" /\ t.at = 4) \/ (t.op \in {"purge", "seed"} /\ t.at = 7)

\* There, it has left no result of the athletes it deletes.
CascadeInv ==
  \A c \in Clients :
    Behind(tx[c]) => Doomed(c, "performance") = {}

IInv ==
  /\ TypeInv /\ ProgressInv /\ IdsInv /\ LocksInv /\ ShareInv /\ CascadeInv /\ NoOrphanResults

-----------------------------------------------------------------------------
(* What a step may do                                                      *)

\* No other client's transaction changes, but that it is no longer alone.
Only(c) ==
  \A d \in Clients \ {c} :
    /\ tx'[d] \in Transactions
    /\ tx'[d].op = tx[d].op /\ tx'[d].at = tx[d].at
    /\ tx'[d].email = tx[d].email /\ tx'[d].license = tx[d].license
    /\ tx'[d].seen = tx[d].seen
    /\ tx'[d].ins = tx[d].ins /\ tx'[d].del = tx[d].del /\ tx'[d].share = tx[d].share

\* All steps but commits: c supersedes rows that nobody else holds, none under
\* a result that is being added; its new rows replace rows it holds, or are new.
Work(c) ==
  /\ db' = db
  /\ seq["athlete"] <= seq'["athlete"]
  /\ \A t \in {"athlete", "performance"} : \A r \in tx'[c].del[t] :
       r \in tx[c].del[t] \/ (r \in db[t] /\ ~RowLocked(c, t, r))
  /\ \A a \in tx'[c].ins["athlete"] :
       /\ a.id <= seq'["athlete"]
       /\ \/ \E b \in tx'[c].del["athlete"] : b.id = a.id
          \/ a \in tx[c].ins["athlete"] /\ tx[c].del["athlete"] \subseteq tx'[c].del["athlete"]
          \/ seq["athlete"] < a.id
  /\ \A i \in tx'[c].share :
       /\ tx[c].ins["athlete"] \subseteq tx'[c].ins["athlete"]
       /\ \/ i \in tx[c].share
          \/ \E a \in Visible(c, "athlete") : a.id = i /\ ~KeyLocked(c, a)
  /\ \A a \in tx'[c].del["athlete"] :
       \/ /\ a \in tx[c].del["athlete"]
          /\ \A b \in tx[c].ins["athlete"] : \E e \in tx'[c].ins["athlete"] : e.id = b.id
       \/ \E b \in tx'[c].ins["athlete"] : b.id = a.id
       \/ ~Referenced(c, a)
  /\ Behind(tx'[c]) => Doomed(c, "performance")' = {}

Good(c) == Only(c) /\ Work(c) /\ TypeInv' /\ Progress(tx'[c])

LEMMA RowsOf ==
  ASSUME NEW f \in RowSets, NEW t \in Tables
  PROVE  f[t] \subseteq Rows(t)
  BY DEF RowSets

LEMMA RowsChanged ==
  ASSUME NEW f \in RowSets, NEW t \in Tables, NEW S \in SUBSET Rows(t),
         NEW g, g = [f EXCEPT ![t] = S]
  PROVE  g \in RowSets
<1>1. Rows(t) \subseteq AllRows
  BY DEF AllRows
<1> QED
  BY <1>1 DEF RowSets

LEMMA NoRowsType == NoRows \in RowSets
  BY DEF NoRows, RowSets

LEMMA NoTxType ==
  /\ NoTx \in Transactions
  /\ NoTx.op = "none" /\ NoTx.at = 1 /\ NoTx.ins = NoRows /\ NoTx.del = NoRows
  /\ NoTx.share = {}
  BY NoRowsType DEF NoTx, Transactions

LEMMA AthleteRows ==
  ASSUME NEW a \in Rows("athlete")
  PROVE  a.id \in Nat /\ a.user \in Nat /\ a.license \in Plates
  BY DEF Rows, Plates

LEMMA AthleteIds ==
  ASSUME TypeInv
  PROVE  /\ \A a \in db["athlete"] : a.id \in Nat
         /\ \A c \in Clients : \A a \in tx[c].ins["athlete"] \cup tx[c].del["athlete"] : a.id \in Nat
<1>1. "athlete" \in Tables
  BY DEF Tables
<1>2. /\ db["athlete"] \subseteq Rows("athlete")
      /\ \A c \in Clients : tx[c].ins["athlete"] \cup tx[c].del["athlete"] \subseteq Rows("athlete")
  BY <1>1, RowsOf DEF TypeInv, Transactions
<1> QED
  BY <1>2, AthleteRows

LEMMA Advancing ==
  ASSUME TypeInv, NEW c \in Clients, NEW t \in Transactions, Advance(c, t),
         db' \in RowSets, seq' \in [Numbered -> Nat]
  PROVE  TypeInv' /\ Only(c) /\ tx'[c] = [t EXCEPT !.at = t.at + 1]
<1>1. [t EXCEPT !.at = t.at + 1] \in Transactions
  BY DEF Transactions
<1>2. tx'[c] = [t EXCEPT !.at = t.at + 1] /\ \A d \in Clients \ {c} : tx'[d] = tx[d]
  BY DEF Advance, TypeInv
<1>3. tx' \in [Clients -> Transactions]
  BY <1>1 DEF Advance, TypeInv
<1> QED
  BY <1>2, <1>3 DEF Advance, TypeInv, Only

LEMMA Aborting ==
  ASSUME TypeInv, NEW c \in Clients, NEW how \in {"none", "refused", "error"}, Abort(c, how)
  PROVE  Good(c)
<1>1. tx'[c] = NoTx /\ \A d \in Clients \ {c} : tx'[d] = tx[d]
  BY DEF Abort, TypeInv
<1>2. tx' \in [Clients -> Transactions]
  BY NoTxType DEF Abort, TypeInv
<1>3. TypeInv' /\ Only(c)
  BY <1>1, <1>2 DEF Abort, TypeInv, Only
<1>4. Progress(tx'[c])
  BY <1>1, NoTxType DEF Progress, Deleting, NoRows, Tables
<1>5. Work(c)
  BY <1>1, NoTxType DEF Work, NoRows, Tables, Abort, TypeInv, Numbered, Behind
<1> QED
  BY <1>3, <1>4, <1>5 DEF Good

-----------------------------------------------------------------------------
(* Such a step keeps the invariant                                         *)

LEMMA WorkIds ==
  ASSUME IInv, NEW c \in Clients, Good(c)
  PROVE  IdsInv'
<1> USE DEF Good, Only, Work
<1>1. "athlete" \in Numbered /\ seq["athlete"] \in Nat /\ seq'["athlete"] \in Nat
  BY DEF TypeInv, IInv, Numbered
<1>2. /\ \A a \in db["athlete"] : a.id \in Nat
      /\ \A d \in Clients : \A a \in tx[d].ins["athlete"] : a.id \in Nat
      /\ \A d \in Clients : \A a \in tx'[d].ins["athlete"] : a.id \in Nat
  <2>1. TypeInv /\ TypeInv'
    BY DEF IInv
  <2>2. \A d \in Clients : tx'[d].ins \in RowSets
    BY <2>1 DEF TypeInv, Transactions
  <2>3. "athlete" \in Tables
    BY DEF Tables
  <2>4. \A d \in Clients : tx'[d].ins["athlete"] \subseteq Rows("athlete")
    BY <2>2, <2>3, RowsOf
  <2> QED
    BY <2>1, <2>4, AthleteIds, AthleteRows
<1>3. \A a \in db'["athlete"] : a.id <= seq'["athlete"]
  BY <1>1, <1>2 DEF IInv, IdsInv
<1>4. \A a, b \in db'["athlete"] : a.id = b.id => a = b
  BY DEF IInv, IdsInv
\* The rows that c replaces are committed.
<1>5. \A b \in tx'[c].del["athlete"] : b \in db["athlete"]
  BY DEF IInv, LocksInv
<1>6. ASSUME NEW a \in tx'[c].ins["athlete"]
      PROVE  /\ a.id <= seq'["athlete"]
             /\ \/ \E b \in tx'[c].del["athlete"] : b.id = a.id
                \/ /\ \A b \in db'["athlete"] : b.id # a.id
                   /\ \A d \in Clients \ {c} : \A b \in tx'[d].ins["athlete"] : b.id # a.id
  <2>1. CASE \E b \in tx'[c].del["athlete"] : b.id = a.id
    BY <2>1
  <2>2. CASE a \in tx[c].ins["athlete"] /\ tx[c].del["athlete"] \subseteq tx'[c].del["athlete"]
    BY <2>2 DEF IInv, IdsInv
  <2>3. CASE seq["athlete"] < a.id
    <3>1. \A b \in db["athlete"] : b.id # a.id
      BY <1>1, <1>2, <2>3 DEF IInv, IdsInv
    <3>2. \A d \in Clients \ {c} : \A b \in tx[d].ins["athlete"] : b.id # a.id
      BY <1>1, <1>2, <2>3 DEF IInv, IdsInv
    <3> QED
      BY <3>1, <3>2
  <2> QED
    BY <2>1, <2>2, <2>3
<1>7. ASSUME NEW d \in Clients \ {c}, NEW a \in tx'[d].ins["athlete"]
      PROVE  /\ a.id <= seq'["athlete"]
             /\ \/ \E b \in tx'[d].del["athlete"] : b.id = a.id
                \/ /\ \A b \in db'["athlete"] : b.id # a.id
                   /\ \A e \in Clients \ {d} : \A b \in tx'[e].ins["athlete"] : b.id # a.id
  <2>1. a \in tx[d].ins["athlete"] /\ tx'[d].del = tx[d].del
    OBVIOUS
  <2>2. a.id <= seq["athlete"] /\ a.id \in Nat
    BY <1>2, <2>1 DEF IInv, IdsInv
  <2>3. a.id <= seq'["athlete"]
    BY <1>1, <2>2
  <2>4. CASE \E b \in tx[d].del["athlete"] : b.id = a.id
    BY <2>1, <2>3, <2>4
  <2>5. CASE /\ \A b \in db["athlete"] : b.id # a.id
             /\ \A e \in Clients \ {d} : \A b \in tx[e].ins["athlete"] : b.id # a.id
    <3>1. ASSUME NEW b \in tx'[c].ins["athlete"] PROVE b.id # a.id
      <4>1. CASE \E g \in tx'[c].del["athlete"] : g.id = b.id
        BY <1>5, <2>5, <4>1
      <4>2. CASE b \in tx[c].ins["athlete"]
        BY <2>5, <4>2
      <4>3. CASE seq["athlete"] < b.id
        BY <1>1, <1>2, <2>2, <4>3
      <4> QED
        BY <4>1, <4>2, <4>3
    <3>2. ASSUME NEW e \in Clients \ {d}, NEW b \in tx'[e].ins["athlete"] PROVE b.id # a.id
      <4>1. CASE e = c
        BY <3>1, <4>1
      <4>2. CASE e # c
        BY <2>5, <4>2
      <4> QED
        BY <4>1, <4>2
    <3> QED
      BY <2>3, <2>5, <3>2
  <2> QED
    BY <2>1, <2>4, <2>5 DEF IInv, IdsInv
<1>8. \A d \in Clients : \A a \in tx'[d].ins["athlete"] :
        /\ a.id <= seq'["athlete"]
        /\ \/ \E b \in tx'[d].del["athlete"] : b.id = a.id
           \/ /\ \A b \in db'["athlete"] : b.id # a.id
              /\ \A e \in Clients \ {d} : \A b \in tx'[e].ins["athlete"] : b.id # a.id
  BY <1>6, <1>7
<1> QED
  BY <1>3, <1>4, <1>8 DEF IdsInv

LEMMA WorkLocks ==
  ASSUME IInv, NEW c \in Clients, Good(c)
  PROVE  LocksInv'
<1> USE DEF Good, Only, Work
<1>1. ASSUME NEW t \in {"athlete", "performance"}, NEW d \in Clients
      PROVE  tx'[d].del[t] \subseteq db'[t]
  <2>1. CASE d = c
    BY <2>1 DEF IInv, LocksInv
  <2>2. CASE d # c
    BY <2>2 DEF IInv, LocksInv
  <2> QED
    BY <2>1, <2>2
<1>2. ASSUME NEW t \in {"athlete", "performance"}, NEW d \in Clients \ {c}
      PROVE  tx'[c].del[t] \cap tx'[d].del[t] = {}
  <2>1. tx'[d].del[t] = tx[d].del[t]
    OBVIOUS
  <2>2. ASSUME NEW r \in tx'[c].del[t] PROVE r \notin tx[d].del[t]
    <3>1. CASE r \in tx[c].del[t]
      BY <3>1 DEF IInv, LocksInv
    <3>2. CASE ~RowLocked(c, t, r)
      BY <3>2 DEF RowLocked
    <3> QED
      BY <3>1, <3>2
  <2> QED
    BY <2>1, <2>2
<1>3. ASSUME NEW t \in {"athlete", "performance"}, NEW d \in Clients, NEW e \in Clients \ {d}
      PROVE  tx'[d].del[t] \cap tx'[e].del[t] = {}
  <2>1. CASE d = c
    BY <1>2, <2>1
  <2>2. CASE e = c
    BY <1>2, <2>2
  <2>3. CASE d # c /\ e # c
    BY <2>3 DEF IInv, LocksInv
  <2> QED
    BY <2>1, <2>2, <2>3
<1> QED
  BY <1>1, <1>3 DEF LocksInv

LEMMA WorkShares ==
  ASSUME IInv, NEW c \in Clients, Good(c)
  PROVE  ShareInv'
<1> USE DEF Good, Only, Work
<1>1. ASSUME NEW i \in tx'[c].share
      PROVE  /\ \E a \in db'["athlete"] \cup tx'[c].ins["athlete"] : a.id = i
             /\ \A d \in Clients \ {c} : \A a \in tx'[d].del["athlete"] :
                  a.id = i => \E b \in tx'[d].ins["athlete"] : b.id = i
  <2>1. CASE i \in tx[c].share
    BY <2>1 DEF IInv, ShareInv
  <2>2. CASE \E a \in Visible(c, "athlete") : a.id = i /\ ~KeyLocked(c, a)
    <3>1. PICK a \in Visible(c, "athlete") : a.id = i /\ ~KeyLocked(c, a)
      BY <2>2
    <3>2. a \in db["athlete"] \cup tx[c].ins["athlete"]
      BY DEF Visible
    <3>3. ASSUME NEW d \in Clients \ {c}, NEW b \in tx[d].del["athlete"], b.id = i
          PROVE  \E e \in tx[d].ins["athlete"] : e.id = i
      <4>1. b \in db["athlete"]
        BY DEF IInv, LocksInv
      <4>2. CASE a \in db["athlete"]
        <5>1. a = b
          BY <3>1, <3>3, <4>1, <4>2 DEF IInv, IdsInv
        <5> QED
          BY <3>1, <3>3, <5>1 DEF KeyLocked, ChangesKey
      <4>3. CASE a \in tx[c].ins["athlete"]
        <5>1. PICK g \in tx[c].del["athlete"] : g.id = a.id
          BY <3>1, <3>3, <4>1, <4>3 DEF IInv, IdsInv
        <5>2. g \in db["athlete"]
          BY DEF IInv, LocksInv
        <5>3. g = b
          BY <3>1, <3>3, <4>1, <5>1, <5>2 DEF IInv, IdsInv
        <5> QED
          BY <5>3 DEF IInv, LocksInv
      <4> QED
        BY <3>2, <4>2, <4>3
    <3>4. \E e \in db'["athlete"] \cup tx'[c].ins["athlete"] : e.id = i
      BY <3>1, <3>2
    <3> QED
      BY <3>3, <3>4
  <2> QED
    BY <2>1, <2>2
<1>2. ASSUME NEW d \in Clients \ {c}, NEW i \in tx'[d].share
      PROVE  /\ \E a \in db'["athlete"] \cup tx'[d].ins["athlete"] : a.id = i
             /\ \A e \in Clients \ {d} : \A a \in tx'[e].del["athlete"] :
                  a.id = i => \E b \in tx'[e].ins["athlete"] : b.id = i
  <2>1. i \in tx[d].share
    OBVIOUS
  <2>2. \E a \in db'["athlete"] \cup tx'[d].ins["athlete"] : a.id = i
    BY <2>1 DEF IInv, ShareInv
  <2>3. ASSUME NEW a \in tx'[c].del["athlete"], a.id = i
        PROVE  \E b \in tx'[c].ins["athlete"] : b.id = i
    <3>1. CASE /\ a \in tx[c].del["athlete"]
               /\ \A b \in tx[c].ins["athlete"] :
                    \E e \in tx'[c].ins["athlete"] : e.id = b.id
      <4>1. PICK b \in tx[c].ins["athlete"] : b.id = i
        BY <2>1, <2>3, <3>1 DEF IInv, ShareInv
      <4> QED
        BY <3>1, <4>1
    <3>2. CASE \E b \in tx'[c].ins["athlete"] : b.id = a.id
      BY <2>3, <3>2
    <3>3. CASE ~Referenced(c, a)
      BY <2>1, <2>3, <3>3 DEF Referenced
    <3> QED
      BY <3>1, <3>2, <3>3
  <2>4. ASSUME NEW e \in Clients \ {d}, NEW a \in tx'[e].del["athlete"], a.id = i
        PROVE  \E b \in tx'[e].ins["athlete"] : b.id = i
    <3>1. CASE e = c
      BY <2>3, <2>4, <3>1
    <3>2. CASE e # c
      BY <2>1, <2>4, <3>2 DEF IInv, ShareInv
    <3> QED
      BY <3>1, <3>2
  <2> QED
    BY <2>2, <2>4
<1> QED
  BY <1>1, <1>2 DEF ShareInv

LEMMA WorkKeeps ==
  ASSUME IInv, NEW c \in Clients, Good(c)
  PROVE  IInv'
<1> USE DEF Good, Only, Work
<1>1. ProgressInv'
  <2>1. ASSUME NEW d \in Clients \ {c} PROVE Progress(tx'[d])
    <3>1. Progress(tx[d])
      BY DEF IInv, ProgressInv
    <3> QED
      BY <3>1 DEF Progress, Deleting
  <2> QED
    BY <2>1 DEF ProgressInv
<1>2. CascadeInv'
  <2>1. ASSUME NEW d \in Clients \ {c}, Behind(tx'[d])
        PROVE  Doomed(d, "performance")' = {}
    <3>1. Doomed(d, "performance")' = Doomed(d, "performance") /\ Behind(tx[d])
      BY <2>1 DEF Doomed, Visible, Gone, Behind
    <3> QED
      BY <3>1 DEF IInv, CascadeInv
  <2> QED
    BY <2>1 DEF CascadeInv
<1>3. NoOrphanResults'
  BY DEF IInv, NoOrphanResults
<1> QED
  BY <1>1, <1>2, <1>3, WorkIds, WorkLocks, WorkShares DEF IInv

-----------------------------------------------------------------------------
(* So does a commit                                                        *)

LEMMA OpenPlaces ==
  ASSUME TypeInv, ProgressInv, NEW c \in Clients, Busy(c)
  PROVE  /\ Places(c)
         /\ tx[c].op \in Operations /\ tx[c].op \in AllOperations
         /\ tx[c].at \in 1 .. Len(Program(tx[c].op))
<1>1. Progress(tx[c]) /\ tx[c].op # "none"
  BY DEF ProgressInv, Busy
<1>2. tx[c].op \in Operations /\ tx[c].op \in AllOperations
  BY <1>1, RegistryAssumption DEF Progress
<1>3. tx[c].at \in 1 .. Len(Program(tx[c].op))
  BY <1>1 DEF Progress
<1> QED
  BY <1>2, <1>3, StatementPlaces

\* What a commit makes of c's transaction, and of the tables.
Committed(c) ==
  /\ TypeInv' /\ Only(c) /\ Progress(tx'[c]) /\ ~Behind(tx'[c])
  /\ \A t \in {"athlete", "performance"} :
       /\ db'[t] = (db[t] \ tx[c].del[t]) \cup tx[c].ins[t]
       /\ tx'[c].ins[t] = {} /\ tx'[c].del[t] = {}
  /\ tx'[c].share = {}
  /\ seq'["athlete"] = seq["athlete"]

\* The transaction that the seeder opens behind its first commit.
LEMMA Reopened ==
  ASSUME NEW x \in Transactions
  PROVE  LET t == [x EXCEPT !.ins = NoRows, !.del = NoRows, !.share = {}]
         IN  /\ t \in Transactions /\ t.op = x.op /\ t.at = x.at
             /\ t.email = x.email /\ t.license = x.license
             /\ t.ins = NoRows /\ t.del = NoRows /\ t.share = {}
  BY NoRowsType DEF Transactions

LEMMA CommitShape ==
  ASSUME IInv, NEW c \in Clients, Commit(c)
  PROVE  Committed(c)
<1> DEFINE s == [tx[c] EXCEPT !.ins = NoRows, !.del = NoRows, !.share = {}]
           t == [s EXCEPT !.at = s.at + 1]
<1>1. TypeInv /\ ProgressInv /\ Busy(c) /\ At(c, "commit") /\ tx[c] \in Transactions
  BY DEF IInv, Commit, At, TypeInv
<1>2. /\ \A u \in Tables : db'[u] = (db[u] \ tx[c].del[u]) \cup tx[c].ins[u]
      /\ db' \in RowSets
  <2>1. db' = [u \in Tables |-> (db[u] \ tx[c].del[u]) \cup tx[c].ins[u]]
    BY DEF Commit
  <2>2. db \in RowSets /\ tx[c].ins \in RowSets
    BY <1>1 DEF TypeInv, Transactions
  <2>3. \A u \in Tables : (db[u] \ tx[c].del[u]) \cup tx[c].ins[u] \subseteq Rows(u)
    BY <2>2 DEF RowSets
  <2>4. \A u \in Tables : Rows(u) \subseteq AllRows
    BY DEF AllRows
  <2> QED
    BY <2>1, <2>3, <2>4 DEF RowSets
<1>3. /\ s \in Transactions /\ s.op = tx[c].op /\ s.at = tx[c].at
      /\ s.email = tx[c].email /\ s.license = tx[c].license
      /\ s.ins = NoRows /\ s.del = NoRows /\ s.share = {}
  BY <1>1, Reopened
<1>4. /\ tx' = [tx EXCEPT ![c] = NoTx] \/ (tx' = [tx EXCEPT ![c] = t]
                                          /\ tx[c].at # Len(Program(tx[c].op)))
      /\ seq' = seq /\ answer' \in {"ok", "none"}
  BY DEF Commit, Advance
<1> HIDE DEF s
<1>5. \A u \in {"athlete", "performance"} : u \in Tables /\ NoRows[u] = {}
  BY DEF Tables, NoRows
<1>6. CASE tx' = [tx EXCEPT ![c] = NoTx]
  <2>1. tx'[c] = NoTx /\ \A d \in Clients \ {c} : tx'[d] = tx[d]
    BY <1>1, <1>6 DEF TypeInv
  <2>2. Progress(tx'[c]) /\ ~Behind(tx'[c])
    BY <1>5, <2>1, NoTxType DEF Progress, Deleting, Behind
  <2>3. tx' \in [Clients -> Transactions]
    BY <1>1, <1>6, NoTxType DEF TypeInv
  <2>4. TypeInv' /\ Only(c)
    BY <1>1, <1>2, <1>4, <2>1, <2>3 DEF TypeInv, Only
  <2> QED
    BY <1>2, <1>4, <1>5, <2>1, <2>2, <2>4, NoTxType DEF Committed
<1>7. CASE tx' = [tx EXCEPT ![c] = t] /\ tx[c].at # Len(Program(tx[c].op))
  <2>1. Is(c, "seed", 7)
    <3>1. Places(c)
      BY <1>1, OpenPlaces
    <3> QED
      BY <1>1, <1>7, <3>1, Lengths DEF Places, Is
  <2>2. /\ t \in Transactions /\ t.op = "seed" /\ t.at = 8
        /\ t.email = tx[c].email /\ t.license = tx[c].license
        /\ t.ins = NoRows /\ t.del = NoRows /\ t.share = {}
    BY <1>3, <2>1 DEF Transactions, Is
  <2> HIDE DEF t
  <2>3. tx'[c] = t /\ \A d \in Clients \ {c} : tx'[d] = tx[d]
    BY <1>1, <1>7 DEF TypeInv
  <2>4. ~Behind(t) /\ ~Deleting(t)
    BY <2>2 DEF Behind, Deleting
  <2>5. Progress(tx[c]) /\ tx[c].op = "seed"
    BY <1>1, <2>1 DEF ProgressInv, Is
  <2>6. Progress(tx'[c])
    <3>1. t.op \in Operations /\ tx[c].email \in Mails /\ tx[c].license \in Plates
      BY <2>2, <2>5 DEF Progress
    <3>2. t.at \in 1 .. Len(Program(t.op))
      <4> DEFINE p == Program(t.op)
      <4>1. p = Program("seed")
        BY <2>2
      <4> HIDE DEF p
      <4>2. Len(p) = 16
        BY <4>1, Lengths
      <4>3. t.at \in 1 .. Len(p)
        BY <2>2, <4>2
      <4> QED
        BY <4>3 DEF p
    <3> QED
      BY <1>5, <2>2, <2>3, <2>4, <3>1, <3>2 DEF Progress
  <2>7. tx' \in [Clients -> Transactions]
    BY <1>1, <1>7, <2>2 DEF TypeInv
  <2>8. TypeInv' /\ Only(c)
    BY <1>1, <1>2, <1>4, <2>3, <2>7 DEF TypeInv, Only
  <2> QED
    BY <1>2, <1>4, <1>5, <2>2, <2>3, <2>4, <2>6, <2>8 DEF Committed
<1> QED
  BY <1>4, <1>6, <1>7

LEMMA CommitIds ==
  ASSUME IInv, NEW c \in Clients, Committed(c)
  PROVE  IdsInv'
<1> USE DEF Committed, Only
<1>1. \A a \in db'["athlete"] : a.id <= seq'["athlete"]
  BY DEF IInv, IdsInv
<1>2. ASSUME NEW a \in db'["athlete"], NEW b \in db'["athlete"], a.id = b.id PROVE a = b
  <2>1. \A e, f \in tx[c].ins["athlete"] : e = f
    BY DEF IInv, ProgressInv, Progress
  <2>2. ASSUME NEW e \in db["athlete"] \ tx[c].del["athlete"], NEW f \in tx[c].ins["athlete"]
        PROVE  e.id # f.id
    <3>1. CASE \E g \in tx[c].del["athlete"] : g.id = f.id
      <4>1. tx[c].del["athlete"] \subseteq db["athlete"]
        BY DEF IInv, LocksInv
      <4> QED
        BY <3>1, <4>1 DEF IInv, IdsInv
    <3>2. CASE \A g \in db["athlete"] : g.id # f.id
      BY <3>2
    <3> QED
      BY <3>1, <3>2 DEF IInv, IdsInv
  <2>3. \A e, f \in db["athlete"] : e.id = f.id => e = f
    BY DEF IInv, IdsInv
  <2> QED
    BY <1>2, <2>1, <2>2, <2>3
<1>3. ASSUME NEW d \in Clients, NEW a \in tx'[d].ins["athlete"]
      PROVE  /\ a.id <= seq'["athlete"]
             /\ \/ \E b \in tx'[d].del["athlete"] : b.id = a.id
                \/ /\ \A b \in db'["athlete"] : b.id # a.id
                   /\ \A e \in Clients \ {d} : \A b \in tx'[e].ins["athlete"] : b.id # a.id
  <2>1. d # c /\ a \in tx[d].ins["athlete"]
    OBVIOUS
  <2>2. a.id <= seq'["athlete"]
    BY <2>1 DEF IInv, IdsInv
  <2>3. CASE \E b \in tx[d].del["athlete"] : b.id = a.id
    BY <2>1, <2>2, <2>3
  <2>4. CASE /\ \A b \in db["athlete"] : b.id # a.id
             /\ \A e \in Clients \ {d} : \A b \in tx[e].ins["athlete"] : b.id # a.id
    <3>1. \A b \in db'["athlete"] : b.id # a.id
      BY <2>1, <2>4
    <3>2. ASSUME NEW e \in Clients \ {d}, NEW b \in tx'[e].ins["athlete"] PROVE b.id # a.id
      BY <2>4
    <3> QED
      BY <2>2, <3>1, <3>2
  <2> QED
    BY <2>1, <2>3, <2>4 DEF IInv, IdsInv
<1> QED
  BY <1>1, <1>2, <1>3 DEF IdsInv

LEMMA CommitLocks ==
  ASSUME IInv, NEW c \in Clients, Committed(c)
  PROVE  LocksInv'
<1> USE DEF Committed, Only
<1>1. ASSUME NEW t \in {"athlete", "performance"}, NEW d \in Clients
      PROVE  /\ tx'[d].del[t] \subseteq db'[t]
             /\ \A e \in Clients \ {d} : tx'[d].del[t] \cap tx'[e].del[t] = {}
  <2>1. CASE d = c
    BY <2>1
  <2>2. CASE d # c
    <3>1. tx'[d].del[t] = tx[d].del[t] /\ tx[d].del[t] \cap tx[c].del[t] = {}
      BY <2>2 DEF IInv, LocksInv
    <3>2. tx[d].del[t] \subseteq db[t]
      BY DEF IInv, LocksInv
    <3>3. ASSUME NEW e \in Clients \ {d} PROVE tx'[d].del[t] \cap tx'[e].del[t] = {}
      BY <3>1 DEF IInv, LocksInv
    <3> QED
      BY <3>1, <3>2, <3>3
  <2> QED
    BY <2>1, <2>2
<1> QED
  BY <1>1 DEF LocksInv

LEMMA CommitShares ==
  ASSUME IInv, NEW c \in Clients, Committed(c)
  PROVE  ShareInv'
<1> USE DEF Committed, Only
<1>1. ASSUME NEW d \in Clients, NEW i \in tx'[d].share
      PROVE  /\ \E a \in db'["athlete"] \cup tx'[d].ins["athlete"] : a.id = i
             /\ \A e \in Clients \ {d} : \A a \in tx'[e].del["athlete"] :
                  a.id = i => \E b \in tx'[e].ins["athlete"] : b.id = i
  <2>1. d # c /\ i \in tx[d].share
    OBVIOUS
  <2>2. PICK a \in db["athlete"] \cup tx[d].ins["athlete"] : a.id = i
    BY <2>1 DEF IInv, ShareInv
  <2>3. a \in tx[c].del["athlete"] => \E b \in tx[c].ins["athlete"] : b.id = i
    BY <2>1, <2>2 DEF IInv, ShareInv
  <2>4. \E b \in db'["athlete"] \cup tx'[d].ins["athlete"] : b.id = i
    BY <2>1, <2>2, <2>3
  <2>5. ASSUME NEW e \in Clients \ {d}, NEW b \in tx'[e].del["athlete"], b.id = i
        PROVE  \E f \in tx'[e].ins["athlete"] : f.id = i
    BY <2>1, <2>5 DEF IInv, ShareInv
  <2> QED
    BY <2>4, <2>5
<1> QED
  BY <1>1 DEF ShareInv

LEMMA CommitCascades ==
  ASSUME IInv, NEW c \in Clients, Committed(c)
  PROVE  CascadeInv'
<1> USE DEF Committed, Only
<1>1. ASSUME NEW d \in Clients, Behind(tx'[d])
      PROVE  Doomed(d, "performance")' = {}
  <2>1. d # c /\ Behind(tx[d])
    BY <1>1 DEF Behind
  <2>2. Doomed(d, "performance") = {}
    BY <2>1 DEF IInv, CascadeInv
  <2>3. Gone(d, "athlete")' = Gone(d, "athlete")
    BY <2>1 DEF Gone
  <2>4. tx[d].ins["performance"] = {}
    BY <2>1 DEF IInv, ProgressInv, Progress, Behind, Deleting
  <2>5. ASSUME NEW r \in Doomed(d, "performance")' PROVE FALSE
    <3>1. r \in db'["performance"] \ tx[d].del["performance"] /\ r.athlete \in Gone(d, "athlete")
      BY <2>1, <2>3, <2>4 DEF Doomed, Visible
    <3>2. CASE r \in db["performance"]
      BY <2>2, <3>1, <3>2 DEF Doomed, Visible
    <3>3. CASE r \in tx[c].ins["performance"] /\ r.athlete \in tx[c].share
      <4>1. PICK a \in tx[d].del["athlete"] : a.id = r.athlete
        BY <3>1 DEF Gone
      <4>2. \E b \in tx[d].ins["athlete"] : b.id = r.athlete
        BY <2>1, <3>3, <4>1 DEF IInv, ShareInv
      <4> QED
        BY <3>1, <4>2 DEF Gone
    <3>4. CASE r \in tx[c].ins["performance"] /\ r \in tx[c].del["performance"]
      BY <3>2, <3>4 DEF IInv, LocksInv
    <3> QED
      BY <3>1, <3>2, <3>3, <3>4 DEF IInv, ProgressInv, Progress
  <2> QED
    BY <2>5
<1> QED
  BY <1>1 DEF CascadeInv

\* The heart of it: a result of db' is an old one whose athlete stays, or was
\* replaced; or a new one, whose athlete its transaction holds.
LEMMA CommitResults ==
  ASSUME IInv, NEW c \in Clients, Commit(c), Committed(c)
  PROVE  NoOrphanResults'
<1> USE DEF Committed, Only
<1>1. Progress(tx[c]) /\ Is(c, tx[c].op, tx[c].at)
  BY DEF IInv, ProgressInv, Is
<1>2. Places(c) /\ Busy(c) /\ At(c, "commit") /\ tx[c].op \in AllOperations
  BY OpenPlaces DEF IInv, Commit, At
<1>3. Doomed(c, "performance") = {}
  <2>1. CASE Behind(tx[c])
    BY <2>1 DEF IInv, CascadeInv
  <2>2. CASE ~Behind(tx[c]) /\ tx[c].op = "update"
    <3>1. tx[c].at = 5
      BY <1>2, <2>2 DEF Places, Is
    <3>2. \A a \in tx[c].del["athlete"] : \E b \in tx[c].ins["athlete"] : b.id = a.id
      BY <1>1, <2>2, <3>1 DEF Progress
    <3> QED
      BY <3>2 DEF Doomed, Gone
  <2>3. CASE ~Behind(tx[c]) /\ tx[c].op # "update"
    <3>1. tx[c].op = "discard" \/ ~Deleting(tx[c])
      BY <1>2, <2>3 DEF Places, Is, Behind, Deleting
    <3>2. tx[c].del["athlete"] = {}
      BY <1>1, <2>3, <3>1 DEF Progress
    <3> QED
      BY <3>2 DEF Doomed, Gone
  <2> QED
    BY <2>1, <2>2, <2>3
\* An athlete of db whose results are not doomed is there afterwards.
<1>4. ASSUME NEW a \in db["athlete"], a.id \notin Gone(c, "athlete")
      PROVE  \E b \in db'["athlete"] : b.id = a.id
  BY <1>4 DEF Gone
<1>5. ASSUME NEW r \in db'["performance"]
      PROVE  \E a \in db'["athlete"] : a.id = r.athlete
  <2>1. CASE r \in db["performance"] /\ r.athlete \notin Gone(c, "athlete")
    BY <1>4, <2>1 DEF IInv, NoOrphanResults
  <2>2. CASE r.athlete \in Gone(c, "athlete")
    <3>1. r \in Visible(c, "performance")
      BY DEF Visible
    <3> QED
      BY <1>3, <2>2, <3>1 DEF Doomed
  <2>3. CASE /\ r \in tx[c].ins["performance"] /\ r.athlete \in tx[c].share
             /\ r.athlete \notin Gone(c, "athlete")
    <3>1. PICK a \in db["athlete"] \cup tx[c].ins["athlete"] : a.id = r.athlete
      BY <2>3 DEF IInv, ShareInv
    <3> QED
      BY <1>4, <2>3, <3>1
  <2>4. CASE r \in tx[c].ins["performance"] /\ r \in tx[c].del["performance"]
    <3>1. r \in db["performance"]
      BY <2>4 DEF IInv, LocksInv
    <3> QED
      BY <2>1, <2>2, <3>1
  <2> QED
    BY <1>1, <2>1, <2>2, <2>3, <2>4 DEF Progress
<1> QED
  BY <1>5 DEF NoOrphanResults

LEMMA CommitKeeps ==
  ASSUME IInv, NEW c \in Clients, Commit(c)
  PROVE  IInv'
<1>1. Committed(c)
  BY CommitShape
<1>2. ProgressInv'
  <2>1. ASSUME NEW d \in Clients \ {c} PROVE Progress(tx'[d])
    <3>1. Progress(tx[d])
      BY DEF IInv, ProgressInv
    <3> QED
      BY <1>1, <3>1 DEF Progress, Deleting, Committed, Only
  <2> QED
    BY <1>1, <2>1 DEF ProgressInv, Committed
<1>3. TypeInv'
  BY <1>1 DEF Committed
<1> QED
  BY <1>1, <1>2, <1>3, CommitIds, CommitLocks, CommitShares, CommitCascades, CommitResults
  DEF IInv

LEMMA LengthsAtLeast ==
  ASSUME NEW op \in AllOperations
  PROVE  Len(Program(op)) \in Nat /\ 3 <= Len(Program(op))
<1> DEFINE n == Len(Program(op))
<1>1. n \in {3, 4, 5, 7, 16}
  BY Lengths, Zenon DEF AllOperations
<1> HIDE DEF n
<1>2. n \in Nat /\ 3 <= n
  BY <1>1
<1> QED
  BY <1>2 DEF n

-----------------------------------------------------------------------------
(* Initially                                                               *)

LEMMA InUseType ==
  /\ InUse \in RowSets
  /\ \A t \in Numbered : Cardinality(InUse[t]) \in Nat
  /\ InUse["athlete"] = {[id |-> 1, user |-> 2, license |-> JaneLicense]}
  /\ InUse["performance"] = {[id |-> 1, athlete |-> 1]}
<1> DEFINE users == {[id |-> 1, email |-> Boss, role |-> "admin", active |-> TRUE],
                     [id |-> 2, email |-> Jane, role |-> "user", active |-> TRUE]}
           athletes == {[id |-> 1, user |-> 2, license |-> JaneLicense]}
           results == {[id |-> 1, athlete |-> 1]}
<1>1. /\ InUse["role"] = {"admin", "user"} /\ InUse["user"] = users
      /\ InUse["athlete"] = athletes /\ InUse["performance"] = results
      /\ InUse = [t \in Tables |-> InUse[t]]
  BY DEF InUse, Tables
<1>2. /\ {"admin", "user"} \subseteq Rows("role") /\ users \subseteq Rows("user")
      /\ athletes \subseteq Rows("athlete") /\ results \subseteq Rows("performance")
  BY DEF Rows
<1>3. IsFiniteSet(users) /\ IsFiniteSet(athletes) /\ IsFiniteSet(results)
  <2> DEFINE boss == [id |-> 1, email |-> Boss, role |-> "admin", active |-> TRUE]
             jane == [id |-> 2, email |-> Jane, role |-> "user", active |-> TRUE]
  <2>1. users = {boss} \cup {jane}
    OBVIOUS
  <2> HIDE DEF boss, jane, users
  <2>2. IsFiniteSet({boss}) /\ IsFiniteSet({boss} \cup {jane})
    BY FS_Singleton, FS_AddElement
  <2>3. IsFiniteSet(athletes) /\ IsFiniteSet(results)
    BY FS_Singleton
  <2> QED
    BY <2>1, <2>2, <2>3
<1> HIDE DEF users, athletes, results
<1>4. \A t \in Tables : InUse[t] \subseteq Rows(t)
  BY <1>1, <1>2 DEF Tables
<1>5. \A t \in Tables : Rows(t) \subseteq AllRows
  BY DEF AllRows
<1>6. InUse \in RowSets
  BY <1>1, <1>4, <1>5 DEF RowSets
<1>7. \A t \in Numbered : Cardinality(InUse[t]) \in Nat
  BY <1>1, <1>3, FS_CardinalityType DEF Numbered
<1> QED
  BY <1>1, <1>6, <1>7 DEF athletes, results

LEMMA NoRowsAre ==
  /\ \A t \in Numbered : Cardinality(NoRows[t]) = 0
  /\ NoRows["athlete"] = {} /\ NoRows["performance"] = {}
  BY FS_EmptySet DEF NoRows, Tables, Numbered

LEMMA InitInv == Init => IInv
<1> SUFFICES ASSUME Init PROVE IInv
  OBVIOUS
<1>1. PICK d \in Databases : db = Filled(d) /\ seq = [t \in Numbered |-> Cardinality(db[t])]
  BY DEF Init
<1>2. db = NoRows \/ db = InUse
  BY <1>1 DEF Filled
<1>3. tx = [c \in Clients |-> NoTx] /\ answer = "none"
  BY DEF Init
<1>4. TypeInv
  BY <1>1, <1>2, <1>3, InUseType, NoRowsAre, NoRowsType, NoTxType DEF TypeInv
<1>5. ASSUME NEW c \in Clients
      PROVE  /\ tx[c] = NoTx /\ tx[c].ins["athlete"] = {} /\ tx[c].ins["performance"] = {}
             /\ tx[c].del["athlete"] = {} /\ tx[c].del["performance"] = {} /\ tx[c].share = {}
  BY <1>3, NoTxType, NoRowsAre
<1>6. ProgressInv /\ CascadeInv /\ LocksInv /\ ShareInv
  BY <1>5, NoTxType
  DEF ProgressInv, Progress, Deleting, CascadeInv, Behind, LocksInv, ShareInv
<1>7. IdsInv /\ NoOrphanResults
  <2>1. CASE db = NoRows
    BY <1>5, <2>1, NoRowsAre DEF IdsInv, NoOrphanResults
  <2>2. CASE db = InUse
    <3>1. seq["athlete"] = 1
      <4>1. Cardinality(InUse["athlete"]) = 1
        BY InUseType, FS_Singleton
      <4> QED
        BY <1>1, <2>2, <4>1 DEF Numbered
    <3> QED
      BY <1>5, <2>2, <3>1, InUseType DEF IdsInv, NoOrphanResults
  <2> QED
    BY <1>2, <2>1, <2>2
<1> QED
  BY <1>4, <1>6, <1>7 DEF IInv

-----------------------------------------------------------------------------
(* Requests and queries: what leaves athletes and results alone            *)

LEMMA StartGood ==
  ASSUME IInv, NEW c \in Clients, NEW op \in Operations, Start(c, op)
  PROVE  Good(c)
<1>1. PICK e \in EmailsFor(op), l \in LicensesFor(op), i \in IdsFor(op), on \in StatusesFor(op) :
        tx' = [d \in Clients |->
                 IF d = c THEN [NoTx EXCEPT !.op = op, !.email = e, !.license = l, !.pk = i,
                                            !.on = on, !.alone = \A f \in Clients : ~Busy(f)]
                 ELSE IF Busy(d) THEN [tx[d] EXCEPT !.alone = FALSE] ELSE tx[d]]
  BY DEF Start
<1>2. TypeInv /\ op \in AllOperations
  BY RegistryAssumption DEF IInv
<1>3. i \in Nat
  <2>1. \A u \in {"athlete", "performance"} : db[u] \subseteq Rows(u)
    BY <1>2, RowsOf DEF TypeInv, Tables
  <2>2. \A u \in {"athlete", "performance"} : \A r \in db[u] : r.id \in Nat
    BY <2>1 DEF Rows
  <2> QED
    BY <2>2 DEF IdsFor
<1>4. /\ e \in Mails \cup {None} /\ l \in Plates \cup {None} /\ on \in BOOLEAN
      /\ op \in {"create", "createAdmin", "seed"} => e \in Mails
      /\ op \in {"create", "seed"} => l \in Plates
  BY RegistryAssumption DEF EmailsFor, LicensesFor, StatusesFor, Mails, Plates
<1> DEFINE alone == \A f \in Clients : ~Busy(f)
           n == [NoTx EXCEPT !.op = op, !.email = e, !.license = l, !.pk = i, !.on = on,
                             !.alone = alone]
<1>5. tx'[c] = n
  BY <1>1
<1>6. alone \in BOOLEAN
  OBVIOUS
<1>7. \A u \in {"athlete", "performance"} : NoRows[u] = {}
  BY NoRowsAre
<1> HIDE DEF alone
<1>8. /\ n \in Transactions /\ n.op = op /\ n.at = 1 /\ n.ins = NoRows /\ n.del = NoRows
      /\ n.share = {} /\ n.email = e /\ n.license = l
  BY <1>2, <1>3, <1>4, <1>6, NoTxType DEF Transactions
<1> HIDE DEF n
<1>10. Only(c)
  <2> SUFFICES ASSUME NEW d \in Clients \ {c}
               PROVE  /\ tx'[d] \in Transactions
                      /\ tx'[d].op = tx[d].op /\ tx'[d].at = tx[d].at
                      /\ tx'[d].email = tx[d].email /\ tx'[d].license = tx[d].license
                      /\ tx'[d].seen = tx[d].seen /\ tx'[d].ins = tx[d].ins
                      /\ tx'[d].del = tx[d].del /\ tx'[d].share = tx[d].share
    BY DEF Only
  <2>1. tx'[d] = [tx[d] EXCEPT !.alone = FALSE] \/ tx'[d] = tx[d]
    BY <1>1
  <2>2. tx[d] \in Transactions
    BY <1>2 DEF TypeInv
  <2> QED
    BY <2>1, <2>2 DEF Transactions
<1>11. TypeInv'
  <2>1. DOMAIN tx' = Clients /\ tx' = [d \in Clients |-> tx'[d]]
    BY <1>1
  <2>2. tx' \in [Clients -> Transactions]
    BY <1>5, <1>8, <1>10, <2>1 DEF Only
  <2> QED
    BY <1>2, <2>2 DEF TypeInv, Start
<1>12. Progress(n)
  <2>1. 1 \in 1 .. Len(Program(op))
    BY <1>2, LengthsAtLeast
  <2> QED
    BY <1>4, <1>7, <1>8, <2>1 DEF Progress, Deleting
<1>13. Work(c)
  <2>1. db' = db /\ seq' = seq /\ seq["athlete"] \in Nat
    BY <1>2 DEF Start, TypeInv, Numbered
  <2> QED
    BY <1>5, <1>7, <1>8, <2>1 DEF Work, Behind
<1> QED
  BY <1>5, <1>10, <1>11, <1>12, <1>13 DEF Good

-----------------------------------------------------------------------------
(* Lengths of programs                                                     *)

Size ==
  [create |-> 7, update |-> 5, setStatus |-> 3, delete |-> 4, record |-> 3, amend |-> 3,
   discard |-> 3, createAdmin |-> 5, purge |-> 7, seed |-> 16]

LEMMA Sizes == \A op \in AllOperations : Len(Program(op)) = Size[op]
<1>1. /\ Size["create"] = 7 /\ Size["update"] = 5 /\ Size["setStatus"] = 3 /\ Size["delete"] = 4
      /\ Size["record"] = 3 /\ Size["amend"] = 3 /\ Size["discard"] = 3
      /\ Size["createAdmin"] = 5 /\ Size["purge"] = 7 /\ Size["seed"] = 16
  BY DEF Size
<1> QED
  BY <1>1, Lengths, Zenon DEF AllOperations

-----------------------------------------------------------------------------
(* Statements that leave athletes and results alone                        *)

\* The transaction t is c's, perhaps a statement further, with nothing new about
\* athletes and results; and the next statement is not yet behind the last
\* cascade, unless that has nothing left to do.
Calm(c, t) ==
  /\ t \in Transactions
  /\ t.op = tx[c].op /\ t.email = tx[c].email /\ t.license = tx[c].license
  /\ t.share = tx[c].share
  /\ \A u \in {"athlete", "performance"} :
       t.ins[u] = tx[c].ins[u] /\ t.del[u] = tx[c].del[u]
  /\ tx[c].at <= t.at /\ t.at < Size[t.op]
  /\ \/ (t.op = "delete" => t.at # 3) /\ (t.op \in {"purge", "seed"} => t.at # 6)
     \/ Doomed(c, "performance") = {}
  /\ t.op = "seed" /\ tx[c].at <= 7 => t.at < 7
  /\ t.op = "update" => t.at < 3
  /\ t.op \in {"update", "setStatus"} => t.seen \in Rows("athlete")

LEMMA CalmGood ==
  ASSUME IInv, NEW c \in Clients, Busy(c), NEW t, Calm(c, t), Advance(c, t),
         db' = db, seq' \in [Numbered -> Nat], seq'["athlete"] = seq["athlete"]
  PROVE  Good(c)
<1> DEFINE u == [t EXCEPT !.at = t.at + 1]
<1>1. TypeInv /\ Progress(tx[c]) /\ db \in RowSets /\ tx[c] \in Transactions /\ t \in Transactions
  BY DEF IInv, ProgressInv, TypeInv, Calm
<1>2. TypeInv' /\ Only(c) /\ tx'[c] = u
  BY <1>1, Advancing
<1>3. /\ u.op = t.op /\ u.email = t.email /\ u.license = t.license /\ u.share = t.share
      /\ u.at = t.at + 1 /\ u.ins = t.ins /\ u.del = t.del /\ u.seen = t.seen
      /\ t.at \in Nat /\ tx[c].at \in Nat /\ tx[c].op \in AllOperations \cup {"none"}
  BY <1>1 DEF Transactions
<1> HIDE DEF u
<1>4. tx[c].op \in Operations /\ tx[c].op \in AllOperations
  BY <1>1, OpenPlaces DEF IInv
<1>8. u.at \in 1 .. Len(Program(u.op))
  <2>1. Size[t.op] \in Nat
    BY <1>4 DEF Size, AllOperations, Calm
  <2>2. u.at \in 1 .. Size[t.op]
    BY <1>3, <2>1 DEF Calm
  <2>3. Len(Program(u.op)) = Size[t.op]
    BY <1>3, <1>4, Sizes, Zenon DEF Calm
  <2> QED
    BY <2>2, <2>3
<1>9. Deleting(u) <=> Deleting(tx[c])
  BY <1>3 DEF Deleting, Calm
<1>10. Progress(u)
  <2>1. /\ u.op \in {"create", "createAdmin", "seed"} => u.email \in Mails
        /\ u.op \in {"create", "seed"} => u.license \in Plates
        /\ u.op \in {"update", "setStatus"} /\ u.at >= 2 => u.seen \in Rows("athlete")
        /\ u.op # "none" => u.op \in Operations
    BY <1>1, <1>3, <1>4 DEF Progress, Calm
  <2>2. /\ u.op \notin {"record", "seed"} \/ Deleting(u) => u.share = {}
        /\ u.op \notin {"record", "seed", "amend"} \/ Deleting(u) => u.ins["performance"] = {}
        /\ u.op \notin {"create", "seed", "update"} \/ Deleting(u) => u.ins["athlete"] = {}
        /\ ~Deleting(u) /\ u.op # "update" => u.del["athlete"] = {}
        /\ u.op = "discard" => u.del["athlete"] = {}
    BY <1>1, <1>3, <1>9 DEF Progress, Calm
  <2>3. /\ u.op = "create" /\ u.at <= 6 => u.ins["athlete"] = {}
        /\ u.op = "seed" /\ u.at <= 14 => u.ins["athlete"] = {}
        /\ u.op = "amend" /\ u.at <= 2 => u.ins["performance"] = {}
        /\ u.op = "update" => u.at <= 3 /\ u.ins["athlete"] = {} /\ u.del["athlete"] = {}
    BY <1>1, <1>3 DEF Progress, Calm
  <2>4. /\ \A a, b \in u.ins["athlete"] : a = b
        /\ \A r \in u.ins["performance"] : r.athlete \in u.share \/ r \in u.del["performance"]
    BY <1>1, <1>3 DEF Progress, Calm
  <2> QED
    BY <1>3, <1>8, <2>1, <2>2, <2>3, <2>4 DEF Progress
<1>11. Work(c)
  <2>1. \A a \in tx[c].ins["athlete"] : a.id <= seq["athlete"]
    BY DEF IInv, IdsInv
  <2>2. Behind(u) => Doomed(c, "performance")' = {}
    <3>1. Doomed(c, "performance")' = Doomed(c, "performance")
      BY <1>2, <1>3 DEF Doomed, Visible, Gone, Calm
    <3> QED
      BY <1>3, <3>1 DEF Behind, Calm
  <2>3. seq["athlete"] \in Nat
    BY <1>1 DEF TypeInv, Numbered
  <2> QED
    BY <1>2, <1>3, <2>1, <2>2, <2>3 DEF Work, Calm
<1> QED
  BY <1>2, <1>10, <1>11 DEF Good

LEMMA OpenFacts ==
  ASSUME IInv, NEW c \in Clients, Busy(c)
  PROVE  /\ Places(c) /\ TypeInv /\ tx[c] \in Transactions /\ Progress(tx[c])
         /\ seq' = seq => seq' \in [Numbered -> Nat] /\ seq'["athlete"] = seq["athlete"]
  BY OpenPlaces DEF IInv, TypeInv, ProgressInv

LEMMA QueriesGood ==
  ASSUME IInv, NEW c \in Clients,
         \/ FreeEmail(c) \/ FreeLicense(c) \/ GetUserRole(c) \/ GetAdminRole(c)
         \/ FindAthlete(c) \/ FindPerformance(c) \/ ScanUsers(c) \/ ScanAthletes(c)
  PROVE  Good(c)
<1>1. Busy(c)
  BY DEF FreeEmail, FreeLicense, GetUserRole, GetAdminRole, FindAthlete, FindPerformance,
         ScanUsers, ScanAthletes, At
<1>2. /\ Places(c) /\ TypeInv /\ tx[c] \in Transactions /\ Progress(tx[c])
      /\ seq' = seq => seq' \in [Numbered -> Nat] /\ seq'["athlete"] = seq["athlete"]
  BY <1>1, OpenFacts
<1>3. ASSUME Abort(c, "refused") PROVE Good(c)
  BY <1>2, <1>3, Aborting
<1>4. ASSUME NEW t, Calm(c, t), Proceed(c, t) PROVE Good(c)
  BY <1>1, <1>2, <1>4, CalmGood DEF Proceed
<1>5. tx[c].at \in Nat
  BY <1>2 DEF Transactions
<1>6. CASE FreeEmail(c)
  <2>1. Is(c, "create", 1) \/ Is(c, "createAdmin", 1)
    BY <1>2, <1>6 DEF Places, FreeEmail
  <2>2. Calm(c, tx[c])
    BY <1>2, <2>1 DEF Size, Calm, Is
  <2> QED
    BY <1>3, <1>4, <1>6, <2>2 DEF FreeEmail
<1>7. CASE FreeLicense(c)
  <2>1. Is(c, "create", 2) \/ Is(c, "update", 2)
    BY <1>2, <1>7 DEF Places, FreeLicense
  <2>2. Calm(c, tx[c])
    BY <1>2, <2>1 DEF Size, Calm, Is, Progress
  <2> QED
    BY <1>3, <1>4, <1>7, <2>2 DEF FreeLicense
<1>8. CASE GetUserRole(c) \/ GetAdminRole(c)
  <2>1. \/ Is(c, "create", 3) \/ Is(c, "seed", 10)
        \/ Is(c, "createAdmin", 2) \/ Is(c, "seed", 8)
    BY <1>2, <1>8 DEF Places, GetUserRole, GetAdminRole
  <2> DEFINE t == [tx[c] EXCEPT !.at = @ + 1]
  <2>2. Calm(c, tx[c])
    BY <1>2, <2>1 DEF Size, Calm, Is
  <2>3. /\ t \in Transactions /\ t.at = tx[c].at + 1 /\ t.op = tx[c].op
        /\ t.email = tx[c].email /\ t.license = tx[c].license /\ t.share = tx[c].share
        /\ t.ins = tx[c].ins /\ t.del = tx[c].del
    BY <1>2 DEF Transactions
  <2>4. Skip(c) => Proceed(c, t)
    BY DEF Skip
  <2> HIDE DEF t
  <2>5. Calm(c, t)
    BY <2>1, <2>3 DEF Size, Calm, Is
  <2> QED
    BY <1>4, <1>8, <2>2, <2>4, <2>5 DEF GetUserRole, GetAdminRole, GetRole
<1>9. CASE FindAthlete(c)
  <2>1. CASE Abort(c, "refused")
    BY <1>3, <2>1
  <2>2. CASE \E a \in Visible(c, "athlete") :
               a.id = tx[c].pk /\ Proceed(c, [tx[c] EXCEPT !.seen = a, !.todo = {a.user}])
    <3>1. PICK a \in Visible(c, "athlete") :
                 Proceed(c, [tx[c] EXCEPT !.seen = a, !.todo = {a.user}])
      BY <2>2
    <3>2. a \in Rows("athlete") /\ a.user \in Nat
      <4>1. /\ db["athlete"] \subseteq Rows("athlete")
            /\ tx[c].ins["athlete"] \subseteq Rows("athlete")
        BY <1>2, RowsOf DEF TypeInv, Transactions, Tables
      <4> QED
        BY <4>1, AthleteRows DEF Visible
    <3> DEFINE t == [tx[c] EXCEPT !.seen = a, !.todo = {a.user}]
    <3>3. /\ t \in Transactions /\ t.at = tx[c].at /\ t.op = tx[c].op /\ t.seen = a
          /\ t.email = tx[c].email /\ t.license = tx[c].license /\ t.share = tx[c].share
          /\ t.ins = tx[c].ins /\ t.del = tx[c].del
      BY <1>2, <3>2 DEF Transactions
    <3>4. \E op \in {"update", "setStatus", "delete", "record"} : Is(c, op, 1)
      BY <1>2, <1>9 DEF Places, FindAthlete
    <3> HIDE DEF t
    <3>5. Calm(c, t)
      BY <3>2, <3>3, <3>4 DEF Size, Calm, Is
    <3> QED
      BY <1>4, <3>1, <3>5 DEF t
  <2> QED
    BY <1>9, <2>1, <2>2 DEF FindAthlete
<1>10. CASE FindPerformance(c) \/ ScanUsers(c) \/ ScanAthletes(c)
  <2>1. PICK ids \in SUBSET Nat :
               Abort(c, "refused") \/ Proceed(c, [tx[c] EXCEPT !.todo = ids])
    <3>1. CASE FindPerformance(c)
      <4>1. {tx[c].pk} \in SUBSET Nat
        BY <1>2 DEF Transactions
      <4> QED
        BY <3>1, <4>1 DEF FindPerformance
    <3>2. CASE ScanUsers(c)
      <4>1. db["user"] \subseteq Rows("user") /\ tx[c].ins["user"] \subseteq Rows("user")
        BY <1>2, RowsOf DEF TypeInv, Transactions, Tables
      <4>2. \A v \in Visible(c, "user") : v.id \in Nat
        BY <4>1 DEF Visible, Rows
      <4>3. {v.id : v \in {w \in Visible(c, "user") : w.email \in DemoEmails}} \in SUBSET Nat
        BY <4>2
      <4> QED
        BY <3>2, <4>3 DEF ScanUsers
    <3>3. CASE ScanAthletes(c)
      <4>1. \A v \in Visible(c, "athlete") : v.id \in Nat
        BY <1>2, AthleteIds DEF Visible
      <4>2. {v.id : v \in {w \in Visible(c, "athlete") : w.license = DemoLicense}} \in SUBSET Nat
        BY <4>1
      <4> QED
        BY <3>3, <4>2 DEF ScanAthletes
    <3> QED
      BY <1>10, <3>1, <3>2, <3>3
  <2> DEFINE t == [tx[c] EXCEPT !.todo = ids]
  <2>2. /\ t \in Transactions /\ t.at = tx[c].at /\ t.op = tx[c].op
        /\ t.email = tx[c].email /\ t.license = tx[c].license /\ t.share = tx[c].share
        /\ t.ins = tx[c].ins /\ t.del = tx[c].del
    BY <1>2 DEF Transactions
  <2>3. \/ Is(c, "amend", 1) \/ Is(c, "discard", 1) \/ Is(c, "purge", 1) \/ Is(c, "seed", 1)
        \/ Is(c, "purge", 4) \/ Is(c, "seed", 4)
    BY <1>2, <1>10 DEF Places, FindPerformance, ScanUsers, ScanAthletes
  <2>4. Abort(c, "refused") \/ Proceed(c, t)
    BY <2>1
  <2> HIDE DEF t
  <2>5. Calm(c, t)
    BY <2>2, <2>3 DEF Size, Calm, Is
  <2> QED
    BY <1>3, <1>4, <2>4, <2>5
<1> QED
  BY <1>6, <1>7, <1>8, <1>9, <1>10

-----------------------------------------------------------------------------
(* Roles and accounts                                                      *)

\* A row of table t is added to what x has written.
LEMMA Written ==
  ASSUME NEW x \in Transactions, NEW t \in Tables, NEW row \in Rows(t), NEW p \in Nat,
         NEW n, n = [x EXCEPT !.ins[t] = @ \cup {row}, !.pk = p]
  PROVE  n \in Transactions
<1> DEFINE ins == [x.ins EXCEPT ![t] = x.ins[t] \cup {row}]
<1>1. x.ins \in RowSets
  BY DEF Transactions
<1>2. x.ins[t] \cup {row} \in SUBSET Rows(t)
  BY <1>1, RowsOf
<1>3. ins = [x.ins EXCEPT ![t] = x.ins[t] \cup {row}] /\ n = [x EXCEPT !.ins = ins, !.pk = p]
  OBVIOUS
<1> HIDE DEF ins
<1>4. ins \in RowSets
  BY <1>1, <1>2, <1>3, RowsChanged
<1> QED
  BY <1>3, <1>4 DEF Transactions

LEMMA InsertType ==
  ASSUME IInv, NEW c \in Clients, NEW t \in Tables, NEW row \in Rows(t), Insert(c, t, row)
  PROVE  \/ Good(c)
         \/ \E n \in Transactions :
              /\ Advance(c, n) /\ db' = db /\ seq' \in [Numbered -> Nat]
              /\ t \in Numbered => seq' = [seq EXCEPT ![t] = @ + 1]
              /\ t \notin Numbered => seq' = seq
              /\ n.op = tx[c].op /\ n.at = tx[c].at /\ n.email = tx[c].email
              /\ n.license = tx[c].license /\ n.seen = tx[c].seen /\ n.share = tx[c].share
              /\ n.del = tx[c].del
              /\ n.ins[t] = tx[c].ins[t] \cup {row}
              /\ \A u \in Tables \ {t} : n.ins[u] = tx[c].ins[u]
<1>1. TypeInv /\ tx[c] \in Transactions /\ tx[c].ins \in RowSets /\ tx[c].pk \in Nat
  BY DEF IInv, TypeInv, Transactions
<1>2. CASE Abort(c, "error")
  BY <1>1, <1>2, Aborting
<1>3. CASE ~Abort(c, "error")
  <2> DEFINE p == IF t \in Numbered THEN row.id ELSE tx[c].pk
             n == [tx[c] EXCEPT !.ins[t] = @ \cup {row}, !.pk = p]
  <2>1. Advance(c, n) /\ db' = db
    BY <1>3 DEF Insert
  <2>2. seq' = IF t \in Numbered THEN [seq EXCEPT ![t] = @ + 1] ELSE seq
    BY <1>3 DEF Insert
  <2>3. p \in Nat
    BY <1>1 DEF Rows, Numbered
  <2> HIDE DEF p
  <2>4. /\ n \in Transactions /\ n.op = tx[c].op /\ n.at = tx[c].at /\ n.email = tx[c].email
        /\ n.license = tx[c].license /\ n.seen = tx[c].seen /\ n.share = tx[c].share
        /\ n.del = tx[c].del
        /\ n.ins[t] = tx[c].ins[t] \cup {row}
        /\ \A u \in Tables \ {t} : n.ins[u] = tx[c].ins[u]
    <3> DEFINE x == tx[c]
    <3>1. n = [x EXCEPT !.ins[t] = @ \cup {row}, !.pk = p] /\ x \in Transactions
      BY <1>1
    <3> HIDE DEF n, x
    <3>2. n \in Transactions
      BY <2>3, <3>1, Written
    <3>3. /\ n.op = x.op /\ n.at = x.at /\ n.email = x.email /\ n.license = x.license
          /\ n.seen = x.seen /\ n.share = x.share /\ n.del = x.del
          /\ n.ins = [x.ins EXCEPT ![t] = x.ins[t] \cup {row}]
      BY <3>1 DEF Transactions
    <3>4. n.ins[t] = x.ins[t] \cup {row} /\ \A u \in Tables \ {t} : n.ins[u] = x.ins[u]
      <4>1. x.ins \in RowSets
        BY <3>1 DEF Transactions
      <4> QED
        BY <3>3, <4>1 DEF RowSets
    <3> QED
      BY <3>2, <3>3, <3>4 DEF x
  <2> HIDE DEF n
  <2>5. seq' \in [Numbered -> Nat]
    BY <1>1, <2>2 DEF TypeInv
  <2> QED
    BY <2>1, <2>2, <2>4, <2>5
<1> QED
  BY <1>2, <1>3

LEMMA InsertCalm ==
  ASSUME IInv, NEW c \in Clients, Busy(c), NEW t \in {"role", "user"}, NEW row \in Rows(t),
         Insert(c, t, row), tx[c].op \in {"create", "createAdmin", "seed"},
         tx[c].at < Size[tx[c].op], tx[c].op = "seed" => 8 <= tx[c].at
  PROVE  Good(c)
<1>1. t \in Tables /\ "athlete" \in Tables \ {t} /\ "performance" \in Tables \ {t}
      /\ t # "athlete" /\ "athlete" \in Numbered
  BY DEF Tables, Numbered
<1>2. SUFFICES ASSUME NEW n \in Transactions,
                      Advance(c, n), db' = db, seq' \in [Numbered -> Nat],
                      t \in Numbered => seq' = [seq EXCEPT ![t] = @ + 1],
                      t \notin Numbered => seq' = seq,
                      n.op = tx[c].op, n.at = tx[c].at, n.email = tx[c].email,
                      n.license = tx[c].license, n.seen = tx[c].seen, n.share = tx[c].share,
                      n.del = tx[c].del,
                      \A u \in Tables \ {t} : n.ins[u] = tx[c].ins[u]
               PROVE  Good(c)
  BY <1>1, InsertType
<1>3. seq'["athlete"] = seq["athlete"]
  BY <1>1, <1>2 DEF IInv, TypeInv
<1>4. n.at \in Nat
  BY DEF Transactions
<1>5. Calm(c, n)
  BY <1>1, <1>2, <1>4 DEF Calm
<1> QED
  BY <1>2, <1>3, <1>5, CalmGood

LEMMA RolesAndAccountsGood ==
  ASSUME IInv, NEW c \in Clients,
         AddUserRole(c) \/ AddAdminRole(c) \/ AddUser(c) \/ AddAdmin(c)
  PROVE  Good(c)
<1>1. Busy(c)
  BY DEF AddUserRole, AddAdminRole, AddUser, AddAdmin, At
<1>2. /\ Places(c) /\ TypeInv /\ tx[c] \in Transactions /\ Progress(tx[c])
  BY <1>1, OpenFacts
<1>3. seq["user"] + 1 \in Nat
  BY <1>2 DEF TypeInv, Numbered
<1>4. CASE AddUserRole(c) \/ AddAdminRole(c)
  <2>1. PICK row \in {"user", "admin"} : Insert(c, "role", row)
    BY <1>4 DEF AddUserRole, AddAdminRole
  <2>2. row \in Rows("role")
    BY DEF Rows
  <2>3. \/ Is(c, "create", 4) \/ Is(c, "seed", 11)
        \/ Is(c, "createAdmin", 3) \/ Is(c, "seed", 9)
    BY <1>2, <1>4 DEF AddUserRole, AddAdminRole, Places
  <2>4. /\ tx[c].op \in {"create", "createAdmin", "seed"}
        /\ tx[c].at < Size[tx[c].op]
        /\ tx[c].op = "seed" => 8 <= tx[c].at
    BY <2>3 DEF Is, Size
  <2> QED
    BY <1>1, <2>1, <2>2, <2>4, InsertCalm
<1>5. CASE AddUser(c)
  <2> DEFINE row == [id |-> seq["user"] + 1, email |-> tx[c].email, role |-> "user",
                     active |-> TRUE]
  <2>1. Is(c, "create", 5) \/ Is(c, "seed", 13)
    BY <1>2, <1>5 DEF AddUser, Places
  <2>2. tx[c].email \in Mails
    BY <1>2, <2>1 DEF Progress, Is
  <2>3. row \in Rows("user")
    BY <1>3, <2>2 DEF Rows, Mails
  <2>4. Insert(c, "user", row)
    BY <1>5 DEF AddUser
  <2>5. /\ tx[c].op \in {"create", "createAdmin", "seed"}
        /\ tx[c].at < Size[tx[c].op]
        /\ tx[c].op = "seed" => 8 <= tx[c].at
    BY <2>1 DEF Is, Size
  <2> HIDE DEF row
  <2> QED
    BY <1>1, <2>3, <2>4, <2>5, InsertCalm
<1>6. CASE AddAdmin(c)
  <2> DEFINE mail == IF tx[c].op = "seed" THEN AdminEmail ELSE tx[c].email
             row == [id |-> seq["user"] + 1, role |-> "admin", active |-> TRUE, email |-> mail]
  <2>1. Is(c, "createAdmin", 4) \/ Is(c, "seed", 12)
    BY <1>2, <1>6 DEF AddAdmin, Places
  <2>2. mail \in Mails
    BY <1>2, <2>1 DEF Progress, Is, Mails
  <2>3. row \in Rows("user")
    BY <1>3, <2>2 DEF Rows, Mails
  <2>4. Insert(c, "user", row)
    BY <1>6 DEF AddAdmin, AdminAddress
  <2>5. /\ tx[c].op \in {"create", "createAdmin", "seed"}
        /\ tx[c].at < Size[tx[c].op]
        /\ tx[c].op = "seed" => 8 <= tx[c].at
    BY <2>1 DEF Is, Size
  <2> HIDE DEF row
  <2> QED
    BY <1>1, <2>3, <2>4, <2>5, InsertCalm
<1> QED
  BY <1>4, <1>5, <1>6

LEMMA WriteUserGood ==
  ASSUME IInv, NEW c \in Clients, WriteUser(c)
  PROVE  Good(c)
<1>1. Busy(c)
  BY DEF WriteUser, At
<1>2. /\ Places(c) /\ TypeInv /\ tx[c] \in Transactions /\ Progress(tx[c])
      /\ seq' = seq => seq' \in [Numbered -> Nat] /\ seq'["athlete"] = seq["athlete"]
  BY <1>1, OpenFacts
<1>3. Is(c, "setStatus", 2)
  BY <1>2 DEF Places, WriteUser
<1>4. Calm(c, tx[c])
  BY <1>2, <1>3 DEF Size, Calm, Is, Progress
<1>5. CASE Proceed(c, tx[c])
  BY <1>1, <1>2, <1>4, <1>5, CalmGood DEF Proceed
<1>6. ASSUME NEW u \in Visible(c, "user"), Overwrite(c, "user", u, [u EXCEPT !.active = tx[c].on])
      PROVE  Good(c)
  <2> DEFINE v == [u EXCEPT !.active = tx[c].on]
             n == [tx[c] EXCEPT !.del["user"] = @ \cup {u}, !.ins["user"] = @ \cup {v}]
  <2>1. u \in Rows("user") /\ v \in Rows("user")
    <3>1. db["user"] \subseteq Rows("user") /\ tx[c].ins["user"] \subseteq Rows("user")
      BY <1>2, RowsOf DEF TypeInv, Transactions, Tables
    <3>2. tx[c].on \in BOOLEAN
      BY <1>2 DEF Transactions
    <3> QED
      BY <3>1, <3>2 DEF Visible, Rows
  <2>2. Proceed(c, n)
    BY <1>6 DEF Overwrite
  <2> HIDE DEF v
  <2>3. /\ n \in Transactions /\ n.op = tx[c].op /\ n.at = tx[c].at /\ n.email = tx[c].email
        /\ n.license = tx[c].license /\ n.seen = tx[c].seen /\ n.share = tx[c].share
        /\ \A t \in Tables \ {"user"} : n.ins[t] = tx[c].ins[t] /\ n.del[t] = tx[c].del[t]
    <3> DEFINE ins == [tx[c].ins EXCEPT !["user"] = tx[c].ins["user"] \cup {v}]
               del == [tx[c].del EXCEPT !["user"] = tx[c].del["user"] \cup {u}]
    <3>1. tx[c].ins \in RowSets /\ tx[c].del \in RowSets /\ "user" \in Tables
      BY <1>2 DEF Transactions, Tables
    <3>2. /\ tx[c].ins["user"] \cup {v} \in SUBSET Rows("user")
          /\ tx[c].del["user"] \cup {u} \in SUBSET Rows("user")
      BY <2>1, <3>1, RowsOf
    <3>3. /\ ins \in RowSets /\ del \in RowSets
          /\ \A t \in Tables \ {"user"} : ins[t] = tx[c].ins[t] /\ del[t] = tx[c].del[t]
      <4>1. /\ ins = [tx[c].ins EXCEPT !["user"] = tx[c].ins["user"] \cup {v}]
            /\ del = [tx[c].del EXCEPT !["user"] = tx[c].del["user"] \cup {u}]
        OBVIOUS
      <4>2. \A t \in Tables \ {"user"} : ins[t] = tx[c].ins[t] /\ del[t] = tx[c].del[t]
        BY <3>1 DEF RowSets
      <4> HIDE DEF ins, del, n
      <4>3. ins \in RowSets /\ del \in RowSets
        BY <3>1, <3>2, <4>1, RowsChanged
      <4> QED
        BY <4>2, <4>3
    <3>4. n = [tx[c] EXCEPT !.del = del, !.ins = ins]
      BY <1>2 DEF Transactions
    <3> HIDE DEF ins, del, n
    <3> QED
      BY <1>2, <3>3, <3>4 DEF Transactions
  <2> HIDE DEF n
  <2>4. Calm(c, n)
    BY <1>3, <1>4, <2>3 DEF Calm, Tables
  <2> QED
    BY <1>1, <1>2, <2>2, <2>4, CalmGood DEF Proceed
<1> QED
  BY <1>5, <1>6 DEF WriteUser

-----------------------------------------------------------------------------
(* Deletions                                                               *)

LEMMA DeleteRowGood ==
  ASSUME IInv, NEW c \in Clients, Busy(c), NEW t \in {"user", "athlete", "performance"},
         NEW r \in Visible(c, t), ~RowLocked(c, t, r), t = "athlete" => ~Referenced(c, r),
         tx' = [tx EXCEPT ![c].del[t] = @ \cup {r}], answer' = "none", UNCHANGED <<db, seq>>,
         tx[c].op \in {"delete", "discard", "purge", "seed"}, Deleting(tx[c]),
         tx[c].op = "discard" => t = "performance", ~Behind(tx[c])
  PROVE  Good(c)
<1> DEFINE x == tx[c]
           del == [x.del EXCEPT ![t] = x.del[t] \cup {r}]
           n == [x EXCEPT !.del = del]
<1>1. TypeInv /\ x \in Transactions /\ Progress(x) /\ x.del \in RowSets /\ x.ins \in RowSets
      /\ t \in Tables /\ db \in RowSets
  BY OpenFacts DEF TypeInv, Transactions, Tables
<1>2. r \in Rows(t)
  <2>1. db[t] \subseteq Rows(t) /\ x.ins[t] \subseteq Rows(t)
    BY <1>1, RowsOf
  <2> QED
    BY <2>1 DEF Visible
<1>3. tx' = [tx EXCEPT ![c] = n]
  BY <1>1 DEF TypeInv, Transactions
<1>4. del[t] = x.del[t] \cup {r} /\ \A u \in Tables \ {t} : del[u] = x.del[u]
  BY <1>1 DEF RowSets
<1>5. del = [x.del EXCEPT ![t] = x.del[t] \cup {r}] /\ x.del[t] \cup {r} \in SUBSET Rows(t)
  BY <1>1, <1>2, RowsOf
<1> HIDE DEF del
<1>6. del \in RowSets
  BY <1>1, <1>5, RowsChanged
<1>7. /\ n \in Transactions /\ n.op = x.op /\ n.at = x.at /\ n.email = x.email
      /\ n.license = x.license /\ n.seen = x.seen /\ n.share = x.share /\ n.ins = x.ins
      /\ n.del = del
  BY <1>1, <1>6 DEF Transactions
<1> HIDE DEF n
<1>8. tx'[c] = n /\ (\A d \in Clients \ {c} : tx'[d] = tx[d]) /\ tx' \in [Clients -> Transactions]
  BY <1>1, <1>3, <1>7 DEF TypeInv
<1>9. TypeInv' /\ Only(c)
  BY <1>1, <1>8 DEF TypeInv, Only
<1>10. x.ins["athlete"] = {} /\ x.ins["performance"] = {} /\ x.share = {}
  BY <1>1 DEF Progress
<1>11. /\ n.ins["athlete"] = {} /\ n.ins["performance"] = {} /\ n.share = {}
       /\ \A u \in {"athlete", "performance"} : \A s \in n.del[u] : s \in x.del[u] \/ (s = r /\ t = u)
  BY <1>4, <1>7, <1>10 DEF Tables
<1>12. t \in {"athlete", "performance"} => r \in db[t]
  BY <1>10 DEF Visible
<1>13. Progress(n)
  <2>1. Deleting(n) /\ n.op # "update" /\ n.at \in 1 .. Len(Program(n.op)) /\ n.op \in Operations
    BY <1>1, <1>7 DEF Deleting, Progress
  <2>2. n.op = "discard" => n.del["athlete"] = {}
    BY <1>1, <1>7, <1>11 DEF Progress
  <2>3. /\ n.op = "seed" => n.email \in Mails /\ n.license \in Plates
    BY <1>1, <1>7 DEF Progress
  <2> QED
    BY <1>7, <1>11, <2>1, <2>2, <2>3 DEF Progress
<1>14. Work(c)
  <2>1. ~Behind(n) /\ seq["athlete"] \in Nat
    BY <1>1, <1>7 DEF Behind, TypeInv, Numbered
  <2>2. \A u \in {"athlete", "performance"} : \A s \in n.del[u] :
          s \in x.del[u] \/ (s \in db[u] /\ ~RowLocked(c, u, s))
    BY <1>11, <1>12
  <2>3. \A a \in n.del["athlete"] : a \in x.del["athlete"] \/ ~Referenced(c, a)
    BY <1>11
  <2>4. \A a \in tx'[c].ins["athlete"] : FALSE
    BY <1>8, <1>11
  <2>5. \A i \in tx'[c].share : FALSE
    BY <1>8, <1>11
  <2>6. \A a \in tx'[c].del["athlete"] :
          \/ a \in tx[c].del["athlete"] /\ \A b \in tx[c].ins["athlete"] : FALSE
          \/ ~Referenced(c, a)
    BY <1>8, <1>10, <2>3
  <2>7. seq["athlete"] <= seq'["athlete"] /\ db' = db /\ ~Behind(tx'[c])
    BY <1>8, <2>1
  <2> QED
    BY <1>8, <2>2, <2>4, <2>5, <2>6, <2>7 DEF Work
<1> QED
  BY <1>8, <1>9, <1>13, <1>14 DEF Good

\* A statement that deletes is over when no row is left.
LEMMA DeleteFromGood ==
  ASSUME IInv, NEW c \in Clients, Busy(c), NEW t \in {"user", "athlete", "performance"},
         NEW rows \in SUBSET Visible(c, t), DeleteFrom(c, t, rows),
         tx[c].op \in {"delete", "discard", "purge", "seed"}, Deleting(tx[c]),
         tx[c].op = "discard" => t = "performance", ~Behind(tx[c]),
         tx[c].at < Size[tx[c].op], tx[c].op = "seed" => tx[c].at < 7,
         \/ (tx[c].op = "delete" => tx[c].at # 3) /\ (tx[c].op \in {"purge", "seed"} => tx[c].at # 6)
         \/ rows = {} => Doomed(c, "performance") = {}
  PROVE  Good(c)
<1> DEFINE n == [tx[c] EXCEPT !.todo = {}]
<1>1. CASE rows = {} /\ Proceed(c, n)
  <2>1. tx[c] \in Transactions
    BY DEF IInv, TypeInv
  <2>2. /\ n \in Transactions /\ n.op = tx[c].op /\ n.at = tx[c].at /\ n.email = tx[c].email
        /\ n.license = tx[c].license /\ n.seen = tx[c].seen /\ n.share = tx[c].share
        /\ n.ins = tx[c].ins /\ n.del = tx[c].del /\ tx[c].at \in Nat
    BY <2>1 DEF Transactions
  <2>3. Proceed(c, n)
    BY <1>1
  <2> HIDE DEF n
  <2>4. Calm(c, n)
    BY <1>1, <2>2 DEF Calm
  <2>5. seq' = seq /\ seq' \in [Numbered -> Nat]
    BY <2>3 DEF Proceed, IInv, TypeInv
  <2> QED
    BY <2>3, <2>4, <2>5, CalmGood DEF Proceed
<1>2. ASSUME NEW r \in rows, ~RowLocked(c, t, r), t = "athlete" => ~Referenced(c, r),
             tx' = [tx EXCEPT ![c].del[t] = @ \cup {r}], answer' = "none", UNCHANGED <<db, seq>>
      PROVE  Good(c)
  BY <1>2, DeleteRowGood
<1> QED
  BY <1>1, <1>2 DEF DeleteFrom

LEMMA DeletionsGood ==
  ASSUME IInv, NEW c \in Clients,
         DeleteUsers(c) \/ DeleteAthletes(c) \/ DeletePerformances(c) \/ Cascade(c)
  PROVE  Good(c)
<1>1. Busy(c)
  BY DEF DeleteUsers, DeleteAthletes, DeletePerformances, Cascade, At
<1>2. Places(c)
  BY <1>1, OpenFacts
<1>3. CASE DeleteUsers(c)
  <2>1. \E op \in {"delete", "purge", "seed"} : Is(c, op, 2)
    BY <1>2, <1>3 DEF Places, DeleteUsers
  <2>2. PICK rows \in SUBSET Visible(c, "user") : DeleteFrom(c, "user", rows)
    BY <1>3 DEF DeleteUsers, UsersLeft
  <2> QED
    BY <1>1, <2>1, <2>2, DeleteFromGood DEF Is, Deleting, Behind, Size
<1>4. CASE DeleteAthletes(c)
  <2>1. Is(c, "purge", 5) \/ Is(c, "seed", 5)
    BY <1>2, <1>4 DEF Places, DeleteAthletes
  <2>2. PICK rows \in SUBSET Visible(c, "athlete") : DeleteFrom(c, "athlete", rows)
    BY <1>4 DEF DeleteAthletes, AthletesLeft
  <2> QED
    BY <1>1, <2>1, <2>2, DeleteFromGood DEF Is, Deleting, Behind, Size
<1>5. CASE DeletePerformances(c)
  <2>1. Is(c, "discard", 2)
    BY <1>2, <1>5 DEF Places, DeletePerformances
  <2>2. PICK rows \in SUBSET Visible(c, "performance") : DeleteFrom(c, "performance", rows)
    BY <1>5 DEF DeletePerformances, PerformancesLeft
  <2> QED
    BY <1>1, <2>1, <2>2, DeleteFromGood DEF Is, Deleting, Behind, Size
<1>6. CASE Cascade(c)
  <2>1. Is(c, "delete", 3) \/ \E op \in {"purge", "seed"} : Is(c, op, 3) \/ Is(c, op, 6)
    BY <1>2, <1>6 DEF Places, Cascade
  <2>2. /\ tx[c].op \in {"delete", "discard", "purge", "seed"} /\ Deleting(tx[c])
        /\ tx[c].op # "discard" /\ ~Behind(tx[c]) /\ tx[c].at < Size[tx[c].op]
        /\ tx[c].op = "seed" => tx[c].at < 7
    BY <2>1 DEF Is, Deleting, Behind, Size
  <2>3. CASE Doomed(c, "athlete") # {}
    <3> DEFINE rows == Doomed(c, "athlete")
    <3>1. rows \in SUBSET Visible(c, "athlete") /\ DeleteFrom(c, "athlete", rows) /\ rows # {}
      BY <1>6, <2>3 DEF Cascade, Doomed
    <3> HIDE DEF rows
    <3> QED
      BY <1>1, <2>2, <3>1, DeleteFromGood
  <2>4. CASE Doomed(c, "athlete") = {}
    <3> DEFINE rows == Doomed(c, "performance")
    <3>1. rows \in SUBSET Visible(c, "performance") /\ DeleteFrom(c, "performance", rows)
      BY <1>6, <2>4 DEF Cascade, Doomed
    <3>2. rows = {} => Doomed(c, "performance") = {}
      OBVIOUS
    <3> HIDE DEF rows
    <3> QED
      BY <1>1, <2>2, <3>1, <3>2, DeleteFromGood
  <2> QED
    BY <2>3, <2>4
<1> QED
  BY <1>3, <1>4, <1>5, <1>6

-----------------------------------------------------------------------------
(* Athletes and results                                                    *)

\* c's transaction is n, and the next statement.
LEMMA Advanced ==
  ASSUME IInv, NEW c \in Clients, NEW n \in Transactions, Advance(c, n), db' = db,
         seq' \in [Numbered -> Nat]
  PROVE  /\ TypeInv' /\ Only(c)
         /\ tx'[c].op = n.op /\ tx'[c].at = n.at + 1 /\ tx'[c].email = n.email
         /\ tx'[c].license = n.license /\ tx'[c].seen = n.seen /\ tx'[c].share = n.share
         /\ tx'[c].ins = n.ins /\ tx'[c].del = n.del
<1>1. TypeInv /\ db' \in RowSets
  BY DEF IInv, TypeInv
<1>2. TypeInv' /\ Only(c) /\ tx'[c] = [n EXCEPT !.at = n.at + 1]
  BY <1>1, Advancing
<1> QED
  BY <1>2 DEF Transactions

LEMMA AddAthleteGood ==
  ASSUME IInv, NEW c \in Clients, AddAthlete(c)
  PROVE  Good(c)
<1> DEFINE row == [id |-> seq["athlete"] + 1, user |-> tx[c].pk, license |-> tx[c].license]
<1>1. Busy(c)
  BY DEF AddAthlete, At
<1>2. /\ Places(c) /\ TypeInv /\ tx[c] \in Transactions /\ Progress(tx[c])
      /\ "athlete" \in Tables /\ "performance" \in Tables \ {"athlete"}
      /\ "athlete" \in Numbered /\ seq["athlete"] \in Nat
  BY <1>1, OpenFacts DEF Tables, Numbered, TypeInv
<1>3. Is(c, "create", 6) \/ Is(c, "seed", 14)
  BY <1>2 DEF Places, AddAthlete
<1>4. row \in Rows("athlete")
  <2>1. tx[c].license \in Plates /\ tx[c].pk \in Nat
    BY <1>2, <1>3 DEF Progress, Is, Transactions
  <2> QED
    BY <1>2, <2>1 DEF Rows, Plates
<1>5. Insert(c, "athlete", row) /\ row.id = seq["athlete"] + 1
  BY DEF AddAthlete
<1> HIDE DEF row
<1>6. SUFFICES ASSUME NEW n \in Transactions,
                      Advance(c, n), db' = db, seq' \in [Numbered -> Nat],
                      seq' = [seq EXCEPT !["athlete"] = @ + 1],
                      n.op = tx[c].op, n.at = tx[c].at, n.email = tx[c].email,
                      n.license = tx[c].license, n.seen = tx[c].seen, n.share = tx[c].share,
                      n.del = tx[c].del,
                      n.ins["athlete"] = tx[c].ins["athlete"] \cup {row},
                      \A u \in Tables \ {"athlete"} : n.ins[u] = tx[c].ins[u]
               PROVE  Good(c)
  BY <1>2, <1>4, <1>5, InsertType
<1>7. /\ TypeInv' /\ Only(c)
      /\ tx'[c].op = n.op /\ tx'[c].at = n.at + 1 /\ tx'[c].email = n.email
      /\ tx'[c].license = n.license /\ tx'[c].seen = n.seen /\ tx'[c].share = n.share
      /\ tx'[c].ins = n.ins /\ tx'[c].del = n.del
  BY <1>6, Advanced
<1>8. seq'["athlete"] = seq["athlete"] + 1
  BY <1>2, <1>6 DEF TypeInv
<1>9. tx[c].ins["athlete"] = {} /\ tx[c].del["athlete"] = {}
  BY <1>2, <1>3 DEF Progress, Is, Deleting
<1>10. /\ tx'[c].ins["athlete"] = {row} /\ tx'[c].ins["performance"] = tx[c].ins["performance"]
       /\ tx'[c].op = tx[c].op /\ tx'[c].at = tx[c].at + 1 /\ tx'[c].share = tx[c].share
       /\ tx'[c].del = tx[c].del /\ tx[c].at \in Nat
  <2>1. tx[c].at \in Nat
    BY <1>2 DEF Transactions
  <2>2. n.ins["athlete"] = {row} /\ n.ins["performance"] = tx[c].ins["performance"]
    BY <1>2, <1>6, <1>9
  <2> QED
    BY <1>6, <1>7, <2>1, <2>2
<1>11. Progress(tx'[c])
  <2>1. tx'[c].op \in Operations /\ tx'[c].at \in 1 .. Len(Program(tx'[c].op))
    <3>1. tx[c].op \in AllOperations /\ tx[c].op \in Operations
      BY <1>1, OpenPlaces DEF IInv
    <3>2. tx'[c].at \in 1 .. Size[tx'[c].op]
      BY <1>3, <1>10 DEF Is, Size
    <3>3. Len(Program(tx'[c].op)) = Size[tx'[c].op]
      BY <1>10, <3>1, Sizes, Zenon
    <3> QED
      BY <1>10, <3>1, <3>2, <3>3
  <2>2. tx'[c].email \in Mails /\ tx'[c].license \in Plates
    BY <1>2, <1>3, <1>6, <1>7 DEF Progress, Is
  <2>3. ~Deleting(tx'[c]) /\ tx'[c].op \in {"create", "seed"} /\ tx'[c].del["athlete"] = {}
        /\ (tx'[c].op = "create" => tx'[c].at = 7) /\ (tx'[c].op = "seed" => tx'[c].at = 15)
    BY <1>3, <1>9, <1>10 DEF Is, Deleting
  <2>4. /\ tx'[c].op = "create" => tx'[c].share = {} /\ tx'[c].ins["performance"] = {}
        /\ \A r \in tx'[c].ins["performance"] :
             r.athlete \in tx'[c].share \/ r \in tx'[c].del["performance"]
    BY <1>2, <1>10 DEF Progress
  <2> QED
    BY <1>10, <2>1, <2>2, <2>3, <2>4 DEF Progress
<1>12. Work(c)
  <2>1. ~Behind(tx'[c])
    BY <1>3, <1>10 DEF Is, Behind
  <2>2. \A a \in tx'[c].ins["athlete"] : a.id <= seq'["athlete"] /\ seq["athlete"] < a.id
    BY <1>2, <1>5, <1>8, <1>10
  <2>3. seq["athlete"] <= seq'["athlete"]
    BY <1>2, <1>8
  <2>4. \A a \in tx'[c].del["athlete"] : FALSE
    BY <1>9, <1>10
  <2> QED
    BY <1>6, <1>9, <1>10, <2>1, <2>2, <2>3, <2>4 DEF Work
<1> QED
  BY <1>7, <1>11, <1>12 DEF Good

LEMMA AddPerformanceGood ==
  ASSUME IInv, NEW c \in Clients, AddPerformance(c)
  PROVE  Good(c)
<1>1. Busy(c)
  BY DEF AddPerformance, At
<1>2. /\ Places(c) /\ TypeInv /\ tx[c] \in Transactions /\ Progress(tx[c])
  BY <1>1, OpenFacts
<1>3. Is(c, "record", 2) \/ Is(c, "seed", 15)
  BY <1>2 DEF Places, AddPerformance
<1>4. CASE Abort(c, "error")
  BY <1>2, <1>4, Aborting
<1>5. CASE ~Abort(c, "error")
  <2>1. PICK a \in Visible(c, "athlete") :
               /\ ~KeyLocked(c, a)
               /\ Advance(c, [tx[c] EXCEPT !.share = @ \cup {a.id},
                                           !.ins["performance"] =
                                             @ \cup {[id |-> seq["performance"] + 1,
                                                      athlete |-> a.id]}])
               /\ seq' = [seq EXCEPT !["performance"] = @ + 1] /\ db' = db
    BY <1>5 DEF AddPerformance
  <2> DEFINE x == tx[c]
             row == [id |-> seq["performance"] + 1, athlete |-> a.id]
             ins == [x.ins EXCEPT !["performance"] = x.ins["performance"] \cup {row}]
             n == [x EXCEPT !.share = x.share \cup {a.id}, !.ins = ins]
  <2>2. a.id \in Nat /\ seq["performance"] \in Nat
    BY <1>2, AthleteIds DEF Visible, TypeInv, Numbered
  <2>3. row \in Rows("performance") /\ row.athlete = a.id
    BY <2>2 DEF Rows
  <2>4. Advance(c, n)
    BY <2>1
  <2> HIDE DEF row
  <2>5. x.ins \in RowSets /\ "performance" \in Tables /\ "athlete" \in Tables
    BY <1>2 DEF Transactions, Tables
  <2>6. x.ins["performance"] \cup {row} \in SUBSET Rows("performance")
    BY <2>3, <2>5, RowsOf
  <2>7. /\ ins = [x.ins EXCEPT !["performance"] = x.ins["performance"] \cup {row}]
        /\ ins["performance"] = x.ins["performance"] \cup {row}
        /\ ins["athlete"] = x.ins["athlete"]
    BY <2>5 DEF RowSets
  <2> HIDE DEF ins
  <2>8. ins \in RowSets
    BY <2>5, <2>6, <2>7, RowsChanged
  <2>9. /\ n \in Transactions /\ n.op = x.op /\ n.at = x.at /\ n.email = x.email
        /\ n.license = x.license /\ n.seen = x.seen /\ n.share = x.share \cup {a.id}
        /\ n.ins = ins /\ n.del = x.del /\ x.at \in Nat
    BY <1>2, <2>2, <2>8 DEF Transactions
  <2> HIDE DEF n
  <2>10. seq' \in [Numbered -> Nat] /\ seq'["athlete"] = seq["athlete"] /\ seq["athlete"] \in Nat
    BY <1>2, <2>1 DEF TypeInv, Numbered
  <2>11. /\ TypeInv' /\ Only(c)
         /\ tx'[c].op = n.op /\ tx'[c].at = n.at + 1 /\ tx'[c].email = n.email
         /\ tx'[c].license = n.license /\ tx'[c].seen = n.seen /\ tx'[c].share = n.share
         /\ tx'[c].ins = n.ins /\ tx'[c].del = n.del
    BY <2>1, <2>4, <2>9, <2>10, Advanced
  <2>12. /\ tx'[c].op = x.op /\ tx'[c].at = x.at + 1 /\ tx'[c].del = x.del
         /\ tx'[c].share = x.share \cup {a.id} /\ tx'[c].ins["athlete"] = x.ins["athlete"]
         /\ tx'[c].ins["performance"] = x.ins["performance"] \cup {row}
         /\ tx'[c].email = x.email /\ tx'[c].license = x.license
    BY <2>7, <2>9, <2>11
  <2> HIDE DEF x
  <2>13. x = tx[c]
    BY DEF x
  <2>14. Progress(tx'[c])
    <3>1. tx'[c].op \in Operations /\ tx'[c].at \in 1 .. Len(Program(tx'[c].op))
      <4>1. x.op \in AllOperations /\ x.op \in Operations
        BY <1>1, <2>13, OpenPlaces DEF IInv
      <4>2. tx'[c].at \in 1 .. Size[tx'[c].op]
        BY <1>3, <2>12, <2>13 DEF Is, Size
      <4>3. Len(Program(tx'[c].op)) = Size[tx'[c].op]
        BY <2>12, <4>1, Sizes, Zenon
      <4> QED
        BY <2>12, <4>1, <4>2, <4>3
    <3>2. ~Deleting(x) /\ ~Deleting(tx'[c]) /\ tx'[c].op \in {"record", "seed"}
          /\ (tx'[c].op = "seed" => tx'[c].at = 16)
      BY <1>3, <2>12, <2>13 DEF Is, Deleting
    <3>3. /\ tx'[c].op = "record" => tx'[c].ins["athlete"] = {}
          /\ tx'[c].del["athlete"] = {}
          /\ \A e, f \in tx'[c].ins["athlete"] : e = f
          /\ tx'[c].op = "seed" => tx'[c].email \in Mails /\ tx'[c].license \in Plates
      BY <1>2, <2>12, <2>13, <3>2 DEF Progress
    <3>4. \A r \in tx'[c].ins["performance"] :
            r.athlete \in tx'[c].share \/ r \in tx'[c].del["performance"]
      BY <1>2, <2>3, <2>12, <2>13 DEF Progress
    <3> QED
      BY <3>1, <3>2, <3>3, <3>4 DEF Progress
  <2>15. Work(c)
    <3>1. ~Behind(tx'[c])
      BY <1>3, <2>12, <2>13 DEF Is, Behind
    <3>2. \A e \in tx'[c].ins["athlete"] :
            /\ e.id <= seq'["athlete"]
            /\ e \in x.ins["athlete"] /\ x.del["athlete"] \subseteq tx'[c].del["athlete"]
      BY <2>10, <2>12, <2>13 DEF IInv, IdsInv
    <3>3. \A i \in tx'[c].share :
            /\ x.ins["athlete"] \subseteq tx'[c].ins["athlete"]
            /\ i \in x.share \/ \E b \in Visible(c, "athlete") : b.id = i /\ ~KeyLocked(c, b)
      BY <2>1, <2>12
    <3> QED
      BY <2>1, <2>10, <2>12, <2>13, <3>1, <3>2, <3>3 DEF Work
  <2> QED
    BY <2>11, <2>14, <2>15 DEF Good
<1> QED
  BY <1>4, <1>5

\* What UPDATE makes of the transaction: at statement 4 or 5, rows of athlete
\* replaced.
LEMMA UpdateGood ==
  ASSUME IInv, NEW c \in Clients, Is(c, "update", 3) \/ Is(c, "update", 4),
         NEW n \in Transactions, Advance(c, n), db' = db, seq' = seq,
         n.op = "update", n.at \in {3, 4}, n.seen \in Rows("athlete"),
         n.share = tx[c].share, n.ins["performance"] = tx[c].ins["performance"],
         n.del["performance"] = tx[c].del["performance"],
         n.at = 3 => n.license \in Plates /\ n.ins["athlete"] = {} /\ n.del["athlete"] = {n.seen},
         n.at = 4 => \A a \in n.del["athlete"] : \E b \in n.ins["athlete"] : b.id = a.id,
         \A a, b \in n.ins["athlete"] : a = b,
         \A a \in n.ins["athlete"] : \E b \in n.del["athlete"] : b.id = a.id,
         \A a \in n.del["athlete"] :
           \/ a \in tx[c].del["athlete"]
           \/ a \in db["athlete"] /\ ~RowLocked(c, "athlete", a),
         n.at = 3 => \A a \in n.del["athlete"] : ~Referenced(c, a)
  PROVE  Good(c)
<1>1. Busy(c)
  BY DEF Is, Busy
<1>2. /\ TypeInv /\ tx[c] \in Transactions /\ Progress(tx[c]) /\ seq["athlete"] \in Nat
      /\ seq' \in [Numbered -> Nat] /\ tx[c].op = "update"
  BY <1>1, OpenFacts DEF TypeInv, Numbered, Is
<1>3. /\ TypeInv' /\ Only(c)
      /\ tx'[c].op = n.op /\ tx'[c].at = n.at + 1 /\ tx'[c].email = n.email
      /\ tx'[c].license = n.license /\ tx'[c].seen = n.seen /\ tx'[c].share = n.share
      /\ tx'[c].ins = n.ins /\ tx'[c].del = n.del
  BY <1>2, Advanced
<1>4. tx[c].share = {} /\ tx[c].ins["performance"] = {}
  BY <1>2 DEF Progress
<1>5. Progress(tx'[c])
  <2>1. tx'[c].op \in Operations /\ tx'[c].at \in 1 .. Len(Program(tx'[c].op))
    <3>1. tx[c].op \in AllOperations /\ tx[c].op \in Operations
      BY <1>1, OpenPlaces DEF IInv
    <3>2. tx'[c].at \in 1 .. Size[tx'[c].op]
      BY <1>3 DEF Size
    <3>3. Len(Program(tx'[c].op)) = Size[tx'[c].op]
      BY <1>2, <1>3, <3>1, Sizes, Zenon
    <3> QED
      BY <1>2, <1>3, <3>1, <3>2, <3>3
  <2> QED
    BY <1>3, <1>4, <2>1 DEF Progress, Deleting
<1>6. \A a \in n.del["athlete"] : a \in db["athlete"]
  BY DEF IInv, LocksInv
<1>7. \A a \in n.ins["athlete"] : a.id <= seq["athlete"]
  BY <1>6 DEF IInv, IdsInv
<1>8. Work(c)
  <2>1. ~Behind(tx'[c])
    BY <1>3 DEF Behind
  <2>2. \A t \in {"athlete", "performance"} : \A r \in tx'[c].del[t] :
          r \in tx[c].del[t] \/ (r \in db[t] /\ ~RowLocked(c, t, r))
    BY <1>3
  <2>3. \A a \in tx'[c].ins["athlete"] :
          a.id <= seq'["athlete"] /\ \E b \in tx'[c].del["athlete"] : b.id = a.id
    BY <1>3, <1>7
  <2>4. \A i \in tx'[c].share : FALSE
    BY <1>3, <1>4
  <2>5. \A a \in tx'[c].del["athlete"] :
          (\E b \in tx'[c].ins["athlete"] : b.id = a.id) \/ ~Referenced(c, a)
    BY <1>3
  <2> QED
    BY <1>2, <2>1, <2>2, <2>3, <2>4, <2>5 DEF Work
<1> QED
  BY <1>3, <1>5, <1>8 DEF Good

LEMMA LockAthleteGood ==
  ASSUME IInv, NEW c \in Clients, LockAthlete(c)
  PROVE  Good(c)
<1> DEFINE x == tx[c]
<1>1. Busy(c)
  BY DEF LockAthlete, At
<1>2. Places(c) /\ TypeInv /\ x \in Transactions /\ Progress(x)
      /\ x.ins \in RowSets /\ x.del \in RowSets
      /\ "athlete" \in Tables /\ "performance" \in Tables
  BY <1>1, OpenFacts DEF Transactions, Tables
<1>3. Is(c, "update", 3)
  BY <1>2 DEF Places, LockAthlete
<1>4. /\ x.ins["athlete"] = {} /\ x.del["athlete"] = {} /\ x.seen \in Rows("athlete")
      /\ x.op = "update" /\ x.at = 3 /\ x.license \in Plates \cup {None}
  BY <1>2, <1>3 DEF Progress, Is, Transactions
<1>5. CASE Skip(c)
  <2> DEFINE n == [x EXCEPT !.at = x.at + 1]
  <2>1. Proceed(c, n)
    BY <1>5 DEF Skip
  <2>2. /\ n \in Transactions /\ n.op = x.op /\ n.at = x.at + 1 /\ n.seen = x.seen
        /\ n.share = x.share /\ n.ins = x.ins /\ n.del = x.del
    BY <1>2, <1>4 DEF Transactions
  <2> HIDE DEF n
  <2> QED
    BY <1>3, <1>4, <2>1, <2>2, UpdateGood DEF Proceed
<1>6. ASSUME NEW a \in Visible(c, "athlete"), ~RowLocked(c, "athlete", a),
             \/ Proceed(c, [x EXCEPT !.at = @ + 1, !.del["athlete"] = {a}, !.ins["athlete"] = {a}])
             \/ /\ x.license \notin {None, a.license} /\ ~Referenced(c, a)
                /\ Proceed(c, [x EXCEPT !.seen = a, !.del["athlete"] = {a}])
      PROVE  Good(c)
  <2>1. a \in db["athlete"]
    BY <1>4, <1>6 DEF Visible
  <2>2. a \in Rows("athlete")
    BY <1>2, <2>1, RowsOf DEF TypeInv, Tables
  <2> DEFINE del == [x.del EXCEPT !["athlete"] = {a}]
  <2>3. CASE Proceed(c, [x EXCEPT !.at = @ + 1, !.del["athlete"] = {a}, !.ins["athlete"] = {a}])
    <3> DEFINE ins == [x.ins EXCEPT !["athlete"] = {a}]
               n == [x EXCEPT !.at = x.at + 1, !.del = del, !.ins = ins]
    <3>1. Proceed(c, n)
      BY <2>3
    <3>2. /\ ins = [x.ins EXCEPT !["athlete"] = {a}] /\ del = [x.del EXCEPT !["athlete"] = {a}]
          /\ {a} \in SUBSET Rows("athlete")
      BY <2>2
    <3>3. /\ ins["athlete"] = {a} /\ ins["performance"] = x.ins["performance"]
          /\ del["athlete"] = {a} /\ del["performance"] = x.del["performance"]
      BY <1>2 DEF RowSets
    <3> HIDE DEF ins, del, n
    <3>5. ins \in RowSets /\ del \in RowSets
      BY <1>2, <3>2, RowsChanged
    <3>4. /\ n \in Transactions /\ n.op = x.op /\ n.at = x.at + 1 /\ n.seen = x.seen
          /\ n.share = x.share /\ n.ins = ins /\ n.del = del
      <4>1. x.at + 1 \in Nat
        BY <1>4
      <4> HIDE DEF x
      <4> QED
        BY <1>2, <3>5, <4>1 DEF Transactions, n
    <3> HIDE DEF n
    <3> QED
      BY <1>3, <1>4, <1>6, <2>1, <3>1, <3>3, <3>4, UpdateGood DEF Proceed
  <2>4. CASE /\ x.license \notin {None, a.license} /\ ~Referenced(c, a)
             /\ Proceed(c, [x EXCEPT !.seen = a, !.del["athlete"] = {a}])
    <3> DEFINE n == [x EXCEPT !.seen = a, !.del = del]
    <3>1. Proceed(c, n)
      BY <2>4
    <3>2. del = [x.del EXCEPT !["athlete"] = {a}] /\ {a} \in SUBSET Rows("athlete")
      BY <2>2
    <3>3. del["athlete"] = {a} /\ del["performance"] = x.del["performance"]
      BY <1>2 DEF RowSets
    <3> HIDE DEF del, n
    <3>5. del \in RowSets
      BY <1>2, <3>2, RowsChanged
    <3>4. /\ n \in Transactions /\ n.op = x.op /\ n.at = x.at /\ n.seen = a
          /\ n.license = x.license /\ n.share = x.share /\ n.ins = x.ins /\ n.del = del
      BY <1>2, <2>2, <3>5 DEF Transactions, n
    <3> HIDE DEF n
    <3> QED
      BY <1>3, <1>4, <1>6, <2>1, <2>2, <2>4, <3>1, <3>3, <3>4, UpdateGood DEF Proceed
  <2> QED
    BY <1>6, <2>3, <2>4
<1> QED
  BY <1>5, <1>6 DEF LockAthlete

LEMMA WriteAthleteGood ==
  ASSUME IInv, NEW c \in Clients, WriteAthlete(c)
  PROVE  Good(c)
<1> DEFINE x == tx[c]
           row == [x.seen EXCEPT !.license = x.license]
<1>1. Busy(c)
  BY DEF WriteAthlete, At
<1>2. Places(c) /\ TypeInv /\ x \in Transactions /\ Progress(x)
      /\ x.ins \in RowSets /\ x.del \in RowSets
      /\ "athlete" \in Tables /\ "performance" \in Tables
  BY <1>1, OpenFacts DEF Transactions, Tables
<1>3. Is(c, "update", 4)
  BY <1>2 DEF Places, WriteAthlete
<1>4. /\ x.ins["athlete"] = {} /\ x.del["athlete"] = {x.seen} /\ x.seen \in Rows("athlete")
      /\ x.op = "update" /\ x.at = 4 /\ x.license \in Plates
  BY <1>2, <1>3 DEF Progress, Is
<1>5. row \in Rows("athlete") /\ row.id = x.seen.id
  BY <1>4 DEF Rows, Plates
<1>6. CASE Abort(c, "error")
  BY <1>2, <1>6, Aborting
<1>7. CASE Proceed(c, [x EXCEPT !.ins["athlete"] = {row}])
  <2> HIDE DEF row
  <2> DEFINE ins == [x.ins EXCEPT !["athlete"] = {row}]
             n == [x EXCEPT !.ins = ins]
  <2>1. Proceed(c, n)
    BY <1>7
  <2>2. ins = [x.ins EXCEPT !["athlete"] = {row}] /\ {row} \in SUBSET Rows("athlete")
    BY <1>5
  <2>3. ins["athlete"] = {row} /\ ins["performance"] = x.ins["performance"]
    BY <1>2 DEF RowSets
  <2> HIDE DEF ins, n
  <2>5. ins \in RowSets
    BY <1>2, <2>2, RowsChanged
  <2>4. /\ n \in Transactions /\ n.op = x.op /\ n.at = x.at /\ n.seen = x.seen
        /\ n.share = x.share /\ n.ins = ins /\ n.del = x.del
    BY <1>2, <2>5 DEF Transactions, n
  <2> HIDE DEF n
  <2> QED
    BY <1>3, <1>4, <1>5, <2>1, <2>3, <2>4, UpdateGood DEF Proceed
<1> QED
  BY <1>6, <1>7 DEF WriteAthlete

LEMMA LockPerformanceGood ==
  ASSUME IInv, NEW c \in Clients, LockPerformance(c)
  PROVE  Good(c)
<1> DEFINE x == tx[c]
<1>1. Busy(c)
  BY DEF LockPerformance, At
<1>2. /\ Places(c) /\ TypeInv /\ x \in Transactions /\ Progress(x)
      /\ x.ins \in RowSets /\ x.del \in RowSets
      /\ seq' = seq => seq' \in [Numbered -> Nat] /\ seq'["athlete"] = seq["athlete"]
      /\ "athlete" \in Tables /\ "performance" \in Tables
  BY <1>1, OpenFacts DEF Transactions, Tables
<1>3. Is(c, "amend", 2)
  BY <1>2 DEF Places, LockPerformance
<1>4. CASE Proceed(c, x)
  <2>1. Calm(c, x)
    BY <1>2, <1>3 DEF Size, Calm, Is
  <2> QED
    BY <1>1, <1>2, <1>4, <2>1, CalmGood DEF Proceed
<1>5. ASSUME NEW r \in Visible(c, "performance"), Overwrite(c, "performance", r, r)
      PROVE  Good(c)
  <2> DEFINE ins == [x.ins EXCEPT !["performance"] = x.ins["performance"] \cup {r}]
             del == [x.del EXCEPT !["performance"] = x.del["performance"] \cup {r}]
             n == [x EXCEPT !.del = del, !.ins = ins]
  <2>1. /\ x.op = "amend" /\ x.at = 2 /\ x.share = {} /\ ~Deleting(x)
        /\ x.ins["athlete"] = {} /\ x.del["athlete"] = {} /\ x.ins["performance"] = {}
    BY <1>2, <1>3 DEF Progress, Is, Deleting
  <2>2. r \in db["performance"] /\ r \in Rows("performance")
    <3>1. r \in db["performance"]
      BY <2>1 DEF Visible
    <3> QED
      BY <1>2, <3>1, RowsOf DEF TypeInv
  <2>3. Proceed(c, n) /\ ~RowLocked(c, "performance", r)
    BY <1>5 DEF Overwrite
  <2>4. /\ ins = [x.ins EXCEPT !["performance"] = x.ins["performance"] \cup {r}]
        /\ del = [x.del EXCEPT !["performance"] = x.del["performance"] \cup {r}]
    OBVIOUS
  <2>5. /\ ins["performance"] = {r} /\ ins["athlete"] = {}
        /\ del["performance"] = x.del["performance"] \cup {r} /\ del["athlete"] = {}
    BY <1>2, <2>1 DEF RowSets
  <2>6. /\ x.ins["performance"] \cup {r} \in SUBSET Rows("performance")
        /\ x.del["performance"] \cup {r} \in SUBSET Rows("performance")
    BY <1>2, <2>2, RowsOf
  <2> HIDE DEF ins, del, n
  <2>7. ins \in RowSets /\ del \in RowSets
    BY <1>2, <2>4, <2>6, RowsChanged
  <2>8. /\ n \in Transactions /\ n.op = x.op /\ n.at = x.at /\ n.share = x.share
        /\ n.email = x.email /\ n.license = x.license /\ n.seen = x.seen
        /\ n.ins = ins /\ n.del = del
    <3> HIDE DEF x
    <3> QED
      BY <1>2, <2>7 DEF Transactions, n
  <2>9. db' = db /\ seq' = seq /\ seq' \in [Numbered -> Nat] /\ Advance(c, n)
    BY <1>2, <2>3 DEF Proceed
  <2>10. /\ TypeInv' /\ Only(c)
         /\ tx'[c].op = n.op /\ tx'[c].at = n.at + 1 /\ tx'[c].email = n.email
         /\ tx'[c].license = n.license /\ tx'[c].seen = n.seen /\ tx'[c].share = n.share
         /\ tx'[c].ins = n.ins /\ tx'[c].del = n.del
    BY <2>8, <2>9, Advanced
  <2>11. /\ tx'[c].op = "amend" /\ tx'[c].at = 3 /\ tx'[c].share = {}
         /\ tx'[c].ins["athlete"] = {} /\ tx'[c].del["athlete"] = {}
         /\ tx'[c].ins["performance"] = {r}
         /\ tx'[c].del["performance"] = x.del["performance"] \cup {r}
    BY <2>1, <2>5, <2>8, <2>10
  <2>12. Progress(tx'[c])
    <3>1. tx'[c].op \in Operations /\ tx'[c].at \in 1 .. Len(Program(tx'[c].op))
      <4>1. x.op \in AllOperations /\ x.op \in Operations
        BY <1>1, OpenPlaces DEF IInv
      <4>2. tx'[c].at \in 1 .. Size[tx'[c].op]
        BY <2>11 DEF Size
      <4>3. Len(Program(tx'[c].op)) = Size[tx'[c].op]
        BY <2>1, <2>11, <4>1, Sizes, Zenon
      <4> QED
        BY <2>1, <2>11, <4>1, <4>2, <4>3
    <3> QED
      BY <2>11, <3>1 DEF Progress, Deleting
  <2>13. Work(c)
    <3>1. ~Behind(tx'[c])
      BY <2>11 DEF Behind
    <3>2. \A t \in {"athlete", "performance"} : \A s \in tx'[c].del[t] :
            s \in tx[c].del[t] \/ (s \in db[t] /\ ~RowLocked(c, t, s))
      BY <2>2, <2>3, <2>11
    <3>3. seq["athlete"] <= seq'["athlete"]
      BY <1>2, <2>9 DEF TypeInv, Numbered
    <3> QED
      BY <2>9, <2>11, <3>1, <3>2, <3>3 DEF Work
  <2> QED
    BY <2>10, <2>12, <2>13 DEF Good
<1> QED
  BY <1>4, <1>5 DEF LockPerformance

-----------------------------------------------------------------------------
(* The theorems                                                            *)

LEMMA FailGood ==
  ASSUME IInv, NEW c \in Clients, Fail(c) \/ Deadlocked(c)
  PROVE  Good(c)
  BY Aborting DEF Fail, Deadlocked, IInv

\* Every step keeps the invariant.
LEMMA NextInv == IInv /\ [Next]_vars => IInv'
<1> SUFFICES ASSUME IInv, [Next]_vars PROVE IInv'
  OBVIOUS
<1>1. CASE UNCHANGED vars
  <2>1. tx' = tx /\ db' = db /\ seq' = seq /\ answer' = answer
    BY <1>1 DEF vars
  <2> QED
    BY <2>1 DEF IInv, TypeInv, ProgressInv, IdsInv, LocksInv, ShareInv, CascadeInv,
                NoOrphanResults, Doomed, Visible, Gone
<1>2. ASSUME NEW c \in Clients, NEW op \in Operations, Start(c, op) PROVE IInv'
  BY <1>2, StartGood, WorkKeeps
<1>3. ASSUME NEW c \in Clients, Fail(c) \/ Deadlocked(c) PROVE IInv'
  BY <1>3, FailGood, WorkKeeps
<1>4. ASSUME NEW c \in Clients, Step(c) PROVE IInv'
  <2>1. CASE \/ FreeEmail(c) \/ FreeLicense(c) \/ GetUserRole(c) \/ GetAdminRole(c)
             \/ FindAthlete(c) \/ FindPerformance(c) \/ ScanUsers(c) \/ ScanAthletes(c)
    BY <2>1, QueriesGood, WorkKeeps
  <2>2. CASE AddUserRole(c) \/ AddAdminRole(c) \/ AddUser(c) \/ AddAdmin(c)
    BY <2>2, RolesAndAccountsGood, WorkKeeps
  <2>3. CASE AddAthlete(c)
    BY <2>3, AddAthleteGood, WorkKeeps
  <2>4. CASE AddPerformance(c)
    BY <2>4, AddPerformanceGood, WorkKeeps
  <2>5. CASE LockAthlete(c)
    BY <2>5, LockAthleteGood, WorkKeeps
  <2>6. CASE WriteAthlete(c)
    BY <2>6, WriteAthleteGood, WorkKeeps
  <2>7. CASE WriteUser(c)
    BY <2>7, WriteUserGood, WorkKeeps
  <2>8. CASE LockPerformance(c)
    BY <2>8, LockPerformanceGood, WorkKeeps
  <2>9. CASE DeleteUsers(c) \/ DeleteAthletes(c) \/ DeletePerformances(c) \/ Cascade(c)
    BY <2>9, DeletionsGood, WorkKeeps
  <2>10. CASE Commit(c)
    BY <2>10, CommitKeeps
  <2> QED
    BY <1>4, <2>1, <2>2, <2>3, <2>4, <2>5, <2>6, <2>7, <2>8, <2>9, <2>10 DEF Step
<1> QED
  BY <1>1, <1>2, <1>3, <1>4 DEF Next

\* The strengthening holds in every state that the requests, the command and
\* the seeder can reach.
THEOREM Invariance == Spec => []IInv
  BY InitInv, NextInv, PTL DEF Spec

\* Type invariant: rows, requests and answers are of their kinds, and every
\* request is at a statement of its own program.
THEOREM RegistryType == Spec => []TypeOK
<1>1. IInv => TypeOK
  <2> SUFFICES ASSUME IInv PROVE TypeOK
    OBVIOUS
  <2>1. TypeInv /\ ProgressInv
    BY DEF IInv
  <2>2. DOMAIN db = Tables /\ \A t \in Tables : \A r \in db[t] : r \in Rows(t)
    BY <2>1 DEF TypeInv, RowSets
  <2>3. ASSUME NEW c \in Clients
        PROVE  /\ tx[c].op \in Operations \cup {"none"}
               /\ Busy(c) => tx[c].at \in 1 .. Len(Program(tx[c].op))
               /\ \A t \in Tables : \A r \in tx[c].ins[t] \cup tx[c].del[t] : r \in Rows(t)
    <3>1. tx[c].ins \in RowSets /\ tx[c].del \in RowSets
      BY <2>1 DEF TypeInv, Transactions
    <3>2. \A t \in Tables : tx[c].ins[t] \cup tx[c].del[t] \subseteq Rows(t)
      BY <3>1 DEF RowSets
    <3>3. tx[c].op # "none" =>
            tx[c].op \in Operations /\ tx[c].at \in 1 .. Len(Program(tx[c].op))
      BY <2>1 DEF ProgressInv, Progress
    <3> QED
      BY <3>2, <3>3 DEF Busy
  <2> QED
    BY <2>1, <2>2, <2>3 DEF TypeOK, TypeInv
<1> QED
  BY <1>1, Invariance, PTL

\* A result recorded while its athlete is being deleted does not survive the
\* athlete, however many requests overlap: whoever adds it holds the athlete,
\* and whoever deletes the athlete cascades to every result committed by then.
THEOREM ResultsHaveAthletes == Spec => []NoOrphanResults
<1>1. IInv => NoOrphanResults
  BY DEF IInv
<1> QED
  BY <1>1, Invariance, PTL

=============================================================================
