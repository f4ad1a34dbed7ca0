--------------------------- MODULE SessionsProofs ---------------------------
(***************************************************************************)
(* Theorems about Sessions, for every value of its constants: any number   *)
(* of requests, administrators, browsers, seconds and commits.             *)
(***************************************************************************)
EXTENDS Sessions, FiniteSetTheorems, TLAPS

-----------------------------------------------------------------------------
(* Type correctness                                                        *)

\* The fields of the locals of a request.
LEMMA LocalsFields ==
  ASSUME NEW x \in Locals
  PROVE  /\ x.op \in Ops /\ x.fam \in Families
         /\ x.held \in [Families -> OptToken] /\ x.minted \in [Families -> OptToken]
         /\ x.found \in SUBSET Token /\ x.epoch \in Commits
  BY DEF Locals

\* One field of the locals may be replaced by a value of its type.
LEMMA LocalsUpdate ==
  ASSUME NEW x \in Locals
  PROVE  /\ \A o \in Ops : [x EXCEPT !.op = o] \in Locals
         /\ \A g \in Families : [x EXCEPT !.fam = g] \in Locals
         /\ \A h \in [Families -> OptToken] : [x EXCEPT !.held = h] \in Locals
         /\ \A m \in [Families -> OptToken] : [x EXCEPT !.minted = m] \in Locals
         /\ \A k \in SUBSET Token : [x EXCEPT !.found = k] \in Locals
         /\ \A e \in Commits : [x EXCEPT !.epoch = e] \in Locals
  BY DEF Locals

\* The locals of a request that is not running.
LEMMA NoLocalsType == NoLocals \in Locals
  BY SessionsAssumption DEF NoLocals, Locals, Ops, Families, OptToken, Token, Commits

\* Finishing a request keeps the types of pc and loc.
LEMMA FinishType ==
  ASSUME TypeOK, NEW p \in Procs, Finish(p)
  PROVE  pc' \in [Procs -> Steps] /\ loc' \in [Procs -> Locals]
  BY NoLocalsType DEF TypeOK, Finish, Goto, Steps

\* Every step keeps every variable in its type.
LEMMA TypeStep == TypeOK /\ ControlInv /\ [Next]_vars => TypeOK'
<1> SUFFICES ASSUME TypeOK, ControlInv, [Next]_vars PROVE TypeOK'
  OBVIOUS
<1>0. ASSUME NEW p \in Procs PROVE loc[p] \in Locals
  BY <1>0 DEF TypeOK
<1>1. ASSUME NEW r \in Requests, LoginStart(r) PROVE TypeOK'
  <2>1. [NoLocals EXCEPT !.op = "login", !.epoch = account.commits] \in Locals
    BY NoLocalsType, LocalsUpdate DEF TypeOK, Ops
  <2> QED
    BY <1>1, <2>1 DEF TypeOK, LoginStart, Goto, Procs, Steps, store, client, history
<1>2. ASSUME NEW r \in Requests, NEW op \in {"me", "refresh", "logout"}, CallStart(r, op)
      PROVE  TypeOK'
  <2> DEFINE h == IF op \in {"refresh", "logout"}
                  THEN [access |-> bearer[BrowserOf[r]], refresh |-> cookie[BrowserOf[r]]]
                  ELSE NoLocals.held
  <2>1. h \in [Families -> OptToken]
    BY NoLocalsType, LocalsFields, SessionsAssumption DEF TypeOK, Families
  <2>2. [NoLocals EXCEPT !.op = op, !.held = h] \in Locals
    <3>1. [NoLocals EXCEPT !.op = op] \in Locals
      BY NoLocalsType, LocalsUpdate DEF Ops
    <3> QED
      BY <2>1, <3>1, LocalsUpdate
  <2>3. loc' = [loc EXCEPT ![r] = [NoLocals EXCEPT !.op = op, !.held = h]]
    BY <1>2 DEF CallStart
  <2> QED
    BY <1>2, <2>2, <2>3 DEF TypeOK, CallStart, Goto, Procs, Steps, store, client, history
<1>3. ASSUME NEW r \in Requests, IdentityHit(r) PROVE TypeOK'
  <2>1. pc' \in [Procs -> Steps]
    BY <1>3 DEF TypeOK, IdentityHit, Handler, Goto, Procs, Steps
  <2> QED
    BY <1>3, <2>1 DEF TypeOK, IdentityHit, store, client, history
<1>4. ASSUME NEW r \in Requests, IdentityMiss(r) PROVE TypeOK'
  BY <1>4 DEF TypeOK, IdentityMiss, Goto, Procs, Steps, store, client, history
<1>5. ASSUME NEW r \in Requests, LoadUser(r) PROVE TypeOK'
  <2>1. CASE ~Enabled
    BY <1>5, <2>1, FinishType DEF TypeOK, LoadUser, Procs, store, client, history
  <2>2. CASE Enabled
    <3>1. [loc[r] EXCEPT !.epoch = account.commits] \in Locals
      BY <1>0, LocalsUpdate DEF TypeOK, Procs
    <3> QED
      BY <1>5, <2>2, <3>1 DEF TypeOK, LoadUser, Goto, Procs, Steps, store, client, history
  <2> QED
    BY <2>1, <2>2
<1>6. ASSUME NEW r \in Requests, CacheUser(r) PROVE TypeOK'
  <2>1. loc[r].epoch \in Commits
    BY <1>0, LocalsFields DEF Procs
  <2>2. pc' \in [Procs -> Steps]
    BY <1>6 DEF TypeOK, CacheUser, Handler, Goto, Procs, Steps
  <2>3. late' \in [Stores -> SUBSET (Token \cup Commits)]
    BY <1>6, <2>1 DEF TypeOK, CacheUser, NoteLate
  <2>4. [loc[r] EXCEPT !.epoch = 0] \in Locals
    BY <1>0, SessionsAssumption, LocalsUpdate DEF TypeOK, Procs, Commits
  <2> QED
    BY <1>6, <2>1, <2>2, <2>3, <2>4 DEF TypeOK, CacheUser, client
<1>7. ASSUME NEW r \in Requests, Serve(r) PROVE TypeOK'
  BY <1>7, FinishType DEF TypeOK, Serve, Procs, store, client, history
<1>9. ASSUME NEW r \in Requests, RefreshRead(r) PROVE TypeOK'
  <2>1. [loc[r] EXCEPT !.epoch = account.commits] \in Locals
    BY <1>0, LocalsUpdate DEF TypeOK, Procs
  <2>2. CASE loc[r].held["refresh"] # None /\ Enabled
    BY <1>9, <2>1, <2>2 DEF TypeOK, RefreshRead, Goto, Procs, Steps, store, client, history
  <2>3. CASE ~(loc[r].held["refresh"] # None /\ Enabled)
    BY <1>9, <2>3, FinishType DEF TypeOK, RefreshRead, Procs, store, client, history
  <2> QED
    BY <2>2, <2>3
<1>10. ASSUME NEW r \in Requests, RefreshCheck(r) PROVE TypeOK'
  BY <1>10, FinishType DEF TypeOK, RefreshCheck, Goto, Procs, Steps, store, client, history
<1>11. ASSUME NEW r \in Requests, DropHeld(r) PROVE TypeOK'
  <2>1. [loc[r] EXCEPT !.fam = "refresh"] \in Locals
    BY <1>0, LocalsUpdate DEF Procs, Families
  <2>2. loc' \in [Procs -> Locals] /\ pc' \in [Procs -> Steps]
    BY <1>11, <2>1 DEF TypeOK, DropHeld, Goto, Procs, Steps
  <2> QED
    BY <1>11, <2>2 DEF TypeOK, DropHeld, client, history
<1>12. ASSUME NEW r \in Requests, DropIdentity(r) PROVE TypeOK'
  BY <1>12, FinishType DEF TypeOK, DropIdentity, Procs, OptToken, history
<1>13. ASSUME NEW r \in Requests, Mint(r) PROVE TypeOK'
  <2> DEFINE m == [loc[r].minted EXCEPT ![loc[r].fam] = now]
  <2>1. m \in [Families -> OptToken]
    BY <1>0, LocalsFields DEF TypeOK, Procs, OptToken
  <2>2. [loc[r] EXCEPT !.minted = m] \in Locals
    BY <1>0, <2>1, LocalsUpdate DEF Procs
  <2>3. loc' = [loc EXCEPT ![r] = [loc[r] EXCEPT !.minted = m]]
    BY <1>13 DEF Mint
  <2> QED
    BY <1>13, <2>2, <2>3 DEF TypeOK, Mint, Goto, Procs, Steps, store, client, history
<1>14. ASSUME NEW p \in Procs, Scan(p) PROVE TypeOK'
  <2>1. [loc[p] EXCEPT !.found = live[loc[p].fam]] \in Locals
    BY <1>0, LocalsFields, LocalsUpdate DEF TypeOK
  <2> QED
    BY <1>14, <2>1 DEF TypeOK, Scan, Goto, Steps, store, client, history
<1>15. ASSUME NEW p \in Procs, Sweep(p) PROVE TypeOK'
  <2>1. [loc[p] EXCEPT !.found = {}] \in Locals
    BY <1>0, LocalsUpdate
  <2>2. [loc[p] EXCEPT !.found = {}, !.fam = "refresh"] \in Locals
    BY <2>1, LocalsUpdate DEF Families
  <2>3. loc' \in [Procs -> Locals]
    BY <1>15, <2>1, <2>2 DEF TypeOK, Sweep, SweepNext
  <2>4. pc' \in [Procs -> Steps]
    BY <1>15 DEF TypeOK, Sweep, SweepNext, Goto, Steps
  <2>5. live' \in [Families -> SUBSET Token]
    BY <1>15 DEF TypeOK, Sweep, SweepKeys
  <2>6. swept' \in SUBSET Stores
    BY <1>0, <1>15, LocalsFields DEF TypeOK, Sweep, NoteSwept, Stores
  <2> QED
    BY <1>15, <2>3, <2>4, <2>5, <2>6 DEF TypeOK, Sweep, client
<1>16. ASSUME NEW r \in Requests, Store(r) PROVE TypeOK'
  <2>1. loc[r].fam \in Families /\ loc[r].minted[loc[r].fam] \in Token
    BY <1>0, <1>16, LocalsFields DEF Procs, Store, ControlInv, OptToken
  <2>2. /\ [loc[r] EXCEPT !.fam = "refresh"] \in Locals
        /\ [loc[r] EXCEPT !.fam = "access"] \in Locals
    BY <1>0, LocalsUpdate DEF Procs, Families
  <2>3. loc' \in [Procs -> Locals] /\ pc' \in [Procs -> Steps]
    BY <1>16, <2>2 DEF TypeOK, Store, Goto, Procs, Steps
  <2>4. stored' \in [Requests -> [Families -> OptToken]]
    BY <1>16, <2>1 DEF TypeOK, Store, NoteStored, OptToken
  <2>5. live' \in [Families -> SUBSET Token]
    BY <1>16, <2>1 DEF TypeOK, Store
  <2>6. late' \in [Stores -> SUBSET (Token \cup Commits)]
    BY <1>16, <2>1 DEF TypeOK, Store, NoteLate
  <2> QED
    BY <1>16, <2>3, <2>4, <2>5, <2>6 DEF TypeOK, Store, client
<1>17. ASSUME NEW r \in Requests, Answer(r) PROVE TypeOK'
  <2>1. loc[r].minted \in [Families -> OptToken]
    BY <1>0, LocalsFields DEF Procs
  <2> QED
    BY <1>17, <2>1, FinishType DEF TypeOK, Answer, Procs, Families, store, client, history
<1>18. ASSUME NEW a \in Admins, NEW s \in {"enabled", "disabled", "deleted"}, Commit(a, s)
       PROVE  TypeOK'
  <2>1. account.commits + 1 \in Commits
    BY <1>18, SessionsAssumption DEF TypeOK, Commit, Commits
  <2>2. [NoLocals EXCEPT !.op = "admin", !.epoch = account.commits + 1] \in Locals
    BY <2>1, NoLocalsType, LocalsUpdate DEF Ops
  <2>3. account' \in [state : {"enabled", "disabled", "deleted"}, commits : Commits]
    BY <1>18, <2>1 DEF TypeOK, Commit
  <2> QED
    BY <1>18, <2>2, <2>3 DEF TypeOK, Commit, Goto, Procs, Steps, store, client
<1>19. ASSUME NEW a \in Admins, ScanIdentity(a) PROVE TypeOK'
  <2>1. loc' \in [Procs -> Locals] /\ pc' \in [Procs -> Steps]
    BY <1>19, FinishType DEF TypeOK, ScanIdentity, Goto, Procs, Steps
  <2> QED
    BY <1>19, <2>1 DEF TypeOK, ScanIdentity, NoteSwept, Stores, store, client
<1>20. ASSUME NEW a \in Admins, SweepIdentity(a) PROVE TypeOK'
  BY <1>20, FinishType DEF TypeOK, SweepIdentity, NoteSwept, Procs, Stores, client
<1>21. ASSUME NEW p \in Procs, Fail(p) PROVE TypeOK'
  BY <1>21, FinishType DEF TypeOK, Fail, store, client, history
<1>22. ASSUME Tick PROVE TypeOK'
  BY <1>22, SessionsAssumption DEF TypeOK, Tick, Token, store, client, history
<1>23. ASSUME Expire PROVE TypeOK'
  BY <1>23 DEF TypeOK, Expire, ExpireIdentity, ExpireToken, client, history
<1>24. CASE UNCHANGED vars
  BY <1>24 DEF TypeOK, vars
<1> QED
  BY <1>1, <1>2, <1>3, <1>4, <1>5, <1>6, <1>7, <1>9, <1>10, <1>11, <1>12, <1>13,
     <1>14, <1>15, <1>16, <1>17, <1>18, <1>19, <1>20, <1>21, <1>22, <1>23, <1>24
     DEF Next, Start, RequestStep, AdminStep, SetStatus, DeleteAthlete, Procs

-----------------------------------------------------------------------------
(* What a step leaves alone                                                *)

\* A step of a client's request touches no other request, no administrator's
\* bookkeeping and no row.
LEMMA RequestFrame ==
  ASSUME TypeOK, NEW r \in Requests, Start(r) \/ RequestStep(r)
  PROVE  /\ \A p \in Procs \ {r} : pc'[p] = pc[p] /\ loc'[p] = loc[p]
         /\ Enabled' = Enabled /\ account'.commits = account.commits
         /\ swept' = swept
<1>1. r \notin Admins
  BY SessionsAssumption
<1>2. ASSUME LoginStart(r) \/ (\E op \in {"me", "refresh", "logout"} : CallStart(r, op))
             \/ IdentityHit(r) \/ IdentityMiss(r) \/ LoadUser(r) \/ CacheUser(r)
      PROVE  /\ \A p \in Procs \ {r} : pc'[p] = pc[p] /\ loc'[p] = loc[p]
             /\ account' = account /\ swept' = swept
  BY <1>2 DEF TypeOK, LoginStart, CallStart, IdentityHit, IdentityMiss, LoadUser, CacheUser,
              Goto, Finish, history
<1>3. ASSUME Serve(r) \/ RefreshRead(r) \/ RefreshCheck(r) \/ DropHeld(r) \/ DropIdentity(r)
             \/ Mint(r) \/ Scan(r) \/ Store(r)
      PROVE  /\ \A p \in Procs \ {r} : pc'[p] = pc[p] /\ loc'[p] = loc[p]
             /\ account' = account /\ swept' = swept
  BY <1>3 DEF TypeOK, Serve, RefreshRead, RefreshCheck, DropHeld, DropIdentity, Mint, Scan,
              Store, Goto, Finish, history
<1>4. ASSUME Sweep(r)
      PROVE  /\ \A p \in Procs \ {r} : pc'[p] = pc[p] /\ loc'[p] = loc[p]
             /\ account' = account /\ swept' = swept
  BY <1>1, <1>4 DEF TypeOK, Sweep, SweepNext, NoteSwept, Goto
<1>5. ASSUME Answer(r)
      PROVE  /\ \A p \in Procs \ {r} : pc'[p] = pc[p] /\ loc'[p] = loc[p]
             /\ account' = account /\ swept' = swept
  BY <1>5 DEF TypeOK, Answer, Goto, Finish, history
<1> QED
  BY <1>2, <1>3, <1>4, <1>5 DEF Start, RequestStep, Enabled

\* A step of an administrator's request after its commit touches no other
\* request and no row, and writes nothing.
LEMMA AdminFrame ==
  ASSUME TypeOK, NEW a \in Admins, AdminStep(a)
  PROVE  /\ \A p \in Procs \ {a} : pc'[p] = pc[p] /\ loc'[p] = loc[p]
         /\ account' = account /\ late' = late /\ stored' = stored
         /\ identity' \in {identity, None}
         /\ \A f \in Families : live'[f] \subseteq live[f]
<1>1. CASE Scan(a)
  BY <1>1 DEF TypeOK, Scan, Goto, store, history
<1>2. CASE Sweep(a)
  BY <1>2 DEF TypeOK, Sweep, SweepKeys, SweepNext, Goto
<1>3. CASE ScanIdentity(a)
  BY <1>3 DEF TypeOK, ScanIdentity, Goto, Finish, store
<1>4. CASE SweepIdentity(a)
  BY <1>4 DEF TypeOK, SweepIdentity, Goto, Finish
<1> QED
  BY <1>1, <1>2, <1>3, <1>4 DEF AdminStep

-----------------------------------------------------------------------------
(* Control                                                                 *)

\* What ControlInv says of one request.
RequestControl(r) ==
  /\ pc[r] \in {"mint", "store"} => loc[r].op \in {"login", "refresh"}
  /\ pc[r] \in {"readRow", "getRefresh"} => loc[r].op = "refresh"
  /\ pc[r] \in {"identity", "load", "cache"}
       => loc[r].op \in {"me", "refresh", "logout"}
  /\ pc[r] \in {"scan", "sweep"}
       => loc[r].op \in {"login", "refresh", "logout"} /\ ~MultiLogin
  /\ pc[r] \in {"store", "scan", "sweep"} /\ loc[r].op # "logout"
       => loc[r].minted[loc[r].fam] # None

\* A step of a request keeps what ControlInv says of it.
LEMMA RequestControlStep ==
  ASSUME TypeOK, NEW r \in Requests, RequestControl(r), loc[r].epoch <= account.commits,
         Start(r) \/ RequestStep(r)
  PROVE  RequestControl(r)' /\ loc'[r].epoch <= account.commits
<1>0. /\ loc[r] \in Locals /\ account.commits \in Nat /\ None \notin Token
      /\ NoLocals.epoch = 0 /\ r \in Procs
  BY SessionsAssumption DEF TypeOK, Procs, Commits, Token, NoLocals
<1>1. CASE LoginStart(r)
  BY <1>0, <1>1 DEF TypeOK, LoginStart, RequestControl, Goto, NoLocals
<1>2. ASSUME NEW op \in {"me", "refresh", "logout"}, CallStart(r, op)
      PROVE  RequestControl(r)' /\ loc'[r].epoch <= account.commits
  BY <1>0, <1>2 DEF TypeOK, CallStart, RequestControl, Goto, NoLocals
<1>3. CASE IdentityHit(r) \/ CacheUser(r)
  <2>1. /\ pc[r] \in {"identity", "cache"}
        /\ pc'[r] = Handler(loc[r].op)
        /\ loc'[r].op = loc[r].op /\ loc'[r].epoch \in {0, loc[r].epoch}
    BY <1>0, <1>3 DEF TypeOK, IdentityHit, CacheUser, Goto, Locals
  <2>2. pc'[r] \in {"readRow", "drop", "scan", "serve"}
    BY <2>1 DEF Handler
  <2>3. pc'[r] = "readRow" => loc[r].op = "refresh"
    BY <2>1, <2>2 DEF Handler
  <2>4. pc'[r] = "scan" => loc[r].op = "logout" /\ ~MultiLogin
    BY <2>1, <2>2 DEF Handler
  <2> QED
    BY <1>0, <2>1, <2>2, <2>3, <2>4 DEF RequestControl
<1>4. CASE Serve(r) \/ DropIdentity(r) \/ Answer(r)
  <2>1. pc'[r] = "idle" /\ loc'[r] = NoLocals
    BY <1>0, <1>4 DEF TypeOK, Serve, DropIdentity, Answer, Goto, Finish
  <2> QED
    BY <1>0, <2>1 DEF RequestControl
<1>9. CASE IdentityMiss(r) \/ RefreshCheck(r)
  BY <1>0, <1>9 DEF TypeOK, IdentityMiss, RefreshCheck, RequestControl, Goto, Finish
<1>10. CASE DropHeld(r)
  <2>1. pc'[r] \in {"drop", "answer", "dropIdentity"} /\ loc'[r].epoch = loc[r].epoch
    BY <1>0, <1>10 DEF TypeOK, DropHeld, Goto, Locals
  <2> QED
    BY <1>0, <2>1 DEF RequestControl
<1>5. CASE LoadUser(r) \/ RefreshRead(r)
  BY <1>0, <1>5 DEF TypeOK, LoadUser, RefreshRead, RequestControl, Goto, Finish, Locals
<1>6. CASE Mint(r)
  <2>1. loc[r].fam \in Families /\ loc[r].minted \in [Families -> OptToken]
    BY <1>0, LocalsFields
  <2>2. loc'[r] = [loc[r] EXCEPT !.minted = [loc[r].minted EXCEPT ![loc[r].fam] = now]]
    BY <1>0, <1>6 DEF TypeOK, Mint
  <2>3. loc'[r].minted[loc'[r].fam] = now /\ loc'[r].op = loc[r].op /\ loc'[r].epoch = loc[r].epoch
    BY <1>0, <2>1, <2>2 DEF Locals
  <2> QED
    BY <1>0, <1>6, <2>3, SessionsAssumption DEF TypeOK, Mint, RequestControl, Goto
<1>7. CASE Scan(r)
  <2>1. /\ pc[r] = "scan" /\ pc'[r] = "sweep"
        /\ loc'[r] = [loc[r] EXCEPT !.found = live[loc[r].fam]]
    BY <1>0, <1>7 DEF TypeOK, Scan, Goto
  <2>2. /\ loc'[r].op = loc[r].op /\ loc'[r].epoch = loc[r].epoch
        /\ loc'[r].fam = loc[r].fam /\ loc'[r].minted = loc[r].minted
    BY <1>0, <2>1 DEF Locals
  <2> QED
    BY <1>0, <2>1, <2>2 DEF RequestControl
<1>11. CASE Store(r)
  <2>1. /\ pc[r] = "store" /\ pc'[r] \in {"mint", "answer", "drop"}
        /\ loc'[r].op = loc[r].op /\ loc'[r].epoch = loc[r].epoch
    BY <1>0, <1>11 DEF TypeOK, Store, Goto, Locals
  <2> QED
    BY <1>0, <2>1 DEF RequestControl
<1>8. CASE Sweep(r)
  <2>1. /\ pc[r] = "sweep" /\ loc[r].op \in {"login", "refresh", "logout"} /\ ~MultiLogin
        /\ loc[r].op # "logout" => loc[r].minted[loc[r].fam] # None
    BY <1>8 DEF Sweep, RequestControl
  <2>2. CASE loc[r].op # "logout"
    <3>1. /\ pc'[r] = "store" /\ loc'[r] = [loc[r] EXCEPT !.found = {}]
      BY <1>0, <1>8, <2>1, <2>2 DEF TypeOK, Sweep, SweepNext, Goto
    <3>2. /\ loc'[r].op = loc[r].op /\ loc'[r].epoch = loc[r].epoch
          /\ loc'[r].fam = loc[r].fam /\ loc'[r].minted = loc[r].minted
      BY <1>0, <3>1 DEF Locals
    <3> QED
      BY <1>0, <2>1, <2>2, <3>1, <3>2 DEF RequestControl
  <2>3. CASE loc[r].op = "logout"
    <3>1. /\ pc'[r] \in {"scan", "dropIdentity"}
          /\ loc'[r].op = loc[r].op /\ loc'[r].epoch = loc[r].epoch
      BY <1>0, <1>8, <2>3 DEF TypeOK, Sweep, SweepNext, Goto, Locals
    <3> QED
      BY <1>0, <2>1, <2>3, <3>1 DEF RequestControl
  <2> QED
    BY <2>2, <2>3
<1> QED
  BY <1>1, <1>2, <1>3, <1>4, <1>5, <1>6, <1>7, <1>8, <1>9, <1>10, <1>11 DEF Start, RequestStep

\* Every step keeps ControlInv.
LEMMA ControlStep == TypeOK /\ ControlInv /\ [Next]_vars => ControlInv'
<1> SUFFICES ASSUME TypeOK, ControlInv, [Next]_vars PROVE ControlInv'
  OBVIOUS
<1>0. /\ \A r \in Requests : RequestControl(r)
      /\ account.commits \in Nat /\ NoLocals.epoch = 0
      /\ \A p \in Procs : loc[p].epoch \in Nat
      /\ Requests \cap Admins = {}
  BY SessionsAssumption, LocalsFields DEF TypeOK, ControlInv, RequestControl, NoLocals, Commits
<1>1. ASSUME NEW r \in Requests, Start(r) \/ RequestStep(r) PROVE ControlInv'
  <2>1. RequestControl(r)' /\ loc'[r].epoch <= account.commits
    BY <1>0, <1>1, RequestControlStep DEF ControlInv, Procs
  <2>2. \A q \in Requests : RequestControl(q)'
    BY <1>0, <1>1, <2>1, RequestFrame DEF RequestControl, Procs
  <2> QED
    BY <1>0, <1>1, <2>1, <2>2, RequestFrame DEF ControlInv, RequestControl, Procs
<1>2. ASSUME NEW a \in Admins, AdminStep(a) PROVE ControlInv'
  <2>1. loc[a] \in Locals /\ a \in Procs
    BY DEF TypeOK, Procs
  <2>2. /\ pc'[a] # "idle" => /\ loc'[a].op = "admin"
                             /\ pc'[a] \in {"scan", "sweep", "scanIdentity", "sweepIdentity"}
        /\ loc'[a].epoch <= account.commits
    <3>1. CASE Scan(a)
      BY <1>0, <2>1, <3>1 DEF TypeOK, ControlInv, Scan, Goto, Locals
    <3>2. CASE Sweep(a)
      <4>1. loc[a].op = "admin" /\ loc[a].epoch <= account.commits
        BY <2>1, <3>2 DEF ControlInv, Sweep
      <4>2. /\ pc'[a] \in {"scan", "scanIdentity"}
            /\ loc'[a].op = loc[a].op /\ loc'[a].epoch = loc[a].epoch
        BY <2>1, <3>2, <4>1 DEF TypeOK, Sweep, SweepNext, Goto, Locals
      <4> QED
        BY <4>1, <4>2
    <3>3. CASE ScanIdentity(a)
      BY <1>0, <2>1, <3>3 DEF TypeOK, ControlInv, ScanIdentity, Goto, Finish
    <3>4. CASE SweepIdentity(a)
      BY <1>0, <2>1, <3>4 DEF TypeOK, ControlInv, SweepIdentity, Goto, Finish
    <3> QED
      BY <1>2, <3>1, <3>2, <3>3, <3>4 DEF AdminStep
  <2> QED
    BY <1>0, <1>2, <2>2, AdminFrame DEF ControlInv, Procs
<1>3. ASSUME NEW a \in Admins, NEW s \in {"enabled", "disabled", "deleted"}, Commit(a, s)
      PROVE  ControlInv'
  <2>1. /\ pc'[a] = "scan" /\ loc'[a].op = "admin" /\ loc'[a].epoch = account.commits + 1
        /\ account'.commits = account.commits + 1
        /\ \A p \in Procs \ {a} : pc'[p] = pc[p] /\ loc'[p] = loc[p]
    BY <1>3 DEF TypeOK, Commit, Goto, Procs, NoLocals
  <2> QED
    BY <1>0, <2>1 DEF ControlInv, Procs
<1>4. ASSUME NEW p \in Procs, Fail(p) PROVE ControlInv'
  <2>1. /\ pc'[p] = "idle" /\ loc'[p] = NoLocals /\ account' = account
        /\ \A q \in Procs \ {p} : pc'[q] = pc[q] /\ loc'[q] = loc[q]
    BY <1>4 DEF TypeOK, Fail, Finish, Goto
  <2> QED
    BY <1>0, <2>1 DEF ControlInv, Procs
<1>5. CASE Tick \/ Expire \/ UNCHANGED vars
  <2>1. pc' = pc /\ loc' = loc /\ account' = account
    BY <1>5 DEF Tick, Expire, ExpireIdentity, ExpireToken, vars
  <2> QED
    BY <2>1 DEF ControlInv
<1> QED
  BY <1>1, <1>2, <1>3, <1>4, <1>5 DEF Next, SetStatus, DeleteAthlete

-----------------------------------------------------------------------------
(* Revocation                                                              *)

\* A request about to grant something has seen the row enabled, unless an
\* administrator committed since.
LEMMA GrantsStep == TypeOK /\ ControlInv /\ GrantsOnlyEnabled /\ [Next]_vars => GrantsOnlyEnabled'
<1> SUFFICES ASSUME TypeOK, ControlInv, GrantsOnlyEnabled, [Next]_vars,
                    NEW r \in Requests, Checked(r)', loc'[r].epoch = account'.commits
             PROVE  Enabled'
  BY DEF GrantsOnlyEnabled
<1>0. /\ loc[r] \in Locals /\ r \in Procs /\ r \notin Admins /\ account.commits \in Nat
      /\ loc[r].epoch <= account.commits /\ loc[r].epoch \in Nat
      /\ Checked(r) /\ loc[r].epoch = account.commits => Enabled
  BY SessionsAssumption, LocalsFields DEF TypeOK, Procs, GrantsOnlyEnabled, ControlInv, Commits
<1>1. ASSUME Start(r) \/ RequestStep(r) PROVE Enabled'
  <2>0. Enabled' = Enabled /\ account'.commits = account.commits
    BY <1>1, RequestFrame
  <2>1. CASE LoginStart(r)
    BY <2>0, <2>1 DEF LoginStart
  <2>2. ASSUME NEW op \in {"me", "refresh", "logout"}, CallStart(r, op) PROVE Enabled'
    BY <1>0, <2>2 DEF TypeOK, CallStart, Goto, Checked
  <2>3. CASE IdentityHit(r) \/ CacheUser(r)
    <3>1. pc'[r] = Handler(loc[r].op) /\ loc'[r].op = loc[r].op
      BY <1>0, <2>3 DEF TypeOK, IdentityHit, CacheUser, Goto, Locals
    <3>2. loc[r].op # "login"
      BY <1>0, <2>3 DEF ControlInv, IdentityHit, CacheUser
    <3>3. ~Checked(r)'
      BY <3>1, <3>2 DEF Checked, Handler
    <3> QED
      BY <3>3
  <2>4. CASE LoadUser(r) \/ RefreshRead(r)
    <3>1. ~Enabled => pc'[r] = "idle"
      BY <1>0, <2>4 DEF TypeOK, LoadUser, RefreshRead, Goto, Finish
    <3> QED
      BY <2>0, <3>1 DEF Checked
  <2>5. CASE IdentityMiss(r) \/ Serve(r) \/ DropIdentity(r) \/ Answer(r)
    <3>1. pc'[r] \in {"load", "idle"}
      BY <1>0, <2>5 DEF TypeOK, IdentityMiss, Serve, DropIdentity, Answer, Goto, Finish
    <3> QED
      BY <3>1 DEF Checked
  <2>6. CASE RefreshCheck(r)
    BY <1>0, <2>0, <2>6 DEF TypeOK, RefreshCheck, Goto, Finish, Checked
  <2>7. CASE DropHeld(r)
    <3>1. /\ pc[r] = "drop" /\ loc'[r].op = loc[r].op /\ loc'[r].epoch = loc[r].epoch
          /\ loc[r].op = "logout" => pc'[r] \in {"drop", "dropIdentity"}
      BY <1>0, <2>7 DEF TypeOK, DropHeld, Goto, Locals
    <3> QED
      BY <1>0, <2>0, <3>1 DEF Checked
  <2>8. CASE Mint(r) \/ Scan(r) \/ Store(r)
    <3>1. /\ pc[r] \in {"mint", "scan", "store"} /\ loc'[r].op = loc[r].op
          /\ loc'[r].epoch = loc[r].epoch
          /\ pc[r] = "scan" => pc'[r] = "sweep"
      BY <1>0, <2>8 DEF TypeOK, Mint, Scan, Store, Goto, Locals
    <3> QED
      BY <1>0, <2>0, <3>1 DEF Checked
  <2>9. CASE Sweep(r)
    <3>1. /\ pc[r] = "sweep" /\ loc'[r].epoch = loc[r].epoch /\ loc'[r].op = loc[r].op
          /\ loc[r].op = "logout" => pc'[r] \in {"scan", "dropIdentity"}
      BY <1>0, <2>9 DEF TypeOK, Sweep, SweepNext, Goto, Locals
    <3> QED
      BY <1>0, <2>0, <3>1 DEF Checked
  <2> QED
    BY <1>1, <2>1, <2>2, <2>3, <2>4, <2>5, <2>6, <2>7, <2>8, <2>9 DEF Start, RequestStep
<1>2. ASSUME NEW q \in Requests \ {r}, Start(q) \/ RequestStep(q) PROVE Enabled'
  BY <1>0, <1>2, RequestFrame DEF Checked
<1>3. ASSUME NEW a \in Admins, AdminStep(a) PROVE Enabled'
  BY <1>0, <1>3, AdminFrame DEF Checked, Enabled
<1>4. ASSUME NEW a \in Admins, NEW s \in {"enabled", "disabled", "deleted"}, Commit(a, s)
      PROVE  Enabled'
  <2>1. loc'[r] = loc[r] /\ account'.commits = account.commits + 1
    BY <1>0, <1>4 DEF TypeOK, Commit
  <2> QED
    BY <1>0, <2>1
<1>5. ASSUME NEW p \in Procs, Fail(p) PROVE Enabled'
  <2>1. /\ account' = account
        /\ p = r => pc'[r] = "idle"
        /\ p # r => pc'[r] = pc[r] /\ loc'[r] = loc[r]
    BY <1>0, <1>5 DEF TypeOK, Fail, Finish, Goto
  <2> QED
    BY <1>0, <2>1 DEF Checked, Enabled
<1>6. CASE Tick \/ Expire \/ UNCHANGED vars
  <2>1. pc' = pc /\ loc' = loc /\ account' = account
    BY <1>6 DEF Tick, Expire, ExpireIdentity, ExpireToken, vars
  <2> QED
    BY <1>0, <2>1 DEF Checked, Enabled
<1> QED
  BY <1>1, <1>2, <1>3, <1>4, <1>5, <1>6 DEF Next, SetStatus, DeleteAthlete

\* What a client's request adds to Redis while the account is not enabled is
\* late.
LEMMA RequestWritesLate ==
  ASSUME TypeOK, ControlInv, GrantsOnlyEnabled, ~Enabled,
         NEW r \in Requests, Start(r) \/ RequestStep(r), NEW s \in Stores
  PROVE  InRedis(s)' \subseteq InRedis(s) \cup late'[s] /\ late[s] \subseteq late'[s]
<1>0. /\ loc[r] \in Locals /\ r \in Procs /\ loc[r].fam \in Families /\ "identity" \notin Families
      /\ Stores = Families \cup {"identity"}
  BY LocalsFields DEF TypeOK, Procs, Families, Stores
<1>1. CASE Store(r)
  <2>1. loc[r].epoch # account.commits
    BY <1>1 DEF GrantsOnlyEnabled, Checked, Store
  <2> QED
    BY <1>0, <1>1, <2>1 DEF TypeOK, Store, NoteLate, InRedis
<1>2. CASE CacheUser(r)
  <2>1. loc[r].epoch # account.commits
    BY <1>2 DEF GrantsOnlyEnabled, Checked, CacheUser
  <2> QED
    BY <1>0, <1>2, <2>1 DEF TypeOK, CacheUser, NoteLate, InRedis
<1>3. ASSUME LoginStart(r) \/ (\E op \in {"me", "refresh", "logout"} : CallStart(r, op))
             \/ IdentityHit(r) \/ IdentityMiss(r) \/ LoadUser(r)
      PROVE  live' = live /\ identity' = identity /\ late' = late
  BY <1>3 DEF LoginStart, CallStart, IdentityHit, IdentityMiss, LoadUser, store, history
<1>4. ASSUME Serve(r) \/ RefreshRead(r) \/ RefreshCheck(r) \/ Mint(r) \/ Scan(r)
             \/ Answer(r)
      PROVE  live' = live /\ identity' = identity /\ late' = late
  BY <1>4 DEF Serve, RefreshRead, RefreshCheck, Mint, Scan, Answer, store, history
<1>5. CASE DropHeld(r)
  BY <1>0, <1>5 DEF TypeOK, DropHeld, InRedis, history
<1>6. CASE DropIdentity(r)
  BY <1>0, <1>6 DEF DropIdentity, InRedis, history
<1>7. CASE Sweep(r)
  BY <1>0, <1>7 DEF TypeOK, Sweep, SweepKeys, InRedis
<1> QED
  BY <1>1, <1>2, <1>3, <1>4, <1>5, <1>6, <1>7 DEF Start, RequestStep, InRedis

\* Every step keeps both halves of the revocation invariant.
LEMMA SweptStep ==
  TypeOK /\ ControlInv /\ GrantsOnlyEnabled /\ SweptIsClear /\ SweepInv /\ [Next]_vars
    => SweptIsClear' /\ SweepInv'
<1> SUFFICES ASSUME TypeOK, ControlInv, GrantsOnlyEnabled, SweptIsClear, SweepInv, [Next]_vars
             PROVE  SweptIsClear' /\ SweepInv'
  OBVIOUS
<1>0. /\ Requests \cap Admins = {} /\ swept \in SUBSET Stores /\ account.commits \in Nat
      /\ \A p \in Procs : loc[p].fam \in Families /\ loc[p].epoch \in Nat
      /\ Stores = Families \cup {"identity"} /\ "identity" \notin Families
      /\ \A a \in Admins : loc[a].epoch <= account.commits
  BY SessionsAssumption, LocalsFields DEF TypeOK, Procs, Stores, Families, ControlInv, Commits
<1>1. ASSUME NEW r \in Requests, Start(r) \/ RequestStep(r) PROVE SweptIsClear' /\ SweepInv'
  <2>0. /\ \A a \in Admins : pc'[a] = pc[a] /\ loc'[a] = loc[a]
        /\ Enabled' = Enabled /\ account'.commits = account.commits /\ swept' = swept
    BY <1>0, <1>1, RequestFrame DEF Procs
  <2>1. CASE Enabled
    BY <2>0, <2>1 DEF SweptIsClear, SweepInv
  <2>2. CASE ~Enabled
    <3>1. \A s \in Stores : InRedis(s)' \subseteq InRedis(s) \cup late'[s] /\ late[s] \subseteq late'[s]
      BY <1>1, <2>2, RequestWritesLate
    <3>2. SweptIsClear'
      BY <1>0, <2>0, <2>2, <3>1 DEF SweptIsClear
    <3>3. \A f \in Families : live'[f] \subseteq live[f] \cup late'[f] /\ late[f] \subseteq late'[f]
      BY <1>0, <3>1 DEF InRedis
    <3>4. SweepInv'
      BY <1>0, <2>0, <2>2, <3>3 DEF SweepInv, Procs
    <3> QED
      BY <3>2, <3>4
  <2> QED
    BY <2>1, <2>2
<1>2. ASSUME NEW a \in Admins, AdminStep(a) PROVE SweptIsClear' /\ SweepInv'
  <2>0. /\ a \in Procs /\ loc[a] \in Locals /\ Enabled' = Enabled /\ account' = account
        /\ late' = late
        /\ \A p \in Procs \ {a} : pc'[p] = pc[p] /\ loc'[p] = loc[p]
        /\ \A f \in Families : live'[f] \subseteq live[f]
        /\ \A s \in Stores : InRedis(s)' \subseteq InRedis(s)
    BY <1>0, <1>2, AdminFrame DEF TypeOK, Procs, Enabled, InRedis
  <2>1. CASE Scan(a)
    <3>1. pc'[a] = "sweep" /\ loc'[a].found = live[loc[a].fam] /\ loc'[a].fam = loc[a].fam
          /\ swept' = swept /\ live' = live
      BY <2>0, <2>1 DEF TypeOK, Scan, Goto, Locals, store, history
    <3> QED
      BY <1>0, <2>0, <3>1 DEF SweptIsClear, SweepInv, Procs
  <2>2. CASE Sweep(a)
    <3>1. pc[a] = "sweep" /\ pc'[a] # "sweep" /\ loc[a].op = "admin"
      BY <2>0, <2>2 DEF TypeOK, Sweep, SweepNext, Goto, ControlInv
    <3>2. SweepInv'
      BY <1>0, <2>0, <3>1 DEF SweepInv, Procs
    <3>3. swept' = IF loc[a].epoch = account.commits
                   THEN swept \cup {loc[a].fam} ELSE swept
      BY <2>2 DEF Sweep, NoteSwept
    <3>4. live'[loc[a].fam] \subseteq live[loc[a].fam] \ loc[a].found
      BY <1>0, <2>0, <2>2 DEF TypeOK, Sweep, SweepKeys
    <3>5. ~Enabled /\ loc[a].epoch = account.commits
            => live'[loc[a].fam] \subseteq late'[loc[a].fam]
      BY <1>0, <2>0, <3>1, <3>4 DEF SweepInv
    <3>7. ASSUME NEW s \in swept', ~Enabled PROVE InRedis(s)' \subseteq late'[s]
      <4>1. CASE s \in swept
        BY <1>0, <2>0, <3>7, <4>1 DEF SweptIsClear
      <4>2. CASE s \notin swept
        <5>1. s = loc[a].fam /\ s # "identity" /\ loc[a].epoch = account.commits
          BY <1>0, <2>0, <3>3, <3>7, <4>2
        <5>2. InRedis(s)' = live'[s]
          BY <5>1 DEF InRedis
        <5> QED
          BY <3>5, <3>7, <5>1, <5>2
      <4> QED
        BY <4>1, <4>2
    <3>6. SweptIsClear'
      BY <2>0, <3>7 DEF SweptIsClear
    <3> QED
      BY <3>2, <3>6
  <2>3. CASE ScanIdentity(a) \/ SweepIdentity(a)
    <3>1. /\ pc'[a] \in {"idle", "sweepIdentity"}
          /\ swept' = swept \/ (swept' = swept \cup {"identity"} /\ identity' = None)
      BY <2>0, <2>3 DEF TypeOK, ScanIdentity, SweepIdentity, NoteSwept, Goto, Finish, store
    <3>2. SweepInv'
      BY <1>0, <2>0, <3>1 DEF SweepInv, Procs
    <3>3. identity' = None => InRedis("identity")' = {}
      BY DEF InRedis
    <3>4. SweptIsClear'
      BY <1>0, <2>0, <3>1, <3>3 DEF SweptIsClear
    <3> QED
      BY <3>2, <3>4
  <2> QED
    BY <1>2, <2>1, <2>2, <2>3 DEF AdminStep
<1>3. ASSUME NEW a \in Admins, NEW s \in {"enabled", "disabled", "deleted"}, Commit(a, s)
      PROVE  SweptIsClear' /\ SweepInv'
  <2>1. /\ swept' = {} /\ account'.commits = account.commits + 1 /\ pc'[a] = "scan"
        /\ \A b \in Admins \ {a} : loc'[b] = loc[b]
    BY <1>3 DEF TypeOK, Commit, Goto, Procs
  <2>2. SweepInv'
    BY <1>0, <2>1 DEF SweepInv, Procs
  <2> QED
    BY <2>1, <2>2 DEF SweptIsClear
<1>4. ASSUME NEW p \in Procs, Fail(p) PROVE SweptIsClear' /\ SweepInv'
  <2>1. /\ account' = account /\ live' = live /\ identity' = identity /\ late' = late
        /\ swept' = swept /\ pc'[p] = "idle"
        /\ \A q \in Procs \ {p} : pc'[q] = pc[q] /\ loc'[q] = loc[q]
    BY <1>4 DEF TypeOK, Fail, Finish, Goto, store, history
  <2> QED
    BY <1>0, <2>1 DEF SweptIsClear, SweepInv, InRedis, Enabled, Procs
<1>5. CASE Tick \/ Expire \/ UNCHANGED vars
  <2>1. /\ pc' = pc /\ loc' = loc /\ account' = account /\ late' = late /\ swept' = swept
        /\ identity' \in {identity, None}
        /\ \A f \in Families : live'[f] \subseteq live[f]
    BY <1>5 DEF TypeOK, Tick, Expire, ExpireIdentity, ExpireToken, vars, store, history
  <2>2. \A s \in Stores : InRedis(s)' \subseteq InRedis(s)
    BY <1>0, <2>1 DEF InRedis
  <2> QED
    BY <1>0, <2>1, <2>2 DEF SweptIsClear, SweepInv, Enabled, Procs
<1> QED
  BY <1>1, <1>2, <1>3, <1>4, <1>5 DEF Next, SetStatus, DeleteAthlete

\* The request behind the last commit is still at work, or has cleared all.
LEMMA RevokerStep == TypeOK /\ ControlInv /\ RevokerInv /\ [Next]_vars => RevokerInv'
<1> DEFINE Working(a) == /\ pc[a] # "idle" /\ loc[a].epoch = account.commits
                         /\ Cleared(a) \subseteq swept
<1> SUFFICES ASSUME TypeOK, ControlInv, RevokerInv, [Next]_vars, account'.commits > 0, ~RequestsMayFail
             PROVE  swept' = Stores \/ \E a \in Admins : Working(a)'
  BY DEF RevokerInv
<1>0. /\ Requests \cap Admins = {} /\ account.commits \in Nat
      /\ \A a \in Admins : a \in Procs /\ loc[a] \in Locals /\ loc[a].fam \in Families
      /\ Stores = Families \cup {"identity"} /\ swept \in SUBSET Stores
      /\ account.commits > 0 => swept = Stores \/ \E a \in Admins : Working(a)
  BY SessionsAssumption, LocalsFields DEF TypeOK, Procs, Stores, Commits, RevokerInv
<1>1. ASSUME NEW r \in Requests, Start(r) \/ RequestStep(r)
      PROVE  swept' = Stores \/ \E a \in Admins : Working(a)'
  BY <1>0, <1>1, RequestFrame DEF Cleared
<1>2. ASSUME NEW a \in Admins, AdminStep(a)
      PROVE  swept' = Stores \/ \E b \in Admins : Working(b)'
  <2>0. /\ account' = account
        /\ \A p \in Procs \ {a} : pc'[p] = pc[p] /\ loc'[p] = loc[p]
    BY <1>2, AdminFrame DEF Enabled
  <2>1. swept \subseteq swept' /\ swept' \subseteq Stores
    BY <1>0, <1>2 DEF AdminStep, Scan, Sweep, ScanIdentity, SweepIdentity, NoteSwept, history
  <2>2. ASSUME Working(a) PROVE swept' = Stores \/ Working(a)'
    <3>1. loc[a].op = "admin"
      BY <2>2 DEF ControlInv
    <3>2. CASE Scan(a)
      BY <1>0, <2>0, <2>1, <2>2, <3>2 DEF TypeOK, Scan, Goto, Cleared, Locals
    <3>3. CASE Sweep(a)
      <4>1. /\ pc[a] = "sweep" /\ loc'[a].epoch = loc[a].epoch
            /\ loc[a].fam = "access" => pc'[a] = "scan" /\ loc'[a].fam = "refresh"
            /\ loc[a].fam = "refresh" => pc'[a] = "scanIdentity"
        BY <1>0, <3>1, <3>3 DEF TypeOK, Sweep, SweepNext, Goto, Locals
      <4>2. loc[a].fam \in swept'
        BY <2>0, <2>2, <3>3 DEF Sweep, NoteSwept
      <4> QED
        BY <1>0, <2>0, <2>1, <2>2, <4>1, <4>2 DEF Cleared, Families
    <3>4. CASE ScanIdentity(a) \/ SweepIdentity(a)
      <4>1. Families \subseteq swept
        BY <2>2, <3>4 DEF Cleared, ScanIdentity, SweepIdentity
      <4>2. \/ "identity" \in swept'
            \/ pc'[a] = "sweepIdentity" /\ loc'[a] = loc[a]
        BY <1>0, <2>0, <2>2, <3>4
           DEF TypeOK, ScanIdentity, SweepIdentity, NoteSwept, Goto
      <4> QED
        BY <1>0, <2>0, <2>1, <2>2, <4>1, <4>2 DEF Cleared
    <3> QED
      BY <1>2, <3>2, <3>3, <3>4 DEF AdminStep
  <2>3. ASSUME NEW b \in Admins \ {a}, Working(b) PROVE Working(b)'
    BY <1>0, <2>0, <2>1, <2>3 DEF Cleared
  <2> QED
    BY <1>0, <2>0, <2>1, <2>2, <2>3
<1>3. ASSUME NEW a \in Admins, NEW s \in {"enabled", "disabled", "deleted"}, Commit(a, s)
      PROVE  Working(a)'
  BY <1>0, <1>3 DEF TypeOK, Commit, Goto, Cleared, NoLocals
<1>4. CASE Tick \/ Expire \/ UNCHANGED vars
  <2>1. pc' = pc /\ loc' = loc /\ account' = account /\ swept' = swept
    BY <1>4 DEF Tick, Expire, ExpireIdentity, ExpireToken, vars, history
  <2> QED
    BY <1>0, <2>1 DEF Cleared, Enabled
<1>5. ~\E p \in Procs : Fail(p)
  BY DEF Fail
<1> QED
  BY <1>1, <1>2, <1>3, <1>4, <1>5 DEF Next, SetStatus, DeleteAthlete

\* Only a request that read the row before the last commit stores an older
\* identity than that of the present row.
LEMMA IdentityStep == TypeOK /\ ControlInv /\ IdentityInv /\ [Next]_vars => IdentityInv'
<1> SUFFICES ASSUME TypeOK, ControlInv, IdentityInv, [Next]_vars PROVE IdentityInv'
  OBVIOUS
<1>0. account.commits \in Nat /\ "identity" \in Stores /\ "identity" \notin Families
  BY DEF TypeOK, Commits, Stores, Families
<1>1. ASSUME NEW r \in Requests, Start(r) \/ RequestStep(r) PROVE IdentityInv'
  <2>1. Enabled' = Enabled /\ account'.commits = account.commits /\ swept' = swept
    BY <1>1, RequestFrame
  <2>2. CASE CacheUser(r)
    BY <1>0, <2>1, <2>2 DEF TypeOK, CacheUser, NoteLate, IdentityInv
  <2>3. CASE Store(r)
    <3>1. loc[r].fam \in Families
      BY LocalsFields DEF TypeOK, Procs
    <3>2. identity' = identity /\ late["identity"] \subseteq late'["identity"]
      BY <1>0, <2>3, <3>1 DEF TypeOK, Store, NoteLate
    <3> QED
      BY <2>1, <3>2 DEF IdentityInv
  <2>4. ASSUME ~CacheUser(r), ~Store(r) PROVE identity' \in {identity, None} /\ late' = late
    <3>1. CASE Start(r) \/ IdentityHit(r) \/ IdentityMiss(r) \/ LoadUser(r)
      BY <3>1 DEF Start, LoginStart, CallStart, IdentityHit, IdentityMiss, LoadUser, store, history
    <3>2. CASE Serve(r) \/ RefreshRead(r) \/ RefreshCheck(r) \/ DropHeld(r) \/ DropIdentity(r)
               \/ Mint(r) \/ Scan(r) \/ Sweep(r) \/ Answer(r)
      BY <3>2 DEF Serve, RefreshRead, RefreshCheck, DropHeld, DropIdentity, Mint, Scan, Sweep,
                  Answer, store, history
    <3> QED
      BY <1>1, <2>4, <3>1, <3>2 DEF RequestStep
  <2> QED
    BY <2>1, <2>2, <2>3, <2>4 DEF IdentityInv
<1>2. ASSUME NEW a \in Admins, AdminStep(a) PROVE IdentityInv'
  <2>0. account' = account /\ late' = late /\ identity' \in {identity, None} /\ Enabled' = Enabled
    BY <1>2, AdminFrame DEF Enabled
  <2>1. CASE Scan(a)
    BY <2>0, <2>1 DEF Scan, history, IdentityInv
  <2>2. CASE Sweep(a)
    <3>1. loc[a].fam \in Families
      BY LocalsFields DEF TypeOK, Procs
    <3>2. "identity" \in swept' => "identity" \in swept
      BY <1>0, <2>2, <3>1 DEF Sweep, NoteSwept
    <3> QED
      BY <2>0, <3>2 DEF IdentityInv
  <2>3. CASE ScanIdentity(a)
    BY <2>0, <2>3 DEF ScanIdentity, NoteSwept, store, IdentityInv
  <2>4. CASE SweepIdentity(a)
    BY <2>0, <2>4 DEF SweepIdentity, IdentityInv
  <2> QED
    BY <1>2, <2>1, <2>2, <2>3, <2>4 DEF AdminStep
<1>3. ASSUME NEW a \in Admins, NEW s \in {"enabled", "disabled", "deleted"}, Commit(a, s)
      PROVE  IdentityInv'
  BY <1>0, <1>3 DEF Commit, IdentityInv
<1>4. CASE Tick \/ Expire \/ (\E p \in Procs : Fail(p)) \/ UNCHANGED vars
  <2>1. account' = account /\ late' = late /\ swept' = swept /\ identity' \in {identity, None}
    BY <1>4 DEF Tick, Expire, ExpireIdentity, ExpireToken, Fail, vars, store, history
  <2> QED
    BY <2>1 DEF IdentityInv, Enabled
<1> QED
  BY <1>1, <1>2, <1>3, <1>4 DEF Next, SetStatus, DeleteAthlete

-----------------------------------------------------------------------------
(* Limited sessions                                                        *)

\* A step of request r that stores nothing and does not begin a sweep leaves
\* every live token with an owner.
LEMMA OwnerFrame ==
  ASSUME TypeOK, OwnerInv, NEW r \in Procs,
         \A q \in Requests \ {r} : pc'[q] = pc[q] /\ loc'[q] = loc[q],
         stored' = stored, \A f \in Families : live'[f] \subseteq live[f],
         pc'[r] \notin {"store", "sweep"}
  PROVE  OwnerInv'
  BY DEF OwnerInv, Owns

\* Every step keeps every live token with an owner.
LEMMA OwnerStep == TypeOK /\ ControlInv /\ OwnerInv /\ [Next]_vars => OwnerInv'
<1> SUFFICES ASSUME TypeOK, ControlInv, OwnerInv, [Next]_vars, ~MultiLogin PROVE OwnerInv'
  BY DEF OwnerInv
<1>0. Requests \cap Admins = {}
  BY SessionsAssumption
<1>1. ASSUME NEW r \in Requests, Start(r) \/ RequestStep(r) PROVE OwnerInv'
  <2>0. /\ r \in Procs /\ loc[r] \in Locals /\ loc[r].fam \in Families
        /\ \A q \in Requests \ {r} : pc'[q] = pc[q] /\ loc'[q] = loc[q]
    BY <1>1, RequestFrame, LocalsFields DEF TypeOK, Procs
  <2>1. CASE Scan(r)
    <3>1. /\ pc'[r] = "sweep" /\ loc'[r].fam = loc[r].fam
          /\ loc'[r].found = live[loc[r].fam] /\ live' = live /\ stored' = stored
          /\ pc[r] = "scan"
      BY <2>0, <2>1 DEF TypeOK, Scan, Goto, Locals, store, history
    <3> QED
      BY <2>0, <3>1 DEF OwnerInv, Owns
  <2>2. CASE Sweep(r)
    <3>1. /\ pc[r] = "sweep" /\ stored' = stored
          /\ pc'[r] = "store" => loc'[r].fam = loc[r].fam
          /\ pc'[r] # "sweep"
          /\ \A f \in Families : live'[f] \subseteq live[f]
          /\ live'[loc[r].fam] \cap loc[r].found = {}
      BY <2>0, <2>2 DEF TypeOK, Sweep, SweepKeys, SweepNext, Goto, Locals
    <3> QED
      BY <2>0, <3>1 DEF OwnerInv, Owns
  <2>3. CASE Store(r)
    <3>1. /\ pc[r] = "store" /\ pc'[r] \in {"mint", "answer", "drop"}
          /\ live' = [live EXCEPT ![loc[r].fam] = @ \cup {loc[r].minted[loc[r].fam]}]
          /\ stored' = [stored EXCEPT ![r][loc[r].fam] = loc[r].minted[loc[r].fam]]
      BY <2>0, <2>3 DEF TypeOK, Store, NoteStored, Goto
    <3> SUFFICES ASSUME NEW f \in Families, NEW t \in live'[f]
                 PROVE  \E q \in Requests : Owns(q, f, t)'
      BY DEF OwnerInv
    <3>2. CASE f = loc[r].fam /\ t = loc[r].minted[f]
      BY <2>0, <3>1, <3>2 DEF TypeOK, Owns
    <3>3. CASE ~(f = loc[r].fam /\ t = loc[r].minted[f])
      <4>1. t \in live[f]
        BY <2>0, <3>1, <3>3 DEF TypeOK
      <4>2. PICK q \in Requests : Owns(q, f, t)
        BY <4>1 DEF OwnerInv
      <4>3. q = r => f # loc[r].fam
        BY <3>1, <4>2 DEF Owns
      <4>4. stored'[q][f] = t
        BY <3>1, <4>2, <4>3 DEF TypeOK, Owns
      <4> QED
        BY <2>0, <3>1, <4>2, <4>4 DEF Owns
    <3> QED
      BY <3>2, <3>3
  <2>4. ASSUME ~Scan(r), ~Sweep(r), ~Store(r)
        PROVE  /\ stored' = stored /\ pc'[r] \notin {"store", "sweep"}
               /\ \A f \in Families : live'[f] \subseteq live[f]
    <3>1. CASE Start(r)
      BY <2>0, <3>1 DEF TypeOK, Start, LoginStart, CallStart, Goto, store, history
    <3>2. CASE IdentityHit(r) \/ CacheUser(r)
      <4>1. pc'[r] = Handler(loc[r].op) /\ live' = live /\ stored' = stored
        BY <2>0, <3>2 DEF TypeOK, IdentityHit, CacheUser, Goto, store, history
      <4> QED
        BY <4>1 DEF Handler
    <3>3. CASE IdentityMiss(r) \/ LoadUser(r) \/ Serve(r) \/ RefreshRead(r)
      BY <2>0, <3>3 DEF TypeOK, IdentityMiss, LoadUser, Serve, RefreshRead, Goto,
                        Finish, store, history
    <3>4. CASE RefreshCheck(r) \/ DropHeld(r) \/ DropIdentity(r) \/ Mint(r) \/ Answer(r)
      BY <2>0, <3>4 DEF TypeOK, RefreshCheck, DropHeld, DropIdentity, Mint, Answer, Goto,
                        Finish, store, history
    <3> QED
      BY <1>1, <2>4, <3>1, <3>2, <3>3, <3>4 DEF RequestStep
  <2> QED
    BY <2>0, <2>1, <2>2, <2>3, <2>4, OwnerFrame
<1>2. ASSUME NEW a \in Admins, AdminStep(a) PROVE OwnerInv'
  BY <1>0, <1>2, AdminFrame DEF OwnerInv, Owns, Procs
<1>3. ASSUME NEW a \in Admins, NEW s \in {"enabled", "disabled", "deleted"}, Commit(a, s)
      PROVE  OwnerInv'
  <2>1. /\ pc'[a] = "scan" /\ a \in Procs /\ live' = live /\ stored' = stored
        /\ \A q \in Requests \ {a} : pc'[q] = pc[q] /\ loc'[q] = loc[q]
    BY <1>3 DEF TypeOK, Commit, Goto, Procs, store
  <2> QED
    BY <2>1, OwnerFrame
<1>4. ASSUME NEW p \in Procs, Fail(p) PROVE OwnerInv'
  <2>1. /\ pc'[p] = "idle" /\ live' = live /\ stored' = stored
        /\ \A q \in Requests \ {p} : pc'[q] = pc[q] /\ loc'[q] = loc[q]
    BY <1>4 DEF TypeOK, Fail, Goto, Finish, store, history, Procs
  <2> QED
    BY <2>1, OwnerFrame
<1>5. CASE Tick \/ Expire \/ UNCHANGED vars
  <2>1. /\ pc' = pc /\ loc' = loc /\ stored' = stored
        /\ \A f \in Families : live'[f] \subseteq live[f]
    BY <1>5 DEF TypeOK, Tick, Expire, ExpireIdentity, ExpireToken, vars, store, history
  <2> QED
    BY <2>1 DEF OwnerInv, Owns
<1> QED
  BY <1>1, <1>2, <1>3, <1>4, <1>5 DEF Next, SetStatus, DeleteAthlete

-----------------------------------------------------------------------------
(* The theorems                                                            *)

\* The invariant holds initially and every step keeps it.
LEMMA Inductive == Spec => []IInv
<1>1. Init => IInv
  <2> SUFFICES ASSUME Init PROVE IInv
    OBVIOUS
  <2>1. TypeOK
    BY NoLocalsType, SessionsAssumption
       DEF Init, TypeOK, Token, OptToken, Commits, Steps, Families, Stores, Procs
  <2>2. /\ Enabled /\ account.commits = 0
        /\ \A f \in Families : live[f] = {}
        /\ \A p \in Procs : pc[p] = "idle" /\ loc[p].epoch = 0
    BY DEF Init, Enabled, Families, NoLocals
  <2>3. ControlInv /\ GrantsOnlyEnabled
    <3>1. \A p \in Procs : loc[p].epoch <= account.commits
      BY <2>2
    <3>2. \A r \in Requests : pc[r] = "idle"
      BY <2>2 DEF Procs
    <3>3. \A a \in Admins : pc[a] = "idle"
      BY <2>2 DEF Procs
    <3> QED
      BY <2>2, <3>1, <3>2, <3>3 DEF ControlInv, GrantsOnlyEnabled
  <2>4. SweptIsClear /\ SweepInv /\ RevokerInv /\ IdentityInv
    <3>1. swept = {}
      BY DEF Init
    <3> QED
      BY <2>2, <3>1 DEF SweptIsClear, SweepInv, RevokerInv, IdentityInv
  <2>5. OwnerInv
    BY <2>2 DEF OwnerInv
  <2> QED
    BY <2>1, <2>3, <2>4, <2>5 DEF IInv
<1>2. IInv /\ [Next]_vars => IInv'
  BY TypeStep, ControlStep, GrantsStep, SweptStep, RevokerStep, IdentityStep,
     OwnerStep DEF IInv
<1> QED
  BY <1>1, <1>2, PTL DEF Spec

\* Every variable keeps its type, whatever the numbers of requests,
\* administrators and seconds.
THEOREM SessionsType == Spec => []TypeOK
  BY Inductive, PTL DEF IInv

\* Nobody is handed a token, and no identity is cached, on a row read as
\* disabled or deleted.
THEOREM GrantsChecked == Spec => []GrantsOnlyEnabled
  BY Inductive, PTL DEF IInv

\* A key family cleared after the account was disabled or deleted holds only
\* what requests wrote that had read the row before.
THEOREM SweptStaysClear == Spec => []SweptIsClear
  BY Inductive, PTL DEF IInv

\* When set_status or delete has answered and no request was cut short, the
\* account holds nothing but what requests overlapping it wrote.
THEOREM RevocationIsComplete == Spec => []RevocationComplete
<1>1. IInv => RevocationComplete
  <2> SUFFICES ASSUME IInv, ~Enabled, ~RequestsMayFail, \A a \in Admins : pc[a] = "idle"
               PROVE  \A s \in Stores : InRedis(s) \subseteq late[s]
    BY DEF RevocationComplete
  <2>1. account.commits > 0
    BY DEF IInv, IdentityInv, TypeOK, Commits
  <2> QED
    BY <2>1 DEF IInv, SweptIsClear, RevokerInv
<1> QED
  BY <1>1, Inductive, PTL

\* When the identity has been cleared after the last commit, or its request has
\* answered, requests are not served from a copy of an older row, unless one
\* that had read that row stored it since.
THEOREM IdentityStaysCurrent == Spec => []IdentityIsCurrent
<1>1. IInv => IdentityIsCurrent
  <2> SUFFICES ASSUME IInv, account.commits > 0,
                      \/ "identity" \in swept
                      \/ ~RequestsMayFail /\ \A a \in Admins : pc[a] = "idle"
               PROVE  identity \in {None, account.commits} \cup late["identity"]
    BY DEF IdentityIsCurrent
  <2>1. "identity" \in swept
    BY DEF IInv, RevokerInv, Stores
  <2> QED
    BY <2>1 DEF IInv, IdentityInv
<1> QED
  BY <1>1, Inductive, PTL

\* An account limited to one session has at most one live token of a family
\* per request that can run at the same time.
THEOREM SessionsAreBounded == Spec => []BoundedSessions
<1>1. IInv => BoundedSessions
  <2> SUFFICES ASSUME IInv, ~MultiLogin, NEW f \in Families
               PROVE  Cardinality(live[f]) <= Cardinality(Requests)
    BY DEF BoundedSessions
  <2> DEFINE Last == {stored[r][f] : r \in Requests}
             last == [r \in Requests |-> stored[r][f]]
  <2>1. IsFiniteSet(Requests)
    BY SessionsAssumption
  <2>2. IsFiniteSet(Last) /\ Cardinality(Last) <= Cardinality(Requests)
    <3>1. last \in Surjection(Requests, Last)
      BY DEF Surjection
    <3> QED
      BY <2>1, <3>1, FS_Surjection
  <2>3. live[f] \subseteq Last
    BY DEF IInv, OwnerInv, Owns
  <2>4. Cardinality(live[f]) <= Cardinality(Last) /\ IsFiniteSet(live[f])
    BY <2>2, <2>3, FS_Subset
  <2>5. Cardinality(live[f]) \in Nat /\ Cardinality(Last) \in Nat /\ Cardinality(Requests) \in Nat
    BY <2>1, <2>2, <2>4, FS_CardinalityType
  <2> QED
    BY <2>2, <2>4, <2>5
<1> QED
  BY <1>1, Inductive, PTL

\* Where several sessions are allowed, no request revokes a token it does not
\* carry.
THEOREM SessionsStayIndependent == Spec => SessionsIndependent
<1> DEFINE Kept == (MultiLogin /\ \A a \in Admins : pc[a] = "idle" /\ pc'[a] = "idle")
                   => \A f \in Families : \A t \in live[f] \ live'[f] :
                        \/ Expire
                        \/ \E r \in Requests : pc[r] = "drop" /\ loc[r].held[f] = t
<1>1. IInv /\ [Next]_vars => [Kept]_vars
  <2> SUFFICES ASSUME IInv, [Next]_vars, MultiLogin,
                      \A a \in Admins : pc[a] = "idle" /\ pc'[a] = "idle",
                      NEW f \in Families, NEW t \in live[f] \ live'[f], ~Expire
               PROVE  \E r \in Requests : pc[r] = "drop" /\ loc[r].held[f] = t
    OBVIOUS
  <2>1. ASSUME NEW r \in Requests, Start(r) \/ RequestStep(r), ~DropHeld(r) PROVE FALSE
    <3>1. ~Sweep(r)
      BY DEF IInv, ControlInv, Sweep
    <3>2. ~Store(r)
      BY DEF IInv, TypeOK, Store
    <3>3. CASE Start(r) \/ IdentityHit(r) \/ IdentityMiss(r) \/ LoadUser(r) \/ CacheUser(r)
      BY <3>3 DEF Start, LoginStart, CallStart, IdentityHit, IdentityMiss, LoadUser, CacheUser, store
    <3>4. CASE Serve(r) \/ RefreshRead(r) \/ RefreshCheck(r) \/ DropIdentity(r)
               \/ Mint(r) \/ Scan(r) \/ Answer(r)
      BY <3>4 DEF Serve, RefreshRead, RefreshCheck, DropIdentity, Mint, Scan, Answer, store
    <3> QED
      BY <2>1, <3>1, <3>2, <3>3, <3>4 DEF RequestStep
  <2>2. ASSUME NEW r \in Requests, DropHeld(r) PROVE pc[r] = "drop" /\ loc[r].held[f] = t
    <3>1. loc[r].fam \in Families
      BY LocalsFields DEF IInv, TypeOK, Procs
    <3> QED
      BY <2>2, <3>1 DEF IInv, TypeOK, DropHeld
  <2>3. ASSUME NEW a \in Admins, SetStatus(a) \/ DeleteAthlete(a) \/ AdminStep(a) PROVE FALSE
    <3>1. ASSUME NEW s \in {"enabled", "disabled", "deleted"}, Commit(a, s) PROVE FALSE
      BY <3>1 DEF IInv, TypeOK, Commit, Goto, Procs
    <3>2. ~AdminStep(a)
      BY DEF AdminStep, Scan, Sweep, ScanIdentity, SweepIdentity
    <3> QED
      BY <2>3, <3>1, <3>2 DEF SetStatus, DeleteAthlete
  <2>4. ASSUME Tick \/ (\E p \in Procs : Fail(p)) \/ UNCHANGED vars PROVE FALSE
    BY <2>4 DEF Tick, Fail, vars, store
  <2> QED
    BY <2>1, <2>2, <2>3, <2>4 DEF Next
<1> QED
  BY <1>1, Inductive, PTL DEF Spec, SessionsIndependent
=============================================================================
