-------------------------- MODULE DeploymentProofs --------------------------
(***************************************************************************)
(* Proofs about Deployment, for any length of the chain of revisions and   *)
(* any number of restarts: production's schema is always that of a         *)
(* revision, what serves is migrated, the policy gives up on faults only,  *)
(* and a generated model reaches production where only migrations make     *)
(* tables.                                                                 *)
(***************************************************************************)
EXTENDS Deployment, TLAPS

-----------------------------------------------------------------------------
(* The inductive invariant                                                 *)

Chain(stack) == code[stack].chain

\* The tables that revisions m + 1 to n create.
CreatedAfter(chain, m, n) == UNION {chain[i] : i \in m + 1 .. n}

\* No table is created twice.
Apart(chain) == \A i, j \in 1 .. Len(chain) : i # j => chain[i] \cap chain[j] = {}

\* A database at a revision has its tables, and no other where create_all does
\* not run.
DatabaseFits(stack, chain, present, at, auto) ==
  /\ CreatedBy(chain, at) \subseteq present
  /\ stack = "prod" \/ ~auto => present = CreatedBy(chain, at)

\* What is about to be written is a stretch of the chain; in production up to
\* its end, with the database still at the start of it or already at its end.
PlanFits(stack, p, chain, at, auto) ==
  /\ p.kind = "none" => p.creates = {}
  /\ p.kind = "create" => stack = "dev" /\ auto
  /\ p.kind = "upgrade" =>
       /\ p.from <= p.to /\ p.to <= Len(chain)
       /\ p.creates = CreatedAfter(chain, p.from, p.to)
       /\ stack = "prod" => p.to = Len(chain) /\ at \in {p.from, p.to}

\* Production's chain is a part of the developer's.
ChainInv ==
  /\ \A s \in Stacks : Apart(Chain(s))
  /\ Newest("prod") <= Newest("dev")
  /\ \A i \in 1 .. Newest("prod") : Chain("prod")[i] = Chain("dev")[i]

TablesInv == \A s \in Stacks : DatabaseFits(s, Chain(s), tables[s], stamp[s], autoCreate)

PlansInv ==
  \A s \in Stacks :
    /\ PlanFits(s, plan[s], Chain(s), stamp[s], autoCreate)
    /\ PlanFits(s, operator[s], Chain(s), stamp[s], autoCreate)

\* Behind the entrypoint's upgrade the database is at the end of the chain.
Migrated == {"starting", "connecting", "serving"}
BootInv ==
  /\ pc["prod"] \in Migrated => stamp["prod"] = Newest("prod")
  /\ pc["prod"] \notin {"creating", "stalled"}
  /\ pc["prod"] = "applying" => plan["prod"].kind = "upgrade"

\* All attempts but one were spent on faults from outside, and that one only
\* with the database at the end of the chain.
CountInv ==
  /\ pc["prod"] # "abandoned" => attempts + lapses <= MaxAttempts
  /\ attempts + lapses + 1 >= MaxAttempts
  /\ attempts + lapses < MaxAttempts => stamp["prod"] = Newest("prod") /\ pc["prod"] # "applying"
  /\ GivesUpOnlyOnFaults

\* Where only migrations make tables, the chain makes those of all the models
\* there were when it was last extended.
GeneratedInv ==
  ~autoCreate => \A s \in Stacks : code[s].generated \subseteq CreatedBy(Chain(s), Newest(s))

\* The part about codes, databases and plans, and the part about the container
\* of production.
DataInv ==
  /\ code \in [Stacks -> Codes]
  /\ tables \in [Stacks -> SUBSET Tables]
  /\ stamp \in [Stacks -> Nat] /\ \A s \in Stacks : stamp[s] <= Newest(s)
  /\ autoCreate \in BOOLEAN /\ secrets \in BOOLEAN
  /\ plan \in [Stacks -> Plans] /\ operator \in [Stacks -> Plans]
  /\ ChainInv /\ TablesInv /\ PlansInv /\ GeneratedInv

ControlInv ==
  /\ pc \in [Stacks -> Running \cup {"down", "abandoned"}]
  /\ attempts \in 0 .. MaxAttempts /\ lapses \in 0 .. MaxAttempts + 1
  /\ BootInv /\ CountInv

IInv == DataInv /\ ControlInv

-----------------------------------------------------------------------------
(* Lemmas about chains of revisions                                        *)

\* The tables of the first n revisions are those of the first m and those of
\* the rest (CreatedBy, the tables of alembic/versions).
LEMMA Stretches ==
  ASSUME NEW chain, NEW m \in Nat, NEW n \in Nat, m <= n
  PROVE  CreatedBy(chain, n) = CreatedBy(chain, m) \cup CreatedAfter(chain, m, n)
<1>1. 1 .. n = (1 .. m) \cup (m + 1 .. n)
  OBVIOUS
<1>2. QED
  BY <1>1, Zenon DEF CreatedBy, CreatedAfter

\* Revisions that create no table twice have none in common with those after
\* them, so that an upgrade from where the database is meets no table.
LEMMA StretchesAreApart ==
  ASSUME NEW chain, Apart(chain), NEW m \in Nat, NEW n \in Nat, n <= Len(chain), Len(chain) \in Nat
  PROVE  CreatedBy(chain, m) \cap CreatedAfter(chain, m, n) = {}
<1>1. SUFFICES ASSUME NEW t \in CreatedBy(chain, m), t \in CreatedAfter(chain, m, n)
               PROVE  FALSE
  OBVIOUS
<1>2. PICK i \in 1 .. m : t \in chain[i]
  BY <1>1 DEF CreatedBy
<1>3. PICK j \in m + 1 .. n : t \in chain[j]
  BY <1>1 DEF CreatedAfter
<1>4. i \in 1 .. Len(chain) /\ j \in 1 .. Len(chain) /\ i # j
  BY <1>2, <1>3
<1>5. QED
  BY <1>2, <1>3, <1>4 DEF Apart

\* Chains that begin alike create the same tables as far as they do (the chain
\* that a deployment replaces, and the one that a new revision extends).
LEMMA CommonStart ==
  ASSUME NEW c, NEW d, NEW k \in Nat, \A i \in 1 .. k : c[i] = d[i],
         NEW m \in Nat, NEW n \in Nat, n <= k
  PROVE  CreatedBy(c, n) = CreatedBy(d, n) /\ CreatedAfter(c, m, n) = CreatedAfter(d, m, n)
<1>1. \A i \in 1 .. n : c[i] = d[i]
  OBVIOUS
<1>2. \A i \in m + 1 .. n : c[i] = d[i]
  OBVIOUS
<1>3. CreatedBy(c, n) = CreatedBy(d, n)
  BY <1>1, Zenon DEF CreatedBy
<1>4. CreatedAfter(c, m, n) = CreatedAfter(d, m, n)
  BY <1>2, Zenon DEF CreatedAfter
<1>5. QED
  BY <1>3, <1>4

\* Writing a plan that does not clash leaves a database of a revision (Execute).
LEMMA ExecuteFits ==
  ASSUME NEW stack \in Stacks, NEW chain \in Seq(SUBSET Tables), NEW present,
         NEW at \in Nat, at <= Len(chain), NEW auto \in BOOLEAN, NEW p \in Plans,
         DatabaseFits(stack, chain, present, at, auto),
         PlanFits(stack, p, chain, at, auto),
         p.kind = "upgrade" => p.from = at
  PROVE  IF p.kind = "upgrade"
         THEN /\ p.to \in Nat /\ p.to <= Len(chain)
              /\ DatabaseFits(stack, chain, present \cup p.creates, p.to, auto)
         ELSE DatabaseFits(stack, chain, present \cup p.creates, at, auto)
<1>1. CASE p.kind = "upgrade"
  <2>1. p.to \in Nat /\ at <= p.to /\ p.to <= Len(chain)
    BY <1>1 DEF Plans, PlanFits
  <2>2. p.creates = CreatedAfter(chain, at, p.to)
    BY <1>1 DEF PlanFits
  <2>3. CreatedBy(chain, p.to) = CreatedBy(chain, at) \cup CreatedAfter(chain, at, p.to)
    BY <2>1, Stretches
  <2>4. QED
    BY <1>1, <2>1, <2>2, <2>3 DEF DatabaseFits
<1>2. CASE p.kind = "none"
  BY <1>2 DEF DatabaseFits, PlanFits
<1>3. CASE p.kind = "create"
  BY <1>3 DEF DatabaseFits, PlanFits
<1>4. QED
  BY <1>1, <1>2, <1>3 DEF Plans

\* In production an upgrade clashes only with another one that has taken the
\* database to the end of the chain (Clash).
LEMMA ClashIsLate ==
  ASSUME NEW chain \in Seq(SUBSET Tables), Apart(chain), NEW present,
         NEW at \in Nat, at <= Len(chain), NEW auto \in BOOLEAN, NEW p \in Plans,
         p.kind = "upgrade",
         DatabaseFits("prod", chain, present, at, auto),
         PlanFits("prod", p, chain, at, auto),
         p.creates \cap present # {} \/ p.from # at
  PROVE  at = Len(chain)
<1>1. Len(chain) \in Nat /\ p.from \in Nat /\ p.to = Len(chain) /\ at \in {p.from, p.to}
  BY DEF Plans, PlanFits
<1>2. CASE p.from = at
  <2>1. present = CreatedBy(chain, at) /\ p.creates = CreatedAfter(chain, at, Len(chain))
    BY <1>1, <1>2 DEF DatabaseFits, PlanFits
  <2>2. QED
    BY <1>1, <1>2, <2>1, StretchesAreApart
<1>3. QED
  BY <1>1, <1>2

\* The plan of another survives an upgrade (two alembic processes at a time).
LEMMA PlanSurvives ==
  ASSUME NEW stack \in Stacks, NEW chain, NEW at, NEW new, NEW auto, NEW p,
         PlanFits(stack, p, chain, at, auto),
         new = at \/ stack = "dev" \/ new = Len(chain)
  PROVE  PlanFits(stack, p, chain, new, auto)
BY DEF PlanFits, Stacks

\* A developer's database and plans survive a new revision (Generate).
LEMMA ExtensionFits ==
  ASSUME NEW chain \in Seq(SUBSET Tables), NEW new \in SUBSET Tables, NEW auto \in BOOLEAN,
         NEW at \in Nat, at <= Len(chain)
  PROVE  /\ CreatedBy(Append(chain, new), at) = CreatedBy(chain, at)
         /\ CreatedBy(Append(chain, new), Len(chain) + 1) = CreatedBy(chain, Len(chain)) \cup new
         /\ \A p : p \in Plans /\ PlanFits("dev", p, chain, at, auto)
              => PlanFits("dev", p, Append(chain, new), at, auto)
<1> DEFINE longer == Append(chain, new)
<1>1. /\ Len(chain) \in Nat /\ Len(longer) = Len(chain) + 1
      /\ \A i \in 1 .. Len(chain) : longer[i] = chain[i]
      /\ longer[Len(chain) + 1] = new
  OBVIOUS
<1> HIDE DEF longer
<1>2. ASSUME NEW m \in Nat, NEW n \in Nat, n <= Len(chain)
      PROVE  /\ CreatedBy(longer, n) = CreatedBy(chain, n)
             /\ CreatedAfter(longer, m, n) = CreatedAfter(chain, m, n)
  <2> DEFINE k == Len(chain)
  <2>1. k \in Nat /\ n <= k /\ \A i \in 1 .. k : longer[i] = chain[i]
    BY <1>1, <1>2
  <2> HIDE DEF k
  <2>2. QED
    BY <2>1, CommonStart
<1>3. CreatedAfter(longer, Len(chain), Len(chain) + 1) = new
  <2>1. Len(chain) + 1 .. Len(chain) + 1 = {Len(chain) + 1}
    BY <1>1
  <2>2. QED
    BY <1>1, <2>1, Zenon DEF CreatedAfter
<1>4. CreatedBy(longer, Len(chain) + 1) = CreatedBy(chain, Len(chain)) \cup new
  BY <1>1, <1>2, <1>3, Stretches
<1>5. ASSUME NEW p \in Plans, PlanFits("dev", p, chain, at, auto)
      PROVE  PlanFits("dev", p, longer, at, auto)
  BY <1>1, <1>2, <1>5 DEF PlanFits, Plans
<1>6. QED
  BY <1>1, <1>2, <1>4, <1>5 DEF longer

-----------------------------------------------------------------------------
(* Lemmas about steps                                                      *)

\* What the types say of a stack.
LEMMA StackTypes ==
  ASSUME DataInv, NEW s \in Stacks
  PROVE  /\ Chain(s) \in Seq(SUBSET Tables) /\ Apart(Chain(s))
         /\ Newest(s) = Len(Chain(s)) /\ Newest(s) \in Nat
         /\ stamp[s] \in Nat /\ stamp[s] <= Newest(s)
         /\ tables[s] \in SUBSET Tables
         /\ plan[s] \in Plans /\ operator[s] \in Plans
         /\ DatabaseFits(s, Chain(s), tables[s], stamp[s], autoCreate)
         /\ PlanFits(s, plan[s], Chain(s), stamp[s], autoCreate)
         /\ PlanFits(s, operator[s], Chain(s), stamp[s], autoCreate)
<1>1. code[s].chain \in Seq(SUBSET Tables)
  BY DEF DataInv, Codes
<1>2. QED
  BY <1>1 DEF DataInv, ChainInv, TablesInv, PlansInv, Chain, Newest

\* A plan of a stack that does not clash is written.
Writes(s, p) == ~Clash(s, p) /\ Execute(s, p)
Written == \E s \in Stacks : Writes(s, plan[s]) \/ Writes(s, operator[s])

\* The revisions stay as they are (models may be added).
SameRevisions ==
  /\ code' \in [Stacks -> Codes]
  /\ \A s \in Stacks : code'[s].chain = code[s].chain /\ code'[s].generated = code[s].generated

\* Writing keeps the databases those of revisions and production where it is or
\* at the end of its chain (Execute, at the end of Apply, CreateTable and
\* MigratedByHand).
LEMMA WrittenFits ==
  ASSUME DataInv, Written, SameRevisions, UNCHANGED settings
  PROVE  /\ tables' \in [Stacks -> SUBSET Tables]
         /\ stamp' \in [Stacks -> Nat] /\ \A t \in Stacks : stamp'[t] <= Newest(t)
         /\ TablesInv'
         /\ \A t \in Stacks : stamp'[t] = stamp[t] \/ t = "dev" \/ stamp'[t] = Newest(t)
<1>1. PICK s \in Stacks : Writes(s, plan[s]) \/ Writes(s, operator[s])
  BY DEF Written
<1>2. ASSUME NEW p \in Plans, PlanFits(s, p, Chain(s), stamp[s], autoCreate), Writes(s, p)
      PROVE  /\ tables' \in [Stacks -> SUBSET Tables]
             /\ stamp' \in [Stacks -> Nat] /\ \A t \in Stacks : stamp'[t] <= Newest(t)
             /\ \A t \in Stacks : DatabaseFits(t, Chain(t), tables'[t], stamp'[t], autoCreate)
             /\ \A t \in Stacks : stamp'[t] = stamp[t] \/ t = "dev" \/ stamp'[t] = Newest(t)
  <2> DEFINE new == IF p.kind = "upgrade" THEN p.to ELSE stamp[s]
  <2>1. /\ tables' = [tables EXCEPT ![s] = @ \cup p.creates]
        /\ stamp' = [stamp EXCEPT ![s] = new]
    BY <1>2 DEF Writes, Execute, DataInv
  <2>2. p.kind = "upgrade" => p.from = stamp[s]
    BY <1>2 DEF Writes, Clash
  <2>3. /\ new \in Nat /\ new <= Len(Chain(s))
        /\ DatabaseFits(s, Chain(s), tables[s] \cup p.creates, new, autoCreate)
    <3>1. /\ autoCreate \in BOOLEAN
          /\ Chain(s) \in Seq(SUBSET Tables) /\ stamp[s] \in Nat /\ stamp[s] <= Len(Chain(s))
          /\ DatabaseFits(s, Chain(s), tables[s], stamp[s], autoCreate)
      BY StackTypes DEF DataInv
    <3>2. IF p.kind = "upgrade"
          THEN /\ p.to \in Nat /\ p.to <= Len(Chain(s))
               /\ DatabaseFits(s, Chain(s), tables[s] \cup p.creates, p.to, autoCreate)
          ELSE DatabaseFits(s, Chain(s), tables[s] \cup p.creates, stamp[s], autoCreate)
      BY <1>2, <2>2, <3>1, ExecuteFits
    <3>3. QED
      BY <3>1, <3>2
  <2>4. new = stamp[s] \/ s = "dev" \/ new = Newest(s)
    BY <1>2, StackTypes DEF PlanFits, Stacks
  <2> HIDE DEF new
  <2>5. p.creates \in SUBSET Tables
    BY DEF Plans
  <2>6. tables' \in [Stacks -> SUBSET Tables] /\ stamp' \in [Stacks -> Nat]
    BY <2>1, <2>3, <2>5 DEF DataInv
  <2>7. ASSUME NEW t \in Stacks
        PROVE  /\ stamp'[t] <= Newest(t)
               /\ DatabaseFits(t, Chain(t), tables'[t], stamp'[t], autoCreate)
               /\ stamp'[t] = stamp[t] \/ t = "dev" \/ stamp'[t] = Newest(t)
    <3>1. CASE t = s
      <4>1. tables'[t] = tables[s] \cup p.creates /\ stamp'[t] = new
        BY <2>1, <3>1 DEF DataInv
      <4>2. QED
        BY <2>3, <2>4, <3>1, <4>1, StackTypes
    <3>2. CASE t # s
      <4>1. tables'[t] = tables[t] /\ stamp'[t] = stamp[t]
        BY <2>1, <3>2 DEF DataInv
      <4>2. QED
        BY <4>1, StackTypes
    <3>3. QED
      BY <3>1, <3>2
  <2>8. QED
    BY <2>6, <2>7
<1>3. \A t \in Stacks : (Chain(t))' = Chain(t) /\ autoCreate' = autoCreate
  BY DEF Chain, settings, SameRevisions
<1>4. CASE Writes(s, plan[s])
  BY <1>2, <1>3, <1>4, StackTypes DEF TablesInv
<1>5. CASE Writes(s, operator[s])
  BY <1>2, <1>3, <1>5, StackTypes DEF TablesInv
<1>6. QED
  BY <1>1, <1>4, <1>5

\* A plan fits a stack as it is.
FitsNow(s, p) == p \in Plans /\ PlanFits(s, p, Chain(s), stamp[s], autoCreate)

\* A step that leaves the revisions alone, writes a plan or nothing, and plans what
\* fits, keeps all there is to say of the data.
LEMMA DataKept ==
  ASSUME DataInv, SameRevisions, UNCHANGED settings, Written \/ UNCHANGED database,
         plan' \in [Stacks -> Plans], operator' \in [Stacks -> Plans],
         \A s \in Stacks : FitsNow(s, plan'[s]) /\ FitsNow(s, operator'[s])
  PROVE  /\ DataInv'
         /\ \A s \in Stacks : Newest(s)' = Newest(s)
         /\ stamp["prod"] = Newest("prod") => stamp'["prod"] = Newest("prod")
<1>1. /\ tables' \in [Stacks -> SUBSET Tables]
      /\ stamp' \in [Stacks -> Nat] /\ \A t \in Stacks : stamp'[t] <= Newest(t)
      /\ TablesInv'
      /\ \A t \in Stacks : stamp'[t] = stamp[t] \/ t = "dev" \/ stamp'[t] = Newest(t)
  <2>1. CASE Written
    BY <2>1, WrittenFits
  <2>2. CASE UNCHANGED database
    BY <2>2 DEF DataInv, TablesInv, database, settings, Chain, SameRevisions, Newest
  <2>3. QED
    BY <2>1, <2>2
<1>2. /\ \A s \in Stacks : Newest(s)' = Newest(s) /\ (Chain(s))' = Chain(s)
      /\ autoCreate' = autoCreate /\ secrets' = secrets
  BY DEF Newest, Chain, settings, SameRevisions
<1>3. PlansInv'
  <2>1. ASSUME NEW s \in Stacks
        PROVE  /\ PlanFits(s, plan'[s], Chain(s), stamp'[s], autoCreate)
               /\ PlanFits(s, operator'[s], Chain(s), stamp'[s], autoCreate)
    BY <1>1, StackTypes, PlanSurvives DEF FitsNow
  <2>2. QED
    BY <1>2, <2>1 DEF PlansInv
<1>4. ChainInv' /\ GeneratedInv'
  <2>1. ChainInv'
    <3>1. /\ \A s \in Stacks : Apart((Chain(s))')
          /\ Newest("prod")' <= Newest("dev")'
      BY <1>2 DEF DataInv, ChainInv, Stacks
    <3>2. \A i \in 1 .. Newest("prod")' : (Chain("prod"))'[i] = (Chain("dev"))'[i]
      BY <1>2 DEF DataInv, ChainInv, Stacks
    <3>3. QED
      BY <3>1, <3>2 DEF ChainInv
  <2>2. \A s \in Stacks : CreatedBy((Chain(s))', Newest(s)') = CreatedBy(Chain(s), Newest(s))
    BY <1>2
  <2>3. GeneratedInv'
    BY <1>2, <2>2 DEF DataInv, GeneratedInv, SameRevisions
  <2>4. QED
    BY <2>1, <2>3
<1>5. DataInv'
  BY <1>1, <1>2, <1>3, <1>4 DEF DataInv, SameRevisions
<1>6. stamp["prod"] = Newest("prod") => stamp'["prod"] = Newest("prod")
  BY <1>1 DEF Stacks
<1>7. QED
  BY <1>2, <1>5, <1>6

\* The policy counts with natural numbers.
LEMMA CountTypes ==
  ASSUME ControlInv
  PROVE  MaxAttempts \in Nat /\ attempts \in Nat /\ attempts <= MaxAttempts /\ lapses \in Nat
<1>1. MaxAttempts \in Nat
  BY DeploymentAssumption
<1>2. QED
  BY <1>1 DEF ControlInv

\* A step that leaves the code alone leaves its revisions alone.
LEMMA SameCode ==
  ASSUME DataInv, UNCHANGED code
  PROVE  SameRevisions
BY DEF DataInv, SameRevisions

\* What a container was about to write is forgotten (Fail, Stall, Deploy).
LEMMA NoPlanFits ==
  ASSUME NEW s \in Stacks
  PROVE  FitsNow(s, NoPlan)
BY DEF FitsNow, NoPlan, Plans, PlanFits

\* A plan that is kept fits as it did, one that is dropped fits too.
LEMMA OldPlansFit ==
  ASSUME DataInv, NEW s \in Stacks, NEW p, p \in {plan[s], operator[s], NoPlan}
  PROVE  FitsNow(s, p)
BY StackTypes, NoPlanFits DEF FitsNow

\* alembic plans the rest of the chain (UpgradePlan).
LEMMA UpgradePlanFits ==
  ASSUME DataInv, NEW s \in Stacks
  PROVE  FitsNow(s, UpgradePlan(s)) /\ UpgradePlan(s).kind = "upgrade"
<1>1. UpgradePlan(s).creates = CreatedAfter(Chain(s), stamp[s], Newest(s))
  BY DEF UpgradePlan, CreatedAfter, Chain
<1>2. UpgradePlan(s).creates \in SUBSET Tables
  <2>1. \A i \in stamp[s] + 1 .. Newest(s) : Chain(s)[i] \in SUBSET Tables
    BY StackTypes
  <2>2. QED
    BY <1>1, <2>1 DEF CreatedAfter
<1>3. UpgradePlan(s) \in Plans
  BY <1>2, StackTypes DEF UpgradePlan, Plans
<1>4. QED
  BY <1>1, <1>3, StackTypes DEF FitsNow, PlanFits, UpgradePlan

\* create_all plans nothing in production (CreatePlan).
LEMMA CreatePlanFits ==
  ASSUME DataInv, autoCreate
  PROVE  FitsNow("dev", CreatePlan("dev"))
<1>1. "dev" \in Stacks /\ code["dev"].models \in SUBSET Tables
  BY DEF DataInv, Codes, Stacks
<1>2. QED
  BY <1>1 DEF FitsNow, CreatePlan, NoPlan, Plans, PlanFits

\* What a step of the developer's stack leaves of production's.
LEMMA ControlKept ==
  ASSUME ControlInv, UNCHANGED policy,
         pc' \in [Stacks -> Running \cup {"down", "abandoned"}],
         pc'["prod"] = pc["prod"], plan'["prod"].kind = plan["prod"].kind,
         stamp["prod"] = Newest("prod") => stamp'["prod"] = Newest("prod")'
  PROVE  ControlInv'
BY DEF ControlInv, BootInv, CountInv, GivesUpOnlyOnFaults, policy

\* An error that ends a process leaves the counts right: an attempt is spent on
\* a fault from outside, or on an upgrade that came too late (Fail).
LEMMA FailKeeps ==
  ASSUME IInv, NEW s \in Stacks, NEW lapse \in {0, 1}, Fail(s, lapse),
         UNCHANGED <<code, database, settings>>,
         pc[s] \in Running,
         s = "prod" /\ lapse = 0 => pc["prod"] = "applying" /\ stamp["prod"] = Newest("prod")
  PROVE  IInv'
<1>1. /\ plan' = [plan EXCEPT ![s] = NoPlan] /\ operator' = [operator EXCEPT ![s] = NoPlan]
      /\ \A t \in Stacks : plan'[t] \in {plan[t], NoPlan} /\ operator'[t] \in {operator[t], NoPlan}
  BY DEF Fail, IInv, DataInv
<1>2. \A t \in Stacks : FitsNow(t, plan'[t]) /\ FitsNow(t, operator'[t])
  BY <1>1, OldPlansFit DEF IInv
<1>3. plan' \in [Stacks -> Plans] /\ operator' \in [Stacks -> Plans]
  BY <1>1, NoPlanFits DEF FitsNow, IInv, DataInv
<1>4. DataInv' /\ Newest("prod")' = Newest("prod")
  BY <1>2, <1>3, SameCode, DataKept DEF IInv, Stacks
<1>5. stamp' = stamp
  BY DEF database
<1>6. ControlInv'
  <2>1. CASE s = "dev"
    <3>1. /\ pc' = [pc EXCEPT !["dev"] = "down"] /\ UNCHANGED policy
          /\ plan'["prod"] = plan["prod"]
      BY <1>1, <2>1 DEF Fail, Goto, policy, IInv, DataInv, Stacks
    <3>2. QED
      BY <1>4, <1>5, <3>1, ControlKept DEF IInv, ControlInv, Stacks
  <2>2. CASE s = "prod"
    <3>1. /\ lapses' = lapses + lapse
          /\ \/ attempts > 0 /\ attempts' = attempts - 1 /\ pc' = [pc EXCEPT !["prod"] = "upgrade"]
             \/ ~(attempts > 0) /\ attempts' = attempts
                /\ pc' = [pc EXCEPT !["prod"] = "abandoned"]
      BY <2>2, Zenon DEF Fail, Goto
    <3>2. /\ pc["prod"] # "abandoned" /\ pc \in [Stacks -> Running \cup {"down", "abandoned"}]
          /\ MaxAttempts \in Nat /\ attempts \in Nat /\ attempts <= MaxAttempts /\ lapses \in Nat
      BY <2>2, CountTypes DEF Running, IInv, ControlInv
    <3>3. /\ attempts + lapses <= MaxAttempts /\ attempts + lapses + 1 >= MaxAttempts
          /\ attempts + lapses < MaxAttempts
               => stamp["prod"] = Newest("prod") /\ pc["prod"] # "applying"
      BY <3>2, Zenon DEF IInv, ControlInv, CountInv
    <3>4. lapse = 1 \/ (lapse = 0 /\ attempts + lapses >= MaxAttempts
                        /\ stamp["prod"] = Newest("prod"))
      BY <2>2, <3>2, <3>3
    <3>5. pc' \in [Stacks -> Running \cup {"down", "abandoned"}]
      BY <3>1, <3>2 DEF Running
    <3>6. CASE attempts > 0
      <4>1. pc'["prod"] = "upgrade" /\ attempts' = attempts - 1
        BY <3>1, <3>2, <3>6 DEF Stacks
      <4>2. attempts' \in 0 .. MaxAttempts /\ lapses' \in 0 .. MaxAttempts + 1
        BY <3>1, <3>2, <3>3, <3>6, <4>1
      <4>3. /\ attempts' + lapses' <= MaxAttempts /\ attempts' + lapses' + 1 >= MaxAttempts
            /\ attempts' + lapses' < MaxAttempts => stamp["prod"] = Newest("prod")
        BY <3>1, <3>2, <3>3, <3>4, <3>6, <4>1
      <4>4. QED
        BY <1>4, <1>5, <3>5, <4>1, <4>2, <4>3
        DEF ControlInv, BootInv, CountInv, GivesUpOnlyOnFaults, Migrated
    <3>7. CASE ~(attempts > 0)
      <4>1. pc'["prod"] = "abandoned" /\ attempts = 0 /\ attempts' = 0
        BY <3>1, <3>2, <3>7 DEF Stacks
      <4>2. attempts' \in 0 .. MaxAttempts /\ lapses' \in 0 .. MaxAttempts + 1
        BY <3>1, <3>2, <3>3, <4>1
      <4>3. lapses' >= MaxAttempts
        BY <3>1, <3>2, <3>3, <3>4, <4>1
      <4>4. attempts' + lapses' + 1 >= MaxAttempts /\ ~(attempts' + lapses' < MaxAttempts)
        BY <3>1, <3>2, <4>1, <4>3
      <4>5. QED
        BY <1>4, <1>5, <3>5, <4>1, <4>2, <4>3, <4>4
        DEF ControlInv, BootInv, CountInv, GivesUpOnlyOnFaults, Migrated
    <3>8. QED
      BY <3>6, <3>7
  <2>3. QED
    BY <2>1, <2>2 DEF Stacks
<1>7. QED
  BY <1>4, <1>6 DEF IInv

-----------------------------------------------------------------------------
(* Every action preserves the invariant                                    *)

\* The steps that leave codes and databases alone and drop plans or keep them.
Quiet ==
  /\ UNCHANGED <<code, database, settings>>
  /\ plan' \in [Stacks -> Plans] /\ operator' \in [Stacks -> Plans]
  /\ \A s \in Stacks : FitsNow(s, plan'[s]) /\ FitsNow(s, operator'[s])

\* Such a step leaves nothing to show of the data.
LEMMA QuietKeeps ==
  ASSUME IInv, Quiet
  PROVE  DataInv' /\ stamp' = stamp /\ Newest("prod")' = Newest("prod")
BY SameCode, DataKept DEF IInv, Quiet, database, Stacks

\* A container that is started has all its attempts (docker compose up).
LEMMA UpKeeps ==
  ASSUME IInv, NEW s \in Stacks, Up(s)
  PROVE  IInv'
<1>1. Quiet
  BY OldPlansFit DEF Up, Quiet, IInv, DataInv
<1>2. DataInv' /\ stamp' = stamp /\ Newest("prod")' = Newest("prod")
  BY <1>1, QuietKeeps
<1>3. pc' \in [Stacks -> Running \cup {"down", "abandoned"}]
  BY DEF Up, Goto, Running, IInv, ControlInv
<1>4. CASE s = "dev"
  <2>1. pc'["prod"] = pc["prod"] /\ UNCHANGED policy /\ plan' = plan
    BY <1>4 DEF Up, Goto, IInv, ControlInv, Stacks
  <2>2. QED
    BY <1>2, <1>3, <2>1, ControlKept DEF IInv
<1>5. CASE s = "prod"
  <2>1. pc'["prod"] = "upgrade" /\ attempts' = MaxAttempts /\ lapses' = 0
    BY <1>5 DEF Up, Goto, IInv, ControlInv, Stacks
  <2>2. MaxAttempts \in Nat
    BY CountTypes DEF IInv
  <2>3. QED
    BY <1>2, <1>3, <2>1, <2>2
    DEF IInv, ControlInv, BootInv, CountInv, GivesUpOnlyOnFaults, Migrated
<1>6. QED
  BY <1>4, <1>5 DEF Stacks

\* The entrypoint goes on only from the end of the chain, else it plans the rest
\* (alembic upgrade head, before its transaction).
LEMMA PlanUpgradeKeeps ==
  ASSUME IInv, NEW s \in Stacks, PlanUpgrade(s)
  PROVE  IInv'
<1>1. CASE Fail(s, 1)
  BY <1>1, FailKeeps DEF PlanUpgrade, Running
<1>2. CASE /\ stamp[s] = Newest(s) /\ Goto(s, "starting") /\ UNCHANGED plan
           /\ UNCHANGED <<operator, policy>>
  <2>1. Quiet
    BY <1>2, OldPlansFit DEF PlanUpgrade, Quiet, IInv, DataInv
  <2>2. DataInv' /\ stamp' = stamp /\ Newest("prod")' = Newest("prod")
    BY <2>1, QuietKeeps
  <2>3. /\ pc[s] = "upgrade" /\ pc' = [pc EXCEPT ![s] = "starting"]
        /\ plan' = plan /\ UNCHANGED policy
    BY <1>2 DEF PlanUpgrade, Goto
  <2>4. ControlInv'
    BY <1>2, <2>2, <2>3
    DEF IInv, ControlInv, BootInv, CountInv, GivesUpOnlyOnFaults, Migrated, Running, policy, Stacks
  <2>5. QED
    BY <2>2, <2>4 DEF IInv
<1>3. CASE /\ stamp[s] # Newest(s) /\ Goto(s, "applying")
           /\ plan' = [plan EXCEPT ![s] = UpgradePlan(s)]
           /\ UNCHANGED <<operator, policy>>
  <2>1. FitsNow(s, UpgradePlan(s)) /\ UpgradePlan(s).kind = "upgrade"
    BY UpgradePlanFits DEF IInv
  <2>2. Quiet
    BY <1>3, <2>1, OldPlansFit DEF PlanUpgrade, Quiet, IInv, DataInv, FitsNow
  <2>3. DataInv' /\ stamp' = stamp /\ Newest("prod")' = Newest("prod")
    BY <2>2, QuietKeeps
  <2>4. /\ pc[s] = "upgrade" /\ pc' = [pc EXCEPT ![s] = "applying"] /\ UNCHANGED policy
        /\ s = "prod" => plan'["prod"].kind = "upgrade"
        /\ s # "prod" => plan'["prod"] = plan["prod"]
    BY <1>3, <2>1 DEF PlanUpgrade, Goto, IInv, DataInv, Stacks
  <2>5. ControlInv'
    BY <1>3, <2>3, <2>4
    DEF IInv, ControlInv, BootInv, CountInv, GivesUpOnlyOnFaults, Migrated, Running, policy, Stacks
  <2>6. QED
    BY <2>3, <2>5 DEF IInv
<1>4. QED
  BY <1>1, <1>2, <1>3 DEF PlanUpgrade

\* Only production counts, and there a clash is a late one.
LEMMA ApplyKeeps ==
  ASSUME IInv, NEW s \in Stacks, Apply(s)
  PROVE  IInv'
<1>1. CASE Fail(s, 1) /\ UNCHANGED database
  BY <1>1, FailKeeps DEF Apply, Running
<1>2. CASE Clash(s, plan[s]) /\ Fail(s, 0) /\ UNCHANGED database
  <2>1. ASSUME s = "prod"
        PROVE  stamp["prod"] = Newest("prod")
    <3>1. /\ plan["prod"].kind = "upgrade"
          /\ plan["prod"].creates \cap tables["prod"] # {} \/ plan["prod"].from # stamp["prod"]
      BY <1>2, <2>1 DEF Apply, Clash, IInv, ControlInv, BootInv
    <3>2. autoCreate \in BOOLEAN
      BY DEF IInv, DataInv
    <3>3. QED
      BY <2>1, <3>1, <3>2, StackTypes, ClashIsLate DEF IInv
  <2>2. QED
    BY <1>2, <2>1, FailKeeps DEF Apply, Running
<1>3. CASE /\ ~Clash(s, plan[s])
           /\ Execute(s, plan[s])
           /\ Goto(s, "starting")
           /\ plan' = [plan EXCEPT ![s] = NoPlan]
           /\ UNCHANGED <<operator, policy>>
  <2>1. Written
    BY <1>3 DEF Written, Writes
  <2>2. /\ plan' \in [Stacks -> Plans] /\ operator' \in [Stacks -> Plans]
        /\ \A t \in Stacks : FitsNow(t, plan'[t]) /\ FitsNow(t, operator'[t])
    BY <1>3, OldPlansFit, NoPlanFits DEF IInv, DataInv, FitsNow
  <2>3. DataInv' /\ Newest("prod")' = Newest("prod")
    BY <2>1, <2>2, SameCode, DataKept DEF Apply, IInv, Stacks
  <2>4. stamp["prod"] = Newest("prod") => stamp'["prod"] = Newest("prod")
    BY <2>1, <2>2, SameCode, DataKept DEF Apply, IInv
  <2>5. /\ pc[s] = "applying" /\ pc' = [pc EXCEPT ![s] = "starting"] /\ UNCHANGED policy
        /\ s # "prod" => plan'["prod"] = plan["prod"]
    BY <1>3 DEF Apply, Goto, IInv, DataInv, Stacks
  <2>6. CASE s = "prod"
    <3>1. plan["prod"].kind = "upgrade"
      BY <2>5, <2>6 DEF IInv, ControlInv, BootInv
    <3>2. plan["prod"].to = Newest("prod")
      BY <2>6, <3>1, StackTypes DEF IInv, PlanFits
    <3>3. stamp' = [stamp EXCEPT !["prod"] = Newest("prod")]
      BY <1>3, <2>6, <3>1, <3>2 DEF Execute
    <3>4. stamp'["prod"] = Newest("prod")
      BY <3>3 DEF IInv, DataInv, Stacks
    <3>5. ControlInv'
      BY <2>3, <2>5, <2>6, <3>4
      DEF IInv, ControlInv, BootInv, CountInv, GivesUpOnlyOnFaults, Migrated, Running, policy, Stacks
    <3>6. QED
      BY <2>3, <3>5 DEF IInv
  <2>7. CASE s = "dev"
    <3>1. /\ pc' \in [Stacks -> Running \cup {"down", "abandoned"}]
          /\ pc'["prod"] = pc["prod"] /\ plan'["prod"].kind = plan["prod"].kind
      BY <2>5, <2>7 DEF IInv, ControlInv, Running, Stacks
    <3>2. QED
      BY <2>3, <2>4, <2>5, <3>1, ControlKept DEF IInv
  <2>8. QED
    BY <2>6, <2>7 DEF Stacks
<1>4. QED
  BY <1>1, <1>2, <1>3 DEF Apply

\* Production never runs create_all (register_init).
LEMMA StartKeeps ==
  ASSUME IInv, NEW s \in Stacks, Start(s)
  PROVE  IInv'
<1>1. CASE s = "dev" /\ autoCreate
  <2>1. FitsNow("dev", CreatePlan("dev"))
    BY <1>1, CreatePlanFits DEF IInv
  <2>2. plan' = [plan EXCEPT !["dev"] = CreatePlan("dev")] /\ pc' = [pc EXCEPT !["dev"] = "creating"]
    BY <1>1 DEF Start, Goto
  <2>3. Quiet
    BY <2>1, <2>2, OldPlansFit DEF Start, Quiet, IInv, DataInv, FitsNow
  <2>4. DataInv' /\ stamp' = stamp /\ Newest("prod")' = Newest("prod")
    BY <2>3, QuietKeeps
  <2>5. /\ pc' \in [Stacks -> Running \cup {"down", "abandoned"}]
        /\ pc'["prod"] = pc["prod"] /\ plan'["prod"].kind = plan["prod"].kind /\ UNCHANGED policy
    BY <2>2 DEF Start, IInv, DataInv, ControlInv, Running, Stacks
  <2>6. QED
    BY <2>4, <2>5, ControlKept DEF IInv
<1>2. CASE ~(s = "dev" /\ autoCreate)
  <2>1. /\ pc' = [pc EXCEPT ![s] = "connecting"] /\ plan' = plan /\ UNCHANGED policy
        /\ pc[s] = "starting"
    BY <1>2 DEF Start, Goto
  <2>2. Quiet
    BY <2>1, OldPlansFit DEF Start, Quiet, IInv, DataInv
  <2>3. DataInv' /\ stamp' = stamp /\ Newest("prod")' = Newest("prod")
    BY <2>2, QuietKeeps
  <2>4. ControlInv'
    BY <2>1, <2>3
    DEF IInv, ControlInv, BootInv, CountInv, GivesUpOnlyOnFaults, Migrated, Running, policy, Stacks
  <2>5. QED
    BY <2>3, <2>4 DEF IInv
<1>3. QED
  BY <1>1, <1>2

\* A failed server of a developer leaves its supervisor behind.
LEMMA StallKeeps ==
  ASSUME IInv, Stall("dev", 0) \/ Stall("dev", 1), UNCHANGED <<code, database, settings>>
  PROVE  IInv'
<1>1. /\ pc' = [pc EXCEPT !["dev"] = "stalled"] /\ plan' = [plan EXCEPT !["dev"] = NoPlan]
      /\ UNCHANGED <<operator, policy>>
  BY DEF Stall, Goto
<1>2. Quiet
  BY <1>1, OldPlansFit, NoPlanFits DEF Quiet, IInv, DataInv, FitsNow
<1>3. DataInv' /\ stamp' = stamp /\ Newest("prod")' = Newest("prod")
  BY <1>2, QuietKeeps
<1>4. /\ pc' \in [Stacks -> Running \cup {"down", "abandoned"}]
      /\ pc'["prod"] = pc["prod"] /\ plan'["prod"].kind = plan["prod"].kind
  BY <1>1 DEF IInv, DataInv, ControlInv, Running, Stacks
<1>5. QED
  BY <1>1, <1>3, <1>4, ControlKept DEF IInv

\* Only a developer's stack gets here (create_all under DB_AUTO_CREATE).
LEMMA CreateTableKeeps ==
  ASSUME IInv, NEW s \in Stacks, CreateTable(s)
  PROVE  IInv'
<1>1. s = "dev"
  BY DEF CreateTable, IInv, ControlInv, BootInv, Stacks
<1>2. CASE Stall(s, 0) /\ UNCHANGED database
  BY <1>1, <1>2, StallKeeps DEF CreateTable
<1>3. CASE /\ ~Clash(s, plan[s])
           /\ Execute(s, plan[s])
           /\ Goto(s, "connecting")
           /\ plan' = [plan EXCEPT ![s] = NoPlan]
           /\ UNCHANGED <<operator, policy>>
  <2>1. Written
    BY <1>3 DEF Written, Writes
  <2>2. /\ plan' \in [Stacks -> Plans] /\ operator' \in [Stacks -> Plans]
        /\ \A t \in Stacks : FitsNow(t, plan'[t]) /\ FitsNow(t, operator'[t])
    BY <1>3, OldPlansFit, NoPlanFits DEF IInv, DataInv, FitsNow
  <2>3. DataInv' /\ Newest("prod")' = Newest("prod")
    BY <2>1, <2>2, SameCode, DataKept DEF CreateTable, IInv, Stacks
  <2>4. stamp["prod"] = Newest("prod") => stamp'["prod"] = Newest("prod")
    BY <2>1, <2>2, SameCode, DataKept DEF CreateTable, IInv
  <2>5. /\ pc' \in [Stacks -> Running \cup {"down", "abandoned"}] /\ UNCHANGED policy
        /\ pc'["prod"] = pc["prod"] /\ plan'["prod"].kind = plan["prod"].kind
    BY <1>1, <1>3 DEF Goto, IInv, DataInv, ControlInv, Running, Stacks
  <2>6. QED
    BY <2>3, <2>4, <2>5, ControlKept DEF IInv
<1>4. QED
  BY <1>2, <1>3 DEF CreateTable

\* A server that serves has come from the end of the chain (redis_client.open).
LEMMA ConnectKeeps ==
  ASSUME IInv, NEW s \in Stacks, Connect(s)
  PROVE  IInv'
<1>1. CASE Stall(s, 1)
  <2>1. CASE s = "dev"
    BY <1>1, <2>1, StallKeeps DEF Connect
  <2>2. CASE s = "prod"
    <3>1. Fail(s, 1)
      BY <1>1, <2>2 DEF Stall
    <3>2. QED
      BY <3>1, FailKeeps DEF Connect, Running
  <2>3. QED
    BY <2>1, <2>2 DEF Stacks
<1>2. CASE Goto(s, "serving") /\ UNCHANGED <<plan, operator, policy>>
  <2>1. pc[s] = "connecting" /\ pc' = [pc EXCEPT ![s] = "serving"] /\ plan' = plan /\ UNCHANGED policy
    BY <1>2 DEF Connect, Goto
  <2>2. Quiet
    BY <1>2, OldPlansFit DEF Connect, Quiet, IInv, DataInv
  <2>3. DataInv' /\ stamp' = stamp /\ Newest("prod")' = Newest("prod")
    BY <2>2, QuietKeeps
  <2>4. ControlInv'
    BY <2>1, <2>3
    DEF IInv, ControlInv, BootInv, CountInv, GivesUpOnlyOnFaults, Migrated, Running, policy, Stacks
  <2>5. QED
    BY <2>3, <2>4 DEF IInv
<1>3. QED
  BY <1>1, <1>2 DEF Connect

\* A stack that is taken down has no plan left (docker compose down).
LEMMA DownKeeps ==
  ASSUME IInv, NEW s \in Stacks, Down(s)
  PROVE  IInv'
<1>1. /\ pc' = [pc EXCEPT ![s] = "down"] /\ plan' = [plan EXCEPT ![s] = NoPlan]
      /\ operator' = [operator EXCEPT ![s] = NoPlan] /\ UNCHANGED policy
  BY DEF Down, Goto
<1>2. Quiet
  BY <1>1, OldPlansFit, NoPlanFits DEF Down, Quiet, IInv, DataInv, FitsNow
<1>3. DataInv' /\ stamp' = stamp /\ Newest("prod")' = Newest("prod")
  BY <1>2, QuietKeeps
<1>4. /\ pc' \in [Stacks -> Running \cup {"down", "abandoned"}]
      /\ attempts' = attempts /\ lapses' = lapses
  BY <1>1 DEF IInv, ControlInv, policy
<1>5. CASE s = "dev"
  <2>1. pc'["prod"] = pc["prod"] /\ plan'["prod"] = plan["prod"]
    BY <1>1, <1>5 DEF IInv, DataInv, ControlInv, Stacks
  <2>2. QED
    BY <1>1, <1>3, <1>4, <2>1, ControlKept DEF IInv
<1>6. CASE s = "prod"
  <2>1. pc["prod"] # "abandoned" /\ pc'["prod"] = "down"
    BY <1>1, <1>6 DEF Down, Running, IInv, ControlInv, Stacks
  <2>2. ControlInv'
    BY <1>3, <1>4, <2>1 DEF IInv, ControlInv, BootInv, CountInv, GivesUpOnlyOnFaults, Migrated
  <2>3. QED
    BY <1>3, <2>2 DEF IInv
<1>7. QED
  BY <1>5, <1>6 DEF Stacks

\* What the operator plans fits (docker-run.sh migrate).
LEMMA MigrateByHandKeeps ==
  ASSUME IInv, NEW s \in Stacks, MigrateByHand(s)
  PROVE  IInv'
<1>1. FitsNow(s, UpgradePlan(s))
  BY UpgradePlanFits DEF IInv
<1>2. Quiet
  BY <1>1, OldPlansFit DEF MigrateByHand, Quiet, IInv, DataInv, FitsNow
<1>3. DataInv' /\ stamp' = stamp /\ Newest("prod")' = Newest("prod")
  BY <1>2, QuietKeeps
<1>4. pc' = pc /\ plan' = plan /\ UNCHANGED policy
  BY DEF MigrateByHand
<1>5. QED
  BY <1>3, <1>4, ControlKept DEF IInv, ControlInv

\* What the operator writes keeps the database that of a revision.
LEMMA MigratedByHandKeeps ==
  ASSUME IInv, NEW s \in Stacks, MigratedByHand(s)
  PROVE  IInv'
<1>1. Written \/ UNCHANGED database
  BY DEF MigratedByHand, Written, Writes
<1>2. /\ plan' \in [Stacks -> Plans] /\ operator' \in [Stacks -> Plans]
      /\ \A t \in Stacks : FitsNow(t, plan'[t]) /\ FitsNow(t, operator'[t])
  BY OldPlansFit, NoPlanFits DEF MigratedByHand, IInv, DataInv, FitsNow
<1>3. /\ DataInv' /\ Newest("prod")' = Newest("prod")
      /\ stamp["prod"] = Newest("prod") => stamp'["prod"] = Newest("prod")
  BY <1>1, <1>2, SameCode, DataKept DEF MigratedByHand, IInv, Stacks
<1>4. pc' = pc /\ plan' = plan /\ UNCHANGED policy
  BY DEF MigratedByHand
<1>5. QED
  BY <1>3, <1>4, ControlKept DEF IInv, ControlInv

\* The server of a developer starts again; production notices nothing.
LEMMA ReloadKeeps ==
  ASSUME IInv, Reload, UNCHANGED policy, UNCHANGED operator
  PROVE  /\ pc' \in [Stacks -> Running \cup {"down", "abandoned"}]
         /\ pc'["prod"] = pc["prod"] /\ plan'["prod"] = plan["prod"]
         /\ plan' \in [Stacks -> Plans] /\ operator' \in [Stacks -> Plans]
         /\ \A s \in Stacks : FitsNow(s, plan'[s]) /\ FitsNow(s, operator'[s])
         /\ \A s \in Stacks : plan'[s] \in {plan[s], NoPlan}
<1>1. CASE UNCHANGED <<pc, plan>>
  BY <1>1, OldPlansFit DEF IInv, DataInv, ControlInv
<1>2. CASE Goto("dev", "starting") /\ plan' = [plan EXCEPT !["dev"] = NoPlan]
  <2>1. pc' \in [Stacks -> Running \cup {"down", "abandoned"}] /\ pc'["prod"] = pc["prod"]
    BY <1>2 DEF Goto, IInv, ControlInv, Running, Stacks
  <2>2. /\ plan' \in [Stacks -> Plans] /\ plan'["prod"] = plan["prod"]
        /\ \A s \in Stacks : plan'[s] \in {plan[s], NoPlan}
    BY <1>2, NoPlanFits DEF IInv, DataInv, FitsNow, Stacks
  <2>3. QED
    BY <2>1, <2>2, OldPlansFit DEF IInv, DataInv
<1>3. QED
  BY <1>1, <1>2 DEF Reload

\* A new model file changes no revision (models/__init__.py).
LEMMA AddModelKeeps ==
  ASSUME IInv, AddModel
  PROVE  IInv'
<1>1. SameRevisions
  BY DEF AddModel, SameRevisions, IInv, DataInv, Codes, Tables, Stacks
<1>2. UNCHANGED <<database, settings, operator, policy>> /\ Reload
  BY DEF AddModel
<1>3. /\ DataInv' /\ Newest("prod")' = Newest("prod")
      /\ stamp["prod"] = Newest("prod") => stamp'["prod"] = Newest("prod")
  BY <1>1, <1>2, ReloadKeeps, DataKept DEF IInv, Stacks
<1>4. QED
  BY <1>2, <1>3, ReloadKeeps, ControlKept DEF IInv

\* The new revision creates what the developer's database has not got, hence
\* nothing that the chain has created; the rest is as it was.
LEMMA GenerateKeeps ==
  ASSUME IInv, Generate
  PROVE  IInv'
<1> DEFINE old == Chain("dev")
           new == code["dev"].models \ tables["dev"]
           longer == Append(old, new)
<1>1. /\ "dev" \in Stacks /\ "prod" \in Stacks
      /\ old \in Seq(SUBSET Tables) /\ new \in SUBSET Tables
      /\ Newest("dev") = Len(old) /\ stamp["dev"] = Len(old) /\ Len(old) \in Nat
  BY StackTypes DEF Generate, IInv, DataInv, Codes, Stacks
<1>2. /\ longer \in Seq(SUBSET Tables) /\ Len(longer) = Len(old) + 1
      /\ \A i \in 1 .. Len(old) : longer[i] = old[i]
      /\ longer[Len(old) + 1] = new
  BY <1>1
<1>3. code' = [code EXCEPT !["dev"] = [@ EXCEPT !.chain = longer, !.generated = code["dev"].models]]
  BY DEF Generate, Chain, IInv, DataInv, Codes, Stacks
<1> HIDE DEF longer, new, old
<1>4. code' \in [Stacks -> Codes]
  BY <1>1, <1>2, <1>3 DEF IInv, DataInv, Codes
<1>5. /\ (Chain("dev"))' = longer /\ (Chain("prod"))' = Chain("prod")
      /\ Newest("dev")' = Len(old) + 1 /\ Newest("prod")' = Newest("prod")
      /\ code'["dev"].generated = code["dev"].models /\ code'["prod"] = code["prod"]
  BY <1>1, <1>2, <1>3 DEF IInv, DataInv, Codes, Chain, Newest
<1>6. /\ tables' = tables /\ stamp' = stamp /\ autoCreate' = autoCreate /\ secrets' = secrets
      /\ UNCHANGED operator /\ UNCHANGED policy /\ Reload
  BY DEF Generate, database, settings
<1>7. /\ CreatedBy(longer, Len(old)) = CreatedBy(old, Len(old))
      /\ CreatedBy(longer, Len(old) + 1) = CreatedBy(old, Len(old)) \cup new
      /\ \A p : p \in Plans /\ PlanFits("dev", p, old, stamp["dev"], autoCreate)
           => PlanFits("dev", p, longer, stamp["dev"], autoCreate)
  <2>1. autoCreate \in BOOLEAN /\ stamp["dev"] \in Nat /\ stamp["dev"] <= Len(old)
    BY <1>1 DEF IInv, DataInv
  <2>2. QED
    BY <1>1, <2>1, ExtensionFits DEF longer
<1>8. DatabaseFits("dev", old, tables["dev"], Len(old), autoCreate)
  BY <1>1, StackTypes DEF IInv, old
<1>9. ChainInv'
  <2>1. \A i \in 1 .. Len(old) : old[i] \cap new = {}
    BY <1>1, <1>8 DEF DatabaseFits, CreatedBy, new
  <2>2. Apart(old) /\ Apart(Chain("prod"))
    BY <1>1, StackTypes DEF IInv, old
  <2>3. Apart(longer)
    <3>1. SUFFICES ASSUME NEW i \in 1 .. Len(longer), NEW j \in 1 .. Len(longer), i # j
                   PROVE  longer[i] \cap longer[j] = {}
      BY DEF Apart
    <3>2. \A k \in 1 .. Len(longer) : k \in 1 .. Len(old) \/ k = Len(old) + 1
      BY <1>1, <1>2
    <3>3. CASE i \in 1 .. Len(old) /\ j \in 1 .. Len(old)
      BY <1>2, <2>2, <3>1, <3>3 DEF Apart
    <3>4. CASE i \in 1 .. Len(old) /\ j = Len(old) + 1
      BY <1>2, <2>1, <3>4
    <3>5. CASE j \in 1 .. Len(old) /\ i = Len(old) + 1
      BY <1>2, <2>1, <3>5
    <3>6. QED
      BY <3>1, <3>2, <3>3, <3>4, <3>5
  <2>4. Newest("prod") <= Len(old) /\ \A i \in 1 .. Newest("prod") : Chain("prod")[i] = old[i]
    BY <1>1 DEF IInv, DataInv, ChainInv, old
  <2>5. Newest("prod") \in Nat
    BY <1>1, StackTypes DEF IInv
  <2>6. \A i \in 1 .. Newest("prod") : Chain("prod")[i] = longer[i]
    BY <1>1, <1>2, <2>4, <2>5
  <2>7. QED
    BY <1>1, <1>5, <2>2, <2>3, <2>4, <2>5, <2>6 DEF ChainInv, Stacks
<1>10. TablesInv'
  <2>1. DatabaseFits("dev", longer, tables["dev"], stamp["dev"], autoCreate)
    BY <1>1, <1>7, <1>8 DEF DatabaseFits
  <2>2. DatabaseFits("prod", Chain("prod"), tables["prod"], stamp["prod"], autoCreate)
    BY <1>1, StackTypes DEF IInv
  <2>3. QED
    BY <1>5, <1>6, <2>1, <2>2 DEF TablesInv, Stacks
<1>11. PlansInv'
  <2>1. \A s \in Stacks : FitsNow(s, plan'[s]) /\ FitsNow(s, operator'[s])
    BY <1>6, ReloadKeeps
  <2>2. /\ PlanFits("dev", plan'["dev"], longer, stamp["dev"], autoCreate)
        /\ PlanFits("dev", operator'["dev"], longer, stamp["dev"], autoCreate)
    BY <1>1, <1>7, <2>1 DEF FitsNow, old
  <2>3. /\ PlanFits("prod", plan'["prod"], Chain("prod"), stamp["prod"], autoCreate)
        /\ PlanFits("prod", operator'["prod"], Chain("prod"), stamp["prod"], autoCreate)
    BY <1>1, <2>1 DEF FitsNow
  <2>4. QED
    BY <1>5, <1>6, <2>2, <2>3 DEF PlansInv, Stacks
<1>12. GeneratedInv'
  <2>1. ~autoCreate => tables["dev"] = CreatedBy(old, Len(old))
    BY <1>8 DEF DatabaseFits
  <2>2. ~autoCreate => code["dev"].models \subseteq CreatedBy(longer, Len(old) + 1)
    BY <1>7, <2>1 DEF new
  <2>3. ~autoCreate => code["prod"].generated \subseteq CreatedBy(Chain("prod"), Newest("prod"))
    BY <1>1 DEF IInv, DataInv, GeneratedInv
  <2>4. QED
    BY <1>5, <1>6, <2>2, <2>3 DEF GeneratedInv, Stacks
<1>13. DataInv'
  <2>1. \A s \in Stacks : stamp'[s] <= Newest(s)'
    BY <1>1, <1>5, <1>6, StackTypes DEF IInv, Stacks
  <2>2. QED
    BY <1>4, <1>6, <1>9, <1>10, <1>11, <1>12, <2>1, ReloadKeeps DEF IInv, DataInv
<1>14. ControlInv'
  BY <1>5, <1>6, ReloadKeeps, ControlKept DEF IInv
<1>15. QED
  BY <1>13, <1>14 DEF IInv

\* Production gets the developer's chain, of which its own is the start.
LEMMA DeployKeeps ==
  ASSUME IInv, Deploy
  PROVE  IInv'
<1> DEFINE old == Chain("prod")
           new == Chain("dev")
<1>1. /\ "dev" \in Stacks /\ "prod" \in Stacks
      /\ Newest("prod") = Len(old) /\ Newest("dev") = Len(new)
      /\ Len(old) \in Nat /\ Len(new) \in Nat /\ Len(old) <= Len(new)
      /\ \A i \in 1 .. Len(old) : old[i] = new[i]
      /\ stamp["prod"] \in Nat /\ stamp["prod"] <= Len(old)
  <2>1. "dev" \in Stacks /\ "prod" \in Stacks
    BY DEF Stacks
  <2>2. QED
    BY <2>1, StackTypes DEF IInv, DataInv, ChainInv
<1>2. code' = [code EXCEPT !["prod"] = code["dev"]]
  BY DEF Deploy
<1>3. /\ code' \in [Stacks -> Codes]
      /\ (Chain("prod"))' = new /\ (Chain("dev"))' = new
      /\ Newest("prod")' = Len(new) /\ Newest("dev")' = Len(new)
      /\ code'["prod"].generated = code["dev"].generated
      /\ code'["dev"].generated = code["dev"].generated
  BY <1>1, <1>2 DEF IInv, DataInv, Chain, Newest
<1>4. /\ tables' = tables /\ stamp' = stamp /\ autoCreate' = autoCreate /\ secrets' = secrets
      /\ pc' = [pc EXCEPT !["prod"] = "upgrade"] /\ attempts' = MaxAttempts /\ lapses' = 0
      /\ plan' = [plan EXCEPT !["prod"] = NoPlan] /\ operator' = [operator EXCEPT !["prod"] = NoPlan]
  BY DEF Deploy, database, settings, Goto
<1> HIDE DEF old, new
<1>5. CreatedBy(new, stamp["prod"]) = CreatedBy(old, stamp["prod"])
  <2>1. \A i \in 1 .. stamp["prod"] : new[i] = old[i]
    BY <1>1
  <2>2. QED
    BY <2>1, Zenon DEF CreatedBy
<1>6. /\ plan' \in [Stacks -> Plans] /\ operator' \in [Stacks -> Plans]
      /\ plan'["prod"] = NoPlan /\ operator'["prod"] = NoPlan
      /\ plan'["dev"] = plan["dev"] /\ operator'["dev"] = operator["dev"]
  BY <1>1, <1>4, NoPlanFits DEF IInv, DataInv, FitsNow
<1>7. ChainInv'
  <2>1. Apart(new)
    BY <1>1, StackTypes DEF IInv, new
  <2>2. QED
    BY <1>1, <1>3, <2>1 DEF ChainInv, Stacks
<1>8. TablesInv'
  <2>1. /\ DatabaseFits("prod", old, tables["prod"], stamp["prod"], autoCreate)
        /\ DatabaseFits("dev", new, tables["dev"], stamp["dev"], autoCreate)
    BY <1>1, StackTypes DEF IInv, old, new
  <2>2. DatabaseFits("prod", new, tables["prod"], stamp["prod"], autoCreate)
    BY <1>5, <2>1 DEF DatabaseFits
  <2>3. QED
    BY <1>3, <1>4, <2>1, <2>2 DEF TablesInv, Stacks
<1>9. PlansInv'
  <2>1. /\ PlanFits("dev", plan["dev"], new, stamp["dev"], autoCreate)
        /\ PlanFits("dev", operator["dev"], new, stamp["dev"], autoCreate)
    BY <1>1, StackTypes DEF IInv, new
  <2>2. PlanFits("prod", NoPlan, new, stamp["prod"], autoCreate)
    BY DEF PlanFits, NoPlan
  <2>3. QED
    BY <1>3, <1>4, <1>6, <2>1, <2>2 DEF PlansInv, Stacks
<1>10. GeneratedInv'
  <2>1. ~autoCreate => code["dev"].generated \subseteq CreatedBy(new, Len(new))
    BY <1>1 DEF IInv, DataInv, GeneratedInv, new
  <2>2. QED
    BY <1>3, <1>4, <2>1 DEF GeneratedInv, Stacks
<1>11. DataInv'
  <2>1. \A s \in Stacks : stamp'[s] <= Newest(s)'
    BY <1>1, <1>3, <1>4, StackTypes DEF IInv, Stacks
  <2>2. QED
    BY <1>3, <1>4, <1>6, <1>7, <1>8, <1>9, <1>10, <2>1 DEF IInv, DataInv
<1>12. ControlInv'
  <2>1. pc'["prod"] = "upgrade" /\ pc' \in [Stacks -> Running \cup {"down", "abandoned"}]
    BY <1>1, <1>4 DEF IInv, ControlInv, Running
  <2>2. MaxAttempts \in Nat
    BY CountTypes DEF IInv
  <2>3. QED
    BY <1>4, <2>1, <2>2 DEF ControlInv, BootInv, CountInv, GivesUpOnlyOnFaults, Migrated
<1>13. QED
  BY <1>11, <1>12 DEF IInv

-----------------------------------------------------------------------------
(* The initial states, and all steps                                       *)

\* The database is at one of the shipped revisions, which create no table twice.
LEMMA InitFits ==
  ASSUME Init
  PROVE  IInv
<1> DEFINE start == [models |-> {Core, Domain}, chain |-> Shipped, generated |-> {Core, Domain}]
<1>1. /\ code = [s \in Stacks |-> start]
      /\ stamp \in [Stacks -> 0 .. Len(Shipped)]
      /\ tables = [s \in Stacks |-> CreatedBy(Shipped, stamp[s])]
      /\ autoCreate \in BOOLEAN /\ secrets \in BOOLEAN
      /\ pc = [s \in Stacks |-> "down"]
      /\ plan = [s \in Stacks |-> NoPlan] /\ operator = [s \in Stacks |-> NoPlan]
      /\ attempts = MaxAttempts /\ lapses = 0
  BY DEF Init
<1>2. /\ Shipped \in Seq(SUBSET Tables) /\ Len(Shipped) = 3
      /\ Shipped[1] = {Core} /\ Shipped[2] = {Domain} /\ Shipped[3] = {}
  BY DEF Shipped, Initial, AthleteAndPerformance, MultiLoginByDefault, Tables
<1>3. Core # Domain /\ MaxAttempts \in Nat
  <2>1. Core # Domain
    BY DeploymentAssumption
  <2>2. MaxAttempts \in Nat
    BY DeploymentAssumption
  <2>3. QED
    BY <2>1, <2>2
<1>4. start \in Codes
  BY <1>2 DEF Codes, Tables
<1>5. /\ \A s \in Stacks : Chain(s) = Shipped /\ Newest(s) = 3 /\ code[s].generated = {Core, Domain}
      /\ code \in [Stacks -> Codes]
  BY <1>1, <1>2, <1>4 DEF Chain, Newest
<1>6. Apart(Shipped)
  <2>1. \A i \in 1 .. 3 : i = 1 \/ i = 2 \/ i = 3
    OBVIOUS
  <2>2. QED
    BY <1>2, <1>3, <2>1 DEF Apart
<1>7. ChainInv
  BY <1>5, <1>6 DEF ChainInv, Stacks
<1>8. \A s \in Stacks : stamp[s] \in Nat /\ stamp[s] <= Newest(s) /\ stamp[s] \in 0 .. 3
  BY <1>1, <1>2, <1>5
<1>9. TablesInv
  BY <1>1, <1>5 DEF TablesInv, DatabaseFits
<1>10. /\ PlansInv /\ plan \in [Stacks -> Plans] /\ operator \in [Stacks -> Plans]
  BY <1>1, NoPlanFits DEF PlansInv, PlanFits, NoPlan, FitsNow
<1>11. GeneratedInv
  <2>1. {Core, Domain} \subseteq CreatedBy(Shipped, 3)
    <3>1. 1 \in 1 .. 3 /\ 2 \in 1 .. 3
      OBVIOUS
    <3>2. QED
      BY <1>2, <3>1 DEF CreatedBy
  <2>2. QED
    BY <1>5, <2>1 DEF GeneratedInv
<1>12. tables \in [Stacks -> SUBSET Tables]
  <2>1. ASSUME NEW n \in 0 .. 3
        PROVE  CreatedBy(Shipped, n) \in SUBSET Tables
    <3>1. \A i \in 1 .. n : Shipped[i] \in SUBSET Tables
      BY <1>2
    <3>2. QED
      BY <3>1 DEF CreatedBy
  <2>2. QED
    BY <1>1, <1>2, <2>1
<1>13. DataInv
  BY <1>1, <1>2, <1>5, <1>7, <1>8, <1>9, <1>10, <1>11, <1>12 DEF DataInv
<1>14. ControlInv
  <2>1. pc["prod"] = "down" /\ pc \in [Stacks -> Running \cup {"down", "abandoned"}]
    BY <1>1 DEF Stacks
  <2>2. QED
    BY <1>1, <1>3, <2>1 DEF ControlInv, BootInv, CountInv, GivesUpOnlyOnFaults, Migrated
<1>15. QED
  BY <1>13, <1>14 DEF IInv

\* Every step keeps the invariant.
LEMMA NextKeeps ==
  ASSUME IInv, [Next]_vars
  PROVE  IInv'
<1>1. CASE Next
  <2>1. ASSUME NEW s \in Stacks, Up(s) \/ Boot(s) \/ Crash(s) \/ Down(s) \/ MigrateByHand(s)
                              \/ MigratedByHand(s)
        PROVE  IInv'
    <3>1. CASE Up(s)
      BY <3>1, UpKeeps
    <3>2. CASE PlanUpgrade(s)
      BY <3>2, PlanUpgradeKeeps
    <3>3. CASE Apply(s)
      BY <3>3, ApplyKeeps
    <3>4. CASE Start(s)
      BY <3>4, StartKeeps
    <3>5. CASE CreateTable(s)
      BY <3>5, CreateTableKeeps
    <3>6. CASE Connect(s)
      BY <3>6, ConnectKeeps
    <3>7. CASE Crash(s)
      BY <3>7, FailKeeps DEF Crash, Running
    <3>8. CASE MigrateByHand(s)
      BY <3>8, MigrateByHandKeeps
    <3>9. CASE MigratedByHand(s)
      BY <3>9, MigratedByHandKeeps
    <3>10. CASE Down(s)
      BY <3>10, DownKeeps
    <3>11. QED
      BY <2>1, <3>1, <3>2, <3>3, <3>4, <3>5, <3>6, <3>7, <3>8, <3>9, <3>10 DEF Boot
  <2>2. CASE AddModel
    BY <2>2, AddModelKeeps
  <2>3. CASE Generate
    BY <2>3, GenerateKeeps
  <2>4. CASE Deploy
    BY <2>4, DeployKeeps
  <2>5. QED
    BY <1>1, <2>1, <2>2, <2>3, <2>4 DEF Next
<1>2. CASE UNCHANGED vars
  <2>1. /\ code' = code /\ tables' = tables /\ stamp' = stamp /\ autoCreate' = autoCreate
        /\ secrets' = secrets /\ pc' = pc /\ plan' = plan /\ operator' = operator
        /\ attempts' = attempts /\ lapses' = lapses
    BY <1>2 DEF vars
  <2>2. Quiet
    BY <2>1, OldPlansFit DEF Quiet, IInv, DataInv, database, settings
  <2>3. DataInv' /\ stamp' = stamp /\ Newest("prod")' = Newest("prod")
    BY <2>2, QuietKeeps
  <2>4. ControlInv'
    BY <2>1, <2>3 DEF IInv, ControlInv, BootInv, CountInv, GivesUpOnlyOnFaults
  <2>5. QED
    BY <2>3, <2>4 DEF IInv
<1>3. QED
  BY <1>1, <1>2

-----------------------------------------------------------------------------
(* The theorems                                                            *)

\* The invariant holds of every behaviour of the stacks.
LEMMA Invariance == Spec => []IInv
BY InitFits, NextKeeps, PTL DEF Spec

\* Every variable keeps its type, and the restart policy of docker-compose.yml
\* never spends an attempt it has not got.
THEOREM DeploymentType == Spec => []TypeOK
<1>1. IInv => TypeOK
  BY DEF IInv, DataInv, ControlInv, TypeOK
<1>2. QED
  BY <1>1, Invariance, PTL

\* Production's tables are those of the revision in alembic_version, whatever
\* number of upgrades by entrypoint-api.sh and by hand run beside each other.
THEOREM SchemaFollowsRevision == Spec => []SchemaIsItsRevision
<1>1. IInv => SchemaIsItsRevision
  BY StackTypes DEF IInv, DatabaseFits, SchemaIsItsRevision, Chain, Stacks
<1>2. QED
  BY <1>1, Invariance, PTL

\* Production never serves a code that is ahead of its database, because
\* entrypoint-api.sh starts the server behind a successful upgrade.
THEOREM ServesMigrated == Spec => []ServingIsMigrated
<1>1. IInv => ServingIsMigrated
  BY DEF IInv, ControlInv, BootInv, Migrated, ServingIsMigrated
<1>2. QED
  BY <1>1, Invariance, PTL

\* The policy gives up only after as many faults from outside as it has
\* attempts: a lost race against the operator's upgrade is never what ends it.
THEOREM OnlyFaultsExhaust == Spec => []GivesUpOnlyOnFaults
<1>1. IInv => GivesUpOnlyOnFaults
  BY DEF IInv, ControlInv, CountInv
<1>2. QED
  BY <1>1, Invariance, PTL

\* With DB_AUTO_CREATE false, as in .env.template, a model that a revision was
\* generated for has its table wherever the code is served in production.
THEOREM GeneratedIsServed == Spec => []MigratedModelsReachProduction
<1>1. IInv => MigratedModelsReachProduction
  <2>1. SUFFICES ASSUME IInv, ~autoCreate, pc["prod"] = "serving"
                 PROVE  code["prod"].generated \subseteq tables["prod"]
    BY DEF MigratedModelsReachProduction, GeneratedModelsReachProduction
  <2>2. stamp["prod"] = Newest("prod")
    BY <2>1 DEF IInv, ControlInv, BootInv, Migrated
  <2>3. CreatedBy(Chain("prod"), stamp["prod"]) \subseteq tables["prod"]
    BY <2>1, StackTypes DEF IInv, DatabaseFits, Stacks
  <2>4. code["prod"].generated \subseteq CreatedBy(Chain("prod"), Newest("prod"))
    BY <2>1 DEF IInv, DataInv, GeneratedInv, Stacks
  <2>5. QED
    BY <2>2, <2>3, <2>4
<1>2. QED
  BY <1>1, Invariance, PTL
=============================================================================
