----------------------------- MODULE Deployment -----------------------------
(***************************************************************************)
(* From a model file to a serving container: the Alembic revisions, the    *)
(* entrypoint that applies them (entrypoint-api.sh), the operator who      *)
(* applies them by hand (docker-run.sh migrate, `shaapi db apply`), the    *)
(* startup of the server (core/registrar.py, register_init) with its own   *)
(* create_all, and the restart policy of docker-compose.yml.               *)
(*                                                                         *)
(* There are two stacks, the developer's and production, each with its     *)
(* database.  Tables are told apart by who brought them: those of the      *)
(* first revision, those of the second, and one that a developer adds.  An *)
(* upgrade is one transaction (alembic/env.py), and so is create_all: each *)
(* is split where it matters, between the reading of what is there and the *)
(* writing of what was missing then.                                       *)
(***************************************************************************)
EXTENDS Naturals, Sequences

CONSTANTS
  Core,           \* the tables of revision 64524c63b666
  Domain,         \* the tables of revision a1c4e7b90f21
  Extra,          \* the table of a model that is added
  MaxAttempts,    \* restart_policy.max_attempts
  MaxRevisions    \* bound: the length of the chain of revisions

\* The revisions by the tables they create: accounts, roles, logs and policies;
\* athletes and results; a default of a column of Core, hence nothing.
Initial == {Core}
AthleteAndPerformance == {Domain}
MultiLoginByDefault == {}
Shipped == <<Initial, AthleteAndPerformance, MultiLoginByDefault>>

ASSUME DeploymentAssumption ==
  /\ Core # Domain /\ Core # Extra /\ Domain # Extra
  /\ MaxAttempts \in Nat
  /\ MaxRevisions \in Nat /\ MaxRevisions >= Len(Shipped)

Stacks == {"dev", "prod"}
Tables == {Core, Domain, Extra}

VARIABLES
  code,        \* the code of each stack: models, chain of revisions, and the
               \* models there were when the last revision was generated
  tables,      \* the tables in each database
  stamp,       \* alembic_version: how many revisions have been applied
  autoCreate,  \* DB_AUTO_CREATE of the developer (production sets it to false)
  secrets,     \* production's secrets are real ones
  pc,          \* where the container is
  plan,        \* what the container is about to write
  operator,    \* what an upgrade by hand is about to write
  attempts,    \* the restarts that the policy has left
  lapses       \* history: the failures from outside since the attempts were full

database == <<tables, stamp>>
settings == <<autoCreate, secrets>>
policy == <<attempts, lapses>>
vars == <<code, tables, stamp, autoCreate, secrets, pc, plan, operator, attempts, lapses>>

Newest(stack) == Len(code[stack].chain)

\* The tables that the first n revisions of a chain create.
CreatedBy(chain, n) == UNION {chain[i] : i \in 1 .. n}

NoPlan == [kind |-> "none", creates |-> {}, from |-> 0, to |-> 0]

\* alembic upgrade head: the revisions after the one the database is at.
UpgradePlan(stack) ==
  [kind |-> "upgrade",
   creates |-> UNION {code[stack].chain[i] : i \in stamp[stack] + 1 .. Newest(stack)},
   from |-> stamp[stack],
   to |-> Newest(stack)]

\* create_all: the tables of the models that are not there.
CreatePlan(stack) ==
  [NoPlan EXCEPT !.kind = "create", !.creates = code[stack].models \ tables[stack]]

\* What another transaction has committed since stands in the way: CREATE TABLE
\* of a table there is, or an update of alembic_version that matches no row.  A
\* statement that meets an uncommitted one waits for its end, so that only
\* committed work is looked at.
Clash(stack, p) ==
  \/ p.creates \cap tables[stack] # {}
  \/ p.kind = "upgrade" /\ p.from # stamp[stack]

\* Mutant: the revision is written outside the transaction of the tables.
ExecuteUnstamped(stack, p) ==
  /\ tables' = [tables EXCEPT ![stack] = @ \cup p.creates]
  /\ stamp' = stamp

Execute(stack, p) ==
  /\ tables' = [tables EXCEPT ![stack] = @ \cup p.creates]
  /\ stamp' = IF p.kind = "upgrade" THEN [stamp EXCEPT ![stack] = p.to] ELSE stamp

\* The validator of the settings refuses development secrets in production, and
\* whatever imports them ends: alembic as well as the server.
SettingsHold(stack) == stack = "prod" => secrets

Running == {"upgrade", "applying", "starting", "creating", "connecting", "serving", "stalled"}
Goto(stack, there) == pc' = [pc EXCEPT ![stack] = there]

Init ==
  /\ code = [s \in Stacks |-> [models |-> {Core, Domain}, chain |-> Shipped,
                               generated |-> {Core, Domain}]]
  /\ stamp \in [Stacks -> 0 .. Len(Shipped)]
  /\ tables = [s \in Stacks |-> CreatedBy(Shipped, stamp[s])]
  /\ autoCreate \in BOOLEAN /\ secrets \in BOOLEAN
  /\ pc = [s \in Stacks |-> "down"]
  /\ plan = [s \in Stacks |-> NoPlan] /\ operator = [s \in Stacks |-> NoPlan]
  /\ attempts = MaxAttempts /\ lapses = 0

-----------------------------------------------------------------------------
(* The container                                                           *)

\* docker compose up; a developer may also run main.py from an IDE, which goes
\* straight to the server.
Up(stack) ==
  /\ pc[stack] \in {"down", "abandoned"}
  /\ Goto(stack, "upgrade") \/ (stack = "dev" /\ Goto(stack, "starting"))
  /\ IF stack = "prod" THEN attempts' = MaxAttempts /\ lapses' = 0 ELSE UNCHANGED policy
  /\ UNCHANGED <<code, database, settings, plan, operator>>

\* Mutant: the policy is unbounded.
FailForever(stack, lapse) ==
  /\ Goto(stack, IF stack = "prod" THEN "upgrade" ELSE "down")
  /\ UNCHANGED policy
  /\ plan' = [plan EXCEPT ![stack] = NoPlan]
  /\ operator' = [operator EXCEPT ![stack] = NoPlan]

\* Mutant: the policy counts one attempt too many.
FailOnceMore(stack, lapse) ==
  /\ IF stack = "prod"
     THEN IF attempts >= 0
          THEN Goto(stack, "upgrade") /\ attempts' = attempts - 1
          ELSE Goto(stack, "abandoned") /\ UNCHANGED attempts
     ELSE Goto(stack, "down") /\ UNCHANGED attempts
  /\ lapses' = IF stack = "prod" THEN lapses + lapse ELSE lapses
  /\ plan' = [plan EXCEPT ![stack] = NoPlan]
  /\ operator' = [operator EXCEPT ![stack] = NoPlan]

\* Mutant: the next attempt goes on with what this one was about to write.
FailKeepsPlan(stack, lapse) ==
  /\ IF stack = "prod"
     THEN IF attempts > 0
          THEN /\ Goto(stack, IF plan[stack] = NoPlan THEN "upgrade" ELSE "applying")
               /\ attempts' = attempts - 1
          ELSE Goto(stack, "abandoned") /\ UNCHANGED attempts
     ELSE Goto(stack, "down") /\ UNCHANGED attempts
  /\ lapses' = IF stack = "prod" THEN lapses + lapse ELSE lapses
  /\ operator' = [operator EXCEPT ![stack] = NoPlan]
  /\ UNCHANGED plan

\* The process ends with an error, and with it whatever runs in its container.
\* Production is restarted as long as the policy allows, with the entrypoint
\* from its start; a developer's stack stays down.  The attempts are those of
\* the life of the container, however long it served in between.  (No end of the
\* process has code 0, which on-failure would not restart: redis_client.open
\* calls sys.exit() inside the lifespan, and uvicorn makes a failed start of it.)
Fail(stack, lapse) ==
  /\ IF stack = "prod"
     THEN IF attempts > 0
          THEN Goto(stack, "upgrade") /\ attempts' = attempts - 1
          ELSE Goto(stack, "abandoned") /\ UNCHANGED attempts
     ELSE Goto(stack, "down") /\ UNCHANGED attempts
  /\ lapses' = IF stack = "prod" THEN lapses + lapse ELSE lapses
  /\ plan' = [plan EXCEPT ![stack] = NoPlan]
  /\ operator' = [operator EXCEPT ![stack] = NoPlan]

\* A server under --reload that fails leaves its supervisor, which waits for a
\* file to change.
Stall(stack, lapse) ==
  IF stack = "dev"
  THEN /\ Goto(stack, "stalled")
       /\ plan' = [plan EXCEPT ![stack] = NoPlan]
       /\ UNCHANGED <<operator, policy>>
  ELSE Fail(stack, lapse)

\* alembic upgrade head of the entrypoint reads the revision of the database.
PlanUpgrade(stack) ==
  /\ pc[stack] = "upgrade"
  /\ \/ /\ SettingsHold(stack)
        /\ IF stamp[stack] = Newest(stack)
           THEN Goto(stack, "starting") /\ UNCHANGED plan
           ELSE /\ Goto(stack, "applying")
                /\ plan' = [plan EXCEPT ![stack] = UpgradePlan(stack)]
        /\ UNCHANGED <<operator, policy>>
     \/ Fail(stack, 1)
  /\ UNCHANGED <<code, database, settings>>

\* Mutant: the entrypoint goes on after a failed upgrade.
ApplyWithoutSetE(stack) ==
  /\ pc[stack] = "applying"
  /\ \/ ~Clash(stack, plan[stack]) /\ Execute(stack, plan[stack])
     \/ UNCHANGED database
  /\ Goto(stack, "starting")
  /\ plan' = [plan EXCEPT ![stack] = NoPlan]
  /\ UNCHANGED <<code, settings, operator, policy>>

\* It writes the tables and the revision, or nothing; `set -e` ends the
\* entrypoint with it.
Apply(stack) ==
  /\ pc[stack] = "applying"
  /\ \/ /\ ~Clash(stack, plan[stack])
        /\ Execute(stack, plan[stack])
        /\ Goto(stack, "starting")
        /\ plan' = [plan EXCEPT ![stack] = NoPlan]
        /\ UNCHANGED <<operator, policy>>
     \/ Clash(stack, plan[stack]) /\ Fail(stack, 0) /\ UNCHANGED database
     \/ Fail(stack, 1) /\ UNCHANGED database
  /\ UNCHANGED <<code, settings>>

\* register_init: create_all under DB_AUTO_CREATE.
Start(stack) ==
  /\ pc[stack] = "starting"
  /\ IF stack = "dev" /\ autoCreate
     THEN /\ Goto(stack, "creating")
          /\ plan' = [plan EXCEPT ![stack] = CreatePlan(stack)]
     ELSE Goto(stack, "connecting") /\ UNCHANGED plan
  /\ UNCHANGED <<code, database, settings, operator, policy>>

CreateTable(stack) ==
  /\ pc[stack] = "creating"
  /\ \/ /\ ~Clash(stack, plan[stack])
        /\ Execute(stack, plan[stack])
        /\ Goto(stack, "connecting")
        /\ plan' = [plan EXCEPT ![stack] = NoPlan]
        /\ UNCHANGED <<operator, policy>>
     \/ Stall(stack, 0) /\ UNCHANGED database
  /\ UNCHANGED <<code, settings>>

\* redis_client.open exits on any failure; then the limiter is initialised.
Connect(stack) ==
  /\ pc[stack] = "connecting"
  /\ \/ Goto(stack, "serving") /\ UNCHANGED <<plan, operator, policy>>
     \/ Stall(stack, 1)
  /\ UNCHANGED <<code, database, settings>>

\* docker compose down: the container is removed, whatever it does.
Down(stack) ==
  /\ pc[stack] \in Running
  /\ Goto(stack, "down")
  /\ plan' = [plan EXCEPT ![stack] = NoPlan]
  /\ operator' = [operator EXCEPT ![stack] = NoPlan]
  /\ UNCHANGED <<code, database, settings, policy>>

\* A serving process dies (memory limit, signal).
Crash(stack) ==
  /\ pc[stack] = "serving"
  /\ Fail(stack, 1)
  /\ UNCHANGED <<code, database, settings>>

-----------------------------------------------------------------------------
(* The operator and the developer                                          *)

\* alembic upgrade head in the running container, beside whatever it does.
MigrateByHand(stack) ==
  /\ pc[stack] \in Running /\ operator[stack] = NoPlan
  /\ SettingsHold(stack)
  /\ stamp[stack] # Newest(stack)
  /\ operator' = [operator EXCEPT ![stack] = UpgradePlan(stack)]
  /\ UNCHANGED <<code, database, settings, pc, plan, policy>>

MigratedByHand(stack) ==
  /\ operator[stack] # NoPlan
  /\ \/ ~Clash(stack, operator[stack]) /\ Execute(stack, operator[stack])
     \/ UNCHANGED database
  /\ operator' = [operator EXCEPT ![stack] = NoPlan]
  /\ UNCHANGED <<code, settings, pc, plan, policy>>

\* uvicorn --reload: a changed file restarts the server of a developer, not the
\* entrypoint.
Reload ==
  IF pc["dev"] \in {"starting", "creating", "connecting", "serving", "stalled"}
  THEN Goto("dev", "starting") /\ plan' = [plan EXCEPT !["dev"] = NoPlan]
  ELSE UNCHANGED <<pc, plan>>

\* A file dropped in backend/models, which the package imports by itself.
AddModel ==
  /\ Extra \notin code["dev"].models
  /\ code' = [code EXCEPT !["dev"].models = @ \cup {Extra}]
  /\ Reload
  /\ UNCHANGED <<database, settings, operator, policy>>

\* Mutant: the package does not import the file that was dropped in.
GenerateFromListedModels ==
  /\ pc["dev"] \in Running
  /\ stamp["dev"] = Newest("dev") /\ Newest("dev") < MaxRevisions
  /\ code' = [code EXCEPT !["dev"].chain = Append(@, {Core, Domain} \ tables["dev"]),
                          !["dev"].generated = code["dev"].models]
  /\ Reload
  /\ UNCHANGED <<database, settings, operator, policy>>

\* alembic revision --autogenerate: the difference between the models and the
\* database, which must be at the head of the chain.
Generate ==
  /\ pc["dev"] \in Running
  /\ stamp["dev"] = Newest("dev") /\ Newest("dev") < MaxRevisions
  /\ code' = [code EXCEPT !["dev"].chain = Append(@, code["dev"].models \ tables["dev"]),
                          !["dev"].generated = code["dev"].models]
  /\ Reload
  /\ UNCHANGED <<database, settings, operator, policy>>

\* A push builds the image, and the container of production is replaced.
Deploy ==
  /\ code["prod"] # code["dev"]
  /\ code' = [code EXCEPT !["prod"] = code["dev"]]
  /\ Goto("prod", "upgrade")
  /\ plan' = [plan EXCEPT !["prod"] = NoPlan]
  /\ operator' = [operator EXCEPT !["prod"] = NoPlan]
  /\ attempts' = MaxAttempts /\ lapses' = 0
  /\ UNCHANGED <<database, settings>>

-----------------------------------------------------------------------------
Boot(stack) ==
  PlanUpgrade(stack) \/ Apply(stack) \/ Start(stack) \/ CreateTable(stack) \/ Connect(stack)

Next ==
  \/ \E s \in Stacks : Up(s) \/ Boot(s) \/ Crash(s) \/ Down(s) \/ MigrateByHand(s) \/ MigratedByHand(s)
  \/ AddModel \/ Generate \/ Deploy

\* A container that has been started goes on: it is a sequence of commands.
Spec == Init /\ [][Next]_vars /\ \A s \in Stacks : WF_vars(Boot(s))

-----------------------------------------------------------------------------
(* Properties                                                              *)

Codes == [models : SUBSET Tables, chain : Seq(SUBSET Tables), generated : SUBSET Tables]

Plans == [kind : {"none", "upgrade", "create"}, creates : SUBSET Tables, from : Nat, to : Nat]

\* Every variable keeps its type, and the policy never spends an attempt it has
\* not got.
TypeOK ==
  /\ code \in [Stacks -> Codes]
  /\ tables \in [Stacks -> SUBSET Tables]
  /\ stamp \in [Stacks -> Nat] /\ \A s \in Stacks : stamp[s] <= Newest(s)
  /\ autoCreate \in BOOLEAN /\ secrets \in BOOLEAN
  /\ pc \in [Stacks -> Running \cup {"down", "abandoned"}]
  /\ plan \in [Stacks -> Plans] /\ operator \in [Stacks -> Plans]
  /\ attempts \in 0 .. MaxAttempts /\ lapses \in 0 .. MaxAttempts + 1

\* In production the tables are those of the revision that alembic_version
\* names, at any moment: no upgrade is left half done, whoever runs it, however
\* many run at a time and wherever they are cut off.
SchemaIsItsRevision ==
  tables["prod"] = CreatedBy(code["prod"].chain, stamp["prod"])

\* Production never serves a code that is ahead of its database.
ServingIsMigrated ==
  pc["prod"] = "serving" => stamp["prod"] = Newest("prod")

\* An upgrade that loses a race against the operator's costs one restart and is
\* caught up by it: the policy runs out of attempts only when that many boots
\* have failed for a reason from outside.
GivesUpOnlyOnFaults ==
  pc["prod"] = "abandoned" => lapses >= MaxAttempts

\* A boot of production comes to an end: it serves, or the policy gives up, or
\* the stack is taken down.
BootEnds ==
  pc["prod"] = "upgrade" ~> pc["prod"] \in {"serving", "abandoned", "down"}

\* What models/__init__.py promises: a model dropped into the package is seen by
\* `shaapi db generate`, so that once a revision has been generated and the code
\* deployed, production has its table.
GeneratedModelsReachProduction ==
  pc["prod"] = "serving" => code["prod"].generated \subseteq tables["prod"]

\* The same of a developer whose DB_AUTO_CREATE is false, as in .env.template.
MigratedModelsReachProduction ==
  ~autoCreate => GeneratedModelsReachProduction
=============================================================================
