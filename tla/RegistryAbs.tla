----------------------------- MODULE RegistryAbs -----------------------------
(***************************************************************************)
(* What the administration of athletes promises: a list of people, each    *)
(* with one login address and one licence, their results, and the          *)
(* administrators.  Every request changes it in one step or not at all     *)
(* ("created together, in a single transaction", models/athlete.py).       *)
(***************************************************************************)
CONSTANTS
  Emails, Licenses,                      \* what requests are made of
  DemoEmails, DemoLicense,               \* what marks a demo record
  Starts                                 \* what the database may hold at first

VARIABLES
  people,    \* the athletes: [id, email, license, active]
  results,   \* their results: [id, athlete]
  admins     \* the addresses of the administrators

vars == <<people, results, admins>>

Logins == {p.email : p \in people} \cup admins

Init == [people |-> people, results |-> results, admins |-> admins] \in Starts

LicenseFree(l) == \A p \in people : p.license # l

\* create: a new person, whose address and licence nobody has.
Register(id, e, l) ==
  /\ e \notin Logins
  /\ LicenseFree(l)
  /\ \A p \in people : p.id # id
  /\ people' = people \cup {[id |-> id, email |-> e, license |-> l, active |-> TRUE]}
  /\ UNCHANGED <<results, admins>>

\* update: another licence; nothing else that is told apart here.
ChangeLicense(p, l) ==
  /\ LicenseFree(l)
  /\ people' = (people \ {p}) \cup {[p EXCEPT !.license = l]}
  /\ UNCHANGED <<results, admins>>

SetActive(p, on) ==
  /\ people' = (people \ {p}) \cup {[p EXCEPT !.active = on]}
  /\ UNCHANGED <<results, admins>>

\* delete: account, profile and history go together.
Remove(p) ==
  /\ people' = people \ {p}
  /\ results' = {r \in results : r.athlete # p.id}
  /\ UNCHANGED admins

Record(id, p) ==
  /\ \A r \in results : r.id # id
  /\ results' = results \cup {[id |-> id, athlete |-> p.id]}
  /\ UNCHANGED <<people, admins>>

Discard(r) ==
  /\ results' = results \ {r}
  /\ UNCHANGED <<people, admins>>

AddAdmin(e) ==
  /\ e \notin Logins
  /\ admins' = admins \cup {e}
  /\ UNCHANGED <<people, results>>

\* The purge: demo records, and no other.
Purge(gone) ==
  /\ people' = people \ gone
  /\ results' = {r \in results : r.athlete \notin {p.id : p \in gone}}
  /\ admins \ admins' \subseteq DemoEmails
  /\ admins' \subseteq admins

\* The seeder: an administrator and a demo athlete with a result, at once.
Seed(id, rid, e, f) ==
  /\ {e, f} \cap Logins = {} /\ e # f
  /\ LicenseFree(DemoLicense)
  /\ \A p \in people : p.id # id
  /\ \A r \in results : r.id # rid
  /\ people' = people \cup {[id |-> id, email |-> f, license |-> DemoLicense, active |-> TRUE]}
  /\ results' = results \cup {[id |-> rid, athlete |-> id]}
  /\ admins' = admins \cup {e}

DemoPeople == {p \in people : p.email \in DemoEmails \/ p.license = DemoLicense}

IdsOf(records) == {r.id : r \in records}

\* The id of a new record is any that none has.
Next ==
  \/ \E id \in IdsOf(people'), e \in Emails, l \in Licenses : Register(id, e, l)
  \/ \E p \in people, l \in Licenses : ChangeLicense(p, l)
  \/ \E p \in people, on \in BOOLEAN : SetActive(p, on)
  \/ \E p \in people : Remove(p)
  \/ \E p \in people, id \in IdsOf(results') : Record(id, p)
  \/ \E r \in results : Discard(r)
  \/ \E e \in Emails : AddAdmin(e)
  \/ \E gone \in SUBSET DemoPeople : Purge(gone)
  \/ \E id \in IdsOf(people'), rid \in IdsOf(results'), e \in Emails, f \in DemoEmails :
       Seed(id, rid, e, f)

Spec == Init /\ [][Next]_vars
=============================================================================
