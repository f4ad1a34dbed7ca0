--------------------------- MODULE PipelineProofs ---------------------------
(***************************************************************************)
(* Theorems about Pipeline, for any number of requests in flight and of    *)
(* accounts, any settings, and whatever routes are called by whomever.     *)
(*                                                                         *)
(* Twenty actions change a request in one of five ways: it arrives, goes   *)
(* on, is answered, ends, or is killed.  StepShape says so once; what the  *)
(* invariants need of a step is read off its shape.                        *)
(***************************************************************************)
EXTENDS Pipeline, FiniteSetTheorems, TLAPS

-----------------------------------------------------------------------------
(* The inductive invariant                                                 *)

\* The types, without the bounds of the counters.
RequestsInv == pc \in [Slots -> Steps] /\ req \in [Slots -> Requests]

TablesInv ==
  /\ settings \in Settings
  /\ roles \in Identities
  /\ holds \in [Accounts -> SUBSET roles]
  /\ standing \in [Accounts -> {"absent", "enabled", "disabled"}]
  /\ identity \in [Accounts -> Identities \cup {None}]
  /\ everHeld \in [Accounts -> Identities]

CountersInv ==
  /\ logins \in [sent : Nat, ok : Nat, fail : Nat]
  /\ logged \in [ok : Nat, fail : Nat, lost : Nat]

\* What a request can already have done, by the step it is at.
ControlInv ==
  \A r \in Slots :
    /\ pc[r] # "answered" => req[r].attempt = "none" /\ ~req[r].record
    /\ pc[r] \notin {"invalidate", "answered"} => ~req[r].effect
    /\ pc[r] \in {"handler", "invalidate"} => req[r].locale
    /\ pc[r] = "invalidate" =>
         req[r].route = "setStatus" /\ req[r].effect /\ req[r].target \in Accounts
    /\ pc[r] \in {"load", "cache"} => req[r].who \in Accounts

\* What an answer and the record that follows it may be.
AnswerInv ==
  \A r \in Slots : pc[r] = "answered" =>
    /\ req[r].answer \in {"refused", "failed"} => ~req[r].effect
    /\ req[r].answer = "ok" /\ req[r].route \in Writes => req[r].effect
    /\ req[r].effect \/ req[r].attempt # "none" => req[r].shape = "json"
    /\ req[r].record =>
         req[r].route = "stray" /\ ~req[r].effect /\ req[r].answer # "ok"

\* The account of request r was once given the role its route asks for.
Entitled(r) ==
  /\ req[r].route \in AdminRoutes =>
       req[r].who \in Accounts /\ "admin" \in everHeld[req[r].who]
  /\ req[r].route = "patchProfile" =>
       req[r].who \in Accounts /\ "user" \in everHeld[req[r].who]

\* Links, caches and identities in flight hold nothing but roles that were given.
RoleInv ==
  /\ \A a \in Accounts :
       /\ holds[a] \subseteq everHeld[a]
       /\ identity[a] # None => identity[a] \subseteq everHeld[a]
  /\ \A r \in Slots :
       /\ pc[r] # "answered" /\ req[r].user # None =>
            req[r].who \in Accounts /\ req[r].user \subseteq everHeld[req[r].who]
       /\ pc[r] \in {"handler", "invalidate"} \/ req[r].effect => Entitled(r)

\* Logins on their way, and answered attempts whose row is still to be written.
Awaiting == {r \in Slots : pc[r] \notin {"idle", "answered"} /\ req[r].route = "login"}
Pending(o) == {r \in Slots : pc[r] = "answered" /\ req[r].attempt = o}
Unlogged == {r \in Slots : pc[r] = "answered" /\ req[r].attempt # "none"}

\* Every login that was sent is on its way, answered, logged, lost or gone.
CountInv ==
  /\ logged.ok + Cardinality(Pending("ok")) <= logins.ok
  /\ logged.fail + Cardinality(Pending("fail")) <= logins.fail
  /\ logins.ok + logins.fail =
       logged.ok + logged.fail + logged.lost + Cardinality(Unlogged)
  /\ logins.ok + logins.fail + Cardinality(Awaiting) <= logins.sent
  /\ logins.sent <= MaxLogged

IInv ==
  /\ RequestsInv /\ TablesInv /\ CountersInv /\ operations \subseteq {"stray"}
  /\ ControlInv /\ AnswerInv /\ RoleInv /\ CountInv

-----------------------------------------------------------------------------
(* The shape of a step                                                     *)

\* No request but r changes.
Alone(r) ==
  /\ \A s \in Slots \ {r} : pc'[s] = pc[s] /\ req'[s] = req[s]
  /\ pc'[r] \in Steps /\ req'[r] \in Requests
  /\ RequestsInv'

\* Request r goes on to its next step.
Going(r) ==
  /\ pc[r] \notin {"idle", "answered"} /\ pc'[r] \notin {"idle", "auth", "answered"}
  /\ req'[r].route = req[r].route /\ req'[r].who = req[r].who
  /\ req'[r].attempt = "none" /\ ~req'[r].record
  /\ \/ req'[r].user = req[r].user
     \/ req[r].who \in Accounts /\ req'[r].user \in {identity[req[r].who], holds[req[r].who]}
  /\ pc'[r] \in {"load", "cache"} => req[r].who \in Accounts
  /\ pc'[r] = "handler" => pc[r] = "guard" /\ Permits(r) /\ req'[r].user = req[r].user
  /\ pc'[r] \in {"handler", "invalidate"} => req'[r].locale
  /\ pc'[r] = "invalidate" =>
       /\ pc[r] = "handler"
       /\ req'[r].route = "setStatus" /\ req'[r].effect /\ req'[r].target \in Accounts
  /\ pc'[r] # "invalidate" => ~req'[r].effect
  /\ UNCHANGED <<settings, logins, logs>>

\* The answer of request r is out.
Answering(r) ==
  /\ pc[r] \notin {"idle", "answered"} /\ pc'[r] = "answered"
  /\ req'[r].answer \in {"refused", "failed"} => ~req'[r].effect
  /\ req'[r].answer = "ok" /\ req'[r].route \in Writes => req'[r].effect
  /\ req'[r].effect \/ req'[r].attempt # "none" => req'[r].shape = "json"
  /\ req'[r].record => req'[r].route = "stray" /\ ~req'[r].effect /\ req'[r].answer # "ok"
  /\ req'[r].effect =>
       /\ pc[r] \in {"handler", "invalidate"}
       /\ req'[r].route = req[r].route /\ req'[r].who = req[r].who
  /\ req'[r].attempt # "none" => req[r].route = "login"
  /\ logins' = IF req'[r].attempt = "none" THEN logins
               ELSE [logins EXCEPT ![req'[r].attempt] = @ + 1]
  /\ UNCHANGED <<settings, logs>>

\* The fields of a request.
LEMMA RequestFields ==
  ASSUME NEW q \in Requests
  PROVE  /\ q.route \in Routes \cup {"none"} /\ q.who \in Accounts \cup {None}
         /\ q.target \in Accounts \cup {None} /\ q.user \in Identities \cup {None}
         /\ q.locale \in BOOLEAN /\ q.effect \in BOOLEAN /\ q.record \in BOOLEAN
         /\ q.attempt \in Attempts \cup {"none"}
  BY DEF Requests

\* Fields of a request may be replaced by values of their types.
LEMMA RequestUpdate ==
  ASSUME NEW q \in Requests
  PROVE  /\ \A u \in Identities \cup {None} : [q EXCEPT !.user = u] \in Requests
         /\ [q EXCEPT !.locale = TRUE] \in Requests
         /\ \A a \in Accounts : [q EXCEPT !.effect = TRUE, !.target = a] \in Requests
  BY DEF Requests

\* A slot without a request.
LEMMA NoRequestType == NoRequest \in Requests
  BY DEF NoRequest, Requests, Identities

\* One slot is given a step and a request.
LEMMA AloneStep ==
  ASSUME RequestsInv, NEW r \in Slots, NEW there \in Steps, NEW q \in Requests,
         Goto(r, there), req' = [req EXCEPT ![r] = q]
  PROVE  Alone(r) /\ pc'[r] = there /\ req'[r] = q
  BY DEF RequestsInv, Goto, Alone

\* Only the step of one slot changes.
LEMMA AlonePc ==
  ASSUME RequestsInv, NEW r \in Slots, NEW there \in Steps, Goto(r, there), req' = req
  PROVE  Alone(r) /\ pc'[r] = there /\ req'[r] = req[r]
  BY DEF RequestsInv, Goto, Alone

\* What is recorded has passed the guard's place and carries an unknown path.
LEMMA RecordedStray ==
  ASSUME NEW r \in Slots, Recorded(r)
  PROVE  req[r].route = "stray" /\ pc[r] \in {"guard", "handler", "invalidate"}
  BY DEF Recorded, LoggedPath

\* Respond gives out an answer of the right shape, when what is said fits what
\* was done.
LEMMA RespondShape ==
  ASSUME RequestsInv, ControlInv, NEW r \in Slots, pc[r] \notin {"idle", "answered"},
         NEW answer \in {"ok", "failed", "refused", "error"},
         NEW shape \in {"json", "untraced", "bare"},
         NEW done \in BOOLEAN, NEW attempt \in Attempts \cup {"none"},
         Respond(r, answer, shape, done, attempt),
         answer \in {"refused", "failed"} => ~done,
         answer = "ok" /\ req[r].route \in Writes => done,
         done \/ attempt # "none" => shape = "json",
         attempt # "none" => req[r].route = "login",
         done \/ answer = "ok" => req[r].route # "stray",
         done => pc[r] \in {"handler", "invalidate"}
  PROVE  Answering(r) /\ Alone(r)
<1> DEFINE kept == IF done \/ answer = "ok" \/ Recorded(r) THEN req[r] ELSE NoRequest
           q == [NoRequest EXCEPT !.route = kept.route, !.who = kept.who, !.answer = answer,
                   !.shape = shape, !.effect = done, !.attempt = attempt, !.record = Recorded(r)]
<1>1. req[r] \in Requests /\ Recorded(r) \in BOOLEAN
  BY DEF RequestsInv, Recorded, LoggedPath
<1>2. kept \in Requests
  BY <1>1, NoRequestType
<1>3. /\ q.route = kept.route /\ q.who = kept.who /\ q.answer = answer /\ q.shape = shape
      /\ q.effect = done /\ q.attempt = attempt /\ q.record = Recorded(r)
  BY DEF NoRequest
<1>4. q \in Requests
  <2>1. kept.route \in Routes \cup {"none"} /\ kept.who \in Accounts \cup {None}
    BY <1>2, RequestFields
  <2>2. \A route \in Routes \cup {"none"}, who \in Accounts \cup {None} :
          [NoRequest EXCEPT !.route = route, !.who = who, !.answer = answer, !.shape = shape,
             !.effect = done, !.attempt = attempt, !.record = Recorded(r)] \in Requests
    <3> HIDE DEF kept, q
    <3> QED
      BY <1>1 DEF NoRequest, Requests
  <2> HIDE DEF kept
  <2> QED
    BY <2>1, <2>2
<1>5. Goto(r, "answered") /\ req' = [req EXCEPT ![r] = q]
  BY DEF Respond
<1>6. done \/ answer = "ok" \/ Recorded(r) => kept = req[r]
  OBVIOUS
<1>7. ~(done \/ answer = "ok" \/ Recorded(r)) => kept.route = "none"
  BY DEF NoRequest
<1>8. logins' = IF attempt = "none" THEN logins ELSE [logins EXCEPT ![attempt] = @ + 1]
  BY DEF Respond
<1>9. UNCHANGED <<settings, logs>>
  BY DEF Respond
<1> HIDE DEF kept, q
<1>10. Alone(r) /\ pc'[r] = "answered" /\ req'[r] = q
  BY <1>4, <1>5, AloneStep DEF Steps
<1>11. q.record => q.route = "stray" /\ ~q.effect /\ q.answer # "ok"
  BY <1>3, <1>6, RecordedStray
<1>12. q.answer = "ok" /\ q.route \in Writes => q.effect
  BY <1>3, <1>6
<1>13. q.effect => pc[r] \in {"handler", "invalidate"} /\ q.route = req[r].route /\ q.who = req[r].who
  BY <1>3, <1>6
<1> QED
  BY <1>3, <1>8, <1>9, <1>10, <1>11, <1>12, <1>13 DEF Answering

\* The answers of the handlers of exceptions, and of success.
LEMMA SucceedShape ==
  ASSUME RequestsInv, ControlInv, NEW r \in Slots, pc[r] \in {"handler", "invalidate"},
         req[r].route # "stray", Succeed(r)
  PROVE  Answering(r) /\ Alone(r)
<1> DEFINE done == req[r].route \in Writes
<1>1. done \in BOOLEAN /\ Respond(r, "ok", "json", done, "none")
  BY DEF Succeed
<1> HIDE DEF done
<1>2. req[r].route \in Writes => done
  BY DEF done
<1> QED
  BY <1>1, <1>2, RespondShape

LEMMA RefuseShape ==
  ASSUME RequestsInv, ControlInv, NEW r \in Slots, pc[r] \notin {"idle", "answered"}, Refuse(r)
  PROVE  Answering(r) /\ Alone(r)
  BY RespondShape DEF Refuse

LEMMA RefuseIdentityShape ==
  ASSUME RequestsInv, ControlInv, NEW r \in Slots, pc[r] \notin {"idle", "answered"},
         NEW answer \in {"refused", "error"}, RefuseIdentity(r, answer)
  PROVE  Answering(r) /\ Alone(r)
  BY RespondShape DEF RefuseIdentity

LEMMA CrashShape ==
  ASSUME RequestsInv, ControlInv, NEW r \in Slots, pc[r] \notin {"idle", "answered"}, Crash(r)
  PROVE  Answering(r) /\ Alone(r)
<1> DEFINE shape == IF settings.environment # "dev" /\ ~req[r].locale THEN "bare" ELSE "json"
           done == req[r].effect
<1>1. Respond(r, "error", shape, done, "none") /\ shape \in {"json", "untraced", "bare"}
  BY DEF Crash
<1>2. done \in BOOLEAN
  BY RequestFields DEF RequestsInv
<1>3. done => pc[r] = "invalidate" /\ req[r].locale /\ req[r].route # "stray"
  BY DEF ControlInv
<1>4. done => shape = "json"
  BY <1>3
<1> HIDE DEF shape, done
<1> QED
  BY <1>1, <1>2, <1>3, <1>4, RespondShape

\* Taking up a request, and being rid of it.
LEMMA ArriveAlone ==
  ASSUME RequestsInv, NEW r \in Slots, NEW route \in Routes, NEW who \in Accounts \cup {None},
         Arrive(r, route, who)
  PROVE  Alone(r) /\ pc'[r] = "auth" /\ req'[r] = [NoRequest EXCEPT !.route = route, !.who = who]
<1>1. [NoRequest EXCEPT !.route = route, !.who = who] \in Requests
  BY NoRequestType DEF Requests
<1> QED
  BY <1>1, AloneStep DEF Arrive, Steps

LEMMA FinishAlone ==
  ASSUME RequestsInv, NEW r \in Slots, Finish(r) \/ Kill(r)
  PROVE  Alone(r) /\ pc'[r] = "idle" /\ req'[r] = NoRequest
  BY NoRequestType, AloneStep DEF Finish, Kill, Steps

\* Every step of a request that is served has one of three shapes.
LEMMA StepShape ==
  ASSUME RequestsInv, TablesInv, ControlInv, NEW r \in Slots, Serve(r)
  PROVE  Alone(r) /\ (Going(r) \/ Answering(r) \/ Finish(r))
<1>0. req[r] \in Requests /\ pc[r] \in Steps
  BY DEF RequestsInv
<1>1. CASE Authenticate(r)
  <2>1. pc[r] = "auth"
    BY <1>1 DEF Authenticate
  <2>2. CASE LocateFails(r)
    BY <2>1, <2>2, CrashShape DEF LocateFails
  <2>3. CASE /\ Goto(r, "guard")
             /\ UNCHANGED <<settings, req, logins, logs>>
    BY <2>1, <2>3, AlonePc DEF ControlInv, Going, Steps
  <2>4. CASE \E answer \in {"refused", "error"} : RefuseIdentity(r, answer)
    BY <2>1, <2>4, RefuseIdentityShape
  <2>5. CASE /\ req[r].who # None
             /\ Goto(r, IF identity[req[r].who] = None THEN "load" ELSE "guard")
             /\ req' = [req EXCEPT ![r].user = identity[req[r].who]]
             /\ UNCHANGED <<settings, logins, logs>>
    <3> DEFINE there == IF identity[req[r].who] = None THEN "load" ELSE "guard"
               q == [req[r] EXCEPT !.user = identity[req[r].who]]
    <3>1. req[r].who \in Accounts
      BY <1>0, <2>5, RequestFields
    <3>2. q \in Requests
      BY <1>0, <3>1, RequestUpdate DEF TablesInv
    <3>3. there \in {"load", "guard"} /\ there \in Steps
      BY DEF Steps
    <3>4. /\ q.route = req[r].route /\ q.who = req[r].who /\ q.attempt = req[r].attempt
          /\ q.record = req[r].record /\ q.user = identity[req[r].who] /\ q.effect = req[r].effect
      BY <1>0 DEF Requests
    <3>5. Goto(r, there) /\ req' = [req EXCEPT ![r] = q]
      BY <2>5
    <3> HIDE DEF there, q
    <3>6. Alone(r) /\ pc'[r] = there /\ req'[r] = q
      BY <3>2, <3>3, <3>5, AloneStep
    <3> QED
      BY <2>1, <2>5, <3>1, <3>3, <3>4, <3>6 DEF Going, ControlInv
  <2> QED
    BY <1>1, <2>2, <2>3, <2>4, <2>5 DEF Authenticate
<1>2. CASE LoadUser(r)
  <2>1. pc[r] = "load" /\ req[r].who \in Accounts
    BY <1>2 DEF LoadUser, ControlInv
  <2>2. CASE /\ Goto(r, "cache")
             /\ req' = [req EXCEPT ![r].user = holds[req[r].who]]
             /\ UNCHANGED <<settings, logins, logs>>
    <3> DEFINE q == [req[r] EXCEPT !.user = holds[req[r].who]]
    <3>1. holds[req[r].who] \in Identities
      BY <2>1 DEF TablesInv, Identities
    <3>2. q \in Requests
      BY <1>0, <3>1, RequestUpdate
    <3>3. /\ q.route = req[r].route /\ q.who = req[r].who /\ q.attempt = req[r].attempt
          /\ q.record = req[r].record /\ q.user = holds[req[r].who] /\ q.effect = req[r].effect
      BY <1>0 DEF Requests
    <3>4. req' = [req EXCEPT ![r] = q]
      BY <2>2
    <3> HIDE DEF q
    <3>5. Alone(r) /\ pc'[r] = "cache" /\ req'[r] = q
      BY <2>2, <3>2, <3>4, AloneStep DEF Steps
    <3> QED
      BY <2>1, <2>2, <3>3, <3>5 DEF Going, ControlInv
  <2>3. CASE Crash(r) \/ RefuseIdentity(r, "refused") \/ RefuseIdentity(r, "error")
    BY <2>1, <2>3, CrashShape, RefuseIdentityShape
  <2> QED
    BY <1>2, <2>2, <2>3 DEF LoadUser
<1>3. CASE CacheUser(r)
  <2>1. pc[r] = "cache"
    BY <1>3 DEF CacheUser
  <2>2. CASE Goto(r, "guard") /\ UNCHANGED <<settings, req, logins, logs>>
    BY <2>1, <2>2, AlonePc DEF ControlInv, Going, Steps
  <2>3. CASE RefuseIdentity(r, "error")
    BY <2>1, <2>3, RefuseIdentityShape
  <2> QED
    BY <1>3, <2>2, <2>3 DEF CacheUser
<1>4. CASE Guard(r)
  <2>1. pc[r] = "guard"
    BY <1>4 DEF Guard
  <2>2. CASE /\ Permits(r) /\ Goto(r, "handler")
             /\ req' = [req EXCEPT ![r].locale = TRUE]
             /\ UNCHANGED <<settings, logins, logs>>
    <3> DEFINE q == [req[r] EXCEPT !.locale = TRUE]
    <3>1. q \in Requests
      BY <1>0, RequestUpdate
    <3>2. /\ q.route = req[r].route /\ q.who = req[r].who /\ q.attempt = req[r].attempt
          /\ q.record = req[r].record /\ q.user = req[r].user /\ q.effect = req[r].effect
          /\ q.locale
      BY <1>0 DEF Requests
    <3>3. req' = [req EXCEPT ![r] = q]
      BY <2>2
    <3> HIDE DEF q
    <3>4. Alone(r) /\ pc'[r] = "handler" /\ req'[r] = q
      BY <2>2, <3>1, <3>3, AloneStep DEF Steps
    <3> QED
      BY <2>1, <2>2, <3>2, <3>4 DEF Going, ControlInv
  <2>3. CASE Refuse(r) \/ RateLimited(r)
    BY <2>1, <2>3, RefuseShape DEF RateLimited
  <2>4. CASE BadArguments(r)
    <3> DEFINE q == [NoRequest EXCEPT !.answer = "error", !.shape = "json"]
    <3>1. /\ q \in Requests /\ q.answer = "error" /\ q.shape = "json" /\ ~q.effect /\ ~q.record
          /\ q.attempt = "none"
      BY NoRequestType DEF Requests, NoRequest
    <3>2. Goto(r, "answered") /\ req' = [req EXCEPT ![r] = q]
      BY <2>4 DEF BadArguments
    <3> HIDE DEF q
    <3>3. Alone(r) /\ pc'[r] = "answered" /\ req'[r] = q
      BY <3>1, <3>2, AloneStep DEF Steps
    <3> QED
      BY <2>1, <2>4, <3>1, <3>3 DEF BadArguments, Answering
  <2>5. CASE req[r].route = "login" /\ Respond(r, "error", "json", FALSE, "none")
    BY <2>1, <2>5, RespondShape
  <2> QED
    BY <1>4, <2>2, <2>3, <2>4, <2>5 DEF Guard
<1>5. CASE Login(r)
  <2>1. pc[r] = "handler" /\ req[r].route = "login"
    BY <1>5 DEF Login
  <2>2. CASE Refuse(r)
    BY <2>1, <2>2, RefuseShape
  <2>3. CASE Respond(r, "refused", "json", FALSE, "fail")
    BY <2>1, <2>3, RespondShape DEF Attempts
  <2>4. CASE Respond(r, "ok", "json", TRUE, "ok")
    BY <2>1, <2>4, RespondShape DEF Attempts
  <2> QED
    BY <1>5, <2>2, <2>3, <2>4 DEF Login
<1>6. CASE Account(r) \/ PatchProfile(r)
  <2>1. Succeed(r) /\ pc[r] = "handler" /\ req[r].route # "stray"
    BY <1>6 DEF Account, PatchProfile
  <2> QED
    BY <2>1, SucceedShape
<1>7. CASE SetStatus(r)
  <2>1. pc[r] = "handler" /\ req[r].route = "setStatus"
    BY <1>7 DEF SetStatus
  <2>2. CASE Refuse(r)
    BY <2>1, <2>2, RefuseShape
  <2>3. ASSUME NEW a \in Accounts, Goto(r, "invalidate"),
               req' = [req EXCEPT ![r].effect = TRUE, ![r].target = a],
               UNCHANGED <<settings, logins, logs>>
        PROVE  Alone(r) /\ Going(r)
    <3> DEFINE q == [req[r] EXCEPT !.effect = TRUE, !.target = a]
    <3>1. q \in Requests
      BY <1>0, RequestUpdate
    <3>2. /\ q.route = req[r].route /\ q.who = req[r].who /\ q.attempt = req[r].attempt
          /\ q.record = req[r].record /\ q.user = req[r].user /\ q.effect /\ q.target = a
          /\ q.locale = req[r].locale
      BY <1>0 DEF Requests
    <3>3. req' = [req EXCEPT ![r] = q]
      BY <2>3
    <3> HIDE DEF q
    <3>4. Alone(r) /\ pc'[r] = "invalidate" /\ req'[r] = q
      BY <2>3, <3>1, <3>3, AloneStep DEF Steps
    <3> QED
      BY <2>1, <2>3, <3>2, <3>4 DEF Going, ControlInv
  <2> QED
    BY <1>7, <2>2, <2>3 DEF SetStatus
<1>8. CASE Invalidate(r)
  <2>1. pc[r] = "invalidate" /\ req[r].route # "stray"
    BY <1>8 DEF Invalidate, ControlInv
  <2> QED
    BY <1>8, <2>1, SucceedShape, CrashShape DEF Invalidate
<1>9. CASE CreateAthlete(r)
  <2>1. pc[r] = "handler" /\ req[r].route # "stray"
    BY <1>9 DEF CreateAthlete
  <2>2. Succeed(r) \/ Refuse(r)
    BY <1>9 DEF CreateAthlete
  <2> QED
    BY <2>1, <2>2, SucceedShape, RefuseShape
<1>10. CASE DeleteRole(r)
  <2>1. pc[r] = "handler" /\ req[r].route # "stray"
    BY <1>10 DEF DeleteRole
  <2>2. Succeed(r) \/ Respond(r, "failed", "json", FALSE, "none")
    BY <1>10 DEF DeleteRole
  <2> QED
    BY <2>1, <2>2, SucceedShape, RespondShape
<1>11. CASE ReadRole(r)
  <2>1. pc[r] = "handler" /\ req[r].route # "stray" /\ (Succeed(r) \/ Crash(r))
    BY <1>11 DEF ReadRole
  <2> QED
    BY <2>1, SucceedShape, CrashShape
<1>12. CASE EditRole(r) \/ PatchAccount(r) \/ RbacVerify(r) \/ NotFound(r) \/ FailHandler(r)
  <2>1. pc[r] = "handler" /\ (Refuse(r) \/ Crash(r))
    BY <1>12 DEF EditRole, PatchAccount, RbacVerify, NotFound, FailHandler
  <2> QED
    BY <2>1, RefuseShape, CrashShape
<1>13. CASE Finish(r)
  BY <1>13, FinishAlone
<1> QED
  BY <1>1, <1>2, <1>3, <1>4, <1>5, <1>6, <1>7, <1>8, <1>9, <1>10, <1>11, <1>12, <1>13 DEF Serve

\* What a request that arrives may carry.
LEMMA ArriveTyped ==
  ASSUME NEW r \in Slots, Request(r)
  PROVE  \E route \in Routes, who \in Accounts \cup {None} : Arrive(r, route, who)
<1>1. PICK call \in CallsOf[r] : Arrive(r, call.route, call.who)
  BY DEF Request
<1>2. call \in [route : Routes, who : Accounts \cup {None}]
  BY PipelineAssumption
<1>3. call.route \in Routes /\ call.who \in Accounts \cup {None}
  BY <1>2
<1> QED
  BY <1>1, <1>3

\* Every step of the system is a step of one request, or the end of a TTL.
LEMMA NextShape ==
  ASSUME RequestsInv, TablesInv, ControlInv, Next
  PROVE  \/ \E r \in Slots :
              /\ Alone(r)
              /\ \/ \E route \in Routes, who \in Accounts \cup {None} : Arrive(r, route, who)
                 \/ Serve(r) /\ (Going(r) \/ Answering(r) \/ Finish(r))
                 \/ Kill(r)
         \/ \E a \in Accounts : ExpireIdentity(a)
<1>1. ASSUME NEW r \in Slots, Request(r)
      PROVE  Alone(r) /\ \E route \in Routes, who \in Accounts \cup {None} : Arrive(r, route, who)
  BY <1>1, ArriveTyped, ArriveAlone
<1>2. ASSUME NEW r \in Slots, Serve(r)
      PROVE  Alone(r) /\ (Going(r) \/ Answering(r) \/ Finish(r))
  BY <1>2, StepShape
<1>3. ASSUME NEW r \in Slots, Kill(r)
      PROVE  Alone(r)
  BY <1>3, FinishAlone
<1> QED
  BY <1>1, <1>2, <1>3 DEF Next

-----------------------------------------------------------------------------
(* Tables                                                                  *)

\* The roles in an identity that is written are roles its account was given.
CachedInv ==
  \A a \in Accounts :
    /\ holds[a] \subseteq everHeld[a]
    /\ identity[a] # None => identity[a] \subseteq everHeld[a]

\* Most steps leave the tables alone.
LEMMA TablesUnchanged ==
  ASSUME TablesInv, CachedInv, UNCHANGED <<settings, database, identity, everHeld>>
  PROVE  TablesInv' /\ CachedInv' /\ \A a \in Accounts : everHeld[a] \subseteq everHeld'[a]
  BY DEF TablesInv, CachedInv, database

\* No answer changes the settings.
LEMMA RespondSettings ==
  ASSUME NEW r, Succeed(r) \/ Refuse(r) \/ Crash(r)
                \/ (\E answer \in {"refused", "error"} : RefuseIdentity(r, answer))
                \/ (\E answer, done, attempt : Respond(r, answer, "json", done, attempt))
  PROVE  settings' = settings
  BY DEF Succeed, Refuse, Crash, RefuseIdentity, Respond

\* Steps that leave the tables alone.
Reads(r) ==
  \/ Authenticate(r) \/ LoadUser(r) \/ Guard(r) \/ Login(r) \/ Account(r) \/ PatchProfile(r)
  \/ ReadRole(r) \/ EditRole(r) \/ PatchAccount(r) \/ RbacVerify(r) \/ NotFound(r)
  \/ FailHandler(r) \/ Finish(r) \/ Kill(r)

LEMMA ReadsUnchanged ==
  ASSUME NEW r \in Slots, Reads(r)
  PROVE  UNCHANGED <<settings, database, identity, everHeld>>
<1>1. UNCHANGED <<database, identity, everHeld>>
  BY DEF Reads, Authenticate, LoadUser, Guard, Login, Account, PatchProfile, ReadRole, EditRole,
         PatchAccount, RbacVerify, NotFound, FailHandler, Finish, Kill, history
<1>2. CASE Authenticate(r) \/ LoadUser(r) \/ Guard(r)
  BY <1>1, <1>2, RespondSettings
  DEF Authenticate, LoadUser, Guard, LocateFails, RateLimited, BadArguments, Respond
<1>3. CASE Login(r) \/ Account(r) \/ PatchProfile(r) \/ ReadRole(r) \/ EditRole(r)
           \/ PatchAccount(r) \/ RbacVerify(r) \/ NotFound(r) \/ FailHandler(r)
  BY <1>1, <1>3, RespondSettings
  DEF Login, Account, PatchProfile, ReadRole, EditRole, PatchAccount, RbacVerify, NotFound,
      FailHandler
<1>4. CASE Finish(r) \/ Kill(r)
  BY <1>1, <1>4 DEF Finish, Kill
<1> QED
  BY <1>1, <1>2, <1>3, <1>4 DEF Reads

\* The tables keep their types, what was given is not forgotten, and what is
\* linked or cached was given.
LEMMA TablesStep ==
  ASSUME RequestsInv, TablesInv, ControlInv, RoleInv, Next
  PROVE  TablesInv' /\ CachedInv' /\ \A a \in Accounts : everHeld[a] \subseteq everHeld'[a]
<1>0. CachedInv
  BY DEF RoleInv, CachedInv
<1>1. ASSUME NEW r \in Slots, Reads(r)
      PROVE  TablesInv' /\ CachedInv' /\ \A a \in Accounts : everHeld[a] \subseteq everHeld'[a]
  BY <1>0, <1>1, ReadsUnchanged, TablesUnchanged
<1>2. ASSUME NEW r \in Slots, Request(r)
      PROVE  TablesInv' /\ CachedInv' /\ \A a \in Accounts : everHeld[a] \subseteq everHeld'[a]
  BY <1>0, <1>2, TablesUnchanged DEF Request, Arrive
<1>3. ASSUME NEW r \in Slots, CacheUser(r)
      PROVE  TablesInv' /\ CachedInv' /\ \A a \in Accounts : everHeld[a] \subseteq everHeld'[a]
  <2>1. req[r].who \in Accounts /\ req[r].user \in Identities \cup {None}
    BY <1>3, RequestFields DEF CacheUser, ControlInv, RequestsInv
  <2>2. req[r].user # None => req[r].user \subseteq everHeld[req[r].who]
    BY <1>3 DEF CacheUser, RoleInv
  <2>3. settings' = settings /\ UNCHANGED <<roles, holds, standing, everHeld>>
    BY <1>3, RespondSettings DEF CacheUser, database
  <2>4. UNCHANGED identity \/ identity' = [identity EXCEPT ![req[r].who] = req[r].user]
    BY <1>3 DEF CacheUser
  <2> QED
    BY <1>0, <2>1, <2>2, <2>3, <2>4 DEF TablesInv, CachedInv
<1>4. ASSUME NEW r \in Slots, SetStatus(r)
      PROVE  TablesInv' /\ CachedInv' /\ \A a \in Accounts : everHeld[a] \subseteq everHeld'[a]
  <2>1. settings' = settings /\ UNCHANGED <<roles, holds, identity, everHeld>>
    BY <1>4, RespondSettings DEF SetStatus
  <2>2. standing' \in [Accounts -> {"absent", "enabled", "disabled"}]
    BY <1>4 DEF SetStatus, TablesInv
  <2> QED
    BY <1>0, <2>1, <2>2 DEF TablesInv, CachedInv
<1>5. ASSUME NEW r \in Slots, Invalidate(r)
      PROVE  TablesInv' /\ CachedInv' /\ \A a \in Accounts : everHeld[a] \subseteq everHeld'[a]
  <2>1. settings' = settings /\ UNCHANGED <<roles, holds, standing, everHeld>>
    BY <1>5, RespondSettings DEF Invalidate, database
  <2>2. UNCHANGED identity \/ identity' = [identity EXCEPT ![req[r].target] = None]
    BY <1>5 DEF Invalidate
  <2> QED
    BY <1>0, <2>1, <2>2 DEF TablesInv, CachedInv
<1>6. ASSUME NEW r \in Slots, CreateAthlete(r)
      PROVE  TablesInv' /\ CachedInv' /\ \A a \in Accounts : everHeld[a] \subseteq everHeld'[a]
  <2>1. CASE UNCHANGED <<database, everHeld>>
    <3>1. UNCHANGED <<settings, identity>>
      BY <1>6, RespondSettings DEF CreateAthlete
    <3> QED
      BY <1>0, <2>1, <3>1, TablesUnchanged
  <2>2. ASSUME NEW a \in Accounts,
               standing' = [standing EXCEPT ![a] = "enabled"],
               roles' = roles \cup {"user"},
               holds' = [holds EXCEPT ![a] = {"user"}],
               everHeld' = [everHeld EXCEPT ![a] = @ \cup {"user"}],
               UNCHANGED <<settings, identity>>
        PROVE  TablesInv' /\ CachedInv' /\ \A b \in Accounts : everHeld[b] \subseteq everHeld'[b]
    <3>1. roles' \in Identities /\ everHeld' \in [Accounts -> Identities]
      BY <2>2 DEF TablesInv, Identities, RoleNames
    <3>2. holds' \in [Accounts -> SUBSET roles']
      BY <2>2 DEF TablesInv
    <3>3. \A b \in Accounts : holds'[b] \subseteq everHeld'[b] /\ everHeld[b] \subseteq everHeld'[b]
      BY <1>0, <2>2 DEF TablesInv, CachedInv
    <3>4. TablesInv'
      BY <2>2, <3>1, <3>2 DEF TablesInv
    <3>5. CachedInv'
      BY <1>0, <2>2, <3>3 DEF CachedInv
    <3> QED
      BY <3>3, <3>4, <3>5
  <2>3. settings' = settings /\ identity' = identity
    BY <1>6, RespondSettings DEF CreateAthlete
  <2> QED
    BY <1>6, <2>1, <2>2, <2>3 DEF CreateAthlete
<1>7. ASSUME NEW r \in Slots, DeleteRole(r)
      PROVE  TablesInv' /\ CachedInv' /\ \A a \in Accounts : everHeld[a] \subseteq everHeld'[a]
  <2>1. settings' = settings /\ UNCHANGED <<standing, identity, everHeld>>
    BY <1>7, RespondSettings DEF DeleteRole
  <2>2. PICK names \in Identities :
          roles' = roles \ names /\ holds' = [a \in Accounts |-> holds[a] \ names]
    BY <1>7 DEF DeleteRole, DropLinks
  <2>3. roles' \in Identities /\ holds' \in [Accounts -> SUBSET roles']
    BY <2>2 DEF TablesInv, Identities
  <2> QED
    BY <1>0, <2>1, <2>2, <2>3 DEF TablesInv, CachedInv
<1>8. ASSUME NEW a \in Accounts, ExpireIdentity(a)
      PROVE  TablesInv' /\ CachedInv' /\ \A b \in Accounts : everHeld[b] \subseteq everHeld'[b]
  BY <1>0, <1>8 DEF ExpireIdentity, TablesInv, CachedInv, database, history
<1> QED
  BY <1>1, <1>2, <1>3, <1>4, <1>5, <1>6, <1>7, <1>8 DEF Next, Serve, Reads

-----------------------------------------------------------------------------
(* Requests, answers and roles                                             *)

\* The answer in a slot without a request.
LEMMA NoRequestFields ==
  /\ NoRequest.attempt = "none" /\ NoRequest.record = FALSE /\ NoRequest.effect = FALSE
  /\ NoRequest.user = None /\ NoRequest.route = "none"
  BY DEF NoRequest

\* A request that arrives has not done anything yet, one that has ended is gone.
LEMMA FreshStep ==
  ASSUME RequestsInv, NEW r \in Slots,
         (\E route \in Routes, who \in Accounts \cup {None} : Arrive(r, route, who))
           \/ Finish(r) \/ Kill(r)
  PROVE  /\ pc'[r] \in {"idle", "auth"}
         /\ req'[r].attempt = "none" /\ req'[r].record = FALSE /\ req'[r].effect = FALSE
         /\ req'[r].user = None
<1>1. ASSUME NEW route \in Routes, NEW who \in Accounts \cup {None}, Arrive(r, route, who)
      PROVE  /\ pc'[r] \in {"idle", "auth"}
             /\ req'[r].attempt = "none" /\ req'[r].record = FALSE /\ req'[r].effect = FALSE
             /\ req'[r].user = None
  <2>1. pc'[r] = "auth" /\ req'[r] = [NoRequest EXCEPT !.route = route, !.who = who]
    BY <1>1, ArriveAlone
  <2> QED
    BY <2>1 DEF NoRequest
<1> QED
  BY <1>1, FinishAlone, NoRequestFields

LEMMA ControlStep ==
  ASSUME RequestsInv, TablesInv, ControlInv, Next
  PROVE  ControlInv'
<1>1. ASSUME NEW r \in Slots, Alone(r), Going(r) \/ Answering(r) PROVE ControlInv'
  BY <1>1 DEF ControlInv, Alone, Going, Answering
<1>2. ASSUME NEW r \in Slots, Alone(r),
             (\E route \in Routes, who \in Accounts \cup {None} : Arrive(r, route, who))
               \/ Finish(r) \/ Kill(r)
      PROVE  ControlInv'
  <2>1. /\ pc'[r] \in {"idle", "auth"}
        /\ req'[r].attempt = "none" /\ req'[r].record = FALSE /\ req'[r].effect = FALSE
    BY <1>2, FreshStep
  <2> QED
    BY <1>2, <2>1 DEF ControlInv, Alone
<1>3. ASSUME NEW a \in Accounts, ExpireIdentity(a) PROVE ControlInv'
  BY <1>3 DEF ExpireIdentity, ControlInv
<1> QED
  BY <1>1, <1>2, <1>3, NextShape

\* What is answered is answered truly, and recorded only if it is unknown.
LEMMA AnswerStep ==
  ASSUME RequestsInv, TablesInv, ControlInv, AnswerInv, Next
  PROVE  AnswerInv'
<1>1. ASSUME NEW r \in Slots, Alone(r), Going(r) \/ Answering(r) PROVE AnswerInv'
  BY <1>1 DEF AnswerInv, Alone, Going, Answering
<1>2. ASSUME NEW r \in Slots, Alone(r),
             (\E route \in Routes, who \in Accounts \cup {None} : Arrive(r, route, who))
               \/ Finish(r) \/ Kill(r)
      PROVE  AnswerInv'
  <2>1. pc'[r] # "answered"
    BY <1>2, FreshStep
  <2> QED
    BY <1>2, <2>1 DEF AnswerInv, Alone
<1>3. ASSUME NEW a \in Accounts, ExpireIdentity(a) PROVE AnswerInv'
  BY <1>3 DEF ExpireIdentity, AnswerInv
<1> QED
  BY <1>1, <1>2, <1>3, NextShape

\* Nothing leaves a row in the operation log but an unknown path.
LEMMA OperationsStep ==
  ASSUME RequestsInv, TablesInv, ControlInv, AnswerInv, operations \subseteq {"stray"}, Next
  PROVE  operations' \subseteq {"stray"}
<1>1. ASSUME NEW r \in Slots, Finish(r) PROVE operations' \subseteq {"stray"}
  BY <1>1 DEF Finish, LogOperation, AnswerInv
<1>2. ASSUME NEW r \in Slots, Going(r) \/ Answering(r) \/ Kill(r)
      PROVE  operations' = operations
  BY <1>2 DEF Going, Answering, Kill, logs
<1>3. ASSUME NEW r \in Slots, NEW route, NEW who, Arrive(r, route, who)
      PROVE  operations' = operations
  BY <1>3 DEF Arrive, logs
<1>4. ASSUME NEW a \in Accounts, ExpireIdentity(a) PROVE operations' = operations
  BY <1>4 DEF ExpireIdentity, logs
<1> QED
  BY <1>1, <1>2, <1>3, <1>4, NextShape

\* The guard lets nobody through whose account was not given the role.
LEMMA PermitsEntitled ==
  ASSUME NEW r \in Slots, Permits(r),
         req[r].user # None =>
           req[r].who \in Accounts /\ req[r].user \subseteq everHeld[req[r].who]
  PROVE  Entitled(r)
  BY DEF Permits, Entitled, AdminRoutes

\* Who is entitled stays so while roles are only added to those ever given.
LEMMA EntitledStays ==
  ASSUME NEW r \in Slots, Entitled(r),
         req'[r].route = req[r].route, req'[r].who = req[r].who,
         \A a \in Accounts : everHeld[a] \subseteq everHeld'[a]
  PROVE  Entitled(r)'
  BY DEF Entitled

LEMMA RoleStep ==
  ASSUME RequestsInv, TablesInv, ControlInv, RoleInv, Next
  PROVE  RoleInv'
<1> DEFINE Carries(s) == pc[s] # "answered" /\ req[s].user # None =>
                           req[s].who \in Accounts /\ req[s].user \subseteq everHeld[req[s].who]
           Acts(s) == pc[s] \in {"handler", "invalidate"} \/ req[s].effect => Entitled(s)
<1>0. \A a \in Accounts : everHeld[a] \subseteq everHeld'[a]
  BY TablesStep
<1>1. CachedInv'
  BY TablesStep
<1>2. \A s \in Slots : Carries(s) /\ Acts(s)
  BY DEF RoleInv
<1>3. ASSUME NEW s \in Slots, pc'[s] = pc[s], req'[s] = req[s]
      PROVE  Carries(s)' /\ Acts(s)'
  <2>1. Carries(s)'
    BY <1>0, <1>2, <1>3
  <2>2. Acts(s)'
    BY <1>0, <1>2, <1>3, EntitledStays
  <2> QED
    BY <2>1, <2>2
<1>4. ASSUME NEW r \in Slots, Going(r) PROVE Carries(r)' /\ Acts(r)'
  <2>1. Carries(r) /\ Acts(r) /\ pc[r] # "answered"
    BY <1>2, <1>4 DEF Going
  <2>2. Carries(r)'
    <3>1. CASE req'[r].user = req[r].user
      BY <1>0, <1>4, <2>1, <3>1 DEF Going
    <3>2. CASE /\ req[r].who \in Accounts
               /\ req'[r].user \in {identity[req[r].who], holds[req[r].who]}
      <4>1. req'[r].user # None => req'[r].user \subseteq everHeld[req[r].who]
        BY <3>2 DEF RoleInv
      <4> QED
        BY <1>0, <1>4, <3>2, <4>1 DEF Going
    <3> QED
      BY <1>4, <3>1, <3>2 DEF Going
  <2>3. Acts(r)'
    <3>1. CASE pc'[r] = "handler"
      <4>1. Entitled(r)
        BY <1>4, <2>1, <3>1, PermitsEntitled DEF Going
      <4> QED
        BY <1>0, <1>4, <4>1, EntitledStays DEF Going
    <3>2. CASE pc'[r] = "invalidate"
      <4>1. Entitled(r)
        BY <1>4, <2>1, <3>2 DEF Going
      <4> QED
        BY <1>0, <1>4, <4>1, EntitledStays DEF Going
    <3>3. CASE pc'[r] \notin {"handler", "invalidate"}
      BY <1>4, <3>3 DEF Going
    <3> QED
      BY <3>1, <3>2, <3>3
  <2> QED
    BY <2>2, <2>3
<1>5. ASSUME NEW r \in Slots, Answering(r) PROVE Carries(r)' /\ Acts(r)'
  <2>1. pc'[r] = "answered"
    BY <1>5 DEF Answering
  <2>2. ASSUME req'[r].effect PROVE Entitled(r)'
    <3>1. Entitled(r)
      BY <1>2, <1>5, <2>2 DEF Answering
    <3> QED
      BY <1>0, <1>5, <2>2, <3>1, EntitledStays DEF Answering
  <2> QED
    BY <2>1, <2>2
<1>6. ASSUME NEW r \in Slots,
             (\E route \in Routes, who \in Accounts \cup {None} : Arrive(r, route, who))
               \/ Finish(r) \/ Kill(r)
      PROVE  Carries(r)' /\ Acts(r)'
  BY <1>6, FreshStep
<1>7. ASSUME NEW a \in Accounts, ExpireIdentity(a) PROVE \A s \in Slots : Carries(s)' /\ Acts(s)'
  BY <1>3, <1>7 DEF ExpireIdentity
<1>8. \A s \in Slots : Carries(s)' /\ Acts(s)'
  BY <1>3, <1>4, <1>5, <1>6, <1>7, NextShape DEF Alone
<1> QED
  BY <1>1, <1>8 DEF RoleInv, CachedInv

-----------------------------------------------------------------------------
(* The login log                                                           *)

\* A set of slots that gains or loses one.
LEMMA Cardinalities ==
  ASSUME NEW S \in SUBSET Slots, NEW r \in Slots
  PROVE  /\ Cardinality(S) \in Nat
         /\ r \notin S => Cardinality(S \cup {r}) = Cardinality(S) + 1
         /\ r \in S => Cardinality(S \ {r}) = Cardinality(S) - 1
         /\ Cardinality(S \ {r}) \in Nat /\ Cardinality(S \ {r}) <= Cardinality(S)
<1>1. IsFiniteSet(Slots)
  BY PipelineAssumption
<1>2. IsFiniteSet(S)
  BY <1>1, FS_Subset
<1>3. IsFiniteSet(S \ {r})
  BY <1>2, FS_RemoveElement
<1>4. Cardinality(S) \in Nat /\ Cardinality(S \ {r}) \in Nat
  BY <1>2, <1>3, FS_CardinalityType
<1>5. r \notin S => Cardinality(S \cup {r}) = Cardinality(S) + 1
  BY <1>2, FS_AddElement
<1>6. Cardinality(S \ {r}) = IF r \in S THEN Cardinality(S) - 1 ELSE Cardinality(S)
  BY <1>2, FS_RemoveElement
<1> QED
  BY <1>4, <1>5, <1>6

\* A counter of a record of counters goes up by one.
LEMMA LoginsUp ==
  ASSUME logins \in [sent : Nat, ok : Nat, fail : Nat], NEW o \in Attempts,
         logins' = [logins EXCEPT ![o] = @ + 1]
  PROVE  /\ logins' \in [sent : Nat, ok : Nat, fail : Nat]
         /\ logins'.sent = logins.sent
         /\ logins'.ok = IF o = "ok" THEN logins.ok + 1 ELSE logins.ok
         /\ logins'.fail = IF o = "fail" THEN logins.fail + 1 ELSE logins.fail
<1>1. CASE o = "ok"
  BY <1>1
<1>2. CASE o = "fail"
  BY <1>2
<1> QED
  BY <1>1, <1>2 DEF Attempts

LEMMA LoggedUp ==
  ASSUME logged \in [ok : Nat, fail : Nat, lost : Nat], NEW o \in Attempts \cup {"lost"},
         logged' = [logged EXCEPT ![o] = @ + 1]
  PROVE  /\ logged' \in [ok : Nat, fail : Nat, lost : Nat]
         /\ logged'.ok = IF o = "ok" THEN logged.ok + 1 ELSE logged.ok
         /\ logged'.fail = IF o = "fail" THEN logged.fail + 1 ELSE logged.fail
         /\ logged'.lost = IF o = "lost" THEN logged.lost + 1 ELSE logged.lost
<1>1. CASE o = "ok"
  BY <1>1
<1>2. CASE o = "fail"
  BY <1>2
<1>3. CASE o = "lost"
  BY <1>3
<1> QED
  BY <1>1, <1>2, <1>3 DEF Attempts

\* The counts and their sets before a step.
LEMMA CountTypes ==
  ASSUME CountersInv
  PROVE  /\ logins.sent \in Nat /\ logins.ok \in Nat /\ logins.fail \in Nat
         /\ logged.ok \in Nat /\ logged.fail \in Nat /\ logged.lost \in Nat
         /\ Awaiting \in SUBSET Slots /\ Unlogged \in SUBSET Slots
         /\ \A o : Pending(o) \in SUBSET Slots
  BY DEF CountersInv, Awaiting, Unlogged, Pending

\* Nothing that is counted changes.
LEMMA CountUnchanged ==
  ASSUME CountersInv, CountInv, UNCHANGED <<logins, logged>>,
         Awaiting' = Awaiting, Unlogged' = Unlogged,
         Pending("ok")' = Pending("ok"), Pending("fail")' = Pending("fail")
  PROVE  CountersInv' /\ CountInv'
  BY DEF CountersInv, CountInv

\* A login or an unknown path is sent.
LEMMA CountArrive ==
  ASSUME RequestsInv, CountersInv, CountInv, NEW r \in Slots,
         NEW route \in Routes, NEW who \in Accounts \cup {None}, Arrive(r, route, who)
  PROVE  CountersInv' /\ CountInv'
<1>1. /\ Alone(r) /\ pc'[r] = "auth" /\ pc[r] = "idle"
      /\ req'[r].route = route
  <2>1. req'[r] = [NoRequest EXCEPT !.route = route, !.who = who]
    BY ArriveAlone
  <2>2. req'[r].route = route
    BY <2>1 DEF NoRequest
  <2> QED
    BY <2>2, ArriveAlone DEF Arrive
<1>2. /\ Unlogged' = Unlogged /\ Pending("ok")' = Pending("ok")
      /\ Pending("fail")' = Pending("fail")
  BY <1>1 DEF Unlogged, Pending, Alone
<1>3. Awaiting' = IF route = "login" THEN Awaiting \cup {r} ELSE Awaiting
  BY <1>1 DEF Awaiting, Alone
<1>4. r \notin Awaiting
  BY <1>1 DEF Awaiting
<1>5. logged' = logged
  BY DEF Arrive, logs
<1>6. CASE route \in LoggedRoutes
  <2>1. /\ logins' \in [sent : Nat, ok : Nat, fail : Nat]
        /\ logins'.sent = logins.sent + 1 /\ logins'.ok = logins.ok /\ logins'.fail = logins.fail
    BY <1>6 DEF Arrive, CountersInv
  <2>2. logins.sent < MaxLogged /\ MaxLogged \in Nat
    BY <1>6, PipelineAssumption DEF Arrive
  <2>3. Cardinality(Awaiting') \in Nat /\ Cardinality(Awaiting') <= Cardinality(Awaiting) + 1
    BY <1>3, <1>4, CountTypes, Cardinalities
  <2>4. Cardinality(Awaiting) \in Nat
    BY CountTypes, Cardinalities
  <2>5. CountersInv'
    BY <1>5, <2>1 DEF CountersInv
  <2>6. logins.ok + logins.fail + Cardinality(Awaiting') <= logins.sent + 1
    BY <2>3, <2>4, CountTypes DEF CountInv
  <2>7. logins.sent + 1 <= MaxLogged
    BY <2>2, CountTypes
  <2> QED
    BY <1>2, <1>5, <2>1, <2>5, <2>6, <2>7 DEF CountInv
<1>7. CASE route \notin LoggedRoutes
  <2>1. logins' = logins /\ route # "login"
    BY <1>7 DEF Arrive, LoggedRoutes
  <2> QED
    BY <1>2, <1>3, <1>5, <2>1, CountUnchanged
<1> QED
  BY <1>6, <1>7

\* A request goes on.
LEMMA CountGoing ==
  ASSUME CountersInv, CountInv, NEW r \in Slots, Alone(r), Going(r)
  PROVE  CountersInv' /\ CountInv'
<1>1. /\ Unlogged' = Unlogged /\ Pending("ok")' = Pending("ok")
      /\ Pending("fail")' = Pending("fail")
  BY DEF Unlogged, Pending, Alone, Going
<1>2. Awaiting' = Awaiting
  BY DEF Awaiting, Alone, Going
<1> QED
  BY <1>1, <1>2, CountUnchanged DEF Going, logs

\* A request is answered: a login is no longer on its way, and its attempt, if
\* there was one, is to be logged.
LEMMA CountAnswering ==
  ASSUME RequestsInv, CountersInv, CountInv, NEW r \in Slots, Alone(r), Answering(r)
  PROVE  CountersInv' /\ CountInv'
<1> DEFINE o == req'[r].attempt
<1>0. pc[r] \notin {"idle", "answered"} /\ pc'[r] = "answered" /\ logged' = logged
  BY DEF Answering, logs
<1>1. r \notin Unlogged /\ r \notin Pending("ok") /\ r \notin Pending("fail")
  BY <1>0 DEF Unlogged, Pending
<1>2. Awaiting' = Awaiting \ {r}
  BY <1>0 DEF Awaiting, Alone
<1>3. CASE o = "none"
  <2>1. /\ Unlogged' = Unlogged /\ Pending("ok")' = Pending("ok")
        /\ Pending("fail")' = Pending("fail")
    BY <1>0, <1>3 DEF Unlogged, Pending, Alone
  <2>2. logins' = logins
    BY <1>3 DEF Answering
  <2>3. /\ Cardinality(Awaiting') \in Nat /\ Cardinality(Awaiting) \in Nat
        /\ Cardinality(Awaiting') <= Cardinality(Awaiting)
    BY <1>2, CountTypes, Cardinalities
  <2>4. logins.ok + logins.fail + Cardinality(Awaiting') <= logins.sent
    BY <2>3, CountTypes DEF CountInv
  <2> QED
    BY <1>0, <2>1, <2>2, <2>4 DEF CountersInv, CountInv
<1>4. CASE o \in Attempts
  <2>0. o # "none" /\ o \in {"ok", "fail"}
    BY <1>4 DEF Attempts
  <2>1. /\ Unlogged' = Unlogged \cup {r}
        /\ Pending("ok")' = (IF o = "ok" THEN Pending("ok") \cup {r} ELSE Pending("ok"))
        /\ Pending("fail")' = (IF o = "fail" THEN Pending("fail") \cup {r} ELSE Pending("fail"))
    BY <1>0, <2>0 DEF Unlogged, Pending, Alone
  <2>2. logins' = [logins EXCEPT ![o] = @ + 1] /\ r \in Awaiting
    BY <1>0, <2>0 DEF Answering, Awaiting
  <2>3. /\ logins' \in [sent : Nat, ok : Nat, fail : Nat]
        /\ logins'.sent = logins.sent
        /\ logins'.ok = IF o = "ok" THEN logins.ok + 1 ELSE logins.ok
        /\ logins'.fail = IF o = "fail" THEN logins.fail + 1 ELSE logins.fail
    <3> HIDE DEF o
    <3> QED
      BY <1>4, <2>2, LoginsUp DEF CountersInv
  <2>4. /\ Cardinality(Awaiting') = Cardinality(Awaiting) - 1
        /\ Cardinality(Unlogged') = Cardinality(Unlogged) + 1
        /\ Cardinality(Pending("ok")') =
             IF o = "ok" THEN Cardinality(Pending("ok")) + 1 ELSE Cardinality(Pending("ok"))
        /\ Cardinality(Pending("fail")') =
             IF o = "fail" THEN Cardinality(Pending("fail")) + 1 ELSE Cardinality(Pending("fail"))
    <3> HIDE DEF o
    <3> QED
      BY <1>1, <1>2, <2>1, <2>2, CountTypes, Cardinalities
  <2>5. /\ Cardinality(Awaiting) \in Nat /\ Cardinality(Unlogged) \in Nat
        /\ Cardinality(Pending("ok")) \in Nat /\ Cardinality(Pending("fail")) \in Nat
    BY CountTypes, Cardinalities
  <2>6. CountersInv'
    BY <1>0, <2>3 DEF CountersInv
  <2> HIDE DEF o
  <2> QED
    BY <1>0, <2>0, <2>3, <2>4, <2>5, <2>6, CountTypes DEF CountInv
<1>5. o \in Attempts \cup {"none"}
  BY RequestFields DEF Alone
<1> QED
  BY <1>3, <1>4, <1>5

\* A request is over: the row of its attempt, if there was one, is written or lost.
LEMMA CountEnding ==
  ASSUME RequestsInv, ControlInv, CountersInv, CountInv, NEW r \in Slots, Finish(r) \/ Kill(r)
  PROVE  CountersInv' /\ CountInv'
<1> DEFINE o == req[r].attempt
<1>0. /\ Alone(r) /\ pc'[r] = "idle" /\ logins' = logins
      /\ pc[r] # "idle"
  BY FinishAlone DEF Finish, Kill, history
<1>1. Awaiting' = Awaiting \ {r}
  BY <1>0 DEF Awaiting, Alone
<1>2. /\ Cardinality(Awaiting') \in Nat /\ Cardinality(Awaiting) \in Nat
      /\ Cardinality(Awaiting') <= Cardinality(Awaiting)
  BY <1>1, CountTypes, Cardinalities
<1>3. logins.ok + logins.fail + Cardinality(Awaiting') <= logins.sent
  BY <1>2, CountTypes DEF CountInv
<1>4. CASE o = "none"
  <2>1. /\ Unlogged' = Unlogged /\ Pending("ok")' = Pending("ok")
        /\ Pending("fail")' = Pending("fail")
    BY <1>0, <1>4 DEF Unlogged, Pending, Alone
  <2>2. logged' = logged
    BY <1>4 DEF Finish, Kill
  <2> QED
    BY <1>0, <1>3, <2>1, <2>2 DEF CountersInv, CountInv
<1>5. CASE o \in Attempts
  <2>0. o # "none" /\ o \in {"ok", "fail"}
    BY <1>5 DEF Attempts
  <2>1. pc[r] = "answered"
    BY <2>0 DEF ControlInv
  <2>2. /\ Unlogged' = Unlogged \ {r} /\ r \in Unlogged
        /\ Pending("ok")' = (IF o = "ok" THEN Pending("ok") \ {r} ELSE Pending("ok"))
        /\ Pending("fail")' = (IF o = "fail" THEN Pending("fail") \ {r} ELSE Pending("fail"))
        /\ r \in Pending(o)
    BY <1>0, <2>0, <2>1 DEF Unlogged, Pending, Alone
  <2>3. PICK row \in {o, "lost"} : logged' = [logged EXCEPT ![row] = @ + 1]
    BY <2>0 DEF Finish, Kill
  <2>4. row \in Attempts \cup {"lost"}
    BY <1>5, <2>3
  <2>5. /\ logged' \in [ok : Nat, fail : Nat, lost : Nat]
        /\ logged'.ok = IF row = "ok" THEN logged.ok + 1 ELSE logged.ok
        /\ logged'.fail = IF row = "fail" THEN logged.fail + 1 ELSE logged.fail
        /\ logged'.lost = IF row = "lost" THEN logged.lost + 1 ELSE logged.lost
    BY <2>3, <2>4, LoggedUp DEF CountersInv
  <2>6. /\ Cardinality(Unlogged') = Cardinality(Unlogged) - 1
        /\ Cardinality(Pending("ok")') =
             IF o = "ok" THEN Cardinality(Pending("ok")) - 1 ELSE Cardinality(Pending("ok"))
        /\ Cardinality(Pending("fail")') =
             IF o = "fail" THEN Cardinality(Pending("fail")) - 1 ELSE Cardinality(Pending("fail"))
    <3> HIDE DEF o
    <3> QED
      BY <2>0, <2>2, CountTypes, Cardinalities
  <2>7. /\ Cardinality(Unlogged) \in Nat
        /\ Cardinality(Pending("ok")) \in Nat /\ Cardinality(Pending("fail")) \in Nat
    BY CountTypes, Cardinalities
  <2>8. CountersInv'
    BY <1>0, <2>5 DEF CountersInv
  <2> HIDE DEF o
  <2> QED
    BY <1>0, <1>3, <2>0, <2>3, <2>5, <2>6, <2>7, <2>8, CountTypes DEF CountInv
<1>6. o \in Attempts \cup {"none"}
  BY RequestFields DEF RequestsInv
<1> QED
  BY <1>4, <1>5, <1>6

LEMMA CountStep ==
  ASSUME RequestsInv, TablesInv, ControlInv, CountersInv, CountInv, Next
  PROVE  CountersInv' /\ CountInv'
<1>1. ASSUME NEW a \in Accounts, ExpireIdentity(a) PROVE CountersInv' /\ CountInv'
  <2>1. UNCHANGED <<pc, req, logins, logged>>
    BY <1>1 DEF ExpireIdentity, logs, history
  <2> QED
    BY <2>1, CountUnchanged DEF Awaiting, Unlogged, Pending
<1> QED
  BY <1>1, CountArrive, CountGoing, CountAnswering, CountEnding, NextShape

-----------------------------------------------------------------------------
(* The theorems                                                            *)

LEMMA InitInv == Init => IInv
<1> SUFFICES ASSUME Init PROVE IInv
  OBVIOUS
<1>1. \A r \in Slots : pc[r] = "idle" /\ req[r] = NoRequest
  BY DEF Init
<1>2. RequestsInv
  BY NoRequestType DEF Init, RequestsInv, Steps
<1>3. TablesInv
  BY PipelineAssumption DEF Init, TablesInv, Identities, RoleNames
<1>4. CountersInv /\ operations \subseteq {"stray"}
  BY DEF Init, CountersInv
<1>5. ControlInv /\ AnswerInv
  BY <1>1, NoRequestFields DEF ControlInv, AnswerInv
<1>6. RoleInv
  BY <1>1, NoRequestFields DEF Init, RoleInv
<1>7. Awaiting = {} /\ Unlogged = {} /\ Pending("ok") = {} /\ Pending("fail") = {}
  BY <1>1 DEF Awaiting, Unlogged, Pending
<1>8. CountInv
  <2>1. Cardinality({}) = 0
    BY FS_EmptySet
  <2>2. MaxLogged \in Nat
    BY PipelineAssumption
  <2>3. /\ logins.sent = 0 /\ logins.ok = 0 /\ logins.fail = 0
        /\ logged.ok = 0 /\ logged.fail = 0 /\ logged.lost = 0
    BY DEF Init
  <2>4. /\ Cardinality(Awaiting) = 0 /\ Cardinality(Unlogged) = 0
        /\ Cardinality(Pending("ok")) = 0 /\ Cardinality(Pending("fail")) = 0
    BY <1>7, <2>1
  <2>5. 0 + 0 <= 0 /\ 0 + 0 = 0 + 0 + 0 + 0 /\ 0 + 0 + 0 <= 0 /\ 0 <= MaxLogged
    BY <2>2
  <2> QED
    BY <2>3, <2>4, <2>5 DEF CountInv
<1> QED
  BY <1>2, <1>3, <1>4, <1>5, <1>6, <1>8 DEF IInv

LEMMA StutterInv ==
  ASSUME IInv, UNCHANGED vars
  PROVE  IInv'
<1>1. /\ UNCHANGED <<settings, roles, holds, standing, identity, everHeld>>
      /\ UNCHANGED <<pc, req, logins, logged, operations>>
  BY DEF vars
<1>2. RequestsInv' /\ TablesInv' /\ ControlInv' /\ AnswerInv' /\ RoleInv'
  BY <1>1 DEF IInv, RequestsInv, TablesInv, ControlInv, AnswerInv, RoleInv, Entitled
<1>3. CountersInv' /\ CountInv'
  BY <1>1 DEF IInv, CountersInv, CountInv, Awaiting, Unlogged, Pending
<1> QED
  BY <1>1, <1>2, <1>3 DEF IInv

LEMMA InvStep == IInv /\ [Next]_vars => IInv'
<1> SUFFICES ASSUME IInv, Next PROVE IInv'
  BY StutterInv
<1>1. RequestsInv /\ TablesInv /\ ControlInv
  BY DEF IInv
<1>2. RequestsInv'
  BY <1>1, NextShape DEF Alone, ExpireIdentity, RequestsInv
<1>3. TablesInv'
  BY <1>1, TablesStep DEF IInv
<1>4. ControlInv' /\ AnswerInv'
  BY <1>1, ControlStep, AnswerStep DEF IInv
<1>5. RoleInv'
  BY <1>1, RoleStep DEF IInv
<1>6. CountersInv' /\ CountInv'
  BY <1>1, CountStep DEF IInv
<1>7. (operations \subseteq {"stray"})'
  BY <1>1, OperationsStep DEF IInv
<1> QED
  BY <1>2, <1>3, <1>4, <1>5, <1>6, <1>7 DEF IInv

\* The inductive invariant holds in every state.
THEOREM Invariance == Spec => []IInv
  BY InitInv, InvStep, PTL DEF Spec

\* The invariant bounds what is counted.
LEMMA InvType == IInv => TypeOK
<1> SUFFICES ASSUME IInv PROVE TypeOK
  OBVIOUS
<1>1. /\ logins \in [sent : Nat, ok : Nat, fail : Nat]
      /\ logged \in [ok : Nat, fail : Nat, lost : Nat]
  BY DEF IInv, CountersInv
<1>2. /\ Cardinality(Awaiting) \in Nat /\ Cardinality(Unlogged) \in Nat
      /\ Cardinality(Pending("ok")) \in Nat /\ Cardinality(Pending("fail")) \in Nat
  <2>1. \A S \in SUBSET Slots : Cardinality(S) \in Nat
    BY PipelineAssumption, FS_Subset, FS_CardinalityType
  <2> QED
    BY <2>1, CountTypes DEF IInv
<1>3. MaxLogged \in Nat
  BY PipelineAssumption
<1>4. /\ logins.sent \in 0 .. MaxLogged /\ logins.ok \in 0 .. MaxLogged
      /\ logins.fail \in 0 .. MaxLogged
  BY <1>2, <1>3, CountTypes DEF IInv, CountInv
<1>5. /\ logged.ok \in 0 .. MaxLogged /\ logged.fail \in 0 .. MaxLogged
      /\ logged.lost \in 0 .. MaxLogged
  BY <1>2, <1>3, CountTypes DEF IInv, CountInv
<1>6. logins \in [sent : 0 .. MaxLogged, ok : 0 .. MaxLogged, fail : 0 .. MaxLogged]
  BY <1>1, <1>4
<1>7. logged \in [ok : 0 .. MaxLogged, fail : 0 .. MaxLogged, lost : 0 .. MaxLogged]
  BY <1>1, <1>5
<1>8. operations \subseteq Routes
  BY DEF IInv, Routes
<1> QED
  BY <1>6, <1>7, <1>8 DEF IInv, TypeOK, RequestsInv, TablesInv

\* Every variable of Pipeline keeps its type; no more logins and unknown paths
\* are answered, or logged, than were sent.
THEOREM PipelineType == Spec => []TypeOK
  BY Invariance, InvType, PTL

\* A refusal commits nothing, and a success has committed, on every route.
THEOREM AnswersAreTrue == Spec => []AnswersTellTheTruth
<1>1. IInv => AnswersTellTheTruth
  BY DEF IInv, AnswerInv, AnswersTellTheTruth
<1> QED
  BY <1>1, Invariance, PTL

\* What has committed, or will be logged as an attempt, has a trace id.
THEOREM CommitsHaveTraces == Spec => []CommitsAreTraced
<1>1. IInv => CommitsAreTraced
  BY DEF IInv, AnswerInv, CommitsAreTraced
<1> QED
  BY <1>1, Invariance, PTL

\* Nobody commits on a guarded route whose account was never given its role.
THEOREM CommitsAreEntitled == Spec => []OnlyRoleHoldersCommit
<1>1. IInv => OnlyRoleHoldersCommit
  BY DEF IInv, RoleInv, Entitled, OnlyRoleHoldersCommit
<1> QED
  BY <1>1, Invariance, PTL

\* However logins overlap, and whatever dies, the login log has a row with its
\* outcome for each attempt that was answered, unless the row was lost.
THEOREM LogsAreTrue == Spec => []LoginLogAgrees
<1>1. IInv => LoginLogAgrees
  <2> SUFFICES ASSUME IInv PROVE LoginLogAgrees
    OBVIOUS
  <2>1. Cardinality(Pending("ok")) \in Nat /\ Cardinality(Pending("fail")) \in Nat
    <3>1. \A S \in SUBSET Slots : Cardinality(S) \in Nat
      BY PipelineAssumption, FS_Subset, FS_CardinalityType
    <3> QED
      BY <3>1, CountTypes DEF IInv
  <2>2. logged.ok <= logins.ok /\ logged.fail <= logins.fail
    BY <2>1, CountTypes DEF IInv, CountInv
  <2> QED
    BY <2>2 DEF IInv, CountInv, Unlogged, LoginLogAgrees
<1> QED
  BY <1>1, Invariance, PTL

\* Once no account is linked to the role `admin`, no request links one to it.
THEOREM LockoutStays == Spec => [][LockedOut => LockedOut']_vars
<1>1. IInv /\ [Next]_vars => [LockedOut => LockedOut']_vars
  <2> SUFFICES ASSUME IInv, Next, LockedOut PROVE LockedOut'
    BY DEF LockedOut
  <2>1. CASE UNCHANGED holds
    BY <2>1 DEF LockedOut
  <2>2. ASSUME NEW r \in Slots, DeleteRole(r) PROVE LockedOut'
    BY <2>2 DEF LockedOut, DeleteRole, DropLinks
  <2>3. ASSUME NEW r \in Slots, CreateAthlete(r), ~UNCHANGED holds PROVE LockedOut'
    <3>1. PICK a \in Accounts : holds' = [holds EXCEPT ![a] = {"user"}]
      BY <2>3 DEF CreateAthlete, database
    <3> QED
      BY <3>1 DEF LockedOut, IInv, TablesInv
  <2>4. ASSUME NEW r \in Slots,
               \/ Reads(r) \/ Request(r) \/ CacheUser(r) \/ SetStatus(r) \/ Invalidate(r)
        PROVE  UNCHANGED holds
    <3>1. CASE Reads(r)
      BY <3>1, ReadsUnchanged DEF database
    <3> QED
      BY <2>4, <3>1 DEF Request, Arrive, CacheUser, SetStatus, Invalidate, database
  <2>5. ASSUME NEW a \in Accounts, ExpireIdentity(a) PROVE UNCHANGED holds
    BY <2>5 DEF ExpireIdentity, database
  <2> QED
    BY <2>1, <2>2, <2>3, <2>4, <2>5 DEF Next, Serve, Reads
<1> QED
  BY <1>1, Invariance, PTL DEF Spec

=============================================================================
