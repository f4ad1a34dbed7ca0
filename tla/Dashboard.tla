----------------------------- MODULE Dashboard -----------------------------
(***************************************************************************)
(* The two dashboards: queries answered one after the other while others   *)
(* commit, then figures computed in Python from the answers.               *)
(*                                                                         *)
(* A request reads in one session but at READ COMMITTED, so every query    *)
(* sees the rows committed when it runs.  Dates are told apart by month,   *)
(* counted from year 0: 12 * year + month - 1.                             *)
(***************************************************************************)
EXTENDS Integers, Sequences, FiniteSets, SequencesExt

CONSTANTS
  Rows,          \* the results that may be recorded: rows of table performance
  Athletes,      \* the profiles: [id, discipline, club]
  Athlete,       \* the athlete who asks for a personal dashboard
  Normal,        \* Normal[unit]: the unit stripped and in lower case
  LatestSize,    \* LATEST_PERFORMANCES and ADMIN_LATEST_PERFORMANCES
  TopSize,       \* TOP_RESULTS
  Heaps,         \* the orders in which Postgres may find the rows of a tie
  MaxWrites,     \* bound on the commits of other requests
  None

LowerIsBetterUnits == {"s", "sec", "ms", "min", "h"}
Medals == {"gold", "silver", "bronze"}

ASSUME DashboardAssumption ==
  /\ IsFiniteSet(Rows) /\ IsFiniteSet(Athletes) /\ None \notin Nat
  /\ \A r \in Rows : r.date \in Nat /\ r.result \in Nat /\ r.id \in Nat
  /\ \A r \in Rows : r.ranking \in Nat \cup {None}
  /\ \A r \in Rows : \E a \in Athletes : a.id = r.athlete
  /\ \A r \in Rows : r.unit \in DOMAIN Normal
  /\ Heaps # {}
  /\ \A heap \in Heaps : \A p, q \in Rows :
       heap[p] \in Nat /\ (heap[p] = heap[q] => p = q)
  /\ LatestSize \in Nat \ {0} /\ TopSize \in Nat \ {0} /\ MaxWrites \in Nat

VARIABLES
  athletes,   \* the rows of table athlete
  active,     \* the athletes whose account is enabled
  results,    \* the rows of table performance
  step,       \* step[d]: the query that dashboard d runs next
  view,       \* view[d]: the answers it has got
  quiet,      \* history: quiet[d], nobody has committed since its first query
  writes      \* bound: the commits so far

vars == <<athletes, active, results, step, view, quiet, writes>>

Dashboards == {"user", "admin"}

Queries(d) ==
  IF d = "user"
  THEN <<"profile", "history", "medals", "competitions", "bestRanking">>
  ELSE <<"athletes", "active", "total", "competitions", "clubs", "disciplines", "medals",
         "byDiscipline", "athletesByDiscipline", "byMonth", "top", "latest">>

Waiting == 0
Done(d) == step[d] = Len(Queries(d)) + 1

\* The elements of S in the order Before, a linear one (SetToSortSeq tries the
\* functions of [1 .. n -> S] in turn, too many here).
Sorted(S, Before(_, _)) ==
  [i \in 1 .. Cardinality(S) |->
     CHOOSE x \in S : Cardinality({y \in S : Before(y, x)}) = i - 1]

-----------------------------------------------------------------------------
(* The queries *)

\* ORDER BY competition_date DESC, id DESC
Newest(p, q) == p.date > q.date \/ (p.date = q.date /\ p.id > q.id)

\* ORDER BY ranking, competition_date DESC: rows that tie come as they are found.
Podium(heap, p, q) ==
  \/ p.ranking < q.ranking
  \/ p.ranking = q.ranking /\ p.date > q.date
  \/ p.ranking = q.ranking /\ p.date = q.date /\ heap[p] < heap[q]

Ranked(rows) == {r \in rows : r.ranking # None}
Medalled(rows) == {r \in rows : r.medal # None}
Competitions(rows) == {r.competition : r \in rows}

\* GROUP BY: for every value of a column, count(id), count(medal) and, for the
\* months, count(distinct competition_name).
Grouped(rows, column) ==
  {LET group == {r \in rows : r[column] = k}
   IN [key |-> k, performances |-> Cardinality(group), medals |-> Cardinality(Medalled(group)),
       competitions |-> Cardinality(Competitions(group))] : k \in {r[column] : r \in rows}}

First(s, n) == SubSeq(s, 1, IF Len(s) < n THEN Len(s) ELSE n)

Answer(d, query) ==
  LET rows == IF d = "user" THEN {r \in results : r.athlete = Athlete} ELSE results
  IN CASE query = "profile" -> Athlete
       [] query = "history" -> Sorted(rows, Newest)
       [] query = "medals" ->
            [m \in {r.medal : r \in Medalled(rows)} |-> Cardinality({r \in rows : r.medal = m})]
       [] query = "competitions" -> Cardinality(Competitions(rows))
       [] query = "bestRanking" ->
            IF Ranked(rows) = {} THEN None
            ELSE CHOOSE k \in {r.ranking : r \in Ranked(rows)} :
                   \A r \in Ranked(rows) : k <= r.ranking
       [] query = "athletes" -> Cardinality(athletes)
       [] query = "active" -> Cardinality({a \in athletes : a.id \in active})
       [] query = "total" -> Cardinality(rows)
       [] query = "clubs" -> Cardinality({a.club : a \in athletes} \ {None})
       [] query = "disciplines" -> {a.discipline : a \in athletes}
       [] query = "byDiscipline" -> Grouped(rows, "discipline")
       [] query = "athletesByDiscipline" ->
            [k \in {a.discipline : a \in athletes} |->
               Cardinality({a \in athletes : a.discipline = k})]
       [] query = "byMonth" -> Grouped(rows, "date")
       [] query = "latest" -> First(Sorted(rows, Newest), LatestSize)

\* top_results: which of the rows of a tie comes first, or makes the limit, is
\* open.
TopResults(rows) ==
  {First(Sorted(Ranked(rows), LAMBDA p, q : Podium(heap, p, q)), TopSize) : heap \in Heaps}

Replies(d, query) == IF query = "top" THEN TopResults(results) ELSE {Answer(d, query)}

-----------------------------------------------------------------------------
(* What Python makes of the answers *)

Month(date) == (date % 12) + 1

\* Mutant: the season opens in October.
SeasonOfOctober(date) ==
  IF Month(date) > 9 THEN date \div 12 ELSE date \div 12 - 1

\* season_of: the year in which the season opens.
SeasonOf(date) ==
  IF Month(date) >= 9 THEN date \div 12 ELSE date \div 12 - 1

IsLowerBetter(unit) == Normal[unit] \in LowerIsBetterUnits

\* Mutant: the highest number whatever the unit.
PickHighest(rows, group) ==
  rows[CHOOSE i \in group : \A j \in group :
         /\ rows[j].result <= rows[i].result
         /\ j < i => rows[j].result # rows[i].result]

\* _pick_best: min or max, as the unit of the first row says, and the first of
\* those that tie.  A group is the set of its positions in the rows.
PickBest(rows, group) ==
  LET first == CHOOSE i \in group : \A j \in group : i <= j
      Beats(i, j) == IF IsLowerBetter(rows[first].unit) THEN rows[i].result < rows[j].result
                     ELSE rows[i].result > rows[j].result
  IN rows[CHOOSE i \in group : \A j \in group :
            ~Beats(j, i) /\ (j < i => rows[j].result # rows[i].result)]

EventOf(r) == <<r.discipline, r.event>>

\* _best_results: one mark per discipline and event.
BestResults(rows) ==
  {PickBest(rows, {i \in DOMAIN rows : EventOf(rows[i]) = e}) : e \in {EventOf(r) : r \in Range(rows)}}

\* _medal_count
MedalCount(tally) == [m \in Medals |-> IF m \in DOMAIN tally THEN tally[m] ELSE 0]

\* Mutant: the points in the order they were read.
EvolutionAsRead(rows) == rows

\* build_evolution: sorted() is stable.
Evolution(rows) ==
  LET Before(i, j) == rows[i].date < rows[j].date \/ (rows[i].date = rows[j].date /\ i < j)
      order == Sorted(DOMAIN rows, Before)
  IN [k \in DOMAIN rows |-> rows[order[k]]]

\* _seasons: one athlete's history, season by season.
Seasons(rows) ==
  {LET group == {i \in DOMAIN rows : SeasonOf(rows[i].date) = s}
       inSeason == {rows[i] : i \in group}
   IN [season |-> s, performances |-> Cardinality(group),
       medals |-> Cardinality({i \in group : rows[i].medal # None}),
       competitions |-> Cardinality(Competitions(inSeason)),
       best |-> PickBest(rows, group).result] : s \in {SeasonOf(r.date) : r \in Range(rows)}}

\* A column of the rows, added up: summary.performances += period.performances.
SumOf(rows, column) == MapThenSumSet(LAMBDA r : r[column], rows)

\* Mutant: a month replaces the one before it instead of adding to it.
SeasonsLastMonth(periods) ==
  {LET last == CHOOSE p \in periods :
                 SeasonOf(p.key) = s /\ \A q \in periods : SeasonOf(q.key) = s => q.key <= p.key
   IN [season |-> s, performances |-> last.performances, medals |-> last.medals,
       competitions |-> last.competitions] : s \in {SeasonOf(p.key) : p \in periods}}

\* _seasons_from_periods: the months of a season added up.
SeasonsFromPeriods(periods) ==
  {LET months == {p \in periods : SeasonOf(p.key) = s}
   IN [season |-> s,
       performances |-> SumOf(months, "performances"),
       medals |-> SumOf(months, "medals"),
       competitions |-> SumOf(months, "competitions")] :
   s \in {SeasonOf(p.key) : p \in periods}}

\* athletes_per_discipline.get(discipline, 0)
AthletesIn(v, discipline) ==
  IF discipline \in DOMAIN v.athletesByDiscipline THEN v.athletesByDiscipline[discipline] ELSE 0

UserResponse(v) ==
  [total |-> Len(v.history), competitions |-> v.competitions, bestRanking |-> v.bestRanking,
   medals |-> MedalCount(v.medals), latest |-> First(v.history, LatestSize),
   bestResults |-> BestResults(v.history), evolution |-> Evolution(v.history),
   seasons |-> Seasons(v.history)]

AdminResponse(v) ==
  [athletes |-> v.athletes, active |-> v.active, disciplines |-> Cardinality(v.disciplines),
   competitions |-> v.competitions, total |-> v.total, clubs |-> v.clubs,
   medals |-> MedalCount(v.medals), bestResults |-> BestResults(v.top), latest |-> v.latest,
   byDiscipline |-> {[discipline |-> g.key, athletes |-> AthletesIn(v, g.key),
                      performances |-> g.performances, medals |-> g.medals] : g \in v.byDiscipline},
   byPeriod |-> v.byMonth, seasons |-> SeasonsFromPeriods(v.byMonth)]

-----------------------------------------------------------------------------

Init ==
  /\ athletes = Athletes
  /\ active \in SUBSET {a.id : a \in Athletes}
  /\ results \in {S \in SUBSET Rows : \A r, s \in S : r.id = s.id => r = s}
  /\ step = [d \in Dashboards |-> Waiting]
  /\ view = [d \in Dashboards |-> <<>>]
  /\ quiet = [d \in Dashboards |-> TRUE]
  /\ writes = 0

\* A request comes in.
Ask(d) ==
  /\ step[d] = Waiting
  /\ step' = [step EXCEPT ![d] = 1]
  /\ UNCHANGED <<athletes, active, results, view, quiet, writes>>

\* The next query.  The personal dashboard of an account without a profile is
\* a 404.
Run(d) ==
  /\ step[d] \in 1 .. Len(Queries(d))
  /\ LET q == Queries(d)[step[d]]
     IN IF q = "profile" /\ \A a \in athletes : a.id # Athlete
        THEN step' = [step EXCEPT ![d] = Waiting] /\ UNCHANGED view
        ELSE /\ step' = [step EXCEPT ![d] = @ + 1]
             /\ \E reply \in Replies(d, q) :
                  view' = [view EXCEPT ![d] = [k \in DOMAIN @ \cup {q} |->
                                                 IF k = q THEN reply ELSE @[k]]]
  /\ quiet' = [quiet EXCEPT ![d] = IF step[d] = 1 THEN TRUE ELSE @]
  /\ UNCHANGED <<athletes, active, results, writes>>

\* The response is out.
Respond(d) ==
  /\ Done(d)
  /\ step' = [step EXCEPT ![d] = Waiting]
  /\ view' = [view EXCEPT ![d] = <<>>]
  /\ UNCHANGED <<athletes, active, results, quiet, writes>>

\* The commit of another request.
Commits ==
  /\ writes < MaxWrites
  /\ writes' = writes + 1
  /\ quiet' = [d \in Dashboards |-> FALSE]
  /\ UNCHANGED <<step, view>>

RecordResult ==
  /\ Commits
  /\ \E r \in Rows :
       /\ \A s \in results : s.id # r.id
       /\ \E a \in athletes : a.id = r.athlete
       /\ results' = results \cup {r}
  /\ UNCHANGED <<athletes, active>>

\* PerformanceUpdate has no athlete_id: a result keeps its athlete.
AmendResult ==
  /\ Commits
  /\ \E r \in results, s \in Rows :
       /\ s.id = r.id /\ s.athlete = r.athlete /\ s # r
       /\ results' = (results \ {r}) \cup {s}
  /\ UNCHANGED <<athletes, active>>

DiscardResult ==
  /\ Commits
  /\ \E r \in results : results' = results \ {r}
  /\ UNCHANGED <<athletes, active>>

\* Mutant: the results of a deleted athlete stay.
DeleteAthleteOnly ==
  /\ Commits
  /\ \E a \in athletes :
       /\ athletes' = athletes \ {a}
       /\ active' = active \ {a.id}
  /\ UNCHANGED results

DeleteAthlete ==
  /\ Commits
  /\ \E a \in athletes :
       /\ athletes' = athletes \ {a}
       /\ active' = active \ {a.id}
       /\ results' = {r \in results : r.athlete # a.id}

SetStatus ==
  /\ Commits
  /\ \E a \in athletes :
       active' = IF a.id \in active THEN active \ {a.id} ELSE active \cup {a.id}
  /\ UNCHANGED <<athletes, results>>

Next ==
  \/ \E d \in Dashboards : Ask(d) \/ Run(d) \/ Respond(d)
  \/ RecordResult \/ AmendResult \/ DiscardResult \/ DeleteAthlete \/ SetStatus

Spec == Init /\ [][Next]_vars

-----------------------------------------------------------------------------
(* Properties *)

User == UserResponse(view["user"])
Admin == AdminResponse(view["admin"])

\* The medals of a podium, added up.
SumOver(tally) == MapThenSumSet(LAMBDA m : tally[m], Medals)

\* Type invariant: where each dashboard is, and that every result belongs to
\* an athlete.
TypeOK ==
  /\ \A d \in Dashboards : step[d] \in 0 .. Len(Queries(d)) + 1
  /\ \A d \in Dashboards : DOMAIN view[d] \subseteq Range(Queries(d))
  /\ results \subseteq Rows
  /\ \A r \in results : \E a \in athletes : a.id = r.athlete

\* The first and the last month of the season that opens in year y: "it opens
\* in September and closes at the end of August" (schema/performance.py:64-65).
InSeason(date, y) == 12 * y + 8 <= date /\ date <= 12 * (y + 1) + 7

\* Every result is counted in exactly one season of the personal dashboard,
\* the one its date falls in, whatever others commit while it is put together.
SeasonsPartitionHistory ==
  LET history == view["user"].history
  IN Done("user") =>
    /\ \A s \in User.seasons :
         /\ s.performances = Cardinality({i \in DOMAIN history : InSeason(history[i].date, s.season)})
         /\ s.performances > 0
    /\ SumOf(User.seasons, "performances") = User.total

\* Units of time: of two marks in one of them, the lower is better.
TimeUnits == {"h", "min", "s", "sec", "ms"}

\* "One best mark per (discipline, event) pair" (dashboard_service.py:57): of
\* the marks in the same unit none is better, the athlete's and the podium's.
BestIsUnbeaten ==
  \A d \in Dashboards :
    Done(d) =>
      LET rows == IF d = "user" THEN view[d].history ELSE view[d].top
          bests == IF d = "user" THEN User.bestResults ELSE Admin.bestResults
      IN \A e \in {EventOf(r) : r \in Range(rows)} :
           LET marks == {r \in Range(rows) : EventOf(r) = e}
           IN /\ Cardinality({b \in bests : EventOf(b) = e}) = 1
              /\ Cardinality({Normal[r.unit] : r \in marks}) = 1 =>
                   \A b \in bests, r \in marks : EventOf(b) = e =>
                     IF Normal[r.unit] \in TimeUnits THEN b.result <= r.result
                     ELSE r.result <= b.result

\* The chart is the history "oldest first" (performance_service.py:106), and of
\* one date in the order of the history, the later id first: it ends with the
\* head of the latest results if and only if no other result is of that date.
EvolutionIsChronological ==
  Done("user") /\ User.total > 0 =>
    LET history == view["user"].history
        newest == User.latest[1]
    IN /\ Range(User.evolution) = Range(history)
       /\ \A i \in 1 .. User.total - 1 : User.evolution[i].date <= User.evolution[i + 1].date
       /\ User.evolution[User.total] = newest
            <=> \A r \in Range(history) : r.date = newest.date => r = newest

\* When nobody commits while they are read, the figures of a dashboard agree
\* with each other: the disciplines, the months and the seasons add up to the
\* totals, and a medal that is counted belongs to a result that is counted.
QuietFiguresAgree ==
  /\ Done("admin") /\ quiet["admin"] =>
       /\ Admin.active <= Admin.athletes
       /\ SumOf(Admin.byDiscipline, "performances") = Admin.total
       /\ SumOf(Admin.seasons, "performances") = Admin.total
       /\ SumOf(Admin.seasons, "medals") = SumOf(Admin.byDiscipline, "medals")
       /\ SumOver(Admin.medals) <= SumOf(Admin.byDiscipline, "medals")
       /\ Admin.competitions <= SumOf(Admin.seasons, "competitions")
       /\ Len(Admin.latest) = (IF Admin.total < LatestSize THEN Admin.total ELSE LatestSize)
  /\ Done("user") /\ quiet["user"] =>
       /\ SumOver(User.medals) <= SumOf(User.seasons, "medals")
       /\ User.competitions <= User.total
       /\ User.bestRanking = None <=> \A r \in Range(User.evolution) : r.ranking = None

=============================================================================
