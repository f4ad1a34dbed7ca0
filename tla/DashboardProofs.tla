-------------------------- MODULE DashboardProofs --------------------------
(***************************************************************************)
(* Theorems about Dashboard, for any results and athletes, any number of   *)
(* commits between the queries, and every date.                            *)
(***************************************************************************)
EXTENDS Dashboard, FiniteTheorems

-----------------------------------------------------------------------------
(* Seasons                                                                 *)

\* "It opens in September and closes at the end of August"
\* (schema/performance.py:64-65): the season that season_of gives a date is the
\* one whose twelve months the date falls in, and there is no other.
THEOREM SeasonMonths ==
  ASSUME NEW date \in Nat, NEW y \in Int
  PROVE  SeasonOf(date) = y <=> InSeason(date, y)
<1> DEFINE q == date \div 12
           m == date % 12
<1>1. q \in Nat /\ m \in 0 .. 11 /\ date = 12 * q + m
  OBVIOUS
<1> HIDE DEF q, m
<1>2. SeasonOf(date) = IF m >= 8 THEN q ELSE q - 1
  BY <1>1 DEF SeasonOf, Month, q, m
<1>3. CASE m >= 8
  BY <1>1, <1>2, <1>3 DEF InSeason
<1>4. CASE m < 8
  BY <1>1, <1>2, <1>4 DEF InSeason
<1> QED
  BY <1>1, <1>3, <1>4

-----------------------------------------------------------------------------
(* Types                                                                   *)

\* The tables, and the progress of each dashboard.
TypeInv ==
  /\ TypeOK
  /\ step \in [Dashboards -> Nat]
  /\ DOMAIN view = Dashboards

LEMMA QueriesAre ==
  ASSUME NEW d \in Dashboards
  PROVE  /\ Len(Queries(d)) \in Nat
         /\ \A i \in 1 .. Len(Queries(d)) : Queries(d)[i] \in Range(Queries(d))
<1>1. CASE d = "user"
  <2> DEFINE s == <<"profile", "history", "medals", "competitions", "bestRanking">>
  <2>1. Queries(d) = s
    BY <1>1 DEF Queries
  <2>2. Len(s) = 5 /\ DOMAIN s = 1 .. 5
    OBVIOUS
  <2> HIDE DEF s
  <2> QED
    BY <2>1, <2>2 DEF Range
<1>2. CASE d = "admin"
  <2> DEFINE s == <<"athletes", "active", "total", "competitions", "clubs", "disciplines",
                    "medals", "byDiscipline", "athletesByDiscipline", "byMonth", "top", "latest">>
  <2>1. Queries(d) = s
    BY <1>2 DEF Queries
  <2>2. Len(s) = 12 /\ DOMAIN s = 1 .. 12
    OBVIOUS
  <2> HIDE DEF s
  <2> QED
    BY <2>1, <2>2 DEF Range
<1> QED
  BY <1>1, <1>2 DEF Dashboards

\* Every result belongs to an athlete, whatever the commits.
Owned(rows, people) == rows \subseteq Rows /\ \A r \in rows : \E a \in people : a.id = r.athlete

LEMMA InitType == Init => TypeInv
<1> SUFFICES ASSUME Init PROVE TypeInv
  OBVIOUS
<1>1. \A d \in Dashboards : step[d] = 0 /\ Len(Queries(d)) \in Nat /\ view[d] = <<>>
  BY QueriesAre DEF Init, Waiting
<1>2. DOMAIN << >> = {}
  OBVIOUS
<1>3. results \subseteq Rows /\ \A r \in results : \E a \in athletes : a.id = r.athlete
  BY DashboardAssumption DEF Init
<1>4. step \in [Dashboards -> Nat] /\ DOMAIN view = Dashboards
  BY DEF Init, Waiting
<1> QED
  BY <1>1, <1>2, <1>3, <1>4 DEF TypeInv, TypeOK

LEMMA RunType ==
  ASSUME TypeInv, NEW d \in Dashboards, Run(d)
  PROVE  TypeInv'
<1> DEFINE q == Queries(d)[step[d]]
           n == Len(Queries(d))
<1>1. n \in Nat /\ step[d] \in 1 .. n /\ q \in Range(Queries(d))
  BY QueriesAre DEF Run
<1>2. athletes' = athletes /\ results' = results
  BY DEF Run
<1>3. \/ step' = [step EXCEPT ![d] = 0] /\ view' = view
      \/ /\ step' = [step EXCEPT ![d] = step[d] + 1]
         /\ \E reply \in Replies(d, q) :
              view' = [view EXCEPT ![d] = [k \in DOMAIN view[d] \cup {q} |->
                                             IF k = q THEN reply ELSE view[d][k]]]
  BY DEF Run, Waiting
<1> HIDE DEF q, n
<1>4. step' \in [Dashboards -> Nat] /\ DOMAIN view' = Dashboards
  BY <1>1, <1>3 DEF TypeInv
<1>5. ASSUME NEW e \in Dashboards
      PROVE  step'[e] \in 0 .. Len(Queries(e)) + 1 /\ DOMAIN view'[e] \subseteq Range(Queries(e))
  <2>1. step[e] \in 0 .. Len(Queries(e)) + 1 /\ DOMAIN view[e] \subseteq Range(Queries(e))
        /\ Len(Queries(e)) \in Nat
    BY QueriesAre DEF TypeInv, TypeOK
  <2>2. CASE e # d
    BY <1>3, <2>1, <2>2 DEF TypeInv
  <2>3. CASE e = d
    <3>1. step'[d] = 0 \/ step'[d] = step[d] + 1
      BY <1>3 DEF TypeInv
    <3>2. DOMAIN view'[d] = DOMAIN view[d] \/ DOMAIN view'[d] = DOMAIN view[d] \cup {q}
      BY <1>3 DEF TypeInv
    <3>3. n = Len(Queries(d))
      BY DEF n
    <3> QED
      BY <1>1, <2>1, <2>3, <3>1, <3>2, <3>3
  <2> QED
    BY <2>2, <2>3
<1> QED
  BY <1>2, <1>4, <1>5 DEF TypeInv, TypeOK

\* A step that leaves the dashboards where they are, and the results owned.
LEMMA TablesType ==
  ASSUME TypeInv, UNCHANGED <<step, view>>, Owned(results', athletes')
  PROVE  TypeInv'
<1>1. step' = step /\ view' = view
  OBVIOUS
<1> QED
  BY <1>1 DEF TypeInv, TypeOK, Owned

LEMMA NextType == TypeInv /\ [Next]_vars => TypeInv'
<1> SUFFICES ASSUME TypeInv, [Next]_vars PROVE TypeInv'
  OBVIOUS
<1>1. Owned(results, athletes)
  BY DEF TypeInv, TypeOK, Owned
<1>2. ASSUME NEW d \in Dashboards, Ask(d) \/ Respond(d) PROVE TypeInv'
  <2>1. /\ step' = [step EXCEPT ![d] = 0] \/ step' = [step EXCEPT ![d] = 1]
        /\ view' = view \/ view' = [view EXCEPT ![d] = <<>>]
        /\ athletes' = athletes /\ results' = results
    BY <1>2 DEF Ask, Respond, Waiting
  <2>2. step' \in [Dashboards -> Nat] /\ DOMAIN view' = Dashboards
    BY <2>1 DEF TypeInv
  <2>3. ASSUME NEW e \in Dashboards
        PROVE  /\ step'[e] \in 0 .. Len(Queries(e)) + 1
               /\ DOMAIN view'[e] \subseteq Range(Queries(e))
    <3>1. step[e] \in 0 .. Len(Queries(e)) + 1 /\ DOMAIN view[e] \subseteq Range(Queries(e))
          /\ Len(Queries(e)) \in Nat
      BY QueriesAre DEF TypeInv, TypeOK
    <3>2. step'[e] \in {0, 1, step[e]} /\ view'[e] \in {<<>>, view[e]}
      BY <2>1 DEF TypeInv
    <3>3. DOMAIN << >> = {}
      OBVIOUS
    <3> QED
      BY <3>1, <3>2, <3>3
  <2> QED
    BY <2>1, <2>2, <2>3 DEF TypeInv, TypeOK
<1>3. ASSUME NEW d \in Dashboards, Run(d) PROVE TypeInv'
  BY <1>3, RunType
<1>4. CASE RecordResult
  <2>1. Owned(results', athletes')
    BY <1>1, <1>4 DEF RecordResult, Owned
  <2> QED
    BY <1>4, <2>1, TablesType DEF RecordResult, Commits
<1>5. CASE AmendResult
  <2>1. Owned(results', athletes')
    BY <1>1, <1>5 DEF AmendResult, Owned
  <2> QED
    BY <1>5, <2>1, TablesType DEF AmendResult, Commits
<1>6. CASE DiscardResult
  <2>1. Owned(results', athletes')
    BY <1>1, <1>6 DEF DiscardResult, Owned
  <2> QED
    BY <1>6, <2>1, TablesType DEF DiscardResult, Commits
<1>7. CASE DeleteAthlete
  <2>1. Owned(results', athletes')
    BY <1>1, <1>7 DEF DeleteAthlete, Owned
  <2> QED
    BY <1>7, <2>1, TablesType DEF DeleteAthlete, Commits
<1>8. CASE SetStatus
  <2>1. Owned(results', athletes')
    BY <1>1, <1>8 DEF SetStatus, Owned
  <2> QED
    BY <1>8, <2>1, TablesType DEF SetStatus, Commits
<1>9. CASE UNCHANGED vars
  <2>1. UNCHANGED <<step, view>> /\ Owned(results', athletes')
    BY <1>1, <1>9 DEF vars
  <2> QED
    BY <2>1, TablesType
<1> QED
  BY <1>2, <1>3, <1>4, <1>5, <1>6, <1>7, <1>8, <1>9 DEF Next

\* Type invariant: each dashboard is at one of its queries and holds answers to
\* its own queries only; and every result belongs to an athlete.
THEOREM DashboardType == Spec => []TypeOK
<1>1. TypeInv => TypeOK
  BY DEF TypeInv
<1> QED
  BY <1>1, InitType, NextType, PTL DEF Spec

-----------------------------------------------------------------------------
(* Sums                                                                    *)

\* What MapThenSumSet computes.
LEMMA SumOfIsTotal ==
  ASSUME NEW S, IsFiniteSet(S), NEW column
  PROVE  SumOf(S, column) = Total([r \in S |-> r[column]], S)
<1> DEFINE w == [r \in S |-> r[column]]
           Sums(g) == g = [s \in SUBSET S |->
                            IF s = {} THEN 0
                            ELSE LET x == CHOOSE y \in s : TRUE IN x[column] + g[s \ {x}]]
<1>1. SumOf(S, column) = (CHOOSE g : Sums(g))[S]
  BY Zenon DEF SumOf, MapThenSumSet, MapThenFoldSet
<1>2. \A g : Sums(g) <=> Adds(g, w, S)
  BY DEF Adds
<1> HIDE DEF Sums, w
<1>3. \E g : Sums(g)
  BY <1>2, AddsExists
<1>4. Adds(CHOOSE g : Sums(g), w, S)
  BY <1>2, <1>3
<1>5. (CHOOSE g : Sums(g))[S] = Total(w, S)
  BY <1>4, TotalIs
<1> QED
  BY <1>1, <1>5 DEF w

LEMMA SumOverIsTotal ==
  ASSUME NEW f
  PROVE  SumOver(f) = Total([m \in Medals |-> f[m]], Medals) /\ IsFiniteSet(Medals)
<1> DEFINE w == [m \in Medals |-> f[m]]
           Sums(g) == g = [s \in SUBSET Medals |->
                            IF s = {} THEN 0
                            ELSE LET x == CHOOSE y \in s : TRUE IN f[x] + g[s \ {x}]]
<1>0. IsFiniteSet(Medals)
  <2>1. IsFiniteSet({"gold"})
    BY FS_Singleton
  <2>2. IsFiniteSet({"gold"} \cup {"silver"})
    BY <2>1, FS_AddElement
  <2>3. IsFiniteSet(({"gold"} \cup {"silver"}) \cup {"bronze"})
    BY <2>2, FS_AddElement
  <2>4. Medals = ({"gold"} \cup {"silver"}) \cup {"bronze"}
    BY DEF Medals
  <2> QED
    BY <2>3, <2>4
<1>1. SumOver(f) = (CHOOSE g : Sums(g))[Medals]
  BY Zenon DEF SumOver, MapThenSumSet, MapThenFoldSet
<1>2. \A g : Sums(g) <=> Adds(g, w, Medals)
  BY DEF Adds
<1> HIDE DEF Sums, w
<1>3. \E g : Sums(g)
  BY <1>0, <1>2, AddsExists
<1>4. Adds(CHOOSE g : Sums(g), w, Medals)
  BY <1>2, <1>3
<1>5. (CHOOSE g : Sums(g))[Medals] = Total(w, Medals)
  BY <1>0, <1>4, TotalIs
<1> QED
  BY <1>0, <1>1, <1>5 DEF w

\* A column of one record for each key, added up over the keys.
LEMMA SumByKey ==
  ASSUME NEW K, IsFiniteSet(K), NEW f, \A k, l \in K : f[k] = f[l] => k = l, NEW column,
         NEW u, \A k \in K : f[k][column] = u[k], Numbers(u, K)
  PROVE  SumOf({f[k] : k \in K}, column) = Total(u, K)
<1> DEFINE I == {f[k] : k \in K}
           w == [r \in I |-> r[column]]
<1>1. IsFiniteSet(I)
  BY FiniteImage
<1>2. \A k \in K : w[f[k]] = u[k]
  OBVIOUS
<1> HIDE DEF w
<1>3. Total(w, I) = Total(u, K)
  BY <1>2, TotalOfImage
<1> HIDE DEF I
<1>4. SumOf(I, column) = Total(w, I)
  BY <1>1, SumOfIsTotal DEF w
<1> QED
  BY <1>3, <1>4 DEF I

\* Groups counted: as many rows as the groups hold.
LEMMA SumOfGroups ==
  ASSUME NEW K, IsFiniteSet(K), NEW f, \A k, l \in K : f[k] = f[l] => k = l, NEW column,
         NEW X, IsFiniteSet(X), NEW part \in [K -> SUBSET X],
         \A k, l \in K : k # l => part[k] \cap part[l] = {},
         \A k \in K : f[k][column] = Cardinality(part[k]),
         X \subseteq UNION {part[k] : k \in K}
  PROVE  SumOf({f[k] : k \in K}, column) = Cardinality(X)
<1> DEFINE u == [k \in K |-> Cardinality(part[k])]
<1>1. \A k \in K : u[k] = Cardinality(part[k]) /\ f[k][column] = u[k]
  OBVIOUS
<1> HIDE DEF u
<1>2. Numbers(u, K)
  <2>1. \A k \in K : part[k] \in SUBSET X
    OBVIOUS
  <2>2. \A k \in K : Cardinality(part[k]) \in Nat
    BY <2>1, FS_Subset, FS_CardinalityType
  <2> QED
    BY <1>1, <2>2 DEF Numbers
<1>3. SumOf({f[k] : k \in K}, column) = Total(u, K)
  BY <1>1, <1>2, SumByKey
<1>4. Total(u, K) = Cardinality(Parts(part, K))
  BY <1>1, CountOfParts
<1>5. Parts(part, K) = X
  BY DEF Parts
<1> QED
  BY <1>3, <1>4, <1>5

-----------------------------------------------------------------------------
(* The best mark of a group                                                *)

\* _pick_best returns a mark of the group that no other beats, in the direction
\* that the unit of one of the rows says.
LEMMA PickBestIs ==
  ASSUME NEW rows, NEW group, group # {}, IsFiniteSet(group), group \subseteq Nat,
         \A i \in group : rows[i].result \in Nat
  PROVE  \E i, f \in group :
           /\ PickBest(rows, group) = rows[i]
           /\ \A j \in group : IF IsLowerBetter(rows[f].unit)
                               THEN rows[i].result <= rows[j].result
                               ELSE rows[j].result <= rows[i].result
<1> DEFINE f == CHOOSE i \in group : \A j \in group : i <= j
           lower == IsLowerBetter(rows[f].unit)
           Beats(i, j) == IF lower THEN rows[i].result < rows[j].result
                          ELSE rows[i].result > rows[j].result
           Best(i) == \A j \in group : ~Beats(j, i) /\ (j < i => rows[j].result # rows[i].result)
           R == {p \in group \X group :
                   Beats(p[1], p[2]) \/ (rows[p[1]].result = rows[p[2]].result /\ p[1] < p[2])}
<1>1. f \in group
  <2>1. \E i \in group : \A j \in group : i <= j
    BY LeastNumber
  <2> QED
    BY <2>1
<1>2. PickBest(rows, group) = rows[CHOOSE i \in group : Best(i)]
  BY Zenon DEF PickBest
<1> HIDE DEF f, lower
<1>3. \A i, j \in group :
        <<i, j>> \in R <=> Beats(i, j) \/ (rows[i].result = rows[j].result /\ i < j)
  OBVIOUS
<1> HIDE DEF R
<1>4. Linear(R, group)
  <2>1. \A i \in group : rows[i].result \in Nat /\ i \in Nat
    OBVIOUS
  <2>2. \A i \in group : <<i, i>> \notin R
    BY <1>3, <2>1
  <2>3. \A i, j \in group : i # j => <<i, j>> \in R \/ <<j, i>> \in R
    BY <1>3, <2>1
  <2>4. ASSUME NEW i \in group, NEW j \in group, NEW k \in group, <<i, j>> \in R, <<j, k>> \in R
        PROVE  <<i, k>> \in R
    BY <1>3, <2>1, <2>4
  <2> QED
    BY <2>2, <2>3, <2>4 DEF Linear
<1>5. PICK x \in group : \A y \in group : y # x => <<x, y>> \in R
  BY <1>4, RankFirst
<1>6. Best(x)
  <2>1. ASSUME NEW j \in group
        PROVE  ~Beats(j, x) /\ (j < x => rows[j].result # rows[x].result)
    <3>1. rows[j].result \in Nat /\ rows[x].result \in Nat /\ j \in Nat /\ x \in Nat
      OBVIOUS
    <3>2. j = x \/ Beats(x, j) \/ (rows[x].result = rows[j].result /\ x < j)
      BY <1>3, <1>5
    <3> QED
      BY <3>1, <3>2
  <2> QED
    BY <2>1
<1> DEFINE b == CHOOSE i \in group : Best(i)
<1>7. b \in group /\ Best(b)
  BY <1>6
<1> HIDE DEF b
<1>8. ASSUME NEW j \in group
      PROVE  IF lower THEN rows[b].result <= rows[j].result ELSE rows[j].result <= rows[b].result
  <2>1. ~Beats(j, b) /\ rows[j].result \in Nat /\ rows[b].result \in Nat
    BY <1>7
  <2> QED
    BY <2>1
<1> QED
  BY <1>1, <1>2, <1>7, <1>8 DEF b, lower

-----------------------------------------------------------------------------
(* Rows in order                                                           *)

\* The rows of one id are one row.
Distinct(R) == R \subseteq Rows /\ \A p, q \in R : p.id = q.id => p = q

NewestOrder(R) == {x \in R \X R : Newest(x[1], x[2])}

\* The history as a sequence: all rows, each after those that are newer.
LEMMA NewestLine ==
  ASSUME NEW R, Distinct(R)
  PROVE  /\ IsFiniteSet(R) /\ Linear(NewestOrder(R), R)
         /\ InLine(Sorted(R, Newest), NewestOrder(R), R)
<1> DEFINE O == NewestOrder(R)
           s == Sorted(R, Newest)
           n == Cardinality(R)
<1>1. IsFiniteSet(R)
  BY DashboardAssumption, FS_Subset DEF Distinct
<1>2. \A p \in R : p.date \in Nat /\ p.id \in Nat
  BY DashboardAssumption DEF Distinct
<1>3. \A p, q \in R : <<p, q>> \in O <=> Newest(p, q)
  BY DEF NewestOrder
<1>4. Linear(O, R)
  <2>1. \A p \in R : <<p, p>> \notin O
    BY <1>2, <1>3 DEF Newest
  <2>2. \A p, q \in R : p # q => <<p, q>> \in O \/ <<q, p>> \in O
    <3>1. \A p, q \in R : p # q => p.id # q.id
      BY DEF Distinct
    <3> QED
      BY <1>2, <1>3, <3>1 DEF Newest
  <2>3. \A p, q, r \in R : <<p, q>> \in O /\ <<q, r>> \in O => <<p, r>> \in O
    BY <1>2, <1>3 DEF Newest
  <2> QED
    BY <2>1, <2>2, <2>3 DEF Linear
<1>5. s = [i \in 1 .. n |-> CHOOSE x \in R : Cardinality({y \in R : Newest(y, x)}) = i - 1]
  BY DEF Sorted
<1>6. \A x \in R : {y \in R : Newest(y, x)} = Lower(O, R, x)
  BY <1>3 DEF Lower
<1> HIDE DEF s, O, n
<1>7. ASSUME NEW i \in 1 .. n PROVE s[i] \in R /\ Rank(O, R, s[i]) = i - 1
  <2>1. n \in Nat /\ i - 1 \in 0 .. n - 1
    BY <1>1, FS_CardinalityType DEF n
  <2>2. PICK x \in R : Rank(O, R, x) = i - 1
    BY <1>1, <1>4, <2>1, RankTaken DEF n
  <2>3. Cardinality({y \in R : Newest(y, x)}) = i - 1
    BY <1>6, <2>2 DEF Rank
  <2>4. s[i] \in R /\ Cardinality({y \in R : Newest(y, s[i])}) = i - 1
    BY <1>5, <2>3
  <2> QED
    BY <1>6, <2>4 DEF Rank
<1>8. DOMAIN s = 1 .. n
  BY <1>5
<1> QED
  BY <1>1, <1>4, <1>7, <1>8 DEF InLine, s, O, n

\* A history is a sequence of all its rows, each of them once, newest first.
LEMMA HistoryIs ==
  ASSUME NEW R, Distinct(R), NEW s, s = Sorted(R, Newest)
  PROVE  /\ IsFiniteSet(R) /\ Cardinality(R) \in Nat
         /\ s \in Seq(R) /\ Len(s) = Cardinality(R) /\ DOMAIN s = 1 .. Cardinality(R)
         /\ Range(s) = R
         /\ \A i, j \in DOMAIN s : s[i] = s[j] => i = j
         /\ \A i, j \in DOMAIN s : i < j => Newest(s[i], s[j])
<1> DEFINE n == Cardinality(R)
<1>1. IsFiniteSet(R) /\ Linear(NewestOrder(R), R) /\ InLine(s, NewestOrder(R), R)
  BY NewestLine
<1>2. n \in Nat
  BY <1>1, FS_CardinalityType
<1>3. DOMAIN s = 1 .. n /\ \A i \in 1 .. n : s[i] \in R
  BY <1>1 DEF InLine
<1>4. s = [i \in 1 .. n |-> s[i]]
  <2> DEFINE nth(i) == CHOOSE x \in R : Cardinality({y \in R : Newest(y, x)}) = i - 1
  <2>1. s = [i \in 1 .. n |-> nth(i)]
    BY DEF Sorted
  <2> HIDE DEF nth
  <2> QED
    BY <2>1
<1>5. /\ \A x \in R : \E i \in 1 .. n : s[i] = x
      /\ \A i, j \in 1 .. n : i < j <=> <<s[i], s[j]>> \in NewestOrder(R)
      /\ \A i, j \in 1 .. n : s[i] = s[j] => i = j
  BY <1>1, LineIs
<1> HIDE DEF n
<1>6. s \in [1 .. n -> R]
  BY <1>3, <1>4
<1>7. s \in Seq(R) /\ Len(s) = n
  BY <1>2, <1>6
<1>8. Range(s) = R
  BY <1>3, <1>5 DEF Range
<1>9. \A i, j \in DOMAIN s : i < j => Newest(s[i], s[j])
  BY <1>3, <1>5 DEF NewestOrder
<1> QED
  BY <1>1, <1>2, <1>3, <1>5, <1>7, <1>8, <1>9 DEF n

\* The chart: the same rows, the earliest first, and at the end the last row of
\* the latest date.
LEMMA EvolutionIs ==
  ASSUME NEW rows, NEW n \in Nat, DOMAIN rows = 1 .. n, \A i \in 1 .. n : rows[i].date \in Nat
  PROVE  /\ DOMAIN Evolution(rows) = 1 .. n
         /\ \A k \in 1 .. n : \E i \in 1 .. n : Evolution(rows)[k] = rows[i]
         /\ \A i \in 1 .. n : \E k \in 1 .. n : Evolution(rows)[k] = rows[i]
         /\ \A k, l \in 1 .. n : k < l => Evolution(rows)[k].date <= Evolution(rows)[l].date
         /\ n > 0 => \E i \in 1 .. n :
              /\ Evolution(rows)[n] = rows[i]
              /\ \A j \in 1 .. n :
                   rows[j].date < rows[i].date \/ (rows[j].date = rows[i].date /\ j <= i)
<1> DEFINE D == DOMAIN rows
           Before(i, j) == rows[i].date < rows[j].date \/ (rows[i].date = rows[j].date /\ i < j)
           order == [i \in 1 .. Cardinality(D) |->
                       CHOOSE x \in D : Cardinality({y \in D : Before(y, x)}) = i - 1]
           O == {p \in D \X D : Before(p[1], p[2])}
<1>1. Evolution(rows) = [k \in D |-> rows[order[k]]]
  BY Zenon DEF Evolution, Sorted
<1>2. IsFiniteSet(D) /\ Cardinality(D) = n /\ D = 1 .. n
  BY FS_Interval
<1>3. \A i, j \in D : <<i, j>> \in O <=> Before(i, j)
  OBVIOUS
<1>4. order = [i \in 1 .. n |-> CHOOSE x \in D : Cardinality({y \in D : Before(y, x)}) = i - 1]
  BY <1>2
<1> HIDE DEF order, O, D
<1>5. Linear(O, D)
  <2>1. \A i \in D : i \in Nat /\ rows[i].date \in Nat
    BY <1>2
  <2>2. \A i \in D : <<i, i>> \notin O
    BY <1>3, <2>1
  <2>3. \A i, j \in D : i # j => <<i, j>> \in O \/ <<j, i>> \in O
    BY <1>3, <2>1
  <2>4. \A i, j, k \in D : <<i, j>> \in O /\ <<j, k>> \in O => <<i, k>> \in O
    BY <1>3, <2>1
  <2> QED
    BY <2>2, <2>3, <2>4 DEF Linear
<1>6. \A x \in D : {y \in D : Before(y, x)} = Lower(O, D, x)
  BY <1>3 DEF Lower
<1>7. ASSUME NEW i \in 1 .. n PROVE order[i] \in D /\ Rank(O, D, order[i]) = i - 1
  <2>1. i - 1 \in 0 .. Cardinality(D) - 1
    BY <1>2
  <2>2. PICK x \in D : Rank(O, D, x) = i - 1
    BY <1>2, <1>5, <2>1, RankTaken
  <2>3. Cardinality({y \in D : Before(y, x)}) = i - 1
    BY <1>6, <2>2 DEF Rank
  <2>4. order[i] \in D /\ Cardinality({y \in D : Before(y, order[i])}) = i - 1
    BY <1>4, <2>3
  <2> QED
    BY <1>6, <2>4 DEF Rank
<1>8. InLine(order, O, D)
  BY <1>2, <1>4, <1>7 DEF InLine
<1>9. /\ \A x \in D : \E i \in 1 .. n : order[i] = x
      /\ \A i, j \in 1 .. n : i < j <=> <<order[i], order[j]>> \in O
  <2> DEFINE m == Cardinality(D)
  <2>1. /\ \A x \in D : \E i \in 1 .. m : order[i] = x
        /\ \A i, j \in 1 .. m : i < j <=> <<order[i], order[j]>> \in O
    <3>1. IsFiniteSet(D)
      BY <1>2
    <3> HIDE DEF Before
    <3> QED
      BY <1>5, <1>8, <3>1, LineIs
  <2>2. m = n
    BY <1>2
  <2> HIDE DEF m, Before
  <2> QED
    BY <2>1, <2>2
<1>10. \A k \in 1 .. n : order[k] \in 1 .. n /\ Evolution(rows)[k] = rows[order[k]]
  BY <1>1, <1>2, <1>7
<1>11. ASSUME NEW k \in 1 .. n, NEW l \in 1 .. n, k < l
       PROVE  Evolution(rows)[k].date <= Evolution(rows)[l].date
  <2>1. Before(order[k], order[l])
    BY <1>3, <1>7, <1>9, <1>11
  <2>2. rows[order[k]].date \in Nat /\ rows[order[l]].date \in Nat
    BY <1>10
  <2> QED
    BY <1>10, <2>1, <2>2
<1>12. DOMAIN Evolution(rows) = 1 .. n
  BY <1>1, <1>2
<1>13. ASSUME NEW i \in 1 .. n PROVE \E k \in 1 .. n : Evolution(rows)[k] = rows[i]
  <2>1. PICK k \in 1 .. n : order[k] = i
    BY <1>2, <1>9
  <2>2. Evolution(rows)[k] = rows[i]
    BY <1>10, <2>1
  <2> QED
    BY <2>2
<1>14. ASSUME NEW k \in 1 .. n PROVE \E i \in 1 .. n : Evolution(rows)[k] = rows[i]
  BY <1>10
<1>15. ASSUME n > 0, NEW j \in 1 .. n
       PROVE  LET i == order[n]
              IN rows[j].date < rows[i].date \/ (rows[j].date = rows[i].date /\ j <= i)
  <2>1. n \in 1 .. n
    BY <1>15
  <2>2. PICK k \in 1 .. n : order[k] = j
    BY <1>2, <1>9
  <2>3. CASE k = n
    BY <2>2, <2>3
  <2>4. CASE k < n
    <3>1. Before(order[k], order[n])
      BY <1>3, <1>7, <1>9, <2>1, <2>4
    <3> QED
      BY <2>2, <3>1, <1>10, <2>1
  <2> QED
    BY <2>3, <2>4
<1>16. n > 0 => order[n] \in 1 .. n /\ Evolution(rows)[n] = rows[order[n]]
  BY <1>10
<1> QED
  BY <1>11, <1>12, <1>13, <1>14, <1>15, <1>16

\* The first rows of a sequence.
LEMMA FirstIs ==
  ASSUME NEW S, NEW s \in Seq(S), NEW n \in Nat \ {0}
  PROVE  /\ First(s, n) \in Seq(S)
         /\ Len(First(s, n)) = IF Len(s) < n THEN Len(s) ELSE n
         /\ Len(s) > 0 => First(s, n)[1] = s[1]
<1> DEFINE m == IF Len(s) < n THEN Len(s) ELSE n
<1>1. Len(s) \in Nat /\ m \in Nat /\ m <= Len(s)
  OBVIOUS
<1>2. First(s, n) = SubSeq(s, 1, m)
  BY DEF First
<1> HIDE DEF m
<1>3. SubSeq(s, 1, m) \in Seq(S) /\ Len(SubSeq(s, 1, m)) = m
  BY <1>1
<1>4. Len(s) > 0 => m > 0
  BY <1>1 DEF m
<1>5. m > 0 => SubSeq(s, 1, m)[1] = s[1]
  BY <1>1
<1> QED
  BY <1>2, <1>3, <1>4, <1>5 DEF m

-----------------------------------------------------------------------------
(* GROUP BY                                                                *)

Columns == {"performances", "medals", "competitions"}

\* For each value of a column a record, and the counts of a group are numbers.
LEMMA GroupedIs ==
  ASSUME NEW R, IsFiniteSet(R), NEW column
  PROVE  /\ IsFiniteSet(Grouped(R, column))
         /\ \A g, h \in Grouped(R, column) : g.key = h.key => g = h
         /\ \A g \in Grouped(R, column), c \in Columns : g[c] \in Nat
         /\ SumOf(Grouped(R, column), "performances") = Cardinality(R)
         /\ SumOf(Grouped(R, column), "medals") = Cardinality(Medalled(R))
         /\ Cardinality(Competitions(R)) <= SumOf(Grouped(R, column), "competitions")
<1> DEFINE K == {r[column] : r \in R}
           group(k) == {r \in R : r[column] = k}
           rec(k) == [key |-> k, performances |-> Cardinality(group(k)),
                      medals |-> Cardinality(Medalled(group(k))),
                      competitions |-> Cardinality(Competitions(group(k)))]
           f == [k \in K |-> rec(k)]
           G == Grouped(R, column)
<1>1. G = {f[k] : k \in K}
  <2>1. G = {rec(k) : k \in K}
    BY Zenon DEF Grouped
  <2> HIDE DEF rec, K, G
  <2> QED
    BY <2>1
<1>2. IsFiniteSet(K)
  <2> DEFINE v == [r \in R |-> r[column]]
  <2>1. IsFiniteSet({v[r] : r \in R})
    <3> HIDE DEF v
    <3> QED
      BY FiniteImage
  <2>2. K = {v[r] : r \in R}
    OBVIOUS
  <2> QED
    BY <2>1, <2>2
<1>3. \A k \in K : group(k) \in SUBSET R
  OBVIOUS
<1>4. \A k, l : k # l => group(k) \cap group(l) = {}
  OBVIOUS
<1>5. \A r \in R : r[column] \in K /\ r \in group(r[column])
  OBVIOUS
<1>6. \A k \in K : f[k] = rec(k)
  OBVIOUS
<1>7. \A k : /\ rec(k).key = k
             /\ rec(k)["performances"] = Cardinality(group(k))
             /\ rec(k)["medals"] = Cardinality(Medalled(group(k)))
             /\ rec(k)["competitions"] = Cardinality(Competitions(group(k)))
  OBVIOUS
<1> HIDE DEF K, group, rec, f, G
<1>8. \A k, l \in K : f[k] = f[l] => k = l
  BY <1>6, <1>7
<1>9. IsFiniteSet(G)
  BY <1>1, <1>2, FiniteImage
<1>10. \A g, h \in G : g.key = h.key => g = h
  BY <1>1, <1>6, <1>7
<1>11. ASSUME NEW k \in K
       PROVE  /\ IsFiniteSet(group(k)) /\ Cardinality(group(k)) \in Nat
              /\ IsFiniteSet(Medalled(group(k))) /\ Cardinality(Medalled(group(k))) \in Nat
              /\ IsFiniteSet(Competitions(group(k))) /\ Cardinality(Competitions(group(k))) \in Nat
  <2>1. IsFiniteSet(group(k))
    BY <1>3, FS_Subset
  <2>2. Medalled(group(k)) \in SUBSET group(k)
    BY DEF Medalled
  <2>3. IsFiniteSet(Competitions(group(k)))
    <3> DEFINE v == [r \in group(k) |-> r.competition]
    <3>1. IsFiniteSet({v[r] : r \in group(k)})
      <4> HIDE DEF v
      <4> QED
        BY <2>1, FiniteImage
    <3>2. Competitions(group(k)) = {v[r] : r \in group(k)}
      BY DEF Competitions
    <3> QED
      BY <3>1, <3>2
  <2>4. IsFiniteSet(Medalled(group(k)))
    BY <2>1, <2>2, FS_Subset
  <2> QED
    BY <2>1, <2>3, <2>4, FS_CardinalityType
<1>12. \A g \in G, c \in Columns : g[c] \in Nat
  BY <1>1, <1>6, <1>7, <1>11 DEF Columns
<1>13. SumOf(G, "performances") = Cardinality(R)
  <2> DEFINE part == [k \in K |-> group(k)]
  <2>1. part \in [K -> SUBSET R] /\ \A k \in K : part[k] = group(k)
    BY <1>3
  <2> HIDE DEF part
  <2>2. \A k, l \in K : k # l => part[k] \cap part[l] = {}
    BY <1>4, <2>1
  <2>3. \A k \in K : f[k]["performances"] = Cardinality(part[k])
    BY <1>6, <1>7, <2>1
  <2>4. R \subseteq UNION {part[k] : k \in K}
    BY <1>5, <2>1
  <2> QED
    BY <1>1, <1>2, <1>8, <2>1, <2>2, <2>3, <2>4, SumOfGroups
<1>14. SumOf(G, "medals") = Cardinality(Medalled(R))
  <2> DEFINE part == [k \in K |-> Medalled(group(k))]
  <2>0. \A k \in K : Medalled(group(k)) \in SUBSET Medalled(R)
    BY <1>3 DEF Medalled
  <2>1. part \in [K -> SUBSET Medalled(R)] /\ \A k \in K : part[k] = Medalled(group(k))
    BY <2>0
  <2> HIDE DEF part
  <2>2. \A k, l \in K : k # l => part[k] \cap part[l] = {}
    BY <1>4, <2>1 DEF Medalled
  <2>3. \A k \in K : f[k]["medals"] = Cardinality(part[k])
    BY <1>6, <1>7, <2>1
  <2>4. Medalled(R) \subseteq UNION {part[k] : k \in K}
    BY <1>5, <2>1 DEF Medalled
  <2>5. IsFiniteSet(Medalled(R))
    BY FS_Subset DEF Medalled
  <2> QED
    BY <1>1, <1>2, <1>8, <2>1, <2>2, <2>3, <2>4, <2>5, SumOfGroups
<1>15. Cardinality(Competitions(R)) <= SumOf(G, "competitions")
  <2> DEFINE part == [k \in K |-> Competitions(group(k))]
             u == [k \in K |-> Cardinality(Competitions(group(k)))]
             X == Competitions(R)
  <2>0. \A k \in K : Competitions(group(k)) \in SUBSET X
    BY <1>3 DEF Competitions
  <2>1. part \in [K -> SUBSET X] /\ \A k \in K : part[k] = Competitions(group(k))
    BY <2>0
  <2>2. \A k \in K : u[k] = Cardinality(part[k]) /\ u[k] = f[k]["competitions"] /\ u[k] \in Nat
    BY <1>6, <1>7, <1>11, <2>1
  <2> HIDE DEF part, u
  <2>3. IsFiniteSet(X)
    <3> DEFINE v == [r \in R |-> r.competition]
    <3>1. IsFiniteSet({v[r] : r \in R})
      <4> HIDE DEF v
      <4> QED
        BY FiniteImage
    <3>2. X = {v[r] : r \in R}
      BY DEF Competitions
    <3> QED
      BY <3>1, <3>2
  <2>4. Parts(part, K) = X
    BY <1>5, <2>1 DEF Competitions, Parts
  <2> HIDE DEF X
  <2>5. Cardinality(Parts(part, K)) <= Total(u, K)
    BY <1>2, <2>1, <2>2, <2>3, CountOfCover
  <2>6. Numbers(u, K)
    BY <2>2 DEF Numbers
  <2>7. SumOf(G, "competitions") = Total(u, K)
    BY <1>1, <1>2, <1>8, <2>2, <2>6, SumByKey
  <2> QED
    BY <2>4, <2>5, <2>7 DEF X
<1> QED
  BY <1>9, <1>10, <1>12, <1>13, <1>14, <1>15 DEF G

\* Months added up to seasons have the same sum.
LEMMA SeasonsSum ==
  ASSUME NEW P, IsFiniteSet(P), NEW column \in Columns, \A p \in P : p[column] \in Nat
  PROVE  SumOf(SeasonsFromPeriods(P), column) = SumOf(P, column)
<1> DEFINE K == {SeasonOf(p.key) : p \in P}
           months(s) == {p \in P : SeasonOf(p.key) = s}
           rec(s) == [season |-> s, performances |-> SumOf(months(s), "performances"),
                      medals |-> SumOf(months(s), "medals"),
                      competitions |-> SumOf(months(s), "competitions")]
           f == [s \in K |-> rec(s)]
           w == [p \in P |-> p[column]]
           part == [s \in K |-> months(s)]
           u == [s \in K |-> SumOf(months(s), column)]
<1>1. SeasonsFromPeriods(P) = {f[s] : s \in K}
  <2>1. SeasonsFromPeriods(P) = {rec(s) : s \in K}
    BY Zenon DEF SeasonsFromPeriods
  <2> HIDE DEF rec, K
  <2> QED
    BY <2>1
<1>2. IsFiniteSet(K)
  <2> DEFINE v == [p \in P |-> SeasonOf(p.key)]
  <2>1. IsFiniteSet({v[p] : p \in P})
    <3> HIDE DEF v
    <3> QED
      BY FiniteImage
  <2>2. K = {v[p] : p \in P}
    OBVIOUS
  <2> QED
    BY <2>1, <2>2
<1>3. part \in [K -> SUBSET P] /\ \A k, l \in K : k # l => part[k] \cap part[l] = {}
  OBVIOUS
<1>4. \A p \in P : SeasonOf(p.key) \in K /\ p \in months(SeasonOf(p.key))
  OBVIOUS
<1>5. \A s : rec(s).season = s /\ rec(s)[column] = SumOf(months(s), column)
  BY DEF Columns
<1>6. \A s \in K : f[s] = rec(s) /\ u[s] = SumOf(months(s), column) /\ part[s] = months(s)
  OBVIOUS
<1>7. \A p \in P : w[p] = p[column]
  OBVIOUS
<1>8. \A s \in K : months(s) \in SUBSET P
  OBVIOUS
<1> HIDE DEF K, months, rec, f, part, u
<1>9. Numbers(w, P)
  BY DEF Numbers
<1>10. ASSUME NEW s \in K PROVE u[s] = Total(w, part[s]) /\ u[s] \in Nat
  <2> DEFINE m == months(s)
             x == [p \in m |-> p[column]]
  <2>1. m \in SUBSET P /\ IsFiniteSet(m)
    BY <1>8, FS_Subset
  <2>2. \A p \in m : x[p] = w[p]
    BY <2>1
  <2>3. SumOf(m, column) = Total(x, m)
    <3> HIDE DEF m
    <3> QED
      BY <2>1, SumOfIsTotal
  <2> HIDE DEF m, x, w
  <2>4. Total(x, m) = Total(w, m)
    BY <2>1, <2>2, TotalSame
  <2>5. Numbers(w, m)
    BY <1>9, <2>1 DEF Numbers
  <2>6. Total(w, m) \in Nat
    BY <2>1, <2>5, TotalRemove
  <2> QED
    BY <1>6, <2>3, <2>4, <2>6 DEF m
<1> HIDE DEF w
<1>11. Parts(part, K) = P
  BY <1>3, <1>4, <1>6 DEF Parts
<1>12. Total(u, K) = Total(w, Parts(part, K))
  BY <1>2, <1>3, <1>9, <1>10, TotalOfParts
<1>13. Total(w, P) = SumOf(P, column)
  BY SumOfIsTotal DEF w
<1>14. SumOf({f[s] : s \in K}, column) = Total(u, K)
  <2>1. \A k, l \in K : f[k] = f[l] => k = l
    BY <1>5, <1>6
  <2>2. \A k \in K : f[k][column] = u[k]
    BY <1>5, <1>6
  <2>3. Numbers(u, K)
    BY <1>10 DEF Numbers
  <2> QED
    BY <1>2, <2>1, <2>2, <2>3, SumByKey
<1> QED
  BY <1>1, <1>11, <1>12, <1>13, <1>14

-----------------------------------------------------------------------------
(* What Python makes of a sequence of rows                                 *)

LEMMA RowsOf ==
  ASSUME NEW rows \in Seq(Rows)
  PROVE  /\ Len(rows) \in Nat /\ DOMAIN rows = 1 .. Len(rows)
         /\ IsFiniteSet(DOMAIN rows) /\ Cardinality(DOMAIN rows) = Len(rows)
         /\ \A i \in DOMAIN rows : /\ rows[i] \in Rows /\ i \in Nat
                                   /\ rows[i].date \in Nat /\ rows[i].result \in Nat
         /\ Range(rows) = {rows[i] : i \in DOMAIN rows}
<1>1. Len(rows) \in Nat /\ DOMAIN rows = 1 .. Len(rows) /\ \A i \in DOMAIN rows : rows[i] \in Rows
  OBVIOUS
<1>2. IsFiniteSet(1 .. Len(rows)) /\ Cardinality(1 .. Len(rows)) = Len(rows)
  BY <1>1, FS_Interval
<1>3. IsFiniteSet(DOMAIN rows) /\ Cardinality(DOMAIN rows) = Len(rows)
  BY <1>1, <1>2, Zenon
<1> QED
  BY <1>1, <1>3, DashboardAssumption DEF Range

\* The seasons of a history: each has the results of its twelve months, and
\* together they have all of them.
LEMMA SeasonsAre ==
  ASSUME NEW rows \in Seq(Rows)
  PROVE  /\ \A s \in Seasons(rows) :
              /\ s.performances = Cardinality({i \in DOMAIN rows : InSeason(rows[i].date, s.season)})
              /\ s.performances > 0
         /\ SumOf(Seasons(rows), "performances") = Len(rows)
         /\ SumOf(Seasons(rows), "medals") = Cardinality({i \in DOMAIN rows : rows[i].medal # None})
<1> DEFINE D == DOMAIN rows
           K == {SeasonOf(r.date) : r \in Range(rows)}
           group(s) == {i \in D : SeasonOf(rows[i].date) = s}
           won(s) == {i \in group(s) : rows[i].medal # None}
           inSeason(s) == {rows[i] : i \in group(s)}
           rec(s) == [season |-> s, performances |-> Cardinality(group(s)),
                      medals |-> Cardinality(won(s)),
                      competitions |-> Cardinality(Competitions(inSeason(s))),
                      best |-> PickBest(rows, group(s)).result]
           f == [s \in K |-> rec(s)]
           Won == {i \in D : rows[i].medal # None}
<1>1. Seasons(rows) = {f[s] : s \in K}
  <2>1. Seasons(rows) = {rec(s) : s \in K}
    BY Zenon DEF Seasons
  <2> HIDE DEF rec, K
  <2> QED
    BY <2>1
<1>2. /\ IsFiniteSet(D) /\ Cardinality(D) = Len(rows)
      /\ \A i \in D : rows[i].date \in Nat
      /\ Range(rows) = {rows[i] : i \in D}
  BY RowsOf
<1>3. K = {SeasonOf(rows[i].date) : i \in D}
  BY <1>2
<1>4. IsFiniteSet(K)
  <2> DEFINE v == [i \in D |-> SeasonOf(rows[i].date)]
  <2>1. IsFiniteSet({v[i] : i \in D})
    <3> HIDE DEF v
    <3> QED
      BY <1>2, FiniteImage
  <2>2. K = {v[i] : i \in D}
    BY <1>3
  <2> QED
    BY <2>1, <2>2
<1>5. \A s : /\ rec(s).season = s
             /\ rec(s)["performances"] = Cardinality(group(s))
             /\ rec(s)["medals"] = Cardinality(won(s))
  OBVIOUS
<1>6. \A s \in K : f[s] = rec(s)
  OBVIOUS
<1>7. \A i \in D : SeasonOf(rows[i].date) \in K /\ i \in group(SeasonOf(rows[i].date))
  BY <1>3
<1>8. \A s \in K : \E i \in D : i \in group(s)
  BY <1>3
<1> HIDE DEF D, K, rec, f
<1>9. \A k, l \in K : f[k] = f[l] => k = l
  BY <1>5, <1>6
<1>10. \A s \in K : s \in Int
  BY <1>2, <1>3 DEF SeasonOf, Month
<1>11. ASSUME NEW s \in K
       PROVE  /\ Cardinality(group(s)) = Cardinality({i \in D : InSeason(rows[i].date, s)})
              /\ Cardinality(group(s)) > 0
  <2>1. group(s) = {i \in D : InSeason(rows[i].date, s)}
    BY <1>2, <1>10, SeasonMonths
  <2>2. group(s) # {} /\ group(s) \in SUBSET D
    BY <1>8
  <2> HIDE DEF group
  <2>3. IsFiniteSet(group(s))
    BY <1>2, <2>2, FS_Subset
  <2>4. Cardinality(group(s)) \in Nat /\ Cardinality(group(s)) # 0
    BY <2>2, <2>3, FS_CardinalityType, FS_EmptySet
  <2> QED
    BY <2>1, <2>4
<1>12. ASSUME NEW s \in Seasons(rows)
       PROVE  /\ s.performances = Cardinality({i \in D : InSeason(rows[i].date, s.season)})
              /\ s.performances > 0
  <2>1. PICK k \in K : s = f[k]
    BY <1>1
  <2>2. s.season = k /\ s.performances = Cardinality(group(k))
    BY <1>5, <1>6, <2>1
  <2> HIDE DEF group
  <2> QED
    BY <1>11, <2>2
<1>13. SumOf(Seasons(rows), "performances") = Len(rows)
  <2> DEFINE part == [s \in K |-> group(s)]
  <2>1. part \in [K -> SUBSET D] /\ \A s \in K : part[s] = group(s)
    OBVIOUS
  <2> HIDE DEF part
  <2>2. \A k, l \in K : k # l => part[k] \cap part[l] = {}
    BY <2>1
  <2>3. D \subseteq UNION {part[k] : k \in K}
    BY <1>7, <2>1
  <2> HIDE DEF group
  <2>4. \A k \in K : f[k]["performances"] = Cardinality(part[k])
    BY <1>5, <1>6, <2>1
  <2>5. SumOf({f[k] : k \in K}, "performances") = Cardinality(D)
    BY <1>2, <1>4, <1>9, <2>1, <2>2, <2>3, <2>4, SumOfGroups
  <2> QED
    BY <1>1, <1>2, <2>5
<1>14. SumOf(Seasons(rows), "medals") = Cardinality(Won)
  <2> DEFINE part == [s \in K |-> won(s)]
  <2>1. part \in [K -> SUBSET Won] /\ \A s \in K : part[s] = won(s)
    OBVIOUS
  <2> HIDE DEF part
  <2>2. \A k, l \in K : k # l => part[k] \cap part[l] = {}
    BY <2>1
  <2>3. Won \subseteq UNION {part[k] : k \in K}
    BY <1>7, <2>1
  <2>4. IsFiniteSet(Won)
    BY <1>2, FS_Subset
  <2> HIDE DEF won, group, Won
  <2>5. \A k \in K : f[k]["medals"] = Cardinality(part[k])
    BY <1>5, <1>6, <2>1
  <2>6. SumOf({f[k] : k \in K}, "medals") = Cardinality(Won)
    BY <1>4, <1>9, <2>1, <2>2, <2>3, <2>4, <2>5, SumOfGroups
  <2> QED
    BY <1>1, <2>6
<1> QED
  BY <1>12, <1>13, <1>14 DEF D

\* One mark for each discipline and event, and none of its unit is better.
LEMMA BestResultsAre ==
  ASSUME NEW rows \in Seq(Rows), NEW e \in {EventOf(r) : r \in Range(rows)}
  PROVE  LET marks == {r \in Range(rows) : EventOf(r) = e}
         IN /\ Cardinality({b \in BestResults(rows) : EventOf(b) = e}) = 1
            /\ Cardinality({Normal[r.unit] : r \in marks}) = 1 =>
                 \A b \in BestResults(rows), r \in marks : EventOf(b) = e =>
                   IF Normal[r.unit] \in TimeUnits THEN b.result <= r.result
                   ELSE r.result <= b.result
<1> DEFINE D == DOMAIN rows
           E == {EventOf(r) : r \in Range(rows)}
           group(x) == {i \in D : EventOf(rows[i]) = x}
           marks == {r \in Range(rows) : EventOf(r) = e}
<1>1. BestResults(rows) = {PickBest(rows, group(x)) : x \in E}
  BY DEF BestResults
<1>2. /\ IsFiniteSet(D) /\ Range(rows) = {rows[i] : i \in D}
      /\ \A i \in D : i \in Nat /\ rows[i].result \in Nat
  BY RowsOf
<1>3. ASSUME NEW x \in E
      PROVE  \E i, f \in group(x) :
               /\ PickBest(rows, group(x)) = rows[i]
               /\ \A j \in group(x) : IF IsLowerBetter(rows[f].unit)
                                      THEN rows[i].result <= rows[j].result
                                      ELSE rows[j].result <= rows[i].result
  <2> DEFINE g == group(x)
  <2>1. g # {} /\ g \in SUBSET D
    BY <1>2
  <2>2. \A i \in g : rows[i].result \in Nat /\ i \in Nat
    BY <1>2
  <2> HIDE DEF g
  <2>3. IsFiniteSet(g)
    BY <1>2, <2>1, FS_Subset
  <2>4. \E i, f \in g :
          /\ PickBest(rows, g) = rows[i]
          /\ \A j \in g : IF IsLowerBetter(rows[f].unit)
                          THEN rows[i].result <= rows[j].result
                          ELSE rows[j].result <= rows[i].result
    BY <2>1, <2>2, <2>3, PickBestIs
  <2> QED
    BY <2>4 DEF g
<1>4. \A x \in E : EventOf(PickBest(rows, group(x))) = x
  BY <1>3
<1> DEFINE best == PickBest(rows, group(e))
<1>5. {b \in BestResults(rows) : EventOf(b) = e} = {best}
  <2> HIDE DEF group
  <2> QED
    BY <1>1, <1>4
<1>6. Cardinality({b \in BestResults(rows) : EventOf(b) = e}) = 1
  BY <1>5, FS_Singleton
<1>7. ASSUME Cardinality({Normal[r.unit] : r \in marks}) = 1,
             NEW b \in BestResults(rows), NEW r \in marks, EventOf(b) = e
      PROVE  IF Normal[r.unit] \in TimeUnits THEN b.result <= r.result ELSE r.result <= b.result
  <2>1. PICK i, f \in group(e) :
          /\ best = rows[i]
          /\ \A j \in group(e) : IF IsLowerBetter(rows[f].unit)
                                 THEN rows[i].result <= rows[j].result
                                 ELSE rows[j].result <= rows[i].result
    BY <1>3
  <2>2. b = rows[i]
    BY <1>5, <1>7, <2>1
  <2>3. PICK j \in group(e) : r = rows[j]
    BY <1>2
  <2>4. Normal[rows[f].unit] = Normal[r.unit]
    <3> DEFINE U == {Normal[q.unit] : q \in marks}
               v == [q \in marks |-> Normal[q.unit]]
    <3>1. IsFiniteSet(U)
      <4>1. IsFiniteSet(Range(rows))
        BY <1>2, FiniteImage
      <4>2. IsFiniteSet(marks)
        BY <4>1, FS_Subset
      <4>3. IsFiniteSet({v[q] : q \in marks})
        <5> HIDE DEF v, marks
        <5> QED
          BY <4>2, FiniteImage
      <4>4. U = {v[q] : q \in marks}
        OBVIOUS
      <4> QED
        BY <4>3, <4>4
    <3>2. rows[f] \in marks
      BY <1>2
    <3>3. Normal[rows[f].unit] \in U /\ Normal[r.unit] \in U
      BY <3>2
    <3>4. Cardinality(U) = 1
      BY <1>7
    <3> HIDE DEF U
    <3>5. \E x : U = {x}
      BY <3>1, <3>4, FS_Singleton
    <3> QED
      BY <3>3, <3>5
  <2>5. IsLowerBetter(rows[f].unit) <=> Normal[r.unit] \in TimeUnits
    BY <2>4 DEF IsLowerBetter, LowerIsBetterUnits, TimeUnits
  <2> QED
    BY <2>1, <2>2, <2>3, <2>5
<1> QED
  BY <1>6, <1>7

\* The medals of a podium belong to results that have a medal.
LEMMA MedalCountIs ==
  ASSUME NEW R, IsFiniteSet(R), NEW tally,
         tally = [m \in {r.medal : r \in Medalled(R)} |-> Cardinality({r \in R : r.medal = m})]
  PROVE  /\ SumOver(MedalCount(tally)) \in Nat
         /\ SumOver(MedalCount(tally)) <= Cardinality(Medalled(R))
<1> DEFINE X == Medalled(R)
           won(m) == {r \in X : r.medal = m}
           part == [m \in Medals |-> won(m)]
           u == [m \in Medals |-> MedalCount(tally)[m]]
<1>1. IsFiniteSet(X)
  BY FS_Subset DEF Medalled
<1>2. part \in [Medals -> SUBSET X] /\ \A k, l \in Medals : k # l => part[k] \cap part[l] = {}
  OBVIOUS
<1>3. ASSUME NEW m \in Medals PROVE u[m] = Cardinality(part[m])
  <2>1. part[m] = won(m) /\ u[m] = IF m \in DOMAIN tally THEN tally[m] ELSE 0
    BY DEF MedalCount
  <2>2. CASE m \in DOMAIN tally
    <3>1. won(m) = {r \in R : r.medal = m}
      BY <2>2 DEF Medalled
    <3>2. tally[m] = Cardinality({r \in R : r.medal = m})
      BY <2>2
    <3> QED
      BY <2>1, <2>2, <3>1, <3>2
  <2>3. CASE m \notin DOMAIN tally
    <3>1. won(m) = {}
      BY <2>3
    <3> QED
      BY <2>1, <2>3, <3>1, FS_EmptySet
  <2> QED
    BY <2>2, <2>3
<1>4. SumOver(MedalCount(tally)) = Total(u, Medals) /\ IsFiniteSet(Medals)
  BY SumOverIsTotal
<1>5. Parts(part, Medals) \in SUBSET X
  BY <1>2 DEF Parts
<1> HIDE DEF X, part, u, won
<1>6. Total(u, Medals) = Cardinality(Parts(part, Medals))
  BY <1>1, <1>2, <1>3, <1>4, CountOfParts
<1>7. Cardinality(Parts(part, Medals)) <= Cardinality(X)
  BY <1>1, <1>5, FS_Subset
<1>8. Cardinality(Parts(part, Medals)) \in Nat
  BY <1>1, <1>5, FS_Subset, FS_CardinalityType
<1> QED
  BY <1>4, <1>6, <1>7, <1>8 DEF X

-----------------------------------------------------------------------------
(* The answers that a dashboard holds                                      *)

\* The queries that a dashboard is past have their answers in its view.
AnswerInv ==
  \A d \in Dashboards :
    /\ \A i \in 1 .. Len(Queries(d)) : i < step[d] => Queries(d)[i] \in DOMAIN view[d]
    /\ step[d] <= 1 => DOMAIN view[d] = {}

\* The history in a view is that of some set of rows, be it no longer what the
\* table holds; and the podium is a sequence of rows.
HistoryInv ==
  /\ "history" \in DOMAIN view["user"] =>
       \E R : Distinct(R) /\ view["user"].history = Sorted(R, Newest)
  /\ "top" \in DOMAIN view["admin"] => view["admin"].top \in Seq(Rows)

\* Until somebody commits, the answers are what the queries may return again.
QuietInv ==
  \A d \in Dashboards : quiet[d] => \A q \in DOMAIN view[d] : view[d][q] \in Replies(d, q)

TableInv ==
  /\ Distinct(results) /\ athletes \subseteq Athletes
  /\ quiet \in [Dashboards -> BOOLEAN]

IInv == TypeInv /\ TableInv /\ AnswerInv /\ HistoryInv /\ QuietInv

LEMMA QueryPlaces ==
  /\ Len(Queries("user")) = 5 /\ Len(Queries("admin")) = 12
  /\ Queries("user")[1] = "profile" /\ Queries("user")[2] = "history"
  /\ Queries("user")[3] = "medals" /\ Queries("user")[4] = "competitions"
  /\ Queries("user")[5] = "bestRanking"
  /\ Queries("admin")[1] = "athletes" /\ Queries("admin")[2] = "active"
  /\ Queries("admin")[3] = "total" /\ Queries("admin")[4] = "competitions"
  /\ Queries("admin")[7] = "medals" /\ Queries("admin")[8] = "byDiscipline"
  /\ Queries("admin")[10] = "byMonth" /\ Queries("admin")[11] = "top"
  /\ Queries("admin")[12] = "latest"
  /\ \A d \in Dashboards : \A i \in 1 .. Len(Queries(d)) : Queries(d)[i] = "profile" => i = 1
<1>1. Queries("user") = <<"profile", "history", "medals", "competitions", "bestRanking">>
  BY DEF Queries
<1>2. Queries("admin") = <<"athletes", "active", "total", "competitions", "clubs", "disciplines",
                           "medals", "byDiscipline", "athletesByDiscipline", "byMonth", "top",
                           "latest">>
  BY DEF Queries
<1>3. \A i \in 1 .. 5 : Queries("user")[i] = "profile" => i = 1
  BY <1>1
<1>4. \A i \in 1 .. 12 : Queries("admin")[i] # "profile"
  BY <1>2
<1>5. Len(Queries("user")) = 5 /\ Len(Queries("admin")) = 12
  BY <1>1, <1>2
<1>6. \A d \in Dashboards : \A i \in 1 .. Len(Queries(d)) : Queries(d)[i] = "profile" => i = 1
  BY <1>3, <1>4, <1>5 DEF Dashboards
<1>7. /\ Queries("user")[1] = "profile" /\ Queries("user")[2] = "history"
      /\ Queries("user")[3] = "medals" /\ Queries("user")[4] = "competitions"
      /\ Queries("user")[5] = "bestRanking"
  BY <1>1
<1>8. /\ Queries("admin")[1] = "athletes" /\ Queries("admin")[2] = "active"
      /\ Queries("admin")[3] = "total" /\ Queries("admin")[4] = "competitions"
      /\ Queries("admin")[7] = "medals" /\ Queries("admin")[8] = "byDiscipline"
      /\ Queries("admin")[10] = "byMonth" /\ Queries("admin")[11] = "top"
      /\ Queries("admin")[12] = "latest"
  BY <1>2
<1> QED
  BY <1>5, <1>6, <1>7, <1>8

\* The rows that a dashboard is about.
RowsFor(d) == IF d = "user" THEN {r \in results : r.athlete = Athlete} ELSE results

LEMMA Answers ==
  ASSUME NEW d
  PROVE  /\ Answer(d, "history") = Sorted(RowsFor(d), Newest)
         /\ Answer(d, "medals") = [m \in {r.medal : r \in Medalled(RowsFor(d))} |->
                                     Cardinality({r \in RowsFor(d) : r.medal = m})]
         /\ Answer(d, "competitions") = Cardinality(Competitions(RowsFor(d)))
         /\ Answer(d, "bestRanking") =
              IF Ranked(RowsFor(d)) = {} THEN None
              ELSE CHOOSE k \in {r.ranking : r \in Ranked(RowsFor(d))} :
                     \A r \in Ranked(RowsFor(d)) : k <= r.ranking
         /\ Answer(d, "athletes") = Cardinality(athletes)
         /\ Answer(d, "active") = Cardinality({a \in athletes : a.id \in active})
         /\ Answer(d, "total") = Cardinality(RowsFor(d))
         /\ Answer(d, "byDiscipline") = Grouped(RowsFor(d), "discipline")
         /\ Answer(d, "byMonth") = Grouped(RowsFor(d), "date")
         /\ Answer(d, "latest") = First(Sorted(RowsFor(d), Newest), LatestSize)
<1> DEFINE rows == IF d = "user" THEN {r \in results : r.athlete = Athlete} ELSE results
<1>1. rows = RowsFor(d)
  BY DEF RowsFor
<1>2. Answer(d, "history") = Sorted(rows, Newest)
  BY DEF Answer
<1>3. Answer(d, "medals") = [m \in {r.medal : r \in Medalled(rows)} |->
                               Cardinality({r \in rows : r.medal = m})]
  BY DEF Answer
<1>4. Answer(d, "competitions") = Cardinality(Competitions(rows))
  BY DEF Answer
<1>5. Answer(d, "bestRanking") =
        IF Ranked(rows) = {} THEN None
        ELSE CHOOSE k \in {r.ranking : r \in Ranked(rows)} : \A r \in Ranked(rows) : k <= r.ranking
  BY DEF Answer
<1>6. /\ Answer(d, "athletes") = Cardinality(athletes)
      /\ Answer(d, "active") = Cardinality({a \in athletes : a.id \in active})
      /\ Answer(d, "total") = Cardinality(rows)
  BY DEF Answer
<1>7. Answer(d, "byDiscipline") = Grouped(rows, "discipline")
  BY DEF Answer
<1>8. Answer(d, "byMonth") = Grouped(rows, "date")
  BY DEF Answer
<1>9. Answer(d, "latest") = First(Sorted(rows, Newest), LatestSize)
  BY DEF Answer
<1> HIDE DEF rows
<1> QED
  BY <1>1, <1>2, <1>3, <1>4, <1>5, <1>6, <1>7, <1>8, <1>9

\* Every query but that of the podium has one reply.
LEMMA ReplyIs ==
  ASSUME NEW d, NEW q, q # "top", NEW reply \in Replies(d, q)
  PROVE  reply = Answer(d, q)
  BY DEF Replies

\* The podium is a sequence of rows, however Postgres orders those that tie.
LEMMA PodiumIs ==
  ASSUME TableInv, NEW podium \in TopResults(results)
  PROVE  podium \in Seq(Rows)
<1>0. PICK heap \in Heaps :
        podium = First(Sorted(Ranked(results), LAMBDA p, q : Podium(heap, p, q)), TopSize)
  BY DEF TopResults
<1> DEFINE T == Ranked(results)
           O == {x \in T \X T : Podium(heap, x[1], x[2])}
           n == Cardinality(T)
           nth(i) == CHOOSE x \in T : Cardinality({y \in T : Podium(heap, y, x)}) = i - 1
<1>1. IsFiniteSet(T) /\ T \in SUBSET Rows
  BY DashboardAssumption, FS_Subset DEF TableInv, Distinct, Ranked
<1>2. \A p \in T : p.ranking \in Nat /\ p.date \in Nat /\ heap[p] \in Nat
  BY DashboardAssumption, <1>1 DEF Ranked
<1>3. \A p, q \in T : <<p, q>> \in O <=> Podium(heap, p, q)
  OBVIOUS
<1>4. \A p, q \in T : p # q => heap[p] # heap[q]
  BY <1>1, DashboardAssumption
<1> HIDE DEF T, O
<1>5. Linear(O, T)
  <2>1. \A p \in T : <<p, p>> \notin O
    BY <1>2, <1>3 DEF Podium
  <2>2. \A p, q \in T : p # q => <<p, q>> \in O \/ <<q, p>> \in O
    BY <1>2, <1>3, <1>4 DEF Podium
  <2>3. \A p, q, r \in T : <<p, q>> \in O /\ <<q, r>> \in O => <<p, r>> \in O
    BY <1>2, <1>3 DEF Podium
  <2> QED
    BY <2>1, <2>2, <2>3 DEF Linear
<1>6. n \in Nat
  BY <1>1, FS_CardinalityType
<1>7. ASSUME NEW i \in 1 .. n PROVE nth(i) \in Rows
  <2>1. i - 1 \in 0 .. n - 1
    BY <1>6
  <2>2. PICK x \in T : Rank(O, T, x) = i - 1
    BY <1>1, <1>5, <2>1, RankTaken
  <2>3. Lower(O, T, x) = {y \in T : Podium(heap, y, x)}
    BY <1>3 DEF Lower
  <2>4. Cardinality({y \in T : Podium(heap, y, x)}) = i - 1
    BY <2>2, <2>3 DEF Rank
  <2>5. nth(i) \in T
    BY <2>4
  <2> QED
    BY <1>1, <2>5
<1> DEFINE line == Sorted(T, LAMBDA p, q : Podium(heap, p, q))
<1>8. line = [i \in 1 .. n |-> nth(i)]
  BY DEF Sorted
<1>9. podium = First(line, TopSize)
  BY <1>0 DEF T
<1> HIDE DEF nth, n, line
<1>10. line \in Seq(Rows)
  BY <1>6, <1>7, <1>8
<1> QED
  BY <1>9, <1>10, DashboardAssumption, FirstIs

LEMMA InitInv == Init => IInv
<1> SUFFICES ASSUME Init PROVE IInv
  OBVIOUS
<1>1. TypeInv
  BY InitType
<1>2. TableInv
  BY DEF Init, TableInv, Distinct
<1>3. DOMAIN << >> = {}
  OBVIOUS
<1>4. \A d \in Dashboards : step[d] = 0 /\ DOMAIN view[d] = {}
  BY <1>3 DEF Init, Waiting
<1>5. AnswerInv
  BY <1>4, QueryPlaces DEF AnswerInv, Dashboards
<1>6. HistoryInv /\ QuietInv
  BY <1>4 DEF HistoryInv, QuietInv, Dashboards
<1> QED
  BY <1>1, <1>2, <1>5, <1>6 DEF IInv

\* A query: either the 404 of an account without a profile, at the first of the
\* queries, or an answer.
LEMMA RunCases ==
  ASSUME TypeInv, TableInv, NEW d \in Dashboards, Run(d)
  PROVE  /\ UNCHANGED <<athletes, active, results>> /\ step[d] \in 1 .. Len(Queries(d))
         /\ \A e \in Dashboards : e # d => view'[e] = view[e] /\ step'[e] = step[e]
                                           /\ quiet'[e] = quiet[e]
         /\ quiet' \in [Dashboards -> BOOLEAN]
         /\ quiet'[d] = IF step[d] = 1 THEN TRUE ELSE quiet[d]
         /\ \/ step[d] = 1 /\ step'[d] = 0 /\ view' = view
            \/ LET q == Queries(d)[step[d]]
               IN /\ step'[d] = step[d] + 1
                  /\ DOMAIN view'[d] = DOMAIN view[d] \cup {q}
                  /\ view'[d][q] \in Replies(d, q)
                  /\ \A k \in DOMAIN view[d] : k # q => view'[d][k] = view[d][k]
<1> DEFINE q == Queries(d)[step[d]]
<1>1. step[d] \in 1 .. Len(Queries(d)) /\ UNCHANGED <<athletes, active, results>>
  BY DEF Run
<1>2. quiet' = [quiet EXCEPT ![d] = IF step[d] = 1 THEN TRUE ELSE quiet[d]]
  BY DEF Run
<1>3. \/ q = "profile" /\ step' = [step EXCEPT ![d] = 0] /\ view' = view
      \/ /\ step' = [step EXCEPT ![d] = step[d] + 1]
         /\ \E reply \in Replies(d, q) :
              view' = [view EXCEPT ![d] = [k \in DOMAIN view[d] \cup {q} |->
                                             IF k = q THEN reply ELSE view[d][k]]]
  BY DEF Run, Waiting
<1>4. q = "profile" => step[d] = 1
  BY <1>1, QueryPlaces
<1> HIDE DEF q
<1>5. CASE q = "profile" /\ step' = [step EXCEPT ![d] = 0] /\ view' = view
  <2>1. step[d] = 1 /\ step'[d] = 0 /\ \A e \in Dashboards : e # d => step'[e] = step[e]
    BY <1>4, <1>5 DEF TypeInv
  <2> QED
    BY <1>1, <1>2, <1>5, <2>1 DEF TableInv
<1>6. ASSUME NEW reply \in Replies(d, q),
             step' = [step EXCEPT ![d] = step[d] + 1],
             view' = [view EXCEPT ![d] = [k \in DOMAIN view[d] \cup {q} |->
                                            IF k = q THEN reply ELSE view[d][k]]]
      PROVE  /\ step'[d] = step[d] + 1
             /\ \A e \in Dashboards : e # d => view'[e] = view[e] /\ step'[e] = step[e]
             /\ DOMAIN view'[d] = DOMAIN view[d] \cup {q}
             /\ view'[d][q] \in Replies(d, q)
             /\ \A k \in DOMAIN view[d] : k # q => view'[d][k] = view[d][k]
  <2>1. view'[d] = [k \in DOMAIN view[d] \cup {q} |-> IF k = q THEN reply ELSE view[d][k]]
    BY <1>6 DEF TypeInv
  <2>2. /\ DOMAIN view'[d] = DOMAIN view[d] \cup {q} /\ view'[d][q] \in Replies(d, q)
        /\ \A k \in DOMAIN view[d] : k # q => view'[d][k] = view[d][k]
    BY <2>1
  <2>3. \A e \in Dashboards : e # d => view'[e] = view[e] /\ step'[e] = step[e]
    BY <1>6 DEF TypeInv
  <2>4. step'[d] = step[d] + 1
    BY <1>6 DEF TypeInv
  <2> QED
    BY <2>2, <2>3, <2>4
<1>7. /\ \A e \in Dashboards : e # d => quiet'[e] = quiet[e]
      /\ quiet' \in [Dashboards -> BOOLEAN]
      /\ quiet'[d] = IF step[d] = 1 THEN TRUE ELSE quiet[d]
  BY <1>2 DEF TableInv
<1>8. CASE \E reply \in Replies(d, q) :
              /\ step' = [step EXCEPT ![d] = step[d] + 1]
              /\ view' = [view EXCEPT ![d] = [k \in DOMAIN view[d] \cup {q} |->
                                                IF k = q THEN reply ELSE view[d][k]]]
  <2>1. /\ step'[d] = step[d] + 1
        /\ \A e \in Dashboards : e # d => view'[e] = view[e] /\ step'[e] = step[e]
        /\ DOMAIN view'[d] = DOMAIN view[d] \cup {q}
        /\ view'[d][q] \in Replies(d, q)
        /\ \A k \in DOMAIN view[d] : k # q => view'[d][k] = view[d][k]
    BY <1>6, <1>8
  <2> QED
    BY <1>1, <1>7, <2>1 DEF q
<1> QED
  BY <1>3, <1>5, <1>8

\* The answers depend on the tables alone.
LEMMA SameAnswers ==
  ASSUME UNCHANGED <<athletes, active, results>>, NEW d, NEW q
  PROVE  Replies(d, q)' = Replies(d, q)
<1>1. TopResults(results)' = TopResults(results)
  OBVIOUS
<1>2. Answer(d, q)' = Answer(d, q)
  BY DEF Answer
<1> QED
  BY <1>1, <1>2 DEF Replies

LEMMA RunInv ==
  ASSUME IInv, TypeInv', NEW d \in Dashboards, Run(d)
  PROVE  IInv'
<1> DEFINE q == Queries(d)[step[d]]
<1>1. /\ UNCHANGED <<athletes, active, results>> /\ step[d] \in 1 .. Len(Queries(d))
      /\ \A e \in Dashboards : e # d => view'[e] = view[e] /\ step'[e] = step[e]
                                        /\ quiet'[e] = quiet[e]
      /\ quiet' \in [Dashboards -> BOOLEAN]
      /\ quiet'[d] = IF step[d] = 1 THEN TRUE ELSE quiet[d]
      /\ \/ step[d] = 1 /\ step'[d] = 0 /\ view' = view
         \/ /\ step'[d] = step[d] + 1
            /\ DOMAIN view'[d] = DOMAIN view[d] \cup {q}
            /\ view'[d][q] \in Replies(d, q)
            /\ \A k \in DOMAIN view[d] : k # q => view'[d][k] = view[d][k]
  BY RunCases DEF IInv
<1>2. Len(Queries(d)) \in Nat
  BY QueriesAre
<1>3. q \in {Queries(d)[i] : i \in 1 .. Len(Queries(d))}
  BY <1>1
<1>4. step[d] = 1 => DOMAIN view[d] = {}
  BY DEF IInv, AnswerInv
<1>5. \A i \in 1 .. Len(Queries(d)) : i = step[d] => Queries(d)[i] = q
  OBVIOUS
<1> HIDE DEF q
<1>6. TableInv'
  BY <1>1 DEF IInv, TableInv, Distinct
<1>7. AnswerInv'
  <2> SUFFICES ASSUME NEW e \in Dashboards
               PROVE  /\ \A i \in 1 .. Len(Queries(e)) :
                           i < step'[e] => Queries(e)[i] \in DOMAIN view'[e]
                      /\ step'[e] <= 1 => DOMAIN view'[e] = {}
    BY DEF AnswerInv
  <2>1. /\ \A i \in 1 .. Len(Queries(e)) : i < step[e] => Queries(e)[i] \in DOMAIN view[e]
        /\ step[e] <= 1 => DOMAIN view[e] = {}
    BY DEF IInv, AnswerInv
  <2>2. CASE e # d
    BY <1>1, <2>1, <2>2
  <2>3. CASE e = d /\ step[d] = 1 /\ step'[d] = 0 /\ view' = view
    BY <1>2, <1>4, <2>3
  <2>4. CASE e = d /\ step'[d] = step[d] + 1 /\ DOMAIN view'[d] = DOMAIN view[d] \cup {q}
    <3>1. ASSUME NEW i \in 1 .. Len(Queries(d)), i < step'[d]
          PROVE  Queries(d)[i] \in DOMAIN view'[d]
      <4>1. i < step[d] \/ i = step[d]
        BY <1>1, <1>2, <2>4, <3>1
      <4> QED
        BY <1>5, <2>1, <2>4, <4>1
    <3>2. ~(step'[d] <= 1)
      BY <1>1, <1>2, <2>4
    <3> QED
      BY <2>4, <3>1, <3>2
  <2> QED
    BY <1>1, <2>2, <2>3, <2>4
<1>8. HistoryInv'
  <2>1. "history" \in DOMAIN view'["user"] =>
          \E R : Distinct(R) /\ view'["user"].history = Sorted(R, Newest)
    <3> SUFFICES ASSUME "history" \in DOMAIN view'["user"]
                 PROVE  \E R : Distinct(R) /\ view'["user"].history = Sorted(R, Newest)
      OBVIOUS
    <3>1. CASE /\ "history" \in DOMAIN view["user"]
               /\ view'["user"]["history"] = view["user"]["history"]
      BY <3>1 DEF IInv, HistoryInv
    <3>2. CASE /\ d = "user" /\ q = "history"
               /\ view'["user"]["history"] \in Replies("user", "history")
      <4>1. Distinct(RowsFor("user"))
        BY DEF IInv, TableInv, Distinct, RowsFor
      <4>2. view'["user"]["history"] = Sorted(RowsFor("user"), Newest)
        BY <3>2, Answers, ReplyIs
      <4> QED
        BY <4>1, <4>2
    <3> QED
      BY <1>1, <3>1, <3>2 DEF Dashboards
  <2>2. "top" \in DOMAIN view'["admin"] => view'["admin"].top \in Seq(Rows)
    <3> SUFFICES ASSUME "top" \in DOMAIN view'["admin"] PROVE view'["admin"]["top"] \in Seq(Rows)
      OBVIOUS
    <3>1. CASE "top" \in DOMAIN view["admin"] /\ view'["admin"]["top"] = view["admin"]["top"]
      BY <3>1 DEF IInv, HistoryInv
    <3>2. CASE d = "admin" /\ q = "top" /\ view'["admin"]["top"] \in Replies("admin", "top")
      <4>1. Replies("admin", "top") = TopResults(results)
        BY DEF Replies
      <4> QED
        BY <3>2, <4>1, PodiumIs DEF IInv
    <3> QED
      BY <1>1, <3>1, <3>2 DEF Dashboards
  <2> QED
    BY <2>1, <2>2 DEF HistoryInv
<1>9. QuietInv'
  <2> SUFFICES ASSUME NEW e \in Dashboards, quiet'[e], NEW k \in DOMAIN view'[e]
               PROVE  view'[e][k] \in Replies(e, k)'
    BY DEF QuietInv
  <2>1. Replies(e, k)' = Replies(e, k)
    BY <1>1, SameAnswers
  <2>2. CASE e # d
    BY <1>1, <2>1, <2>2 DEF IInv, QuietInv
  <2>3. CASE e = d
    <3>1. CASE k \in DOMAIN view[d] /\ view'[d][k] = view[d][k]
      <4>1. quiet[d]
        BY <1>1, <1>4, <2>3, <3>1
      <4> QED
        BY <2>1, <2>3, <3>1, <4>1 DEF IInv, QuietInv
    <3>2. CASE k = q /\ view'[d][k] \in Replies(d, k)
      BY <2>1, <2>3, <3>2
    <3> QED
      BY <1>1, <2>3, <3>1, <3>2
  <2> QED
    BY <2>2, <2>3
<1> QED
  BY <1>6, <1>7, <1>8, <1>9 DEF IInv

\* A commit of others: the dashboards are where they were, and no longer quiet.
LEMMA CommitInv ==
  ASSUME IInv, TypeInv', Commits, Distinct(results'), athletes' \subseteq Athletes
  PROVE  IInv'
<1>1. quiet' = [d \in Dashboards |-> FALSE] /\ step' = step /\ view' = view
  BY DEF Commits
<1>2. TableInv' /\ QuietInv'
  BY <1>1 DEF TableInv, QuietInv, Distinct
<1>3. AnswerInv' /\ HistoryInv'
  BY <1>1 DEF IInv, AnswerInv, HistoryInv
<1> QED
  BY <1>2, <1>3 DEF IInv

LEMMA InvStep == IInv /\ [Next]_vars => IInv'
<1> SUFFICES ASSUME IInv, [Next]_vars PROVE IInv'
  OBVIOUS
<1>0. TypeInv'
  BY NextType DEF IInv
<1>1. Distinct(results) /\ athletes \subseteq Athletes
  BY DEF IInv, TableInv
<1>2. ASSUME NEW d \in Dashboards, Ask(d) \/ Respond(d) PROVE IInv'
  <2>1. /\ UNCHANGED <<athletes, active, results, quiet>>
        /\ \A e \in Dashboards : e # d => view'[e] = view[e] /\ step'[e] = step[e]
        /\ step'[d] <= 1 /\ (DOMAIN view'[d] = {})
    <3>1. CASE Ask(d)
      <4>1. step[d] = 0 /\ DOMAIN view[d] = {}
        BY <3>1 DEF Ask, Waiting, IInv, AnswerInv
      <4> QED
        BY <3>1, <4>1 DEF Ask, IInv, TypeInv
    <3>2. CASE Respond(d)
      <4>1. DOMAIN << >> = {}
        OBVIOUS
      <4> QED
        BY <3>2, <4>1 DEF Respond, Waiting, IInv, TypeInv
    <3> QED
      BY <1>2, <3>1, <3>2
  <2>2. TableInv'
    BY <2>1 DEF IInv, TableInv, Distinct
  <2>3. step'[d] \in Nat
    BY <1>0 DEF TypeInv
  <2>4. AnswerInv'
    <3>1. ASSUME NEW e \in Dashboards
          PROVE  /\ \A i \in 1 .. Len(Queries(e)) :
                      i < step'[e] => Queries(e)[i] \in DOMAIN view'[e]
                 /\ step'[e] <= 1 => DOMAIN view'[e] = {}
      <4>1. CASE e # d
        BY <2>1, <4>1 DEF IInv, AnswerInv
      <4>2. CASE e = d
        <5>1. Len(Queries(d)) \in Nat
          BY QueriesAre
        <5> QED
          BY <2>1, <2>3, <4>2, <5>1
      <4> QED
        BY <4>1, <4>2
    <3> QED
      BY <3>1 DEF AnswerInv
  <2>5. HistoryInv'
    BY <2>1 DEF IInv, HistoryInv, Dashboards
  <2>6. QuietInv'
    <3> SUFFICES ASSUME NEW e \in Dashboards, quiet'[e], NEW k \in DOMAIN view'[e]
                 PROVE  view'[e][k] \in Replies(e, k)'
      BY DEF QuietInv
    <3>1. Replies(e, k)' = Replies(e, k)
      BY <2>1, SameAnswers
    <3>2. e # d
      BY <2>1
    <3> QED
      BY <2>1, <3>1, <3>2 DEF IInv, QuietInv
  <2> QED
    BY <1>0, <2>2, <2>4, <2>5, <2>6 DEF IInv
<1>3. ASSUME NEW d \in Dashboards, Run(d) PROVE IInv'
  BY <1>0, <1>3, RunInv
<1>4. CASE RecordResult
  <2>1. Commits /\ athletes' = athletes
    BY <1>4 DEF RecordResult
  <2>2. Distinct(results')
    BY <1>1, <1>4 DEF RecordResult, Distinct
  <2> QED
    BY <1>0, <1>1, <2>1, <2>2, CommitInv
<1>5. CASE AmendResult
  <2>1. Commits /\ athletes' = athletes
    BY <1>5 DEF AmendResult
  <2>2. Distinct(results')
    BY <1>1, <1>5 DEF AmendResult, Distinct
  <2> QED
    BY <1>0, <1>1, <2>1, <2>2, CommitInv
<1>6. CASE DiscardResult \/ DeleteAthlete \/ SetStatus
  <2>1. Commits /\ results' \subseteq results /\ athletes' \subseteq athletes
    BY <1>6 DEF DiscardResult, DeleteAthlete, SetStatus
  <2>2. Distinct(results')
    BY <1>1, <2>1 DEF Distinct
  <2> QED
    BY <1>0, <1>1, <2>1, <2>2, CommitInv
<1>7. CASE UNCHANGED vars
  <2>1. \A d, q : Replies(d, q)' = Replies(d, q)
    BY <1>7, SameAnswers DEF vars
  <2>2. TableInv' /\ AnswerInv' /\ HistoryInv'
    BY <1>7 DEF vars, IInv, TableInv, Distinct, AnswerInv, HistoryInv
  <2>3. view' = view /\ quiet' = quiet
    BY <1>7 DEF vars
  <2>4. QuietInv'
    BY <2>1, <2>3 DEF IInv, QuietInv
  <2> QED
    BY <1>0, <2>2, <2>4 DEF IInv
<1> QED
  BY <1>2, <1>3, <1>4, <1>5, <1>6, <1>7 DEF Next

\* The inductive invariant holds in every state.
THEOREM Invariance == Spec => []IInv
  BY InitInv, InvStep, PTL DEF Spec

-----------------------------------------------------------------------------
(* The figures                                                             *)

\* A dashboard that is done has all its answers.
LEMMA AllAnswered ==
  ASSUME IInv, NEW d \in Dashboards, Done(d), NEW i \in 1 .. Len(Queries(d))
  PROVE  Queries(d)[i] \in DOMAIN view[d]
<1>1. Len(Queries(d)) \in Nat
  BY QueriesAre
<1>2. i < step[d]
  BY <1>1 DEF Done
<1> QED
  BY <1>2 DEF IInv, AnswerInv

\* What a finished personal dashboard has read.
LEMMA UserIsDone ==
  ASSUME IInv, Done("user")
  PROVE  /\ \E R : Distinct(R) /\ view["user"].history = Sorted(R, Newest)
         /\ view["user"].history \in Seq(Rows)
         /\ {"history", "medals", "competitions", "bestRanking"} \subseteq DOMAIN view["user"]
<1>1. \A i \in 1 .. Len(Queries("user")) : Queries("user")[i] \in DOMAIN view["user"]
  BY AllAnswered DEF Dashboards
<1>2. \A i \in 1 .. 5 : Queries("user")[i] \in DOMAIN view["user"]
  <2>1. Len(Queries("user")) = 5
    BY QueryPlaces
  <2> QED
    BY <1>1, <2>1
<1>3. {"history", "medals", "competitions", "bestRanking"} \subseteq DOMAIN view["user"]
  BY <1>2, QueryPlaces
<1>4. PICK R : Distinct(R) /\ view["user"].history = Sorted(R, Newest)
  BY <1>3 DEF IInv, HistoryInv
<1>5. Sorted(R, Newest) \in Seq(R)
  BY <1>4, HistoryIs
<1>6. view["user"].history \in Seq(R) /\ R \in SUBSET Rows
  BY <1>4, <1>5, Zenon DEF Distinct
<1>7. view["user"].history \in Seq(Rows)
  BY <1>6
<1> QED
  BY <1>3, <1>4, <1>7

LEMMA AdminIsDone ==
  ASSUME IInv, Done("admin")
  PROVE  /\ view["admin"].top \in Seq(Rows)
         /\ {"athletes", "active", "total", "competitions", "medals", "byDiscipline", "byMonth",
             "top", "latest"} \subseteq DOMAIN view["admin"]
<1>1. \A i \in 1 .. Len(Queries("admin")) : Queries("admin")[i] \in DOMAIN view["admin"]
  BY AllAnswered DEF Dashboards
<1>2. \A i \in 1 .. 12 : Queries("admin")[i] \in DOMAIN view["admin"]
  <2>1. Len(Queries("admin")) = 12
    BY QueryPlaces
  <2> QED
    BY <1>1, <2>1
<1>3. {"athletes", "active", "total", "competitions", "medals", "byDiscipline", "byMonth",
       "top", "latest"} \subseteq DOMAIN view["admin"]
  BY <1>2, QueryPlaces
<1> QED
  BY <1>3 DEF IInv, HistoryInv

\* The rows of a dashboard are finitely many.
LEMMA RowsForIs ==
  ASSUME IInv, NEW d
  PROVE  Distinct(RowsFor(d)) /\ IsFiniteSet(RowsFor(d)) /\ Cardinality(RowsFor(d)) \in Nat
<1>1. Distinct(RowsFor(d)) /\ RowsFor(d) \in SUBSET Rows
  BY DEF IInv, TableInv, Distinct, RowsFor
<1>2. IsFiniteSet(RowsFor(d))
  BY <1>1, DashboardAssumption, FS_Subset
<1> QED
  BY <1>1, <1>2, FS_CardinalityType

\* Whatever others commit meanwhile, each result of the personal dashboard is
\* counted in one season, and its date falls into that season.
THEOREM SeasonsCountEachResultOnce == Spec => []SeasonsPartitionHistory
<1>1. IInv => SeasonsPartitionHistory
  <2> SUFFICES ASSUME IInv, Done("user") PROVE SeasonsPartitionHistory
    BY DEF SeasonsPartitionHistory
  <2> DEFINE history == view["user"].history
  <2>1. history \in Seq(Rows)
    BY UserIsDone
  <2>2. User.seasons = Seasons(history) /\ User.total = Len(history)
    BY DEF User, UserResponse
  <2>3. /\ \A s \in Seasons(history) :
             /\ s.performances = Cardinality({i \in DOMAIN history : InSeason(history[i].date, s.season)})
             /\ s.performances > 0
        /\ SumOf(Seasons(history), "performances") = Len(history)
    BY <2>1, SeasonsAre
  <2> QED
    BY <2>2, <2>3 DEF SeasonsPartitionHistory
<1> QED
  BY <1>1, Invariance, PTL

\* Both dashboards show one mark for each discipline and event, and when its
\* marks are in one unit no other of them is better.
THEOREM BestMarksAreBest == Spec => []BestIsUnbeaten
<1>1. IInv => BestIsUnbeaten
  <2> SUFFICES ASSUME IInv, NEW d \in Dashboards, Done(d)
               PROVE  LET rows == IF d = "user" THEN view[d].history ELSE view[d].top
                          bests == IF d = "user" THEN User.bestResults ELSE Admin.bestResults
                      IN \A e \in {EventOf(r) : r \in Range(rows)} :
                           LET marks == {r \in Range(rows) : EventOf(r) = e}
                           IN /\ Cardinality({b \in bests : EventOf(b) = e}) = 1
                              /\ Cardinality({Normal[r.unit] : r \in marks}) = 1 =>
                                   \A b \in bests, r \in marks : EventOf(b) = e =>
                                     IF Normal[r.unit] \in TimeUnits THEN b.result <= r.result
                                     ELSE r.result <= b.result
    BY DEF BestIsUnbeaten
  <2> DEFINE rows == IF d = "user" THEN view[d].history ELSE view[d].top
             bests == IF d = "user" THEN User.bestResults ELSE Admin.bestResults
  <2>1. bests = BestResults(rows)
    BY DEF User, Admin, UserResponse, AdminResponse, Dashboards
  <2>2. rows \in Seq(Rows)
    BY UserIsDone, AdminIsDone DEF Dashboards
  <2> HIDE DEF rows, bests
  <2>3. ASSUME NEW e \in {EventOf(r) : r \in Range(rows)}
        PROVE  LET marks == {r \in Range(rows) : EventOf(r) = e}
               IN /\ Cardinality({b \in bests : EventOf(b) = e}) = 1
                  /\ Cardinality({Normal[r.unit] : r \in marks}) = 1 =>
                       \A b \in bests, r \in marks : EventOf(b) = e =>
                         IF Normal[r.unit] \in TimeUnits THEN b.result <= r.result
                         ELSE r.result <= b.result
    BY <2>1, <2>2, BestResultsAre
  <2> QED
    BY <2>3 DEF rows, bests
<1> QED
  BY <1>1, Invariance, PTL

\* The chart has the rows of the history, never falls back to an earlier date,
\* and ends with the head of the latest results if and only if that result is
\* the only one of its date.
THEOREM ChartMeetsLatest == Spec => []EvolutionIsChronological
<1>1. IInv => EvolutionIsChronological
  <2> DEFINE history == view["user"].history
             e == Evolution(history)
             n == Len(history)
  <2>1. /\ User.evolution = e /\ User.total = n
        /\ User.latest = First(history, LatestSize)
    BY DEF User, UserResponse
  <2> SUFFICES ASSUME IInv, Done("user"), n > 0
               PROVE  /\ Range(e) = Range(history)
                      /\ \A i \in 1 .. n - 1 : e[i].date <= e[i + 1].date
                      /\ LET newest == First(history, LatestSize)[1]
                         IN e[n] = newest
                              <=> \A r \in Range(history) : r.date = newest.date => r = newest
    BY <2>1 DEF EvolutionIsChronological
  <2>2. PICK R : Distinct(R) /\ history = Sorted(R, Newest)
    BY UserIsDone
  <2>3. history \in Seq(Rows)
    BY UserIsDone
  <2> HIDE DEF history
  <2>4. \A i, j \in DOMAIN history : i < j => Newest(history[i], history[j])
    BY <2>2, HistoryIs
  <2>5. n \in Nat /\ DOMAIN history = 1 .. n /\ \A i \in 1 .. n : history[i].date \in Nat
    BY <2>3, RowsOf
  <2> HIDE DEF n
  <2>6. /\ DOMAIN e = 1 .. n
        /\ \A k \in 1 .. n : \E i \in 1 .. n : e[k] = history[i]
        /\ \A i \in 1 .. n : \E k \in 1 .. n : e[k] = history[i]
        /\ \A k, l \in 1 .. n : k < l => e[k].date <= e[l].date
    BY <2>5, EvolutionIs
  <2>7. PICK i \in 1 .. n :
          /\ e[n] = history[i]
          /\ \A j \in 1 .. n :
               history[j].date < history[i].date \/ (history[j].date = history[i].date /\ j <= i)
    BY <2>5, EvolutionIs
  <2> HIDE DEF e
  <2>8. Range(e) = Range(history)
    <3>1. \A x : (\E k \in 1 .. n : x = e[k]) <=> (\E m \in 1 .. n : x = history[m])
      BY <2>6
    <3>2. Range(e) = {e[k] : k \in 1 .. n} /\ Range(history) = {history[m] : m \in 1 .. n}
      BY <2>5, <2>6 DEF Range
    <3> QED
      BY <3>1, <3>2
  <2>9. \A m \in 1 .. n - 1 : e[m].date <= e[m + 1].date
    BY <2>5, <2>6
  <2>10. First(history, LatestSize)[1] = history[1]
    BY <2>3, DashboardAssumption, FirstIs DEF n
  <2>11. Range(history) = {history[j] : j \in 1 .. n} /\ 1 \in 1 .. n
    BY <2>5 DEF Range
  <2>12. history[i].date = history[1].date
    <3>1. i = 1 \/ Newest(history[1], history[i])
      BY <2>4, <2>5, <2>11
    <3>2. history[i].date \in Nat /\ history[1].date \in Nat
      BY <2>5, <2>11
    <3> QED
      BY <2>7, <2>11, <3>1, <3>2 DEF Newest
  <2> DEFINE Alone == \A r \in Range(history) : r.date = history[1].date => r = history[1]
  <2>13. ASSUME i = 1 PROVE e[n] = history[1] /\ Alone
    <3>1. ASSUME NEW j \in 1 .. n, history[j].date = history[1].date PROVE history[j] = history[1]
      <4>1. j <= 1
        BY <2>5, <2>7, <2>13, <3>1
      <4> QED
        BY <2>5, <4>1
    <3> QED
      BY <2>7, <2>11, <2>13, <3>1
  <2>14. ASSUME i # 1 PROVE e[n] # history[1] /\ ~Alone
    <3>1. Newest(history[1], history[i]) /\ history[i] \in Range(history)
      BY <2>4, <2>5, <2>11, <2>14
    <3>2. history[i].date \in Nat /\ history[i].id \in Nat
      BY <2>3, <2>5, DashboardAssumption
    <3>3. history[i] # history[1]
      BY <3>1, <3>2 DEF Newest
    <3> QED
      BY <2>7, <2>12, <3>1, <3>3
  <2>15. e[n] = history[1] <=> Alone
    BY <2>13, <2>14
  <2> QED
    BY <2>8, <2>9, <2>10, <2>15
<1> QED
  BY <1>1, Invariance, PTL

\* The figures of a personal dashboard that nobody's commit disturbed.
LEMMA QuietUser ==
  ASSUME IInv, Done("user"), quiet["user"]
  PROVE  /\ SumOver(User.medals) <= SumOf(User.seasons, "medals")
         /\ User.competitions <= User.total
         /\ User.bestRanking = None <=> \A r \in Range(User.evolution) : r.ranking = None
<1> DEFINE v == view["user"]
           history == v["history"]
           R == RowsFor("user")
<1>1. User = UserResponse(v)
  BY DEF User
<1>2. /\ User.medals = MedalCount(v["medals"]) /\ User.seasons = Seasons(history)
      /\ User.competitions = v["competitions"] /\ User.total = Len(history)
      /\ User.bestRanking = v["bestRanking"] /\ User.evolution = Evolution(history)
  BY DEF User, UserResponse
<1>3. \A q \in {"history", "medals", "competitions", "bestRanking"} : v[q] = Answer("user", q)
  BY UserIsDone, ReplyIs DEF IInv, QuietInv, Dashboards
<1>4. Distinct(R) /\ IsFiniteSet(R) /\ Cardinality(R) \in Nat
  BY RowsForIs
<1>5. history = Sorted(R, Newest)
  BY <1>3, Answers
<1>6. v["medals"] = [m \in {r.medal : r \in Medalled(R)} |-> Cardinality({r \in R : r.medal = m})]
  BY <1>3, Answers
<1>7. v["competitions"] = Cardinality(Competitions(R))
  BY <1>3, Answers
<1>8. v["bestRanking"] = IF Ranked(R) = {} THEN None
                         ELSE CHOOSE k \in {r.ranking : r \in Ranked(R)} :
                                \A r \in Ranked(R) : k <= r.ranking
  BY <1>3, Answers
<1>9. history \in Seq(Rows)
  BY UserIsDone
<1> HIDE DEF v, history, R
<1>10. Len(history) = Cardinality(R) /\ Range(history) = R
  BY <1>4, <1>5, HistoryIs
<1>11. /\ Len(history) \in Nat /\ DOMAIN history = 1 .. Len(history)
       /\ \A i \in DOMAIN history : history[i].date \in Nat
       /\ IsFiniteSet(DOMAIN history) /\ Range(history) = {history[i] : i \in DOMAIN history}
  BY <1>9, RowsOf
<1>12. SumOver(User.medals) <= SumOf(User.seasons, "medals")
  <2> DEFINE W == {i \in DOMAIN history : history[i].medal # None}
             f == [i \in W |-> history[i]]
  <2>1. SumOver(MedalCount(v["medals"])) <= Cardinality(Medalled(R))
    BY <1>4, <1>6, MedalCountIs
  <2>2. SumOf(Seasons(history), "medals") = Cardinality(W)
    BY <1>9, SeasonsAre
  <2>3. IsFiniteSet(W)
    BY <1>11, FS_Subset
  <2>4. Medalled(R) = {f[i] : i \in W}
    BY <1>10, <1>11 DEF Medalled
  <2> HIDE DEF W, f
  <2>5. Cardinality(Medalled(R)) <= Cardinality(W)
    BY <2>3, <2>4, FiniteImage
  <2>6. Cardinality(W) \in Nat /\ Cardinality(Medalled(R)) \in Nat
    BY <1>4, <2>3, FS_Subset, FS_CardinalityType DEF Medalled
  <2>7. SumOver(MedalCount(v["medals"])) \in Nat
    BY <1>4, <1>6, MedalCountIs
  <2> QED
    BY <1>2, <2>1, <2>2, <2>5, <2>6, <2>7
<1>13. User.competitions <= User.total
  <2> DEFINE f == [r \in R |-> r.competition]
  <2>1. Competitions(R) = {f[r] : r \in R}
    BY DEF Competitions
  <2> HIDE DEF f
  <2>2. Cardinality(Competitions(R)) <= Cardinality(R)
    BY <1>4, <2>1, FiniteImage
  <2> QED
    BY <1>2, <1>7, <1>10, <2>2
<1>14. User.bestRanking = None <=> \A r \in Range(User.evolution) : r.ranking = None
  <2>1. Range(Evolution(history)) = R
    <3> DEFINE n == Len(history)
    <3>1. n \in Nat /\ DOMAIN history = 1 .. n /\ \A i \in 1 .. n : history[i].date \in Nat
      BY <1>11
    <3> HIDE DEF n
    <3>2. /\ DOMAIN Evolution(history) = 1 .. n
          /\ \A k \in 1 .. n : \E i \in 1 .. n : Evolution(history)[k] = history[i]
          /\ \A i \in 1 .. n : \E k \in 1 .. n : Evolution(history)[k] = history[i]
      BY <3>1, EvolutionIs
    <3>3. \A x : (\E k \in 1 .. n : x = Evolution(history)[k]) <=> (\E i \in 1 .. n : x = history[i])
      BY <3>2
    <3>4. /\ Range(Evolution(history)) = {Evolution(history)[k] : k \in 1 .. n}
          /\ Range(history) = {history[i] : i \in 1 .. n}
      BY <3>1, <3>2 DEF Range
    <3> DEFINE e == Evolution(history)
    <3>5. \A x : x \in Range(e) <=> x \in Range(history)
      BY <3>3, <3>4
    <3> HIDE DEF e
    <3>6. Range(e) = Range(history)
      BY <3>5
    <3> QED
      BY <1>10, <3>6 DEF e
  <2>2. CASE Ranked(R) = {}
    <3>1. \A r \in R : r.ranking = None
      BY <2>2 DEF Ranked
    <3> QED
      BY <1>2, <1>8, <2>1, <2>2, <3>1
  <2>3. CASE Ranked(R) # {}
    <3> DEFINE T == Ranked(R)
               f == [r \in T |-> r.ranking]
               P == {f[r] : r \in T}
               best == CHOOSE k \in {r.ranking : r \in T} : \A r \in T : k <= r.ranking
    <3>1. T \in SUBSET R /\ T # {} /\ IsFiniteSet(T)
      BY <1>4, <2>3, FS_Subset DEF Ranked
    <3>2. \A r \in T : r.ranking \in Nat /\ r.ranking # None
      BY <1>4, DashboardAssumption DEF Ranked, Distinct
    <3>3. IsFiniteSet(P) /\ P # {} /\ P \subseteq Nat
      <4>1. P # {} /\ P \subseteq Nat
        BY <3>1, <3>2
      <4>2. IsFiniteSet(P)
        <5> HIDE DEF f, T
        <5> QED
          BY <3>1, FiniteImage
      <4> QED
        BY <4>1, <4>2
    <3>4. \A r \in T : r.ranking \in P
      OBVIOUS
    <3>5. P = {r.ranking : r \in T}
      OBVIOUS
    <3> HIDE DEF P, T
    <3>6. PICK k \in P : \A l \in P : k <= l
      BY <3>3, LeastNumber
    <3>7. best \in {r.ranking : r \in T}
      BY <3>4, <3>5, <3>6
    <3>8. best # None
      BY <3>2, <3>7
    <3>9. User.bestRanking = best
      BY <1>2, <1>8, <2>3 DEF T
    <3>10. ~ \A r \in R : r.ranking = None
      BY <3>1, <3>2
    <3> HIDE DEF best
    <3> QED
      BY <1>2, <2>1, <3>8, <3>9, <3>10
  <2> QED
    BY <2>2, <2>3
<1> QED
  BY <1>12, <1>13, <1>14

\* One record for each discipline, with the figures of its group.
LEMMA DisciplinesSum ==
  ASSUME NEW v, NEW R, IsFiniteSet(R), v.byDiscipline = Grouped(R, "discipline"),
         NEW column \in {"performances", "medals"}
  PROVE  SumOf(AdminResponse(v).byDiscipline, column) = SumOf(Grouped(R, "discipline"), column)
<1> DEFINE G == Grouped(R, "discipline")
           rec(g) == [discipline |-> g.key, athletes |-> AthletesIn(v, g.key),
                      performances |-> g.performances, medals |-> g.medals]
           f == [g \in G |-> rec(g)]
           u == [g \in G |-> g[column]]
<1>1. AdminResponse(v).byDiscipline = {f[g] : g \in G}
  <2>1. AdminResponse(v).byDiscipline = {rec(g) : g \in G}
    BY DEF AdminResponse
  <2> HIDE DEF rec, G
  <2> QED
    BY <2>1
<1>2. /\ IsFiniteSet(G) /\ \A g, h \in G : g.key = h.key => g = h
      /\ \A g \in G : g[column] \in Nat
  BY GroupedIs DEF Columns
<1>3. \A g : rec(g).discipline = g.key /\ rec(g)[column] = g[column]
  OBVIOUS
<1>4. \A g \in G : f[g] = rec(g) /\ u[g] = g[column]
  OBVIOUS
<1> HIDE DEF G, rec, f
<1>5. SumOf(G, column) = Total(u, G)
  BY <1>2, SumOfIsTotal
<1> HIDE DEF u
<1>6. \A g, h \in G : f[g] = f[h] => g = h
  BY <1>2, <1>3, <1>4
<1>7. Numbers(u, G)
  BY <1>2, <1>4 DEF Numbers
<1>8. IsFiniteSet(G)
  BY <1>2
<1>9. \A g \in G : f[g][column] = u[g]
  BY <1>3, <1>4
<1>10. SumOf({f[g] : g \in G}, column) = Total(u, G)
  BY <1>6, <1>7, <1>8, <1>9, SumByKey
<1> QED
  BY <1>1, <1>5, <1>10 DEF G

\* The figures of an administrator's dashboard that nobody's commit disturbed.
LEMMA QuietAdmin ==
  ASSUME IInv, Done("admin"), quiet["admin"]
  PROVE  /\ Admin.active <= Admin.athletes
         /\ SumOf(Admin.byDiscipline, "performances") = Admin.total
         /\ SumOf(Admin.seasons, "performances") = Admin.total
         /\ SumOf(Admin.seasons, "medals") = SumOf(Admin.byDiscipline, "medals")
         /\ SumOver(Admin.medals) <= SumOf(Admin.byDiscipline, "medals")
         /\ Admin.competitions <= SumOf(Admin.seasons, "competitions")
         /\ Len(Admin.latest) = (IF Admin.total < LatestSize THEN Admin.total ELSE LatestSize)
<1> DEFINE v == view["admin"]
           R == RowsFor("admin")
           D == Grouped(R, "discipline")
           P == Grouped(R, "date")
<1>1. /\ Admin.active = v["active"] /\ Admin.athletes = v["athletes"]
      /\ Admin.total = v["total"] /\ Admin.competitions = v["competitions"]
      /\ Admin.medals = MedalCount(v["medals"]) /\ Admin.latest = v["latest"]
      /\ Admin.seasons = SeasonsFromPeriods(v["byMonth"])
  BY DEF Admin, AdminResponse
<1>2. Admin.byDiscipline = AdminResponse(v).byDiscipline
  BY DEF Admin
<1>3. \A q \in {"athletes", "active", "total", "competitions", "medals", "byDiscipline",
                "byMonth", "latest"} : v[q] = Answer("admin", q)
  BY AdminIsDone, ReplyIs DEF IInv, QuietInv, Dashboards
<1>4. Distinct(R) /\ IsFiniteSet(R) /\ Cardinality(R) \in Nat
  BY RowsForIs
<1>5. v["byDiscipline"] = D /\ v["byMonth"] = P /\ v["total"] = Cardinality(R)
  BY <1>3, Answers
<1>6. v["medals"] = [m \in {r.medal : r \in Medalled(R)} |-> Cardinality({r \in R : r.medal = m})]
  BY <1>3, Answers
<1>7. v["competitions"] = Cardinality(Competitions(R))
  BY <1>3, Answers
<1>8. v["latest"] = First(Sorted(R, Newest), LatestSize)
  BY <1>3, Answers
<1>9. v["active"] = Cardinality({a \in athletes : a.id \in active})
      /\ v["athletes"] = Cardinality(athletes)
  BY <1>3, Answers
<1>10. IsFiniteSet(athletes)
  BY DashboardAssumption, FS_Subset DEF IInv, TableInv
<1> HIDE DEF v, R
<1>11. Admin.active <= Admin.athletes
  <2>1. {a \in athletes : a.id \in active} \in SUBSET athletes
    OBVIOUS
  <2>2. Cardinality({a \in athletes : a.id \in active}) <= Cardinality(athletes)
    BY <1>10, <2>1, FS_Subset
  <2> QED
    BY <1>1, <1>9, <2>2
<1>12. /\ SumOf(D, "performances") = Cardinality(R)
       /\ SumOf(D, "medals") = Cardinality(Medalled(R))
  BY <1>4, GroupedIs
<1>13. /\ SumOf(P, "performances") = Cardinality(R)
       /\ SumOf(P, "medals") = Cardinality(Medalled(R))
       /\ Cardinality(Competitions(R)) <= SumOf(P, "competitions")
       /\ IsFiniteSet(P) /\ \A g \in P, c \in Columns : g[c] \in Nat
  BY <1>4, GroupedIs
<1>14. \A c \in {"performances", "medals"} : SumOf(Admin.byDiscipline, c) = SumOf(D, c)
  BY <1>2, <1>4, <1>5, DisciplinesSum
<1> HIDE DEF D, P
<1>15. \A c \in Columns : SumOf(Admin.seasons, c) = SumOf(P, c)
  BY <1>1, <1>5, <1>13, SeasonsSum
<1>16. SumOver(Admin.medals) <= Cardinality(Medalled(R))
  BY <1>1, <1>4, <1>6, MedalCountIs
<1>17. Len(Admin.latest) = (IF Admin.total < LatestSize THEN Admin.total ELSE LatestSize)
  <2>1. Sorted(R, Newest) \in Seq(R) /\ Len(Sorted(R, Newest)) = Cardinality(R)
    BY <1>4, HistoryIs
  <2>2. Len(First(Sorted(R, Newest), LatestSize)) =
          IF Cardinality(R) < LatestSize THEN Cardinality(R) ELSE LatestSize
    <3> DEFINE s == Sorted(R, Newest)
    <3> HIDE DEF s
    <3>1. s \in Seq(R) /\ Len(s) = Cardinality(R)
      BY <2>1 DEF s
    <3>2. Len(First(s, LatestSize)) = IF Cardinality(R) < LatestSize THEN Cardinality(R) ELSE LatestSize
      BY <3>1, DashboardAssumption, FirstIs
    <3> QED
      BY <3>2 DEF s
  <2> QED
    BY <1>1, <1>5, <1>8, <2>2
<1>18. /\ SumOf(Admin.seasons, "performances") = SumOf(P, "performances")
       /\ SumOf(Admin.seasons, "medals") = SumOf(P, "medals")
       /\ SumOf(Admin.seasons, "competitions") = SumOf(P, "competitions")
  BY <1>15 DEF Columns
<1>19. /\ SumOf(Admin.byDiscipline, "performances") = SumOf(D, "performances")
       /\ SumOf(Admin.byDiscipline, "medals") = SumOf(D, "medals")
  BY <1>14
<1> QED
  BY <1>1, <1>5, <1>7, <1>11, <1>12, <1>13, <1>16, <1>17, <1>18, <1>19

\* When nobody commits between its queries, the figures of a dashboard add up.
THEOREM QuietDashboardsAddUp == Spec => []QuietFiguresAgree
<1>1. IInv => QuietFiguresAgree
  BY QuietUser, QuietAdmin DEF QuietFiguresAgree
<1> QED
  BY <1>1, Invariance, PTL
=============================================================================
