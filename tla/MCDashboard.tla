---------------------------- MODULE MCDashboard ----------------------------
(* Instances of Dashboard for TLC. *)
EXTENDS Dashboard

CONSTANTS ann, bob, run, jump, sprint, long, cupA, cupB, club

TheAthletes == {[id |-> ann, discipline |-> run, club |-> club],
                [id |-> bob, discipline |-> jump, club |-> None]}

Result(id, who, competition, date, discipline, event, result, unit, ranking, medal) ==
  [id |-> id, athlete |-> who, competition |-> competition, date |-> date,
   discipline |-> discipline, event |-> event, result |-> result, unit |-> unit,
   ranking |-> ranking, medal |-> medal]

Units == [u \in {"s", "S", "m"} |-> IF u = "S" THEN "s" ELSE u]

\* August, September and October 2024: two seasons, competitions that span two
\* months, times and distances, a unit in capitals, ties of dates (3 and 4) and of
\* rankings and dates (2 and 5), a medal with another label, and the amended
\* version of result 2.
August == 12 * 2024 + 7
TheRows ==
  {Result(1, ann, cupA, August, run, sprint, 12, "s", 1, "gold"),
   Result(2, ann, cupB, August + 1, run, sprint, 11, "S", 2, "silver"),
   Result(3, ann, cupB, August + 2, run, sprint, 12, "s", 2, None),
   Result(4, ann, cupB, August + 2, jump, long, 5, "m", 3, None),
   Result(5, bob, cupA, August + 1, jump, long, 6, "m", 2, "diploma"),
   Result(2, ann, cupB, August, run, sprint, 13, "s", None, "bronze")}

\* Ties in the order of insertion, or the other way round.
TheHeaps == {[r \in TheRows |-> 100 * r.id + r.result],
             [r \in TheRows |-> 1000 - (100 * r.id + r.result)]}
=============================================================================
