------------------------------ MODULE Listing ------------------------------
(***************************************************************************)
(* The lists of the API cut into pages (common/pagination.py): athletes,   *)
(* results, accounts, roles and the two logs.  A client asks for the first *)
(* page and follows the `next` links.  A page is two statements: a COUNT,  *)
(* then the SELECT with its limit and offset.  Each sees what is committed *)
(* when it starts, so that commits fall between two pages, and between the *)
(* two statements of one page.                                             *)
(*                                                                         *)
(* A row is an id and its place, the value its list is ordered by.  A row  *)
(* that is not there, and one that the filters of the request leave out,   *)
(* have no place.                                                          *)
(***************************************************************************)
EXTENDS Naturals, FiniteSets

CONSTANTS
  Ids,          \* the rows there are or may come to be
  Keys,         \* names in alphabetical order, dates, or points in time
  None,         \* no place
  Lists,        \* the lists to be walked through
  Sizes,        \* the sizes of a page to be asked for
  MaxCommits    \* bound: commits during the walk

ListNames == {"athletes", "results", "users", "roles", "loginLogs", "operaLogs"}

ASSUME ListingAssumption ==
  /\ Ids \subseteq Nat /\ IsFiniteSet(Ids)
  /\ Keys \subseteq Nat /\ None \notin Nat
  /\ Lists \subseteq ListNames
  /\ Sizes \subseteq 1 .. 100
  /\ MaxCommits \in Nat

VARIABLES
  list, size,   \* the list and the size of its pages
  place,        \* place[i]: where row i belongs in the list, or None
  pc,           \* the statement of the request under way, or its answer
  page,         \* the page asked for
  total,        \* what COUNT has returned
  items,        \* the rows of the page
  times,        \* history: how often each row has been shown, 2 for more
  stayed,       \* history: the rows that have kept their place since the start
  left,         \* history: a row has lost its place
  entered,      \* history: a row has been given a place
  torn,         \* history: a commit fell between COUNT and SELECT of the last page
  tied,         \* history: a SELECT met rows that its ORDER BY does not tell apart
  commits

request == <<list, size, page>>
table == <<place, stayed, left, entered, commits>>
vars == <<list, size, place, pc, page, total, items, times, stayed, left, entered, torn, tied,
          commits>>

Listed == {i \in Ids : place[i] # None}

\* The first answer is to what the table holds at the first COUNT: the walk
\* begins there.
Init ==
  /\ list \in Lists /\ size \in Sizes
  /\ place \in [Ids -> Keys \cup {None}]
  /\ pc = "count" /\ page = 1 /\ total = 0 /\ items = {}
  /\ times = [i \in Ids |-> 0]
  /\ stayed = Listed
  /\ left = FALSE /\ entered = FALSE /\ torn = FALSE /\ tied = FALSE
  /\ commits = 0

-----------------------------------------------------------------------------
(* Orders *)

\* Mutant: results ordered by the date of the competition only.
BeforeByDate(i, j) ==
  IF list = "athletes" THEN place[i] < place[j] ELSE place[i] > place[j]

\* ORDER BY: athletes by last and first name, results newest first and then by
\* descending id, the others by a timestamp, newest first.
Before(i, j) ==
  CASE list = "athletes" -> place[i] < place[j]
    [] list = "results" -> place[i] > place[j] \/ (place[i] = place[j] /\ i > j)
    [] OTHER -> place[i] > place[j]

\* The lists whose ORDER BY ends with a unique column.
TieBroken == {"results"}

\* Rows of one name, or of one timestamp: the demo seeder writes all its
\* accounts in one transaction, hence with one join_time (current_timestamp).
Tie == list \notin TieBroken /\ \E i, j \in Listed : i # j /\ place[i] = place[j]

\* The orders in which the heap, or a plan, may present rows to the sort.
Heaps == {h \in [Ids -> 1 .. Cardinality(Ids)] : \A i, j \in Ids : h[i] = h[j] => i = j}

\* The rows that a SELECT over heap h puts before row i.
Ahead(h, i) == {j \in Listed : Before(j, i) \/ (~Before(i, j) /\ h[j] < h[i])}

-----------------------------------------------------------------------------
(* Pages *)

\* Mutant: one row more, read to learn whether there is a next page, is shown.
WindowOneMore(h) ==
  {i \in Listed : /\ size * (page - 1) <= Cardinality(Ahead(h, i))
                  /\ Cardinality(Ahead(h, i)) <= size * (page - 1) + size}

\* LIMIT size OFFSET size * (page - 1).
Window(h) ==
  {i \in Listed : /\ size * (page - 1) <= Cardinality(Ahead(h, i))
                  /\ Cardinality(Ahead(h, i)) < size * (page - 1) + size}

\* Mutant: the last, incomplete page is not counted.
FullPages(n) == n \div size

\* math.ceil(total / size)
TotalPages(n) == (n + size - 1) \div size

\* Mutant: next and prev are exchanged, without a test for the first page.
LinksExchanged ==
  [first |-> 1,
   last |-> IF total > 0 THEN TotalPages(total) ELSE None,
   next |-> page - 1,
   prev |-> IF page + 1 <= TotalPages(total) THEN page + 1 ELSE None]

\* Mutant: the page after the last one is the first.
LinksAround ==
  [first |-> 1,
   last |-> IF total > 0 THEN TotalPages(total) ELSE None,
   next |-> IF page + 1 <= TotalPages(total) THEN page + 1 ELSE 1,
   prev |-> IF page - 1 >= 1 THEN page - 1 ELSE None]

\* The links of an answer, the number of a page or None.
Links ==
  [first |-> 1,
   last |-> IF total > 0 THEN TotalPages(total) ELSE None,
   next |-> IF page + 1 <= TotalPages(total) THEN page + 1 ELSE None,
   prev |-> IF page - 1 >= 1 THEN page - 1 ELSE None]

\* Mutant: COUNT is made for the table, not for what the filters leave of it.
CountAll ==
  /\ pc = "count"
  /\ pc' = "fetch"
  /\ total' = Cardinality(Ids)
  /\ torn' = FALSE
  /\ UNCHANGED <<request, table, items, times, tied>>

\* SELECT count(*) over the filtered rows.
Count ==
  /\ pc = "count"
  /\ pc' = "fetch"
  /\ total' = Cardinality(Listed)
  /\ torn' = FALSE
  /\ UNCHANGED <<request, table, items, times, tied>>

\* SELECT of the page, and the answer.
Fetch ==
  /\ pc = "fetch"
  /\ pc' = "answered"
  /\ \E h \in Heaps :
       /\ items' = Window(h)
       /\ times' = [i \in Ids |->
            IF i \in Window(h) /\ times[i] < 2 THEN times[i] + 1 ELSE times[i]]
  /\ tied' = (tied \/ Tie)
  /\ UNCHANGED <<request, table, total, torn>>

\* The client follows `next`; an answer without one ends its walk.
Follow ==
  /\ pc = "answered"
  /\ IF Links.next # None
     THEN pc' = "count" /\ page' = Links.next /\ items' = {}
     ELSE pc' = "done" /\ UNCHANGED <<page, items>>
  /\ UNCHANGED <<list, size, table, total, times, torn, tied>>

\* A filter by a column that the table lacks fails before any statement is sent:
\* Role has no data_scope, and no log has a username.
BadRoleFilter == list = "roles"
BadLoginLogFilter == list = "loginLogs"
BadOperaLogFilter == list = "operaLogs"

BadFilter ==
  /\ pc = "count" /\ page = 1
  /\ BadRoleFilter \/ BadLoginLogFilter \/ BadOperaLogFilter
  /\ pc' = "failed"
  /\ UNCHANGED <<request, table, total, items, times, torn, tied>>

\* A statement fails, and its session is rolled back: a 500, and no more links.
Fail ==
  /\ pc \in {"count", "fetch"}
  /\ pc' = "failed"
  /\ UNCHANGED <<request, table, total, items, times, torn, tied>>

-----------------------------------------------------------------------------
(* Commits of others while the walk is under way *)

\* Nothing takes a row out of a log: the routes that would end in a 500
\* (RbacVerify of Pipeline).
Removes == ListNames \ {"loginLogs", "operaLogs"}

\* A name or a date can be edited, a timestamp cannot.
Moves == {"athletes", "results"}

Commit(i, to) ==
  /\ pc \in {"fetch", "answered"} \/ (pc = "count" /\ page > 1)
  /\ commits < MaxCommits
  /\ to # place[i]
  /\ place' = [place EXCEPT ![i] = to]
  /\ stayed' = stayed \ {i}
  /\ left' = (left \/ place[i] # None)
  /\ entered' = (entered \/ to # None)
  /\ torn' = (torn \/ pc = "fetch")
  /\ commits' = commits + 1
  /\ UNCHANGED <<request, pc, total, items, times, tied>>

\* A row is inserted, or comes to match the filters (an account enabled again).
\* Timestamps are those of a transaction's start: the newest row to be committed
\* need not come first.
Enter(i) == place[i] = None /\ \E to \in Keys : Commit(i, to)

\* A row is deleted, or ceases to match.
Leave(i) == place[i] # None /\ list \in Removes /\ Commit(i, None)

\* A row changes its name or its date.
Move(i) == place[i] # None /\ list \in Moves /\ \E to \in Keys : Commit(i, to)

-----------------------------------------------------------------------------
Request == Count \/ Fetch \/ BadFilter \/ Fail

Writer == \E i \in Ids : Enter(i) \/ Leave(i) \/ Move(i)

Next == Request \/ Follow \/ Writer

Spec == Init /\ [][Next]_vars

\* A statement ends, and the client goes on.
FairSpec == Spec /\ WF_vars(Request) /\ WF_vars(Follow)

-----------------------------------------------------------------------------
(* Properties *)

\* Every variable keeps its type.
TypeOK ==
  /\ list \in Lists /\ size \in Sizes
  /\ place \in [Ids -> Keys \cup {None}]
  /\ pc \in {"count", "fetch", "answered", "done", "failed"}
  /\ page \in Nat \ {0} /\ total \in Nat
  /\ items \subseteq Ids
  /\ times \in [Ids -> 0 .. 2]
  /\ stayed \subseteq Listed
  /\ {left, entered, torn, tied} \subseteq BOOLEAN
  /\ commits \in 0 .. MaxCommits

\* A row that was in the list when the walk began, and is in its place when it
\* ends, has been shown, whatever was added meanwhile: unless a row before it
\* left (then the rows behind move up, over the edge of a page that has been
\* shown), a commit fell between the two statements of the last page, or the
\* ORDER BY does not tell rows apart.  No row leaves the logs: a walk through one
\* misses an entry only by a login during its last page, or a tie of timestamps.
MissedForAReason ==
  pc = "done" /\ ~left /\ ~torn /\ ~tied => \A i \in stayed : times[i] > 0

\* A row is shown twice only when one has come in before it, or the ORDER BY
\* does not tell rows apart: whatever leaves the list, the pages do not overlap.
RepeatedForAReason ==
  ~entered /\ ~tied => \A i \in Ids : times[i] <= 1

\* A page holds what its total and its number promise, unless a commit fell
\* between the two: full pages while there is a `next`, the rest on the last
\* one, nothing behind it.  In an answer that is not torn, a tie is no excuse.
PageAgreesWithTotal ==
  pc \in {"answered", "done"} /\ ~torn =>
    Cardinality(items) = CASE size * page <= total -> size
                           [] total <= size * (page - 1) -> 0
                           [] OTHER -> total - size * (page - 1)

\* A walk ends on the page its own `last` link names, or on the first page of
\* an empty list, as long as no row has left: no page is asked for in vain.
EndsOnLastPage ==
  pc = "done" /\ ~left => page = (IF total > 0 THEN Links.last ELSE 1)

\* Following `next` comes to an end, as the commits do.
WalkEnds == <>(pc \in {"done", "failed"})

=============================================================================
