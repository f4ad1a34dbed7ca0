--------------------------- MODULE ListingProofs ---------------------------
(***************************************************************************)
(* Theorems about Listing, for any lists, any number of rows, keys and     *)
(* commits, and pages of any size.                                         *)
(***************************************************************************)
EXTENDS Listing, FiniteTheorems

-----------------------------------------------------------------------------
(* The inductive invariant                                                 *)

\* The rows that the ORDER BY puts before row i, whatever the heap.
Preceding(i) == {j \in Listed : Before(j, i)}
Position(i) == Cardinality(Preceding(i))

\* The pages that have been shown.
Shown == IF pc \in {"answered", "done"} THEN page ELSE page - 1

\* What COUNT has returned is still so until a commit tears the page.
TotalInv == pc = "fetch" /\ ~torn => total = Cardinality(Listed)

\* While nothing leaves, the list does not get shorter than what was counted, and
\* there are rows for the page that was asked for.
LengthInv ==
  ~left =>
    /\ pc \in {"fetch", "answered"} => total <= Cardinality(Listed)
    /\ pc = "count" /\ page > 1 => size * (page - 1) < Cardinality(Listed)
    /\ pc \in {"fetch", "answered", "done"} /\ page > 1 => size * (page - 1) < total

\* While nothing leaves, a row that has kept its place and has not been shown is
\* behind the pages that have been; there is none behind a last page.
MissedInv ==
  ~left /\ ~tied =>
    /\ \A i \in stayed : times[i] > 0 \/ size * Shown <= Position(i)
    /\ pc \in {"answered", "done"} /\ ~torn /\ total <= size * page =>
         \A i \in stayed : times[i] > 0

\* While nothing comes in, a row that has been shown is on a page that has been.
RepeatedInv ==
  ~entered /\ ~tied =>
    \A i \in Ids : /\ times[i] <= 1
                   /\ times[i] = 1 /\ i \in Listed => Position(i) < size * Shown

\* A walk is over when its page is the last one there is.
DoneInv == pc = "done" => total <= size * page

IInv == TypeOK /\ TotalInv /\ LengthInv /\ MissedInv /\ RepeatedInv /\ DoneInv

-----------------------------------------------------------------------------
(* Arithmetic of pages                                                     *)

\* What \div returns, in terms of products.
LEMMA Quotient ==
  ASSUME NEW n \in Nat, NEW s \in Nat \ {0}
  PROVE  /\ n \div s \in Nat
         /\ s * (n \div s) <= n /\ n < s * (n \div s) + s
  OBVIOUS

\* Products grow with their factors.
LEMMA Product ==
  ASSUME NEW s \in Nat \ {0}, NEW p \in Nat, NEW q \in Nat
  PROVE  /\ s * p \in Nat
         /\ p <= q => s * p <= s * q
         /\ s * (p + 1) = s * p + s
         /\ p + 1 <= q => s * p + s <= s * q
<1>1. s * p \in Nat
  OBVIOUS
<1>2. s * (p + 1) = s * p + s
  OBVIOUS
<1>3. \A d \in Nat : q = p + d => s * q = s * p + s * d /\ s * d \in Nat
  OBVIOUS
<1>4. p <= q => s * p <= s * q
  <2> SUFFICES ASSUME p <= q PROVE s * p <= s * q
    OBVIOUS
  <2>1. q - p \in Nat /\ q = p + (q - p)
    OBVIOUS
  <2>2. s * q = s * p + s * (q - p) /\ s * (q - p) \in Nat
    BY <1>3, <2>1
  <2> QED
    BY <1>1, <2>2
<1>5. p + 1 <= q => s * p + s <= s * q
  <2> SUFFICES ASSUME p + 1 <= q PROVE s * p + s <= s * q
    OBVIOUS
  <2>1. q - (p + 1) \in Nat /\ q = (p + 1) + (q - (p + 1))
    OBVIOUS
  <2>2. \A d \in Nat : q = (p + 1) + d => s * q = s * (p + 1) + s * d /\ s * d \in Nat
    OBVIOUS
  <2>3. s * q = s * (p + 1) + s * (q - (p + 1)) /\ s * (q - (p + 1)) \in Nat
    BY <2>1, <2>2
  <2> QED
    BY <1>1, <1>2, <2>3
<1> QED
  BY <1>1, <1>2, <1>4, <1>5

\* There is a page after page p when the pages up to p leave rows.
LEMMA NextPage ==
  ASSUME NEW n \in Nat, NEW s \in Nat \ {0}, NEW p \in Nat
  PROVE  p + 1 <= (n + s - 1) \div s <=> s * p < n
<1> DEFINE q == (n + s - 1) \div s
<1>1. n + s - 1 \in Nat
  OBVIOUS
<1>2. q \in Nat /\ s * q <= n + s - 1 /\ n + s - 1 < s * q + s
  BY <1>1, Quotient
<1> HIDE DEF q
<1>3. s * p \in Nat /\ s * q \in Nat
  BY <1>2, Product
<1>4. ASSUME p + 1 <= q PROVE s * p < n
  <2>1. s * p + s <= s * q
    BY <1>2, <1>4, Product
  <2> QED
    BY <1>2, <1>3, <2>1
<1>5. ASSUME ~(p + 1 <= q) PROVE ~(s * p < n)
  <2>1. q <= p
    BY <1>2, <1>5
  <2>2. s * q <= s * p
    BY <1>2, <2>1, Product
  <2> QED
    BY <1>2, <1>3, <2>2
<1> QED
  BY <1>4, <1>5 DEF q

-----------------------------------------------------------------------------
(* Positions                                                               *)

\* What the assumptions say of the types of the variables.
LEMMA Types ==
  ASSUME TypeOK
  PROVE  /\ size \in Nat \ {0} /\ page \in Nat \ {0} /\ total \in Nat
         /\ list \in ListNames
         /\ \A i \in Listed : i \in Nat /\ i \in Ids /\ place[i] \in Nat
         /\ IsFiniteSet(Listed) /\ Cardinality(Listed) \in Nat
<1>1. Listed \in SUBSET Ids /\ IsFiniteSet(Ids)
  BY ListingAssumption DEF Listed
<1>2. IsFiniteSet(Listed)
  BY <1>1, FS_Subset
<1>3. Cardinality(Listed) \in Nat
  BY <1>2, FS_CardinalityType
<1>4. \A i \in Listed : i \in Nat /\ i \in Ids /\ place[i] \in Nat
  BY ListingAssumption DEF Listed, TypeOK
<1>5. size \in Nat \ {0} /\ list \in ListNames
  BY ListingAssumption DEF TypeOK
<1> QED
  BY <1>2, <1>3, <1>4, <1>5 DEF TypeOK

\* A position is a number.
LEMMA PositionType ==
  ASSUME TypeOK, NEW i
  PROVE  IsFiniteSet(Preceding(i)) /\ Position(i) \in Nat
<1>1. Preceding(i) \in SUBSET Listed
  BY DEF Preceding
<1> QED
  BY <1>1, Types, FS_Subset, FS_CardinalityType DEF Position

\* Nothing comes before itself, so that the position of a row is less than the
\* length of the list.
LEMMA PositionBound ==
  ASSUME TypeOK, NEW i \in Listed
  PROVE  Position(i) < Cardinality(Listed)
<1>1. ~Before(i, i)
  BY Types DEF Before, ListNames
<1>2. Preceding(i) \in SUBSET Listed /\ i \notin Preceding(i)
  BY <1>1 DEF Preceding
<1>3. /\ Position(i) <= Cardinality(Listed)
      /\ Position(i) = Cardinality(Listed) => Preceding(i) = Listed
  BY <1>2, Types, FS_Subset DEF Position
<1>4. Position(i) # Cardinality(Listed)
  BY <1>2, <1>3
<1>5. Position(i) \in Nat /\ Cardinality(Listed) \in Nat
  BY PositionType, Types
<1> QED
  BY <1>3, <1>4, <1>5

\* Without a tie the heap makes no difference.
LEMMA NoTieAhead ==
  ASSUME TypeOK, ~Tie, NEW h \in Heaps, NEW i \in Listed
  PROVE  Ahead(h, i) = Preceding(i)
<1>1. ASSUME NEW j \in Listed, j # i PROVE Before(i, j) \/ Before(j, i)
  <2>1. CASE list \in TieBroken
    BY <1>1, <2>1, Types DEF Before, TieBroken
  <2>2. CASE list \notin TieBroken
    <3>1. place[i] # place[j]
      BY <1>1, <2>2 DEF Tie
    <3> QED
      BY <1>1, <2>2, <3>1, Types DEF Before, TieBroken, ListNames
  <2> QED
    BY <2>1, <2>2
<1>2. ASSUME NEW j \in Listed, Before(j, i) PROVE ~Before(i, j)
  BY <1>2, Types DEF Before, ListNames
<1>3. ~(h[i] < h[i])
  <2>1. h[i] \in Nat
    BY Types DEF Heaps
  <2> QED
    BY <2>1
<1> QED
  BY <1>1, <1>2, <1>3 DEF Ahead, Preceding

\* Without a tie a page shows the rows whose positions are on it.
LEMMA WindowIsPositions ==
  ASSUME TypeOK, ~Tie, NEW h \in Heaps, NEW i \in Ids
  PROVE  i \in Window(h) <=>
           i \in Listed /\ size * (page - 1) <= Position(i) /\ Position(i) < size * page
<1>1. size * page = size * (page - 1) + size
  <2>1. page - 1 \in Nat /\ page = (page - 1) + 1
    BY Types
  <2> QED
    BY <2>1, Types, Product
<1>2. ASSUME i \in Listed PROVE Cardinality(Ahead(h, i)) = Position(i)
  BY <1>2, NoTieAhead DEF Position
<1> QED
  BY <1>1, <1>2 DEF Window

\* When a row leaves, the others keep their positions or move up; when one comes
\* in, they keep them or move down.
LEMMA LeaveMovesUp ==
  ASSUME TypeOK, TypeOK', list' = list, NEW i \in Ids, place' = [place EXCEPT ![i] = None],
         NEW j \in Listed'
  PROVE  j \in Listed /\ Position(j)' <= Position(j)
<1>1. Listed' = Listed \ {i}
  BY DEF TypeOK, Listed
<1>2. \A k \in Listed' : place'[k] = place[k]
  BY <1>1 DEF TypeOK, Listed
<1>3. Preceding(j)' \in SUBSET Preceding(j)
  BY <1>1, <1>2 DEF Preceding, Before
<1> QED
  BY <1>1, <1>3, PositionType, FS_Subset DEF Position

LEMMA EnterMovesDown ==
  ASSUME TypeOK, TypeOK', list' = list, NEW i \in Ids, NEW to \in Keys, place[i] = None,
         place' = [place EXCEPT ![i] = to], NEW j \in Listed
  PROVE  j \in Listed' /\ Position(j) <= Position(j)'
<1>1. Listed \subseteq Listed'
  BY ListingAssumption DEF TypeOK, Listed
<1>2. \A k \in Listed : place'[k] = place[k]
  BY DEF TypeOK, Listed
<1>3. Preceding(j) \in SUBSET Preceding(j)'
  BY <1>1, <1>2 DEF Preceding, Before
<1>4. IsFiniteSet(Preceding(j)')
  <2>1. Preceding(j)' \in SUBSET Ids /\ IsFiniteSet(Ids)
    BY ListingAssumption DEF Preceding, Listed
  <2> QED
    BY <2>1, FS_Subset
<1> QED
  BY <1>1, <1>3, <1>4, FS_Subset DEF Position

\* And the list gets longer.
LEMMA EnterLengthens ==
  ASSUME TypeOK, TypeOK', NEW i \in Ids, NEW to \in Keys, place[i] = None,
         place' = [place EXCEPT ![i] = to]
  PROVE  Cardinality(Listed) <= Cardinality(Listed')
<1>1. Listed \in SUBSET (Listed')
  BY ListingAssumption DEF TypeOK, Listed
<1>2. IsFiniteSet(Listed')
  <2>1. Listed' \in SUBSET Ids /\ IsFiniteSet(Ids)
    BY ListingAssumption DEF Listed
  <2> QED
    BY <2>1, FS_Subset
<1> QED
  BY <1>1, <1>2, FS_Subset

-----------------------------------------------------------------------------
(* Steps                                                                   *)

\* The number behind the `next` link, in terms of rows.
LEMMA NextLink ==
  ASSUME TypeOK
  PROVE  /\ Links.next # None <=> size * page < total
         /\ Links.next # None => Links.next = page + 1
<1>1. size \in Nat \ {0} /\ page \in Nat \ {0} /\ total \in Nat
  BY Types
<1>2. page + 1 <= TotalPages(total) <=> size * page < total
  BY <1>1, NextPage DEF TotalPages
<1>3. page + 1 # None
  BY <1>1, ListingAssumption
<1>4. Links.next = IF page + 1 <= TotalPages(total) THEN page + 1 ELSE None
  BY DEF Links
<1> HIDE DEF Links
<1> QED
  BY <1>2, <1>3, <1>4

\* The ways the next page, or the end, is reached.
LEMMA FollowCases ==
  ASSUME TypeOK, Follow
  PROVE  /\ pc = "answered"
         /\ UNCHANGED <<list, size, table, total, times, torn, tied>>
         /\ \/ pc' = "count" /\ page' = page + 1 /\ items' = {} /\ size * page < total
            \/ pc' = "done" /\ UNCHANGED <<page, items>> /\ total <= size * page
<1>1. size * page \in Nat /\ total \in Nat
  BY Types, Product
<1> QED
  BY <1>1, NextLink DEF Follow

\* The three commits of others, and what they leave alone.
LEMMA WriterCases ==
  ASSUME TypeOK, Writer
  PROVE  /\ UNCHANGED <<list, size, page, pc, total, items, times, tied>>
         /\ pc \in {"fetch", "answered"} \/ (pc = "count" /\ page > 1)
         /\ torn' = (torn \/ pc = "fetch")
         /\ commits < MaxCommits /\ commits' = commits + 1
         /\ \E i \in Ids, to \in Keys \cup {None} :
              /\ to # place[i] /\ place' = [place EXCEPT ![i] = to]
              /\ stayed' = stayed \ {i}
              /\ left' = (left \/ place[i] # None) /\ entered' = (entered \/ to # None)
<1>1. PICK i \in Ids : Enter(i) \/ Leave(i) \/ Move(i)
  BY DEF Writer
<1>2. PICK to \in Keys \cup {None} : Commit(i, to)
  BY <1>1 DEF Enter, Leave, Move
<1> QED
  BY <1>2 DEF Commit, request

LEMMA TypeStep ==
  ASSUME TypeOK, [Next]_vars
  PROVE  TypeOK'
<1>1. CASE Count
  BY <1>1, Types DEF Count, TypeOK, request, table, Listed
<1>2. CASE Fetch
  <2>1. PICK h \in Heaps :
          /\ items' = Window(h)
          /\ times' = [i \in Ids |->
               IF i \in Window(h) /\ times[i] < 2 THEN times[i] + 1 ELSE times[i]]
    BY <1>2 DEF Fetch
  <2>2. items' \subseteq Ids
    BY <2>1 DEF Window, Listed
  <2>3. times' \in [Ids -> 0 .. 2]
    BY <2>1 DEF TypeOK
  <2> QED
    BY <1>2, <2>2, <2>3 DEF Fetch, TypeOK, request, table, Listed
<1>3. CASE BadFilter \/ Fail
  BY <1>3 DEF BadFilter, Fail, TypeOK, request, table, Listed
<1>4. CASE Follow
  BY <1>4, FollowCases DEF TypeOK, table, Listed
<1>5. CASE Writer
  <2>1. PICK i \in Ids, to \in Keys \cup {None} :
          /\ to # place[i] /\ place' = [place EXCEPT ![i] = to]
          /\ stayed' = stayed \ {i}
          /\ left' = (left \/ place[i] # None) /\ entered' = (entered \/ to # None)
    BY <1>5, WriterCases
  <2>2. place' \in [Ids -> Keys \cup {None}]
    BY <2>1 DEF TypeOK
  <2>3. stayed' \subseteq Listed'
    BY <2>1 DEF TypeOK, Listed
  <2>4. left' \in BOOLEAN /\ entered' \in BOOLEAN /\ torn' \in BOOLEAN
    BY <1>5, <2>1, WriterCases DEF TypeOK
  <2>5. commits' \in 0 .. MaxCommits
    BY <1>5, WriterCases, ListingAssumption DEF TypeOK
  <2>6. UNCHANGED <<list, size, page, pc, total, items, times, tied>>
    BY <1>5, WriterCases
  <2> QED
    BY <2>2, <2>3, <2>4, <2>5, <2>6 DEF TypeOK
<1>6. CASE UNCHANGED vars
  BY <1>6 DEF vars, TypeOK, Listed
<1> QED
  BY <1>1, <1>2, <1>3, <1>4, <1>5, <1>6 DEF Next, Request

\* COUNT returns what is there, and others' commits tear what follows.
LEMMA TotalStep ==
  ASSUME TypeOK, TotalInv, [Next]_vars
  PROVE  TotalInv'
<1>1. CASE Request \/ UNCHANGED vars
  BY <1>1 DEF Request, Count, Fetch, BadFilter, Fail, TotalInv, Listed, request, table, vars
<1>2. CASE Follow
  BY <1>2, FollowCases DEF TotalInv
<1>3. CASE Writer
  BY <1>3, WriterCases DEF TotalInv, TypeOK
<1> QED
  BY <1>1, <1>2, <1>3 DEF Next

LEMMA DoneStep ==
  ASSUME TypeOK, DoneInv, [Next]_vars
  PROVE  DoneInv'
<1>1. CASE Request \/ UNCHANGED vars
  BY <1>1 DEF Request, Count, Fetch, BadFilter, Fail, DoneInv, request, vars
<1>2. CASE Follow
  BY <1>2, FollowCases DEF DoneInv
<1>3. CASE Writer
  BY <1>3, WriterCases DEF DoneInv
<1> QED
  BY <1>1, <1>2, <1>3 DEF Next

LEMMA LengthStep ==
  ASSUME TypeOK, LengthInv, [Next]_vars
  PROVE  LengthInv'
<1>0. TypeOK'
  BY TypeStep
<1>1. CASE Request \/ UNCHANGED vars
  <2>1. UNCHANGED <<left, place, size, page>>
    BY <1>1 DEF Request, Count, Fetch, BadFilter, Fail, request, table, vars
  <2>2. Listed' = Listed
    BY <2>1 DEF Listed
  <2>3. CASE Count
    BY <2>1, <2>2, <2>3, Types DEF Count, LengthInv
  <2>4. CASE Fetch \/ BadFilter \/ Fail \/ UNCHANGED vars
    BY <2>1, <2>2, <2>4 DEF Fetch, BadFilter, Fail, vars, LengthInv
  <2> QED
    BY <1>1, <2>3, <2>4 DEF Request
<1>2. CASE Follow
  <2>1. UNCHANGED <<left, place, size, total>> /\ pc = "answered"
    BY <1>2, FollowCases DEF table
  <2>2. Listed' = Listed
    BY <2>1 DEF Listed
  <2>3. CASE pc' = "count" /\ page' = page + 1 /\ size * page < total
    <3>1. page' - 1 = page
      BY <2>3, Types
    <3>2. ~left => size * page < Cardinality(Listed)
      <4>1. size * page \in Nat /\ total \in Nat /\ Cardinality(Listed) \in Nat
        BY Types, Product
      <4> QED
        BY <2>1, <2>3, <4>1 DEF LengthInv
    <3> QED
      BY <2>1, <2>2, <2>3, <3>1, <3>2 DEF LengthInv
  <2>4. CASE pc' = "done" /\ page' = page
    BY <2>1, <2>2, <2>4 DEF LengthInv
  <2> QED
    BY <1>2, <2>3, <2>4, FollowCases
<1>3. CASE Writer
  <2>1. PICK i \in Ids, to \in Keys \cup {None} :
          /\ to # place[i] /\ place' = [place EXCEPT ![i] = to]
          /\ stayed' = stayed \ {i}
          /\ left' = (left \/ place[i] # None) /\ entered' = (entered \/ to # None)
    BY <1>3, WriterCases
  <2>2. SUFFICES ASSUME ~left' PROVE LengthInv'
    BY DEF LengthInv
  <2>3. place[i] = None /\ to \in Keys /\ ~left
    BY <2>1, <2>2 DEF TypeOK
  <2>4. Cardinality(Listed) <= Cardinality(Listed')
    BY <1>0, <2>1, <2>3, EnterLengthens
  <2>5. Cardinality(Listed) \in Nat /\ Cardinality(Listed') \in Nat
    <3>1. Listed' \in SUBSET Ids /\ IsFiniteSet(Ids)
      BY ListingAssumption DEF Listed
    <3>2. IsFiniteSet(Listed')
      BY <3>1, FS_Subset
    <3> QED
      BY <3>2, Types, FS_CardinalityType
  <2>6. UNCHANGED <<size, page, pc, total>>
    BY <1>3, WriterCases
  <2>7. page - 1 \in Nat /\ size * (page - 1) \in Nat /\ total \in Nat
    BY Types, Product
  <2> QED
    BY <2>3, <2>4, <2>5, <2>6, <2>7 DEF LengthInv
<1> QED
  BY <1>1, <1>2, <1>3 DEF Next

\* Positions depend on the places of the rows alone.
LEMMA SamePositions ==
  ASSUME UNCHANGED <<list, place>>
  PROVE  Listed' = Listed /\ \A i : Position(i)' = Position(i)
<1>1. Listed' = Listed
  BY DEF Listed
<1>2. \A i, j : Before(i, j)' <=> Before(i, j)
  BY DEF Before
<1> QED
  BY <1>1, <1>2 DEF Position, Preceding

\* A page that is shown without a tie: who is shown, and how often.
LEMMA FetchShows ==
  ASSUME TypeOK, Fetch, ~tied'
  PROVE  /\ ~tied /\ pc = "fetch" /\ pc' = "answered"
         /\ UNCHANGED <<list, size, page, place, stayed, left, entered, total, torn>>
         /\ \A i \in Ids :
              times'[i] =
                IF /\ i \in Listed /\ size * (page - 1) <= Position(i)
                   /\ Position(i) < size * page /\ times[i] < 2
                THEN times[i] + 1 ELSE times[i]
<1>1. PICK h \in Heaps :
        times' = [i \in Ids |-> IF i \in Window(h) /\ times[i] < 2 THEN times[i] + 1 ELSE times[i]]
  BY DEF Fetch
<1>2. ~tied /\ ~Tie
  BY DEF Fetch, TypeOK
<1>3. \A i \in Ids : i \in Window(h) <=>
        i \in Listed /\ size * (page - 1) <= Position(i) /\ Position(i) < size * page
  BY <1>2, WindowIsPositions
<1> QED
  BY <1>1, <1>2, <1>3 DEF Fetch, request, table

LEMMA MissedStep ==
  ASSUME IInv, [Next]_vars
  PROVE  MissedInv'
<1> USE DEF IInv
<1>0. TypeOK'
  BY TypeStep
<1> SUFFICES ASSUME ~left', ~tied'
             PROVE  /\ \A i \in stayed' : times'[i] > 0 \/ size' * Shown' <= Position(i)'
                    /\ pc' \in {"answered", "done"} /\ ~torn' /\ total' <= size' * page' =>
                         \A i \in stayed' : times'[i] > 0
  BY DEF MissedInv
<1>1. stayed \subseteq Listed /\ Listed \subseteq Ids /\ \A i \in Ids : times[i] \in 0 .. 2
  BY DEF TypeOK, Listed
<1>2. CASE Count \/ BadFilter \/ Fail
  <2>1. UNCHANGED <<list, size, page, place, stayed, left, tied, times>>
    BY <1>2 DEF Count, BadFilter, Fail, request, table
  <2>2. pc \notin {"answered", "done"} /\ pc' \notin {"answered", "done"}
    BY <1>2 DEF Count, BadFilter, Fail
  <2>3. Shown' = Shown
    BY <2>1, <2>2 DEF Shown
  <2> QED
    BY <2>1, <2>2, <2>3, SamePositions DEF MissedInv
<1>3. CASE Fetch
  <2>1. /\ ~tied /\ pc = "fetch" /\ pc' = "answered"
        /\ UNCHANGED <<list, size, page, place, stayed, left, entered, total, torn>>
        /\ \A i \in Ids :
             times'[i] =
               IF /\ i \in Listed /\ size * (page - 1) <= Position(i)
                  /\ Position(i) < size * page /\ times[i] < 2
               THEN times[i] + 1 ELSE times[i]
    BY <1>3, FetchShows
  <2>2. Shown = page - 1 /\ Shown' = page
    BY <2>1 DEF Shown
  <2>3. ASSUME NEW i \in stayed
        PROVE  /\ Position(i) \in Nat /\ Position(i) < Cardinality(Listed)
               /\ times'[i] > 0 \/ size * page <= Position(i)
    <3>1. Position(i) \in Nat /\ size * page \in Nat
      BY PositionType, Types, Product
    <3>2. times[i] > 0 \/ size * (page - 1) <= Position(i)
      BY <2>1, <2>2, <2>3 DEF MissedInv
    <3>3. Position(i) < Cardinality(Listed)
      BY <1>1, <2>3, PositionBound
    <3>4. CASE times[i] > 0
      BY <1>1, <2>1, <2>3, <3>1, <3>3, <3>4
    <3>5. CASE times[i] = 0 /\ size * (page - 1) <= Position(i)
      BY <1>1, <2>1, <2>3, <3>1, <3>3, <3>5
    <3> QED
      BY <1>1, <2>3, <3>2, <3>4, <3>5
  <2>4. ASSUME ~torn, total <= size * page, NEW i \in stayed PROVE times'[i] > 0
    <3>1. total = Cardinality(Listed)
      BY <2>1, <2>4 DEF TotalInv
    <3>2. size * page \in Nat /\ total \in Nat
      BY Types, Product
    <3> QED
      BY <2>3, <2>4, <3>1, <3>2
  <2> QED
    BY <2>1, <2>2, <2>3, <2>4, SamePositions
<1>4. CASE Follow
  <2>1. /\ UNCHANGED <<list, size, place, stayed, left, tied, times, torn, total>>
        /\ pc = "answered"
    BY <1>4, FollowCases DEF table
  <2>2. Shown' = Shown
    BY <1>4, FollowCases, Types DEF Shown
  <2>3. pc' = "done" => page' = page
    BY <1>4, FollowCases
  <2>4. pc' # "answered"
    BY <1>4, FollowCases
  <2> QED
    BY <2>1, <2>2, <2>3, <2>4, SamePositions DEF MissedInv
<1>5. CASE Writer
  <2>1. PICK i \in Ids, to \in Keys \cup {None} :
          /\ to # place[i] /\ place' = [place EXCEPT ![i] = to]
          /\ stayed' = stayed \ {i}
          /\ left' = (left \/ place[i] # None) /\ entered' = (entered \/ to # None)
    BY <1>5, WriterCases
  <2>2. UNCHANGED <<list, size, page, pc, total, times, tied>>
    BY <1>5, WriterCases
  <2>3. place[i] = None /\ to \in Keys /\ ~left /\ ~tied
    BY <2>1, <2>2 DEF TypeOK
  <2>4. Shown' = Shown
    BY <2>2 DEF Shown
  <2>5. ASSUME NEW j \in stayed' PROVE times'[j] > 0 \/ size' * Shown' <= Position(j)'
    <3>1. j \in stayed /\ j \in Listed
      BY <1>1, <2>1, <2>5
    <3>2. Position(j) <= Position(j)'
      BY <1>0, <2>1, <2>2, <2>3, <3>1, EnterMovesDown
    <3>3. Position(j) \in Nat /\ Position(j)' \in Nat /\ size * Shown \in Nat
      <4>1. Preceding(j)' \in SUBSET Ids /\ IsFiniteSet(Ids)
        BY ListingAssumption DEF Preceding, Listed
      <4>2. IsFiniteSet(Preceding(j)')
        BY <4>1, FS_Subset
      <4>3. Position(j)' \in Nat
        BY <4>2, FS_CardinalityType DEF Position
      <4> QED
        BY <4>3, PositionType, Types, Product DEF Shown
    <3>4. times[j] > 0 \/ size * Shown <= Position(j)
      BY <2>3, <3>1 DEF MissedInv
    <3> QED
      BY <2>2, <2>4, <3>2, <3>3, <3>4
  <2>6. pc' = "answered" /\ ~torn' => ~torn
    BY <1>5, WriterCases DEF TypeOK
  <2>7. pc' # "done"
    BY <1>5, WriterCases
  <2> QED
    BY <2>1, <2>2, <2>3, <2>5, <2>6, <2>7 DEF MissedInv
<1>6. CASE UNCHANGED vars
  BY <1>6, SamePositions DEF vars, MissedInv, Shown
<1> QED
  BY <1>2, <1>3, <1>4, <1>5, <1>6 DEF Next, Request

LEMMA RepeatedStep ==
  ASSUME IInv, [Next]_vars
  PROVE  RepeatedInv'
<1> USE DEF IInv
<1>0. TypeOK'
  BY TypeStep
<1> SUFFICES ASSUME ~entered', ~tied', NEW i \in Ids
             PROVE  /\ times'[i] <= 1
                    /\ times'[i] = 1 /\ i \in Listed' => Position(i)' < size' * Shown'
  BY DEF RepeatedInv
<1>1. times[i] \in 0 .. 2
  BY DEF TypeOK
<1>2. CASE Count \/ BadFilter \/ Fail
  <2>1. UNCHANGED <<list, size, page, place, entered, tied, times>>
    BY <1>2 DEF Count, BadFilter, Fail, request, table
  <2>2. pc \notin {"answered", "done"} /\ pc' \notin {"answered", "done"}
    BY <1>2 DEF Count, BadFilter, Fail
  <2>3. Shown' = Shown
    BY <2>1, <2>2 DEF Shown
  <2> QED
    BY <2>1, <2>3, SamePositions DEF RepeatedInv
<1>3. CASE Fetch
  <2>1. /\ ~tied /\ pc = "fetch" /\ pc' = "answered"
        /\ UNCHANGED <<list, size, page, place, stayed, left, entered, total, torn>>
        /\ times'[i] =
             IF /\ i \in Listed /\ size * (page - 1) <= Position(i)
                /\ Position(i) < size * page /\ times[i] < 2
             THEN times[i] + 1 ELSE times[i]
    BY <1>3, FetchShows
  <2>2. Shown = page - 1 /\ Shown' = page
    BY <2>1 DEF Shown
  <2>3. /\ times[i] <= 1
        /\ times[i] = 1 /\ i \in Listed => Position(i) < size * (page - 1)
    BY <2>1, <2>2 DEF RepeatedInv
  <2>4. /\ Position(i) \in Nat /\ size * (page - 1) \in Nat /\ size * page \in Nat
        /\ size * (page - 1) <= size * page
    BY PositionType, Types, Product
  <2>5. /\ times'[i] <= 1
        /\ times'[i] = 1 /\ i \in Listed => Position(i) < size * page
    <3>1. CASE times[i] = 0
      BY <2>1, <2>4, <3>1
    <3>2. CASE times[i] = 1
      BY <2>1, <2>3, <2>4, <3>2
    <3> QED
      BY <1>1, <2>3, <3>1, <3>2
  <2> QED
    BY <2>1, <2>2, <2>5, SamePositions
<1>4. CASE Follow
  <2>1. UNCHANGED <<list, size, place, entered, tied, times>>
    BY <1>4, FollowCases DEF table
  <2>2. Shown' = Shown
    BY <1>4, FollowCases, Types DEF Shown
  <2> QED
    BY <2>1, <2>2, SamePositions DEF RepeatedInv
<1>5. CASE Writer
  <2>1. PICK j \in Ids, to \in Keys \cup {None} :
          /\ to # place[j] /\ place' = [place EXCEPT ![j] = to]
          /\ stayed' = stayed \ {j}
          /\ left' = (left \/ place[j] # None) /\ entered' = (entered \/ to # None)
    BY <1>5, WriterCases
  <2>2. UNCHANGED <<list, size, page, pc, total, times, tied>>
    BY <1>5, WriterCases
  <2>3. to = None /\ ~entered /\ ~tied
    BY <2>1, <2>2 DEF TypeOK
  <2>4. Shown' = Shown /\ size * Shown \in Nat
    BY <2>2, Types, Product DEF Shown
  <2>5. /\ times[i] <= 1
        /\ times[i] = 1 /\ i \in Listed => Position(i) < size * Shown
    BY <2>3 DEF RepeatedInv
  <2>6. ASSUME i \in Listed' PROVE i \in Listed /\ Position(i)' <= Position(i) /\ Position(i)' \in Nat
    <3>1. i \in Listed /\ Position(i)' <= Position(i)
      BY <1>0, <2>1, <2>2, <2>3, <2>6, LeaveMovesUp
    <3>2. Preceding(i)' \in SUBSET Ids /\ IsFiniteSet(Ids)
      BY ListingAssumption DEF Preceding, Listed
    <3>3. IsFiniteSet(Preceding(i)')
      BY <3>2, FS_Subset
    <3>4. Position(i)' \in Nat
      BY <3>3, FS_CardinalityType DEF Position
    <3> QED
      BY <3>1, <3>4
  <2>7. Position(i) \in Nat
    BY PositionType
  <2> QED
    BY <2>2, <2>4, <2>5, <2>6, <2>7
<1>6. CASE UNCHANGED vars
  BY <1>6, SamePositions DEF vars, RepeatedInv, Shown
<1> QED
  BY <1>2, <1>3, <1>4, <1>5, <1>6 DEF Next, Request

-----------------------------------------------------------------------------
(* How many rows a page has                                                *)

\* The order in which a SELECT over heap h returns the rows.
Order(h) ==
  {x \in Listed \X Listed :
     Before(x[1], x[2]) \/ (~Before(x[2], x[1]) /\ h[x[1]] < h[x[2]])}

\* With the heap to decide between equal rows, it leaves no tie.
LEMMA OrderIsLinear ==
  ASSUME TypeOK, NEW h \in Heaps
  PROVE  /\ Linear(Order(h), Listed)
         /\ \A i \in Listed : Ahead(h, i) = Lower(Order(h), Listed, i)
<1>1. \A i \in Listed : h[i] \in Nat /\ i \in Ids
  <2>1. Cardinality(Ids) \in Nat
    BY ListingAssumption, FS_CardinalityType
  <2> QED
    BY <2>1, Types DEF Heaps
<1>2. \A i, j \in Listed : h[i] = h[j] => i = j
  BY <1>1 DEF Heaps
<1>3. \A i, j \in Listed :
        <<i, j>> \in Order(h) <=> Before(i, j) \/ (~Before(j, i) /\ h[i] < h[j])
  BY DEF Order
<1>4. \A i \in Listed : <<i, i>> \notin Order(h)
  BY <1>1, <1>3, Types DEF Before, ListNames
<1>5. \A i, j \in Listed : i # j => <<i, j>> \in Order(h) \/ <<j, i>> \in Order(h)
  BY <1>1, <1>2, <1>3
<1>6. ASSUME NEW i \in Listed, NEW j \in Listed, NEW k \in Listed,
             <<i, j>> \in Order(h), <<j, k>> \in Order(h)
      PROVE  <<i, k>> \in Order(h)
  <2>1. /\ Before(i, j) \/ (~Before(j, i) /\ h[i] < h[j])
        /\ Before(j, k) \/ (~Before(k, j) /\ h[j] < h[k])
    BY <1>3, <1>6
  <2>2. /\ h[i] \in Nat /\ h[j] \in Nat /\ h[k] \in Nat
        /\ i \in Nat /\ j \in Nat /\ k \in Nat
        /\ place[i] \in Nat /\ place[j] \in Nat /\ place[k] \in Nat
    BY <1>1, Types
  <2>3. Before(i, k) \/ (~Before(k, i) /\ h[i] < h[k])
    <3>1. CASE list = "athletes"
      BY <2>1, <2>2, <3>1 DEF Before
    <3>2. CASE list = "results"
      BY <2>1, <2>2, <3>2 DEF Before
    <3>3. CASE list # "athletes" /\ list # "results"
      BY <2>1, <2>2, <3>3 DEF Before
    <3> QED
      BY <3>1, <3>2, <3>3
  <2> QED
    BY <1>3, <2>3
<1>7. \A i \in Listed : Ahead(h, i) = Lower(Order(h), Listed, i)
  BY <1>3 DEF Ahead, Lower
<1> QED
  BY <1>4, <1>5, <1>6, <1>7 DEF Linear

\* LIMIT and OFFSET cut full pages out of the list, and the rest on the last one.
LEMMA WindowSize ==
  ASSUME TypeOK, NEW h \in Heaps
  PROVE  Cardinality(Window(h)) =
           CASE size * page <= Cardinality(Listed) -> size
             [] Cardinality(Listed) <= size * (page - 1) -> 0
             [] OTHER -> Cardinality(Listed) - size * (page - 1)
<1> DEFINE a == size * (page - 1)
           R == Order(h)
<1>1. page - 1 \in Nat /\ page = (page - 1) + 1 /\ size \in Nat \ {0}
  BY Types
<1>2. a \in Nat /\ a + size \in Nat /\ a <= a + size /\ size * page = a + size
  BY <1>1, Product
<1>3. Linear(R, Listed) /\ \A i \in Listed : Ahead(h, i) = Lower(R, Listed, i)
  BY OrderIsLinear
<1>4. IsFiniteSet(Listed) /\ Cardinality(Listed) \in Nat
  BY Types
<1>5. Window(h) = {i \in Listed : a <= Cardinality(Ahead(h, i))
                                 /\ Cardinality(Ahead(h, i)) < a + size}
  BY DEF Window
<1> HIDE DEF a, R
<1>6. Window(h) = {i \in Listed : a <= Rank(R, Listed, i) /\ Rank(R, Listed, i) < a + size}
  BY <1>3, <1>5 DEF Rank
<1>7. Cardinality({i \in Listed : a <= Rank(R, Listed, i) /\ Rank(R, Listed, i) < a + size}) =
        IF a + size <= Cardinality(Listed) THEN (a + size) - a
        ELSE IF Cardinality(Listed) <= a THEN 0
        ELSE Cardinality(Listed) - a
  BY <1>2, <1>3, <1>4, RankWindow
<1>8. (a + size) - a = size
  BY <1>1, <1>2
<1>9. ~(a + size <= Cardinality(Listed) /\ Cardinality(Listed) <= a)
  BY <1>1, <1>2, <1>4
<1>10. Cardinality(Window(h)) =
         IF a + size <= Cardinality(Listed) THEN size
         ELSE IF Cardinality(Listed) <= a THEN 0
         ELSE Cardinality(Listed) - a
  BY <1>6, <1>7, <1>8
<1> QED
  BY <1>2, <1>9, <1>10 DEF a

LEMMA PageStep ==
  ASSUME TypeOK, TotalInv, PageAgreesWithTotal, [Next]_vars
  PROVE  PageAgreesWithTotal'
<1>1. CASE Count \/ BadFilter \/ Fail
  BY <1>1 DEF Count, BadFilter, Fail, PageAgreesWithTotal
<1>2. CASE Fetch
  <2>1. PICK h \in Heaps : items' = Window(h)
    BY <1>2 DEF Fetch
  <2>2. UNCHANGED <<size, page, total, torn>> /\ pc = "fetch"
    BY <1>2 DEF Fetch, request
  <2>3. ~torn => total = Cardinality(Listed)
    BY <2>2 DEF TotalInv
  <2> QED
    BY <2>1, <2>2, <2>3, WindowSize DEF PageAgreesWithTotal
<1>3. CASE Follow
  BY <1>3, FollowCases DEF PageAgreesWithTotal
<1>4. CASE Writer
  BY <1>4, WriterCases DEF PageAgreesWithTotal, TypeOK
<1>5. CASE UNCHANGED vars
  BY <1>5 DEF vars, PageAgreesWithTotal
<1> QED
  BY <1>1, <1>2, <1>3, <1>4, <1>5 DEF Next, Request

-----------------------------------------------------------------------------
(* The theorems                                                            *)

LEMMA InitInv == Init => IInv
<1> SUFFICES ASSUME Init PROVE IInv
  OBVIOUS
<1>1. TypeOK
  <2>1. times \in [Ids -> 0 .. 2] /\ page \in Nat \ {0} /\ total \in Nat
    BY DEF Init
  <2>2. commits \in 0 .. MaxCommits
    BY ListingAssumption DEF Init
  <2> QED
    BY <2>1, <2>2 DEF Init, TypeOK
<1>2. TotalInv /\ LengthInv /\ DoneInv
  BY DEF Init, TotalInv, LengthInv, DoneInv
<1>3. MissedInv
  <2>1. Shown = 0 /\ size \in Nat
    BY <1>1, Types DEF Init, Shown
  <2>2. size * Shown = 0
    BY <2>1
  <2>3. \A i : Position(i) \in Nat
    BY <1>1, PositionType
  <2>4. \A i \in stayed : size * Shown <= Position(i)
    BY <2>2, <2>3
  <2>5. pc \notin {"answered", "done"}
    BY DEF Init
  <2> QED
    BY <2>4, <2>5 DEF MissedInv
<1>4. RepeatedInv
  BY DEF Init, RepeatedInv
<1> QED
  BY <1>1, <1>2, <1>3, <1>4 DEF IInv

LEMMA InvStep == IInv /\ [Next]_vars => IInv'
<1> SUFFICES ASSUME IInv, [Next]_vars PROVE IInv'
  OBVIOUS
<1>1. TypeOK' /\ TotalInv' /\ LengthInv' /\ DoneInv'
  BY TypeStep, TotalStep, LengthStep, DoneStep DEF IInv
<1>2. MissedInv' /\ RepeatedInv'
  BY MissedStep, RepeatedStep
<1> QED
  BY <1>1, <1>2 DEF IInv

\* The inductive invariant holds in every state.
THEOREM Invariance == Spec => []IInv
  BY InitInv, InvStep, PTL DEF Spec

\* Every variable of Listing keeps its type.
THEOREM ListingType == Spec => []TypeOK
<1>1. IInv => TypeOK
  BY DEF IInv
<1> QED
  BY <1>1, Invariance, PTL

\* A walk misses a row that has kept its place only when another has left the
\* list, a commit fell between COUNT and SELECT of the last page, or the ORDER BY
\* left a tie.
THEOREM NothingMissedInVain == Spec => []MissedForAReason
<1>1. IInv => MissedForAReason
  BY DEF IInv, MissedInv, DoneInv, MissedForAReason
<1> QED
  BY <1>1, Invariance, PTL

\* A walk repeats a row only when one has come in, or there was a tie.
THEOREM NothingRepeatedInVain == Spec => []RepeatedForAReason
<1>1. IInv => RepeatedForAReason
  BY DEF IInv, RepeatedInv, RepeatedForAReason
<1> QED
  BY <1>1, Invariance, PTL

\* While nothing leaves the list, the walk ends on the page that `last` names.
THEOREM LastPageIsLast == Spec => []EndsOnLastPage
<1>1. IInv => EndsOnLastPage
  <2> SUFFICES ASSUME IInv, pc = "done", ~left
               PROVE  page = (IF total > 0 THEN Links.last ELSE 1)
    BY DEF EndsOnLastPage
  <2>1. size \in Nat \ {0} /\ page \in Nat \ {0} /\ total \in Nat
    BY Types DEF IInv
  <2>2. total <= size * page /\ (page > 1 => size * (page - 1) < total)
    BY DEF IInv, DoneInv, LengthInv
  <2>3. size * page \in Nat /\ size * (page - 1) \in Nat /\ page - 1 \in Nat
    BY <2>1, Product
  <2>4. CASE total > 0
    <3> DEFINE pages == (total + size - 1) \div size
    <3>1. page + 1 <= pages <=> size * page < total
      BY <2>1, NextPage
    <3>2. (page - 1) + 1 <= pages <=> size * (page - 1) < total
      BY <2>1, <2>3, NextPage
    <3>3. size * (page - 1) < total
      <4>1. CASE page = 1
        BY <2>1, <2>4, <4>1
      <4>2. CASE page > 1
        BY <2>2, <4>2
      <4> QED
        BY <2>1, <4>1, <4>2
    <3>4. pages \in Nat
      <4>1. total + size - 1 \in Nat
        BY <2>1
      <4> QED
        BY <2>1, <4>1, Quotient
    <3>5. Links.last = pages
      BY <2>4 DEF Links, TotalPages
    <3> HIDE DEF pages
    <3>6. page = pages
      BY <2>1, <2>2, <2>3, <3>1, <3>2, <3>3, <3>4
    <3> QED
      BY <2>4, <3>5, <3>6
  <2>5. CASE ~(total > 0)
    <3>1. ~(page > 1)
      BY <2>1, <2>2, <2>3, <2>5
    <3> QED
      BY <2>1, <2>5, <3>1
  <2> QED
    BY <2>4, <2>5
<1> QED
  BY <1>1, Invariance, PTL

\* An answer whose two statements saw the same table holds as many rows as its
\* total and its page number promise, with ties or without.
THEOREM PagesHoldWhatTheyPromise == Spec => []PageAgreesWithTotal
<1>1. Init => PageAgreesWithTotal
  BY DEF Init, PageAgreesWithTotal
<1>2. IInv /\ PageAgreesWithTotal /\ [Next]_vars => PageAgreesWithTotal'
  BY PageStep DEF IInv
<1> QED
  BY <1>1, <1>2, Invariance, PTL DEF Spec

=============================================================================
