--------------------------- MODULE FiniteTheorems ---------------------------
(***************************************************************************)
(* Facts about finite sets that the other proof modules cite: induction    *)
(* over the subsets of a set, ranks in a linear order, and sums.           *)
(***************************************************************************)
EXTENDS Integers, FiniteSets, FiniteSetTheorems, TLAPS

-----------------------------------------------------------------------------
(* Induction, about a family of subsets instead of an operator             *)

\* A family of subsets of a finite set has a smallest member.
LEMMA SmallestMember ==
  ASSUME NEW S, IsFiniteSet(S), NEW F \in SUBSET (SUBSET S), F # {}
  PROVE  \E A \in F : \A B \in F : B \subseteq A => B = A
<1>1. IsWellFoundedOn(StrictSubsetOrdering(S), SUBSET S)
  BY FS_StrictSubsetOrderingWellFounded, FS_FiniteSubsetsOfFinite
<1>2. PICK A \in F : \A B \in F : ~ (<<B, A>> \in StrictSubsetOrdering(S))
  BY <1>1, WFMin
<1> QED
  BY <1>2 DEF StrictSubsetOrdering

\* A family that has the empty set, and one element more whenever it has a
\* set, has every subset.
LEMMA SubsetInduction ==
  ASSUME NEW S, IsFiniteSet(S), NEW F \in SUBSET (SUBSET S), {} \in F,
         \A A \in F : \A x \in S \ A : A \cup {x} \in F
  PROVE  F = SUBSET S
<1> DEFINE Bad == (SUBSET S) \ F
<1>1. SUFFICES ASSUME Bad # {} PROVE FALSE
  OBVIOUS
<1>2. PICK A \in Bad : \A B \in Bad : B \subseteq A => B = A
  <2>1. Bad \in SUBSET (SUBSET S)
    OBVIOUS
  <2> HIDE DEF Bad
  <2> QED
    BY <1>1, <2>1, SmallestMember
<1>3. PICK x \in A : TRUE
  BY <1>2
<1>4. A \ {x} \in F
  BY <1>2, <1>3
<1>5. (A \ {x}) \cup {x} = A /\ x \in S \ (A \ {x})
  BY <1>2, <1>3
<1> QED
  BY <1>2, <1>4, <1>5

-----------------------------------------------------------------------------
(* Ranks                                                                   *)

\* R puts the elements of S into a line.
Linear(R, S) ==
  /\ \A x \in S : <<x, x>> \notin R
  /\ \A x, y \in S : x # y => <<x, y>> \in R \/ <<y, x>> \in R
  /\ \A x, y, z \in S : <<x, y>> \in R /\ <<y, z>> \in R => <<x, z>> \in R

Lower(R, S, x) == {y \in S : <<y, x>> \in R}
Rank(R, S, x) == Cardinality(Lower(R, S, x))

\* The ranks grow along the line.
LEMMA RankGrows ==
  ASSUME NEW S, IsFiniteSet(S), NEW R, Linear(R, S)
  PROVE  /\ \A x \in S : Rank(R, S, x) \in 0 .. Cardinality(S) - 1
         /\ \A x, y \in S : <<x, y>> \in R <=> Rank(R, S, x) < Rank(R, S, y)
         /\ \A x, y \in S : Rank(R, S, x) = Rank(R, S, y) => x = y
<1>1. Cardinality(S) \in Nat
  BY FS_CardinalityType
<1>2. ASSUME NEW x \in S
      PROVE  /\ Rank(R, S, x) \in Nat /\ Rank(R, S, x) < Cardinality(S)
             /\ IsFiniteSet(Lower(R, S, x))
  <2>1. Lower(R, S, x) \in SUBSET S /\ x \notin Lower(R, S, x)
    BY DEF Lower, Linear
  <2>2. IsFiniteSet(Lower(R, S, x)) /\ Cardinality(Lower(R, S, x)) \in Nat
    BY <2>1, FS_Subset, FS_CardinalityType
  <2>3. Cardinality(Lower(R, S, x)) <= Cardinality(S) /\ Lower(R, S, x) # S
    BY <2>1, FS_Subset
  <2>4. Cardinality(Lower(R, S, x)) # Cardinality(S)
    BY <2>1, <2>3, FS_Subset
  <2> QED
    BY <1>1, <2>2, <2>3, <2>4 DEF Rank
<1>3. ASSUME NEW x \in S, NEW y \in S, <<x, y>> \in R
      PROVE  Rank(R, S, x) < Rank(R, S, y)
  <2> DEFINE A == Lower(R, S, x)
             B == Lower(R, S, y)
  <2>1. A \subseteq B
    BY <1>3 DEF Lower, Linear
  <2>2. x \in B /\ x \notin A
    BY <1>3 DEF Lower, Linear
  <2>3. IsFiniteSet(B) /\ Cardinality(A) \in Nat /\ Cardinality(B) \in Nat
    BY <1>2 DEF Rank
  <2> HIDE DEF A, B
  <2>4. Cardinality(A) <= Cardinality(B) /\ Cardinality(A) # Cardinality(B)
    BY <2>1, <2>2, <2>3, FS_Subset
  <2>5. Cardinality(A) < Cardinality(B)
    BY <2>3, <2>4
  <2> QED
    BY <2>5 DEF Rank, A, B
<1>4. \A x \in S : Rank(R, S, x) \in 0 .. Cardinality(S) - 1
  BY <1>1, <1>2
<1>5. ASSUME NEW x \in S, NEW y \in S
      PROVE  /\ <<x, y>> \in R <=> Rank(R, S, x) < Rank(R, S, y)
             /\ Rank(R, S, x) = Rank(R, S, y) => x = y
  <2>1. x # y => <<x, y>> \in R \/ <<y, x>> \in R
    BY DEF Linear
  <2>2. /\ <<x, y>> \in R => Rank(R, S, x) < Rank(R, S, y)
        /\ <<y, x>> \in R => Rank(R, S, y) < Rank(R, S, x)
    BY <1>3
  <2>3. Rank(R, S, x) \in Nat /\ Rank(R, S, y) \in Nat
    BY <1>2
  <2> QED
    BY <2>1, <2>2, <2>3
<1> QED
  BY <1>4, <1>5

\* Every rank is that of an element.
LEMMA RankTaken ==
  ASSUME NEW S, IsFiniteSet(S), NEW R, Linear(R, S), NEW k \in 0 .. Cardinality(S) - 1
  PROVE  \E x \in S : Rank(R, S, x) = k
<1> DEFINE T == 0 .. Cardinality(S) - 1
           f == [x \in S |-> Rank(R, S, x)]
<1>1. Cardinality(S) \in Nat
  BY FS_CardinalityType
<1>2. IsFiniteSet(T) /\ Cardinality(T) = Cardinality(S)
  BY <1>1, FS_Interval
<1>3. f \in [S -> T] /\ \A x, y \in S : f[x] = f[y] => x = y
  BY RankGrows
<1> HIDE DEF T, f
<1>4. f \in Injection(S, T)
  BY <1>3 DEF Injection, IsInjective
<1>5. f \in Surjection(S, T)
  BY <1>2, <1>4, FS_Injection
<1>6. \A t \in T : \E x \in S : f[x] = t
  BY <1>5 DEF Surjection
<1> QED
  BY <1>6 DEF T, f

\* As many elements have a rank from a up to b as there are ranks.
LEMMA RankWindow ==
  ASSUME NEW S, IsFiniteSet(S), NEW R, Linear(R, S), NEW a \in Nat, NEW b \in Nat, a <= b
  PROVE  Cardinality({x \in S : a <= Rank(R, S, x) /\ Rank(R, S, x) < b}) =
           IF b <= Cardinality(S) THEN b - a
           ELSE IF Cardinality(S) <= a THEN 0
           ELSE Cardinality(S) - a
<1> DEFINE n == Cardinality(S)
           W == {x \in S : a <= Rank(R, S, x) /\ Rank(R, S, x) < b}
           top == IF b <= n THEN b - 1 ELSE n - 1
           T == a .. top
           f == [x \in W |-> Rank(R, S, x)]
<1>1. n \in Nat
  BY FS_CardinalityType
<1>2. \A x \in S : Rank(R, S, x) \in 0 .. n - 1
  BY RankGrows
<1>3. \A k \in 0 .. n - 1 : \E x \in S : Rank(R, S, x) = k
  BY RankTaken
<1>4. \A x, y \in S : Rank(R, S, x) = Rank(R, S, y) => x = y
  BY RankGrows
<1> HIDE DEF n
<1>5. \A x \in W : Rank(R, S, x) \in T
  BY <1>1, <1>2
<1>6. \A k \in T : \E x \in W : Rank(R, S, x) = k
  <2>1. SUFFICES ASSUME NEW k \in T PROVE \E x \in W : Rank(R, S, x) = k
    OBVIOUS
  <2>2. k \in 0 .. n - 1 /\ a <= k /\ k < b
    BY <1>1
  <2> QED
    BY <1>3, <2>2
<1>7. f \in Bijection(W, T)
  <2>1. f \in [W -> T] /\ \A k \in T : \E x \in W : f[x] = k
    BY <1>5, <1>6
  <2>2. \A x, y \in W : f[x] = f[y] => x = y
    BY <1>4
  <2> HIDE DEF f, T, W
  <2> QED
    BY <2>1, <2>2 DEF Bijection, Injection, Surjection, IsInjective
<1>8. IsFiniteSet(W) /\ W \in SUBSET S
  BY FS_Subset
<1> HIDE DEF f, W
<1>9. Cardinality(T) = Cardinality(W)
  BY <1>7, <1>8, FS_Bijection DEF ExistsBijection
<1>10. Cardinality(T) = IF a > top THEN 0 ELSE top - a + 1
  BY <1>1, FS_Interval
<1>11. Cardinality(W) = IF b <= n THEN b - a ELSE IF n <= a THEN 0 ELSE n - a
  BY <1>1, <1>9, <1>10
<1> QED
  BY <1>11 DEF W, n

\* A set that is not empty has a first element.
LEMMA RankFirst ==
  ASSUME NEW S, IsFiniteSet(S), S # {}, NEW R, Linear(R, S)
  PROVE  \E x \in S : \A y \in S : y # x => <<x, y>> \in R
<1>1. Cardinality(S) \in Nat \ {0}
  BY FS_CardinalityType, FS_EmptySet
<1>2. PICK x \in S : Rank(R, S, x) = 0
  BY <1>1, RankTaken
<1>3. ASSUME NEW y \in S, y # x
      PROVE  <<x, y>> \in R
  <2>1. Rank(R, S, y) \in Nat /\ Rank(R, S, y) # 0
    BY <1>2, <1>3, RankGrows
  <2> QED
    BY <1>2, <2>1, RankGrows
<1> QED
  BY <1>3

-----------------------------------------------------------------------------
(* Sums                                                                    *)

\* g adds the values of w up, for each subset of S: what MapThenSumSet of the
\* community modules computes.
Adds(g, w, S) ==
  g = [s \in SUBSET S |->
         IF s = {} THEN 0
         ELSE w[CHOOSE x \in s : TRUE] + g[s \ {CHOOSE x \in s : TRUE}]]

Total(w, S) == (CHOOSE g : Adds(g, w, S))[S]

\* Two functions that add up the same values agree.
LEMMA AddsUnique ==
  ASSUME NEW S, NEW T, NEW w, NEW v, NEW g, NEW h, Adds(g, w, S), Adds(h, v, T),
         NEW X, IsFiniteSet(X), X \subseteq S, X \subseteq T, \A x \in X : w[x] = v[x]
  PROVE  g[X] = h[X]
<1> DEFINE Bad == {A \in SUBSET X : g[A] # h[A]}
<1>1. SUFFICES ASSUME Bad # {} PROVE FALSE
  OBVIOUS
<1>2. PICK A \in Bad : \A B \in Bad : B \subseteq A => B = A
  <2>1. Bad \in SUBSET (SUBSET X)
    OBVIOUS
  <2> HIDE DEF Bad
  <2> QED
    BY <1>1, <2>1, SmallestMember
<1>3. A \in SUBSET X /\ A \in SUBSET S /\ A \in SUBSET T
  BY <1>2
<1>4. CASE A = {}
  BY <1>2, <1>3, <1>4 DEF Adds
<1>5. CASE A # {}
  <2> DEFINE x == CHOOSE y \in A : TRUE
  <2>1. x \in A
    BY <1>5
  <2>2. g[A] = w[x] + g[A \ {x}] /\ h[A] = v[x] + h[A \ {x}]
    BY <1>3, <1>5 DEF Adds
  <2> HIDE DEF x
  <2>3. A \ {x} \in SUBSET X /\ A \ {x} # A
    BY <1>3, <2>1
  <2>4. A \ {x} \notin Bad
    BY <1>2, <2>3
  <2>5. g[A \ {x}] = h[A \ {x}]
    BY <2>3, <2>4
  <2>6. w[x] = v[x]
    BY <1>3, <2>1
  <2>7. g[A] = h[A]
    BY <2>2, <2>5, <2>6
  <2> QED
    BY <1>2, <2>7
<1> QED
  BY <1>4, <1>5

\* There is such a function.
LEMMA AddsExists ==
  ASSUME NEW S, IsFiniteSet(S), NEW w
  PROVE  \E g : Adds(g, w, S)
<1> DEFINE Bad == {A \in SUBSET S : \A g : ~Adds(g, w, A)}
<1>1. SUFFICES ASSUME Bad # {} PROVE FALSE
  OBVIOUS
<1>2. PICK A \in Bad : \A B \in Bad : B \subseteq A => B = A
  <2>1. Bad \in SUBSET (SUBSET S)
    OBVIOUS
  <2> HIDE DEF Bad
  <2> QED
    BY <1>1, <2>1, SmallestMember
<1>3. A \in SUBSET S /\ IsFiniteSet(A)
  BY <1>2, FS_Subset
<1>4. \A B \in SUBSET A : B # A => Adds(CHOOSE g : Adds(g, w, B), w, B)
  BY <1>2
<1> DEFINE C(s) == CHOOSE x \in s : TRUE
           first == w[C(A)] + Total(w, A \ {C(A)})
           G == [s \in SUBSET A |->
                   IF s = {} THEN 0 ELSE IF s = A THEN first ELSE Total(w, s)]
<1>5. ASSUME NEW s \in SUBSET A, s # {}
      PROVE  G[s] = w[C(s)] + G[s \ {C(s)}]
  <2>1. C(s) \in s
    BY <1>5
  <2> DEFINE x == C(s)
             r == s \ {x}
  <2>2. r \in SUBSET A /\ r # A /\ r \in SUBSET s /\ IsFiniteSet(r)
    <3>1. r \in SUBSET A /\ r # A /\ r \in SUBSET s
      BY <2>1
    <3> QED
      BY <1>3, <3>1, FS_Subset
  <2>3. G[r] = Total(w, r)
    <3>1. CASE r = {}
      <4>1. Adds(CHOOSE g : Adds(g, w, r), w, r)
        BY <1>4, <2>2
      <4>2. Total(w, r) = 0
        BY <3>1, <4>1 DEF Total, Adds
      <4> QED
        BY <2>2, <3>1, <4>2
    <3>2. CASE r # {}
      BY <2>2, <3>2
    <3> QED
      BY <3>1, <3>2
  <2>4. CASE s = A
    <3>1. G[s] = first
      BY <1>5, <2>4
    <3>2. first = w[x] + Total(w, r)
      BY <2>4
    <3> HIDE DEF G, first, r, x
    <3>3. G[s] = w[x] + G[r]
      BY <2>3, <3>1, <3>2
    <3> QED
      BY <3>3 DEF r, x
  <2>5. CASE s # A
    <3> DEFINE g == CHOOSE f : Adds(f, w, s)
               h == CHOOSE f : Adds(f, w, r)
    <3>1. Adds(g, w, s) /\ Adds(h, w, r)
      BY <1>4, <2>2, <2>5
    <3>2. g[s] = w[x] + g[r]
      BY <1>5, <3>1 DEF Adds
    <3>3. G[s] = g[s] /\ h[r] = Total(w, r)
      BY <1>5, <2>5 DEF Total
    <3> HIDE DEF g, h, G, r, x
    <3>4. g[r] = h[r]
      BY <2>2, <3>1, AddsUnique
    <3>5. G[s] = w[x] + G[r]
      BY <2>3, <3>2, <3>3, <3>4
    <3> QED
      BY <3>5 DEF r, x
  <2> QED
    BY <2>4, <2>5
<1>6. G[{}] = 0 /\ G = [s \in SUBSET A |-> G[s]]
  OBVIOUS
<1> HIDE DEF G
<1>7. Adds(G, w, A)
  BY <1>5, <1>6 DEF Adds
<1> QED
  BY <1>2, <1>7

LEMMA TotalIs ==
  ASSUME NEW S, IsFiniteSet(S), NEW w, NEW g, Adds(g, w, S)
  PROVE  \A T \in SUBSET S : g[T] = Total(w, T)
<1> SUFFICES ASSUME NEW T \in SUBSET S PROVE g[T] = Total(w, T)
  OBVIOUS
<1> DEFINE h == CHOOSE f : Adds(f, w, T)
<1>1. IsFiniteSet(T)
  BY FS_Subset
<1>2. Adds(h, w, T)
  BY <1>1, AddsExists
<1>3. h[T] = Total(w, T)
  BY DEF Total
<1> HIDE DEF h
<1> QED
  BY <1>1, <1>2, <1>3, AddsUnique

\* The values added up are numbers.
Numbers(w, S) == \A x \in S : w[x] \in Nat

LEMMA TotalEmpty ==
  ASSUME NEW w
  PROVE  Total(w, {}) = 0
<1>1. PICK g : Adds(g, w, {})
  BY AddsExists, FS_EmptySet
<1>2. g[{}] = Total(w, {})
  BY <1>1, TotalIs, FS_EmptySet
<1> QED
  BY <1>1, <1>2 DEF Adds

\* The order in which the values are added up does not matter.
LEMMA TotalRemove ==
  ASSUME NEW S, IsFiniteSet(S), NEW w, Numbers(w, S)
  PROVE  /\ Total(w, S) \in Nat
         /\ \A x \in S : Total(w, S) = w[x] + Total(w, S \ {x})
<1> DEFINE Good(A) == /\ Total(w, A) \in Nat
                      /\ \A x \in A : Total(w, A) = w[x] + Total(w, A \ {x})
           Bad == {A \in SUBSET S : ~Good(A)}
<1>1. SUFFICES ASSUME Bad # {} PROVE FALSE
  OBVIOUS
<1>2. PICK A \in Bad : \A B \in Bad : B \subseteq A => B = A
  <2>1. Bad \in SUBSET (SUBSET S)
    OBVIOUS
  <2> HIDE DEF Bad
  <2> QED
    BY <1>1, <2>1, SmallestMember
<1>3. A \in SUBSET S /\ ~Good(A) /\ \A B \in SUBSET A : B # A => Good(B)
  BY <1>2
<1>4. A # {}
  <2>1. Good({})
    BY TotalEmpty
  <2> HIDE DEF Good
  <2> QED
    BY <1>3, <2>1
<1> DEFINE y == CHOOSE x \in A : TRUE
<1>5. y \in A
  BY <1>4
<1>6. Total(w, A) = w[y] + Total(w, A \ {y})
  <2>1. IsFiniteSet(A)
    BY <1>3, FS_Subset
  <2>2. PICK g : Adds(g, w, A)
    BY <2>1, AddsExists
  <2>3. g[A] = w[y] + g[A \ {y}]
    BY <1>4, <2>2 DEF Adds
  <2> HIDE DEF y
  <2> QED
    BY <2>1, <2>2, <2>3, TotalIs
<1> HIDE DEF y
<1>7. Good(A \ {y}) /\ w[y] \in Nat
  <2>1. A \ {y} \in SUBSET A /\ A \ {y} # A
    BY <1>5
  <2> HIDE DEF Good
  <2> QED
    BY <1>3, <1>5, <2>1 DEF Numbers
<1>8. Total(w, A) \in Nat
  BY <1>6, <1>7
<1>9. ASSUME NEW x \in A, x # y
      PROVE  Total(w, A) = w[x] + Total(w, A \ {x})
  <2> DEFINE r == (A \ {x}) \ {y}
  <2>1. Good(A \ {x})
    <3>1. A \ {x} \in SUBSET A /\ A \ {x} # A
      OBVIOUS
    <3> HIDE DEF Good
    <3> QED
      BY <1>3, <3>1
  <2>2. Good(r)
    <3>1. r \in SUBSET A /\ r # A
      OBVIOUS
    <3> HIDE DEF Good
    <3> QED
      BY <1>3, <3>1
  <2>3. Total(w, A \ {x}) = w[y] + Total(w, r)
    BY <1>5, <1>9, <2>1
  <2>4. Total(w, A \ {y}) = w[x] + Total(w, r)
    <3>1. (A \ {y}) \ {x} = r
      OBVIOUS
    <3> QED
      BY <1>7, <1>9, <3>1
  <2>5. w[x] \in Nat /\ Total(w, r) \in Nat
    BY <1>3, <2>2 DEF Numbers
  <2> HIDE DEF r, Good
  <2> QED
    BY <1>6, <1>7, <2>3, <2>4, <2>5
<1> QED
  BY <1>3, <1>6, <1>8, <1>9

\* One value more.
LEMMA TotalAdd ==
  ASSUME NEW S, IsFiniteSet(S), NEW w, NEW x, x \notin S, Numbers(w, S), w[x] \in Nat
  PROVE  Total(w, S \cup {x}) = Total(w, S) + w[x]
<1>1. IsFiniteSet(S \cup {x}) /\ (S \cup {x}) \ {x} = S
  BY FS_AddElement
<1>2. Numbers(w, S \cup {x})
  BY DEF Numbers
<1>3. Total(w, S \cup {x}) = w[x] + Total(w, S)
  BY <1>1, <1>2, TotalRemove
<1>4. Total(w, S) \in Nat
  BY TotalRemove
<1> QED
  BY <1>3, <1>4

\* Only the values on the set count.
LEMMA TotalSame ==
  ASSUME NEW S, IsFiniteSet(S), NEW w, NEW v, \A x \in S : w[x] = v[x]
  PROVE  Total(w, S) = Total(v, S)
<1>1. PICK g : Adds(g, w, S)
  BY AddsExists
<1>2. PICK h : Adds(h, v, S)
  BY AddsExists
<1>3. g[S] = h[S]
  BY <1>1, <1>2, AddsUnique
<1> QED
  BY <1>1, <1>2, <1>3, TotalIs

\* The total of two sets that have nothing in common.
LEMMA TotalUnion ==
  ASSUME NEW S, IsFiniteSet(S), NEW T, IsFiniteSet(T), S \cap T = {}, NEW w,
         Numbers(w, S), Numbers(w, T)
  PROVE  Total(w, S \cup T) = Total(w, S) + Total(w, T)
<1> DEFINE F == {A \in SUBSET T : Total(w, S \cup A) = Total(w, S) + Total(w, A)}
<1>0. Total(w, S) \in Nat
  BY TotalRemove
<1>1. {} \in F
  <2>1. S \cup {} = S
    OBVIOUS
  <2> QED
    BY <1>0, <2>1, TotalEmpty
<1>2. ASSUME NEW A \in F, NEW x \in T \ A
      PROVE  A \cup {x} \in F
  <2>1. IsFiniteSet(A) /\ IsFiniteSet(S \cup A)
    BY FS_Subset, FS_Union
  <2>2. Numbers(w, A) /\ Numbers(w, S \cup A) /\ w[x] \in Nat /\ x \notin S \cup A
    BY DEF Numbers
  <2>3. Total(w, A \cup {x}) = Total(w, A) + w[x] /\ Total(w, A) \in Nat
    BY <2>1, <2>2, TotalAdd, TotalRemove
  <2>4. Total(w, (S \cup A) \cup {x}) = Total(w, S \cup A) + w[x]
    BY <2>1, <2>2, TotalAdd
  <2>5. (S \cup A) \cup {x} = S \cup (A \cup {x})
    OBVIOUS
  <2>6. Total(w, S \cup (A \cup {x})) = Total(w, S) + Total(w, A \cup {x})
    <3>1. Total(w, S \cup A) = Total(w, S) + Total(w, A)
      OBVIOUS
    <3> HIDE DEF F
    <3> QED
      BY <1>0, <2>2, <2>3, <2>4, <2>5, <3>1
  <2> QED
    BY <2>6
<1>3. F \in SUBSET (SUBSET T)
  OBVIOUS
<1> HIDE DEF F
<1>4. F = SUBSET T
  BY <1>1, <1>2, <1>3, SubsetInduction
<1> QED
  BY <1>4 DEF F

\* The elements counted.
LEMMA TotalOfOnes ==
  ASSUME NEW S, IsFiniteSet(S), NEW w, \A x \in S : w[x] = 1
  PROVE  Total(w, S) = Cardinality(S)
<1> DEFINE F == {A \in SUBSET S : Total(w, A) = Cardinality(A)}
<1>1. {} \in F
  BY TotalEmpty, FS_EmptySet
<1>2. ASSUME NEW A \in F, NEW x \in S \ A
      PROVE  A \cup {x} \in F
  <2>1. IsFiniteSet(A) /\ Numbers(w, A) /\ w[x] = 1
    BY FS_Subset DEF Numbers
  <2>2. Total(w, A \cup {x}) = Total(w, A) + 1
    BY <2>1, TotalAdd
  <2>3. Cardinality(A \cup {x}) = Cardinality(A) + 1
    BY <2>1, FS_AddElement
  <2> QED
    BY <2>2, <2>3
<1>3. F \in SUBSET (SUBSET S)
  OBVIOUS
<1> HIDE DEF F
<1>4. F = SUBSET S
  BY <1>1, <1>2, <1>3, SubsetInduction
<1> QED
  BY <1>4 DEF F

\* Larger values have a larger total.
LEMMA TotalGrows ==
  ASSUME NEW S, IsFiniteSet(S), NEW w, NEW v, Numbers(w, S), Numbers(v, S),
         \A x \in S : w[x] <= v[x]
  PROVE  Total(w, S) <= Total(v, S)
<1> DEFINE F == {A \in SUBSET S : Total(w, A) <= Total(v, A)}
<1>1. {} \in F
  BY TotalEmpty
<1>2. ASSUME NEW A \in F, NEW x \in S \ A
      PROVE  A \cup {x} \in F
  <2>1. IsFiniteSet(A) /\ Numbers(w, A) /\ Numbers(v, A) /\ w[x] \in Nat /\ v[x] \in Nat
    BY FS_Subset DEF Numbers
  <2>2. /\ Total(w, A \cup {x}) = Total(w, A) + w[x] /\ Total(w, A) \in Nat
        /\ Total(v, A \cup {x}) = Total(v, A) + v[x] /\ Total(v, A) \in Nat
    BY <2>1, TotalAdd, TotalRemove
  <2>3. Total(w, A) <= Total(v, A) /\ w[x] <= v[x]
    OBVIOUS
  <2>4. Total(w, A \cup {x}) <= Total(v, A \cup {x})
    <3> HIDE DEF F
    <3> QED
      BY <2>1, <2>2, <2>3
  <2> QED
    BY <2>4
<1>3. F \in SUBSET (SUBSET S)
  OBVIOUS
<1> HIDE DEF F
<1>4. F = SUBSET S
  BY <1>1, <1>2, <1>3, SubsetInduction
<1> QED
  BY <1>4 DEF F

\* The parts that G names: part[g] for each g.
Parts(part, G) == UNION {part[g] : g \in G}

\* The totals of the parts of a set add up to the total of the set.
LEMMA TotalOfParts ==
  ASSUME NEW G, IsFiniteSet(G), NEW X, IsFiniteSet(X), NEW part \in [G -> SUBSET X],
         \A g, h \in G : g # h => part[g] \cap part[h] = {},
         NEW w, Numbers(w, X), NEW v, \A g \in G : v[g] = Total(w, part[g])
  PROVE  Total(v, G) = Total(w, Parts(part, G))
<1> DEFINE F == {H \in SUBSET G : Total(v, H) = Total(w, Parts(part, H))}
<1>1. {} \in F
  <2>1. Parts(part, {}) = {}
    BY DEF Parts
  <2> QED
    BY <2>1, TotalEmpty
<1>2. ASSUME NEW H \in F, NEW g \in G \ H
      PROVE  H \cup {g} \in F
  <2> DEFINE U == Parts(part, H)
             P == part[g]
  <2>1. U \in SUBSET X /\ P \in SUBSET X /\ U \cap P = {} /\ Parts(part, H \cup {g}) = U \cup P
    <3>1. H \in SUBSET G
      OBVIOUS
    <3> HIDE DEF F
    <3> QED
      BY <3>1 DEF Parts
  <2>2. Total(v, H) = Total(w, U)
    OBVIOUS
  <2>3. H \in SUBSET G /\ IsFiniteSet(H) /\ v[g] = Total(w, P)
    BY FS_Subset
  <2> HIDE DEF F, U, P
  <2>4. IsFiniteSet(U) /\ IsFiniteSet(P) /\ Numbers(w, U) /\ Numbers(w, P)
    BY <2>1, FS_Subset DEF Numbers
  <2>5. Total(w, U \cup P) = Total(w, U) + Total(w, P)
    BY <2>1, <2>4, TotalUnion
  <2>6. Numbers(v, H) /\ v[g] \in Nat
    <3>1. ASSUME NEW h \in H PROVE v[h] \in Nat
      <4>1. v[h] = Total(w, part[h]) /\ part[h] \in SUBSET X
        BY <2>3
      <4>2. IsFiniteSet(part[h]) /\ Numbers(w, part[h])
        BY <4>1, FS_Subset DEF Numbers
      <4> QED
        BY <4>1, <4>2, TotalRemove
    <3> QED
      BY <2>3, <2>4, <3>1, TotalRemove DEF Numbers
  <2>7. Total(v, H \cup {g}) = Total(v, H) + v[g]
    BY <2>3, <2>6, TotalAdd
  <2>8. Total(v, H \cup {g}) = Total(w, Parts(part, H \cup {g}))
    BY <2>1, <2>2, <2>3, <2>5, <2>7
  <2> QED
    BY <2>3, <2>8 DEF F
<1>3. F \in SUBSET (SUBSET G)
  OBVIOUS
<1> HIDE DEF F
<1>4. F = SUBSET G
  BY <1>1, <1>2, <1>3, SubsetInduction
<1> QED
  BY <1>4 DEF F

\* The parts of a set, counted, add up to the set.
LEMMA CountOfParts ==
  ASSUME NEW G, IsFiniteSet(G), NEW X, IsFiniteSet(X), NEW part \in [G -> SUBSET X],
         \A g, h \in G : g # h => part[g] \cap part[h] = {},
         NEW v, \A g \in G : v[g] = Cardinality(part[g])
  PROVE  Total(v, G) = Cardinality(Parts(part, G))
<1> DEFINE w == [x \in X |-> 1]
<1>1. \A x \in X : w[x] = 1
  OBVIOUS
<1>2. Parts(part, G) \in SUBSET X
  BY DEF Parts
<1> HIDE DEF w
<1>3. Numbers(w, X)
  BY <1>1 DEF Numbers
<1>4. ASSUME NEW A \in SUBSET X PROVE Total(w, A) = Cardinality(A)
  BY <1>1, FS_Subset, TotalOfOnes
<1>5. \A g \in G : v[g] = Total(w, part[g])
  BY <1>4
<1> QED
  BY <1>2, <1>3, <1>4, <1>5, TotalOfParts

\* Overlapping parts count for more than the set they cover.
LEMMA CountOfCover ==
  ASSUME NEW G, IsFiniteSet(G), NEW X, IsFiniteSet(X), NEW part \in [G -> SUBSET X],
         NEW v, \A g \in G : v[g] = Cardinality(part[g])
  PROVE  Cardinality(Parts(part, G)) <= Total(v, G)
<1> DEFINE F == {H \in SUBSET G : Cardinality(Parts(part, H)) <= Total(v, H)}
<1>1. {} \in F
  <2>1. Parts(part, {}) = {}
    BY DEF Parts
  <2> QED
    BY <2>1, TotalEmpty, FS_EmptySet
<1>2. ASSUME NEW H \in F, NEW g \in G \ H
      PROVE  H \cup {g} \in F
  <2> DEFINE U == Parts(part, H)
             P == part[g]
  <2>1. U \in SUBSET X /\ P \in SUBSET X /\ Parts(part, H \cup {g}) = U \cup P
    <3>1. H \in SUBSET G
      OBVIOUS
    <3> HIDE DEF F
    <3> QED
      BY <3>1 DEF Parts
  <2>2. Cardinality(U) <= Total(v, H)
    OBVIOUS
  <2>3. H \in SUBSET G /\ IsFiniteSet(H) /\ v[g] = Cardinality(P)
    BY FS_Subset
  <2> HIDE DEF F, U, P
  <2>4. /\ IsFiniteSet(U) /\ IsFiniteSet(P) /\ Cardinality(U) \in Nat /\ Cardinality(P) \in Nat
        /\ IsFiniteSet(U \cap P) /\ Cardinality(U \cap P) \in Nat
    BY <2>1, FS_Subset, FS_Intersection, FS_CardinalityType
  <2>5. Cardinality(U \cup P) = Cardinality(U) + Cardinality(P) - Cardinality(U \cap P)
    BY <2>4, FS_Union
  <2>6. Numbers(v, H) /\ v[g] \in Nat
    <3>1. ASSUME NEW h \in H PROVE v[h] \in Nat
      <4>1. v[h] = Cardinality(part[h]) /\ part[h] \in SUBSET X
        BY <2>3
      <4> QED
        BY <4>1, FS_Subset, FS_CardinalityType
    <3> QED
      BY <2>3, <2>4, <3>1 DEF Numbers
  <2>7. Total(v, H \cup {g}) = Total(v, H) + v[g]
    BY <2>3, <2>6, TotalAdd
  <2>8. Total(v, H) \in Nat
    BY <2>3, <2>6, TotalRemove
  <2>9. Cardinality(U \cup P) <= Cardinality(U) + Cardinality(P)
    BY <2>4, <2>5
  <2>10. Cardinality(U) + Cardinality(P) <= Total(v, H) + v[g]
    BY <2>2, <2>3, <2>4, <2>8
  <2>11. Cardinality(U \cup P) \in Nat
    BY <2>4, FS_Union, FS_CardinalityType
  <2>12. Cardinality(Parts(part, H \cup {g})) <= Total(v, H \cup {g})
    <3>1. Cardinality(Parts(part, H \cup {g})) = Cardinality(U \cup P)
      BY <2>1, Zenon
    <3>2. Cardinality(U \cup P) <= Total(v, H) + v[g]
      BY <2>4, <2>6, <2>8, <2>9, <2>10, <2>11
    <3> QED
      BY <2>7, <3>1, <3>2
  <2> QED
    BY <2>3, <2>12 DEF F
<1>3. F \in SUBSET (SUBSET G)
  OBVIOUS
<1> HIDE DEF F
<1>4. F = SUBSET G
  BY <1>1, <1>2, <1>3, SubsetInduction
<1> QED
  BY <1>4 DEF F

-----------------------------------------------------------------------------
(* Images, lines and sums over an image                                    *)

\* The image of a finite set is finite and not larger.
LEMMA FiniteImage ==
  ASSUME NEW S, IsFiniteSet(S), NEW f
  PROVE  /\ IsFiniteSet({f[x] : x \in S})
         /\ Cardinality({f[x] : x \in S}) <= Cardinality(S)
<1> DEFINE T == {f[x] : x \in S}
           g == [x \in S |-> f[x]]
<1>1. g \in [S -> T] /\ \A t \in T : \E x \in S : g[x] = t
  OBVIOUS
<1> HIDE DEF T, g
<1>2. g \in Surjection(S, T)
  BY <1>1 DEF Surjection
<1>3. IsFiniteSet(T) /\ Cardinality(T) <= Cardinality(S)
  BY <1>2, FS_Surjection
<1> QED
  BY <1>3 DEF T

\* The least of some natural numbers.
LEMMA LeastNumber ==
  ASSUME NEW S, IsFiniteSet(S), S # {}, S \subseteq Nat
  PROVE  \E x \in S : \A y \in S : x <= y
<1> DEFINE R == {p \in S \X S : p[1] < p[2]}
<1>1. \A x, y \in S : <<x, y>> \in R <=> x < y
  OBVIOUS
<1> HIDE DEF R
<1>2. Linear(R, S)
  BY <1>1 DEF Linear
<1>3. PICK x \in S : \A y \in S : y # x => <<x, y>> \in R
  BY <1>2, RankFirst
<1>4. ASSUME NEW y \in S PROVE x <= y
  <2>1. x \in Nat /\ y \in Nat
    OBVIOUS
  <2>2. y # x => x < y
    BY <1>1, <1>3
  <2> QED
    BY <2>1, <2>2
<1> QED
  BY <1>4

\* A sequence of the elements of S in the order of their ranks.
InLine(s, R, S) ==
  /\ DOMAIN s = 1 .. Cardinality(S)
  /\ \A i \in 1 .. Cardinality(S) : s[i] \in S /\ Rank(R, S, s[i]) = i - 1

LEMMA LineIs ==
  ASSUME NEW S, IsFiniteSet(S), NEW R, Linear(R, S), NEW s, InLine(s, R, S)
  PROVE  /\ Cardinality(S) \in Nat
         /\ \A x \in S : \E i \in 1 .. Cardinality(S) : s[i] = x
         /\ \A i, j \in 1 .. Cardinality(S) : i < j <=> <<s[i], s[j]>> \in R
         /\ \A i, j \in 1 .. Cardinality(S) : s[i] = s[j] => i = j
<1> DEFINE n == Cardinality(S)
<1>1. n \in Nat
  BY FS_CardinalityType
<1>2. \A i \in 1 .. n : s[i] \in S /\ Rank(R, S, s[i]) = i - 1
  BY DEF InLine
<1>3. \A x \in S : Rank(R, S, x) \in 0 .. n - 1
  BY RankGrows
<1>4. ASSUME NEW x \in S PROVE \E i \in 1 .. n : s[i] = x
  <2> DEFINE i == Rank(R, S, x) + 1
  <2>1. i \in 1 .. n /\ Rank(R, S, x) = i - 1
    BY <1>1, <1>3
  <2>2. s[i] \in S /\ Rank(R, S, s[i]) = Rank(R, S, x)
    BY <1>2, <2>1
  <2>3. s[i] = x
    BY <2>2, RankGrows
  <2> QED
    BY <2>1, <2>3
<1>5. ASSUME NEW i \in 1 .. n, NEW j \in 1 .. n
      PROVE  i < j <=> <<s[i], s[j]>> \in R
  <2>1. <<s[i], s[j]>> \in R <=> Rank(R, S, s[i]) < Rank(R, S, s[j])
    BY <1>2, RankGrows
  <2> QED
    BY <1>2, <2>1
<1>6. ASSUME NEW i \in 1 .. n, NEW j \in 1 .. n, s[i] = s[j] PROVE i = j
  BY <1>2, <1>6
<1> QED
  BY <1>1, <1>4, <1>5, <1>6

\* A single value.
LEMMA TotalOfOne ==
  ASSUME NEW w, NEW x, w[x] \in Nat
  PROVE  Total(w, {x}) = w[x]
<1>1. Numbers(w, {}) /\ IsFiniteSet({}) /\ {} \cup {x} = {x}
  BY FS_EmptySet DEF Numbers
<1>2. Total(w, {} \cup {x}) = Total(w, {}) + w[x]
  BY <1>1, TotalAdd
<1> QED
  BY <1>1, <1>2, TotalEmpty

\* Adding up over an image that keeps the elements apart.
LEMMA TotalOfImage ==
  ASSUME NEW K, IsFiniteSet(K), NEW f, \A k, l \in K : f[k] = f[l] => k = l,
         NEW w, NEW u, \A k \in K : w[f[k]] = u[k], Numbers(u, K)
  PROVE  Total(w, {f[k] : k \in K}) = Total(u, K)
<1> DEFINE I == {f[k] : k \in K}
           part == [g \in I |-> {k \in K : f[k] = g}]
<1>1. IsFiniteSet(I)
  BY FiniteImage
<1>2. part \in [I -> SUBSET K] /\ \A g, h \in I : g # h => part[g] \cap part[h] = {}
  OBVIOUS
<1>3. \A k \in K : f[k] \in I /\ part[f[k]] = {k}
  OBVIOUS
<1>4. \A g \in I : \E k \in K : g = f[k]
  OBVIOUS
<1> HIDE DEF I, part
<1>5. ASSUME NEW g \in I PROVE w[g] = Total(u, part[g])
  <2>1. PICK k \in K : g = f[k]
    BY <1>4
  <2>2. part[g] = {k} /\ w[g] = u[k] /\ u[k] \in Nat
    BY <1>3, <2>1 DEF Numbers
  <2>3. Total(u, {k}) = u[k]
    BY <2>2, TotalOfOne
  <2> QED
    BY <2>2, <2>3
<1>6. Total(w, I) = Total(u, Parts(part, I))
  BY <1>1, <1>2, <1>5, TotalOfParts
<1>7. Parts(part, I) = K
  BY <1>2, <1>3 DEF Parts
<1> QED
  BY <1>6, <1>7 DEF I
=============================================================================
